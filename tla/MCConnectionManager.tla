-------------------------- MODULE MCConnectionManager --------------------------
(***************************************************************************)
(* Instances of ConnectionManager for TLC.  The field of a device and a    *)
(* platform is the pair of the two.  The device id c1 is d1, a ':' and     *)
(* more; the other ids have no ':' and none occurs in another.             *)
(***************************************************************************)
EXTENDS ConnectionManager, TLC

CONSTANTS u1, u2, d1, d2, c1, p1

Id(u, d, p) == [user |-> u, device |-> d, platform |-> p]

\* Two devices of one user on one platform.
TwoDevices == {Id(u1, d1, p1), Id(u1, d2, p1)}
\* Two users: the device id of the second starts with the first's and a ':'.
TwoUsers == {Id(u1, d1, p1), Id(u2, c1, p1)}
OneDevice == {Id(u1, d1, p1)}
ColonDevice == {Id(u1, c1, p1)}

Pairs == Device \X Platform
PairOf == [dp \in Device \X Platform |-> dp]
Root == [f \in Pairs |-> IF f[1] = c1 THEN d1 ELSE f[1]]
SameDevice == {df \in Device \X Pairs : df[1] \in {df[2][1], Root[df[2]]}}
SamePlatformName == {pf \in Platform \X Pairs : pf[1] = pf[2][2]}

Symmetry == Permutations(Session)
=============================================================================
