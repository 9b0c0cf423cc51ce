--------------------------- MODULE MCMessageDelivery ---------------------------
(* Instances of MessageDelivery for TLC. *)
EXTENDS MessageDelivery, TLC

CONSTANTS u1, u2, s1, s2, s3

\* u1 has two devices, u2 has one.
Owners == s1 :> u1 @@ s2 :> u1 @@ s3 :> u2
\* Each user has one device.
OneEach == s1 :> u1 @@ s2 :> u2
\* Two devices of one user.
TwoDevices == s1 :> u1 @@ s2 :> u1
OneDevice == s1 :> u1
=============================================================================
