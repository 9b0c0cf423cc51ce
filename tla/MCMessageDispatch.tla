--------------------------- MODULE MCMessageDispatch ---------------------------
(* Instances of MessageDispatch for TLC. *)
EXTENDS MessageDispatch, TLC

MCTask == Msg \cup {Closer(m) : m \in Msg}

\* Sessions are interchangeable, and so are messages.
Symmetry == Permutations(Session) \cup Permutations(Msg)
=============================================================================
