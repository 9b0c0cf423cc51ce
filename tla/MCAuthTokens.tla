---- MODULE MCAuthTokens ----
EXTENDS AuthTokens, TLC
\* Request threads are interchangeable.
Sym == Permutations(Procs)
====
