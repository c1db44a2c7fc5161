-------------------------- MODULE MCSessionManager --------------------------
(* SessionManager on small instances.                                      *)
EXTENDS SessionManager, TLC

\* Conversations are interchangeable, and so are requests.
Symmetry == Permutations(Convs) \cup Permutations(Reqs)
=============================================================================
