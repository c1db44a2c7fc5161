------------------------- MODULE MCTerminalRegistry -------------------------
(* TerminalRegistry on small instances.                                    *)
EXTENDS TerminalRegistry, TLC

\* Terminals, requests and sessions are interchangeable.
Symmetry == Permutations(Terms) \cup Permutations(Reqs) \cup Permutations(Sessions)
=============================================================================
