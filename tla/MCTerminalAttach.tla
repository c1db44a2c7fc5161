-------------------------- MODULE MCTerminalAttach --------------------------
(* TerminalAttach on small instances.                                      *)
EXTENDS TerminalAttach, TLC

\* Clients are interchangeable.
Symmetry == Permutations(Clients)
=============================================================================
