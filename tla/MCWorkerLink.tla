---------------------------- MODULE MCWorkerLink ----------------------------
(* WorkerLink on small instances.                                          *)
EXTENDS WorkerLink, TLC

\* Calls are interchangeable, and so are subscriptions.
Symmetry == Permutations(Calls) \cup Permutations(Subs)
=============================================================================
