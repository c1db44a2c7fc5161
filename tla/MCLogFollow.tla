----------------------------- MODULE MCLogFollow -----------------------------
(* LogFollow on a small instance.  Without symmetry: the run checks         *)
(* liveness.                                                                *)
EXTENDS LogFollow
=============================================================================
