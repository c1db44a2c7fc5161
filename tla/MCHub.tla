------------------------------- MODULE MCHub -------------------------------
(* Hub on a small instance.                                                *)
EXTENDS Hub
=============================================================================
