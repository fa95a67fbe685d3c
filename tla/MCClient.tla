------------------------------- MODULE MCClient -------------------------------
(* A small instance of Client for TLC.                                     *)
EXTENDS Client
=============================================================================
