------------------------------ MODULE MCMessenger ------------------------------
(* A small instance of Messenger for TLC. *)
EXTENDS Messenger
================================================================================
