------------------------------ MODULE MCProfile ------------------------------
(***************************************************************************)
(* Instance of Profile for TLC: interrupts at the program's first calls.   *)
(***************************************************************************)
EXTENDS Profile
=============================================================================
