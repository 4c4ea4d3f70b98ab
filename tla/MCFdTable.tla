----------------------------- MODULE MCFdTable -----------------------------
(***************************************************************************)
(* Instances of FdTable for TLC: the standard streams on one device, as    *)
(* system.h has them, next to /dev/null.                                   *)
(***************************************************************************)
EXTENDS FdTable

CONSTANTS jtag_uart

MCStdio == [f \in 0 .. 2 |-> jtag_uart]
=============================================================================
