---------------------------- MODULE MCIrqDispatch ----------------------------
(***************************************************************************)
(* Instances of IrqDispatch for TLC: three lines, of which the handlers of *)
(* the upper two let others interrupt them.                                *)
(***************************************************************************)
EXTENDS IrqDispatch
=============================================================================
