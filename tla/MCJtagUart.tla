----------------------------- MODULE MCJtagUart -----------------------------
(***************************************************************************)
(* Instances of JtagUart for TLC.                                          *)
(***************************************************************************)
EXTENDS JtagUart

MCRequests == {0, 1, 3}
MCTimeouts == {1, 3}

\* A bound on each direction alone, and one on both together.
MCAloneOrBoth(alone, both) ==
  {t \in (0 .. alone) \X (0 .. alone) :
     t[1] = 0 \/ t[2] = 0 \/ (t[1] <= both /\ t[2] <= both)}

MCStreams == MCAloneOrBoth(5, 3)
MCReturns == MCAloneOrBoth(3, 0)
MCWrites  == {0} \X (0 .. 5)
=============================================================================
