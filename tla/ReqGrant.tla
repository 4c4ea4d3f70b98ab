------------------------------ MODULE ReqGrant ------------------------------
(***************************************************************************)
(* in_fsm: a master asks for the bus with req and holds it until done, and *)
(* for as long as dly after that.  A step is a rising edge of clk.  The    *)
(* reset is commented out, so the state powers up with any value.          *)
(***************************************************************************)
EXTENDS Naturals

VARIABLES
  req, done, dly,   \* input ports
  state

grantVars == <<req, done, dly, state>>

Init ==
  /\ req \in BOOLEAN /\ done \in BOOLEAN /\ dly \in BOOLEAN
  /\ state \in {"IDLE", "BBUSY", "BWAIT", "BFREE"}

gnt == state \in {"BBUSY", "BWAIT"}

\* Mutant: a master that is done waits for its delay where it is.
BusyWhileDelayed == ~done \/ dly

\* BBUSY lasts until done.
Busy == ~done

next ==
  CASE state \in {"IDLE", "BFREE"} -> IF req THEN "BBUSY" ELSE "IDLE"
    [] state = "BBUSY" -> IF Busy THEN "BBUSY"
                          ELSE IF dly THEN "BWAIT" ELSE "BFREE"
    [] state = "BWAIT" -> IF dly THEN "BWAIT" ELSE "BFREE"

PosedgeClk ==
  /\ state' = next
  /\ req' \in BOOLEAN /\ done' \in BOOLEAN /\ dly' \in BOOLEAN

Next == PosedgeClk

Spec == Init /\ [][Next]_grantVars

\* The clock never stops.
FairSpec == Spec /\ WF_state(Next)

-----------------------------------------------------------------------------
(***************************************************************************)
(* Properties                                                              *)
(***************************************************************************)
\* Every signal has its type.
GrantTypeOK ==
  /\ req \in BOOLEAN /\ done \in BOOLEAN /\ dly \in BOOLEAN
  /\ state \in {"IDLE", "BBUSY", "BWAIT", "BFREE"}

\* Whatever state the machine powers up in, the bus comes free again and again
\* if done and the absence of dly do, though never at the same edge: that is
\* what BWAIT is for.
GrantReleased == []<>done /\ []<>~dly => []<>~gnt
=============================================================================
