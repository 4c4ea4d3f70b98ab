---------------------------- MODULE MCAlarmTick ----------------------------
(***************************************************************************)
(* Instances of AlarmTick for TLC.                                         *)
(***************************************************************************)
EXTENDS AlarmTick

\* Callbacks that unregister no alarm but their own, and any.
MCStopSelf == [a \in Alarms |-> {a}]
MCStopAny  == [a \in Alarms |-> Alarms]
=============================================================================
