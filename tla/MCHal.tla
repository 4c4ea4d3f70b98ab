------------------------------- MODULE MCHal --------------------------------
(***************************************************************************)
(* The HAL's services side by side, for one run of TLC: the alarms, the    *)
(* file descriptors, the polled JTAG UART driver, the time of day and the  *)
(* profiler.  They share no state here.  A behaviour runs one of them,     *)
(* chosen at the start, and the others stay as they are.  The properties   *)
(* are checked under the names of their modules.                           *)
(***************************************************************************)
EXTENDS AlarmTick, FdTable, JtagUartSmall, TimeOfDay, Profile

VARIABLE part    \* the service that runs

\* The callback of an alarm stops no other.
MCStoppable == [x \in Alarms |-> {x}]

\* The standard streams are on one device, as system.h has them.
MCStdio == [fd \in 0 .. 2 |-> CHOOSE d \in Draining : TRUE]

\* Times callers set.
MCTimes == [tv_sec : {0, 1, 4}, tv_usec : 0 .. 5]

halVars == <<part, vars, fdVars, smallVars, todVars, profVars>>

HalInit ==
  /\ part \in {"alarms", "fds", "small", "tod", "prof"}
  /\ Init /\ FdInit /\ SmallInit /\ TodInit /\ ProfInit

RunsAlarms == part = "alarms"
RunsSmall == part = "small"

HalNext ==
  \/ /\ RunsAlarms /\ UNCHANGED part /\ Next
     /\ UNCHANGED <<fdVars, smallVars, todVars, profVars>>
  \/ /\ part = "fds" /\ UNCHANGED part /\ FdNext
     /\ UNCHANGED <<vars, smallVars, todVars, profVars>>
  \/ /\ RunsSmall /\ UNCHANGED part /\ SmallNext
     /\ UNCHANGED <<vars, fdVars, todVars, profVars>>
  \/ /\ part = "tod" /\ UNCHANGED part /\ TodNext
     /\ UNCHANGED <<vars, fdVars, smallVars, profVars>>
  \/ /\ part = "prof" /\ UNCHANGED part /\ ProfNext
     /\ UNCHANGED <<vars, fdVars, smallVars, todVars>>

\* The fairness of each module that states some, in the behaviours that run it.
HalSpec ==
  /\ HalInit /\ [][HalNext]_halVars
  /\ WF_vars(RunsAlarms /\ TimerExpire)
  /\ WF_vars(RunsAlarms /\ TickSteps)
  /\ WF_smallVars(RunsSmall /\ Reading)
  /\ WF_smallVars(RunsSmall /\ Writing)
  /\ SF_smallVars(RunsSmall /\ HostTake)

-----------------------------------------------------------------------------
\* The type invariants of all five modules.
HalTypeOK ==
  TypeOK /\ FdTypeOK /\ SmallTypeOK /\ TodTypeOK /\ ProfileTypeOK
=============================================================================
