----------------------------- MODULE AlarmTick -----------------------------
(***************************************************************************)
(* The HAL's alarms: the system clock interrupt, alt_tick and the list of  *)
(* registered alarms it walks, alt_alarm_start and alt_alarm_stop.         *)
(*                                                                         *)
(* Start and stop disable interrupts, so outside a tick each is one step;  *)
(* a callback runs in the middle of alt_tick's walk and may call both.     *)
(* The tick count and the times of alarms are alt_u32s and wrap.           *)
(*                                                                         *)
(* An alarm is started when it is not registered, and stopped only once it *)
(* has been started: before that its links are not initialised.  A         *)
(* callback that wants its own alarm again returns the period, and does    *)
(* not start it.                                                           *)
(***************************************************************************)
EXTENDS Integers, FiniteSets

CONSTANTS
  Alarms,
  ListHead,     \* alt_alarm_list, the head of the list
  W,            \* the width of alt_u32
  Intervals,    \* the values callers pass as nticks
  Periods,      \* the values callbacks return
  Stoppable     \* the alarms the callback of each alarm may stop

\* The values of an alt_u32, and how many there are.
Modulus == 2^W
u32 == 0 .. Modulus - 1

ASSUME AlarmAssumption ==
  /\ ListHead \notin Alarms /\ IsFiniteSet(Alarms)
  /\ W \in Nat \ {0} /\ Modulus \in Nat \ {0, 1}
  /\ Intervals \subseteq u32 /\ Periods \subseteq u32
  /\ Stoppable \in [Alarms -> SUBSET Alarms]

VARIABLES
  to,              \* the timer's TO bit: its period has elapsed
  _alt_nticks,
  next, previous,  \* the links of the head and of each alarm
  time, rollover,  \* the fields of each alarm
  \* alt_tick: where it is, and its locals alarm and next
  tick, alarm, saved,
  \* history: the alarms ever started, those registered, and the ticks each
  \* registered alarm has still to wait
  started, registered, wait

listVars   == <<next, previous, registered>>
alarmVars  == <<time, rollover, wait>>
walkVars   == <<tick, alarm, saved>>
vars == <<to, _alt_nticks, listVars, alarmVars, walkVars, started>>

Links == Alarms \union {ListHead}

Init ==
  /\ to = FALSE /\ _alt_nticks = 0
  /\ next = [x \in Links |-> x] /\ previous = [x \in Links |-> x]
  /\ time = [a \in Alarms |-> 0] /\ rollover = [a \in Alarms |-> FALSE]
  /\ tick = "none" /\ alarm = ListHead /\ saved = ListHead
  /\ started = {} /\ registered = {} /\ wait = [a \in Alarms |-> 0]

-----------------------------------------------------------------------------
(***************************************************************************)
(* The list.                                                               *)
(***************************************************************************)

\* alt_llist_insert(&alt_alarm_list, a)
Insert(a) ==
  /\ next' = [next EXCEPT ![a] = next[ListHead], ![ListHead] = a]
  /\ previous' = [previous EXCEPT ![next[ListHead]] = a, ![a] = ListHead]
  /\ registered' = registered \union {a}

\* Mutant: the entry after a goes on pointing back to it.
RemoveForward(a) ==
  /\ next' = [next EXCEPT ![previous[a]] = next[a], ![a] = a]
  /\ previous' = [previous EXCEPT ![a] = a]
  /\ registered' = registered \ {a}

\* alt_llist_remove(a); harmless when a is not in the list.
Remove(a) ==
  /\ next' = [next EXCEPT ![previous[a]] = next[a], ![a] = a]
  /\ previous' = [previous EXCEPT ![next[a]] = previous[a], ![a] = a]
  /\ registered' = registered \ {a}

-----------------------------------------------------------------------------
(***************************************************************************)
(* alt_alarm_start and alt_alarm_stop, outside a tick or from a callback.  *)
(***************************************************************************)
\* Mutant: the sum is taken to fit.
TimeInUnwrapped(nticks) == nticks + _alt_nticks + 1

\* The tick count when more than nticks of it have elapsed.
TimeIn(nticks) == (nticks + _alt_nticks + 1) % Modulus

Start(a, nticks) ==
  /\ a \notin registered
  /\ LET due == TimeIn(nticks)
     IN  /\ time' = [time EXCEPT ![a] = due]
         /\ rollover' = [rollover EXCEPT ![a] = due < _alt_nticks]
  /\ wait' = [wait EXCEPT ![a] = nticks + 1]
  /\ Insert(a)
  /\ started' = started \union {a}
  /\ UNCHANGED <<to, _alt_nticks, walkVars>>

Stop(a) ==
  /\ a \in started
  /\ Remove(a)
  /\ UNCHANGED <<to, _alt_nticks, alarmVars, walkVars, started>>

StartOutside(a, nticks) == tick = "none" /\ Start(a, nticks)
StopOutside(a)          == tick = "none" /\ Stop(a)

StartInCallback(a, nticks) == tick = "callback" /\ a # alarm /\ Start(a, nticks)
StopInCallback(a) == tick = "callback" /\ a \in Stoppable[alarm] /\ Stop(a)

-----------------------------------------------------------------------------
(***************************************************************************)
(* The timer, and alt_avalon_timer_sc_irq.  A period that elapses while TO *)
(* is still set is not counted.                                            *)
(***************************************************************************)
TimerExpire ==
  /\ ~to /\ to' = TRUE
  /\ UNCHANGED <<_alt_nticks, listVars, alarmVars, walkVars, started>>

TickBegin ==
  /\ tick = "none" /\ to
  /\ to' = FALSE
  /\ _alt_nticks' = (_alt_nticks + 1) % Modulus
  /\ tick' = "scan" /\ alarm' = next[ListHead] /\ UNCHANGED saved
  /\ wait' = [a \in Alarms |->
                IF a \in registered /\ wait[a] > 0 THEN wait[a] - 1 ELSE wait[a]]
  /\ UNCHANGED <<listVars, time, rollover, started>>

\* Mutant: the flag stays set.
StillRolledOver(a) == rollover[a]

\* The roll-over flag after the count itself has rolled over.
RolledOver(a) == rollover[a] /\ _alt_nticks # 0

Expired(a) == time[a] <= _alt_nticks /\ ~RolledOver(a)

\* One pass of alt_tick's loop, up to the callback if there is one.
Scan ==
  /\ tick = "scan" /\ alarm # ListHead
  /\ rollover' = [rollover EXCEPT ![alarm] = RolledOver(alarm)]
  /\ \/ Expired(alarm) /\ tick' = "callback" /\ saved' = next[alarm] /\ alarm' = alarm
     \/ ~Expired(alarm) /\ alarm' = next[alarm] /\ UNCHANGED <<tick, saved>>
  /\ UNCHANGED <<to, _alt_nticks, listVars, time, wait, started>>

\* Mutant: a period that wraps is not flagged.
RolloverKept(a, due) == rollover[a]

\* The roll-over flag of an alarm whose next time has been set to due.
RolloverAfter(a, due) == rollover[a] \/ due < _alt_nticks

\* Mutant: the walk follows the link the alarm has after its callback.
AfterCallback == next[alarm]

\* The walk goes on from where the alarm pointed before its callback.
After == saved

\* The callback of alarm returns.
CallbackReturn(period) ==
  /\ tick = "callback"
  /\ \/ /\ period = 0
        /\ Remove(alarm)
        /\ UNCHANGED alarmVars
     \/ /\ period # 0
        /\ LET due == (time[alarm] + period) % Modulus
           IN  /\ time' = [time EXCEPT ![alarm] = due]
               /\ rollover' = [rollover EXCEPT ![alarm] = RolloverAfter(alarm, due)]
        /\ wait' = [wait EXCEPT ![alarm] = IF alarm \in registered THEN period ELSE @]
        /\ UNCHANGED listVars
  /\ alarm' = After /\ saved' = ListHead /\ tick' = "scan"
  /\ UNCHANGED <<to, _alt_nticks, started>>

TickEnd ==
  /\ tick = "scan" /\ alarm = ListHead
  /\ tick' = "none"
  /\ UNCHANGED <<to, _alt_nticks, listVars, alarmVars, alarm, saved, started>>

-----------------------------------------------------------------------------

Outside ==
  \E a \in Alarms :
    StopOutside(a) \/ \E nticks \in Intervals : StartOutside(a, nticks)

InCallback ==
  \E a \in Alarms :
    StopInCallback(a) \/ \E nticks \in Intervals : StartInCallback(a, nticks)

CallbackEnds == \E period \in Periods : CallbackReturn(period)

Next ==
  Outside \/ InCallback \/ CallbackEnds \/ TimerExpire \/ TickBegin \/ Scan \/ TickEnd

Spec == Init /\ [][Next]_vars

\* The timer interrupt's steps: one at most can be taken at a time.
TickSteps == TickBegin \/ Scan \/ CallbackEnds \/ TickEnd

\* The timer keeps running, its interrupt is taken, alt_tick runs on and
\* callbacks return.
FairSpec == Spec /\ WF_vars(TimerExpire) /\ WF_vars(TickSteps)

-----------------------------------------------------------------------------
(***************************************************************************)
(* Properties                                                              *)
(***************************************************************************)

\* Every variable has its type, and the walk is at an alarm when a callback
\* runs.
TypeOK ==
  /\ to \in BOOLEAN /\ _alt_nticks \in u32
  /\ next \in [Links -> Links] /\ previous \in [Links -> Links]
  /\ time \in [Alarms -> u32] /\ rollover \in [Alarms -> BOOLEAN]
  /\ tick \in {"none", "scan", "callback"}
  /\ alarm \in Links /\ saved \in Links
  /\ tick = "callback" => alarm # ListHead
  /\ started \subseteq Alarms /\ registered \subseteq started
  /\ wait \in [Alarms -> Nat]

\* The n-th entry of the list.
Entry[n \in 0 .. Cardinality(Alarms) + 1] ==
  IF n = 0 THEN ListHead ELSE next[Entry[n - 1]]

\* The list is one ring through the head and exactly the registered alarms,
\* in both directions, and every alarm taken out of it is linked to itself, so
\* that removing it again is harmless.
ListIsRegistered ==
  LET size == Cardinality(registered)
  IN  /\ {Entry[n] : n \in 1 .. size} = registered
      /\ Entry[size + 1] = ListHead
      /\ \A x \in registered \union {ListHead} : previous[next[x]] = x
      /\ \A a \in Alarms \ registered : next[a] = a /\ previous[a] = a

Fires == tick = "scan" /\ tick' = "callback"

\* No callback is made before its alarm has waited the ticks asked for, across
\* every roll-over of the tick count.
NeverEarly == [][Fires => wait[alarm] = 0]_vars

\* No callback is made for an alarm that has been stopped or has unregistered
\* itself.
StoppedIsSilent == [][Fires => alarm \in registered]_vars

\* A tick never ends with a registered alarm whose time has come and whose
\* callback was not made.
NoneMissed ==
  tick = "none" => \A a \in registered : wait[a] > 0

\* Every registered alarm goes off, or is stopped first.
AlarmsGoOff ==
  \A a \in Alarms :
    a \in registered ~> a \notin registered \/ (tick = "callback" /\ alarm = a)
=============================================================================
