----------------------------- MODULE HalProofs ------------------------------
(***************************************************************************)
(* Proofs about three services of the HAL: the alarms, for every number of *)
(* them and width of the tick count; the memory and the lists of the       *)
(* profiler, for every size of heap, slab, entry and histogram and every   *)
(* set of functions; and the time of day.  At the end, that what is proved *)
(* of each service holds in the bench that puts them side by side.         *)
(***************************************************************************)
EXTENDS MCHal, DeviceProofs, Induction

(***************************************************************************)
(* Alarms.  alt_tick calls every alarm at the tick it asked for, not       *)
(* earlier, not later, and none that was stopped.  This holds under two    *)
(* conditions that the runs which violate NeverEarly and StoppedIsSilent   *)
(* show to be needed.                                                      *)
(***************************************************************************)
\* No caller asks for the largest interval of all.
IntervalsFit == Modulus - 1 \notin Intervals

\* A callback stops no alarm but its own.
StopsOwnOnly == \A a \in Alarms : Stoppable[a] \subseteq {a}

-----------------------------------------------------------------------------
(***************************************************************************)
(* The invariant.                                                          *)
(***************************************************************************)

\* The head and the registered alarms are linked among one another, both ways;
\* any other alarm is linked to itself.
InList == registered \union {ListHead}

Linked ==
  /\ \A x \in InList : /\ next[x] \in InList /\ previous[x] \in InList
                       /\ previous[next[x]] = x /\ next[previous[x]] = x
  /\ \A a \in Alarms \ registered : next[a] = a /\ previous[a] = a

\* The list starts at the head and visits the registered alarms in the order
\* of rank, leaving none out.
Orders(rank) ==
  /\ \A a, b \in registered : rank[a] = rank[b] => a = b
  /\ \A a \in registered : next[a] # ListHead => rank[a] < rank[next[a]]
  /\ \A a, b \in registered :
       rank[a] < rank[b] => next[a] # ListHead /\ rank[next[a]] <= rank[b]
  /\ \A b \in registered : next[ListHead] # ListHead /\ rank[next[ListHead]] <= rank[b]

\* The entry alt_tick looks at next.
Cursor == IF tick = "callback" THEN saved ELSE alarm

\* The walk is in the list, and the alarm whose callback runs, if it is still
\* registered, is on time and just before the saved one.
WalkOK ==
  /\ tick # "none" => Cursor \in InList
  /\ tick = "callback" /\ alarm \in registered =>
       next[alarm] = saved /\ wait[alarm] = 0 /\ ~rollover[alarm]

\* The walk has still to come to alarm a.
Unseen(rank, a) == tick # "none" /\ Cursor # ListHead /\ rank[Cursor] <= rank[a]

\* The tick at which a is due, were ticks not to wrap.
Due(a) == _alt_nticks + wait[a]

\* The time of every registered alarm is the tick it is due at, its flag says
\* whether the count rolls over before, and what is due has not been passed.
Timed(rank) ==
  \A a \in registered :
    /\ wait[a] < Modulus
    /\ time[a] = IF Due(a) < Modulus THEN Due(a) ELSE Due(a) - Modulus
    /\ Unseen(rank, a) => (RolledOver(a) <=> Due(a) >= Modulus)
    /\ ~Unseen(rank, a) => (rollover[a] <=> Due(a) >= Modulus)
    /\ wait[a] = 0 => Unseen(rank, a) \/ (tick = "callback" /\ a = alarm)

Walk(rank) == Orders(rank) /\ Timed(rank)

IInv ==
  /\ TypeOK /\ Linked /\ WalkOK
  /\ \E rank \in [Alarms -> Int] : Walk(rank)

-----------------------------------------------------------------------------
(***************************************************************************)
(* The list.                                                               *)
(***************************************************************************)

LEMMA HeadIsNoAlarm == ListHead \notin Alarms /\ Alarms \subseteq Links /\ ListHead \in Links
BY AlarmAssumption DEF Links

LEMMA InsertLinks ==
  ASSUME TypeOK, Linked, NEW a \in Alarms, a \notin registered, Insert(a)
  PROVE  /\ Linked'
         /\ next' \in [Links -> Links] /\ previous' \in [Links -> Links]
         /\ next'[ListHead] = a /\ next'[a] = next[ListHead]
         /\ \A x \in registered : next'[x] = next[x]
<1>1. /\ next \in [Links -> Links] /\ previous \in [Links -> Links]
      /\ registered \subseteq Alarms
  BY DEF TypeOK
<1>2. /\ next' = [next EXCEPT ![a] = next[ListHead], ![ListHead] = a]
      /\ previous' = [previous EXCEPT ![next[ListHead]] = a, ![a] = ListHead]
      /\ registered' = registered \union {a}
  BY DEF Insert
<1>3. /\ a # ListHead /\ a \in Links /\ ListHead \in Links /\ registered \subseteq Links
      /\ next[ListHead] \in InList /\ next[ListHead] # a
  BY <1>1, HeadIsNoAlarm DEF Linked, InList
<1>4. /\ next' \in [Links -> Links] /\ previous' \in [Links -> Links]
      /\ next'[ListHead] = a /\ next'[a] = next[ListHead]
      /\ \A x \in Links : x # a /\ x # ListHead => next'[x] = next[x]
      /\ previous'[a] = ListHead /\ previous'[next[ListHead]] = a
      /\ \A x \in Links : x # a /\ x # next[ListHead] => previous'[x] = previous[x]
  BY <1>1, <1>2, <1>3
<1>5. \A x \in registered : next'[x] = next[x]
  BY <1>1, <1>3, <1>4, HeadIsNoAlarm
<1>6. InList' = InList \union {a} /\ InList \subseteq Links /\ a \notin InList
  BY <1>2, <1>3 DEF InList
<1>7. ASSUME NEW x \in InList, x # ListHead
      PROVE  next'[x] \in InList /\ previous'[next'[x]] = x
  <2>1. next'[x] = next[x] /\ next[x] \in InList /\ next[x] # a
    BY <1>4, <1>6, <1>7 DEF Linked
  <2>2. next[x] # next[ListHead]
    BY <1>7 DEF Linked, InList
  <2> QED
    BY <2>1, <2>2, <1>4, <1>6, <1>7 DEF Linked
<1>8. ASSUME NEW x \in InList, x # next[ListHead]
      PROVE  previous'[x] \in InList /\ next'[previous'[x]] = x
  <2>1. previous'[x] = previous[x] /\ previous[x] \in InList
    BY <1>4, <1>6, <1>8 DEF Linked
  <2>2. previous[x] # ListHead
    BY <1>8 DEF Linked
  <2> QED
    BY <2>1, <2>2, <1>4, <1>6, <1>8 DEF Linked
<1>9. ASSUME NEW x \in InList'
      PROVE  /\ next'[x] \in InList' /\ previous'[x] \in InList'
             /\ previous'[next'[x]] = x /\ next'[previous'[x]] = x
  BY <1>3, <1>4, <1>6, <1>7, <1>8, <1>9 DEF InList
<1>10. ASSUME NEW x \in Alarms \ registered'
       PROVE  next'[x] = x /\ previous'[x] = x
  <2>1. x # a /\ x # ListHead /\ x # next[ListHead] /\ x \in Links /\ x \notin registered
    BY <1>2, <1>3, HeadIsNoAlarm DEF InList
  <2> QED
    BY <2>1, <1>4 DEF Linked
<1> QED
  BY <1>4, <1>5, <1>9, <1>10 DEF Linked

\* An alarm put at the front is given a rank below all others.
LEMMA InsertOrders ==
  ASSUME TypeOK, Linked, NEW rank \in [Alarms -> Int], Orders(rank),
         NEW a \in Alarms, a \notin registered, Insert(a)
  PROVE  \E front \in [Alarms -> Int] :
           /\ Orders(front)'
           /\ \A b \in registered : front[b] = rank[b] /\ front[a] < rank[b]
<1>1. /\ registered \subseteq Alarms /\ registered' = registered \union {a}
      /\ ListHead \notin registered'
  BY HeadIsNoAlarm DEF TypeOK, Insert
<1>2. /\ next'[ListHead] = a /\ next'[a] = next[ListHead]
      /\ \A x \in registered : next'[x] = next[x]
      /\ next[ListHead] \in InList
      /\ \A x \in registered : next[x] \in InList
  BY InsertLinks DEF Linked, InList
<1>3. next[ListHead] # ListHead => next[ListHead] \in registered /\ rank[next[ListHead]] \in Int
  BY <1>1, <1>2 DEF InList
<1>4. \E low \in Int : low = IF next[ListHead] = ListHead THEN 0 ELSE rank[next[ListHead]] - 1
  BY <1>3
<1>5. PICK low \in Int : low = IF next[ListHead] = ListHead THEN 0 ELSE rank[next[ListHead]] - 1
  BY <1>4
<1>6. \A b \in registered : /\ next[ListHead] # ListHead /\ rank[next[ListHead]] <= rank[b]
                            /\ rank[b] \in Int /\ low < rank[b]
  BY <1>1, <1>3, <1>5 DEF Orders
<1>front. PICK front \in [Alarms -> Int] :
            front[a] = low /\ \A b \in registered : front[b] = rank[b]
  <2>1. [rank EXCEPT ![a] = low] \in [Alarms -> Int]
    OBVIOUS
  <2>2. \A b \in registered : b # a
    OBVIOUS
  <2> QED
    BY <2>1, <2>2, <1>1
<1>7. \A b, c \in registered' : front[b] = front[c] => b = c
  BY <1>1, <1>front, <1>6 DEF Orders
<1>8. ASSUME NEW b \in registered', next'[b] # ListHead
      PROVE  front[b] < front[next'[b]]
  <2>1. CASE b = a
    BY <2>1, <1>2, <1>3, <1>front, <1>6, <1>8
  <2>2. CASE b # a
    <3>1. b \in registered /\ next'[b] = next[b] /\ next[b] \in registered
      BY <2>2, <1>1, <1>2, <1>8 DEF InList
    <3> QED
      BY <3>1, <1>front, <1>8 DEF Orders
  <2> QED
    BY <2>1, <2>2
<1>9. ASSUME NEW b \in registered', NEW c \in registered', front[b] < front[c]
      PROVE  next'[b] # ListHead /\ front[next'[b]] <= front[c]
  <2>1. c \in registered
    BY <1>1, <1>front, <1>6, <1>9
  <2>2. CASE b = a
    BY <2>1, <2>2, <1>2, <1>3, <1>front, <1>6
  <2>3. CASE b # a
    <3>1. b \in registered /\ next'[b] = next[b] /\ rank[b] < rank[c]
      BY <2>1, <2>3, <1>1, <1>2, <1>front, <1>9
    <3>2. next[b] # ListHead /\ rank[next[b]] <= rank[c]
      BY <2>1, <3>1 DEF Orders
    <3>3. next[b] \in registered
      BY <3>1, <3>2, <1>2 DEF InList
    <3> QED
      BY <2>1, <3>1, <3>2, <3>3, <1>front
  <2> QED
    BY <2>2, <2>3
<1>10. \A b \in registered' : next'[ListHead] # ListHead /\ front[next'[ListHead]] <= front[b]
  <2>1. a # ListHead
    BY HeadIsNoAlarm
  <2> QED
    BY <2>1, <1>1, <1>2, <1>front, <1>6
<1>11. Orders(front)'
  BY <1>7, <1>8, <1>9, <1>10 DEF Orders
<1> QED
  BY <1>front, <1>6, <1>11

LEMMA RemoveLinks ==
  ASSUME TypeOK, Linked, NEW a \in Alarms, Remove(a)
  PROVE  /\ Linked'
         /\ next' \in [Links -> Links] /\ previous' \in [Links -> Links]
         /\ registered' = registered \ {a}
         /\ a \notin registered => next' = next
         /\ \A x \in InList \ {a} : next'[x] = IF next[x] = a THEN next[a] ELSE next[x]
<1>1. /\ next \in [Links -> Links] /\ previous \in [Links -> Links]
      /\ registered \subseteq Alarms /\ a \in Links /\ a # ListHead
      /\ InList \subseteq Links
  BY HeadIsNoAlarm DEF TypeOK, InList
<1>2. /\ next' = [next EXCEPT ![previous[a]] = next[a], ![a] = a]
      /\ previous' = [previous EXCEPT ![next[a]] = previous[a], ![a] = a]
      /\ registered' = registered \ {a}
  BY DEF Remove
<1>3. next' \in [Links -> Links] /\ previous' \in [Links -> Links]
  BY <1>1, <1>2
<1>4. CASE a \notin registered
  <2>1. next[a] = a /\ previous[a] = a
    BY <1>4 DEF Linked
  <2>2. next' = next /\ previous' = previous /\ registered' = registered
    BY <2>1, <1>1, <1>2, <1>4
  <2>3. \A x \in InList : next[x] # a
    BY <1>1, <1>4 DEF Linked, InList
  <2> QED
    BY <2>2, <2>3, <1>3, <1>4 DEF Linked, InList
<1>5. CASE a \in registered
  <2>1. a \in InList /\ InList' = InList \ {a}
    BY <1>1, <1>2, <1>5 DEF InList
  <2>2. /\ next'[a] = a /\ previous'[a] = a
        /\ previous[a] # a => next'[previous[a]] = next[a]
        /\ next[a] # a => previous'[next[a]] = previous[a]
        /\ \A x \in Links : x # a /\ x # previous[a] => next'[x] = next[x]
        /\ \A x \in Links : x # a /\ x # next[a] => previous'[x] = previous[x]
    BY <1>1, <1>2
  <2>3. ASSUME NEW x \in InList \ {a}
        PROVE  /\ next'[x] = IF next[x] = a THEN next[a] ELSE next[x]
               /\ previous'[x] = IF previous[x] = a THEN previous[a] ELSE previous[x]
    BY <2>1, <2>2, <1>1 DEF Linked
  <2>4. ASSUME NEW x \in InList \ {a}
        PROVE  /\ next'[x] \in InList \ {a} /\ previous'[next'[x]] = x
    <3>1. CASE next[x] = a
      <4>1. previous[a] = x /\ next'[x] = next[a] /\ next[a] \in InList
        BY <3>1, <2>1, <2>3 DEF Linked
      <4>2. next[a] # a
        BY <4>1, <2>1 DEF Linked
      <4> QED
        BY <4>1, <4>2, <2>2
    <3>2. CASE next[x] # a
      <4>1. next'[x] = next[x] /\ next[x] \in InList \ {a} /\ previous[next[x]] = x
        BY <3>2, <2>3 DEF Linked
      <4> QED
        BY <4>1, <2>3
    <3> QED
      BY <3>1, <3>2
  <2>5. ASSUME NEW x \in InList \ {a}
        PROVE  /\ previous'[x] \in InList \ {a} /\ next'[previous'[x]] = x
    <3>1. CASE previous[x] = a
      <4>1. next[a] = x /\ previous'[x] = previous[a] /\ previous[a] \in InList
        BY <3>1, <2>1, <2>3 DEF Linked
      <4>2. previous[a] # a
        BY <4>1, <2>1 DEF Linked
      <4> QED
        BY <4>1, <4>2, <2>2
    <3>2. CASE previous[x] # a
      <4>1. /\ previous'[x] = previous[x] /\ previous[x] \in InList \ {a}
            /\ next[previous[x]] = x
        BY <3>2, <2>3 DEF Linked
      <4> QED
        BY <4>1, <2>3
    <3> QED
      BY <3>1, <3>2
  <2>6. ASSUME NEW x \in Alarms \ registered'
        PROVE  next'[x] = x /\ previous'[x] = x
    <3>1. CASE x = a
      BY <3>1, <2>2
    <3>2. CASE x # a
      <4>1. x \in Alarms \ registered /\ x \in Links /\ x \notin InList
        BY <3>2, <1>2, HeadIsNoAlarm DEF InList
      <4>2. x # previous[a] /\ x # next[a]
        BY <4>1, <2>1 DEF Linked
      <4> QED
        BY <3>2, <4>1, <4>2, <2>2 DEF Linked
    <3> QED
      BY <3>1, <3>2
  <2>7. Linked'
    BY <2>1, <2>4, <2>5, <2>6 DEF Linked
  <2> QED
    BY <2>3, <2>7, <1>2, <1>3, <1>5
<1> QED
  BY <1>4, <1>5

\* Taking an alarm out leaves the others in their order.
LEMMA RemoveOrders ==
  ASSUME TypeOK, Linked, NEW rank \in [Alarms -> Int], Orders(rank),
         NEW a \in Alarms, Remove(a)
  PROVE  Orders(rank)'
<1>1. /\ registered \subseteq Alarms /\ registered' = registered \ {a}
      /\ \A b \in registered : rank[b] \in Int
      /\ ListHead \notin registered
  BY HeadIsNoAlarm DEF TypeOK, Remove
<1>2. CASE a \notin registered
  BY <1>1, <1>2, RemoveLinks DEF Orders
<1>3. CASE a \in registered
  <2>1. /\ \A x \in registered' :
             next'[x] = IF next[x] = a THEN next[a] ELSE next[x]
        /\ next'[ListHead] = IF next[ListHead] = a THEN next[a] ELSE next[ListHead]
    BY <1>1, <1>3, RemoveLinks DEF InList
  <2>2. \A x \in registered : next[x] # ListHead => next[x] \in registered
    BY DEF Linked, InList
  <2>3. ASSUME NEW b \in registered', next'[b] # ListHead
        PROVE  rank[b] < rank[next'[b]]
    <3>1. CASE next[b] = a
      <4>1. rank[b] < rank[a] /\ rank[a] < rank[next[a]] /\ next[a] \in registered
        BY <3>1, <2>1, <2>2, <2>3, <1>1, <1>3 DEF Orders
      <4> QED
        BY <3>1, <4>1, <2>1, <1>1, <1>3
    <3>2. CASE next[b] # a
      BY <3>2, <2>1, <2>3, <1>1 DEF Orders
    <3> QED
      BY <3>1, <3>2
  <2>4. ASSUME NEW b \in registered', NEW c \in registered', rank[b] < rank[c]
        PROVE  next'[b] # ListHead /\ rank[next'[b]] <= rank[c]
    <3>1. next[b] # ListHead /\ rank[next[b]] <= rank[c]
      BY <2>4, <1>1 DEF Orders
    <3>2. CASE next[b] = a
      <4>1. rank[a] < rank[c]
        BY <3>1, <3>2, <1>1, <1>3 DEF Orders
      <4>2. next[a] # ListHead /\ rank[next[a]] <= rank[c]
        BY <4>1, <1>1, <1>3 DEF Orders
      <4> QED
        BY <3>2, <4>2, <2>1
    <3>3. CASE next[b] # a
      BY <3>1, <3>3, <2>1
    <3> QED
      BY <3>2, <3>3
  <2>5. ASSUME NEW b \in registered'
        PROVE  next'[ListHead] # ListHead /\ rank[next'[ListHead]] <= rank[b]
    <3>1. next[ListHead] # ListHead /\ rank[next[ListHead]] <= rank[b]
      BY <1>1 DEF Orders
    <3>2. CASE next[ListHead] = a
      <4>1. rank[a] < rank[b]
        BY <3>1, <3>2, <1>1, <1>3 DEF Orders
      <4>2. next[a] # ListHead /\ rank[next[a]] <= rank[b]
        BY <4>1, <1>1, <1>3 DEF Orders
      <4> QED
        BY <3>2, <4>2, <2>1
    <3>3. CASE next[ListHead] # a
      BY <3>1, <3>3, <2>1
    <3> QED
      BY <3>2, <3>3
  <2>6. \A b, c \in registered' : rank[b] = rank[c] => b = c
    BY <1>1 DEF Orders
  <2> QED
    BY <2>3, <2>4, <2>5, <2>6 DEF Orders
<1> QED
  BY <1>2, <1>3

-----------------------------------------------------------------------------
(***************************************************************************)
(* The actions.                                                            *)
(***************************************************************************)

LEMMA WrapIs ==
  ASSUME NEW x \in 0 .. 2 * Modulus - 1
  PROVE  /\ x % Modulus = IF x < Modulus THEN x ELSE x - Modulus
         /\ x % Modulus \in u32
BY AlarmAssumption DEF u32

LEMMA TimedIs ==
  ASSUME NEW rank, Timed(rank), NEW a \in registered
  PROVE  /\ wait[a] < Modulus
         /\ time[a] = IF Due(a) < Modulus THEN Due(a) ELSE Due(a) - Modulus
         /\ Unseen(rank, a) => (RolledOver(a) <=> Due(a) >= Modulus)
         /\ ~Unseen(rank, a) => (rollover[a] <=> Due(a) >= Modulus)
         /\ wait[a] = 0 => Unseen(rank, a) \/ (tick = "callback" /\ a = alarm)
BY Zenon DEF Timed

LEMMA CountsAreNat == u32 \subseteq Nat /\ Modulus \in Nat \ {0, 1}
BY AlarmAssumption DEF u32

LEMMA InitIInv == Init => IInv
<1> SUFFICES ASSUME Init PROVE IInv
  OBVIOUS
<1>1. TypeOK
  <2>1. 0 \in u32
    BY AlarmAssumption DEF u32
  <2>2. /\ [x \in Links |-> x] \in [Links -> Links]
        /\ [a \in Alarms |-> 0] \in [Alarms -> u32]
        /\ [a \in Alarms |-> 0] \in [Alarms -> Nat]
        /\ [a \in Alarms |-> FALSE] \in [Alarms -> BOOLEAN]
    BY <2>1
  <2> QED
    BY <2>1, <2>2, HeadIsNoAlarm DEF Init, TypeOK
<1>2. Linked
  BY HeadIsNoAlarm DEF Init, Linked, InList
<1>3. WalkOK
  BY DEF Init, WalkOK
<1>4. [a \in Alarms |-> 0] \in [Alarms -> Int] /\ Walk([a \in Alarms |-> 0])
  BY DEF Init, Walk, Orders, Timed
<1> QED
  BY <1>1, <1>2, <1>3, <1>4 DEF IInv

\* Starting an alarm, between ticks or from the callback of another.
LEMMA StartStep ==
  ASSUME IInv, IntervalsFit, NEW a \in Alarms, NEW lapse \in Intervals,
         Start(a, lapse), tick = "none" \/ (tick = "callback" /\ a # alarm)
  PROVE  IInv'
<1>1. /\ TypeOK /\ Linked /\ WalkOK /\ registered \subseteq Alarms
      /\ _alt_nticks \in u32 /\ time \in [Alarms -> u32]
      /\ rollover \in [Alarms -> BOOLEAN] /\ wait \in [Alarms -> Nat]
      /\ Modulus \in Nat \ {0, 1} /\ lapse \in u32 /\ lapse # Modulus - 1
  BY AlarmAssumption DEF IInv, TypeOK, IntervalsFit
<1>2. /\ a \notin registered /\ Insert(a) /\ registered' = registered \union {a}
      /\ time' = [time EXCEPT ![a] = TimeIn(lapse)]
      /\ rollover' = [rollover EXCEPT ![a] = TimeIn(lapse) < _alt_nticks]
      /\ wait' = [wait EXCEPT ![a] = lapse + 1]
      /\ started' = started \union {a}
      /\ UNCHANGED <<to, _alt_nticks, tick, alarm, saved>>
  BY DEF Start, Insert, walkVars
<1>sum. /\ TimeIn(lapse) \in u32
        /\ TimeIn(lapse) = IF lapse + _alt_nticks + 1 < Modulus
                            THEN lapse + _alt_nticks + 1
                            ELSE lapse + _alt_nticks + 1 - Modulus
  <2>1. PICK x \in 0 .. 2 * Modulus - 1 : x = lapse + _alt_nticks + 1
    BY <1>1 DEF u32
  <2>2. TimeIn(lapse) = x % Modulus
    BY <2>1 DEF TimeIn
  <2> QED
    BY <2>1, <2>2, <1>1, WrapIs, CountsAreNat
<1>3. /\ Linked'
      /\ next' \in [Links -> Links] /\ previous' \in [Links -> Links]
      /\ \A x \in registered : next'[x] = next[x]
  BY <1>1, <1>2, InsertLinks
<1>4. TypeOK'
  BY <1>1, <1>2, <1>3, <1>sum DEF TypeOK, u32
<1>5. Cursor' = Cursor /\ (tick # "none" => Cursor \in InList)
  BY <1>1, <1>2 DEF Cursor, WalkOK
<1>6. WalkOK'
  <2>1. tick' # "none" => Cursor' \in InList'
    BY <1>2, <1>5 DEF InList
  <2>2. ASSUME tick' = "callback", alarm' \in registered'
        PROVE  next'[alarm'] = saved' /\ wait'[alarm'] = 0 /\ ~rollover'[alarm']
    <3>1. alarm \in registered /\ alarm # a /\ alarm \in Alarms
      BY <2>2, <1>1, <1>2
    <3> QED
      BY <3>1, <2>2, <1>1, <1>2, <1>3 DEF WalkOK
  <2> QED
    BY <2>1, <2>2 DEF WalkOK
<1>7. PICK rank \in [Alarms -> Int] : Walk(rank)
  BY DEF IInv
<1>8. PICK front \in [Alarms -> Int] :
        /\ Orders(front)'
        /\ \A b \in registered : front[b] = rank[b] /\ front[a] < rank[b]
  BY <1>1, <1>2, <1>7, InsertOrders DEF Walk
<1>9. Timed(front)'
  <2> SUFFICES ASSUME NEW b \in registered'
               PROVE  /\ wait'[b] < Modulus
                      /\ time'[b] = IF Due(b)' < Modulus THEN Due(b)' ELSE Due(b)' - Modulus
                      /\ Unseen(front, b)' => (RolledOver(b)' <=> Due(b)' >= Modulus)
                      /\ ~Unseen(front, b)' => (rollover'[b] <=> Due(b)' >= Modulus)
                      /\ wait'[b] = 0 => \/ Unseen(front, b)'
                                         \/ (tick' = "callback" /\ b = alarm')
    BY DEF Timed
  <2>1. tick # "none" /\ Cursor # ListHead => Cursor \in registered
    BY <1>5 DEF InList
  <2>2. CASE b = a
    <3>1. ~Unseen(front, b)'
      BY <2>1, <2>2, <1>2, <1>5, <1>8, <1>1 DEF Unseen
    <3>2. /\ Due(b)' = lapse + _alt_nticks + 1 /\ wait'[b] = lapse + 1
          /\ time'[b] = TimeIn(lapse) /\ rollover'[b] = (TimeIn(lapse) < _alt_nticks)
      BY <2>2, <1>1, <1>2 DEF Due, u32
    <3>3. lapse \in 0 .. Modulus - 2 /\ _alt_nticks \in 0 .. Modulus - 1
      BY <1>1, CountsAreNat DEF u32
    <3>4. /\ wait'[b] < Modulus /\ wait'[b] # 0
          /\ time'[b] = IF Due(b)' < Modulus THEN Due(b)' ELSE Due(b)' - Modulus
      BY <3>2, <3>3, <1>sum, CountsAreNat
    <3>5. (TimeIn(lapse) < _alt_nticks) <=> Due(b)' >= Modulus
      BY <3>2, <3>3, <1>sum, CountsAreNat
    <3>6. rollover'[b] <=> Due(b)' >= Modulus
      BY <3>2, <3>5
    <3> QED
      BY <3>1, <3>4, <3>6, Zenon
  <2>3. CASE b # a
    <3>1. /\ b \in registered /\ wait'[b] = wait[b] /\ time'[b] = time[b]
          /\ rollover'[b] = rollover[b] /\ RolledOver(b)' = RolledOver(b)
          /\ Due(b)' = Due(b)
      BY <2>3, <1>1, <1>2 DEF Due, RolledOver
    <3>2. Unseen(front, b)' <=> Unseen(rank, b)
      BY <2>1, <3>1, <1>2, <1>5, <1>8 DEF Unseen
    <3> QED
      BY <3>1, <3>2, <1>2, <1>7 DEF Walk, Timed
  <2> QED
    BY <2>2, <2>3
<1> QED
  BY <1>3, <1>4, <1>6, <1>8, <1>9 DEF IInv, Walk

\* Taking out an alarm the walk will not use again, or outside a walk.
LEMMA RemoveTimed ==
  ASSUME TypeOK, Linked, NEW rank \in [Alarms -> Int], Walk(rank),
         NEW a \in Alarms, Remove(a), UNCHANGED <<_alt_nticks, time, rollover, wait>>,
         tick' # "none" <=> tick # "none", tick # "none" => Cursor' = Cursor,
         tick = "callback" => a = alarm \/ (tick' = "callback" /\ alarm' = alarm)
  PROVE  Walk(rank)'
<1>1. registered' = registered \ {a} /\ registered \subseteq Alarms
  BY DEF Remove, TypeOK
<1>2. Orders(rank)'
  BY RemoveOrders DEF Walk
<1>3. ASSUME NEW b \in registered'
      PROVE  /\ Unseen(rank, b)' <=> Unseen(rank, b)
             /\ RolledOver(b)' <=> RolledOver(b)
             /\ Due(b)' = Due(b)
  BY DEF Unseen, RolledOver, Due
<1>4. Timed(rank)'
  BY <1>1, <1>3 DEF Walk, Timed
<1> QED
  BY <1>2, <1>4 DEF Walk

LEMMA StopStep ==
  ASSUME IInv, NEW a \in Alarms, Stop(a),
         tick = "none" \/ (tick = "callback" /\ a = alarm)
  PROVE  IInv'
<1>1. TypeOK /\ Linked /\ WalkOK /\ registered \subseteq started
  BY DEF IInv, TypeOK
<1>2. /\ Remove(a) /\ registered' = registered \ {a}
      /\ UNCHANGED <<to, _alt_nticks, time, rollover, wait, tick, alarm, saved, started>>
  BY DEF Stop, Remove, alarmVars, walkVars
<1>3. /\ Linked'
      /\ next' \in [Links -> Links] /\ previous' \in [Links -> Links]
  BY <1>1, <1>2, RemoveLinks
<1>4. TypeOK'
  BY <1>1, <1>2, <1>3 DEF TypeOK
<1>5. Cursor' = Cursor
  BY <1>2 DEF Cursor
<1>6. WalkOK'
  <2>1. CASE tick = "none"
    BY <2>1, <1>2 DEF WalkOK
  <2>2. CASE tick = "callback" /\ a = alarm
    <3>1. Cursor # a
      <4>1. CASE a \in registered
        <5>1. PICK rank \in [Alarms -> Int] : Orders(rank)
          BY DEF IInv, Walk
        <5>2. next[a] = saved /\ (saved # ListHead => rank[a] < rank[saved])
          BY <2>2, <4>1, <5>1, <1>1 DEF WalkOK, Orders
        <5> QED
          BY <5>2, <2>2, HeadIsNoAlarm DEF Cursor
      <4>2. CASE a \notin registered
        BY <4>2, <2>2, <1>1, HeadIsNoAlarm DEF WalkOK, InList
      <4> QED
        BY <4>1, <4>2
    <3> QED
      BY <3>1, <2>2, <1>1, <1>2, <1>5 DEF WalkOK, InList
  <2> QED
    BY <2>1, <2>2
<1>7. PICK rank \in [Alarms -> Int] : Walk(rank)
  BY DEF IInv
<1>8. Walk(rank)'
  BY <1>1, <1>2, <1>5, <1>7, RemoveTimed
<1> QED
  BY <1>3, <1>4, <1>6, <1>8 DEF IInv

LEMMA TickBeginStep == ASSUME IInv, TickBegin PROVE IInv'
<1>1. /\ TypeOK /\ Linked /\ registered \subseteq Alarms
      /\ _alt_nticks \in u32 /\ time \in [Alarms -> u32] /\ next \in [Links -> Links]
      /\ rollover \in [Alarms -> BOOLEAN] /\ wait \in [Alarms -> Nat]
      /\ Modulus \in Nat \ {0, 1}
  BY AlarmAssumption DEF IInv, TypeOK
<1>2. /\ tick = "none" /\ tick' = "scan" /\ alarm' = next[ListHead] /\ to' = FALSE
      /\ _alt_nticks' = (_alt_nticks + 1) % Modulus
      /\ UNCHANGED <<next, previous, registered, time, rollover, started, saved>>
      /\ wait' = [b \in Alarms |->
                    IF b \in registered /\ wait[b] > 0 THEN wait[b] - 1 ELSE wait[b]]
  BY DEF TickBegin, listVars
<1>3. /\ _alt_nticks' \in u32
      /\ _alt_nticks' = IF _alt_nticks + 1 = Modulus THEN 0 ELSE _alt_nticks + 1
  <2>1. PICK x \in 0 .. 2 * Modulus - 1 : x = _alt_nticks + 1
    BY <1>1 DEF u32
  <2>2. /\ _alt_nticks' \in u32
        /\ _alt_nticks' = IF _alt_nticks + 1 < Modulus
                          THEN _alt_nticks + 1 ELSE _alt_nticks + 1 - Modulus
    <3>1. _alt_nticks' = x % Modulus
      BY <2>1, <1>2
    <3> QED
      BY <2>1, <3>1, <1>1, WrapIs, CountsAreNat
  <2> QED
    BY <2>2, <1>1 DEF u32
<1>4. Linked' /\ next[ListHead] \in InList
  BY <1>1, <1>2 DEF Linked, InList
<1>5. TypeOK'
  <2>1. wait' \in [Alarms -> Nat]
    BY <1>1, <1>2
  <2> QED
    BY <2>1, <1>1, <1>2, <1>3, HeadIsNoAlarm DEF TypeOK
<1>6. WalkOK'
  BY <1>2, <1>4 DEF WalkOK, Cursor, InList
<1>7. PICK rank \in [Alarms -> Int] : Walk(rank)
  BY DEF IInv
<1>8. Orders(rank)'
  BY <1>2, <1>7 DEF Walk, Orders
<1>9. Timed(rank)'
  <2> SUFFICES ASSUME NEW b \in registered'
               PROVE  /\ wait'[b] < Modulus
                      /\ time'[b] = IF Due(b)' < Modulus THEN Due(b)' ELSE Due(b)' - Modulus
                      /\ Unseen(rank, b)' => (RolledOver(b)' <=> Due(b)' >= Modulus)
                      /\ ~Unseen(rank, b)' => (rollover'[b] <=> Due(b)' >= Modulus)
                      /\ wait'[b] = 0 => \/ Unseen(rank, b)'
                                         \/ (tick' = "callback" /\ b = alarm')
    BY DEF Timed
  <2>1. b \in registered /\ b \in Alarms /\ Unseen(rank, b)'
    BY <1>1, <1>2, <1>7 DEF Walk, Orders, Unseen, Cursor
  <2>2. ~Unseen(rank, b)
    BY <1>2 DEF Unseen
  <2>3. /\ 0 < wait[b] /\ wait[b] < Modulus /\ wait[b] \in Nat
        /\ time[b] = IF _alt_nticks + wait[b] < Modulus
                     THEN _alt_nticks + wait[b] ELSE _alt_nticks + wait[b] - Modulus
        /\ rollover[b] <=> _alt_nticks + wait[b] >= Modulus
    <3>1. /\ wait[b] < Modulus /\ wait[b] # 0
          /\ time[b] = IF Due(b) < Modulus THEN Due(b) ELSE Due(b) - Modulus
          /\ rollover[b] <=> Due(b) >= Modulus
      <4>1. tick # "callback"
        BY <1>2
      <4> QED
        BY <4>1, <2>1, <2>2, <1>7, TimedIs, Zenon DEF Walk
    <3> QED
      BY <3>1, <2>1, <1>1, CountsAreNat DEF Due
  <2>4. wait'[b] = wait[b] - 1 /\ Due(b)' = _alt_nticks' + wait[b] - 1
    BY <2>1, <2>3, <1>1, <1>2, <1>3 DEF Due, u32
  <2>5. RolledOver(b)' <=> rollover[b] /\ _alt_nticks' # 0
    BY <1>2 DEF RolledOver
  <2>6. time'[b] = time[b]
    BY <1>2
  <2> QED
    BY <2>1, <2>3, <2>4, <2>5, <2>6, <1>1, <1>3 DEF u32
<1> QED
  BY <1>4, <1>5, <1>6, <1>8, <1>9 DEF IInv, Walk

\* What an alarm the walk is at shows of its time.
LEMMA ExpiredIsDue ==
  ASSUME IInv, tick = "scan", alarm # ListHead
  PROVE  alarm \in registered /\ alarm \in Alarms /\ (Expired(alarm) <=> wait[alarm] = 0)
<1>1. /\ WalkOK /\ registered \subseteq Alarms /\ _alt_nticks \in u32
      /\ wait \in [Alarms -> Nat] /\ Modulus \in Nat \ {0, 1}
  BY AlarmAssumption DEF IInv, TypeOK
<1>2. alarm \in registered /\ alarm \in Alarms /\ Cursor = alarm
  BY <1>1 DEF WalkOK, Cursor, InList
<1>3. PICK rank \in [Alarms -> Int] : Walk(rank)
  BY DEF IInv
<1>4. Unseen(rank, alarm)
  BY <1>2 DEF Unseen
<1>5. /\ wait[alarm] < Modulus /\ wait[alarm] \in Nat
      /\ time[alarm] = IF _alt_nticks + wait[alarm] < Modulus
                       THEN _alt_nticks + wait[alarm]
                       ELSE _alt_nticks + wait[alarm] - Modulus
      /\ RolledOver(alarm) <=> _alt_nticks + wait[alarm] >= Modulus
  <2>1. /\ wait[alarm] < Modulus
        /\ time[alarm] = IF Due(alarm) < Modulus THEN Due(alarm) ELSE Due(alarm) - Modulus
        /\ RolledOver(alarm) <=> Due(alarm) >= Modulus
    BY <1>2, <1>3, <1>4, TimedIs, Zenon DEF Walk
  <2> QED
    BY <2>1, <1>1, <1>2, CountsAreNat DEF Due
<1> QED
  BY <1>1, <1>2, <1>5 DEF Expired, u32

LEMMA ScanStep == ASSUME IInv, Scan PROVE IInv'
<1>1. /\ TypeOK /\ Linked /\ registered \subseteq Alarms /\ WalkOK
      /\ rollover \in [Alarms -> BOOLEAN] /\ wait \in [Alarms -> Nat]
      /\ next \in [Links -> Links]
  BY DEF IInv, TypeOK
<1>2. /\ tick = "scan" /\ alarm # ListHead
      /\ rollover' = [rollover EXCEPT ![alarm] = RolledOver(alarm)]
      /\ \/ Expired(alarm) /\ tick' = "callback" /\ saved' = next[alarm] /\ alarm' = alarm
         \/ ~Expired(alarm) /\ alarm' = next[alarm] /\ UNCHANGED <<tick, saved>>
      /\ UNCHANGED <<to, _alt_nticks, next, previous, registered, time, wait, started>>
  BY DEF Scan, listVars
<1>3. /\ alarm \in registered /\ alarm \in Alarms /\ Cursor = alarm
      /\ Expired(alarm) <=> wait[alarm] = 0
  BY <1>2, ExpiredIsDue DEF Cursor
<1>4. /\ Cursor' = next[alarm] /\ next[alarm] \in InList /\ next[alarm] \in Links
      /\ tick' \in {"scan", "callback"} /\ tick' # "none"
      /\ tick' = "callback" <=> Expired(alarm)
      /\ tick' = "callback" => alarm' = alarm /\ saved' = next[alarm]
  BY <1>1, <1>2, <1>3 DEF Cursor, Linked, InList, TypeOK
<1>5. TypeOK'
  <2>1. RolledOver(alarm) \in BOOLEAN
    BY <1>1, <1>3 DEF RolledOver
  <2>2. rollover' \in [Alarms -> BOOLEAN]
    BY <2>1, <1>1, <1>2
  <2>3. alarm' \in Links /\ saved' \in Links /\ (tick' = "callback" => alarm' # ListHead)
    BY <1>1, <1>2, <1>4 DEF TypeOK
  <2> QED
    BY <2>2, <2>3, <1>1, <1>2, <1>4 DEF TypeOK
<1>6. Linked'
  BY <1>1, <1>2 DEF Linked, InList
<1>7. PICK rank \in [Alarms -> Int] : Walk(rank)
  BY DEF IInv
<1>8. Orders(rank)'
  BY <1>2, <1>7 DEF Walk, Orders
<1>9. /\ Unseen(rank, alarm)
      /\ Expired(alarm) => ~RolledOver(alarm)
  BY <1>2, <1>3, <1>7 DEF Unseen, Expired
<1>10. WalkOK'
  <2>1. tick' = "callback" => ~rollover'[alarm] /\ wait'[alarm] = 0 /\ next'[alarm] = saved'
    BY <1>1, <1>2, <1>3, <1>4, <1>9
  <2> QED
    BY <2>1, <1>2, <1>4 DEF WalkOK, InList
<1>11. ASSUME NEW b \in registered, b # alarm
       PROVE  Unseen(rank, b)' <=> Unseen(rank, b)
  <2>1. /\ rank[b] \in Int /\ rank[alarm] \in Int /\ rank[b] # rank[alarm]
        /\ next[alarm] # ListHead => /\ rank[next[alarm]] \in Int
                                 /\ rank[alarm] < rank[next[alarm]]
        /\ rank[alarm] < rank[b] => /\ next[alarm] # ListHead
                                    /\ rank[next[alarm]] <= rank[b]
    BY <1>1, <1>3, <1>4, <1>7, <1>11 DEF Walk, Orders, InList
  <2> QED
    BY <2>1, <1>2, <1>3, <1>4 DEF Unseen
<1>12. ASSUME NEW b \in registered, b = alarm
       PROVE  ~Unseen(rank, b)'
  <2>1. next[alarm] # ListHead => /\ rank[alarm] < rank[next[alarm]]
                              /\ rank[alarm] \in Int /\ rank[next[alarm]] \in Int
    BY <1>1, <1>3, <1>4, <1>7 DEF Walk, Orders, InList
  <2> QED
    BY <2>1, <1>4, <1>12 DEF Unseen
<1>13. Timed(rank)'
  <2> SUFFICES ASSUME NEW b \in registered
               PROVE  /\ wait[b] < Modulus
                      /\ time[b] = IF Due(b) < Modulus THEN Due(b) ELSE Due(b) - Modulus
                      /\ Unseen(rank, b)' => (RolledOver(b)' <=> Due(b) >= Modulus)
                      /\ ~Unseen(rank, b)' => (rollover'[b] <=> Due(b) >= Modulus)
                      /\ wait[b] = 0 => \/ Unseen(rank, b)'
                                        \/ (tick' = "callback" /\ b = alarm')
    <3>1. \A b \in registered : Due(b)' = Due(b)
      BY <1>2 DEF Due
    <3> QED
      BY <3>1, <1>2, Zenon DEF Timed
  <2>1. /\ wait[b] < Modulus
        /\ time[b] = IF Due(b) < Modulus THEN Due(b) ELSE Due(b) - Modulus
        /\ Unseen(rank, b) => (RolledOver(b) <=> Due(b) >= Modulus)
        /\ ~Unseen(rank, b) => (rollover[b] <=> Due(b) >= Modulus)
        /\ wait[b] = 0 => Unseen(rank, b) \/ (tick = "callback" /\ b = alarm)
    BY <1>7, TimedIs, Zenon DEF Walk
  <2>2. CASE b = alarm
    <3>1. rollover'[b] <=> RolledOver(b)
      BY <2>2, <1>1, <1>2, <1>3
    <3>2. wait[b] = 0 => tick' = "callback" /\ b = alarm'
      BY <2>2, <1>3, <1>4
    <3>3. Unseen(rank, b) /\ ~Unseen(rank, b)'
      BY <2>2, <1>9, <1>12
    <3> QED
      BY <2>1, <3>1, <3>2, <3>3, Zenon
  <2>3. CASE b # alarm
    <3>1. rollover'[b] = rollover[b] /\ (RolledOver(b)' <=> RolledOver(b))
      BY <2>3, <1>1, <1>2 DEF RolledOver
    <3>2. Unseen(rank, b)' <=> Unseen(rank, b)
      BY <2>3, <1>11
    <3>3. tick # "callback"
      BY <1>2
    <3> QED
      BY <2>1, <3>1, <3>2, <3>3, Zenon
  <2> QED
    BY <2>2, <2>3
<1> QED
  BY <1>5, <1>6, <1>8, <1>10, <1>13 DEF IInv, Walk

\* The callback unregisters its alarm.
LEMMA ReturnZeroStep ==
  ASSUME IInv, tick = "callback", Remove(alarm), UNCHANGED alarmVars,
         alarm' = saved, saved' = ListHead, tick' = "scan",
         UNCHANGED <<to, _alt_nticks, started>>
  PROVE  IInv'
<1>1. /\ TypeOK /\ Linked /\ WalkOK /\ registered \subseteq started
      /\ alarm # ListHead /\ alarm \in Alarms /\ saved \in Links
  BY DEF IInv, TypeOK, Links
<1>2. registered' = registered \ {alarm} /\ UNCHANGED <<time, rollover, wait>>
  BY DEF Remove, alarmVars
<1>3. /\ Linked'
      /\ next' \in [Links -> Links] /\ previous' \in [Links -> Links]
  BY <1>1, RemoveLinks
<1>4. Cursor' = saved /\ Cursor = saved
  BY DEF Cursor
<1>5. TypeOK'
  BY <1>1, <1>2, <1>3, HeadIsNoAlarm DEF TypeOK
<1>6. PICK rank \in [Alarms -> Int] : Walk(rank)
  BY DEF IInv
<1>7. WalkOK'
  <2>1. saved # alarm
    <3>1. CASE alarm \in registered
      BY <3>1, <1>1, <1>6 DEF WalkOK, Walk, Orders
    <3>2. CASE alarm \notin registered
      BY <3>2, <1>1, <1>4 DEF WalkOK, InList
    <3> QED
      BY <3>1, <3>2
  <2> QED
    BY <2>1, <1>1, <1>2, <1>4 DEF WalkOK, InList
<1>8. Walk(rank)'
  BY <1>1, <1>2, <1>4, <1>6, RemoveTimed
<1> QED
  BY <1>3, <1>5, <1>7, <1>8 DEF IInv

\* The callback asks to be called again.
LEMMA ReturnPeriodStep ==
  ASSUME IInv, NEW period \in Periods, CallbackReturn(period), period # 0
  PROVE  IInv'
<1> DEFINE due == (time[alarm] + period) % Modulus
<1>1. /\ TypeOK /\ Linked /\ WalkOK /\ registered \subseteq Alarms
      /\ alarm \in Alarms /\ saved \in Links
      /\ _alt_nticks \in u32 /\ time \in [Alarms -> u32]
      /\ rollover \in [Alarms -> BOOLEAN] /\ wait \in [Alarms -> Nat]
      /\ period \in u32 /\ tick = "callback"
  BY AlarmAssumption DEF IInv, TypeOK, Links, CallbackReturn
<1>2. /\ time' = [time EXCEPT ![alarm] = due]
      /\ rollover' = [rollover EXCEPT ![alarm] = RolloverAfter(alarm, due)]
      /\ wait' = [wait EXCEPT ![alarm] = IF alarm \in registered THEN period ELSE @]
      /\ alarm' = saved /\ saved' = ListHead /\ tick' = "scan"
      /\ UNCHANGED <<next, previous, registered, to, _alt_nticks, started>>
  BY DEF CallbackReturn, listVars, After
<1>3. /\ due \in u32
      /\ due = IF time[alarm] + period < Modulus
               THEN time[alarm] + period ELSE time[alarm] + period - Modulus
  <2>1. PICK x \in 0 .. 2 * Modulus - 1 : x = time[alarm] + period
    BY <1>1, CountsAreNat DEF u32
  <2>2. due = x % Modulus
    BY <2>1
  <2>3. time[alarm] \in Nat /\ period \in Nat
    BY <1>1, CountsAreNat
  <2> HIDE DEF due
  <2> QED
    BY <2>1, <2>2, <2>3, WrapIs, CountsAreNat
<1> HIDE DEF due
<1>4. RolloverAfter(alarm, due) = (rollover[alarm] \/ due < _alt_nticks)
  BY DEF RolloverAfter
<1>5. Linked'
  BY <1>1, <1>2 DEF Linked, InList
<1>6. TypeOK'
  <2>1. time' \in [Alarms -> u32] /\ wait' \in [Alarms -> Nat]
    BY <1>1, <1>2, <1>3, CountsAreNat
  <2>2. rollover' \in [Alarms -> BOOLEAN]
    BY <1>1, <1>2, <1>4
  <2> QED
    BY <2>1, <2>2, <1>1, <1>2, HeadIsNoAlarm DEF TypeOK
<1>7. Cursor = saved /\ Cursor' = saved /\ (saved \in InList)
  BY <1>1, <1>2 DEF Cursor, WalkOK
<1>8. WalkOK'
  BY <1>2, <1>7 DEF WalkOK, InList
<1>9. PICK rank \in [Alarms -> Int] : Walk(rank)
  BY DEF IInv
<1>10. Orders(rank)'
  BY <1>2, <1>9 DEF Walk, Orders
<1>11. \A b \in registered : Unseen(rank, b)' <=> Unseen(rank, b)
  BY <1>1, <1>2, <1>7 DEF Unseen
<1>12. ASSUME NEW b \in registered'
       PROVE  /\ wait'[b] < Modulus
              /\ time'[b] = IF Due(b)' < Modulus THEN Due(b)' ELSE Due(b)' - Modulus
              /\ Unseen(rank, b)' => (RolledOver(b)' <=> Due(b)' >= Modulus)
              /\ ~Unseen(rank, b)' => (rollover'[b] <=> Due(b)' >= Modulus)
              /\ wait'[b] = 0 => \/ Unseen(rank, b)'
                                 \/ (tick' = "callback" /\ b = alarm')
  <2>1. /\ b \in registered /\ b \in Alarms
        /\ wait[b] < Modulus
        /\ time[b] = IF Due(b) < Modulus THEN Due(b) ELSE Due(b) - Modulus
        /\ Unseen(rank, b) => (RolledOver(b) <=> Due(b) >= Modulus)
        /\ ~Unseen(rank, b) => (rollover[b] <=> Due(b) >= Modulus)
        /\ wait[b] = 0 => Unseen(rank, b) \/ (tick = "callback" /\ b = alarm)
    <3>1. b \in registered /\ b \in Alarms
      BY <1>1, <1>2
    <3> QED
      BY <3>1, <1>9, TimedIs, Zenon DEF Walk
  <2>2. CASE b = alarm
    <3>1. wait[b] = 0 /\ ~rollover[b] /\ next[b] = saved
      BY <2>1, <2>2, <1>1 DEF WalkOK
    <3>2. ~Unseen(rank, b)'
      BY <2>1, <2>2, <3>1, <1>1, <1>7, <1>9, <1>11 DEF Unseen, Walk, Orders, InList
    <3>3. _alt_nticks \in 0 .. Modulus - 1 /\ period \in 1 .. Modulus - 1
      BY <1>1, CountsAreNat DEF u32
    <3>4. time[b] = _alt_nticks
      BY <2>1, <3>1, <3>3, CountsAreNat DEF Due
    <3>5. wait'[b] = period /\ Due(b)' = _alt_nticks + period /\ time'[b] = due
      BY <2>1, <2>2, <1>1, <1>2 DEF Due
    <3>6. due = IF _alt_nticks + period < Modulus
                THEN _alt_nticks + period ELSE _alt_nticks + period - Modulus
      BY <2>2, <3>4, <1>3
    <3>7. (due < _alt_nticks) <=> Due(b)' >= Modulus
      BY <3>3, <3>5, <3>6, CountsAreNat
    <3>8. rollover'[b] <=> Due(b)' >= Modulus
      BY <2>1, <2>2, <3>1, <3>7, <1>1, <1>2, <1>4
    <3>9. /\ wait'[b] < Modulus /\ wait'[b] # 0
          /\ time'[b] = IF Due(b)' < Modulus THEN Due(b)' ELSE Due(b)' - Modulus
      BY <3>3, <3>5, <3>6, CountsAreNat
    <3> QED
      BY <3>2, <3>8, <3>9, Zenon
  <2>3. CASE b # alarm
    <3>1. /\ wait'[b] = wait[b] /\ time'[b] = time[b] /\ rollover'[b] = rollover[b]
          /\ Due(b)' = Due(b) /\ (RolledOver(b)' <=> RolledOver(b))
      BY <2>1, <2>3, <1>1, <1>2 DEF Due, RolledOver
    <3>2. Unseen(rank, b)' <=> Unseen(rank, b)
      BY <2>1, <1>11
    <3> QED
      BY <2>1, <2>3, <3>1, <3>2, Zenon
  <2> QED
    BY <2>2, <2>3
<1>13. Timed(rank)'
  BY <1>12, Zenon DEF Timed
<1> QED
  BY <1>5, <1>6, <1>8, <1>10, <1>13 DEF IInv, Walk

LEMMA TickEndStep == ASSUME IInv, TickEnd PROVE IInv'
<1>1. TypeOK /\ Linked
  BY DEF IInv
<1>2. /\ tick = "scan" /\ alarm = ListHead /\ tick' = "none"
      /\ UNCHANGED <<to, _alt_nticks, next, previous, registered, time, rollover,
                     wait, alarm, saved, started>>
  BY DEF TickEnd, listVars, alarmVars
<1>3. TypeOK' /\ Linked' /\ WalkOK'
  BY <1>1, <1>2 DEF TypeOK, Linked, InList, WalkOK
<1>4. PICK rank \in [Alarms -> Int] : Walk(rank)
  BY DEF IInv
<1>5. \A b \in registered : ~Unseen(rank, b) /\ ~Unseen(rank, b)'
  BY <1>2 DEF Unseen, Cursor
<1>6. /\ \A b \in registered : Due(b)' = Due(b)
      /\ tick # "callback" /\ tick' # "callback"
  BY <1>2 DEF Due
<1>7. Walk(rank)'
  <2>1. Orders(rank)'
    BY <1>2, <1>4 DEF Walk, Orders
  <2>2. Timed(rank)'
    BY <1>2, <1>4, <1>5, <1>6, Zenon DEF Walk, Timed
  <2> QED
    BY <2>1, <2>2 DEF Walk
<1> QED
  BY <1>3, <1>7 DEF IInv

LEMMA TimerExpireStep == ASSUME IInv, TimerExpire PROVE IInv'
<1>1. /\ to' = TRUE
      /\ UNCHANGED <<_alt_nticks, next, previous, registered, time, rollover,
                     wait, tick, alarm, saved, started>>
  BY DEF TimerExpire, listVars, alarmVars, walkVars
<1>2. TypeOK' /\ Linked' /\ WalkOK'
  BY <1>1 DEF IInv, TypeOK, Linked, InList, WalkOK, Cursor
<1>3. PICK rank \in [Alarms -> Int] : Walk(rank)
  BY DEF IInv
<1>4. Walk(rank)'
  BY <1>1, <1>3 DEF Walk, Orders, Timed, Unseen, Cursor, Due, RolledOver
<1> QED
  BY <1>2, <1>4 DEF IInv

LEMMA NextIInv ==
  ASSUME IntervalsFit, StopsOwnOnly, IInv, [Next]_vars
  PROVE  IInv'
<1>1. CASE Outside
  <2>1. PICK a \in Alarms :
          StopOutside(a) \/ \E lapse \in Intervals : StartOutside(a, lapse)
    BY <1>1 DEF Outside
  <2>2. CASE StopOutside(a)
    BY <2>2, StopStep DEF StopOutside
  <2>3. ASSUME NEW lapse \in Intervals, StartOutside(a, lapse) PROVE IInv'
    BY <2>3, StartStep DEF StartOutside
  <2> QED
    BY <2>1, <2>2, <2>3
<1>2. CASE InCallback
  <2>1. PICK a \in Alarms :
          StopInCallback(a) \/ \E lapse \in Intervals : StartInCallback(a, lapse)
    BY <1>2 DEF InCallback
  <2>2. CASE StopInCallback(a)
    <3>1. alarm \in Alarms
      BY <2>2 DEF StopInCallback, IInv, TypeOK, Links
    <3>2. a = alarm
      BY <2>2, <3>1 DEF StopInCallback, StopsOwnOnly
    <3> QED
      BY <2>2, <3>2, StopStep DEF StopInCallback
  <2>3. ASSUME NEW lapse \in Intervals, StartInCallback(a, lapse) PROVE IInv'
    BY <2>3, StartStep DEF StartInCallback
  <2> QED
    BY <2>1, <2>2, <2>3
<1>3. CASE CallbackEnds
  <2>1. PICK period \in Periods : CallbackReturn(period)
    BY <1>3 DEF CallbackEnds
  <2>2. CASE period = 0
    BY <2>1, <2>2, ReturnZeroStep DEF CallbackReturn, After
  <2>3. CASE period # 0
    BY <2>1, <2>3, ReturnPeriodStep
  <2> QED
    BY <2>2, <2>3
<1>4. CASE UNCHANGED vars
  <2>1. UNCHANGED <<to, _alt_nticks, next, previous, registered, time, rollover,
                    wait, tick, alarm, saved, started>>
    BY <1>4 DEF vars, listVars, alarmVars, walkVars
  <2>2. TypeOK' /\ Linked' /\ WalkOK'
    BY <2>1 DEF IInv, TypeOK, Linked, InList, WalkOK, Cursor
  <2>3. PICK rank \in [Alarms -> Int] : Walk(rank)
    BY DEF IInv
  <2>4. Walk(rank)'
    BY <2>1, <2>3 DEF Walk, Orders, Timed, Unseen, Cursor, Due, RolledOver
  <2> QED
    BY <2>2, <2>4 DEF IInv
<1> QED
  BY <1>1, <1>2, <1>3, <1>4, TimerExpireStep, TickBeginStep, ScanStep, TickEndStep
  DEF Next

LEMMA Invariance ==
  ASSUME IntervalsFit, StopsOwnOnly
  PROVE  Spec => []IInv
<1>1. IInv /\ [Next]_vars => IInv'
  BY NextIInv
<1> QED
  BY <1>1, InitIInv, PTL DEF Spec

-----------------------------------------------------------------------------
(***************************************************************************)
(* The list as a walk from the head sees it: its n-th entries.             *)
(***************************************************************************)

LEMMA EntryIs ==
  /\ Cardinality(Alarms) \in Nat
  /\ Entry[0] = ListHead
  /\ \A n \in 1 .. Cardinality(Alarms) + 1 : Entry[n] = next[Entry[n - 1]]
<1>1. Cardinality(Alarms) \in Nat
  BY AlarmAssumption, FS_CardinalityType
<1> DEFINE top == Cardinality(Alarms) + 1
<1>2. top \in Nat
  BY <1>1
<1> HIDE DEF top
<1>3. \E g : Follows(g, next, ListHead, top)
  BY <1>2, ChainExists
<1>4. Entry = CHOOSE g : Follows(g, next, ListHead, top)
  BY Zenon DEF Entry, Follows, top
<1>5. Follows(Entry, next, ListHead, top)
  BY <1>3, <1>4, Zenon
<1> QED
  BY <1>1, <1>5 DEF Follows, top

\* The entries up to the m-th are the registered alarms of the lowest ranks,
\* and those that are left follow.
Visited(rank, m, V) ==
  /\ V = {Entry[n] : n \in 1 .. m} /\ V \subseteq registered
  /\ IsFiniteSet(V) /\ Cardinality(V) = m
  /\ \A v \in V, b \in registered \ V : rank[v] < rank[b]
  /\ \A b \in registered \ V :
       next[Entry[m]] # ListHead /\ rank[next[Entry[m]]] <= rank[b]
  /\ next[Entry[m]] # ListHead => next[Entry[m]] \in registered \ V

LEMMA WalkVisits ==
  ASSUME TypeOK, Linked, NEW rank \in [Alarms -> Int], Orders(rank),
         NEW m \in Nat, m <= Cardinality(registered)
  PROVE  \E V : Visited(rank, m, V)
<1> DEFINE size == Cardinality(registered)
           S == {k \in Nat : k <= size => \E V : Visited(rank, k, V)}
<1>1. /\ registered \subseteq Alarms /\ IsFiniteSet(registered) /\ size \in Nat
      /\ size <= Cardinality(Alarms)
  BY AlarmAssumption, FS_Subset, FS_CardinalityType DEF TypeOK
<1>2. \A a \in registered : rank[a] \in Int /\ next[a] \in InList
  BY <1>1 DEF Linked, InList
<1> HIDE DEF size
<1>3. 0 \in S
  <2>1. {Entry[n] : n \in 1 .. 0} = {}
    OBVIOUS
  <2>2. next[ListHead] \in InList
    BY DEF Linked, InList
  <2>3. Visited(rank, 0, {})
    BY <2>1, <2>2, EntryIs, FS_EmptySet DEF Visited, Orders, InList
  <2> QED
    BY <2>3
<1>4. ASSUME NEW k \in Nat, k \in S PROVE k + 1 \in S
  <2> SUFFICES ASSUME k + 1 <= size PROVE \E V : Visited(rank, k + 1, V)
    OBVIOUS
  <2>1. PICK V : Visited(rank, k, V)
    BY <1>1, <1>4
  <2> DEFINE y == next[Entry[k]]
             U == V \union {y}
  <2>2. V # registered
    BY <1>1, <2>1 DEF Visited, size
  <2>3. y \in registered \ V
    BY <2>1, <2>2 DEF Visited
  <2>4. Entry[k + 1] = y
    BY <1>1, EntryIs
  <2> HIDE DEF y
  <2>5. U = {Entry[n] : n \in 1 .. k + 1} /\ U \subseteq registered
    BY <2>1, <2>3, <2>4 DEF Visited
  <2>6. IsFiniteSet(U) /\ Cardinality(U) = k + 1
    BY <2>1, <2>3, FS_AddElement DEF Visited
  <2>7. \A b \in registered \ U : rank[y] < rank[b]
    <3>1. \A b \in registered \ V : rank[y] <= rank[b]
      BY <2>1 DEF Visited, y
    <3> QED
      BY <1>2, <2>3, <3>1 DEF Orders
  <2>8. \A v \in V : rank[v] < rank[y]
    BY <2>1, <2>3 DEF Visited
  <2>9. \A v \in U, b \in registered \ U : rank[v] < rank[b]
    BY <2>1, <2>7 DEF Visited
  <2>10. \A b \in registered \ U : next[y] # ListHead /\ rank[next[y]] <= rank[b]
    BY <2>3, <2>7 DEF Orders
  <2>11. next[y] # ListHead => next[y] \in registered \ U
    <3> SUFFICES ASSUME next[y] # ListHead PROVE next[y] \in registered \ U
      OBVIOUS
    <3>1. next[y] \in registered /\ rank[y] < rank[next[y]]
      BY <1>2, <2>3 DEF InList, Orders
    <3>2. next[y] \notin V
      BY <1>2, <2>1, <2>3, <2>8, <3>1
    <3> QED
      BY <1>2, <2>3, <3>1, <3>2
  <2>12. Visited(rank, k + 1, U)
    BY <2>4, <2>5, <2>6, <2>9, <2>10, <2>11 DEF Visited
  <2> QED
    BY <2>12
<1>5. Nat \subseteq S
  <2> HIDE DEF S
  <2> QED
    BY <1>3, <1>4, SetInduction
<1> QED
  BY <1>5 DEF size

\* The ring closes after as many entries as there are registered alarms.
LEMMA RingCloses ==
  ASSUME TypeOK, Linked, NEW rank \in [Alarms -> Int], Orders(rank)
  PROVE  ListIsRegistered
<1> DEFINE size == Cardinality(registered)
<1>1. /\ registered \subseteq Alarms /\ IsFiniteSet(registered) /\ size \in Nat
      /\ size <= Cardinality(Alarms)
  BY AlarmAssumption, FS_Subset, FS_CardinalityType DEF TypeOK
<1>2. PICK V : Visited(rank, size, V)
  BY <1>1, WalkVisits
<1>3. V = registered
  BY <1>1, <1>2, FS_Subset DEF Visited
<1>4. {Entry[n] : n \in 1 .. size} = registered /\ next[Entry[size]] = ListHead
  BY <1>2, <1>3 DEF Visited
<1>5. Entry[size + 1] = ListHead
  BY <1>1, <1>4, EntryIs
<1>6. /\ \A x \in registered \union {ListHead} : previous[next[x]] = x
      /\ \A a \in Alarms \ registered : next[a] = a /\ previous[a] = a
  BY DEF Linked, InList
<1> QED
  BY <1>4, <1>5, <1>6 DEF ListIsRegistered

-----------------------------------------------------------------------------
(***************************************************************************)
(* The theorems.                                                           *)
(***************************************************************************)

\* Type correctness of the alarms, the list and the walk.
THEOREM TypeCorrect ==
  ASSUME IntervalsFit, StopsOwnOnly
  PROVE  Spec => []TypeOK
<1>1. IInv => TypeOK
  BY DEF IInv
<1> QED
  BY <1>1, Invariance, PTL

\* The list links exactly the registered alarms, both ways, and visits each of
\* them once on its way from the head.
THEOREM ListStaysWhole ==
  ASSUME IntervalsFit, StopsOwnOnly
  PROVE  Spec => [](Linked /\ \E rank \in [Alarms -> Int] : Orders(rank))
<1>1. IInv => Linked /\ \E rank \in [Alarms -> Int] : Orders(rank)
  BY DEF IInv, Walk
<1> QED
  BY <1>1, Invariance, PTL

\* A walk from the head comes past the registered alarms, all of them and each
\* once, and back to the head.
THEOREM ListIsAsRegistered ==
  ASSUME IntervalsFit, StopsOwnOnly
  PROVE  Spec => []ListIsRegistered
<1>1. IInv => ListIsRegistered
  BY RingCloses DEF IInv, Walk
<1> QED
  BY <1>1, Invariance, PTL

\* No tick ends with a registered alarm whose time has come and whose callback
\* was not made.
THEOREM NoAlarmIsMissed ==
  ASSUME IntervalsFit, StopsOwnOnly
  PROVE  Spec => []NoneMissed
<1>1. IInv => NoneMissed
  <2> SUFFICES ASSUME IInv, tick = "none", NEW a \in registered PROVE wait[a] > 0
    BY DEF NoneMissed
  <2>1. PICK rank \in [Alarms -> Int] : Timed(rank)
    BY DEF IInv, Walk
  <2>2. ~Unseen(rank, a) /\ tick # "callback"
    BY DEF Unseen
  <2>3. wait[a] # 0
    BY <2>1, <2>2, TimedIs, Zenon
  <2> QED
    BY <2>3 DEF IInv, TypeOK
<1> QED
  BY <1>1, Invariance, PTL

\* Every callback is made for an alarm that is registered and has waited the
\* ticks it asked for.
LEMMA FiresOnTime ==
  IInv /\ [Next]_vars => (Fires => alarm \in registered /\ wait[alarm] = 0)
<1> SUFFICES ASSUME IInv, [Next]_vars, Fires
             PROVE  alarm \in registered /\ wait[alarm] = 0
  OBVIOUS
<1>1. tick = "scan" /\ tick' = "callback"
  BY DEF Fires
<1>2. Scan
  BY <1>1 DEF Next, vars, walkVars, Outside, InCallback, CallbackEnds, StopOutside,
              StartOutside, StopInCallback, StartInCallback, CallbackReturn,
              TimerExpire, TickBegin, TickEnd
<1>3. alarm # ListHead /\ Expired(alarm)
  BY <1>1, <1>2 DEF Scan
<1> QED
  BY <1>1, <1>3, ExpiredIsDue

\* alt_tick calls no alarm before its time, across every roll-over of the
\* count, for every width of the count.
THEOREM CallbacksNeverEarly ==
  ASSUME IntervalsFit, StopsOwnOnly
  PROVE  Spec => NeverEarly
<1>1. IInv /\ [Next]_vars => [Fires => wait[alarm] = 0]_vars
  BY FiresOnTime
<1> QED
  BY <1>1, Invariance, PTL DEF Spec, NeverEarly

\* alt_tick calls no alarm that was stopped or has unregistered itself.
THEOREM StoppedStaysSilent ==
  ASSUME IntervalsFit, StopsOwnOnly
  PROVE  Spec => StoppedIsSilent
<1>1. IInv /\ [Next]_vars => [Fires => alarm \in registered]_vars
  BY FiresOnTime
<1> QED
  BY <1>1, Invariance, PTL DEF Spec, StoppedIsSilent

-----------------------------------------------------------------------------
(***************************************************************************)
(* Memory.  As long as the profiler was not refused any, the blocks handed *)
(* out and what is left of the slab lie below heap_end and inside the      *)
(* heap, and none reaches into another.                                    *)
(***************************************************************************)
Memory == [heap_end : Nat, slab_ptr : Nat \union {-1}, slab_size : 0 .. SlabSize,
           given : Seq(Block)]

Granted(given) == \A i \in DOMAIN given : given[i][1] # -1

Apart(a, m, b, n) == a + m <= b \/ b + n <= a

Inside(m, a, n) == 0 <= a /\ a + n <= m.heap_end /\ a + n <= HeapSize

HeapKept(m) ==
  Granted(m.given) =>
    /\ Inside(m, m.slab_ptr, m.slab_size)
    /\ \A i \in DOMAIN m.given :
         LET b == m.given[i]
         IN  /\ Inside(m, b[1], b[2])
             /\ Apart(b[1], b[2], m.slab_ptr, m.slab_size)
             /\ \A j \in 1 .. i - 1 : Apart(b[1], b[2], m.given[j][1], m.given[j][2])

LEMMA MultipleAbove ==
  ASSUME NEW n \in Nat \ {0}, NEW p \in Nat, NEW q \in Nat, p > q
  PROVE  p * n >= q * n + n
<1>1. PICK d \in Nat : p = q + 1 + d
  <2>1. p - q - 1 \in Nat /\ p = q + 1 + (p - q - 1)
    OBVIOUS
  <2> QED
    BY <2>1
<1>2. (q + 1 + d) * n = q * n + n + d * n /\ d * n \in Nat
  OBVIOUS
<1> QED
  BY <1>1, <1>2

LEMMA RemainderIs ==
  ASSUME NEW n \in Nat \ {0}, NEW q \in Nat, NEW m \in 0 .. n - 1
  PROVE  (q * n + m) % n = m
<1> DEFINE x == q * n + m
           p == x \div n
           k == x % n
<1>1. x \in Nat /\ q * n \in Nat
  OBVIOUS
<1>2. p \in Nat /\ k \in 0 .. n - 1 /\ x = p * n + k /\ p * n \in Nat
  BY <1>1
<1>3. x = q * n + m
  OBVIOUS
<1> HIDE DEF x, p, k
<1>4. ~(p > q)
  <2> SUFFICES ASSUME p > q PROVE FALSE
    OBVIOUS
  <2>1. p * n >= q * n + n
    BY <1>2, MultipleAbove
  <2> QED
    BY <1>1, <1>2, <1>3, <2>1
<1>5. ~(q > p)
  <2> SUFFICES ASSUME q > p PROVE FALSE
    OBVIOUS
  <2>1. q * n >= p * n + n
    BY <1>2, MultipleAbove
  <2> QED
    BY <1>1, <1>2, <1>3, <2>1
<1>6. p = q
  BY <1>2, <1>4, <1>5
<1>7. k = m
  BY <1>1, <1>2, <1>3, <1>6
<1> QED
  BY <1>7 DEF k, x

LEMMA AlignedIs ==
  ASSUME NEW end \in Nat
  PROVE  /\ Aligned(end) \in Nat /\ end <= Aligned(end) /\ Aligned(end) < end + Align
         /\ \A h \in Nat : end <= Aligned(h) => Aligned(end) <= Aligned(h)
<1> USE ProfileAssumption
<1>1. \A x \in Nat : LET q == (x + Align - 1) \div Align
                     IN  q \in Nat /\ q * Align \in Nat /\ x <= q * Align
                         /\ q * Align < x + Align
  OBVIOUS
<1>2. \A p, q \in Nat : p > q => p * Align >= q * Align + Align
  BY MultipleAbove
<1>3. /\ Aligned(end) \in Nat /\ end <= Aligned(end) /\ Aligned(end) < end + Align
  BY <1>1 DEF Aligned
<1>4. ASSUME NEW h \in Nat, end <= Aligned(h)
      PROVE  Aligned(end) <= Aligned(h)
  <2> DEFINE p == (end + Align - 1) \div Align
             q == (h + Align - 1) \div Align
  <2>1. /\ p \in Nat /\ q \in Nat /\ p * Align \in Nat /\ q * Align \in Nat
        /\ p * Align < end + Align
    BY <1>1
  <2>2. Aligned(end) = p * Align /\ Aligned(h) = q * Align
    BY DEF Aligned
  <2> HIDE DEF p, q
  <2>3. ~(p > q)
    BY <1>2, <1>4, <2>1, <2>2
  <2>4. CASE p = q
    BY <2>1, <2>2, <2>4
  <2>5. CASE q > p
    <3>1. q * Align >= p * Align + Align
      BY <1>2, <2>1, <2>5
    <3> QED
      BY <2>1, <2>2, <3>1
  <2> QED
    BY <2>1, <2>3, <2>4, <2>5
<1> QED
  BY <1>3, <1>4

LEMMA GrantedBefore ==
  ASSUME NEW given \in Seq(Block), NEW b \in Block, Granted(Append(given, b))
  PROVE  Granted(given) /\ b[1] # -1
<1>1. /\ Len(Append(given, b)) = Len(given) + 1
      /\ Append(given, b)[Len(given) + 1] = b
      /\ \A i \in 1 .. Len(given) : Append(given, b)[i] = given[i]
  OBVIOUS
<1>2. DOMAIN given = 1 .. Len(given) /\ DOMAIN Append(given, b) = 1 .. Len(given) + 1
  OBVIOUS
<1>3. Len(given) \in Nat
  OBVIOUS
<1>4. Granted(given)
  BY <1>1, <1>2, <1>3 DEF Granted
<1> QED
  BY <1>1, <1>2, <1>3, <1>4 DEF Granted

\* The pair of a block, as one thing with its two parts.
LEMMA BlockIs ==
  ASSUME NEW start \in Nat \union {-1}, NEW size \in Nat
  PROVE  \E b \in Block : b = <<start, size>> /\ b[1] = start /\ b[2] = size
<1>1. <<start, size>> \in Block
  BY DEF Block
<1> QED
  BY <1>1

LEMMA InsideStays ==
  ASSUME NEW m \in Memory, NEW n \in Memory, m.heap_end <= n.heap_end,
         NEW a \in Int, NEW k \in Nat, Inside(m, a, k)
  PROVE  Inside(n, a, k)
BY DEF Inside, Memory

\* Another block, which keeps clear of those before it and of the slab.
LEMMA GiveKept ==
  ASSUME NEW m \in Memory, NEW n \in Memory, NEW b \in Block,
         n.given = Append(m.given, b), m.heap_end <= n.heap_end,
         Granted(n.given) =>
           /\ HeapKept(m) => Inside(n, n.slab_ptr, n.slab_size)
           /\ Inside(n, b[1], b[2])
           /\ Apart(b[1], b[2], n.slab_ptr, n.slab_size)
           /\ \A i \in DOMAIN m.given :
                /\ Apart(b[1], b[2], m.given[i][1], m.given[i][2])
                /\ Apart(m.given[i][1], m.given[i][2], n.slab_ptr, n.slab_size),
         HeapKept(m)
  PROVE  HeapKept(n)
<1>1. /\ m.given \in Seq(Block) /\ m.heap_end \in Nat /\ n.heap_end \in Nat
      /\ m.slab_ptr \in Int /\ m.slab_size \in Nat
  BY ProfileAssumption DEF Memory
<1>2. /\ DOMAIN m.given = 1 .. Len(m.given) /\ Len(m.given) \in Nat
      /\ DOMAIN n.given = 1 .. Len(m.given) + 1
      /\ \A i \in 1 .. Len(m.given) : n.given[i] = m.given[i]
      /\ n.given[Len(m.given) + 1] = b
  BY <1>1
<1>3. SUFFICES ASSUME Granted(n.given)
               PROVE  /\ Inside(n, n.slab_ptr, n.slab_size)
                      /\ \A i \in DOMAIN n.given :
                           LET c == n.given[i]
                           IN  /\ Inside(n, c[1], c[2])
                               /\ Apart(c[1], c[2], n.slab_ptr, n.slab_size)
                               /\ \A j \in 1 .. i - 1 :
                                    Apart(c[1], c[2], n.given[j][1], n.given[j][2])
  BY DEF HeapKept
<1>4. Granted(m.given)
  BY <1>1, <1>3, GrantedBefore
<1>5. \A i \in DOMAIN m.given :
        /\ Inside(m, m.given[i][1], m.given[i][2])
        /\ \A j \in 1 .. i - 1 :
             Apart(m.given[i][1], m.given[i][2], m.given[j][1], m.given[j][2])
  BY <1>4 DEF HeapKept
<1>6. \A i \in 1 .. Len(m.given) :
        m.given[i][1] \in Nat \union {-1} /\ m.given[i][2] \in Nat
  BY <1>1 DEF Block
<1>7. ASSUME NEW i \in 1 .. Len(m.given)
      PROVE  /\ Inside(n, n.given[i][1], n.given[i][2])
             /\ Apart(n.given[i][1], n.given[i][2], n.slab_ptr, n.slab_size)
             /\ \A j \in 1 .. i - 1 :
                  Apart(n.given[i][1], n.given[i][2], n.given[j][1], n.given[j][2])
  <2>1. n.given[i] = m.given[i] /\ \A j \in 1 .. i - 1 : n.given[j] = m.given[j]
    BY <1>2
  <2>2. Inside(n, m.given[i][1], m.given[i][2])
    <3>1. /\ m.given[i][1] \in Int /\ m.given[i][2] \in Nat
          /\ Inside(m, m.given[i][1], m.given[i][2])
      BY <1>2, <1>5, <1>6
    <3> QED
      BY <3>1, InsideStays
  <2> QED
    BY <1>2, <1>3, <1>5, <2>1, <2>2
<1>8. \A j \in 1 .. Len(m.given) : Apart(b[1], b[2], n.given[j][1], n.given[j][2])
  BY <1>2, <1>3
<1>9. ASSUME NEW i \in DOMAIN n.given
      PROVE  /\ Inside(n, n.given[i][1], n.given[i][2])
             /\ Apart(n.given[i][1], n.given[i][2], n.slab_ptr, n.slab_size)
             /\ \A j \in 1 .. i - 1 :
                  Apart(n.given[i][1], n.given[i][2], n.given[j][1], n.given[j][2])
  <2>1. CASE i \in 1 .. Len(m.given)
    BY <1>7, <2>1
  <2>2. CASE i = Len(m.given) + 1
    BY <1>2, <1>3, <1>8, <2>2
  <2> QED
    BY <1>2, <2>1, <2>2
<1> QED
  BY <1>3, <1>9

-----------------------------------------------------------------------------
(***************************************************************************)
(* What sbrk and mcount_allocate do to it.                                 *)
(***************************************************************************)
LEMMA GiveIs ==
  ASSUME NEW m \in Memory, NEW start \in Nat \union {-1}, NEW size \in Nat,
         NEW end \in Nat
  PROVE  LET g == Give(m, start, size)
             n == [g EXCEPT !.heap_end = end]
         IN  /\ g \in Memory /\ n \in Memory
             /\ g.heap_end = m.heap_end /\ n.heap_end = end
             /\ g.slab_ptr = m.slab_ptr /\ n.slab_ptr = m.slab_ptr
             /\ g.slab_size = m.slab_size /\ n.slab_size = m.slab_size
             /\ g.given = Append(m.given, <<start, size>>)
             /\ n.given = Append(m.given, <<start, size>>)
<1>1. <<start, size>> \in Block
  BY BlockIs
<1>2. Append(m.given, <<start, size>>) \in Seq(Block)
  BY <1>1 DEF Memory
<1> QED
  BY <1>2 DEF Give, Memory

\* Moving heap_end up.
LEMMA RaiseKept ==
  ASSUME NEW m \in Memory, HeapKept(m), NEW end \in Nat, m.heap_end <= end
  PROVE  LET n == [m EXCEPT !.heap_end = end]
         IN  n \in Memory /\ HeapKept(n)
<1> DEFINE n == [m EXCEPT !.heap_end = end]
<1>1. /\ n \in Memory /\ n.heap_end = end /\ n.given = m.given
      /\ n.slab_ptr = m.slab_ptr /\ n.slab_size = m.slab_size
  BY DEF Memory
<1> HIDE DEF n
<1>2. /\ m.given \in Seq(Block) /\ m.slab_ptr \in Int /\ m.slab_size \in Nat
  BY ProfileAssumption DEF Memory
<1>3. \A i \in DOMAIN m.given : m.given[i][1] \in Int /\ m.given[i][2] \in Nat
  BY <1>2 DEF Block
<1>4. \A a \in Int, k \in Nat : Inside(m, a, k) => Inside(n, a, k)
  BY <1>1, InsideStays
<1>5. HeapKept(n)
  <2> SUFFICES ASSUME Granted(m.given)
               PROVE  /\ Inside(n, m.slab_ptr, m.slab_size)
                      /\ \A i \in DOMAIN m.given :
                           /\ Inside(n, m.given[i][1], m.given[i][2])
                           /\ Apart(m.given[i][1], m.given[i][2], m.slab_ptr, m.slab_size)
                           /\ \A j \in 1 .. i - 1 :
                                Apart(m.given[i][1], m.given[i][2],
                                      m.given[j][1], m.given[j][2])
    BY <1>1 DEF HeapKept
  <2> QED
    BY <1>2, <1>3, <1>4 DEF HeapKept
<1> QED
  BY <1>1, <1>5 DEF n

\* A block from heap_end on, as sbrk gives it.
LEMMA TopKept ==
  ASSUME NEW m \in Memory, HeapKept(m), NEW start \in Nat, NEW size \in Nat,
         m.heap_end <= start, start + size <= HeapSize
  PROVE  LET n == [Give(m, start, size) EXCEPT !.heap_end = start + size]
         IN  n \in Memory /\ HeapKept(n)
<1>1. PICK b \in Block : b = <<start, size>> /\ b[1] = start /\ b[2] = size
  BY BlockIs
<1> DEFINE n == [Give(m, start, size) EXCEPT !.heap_end = start + size]
<1>2. /\ n \in Memory /\ n.heap_end = start + size
      /\ n.slab_ptr = m.slab_ptr /\ n.slab_size = m.slab_size
      /\ n.given = Append(m.given, b)
  <2>1. start + size \in Nat
    OBVIOUS
  <2> QED
    BY <1>1, <2>1, GiveIs
<1> HIDE DEF n
<1>3. /\ m.given \in Seq(Block) /\ m.heap_end \in Nat
      /\ m.slab_ptr \in Int /\ m.slab_size \in Nat
  BY ProfileAssumption DEF Memory
<1>4. m.heap_end <= n.heap_end
  BY <1>2, <1>3
<1>5. ASSUME Granted(n.given)
      PROVE  /\ HeapKept(m) => Inside(n, n.slab_ptr, n.slab_size)
             /\ Inside(n, b[1], b[2])
             /\ Apart(b[1], b[2], n.slab_ptr, n.slab_size)
             /\ \A i \in DOMAIN m.given :
                  /\ Apart(b[1], b[2], m.given[i][1], m.given[i][2])
                  /\ Apart(m.given[i][1], m.given[i][2], n.slab_ptr, n.slab_size)
  <2>1. Granted(m.given)
    BY <1>2, <1>3, <1>5, GrantedBefore
  <2>2. /\ Inside(m, m.slab_ptr, m.slab_size)
        /\ \A i \in DOMAIN m.given :
             /\ Inside(m, m.given[i][1], m.given[i][2])
             /\ Apart(m.given[i][1], m.given[i][2], m.slab_ptr, m.slab_size)
    BY <2>1 DEF HeapKept
  <2>3. \A i \in DOMAIN m.given : m.given[i][1] \in Int /\ m.given[i][2] \in Nat
    BY <1>3 DEF Block
  <2>4. Inside(n, n.slab_ptr, n.slab_size)
    BY <1>2, <1>3, <1>4, <2>2, InsideStays
  <2>5. \A a \in Int, k \in Nat : Inside(m, a, k) => Apart(start, size, a, k)
    BY <1>3 DEF Inside, Apart
  <2>6. Inside(n, start, size)
    BY <1>2 DEF Inside
  <2> QED
    BY <1>1, <1>2, <1>3, <2>2, <2>3, <2>4, <2>5, <2>6
<1>6. HeapKept(n)
  BY <1>2, <1>4, <1>5, GiveKept
<1> QED
  BY <1>2, <1>6 DEF n

\* heap_end never leaves the heap but to be aligned.
Bounded(m) == m.heap_end <= Aligned(HeapSize)

WithSlab(m, end, start) ==
  [m EXCEPT !.heap_end = end, !.slab_ptr = start, !.slab_size = SlabSize]

LEMMA WithSlabIs ==
  ASSUME NEW m \in Memory, NEW end \in Nat, NEW start \in Nat \union {-1}
  PROVE  LET r == WithSlab(m, end, start)
         IN  /\ r \in Memory /\ r.given = m.given
             /\ r.heap_end = end /\ r.slab_ptr = start /\ r.slab_size = SlabSize
<1>1. SlabSize \in 0 .. SlabSize
  BY ProfileAssumption
<1> QED
  BY <1>1 DEF Memory, WithSlab

\* mcount_allocate's new slab, unless it is refused one.
LEMMA NewSlabKept ==
  ASSUME NEW m \in Memory, HeapKept(m), Bounded(m), SlabFull(m)
  PROVE  LET n == NewSlab(m)
         IN  /\ n \in Memory /\ Bounded(n)
             /\ n.slab_size = SlabSize
             /\ n.slab_ptr = -1 \/ HeapKept(n)
<1> DEFINE n == NewSlab(m)
<1>1. /\ m.given \in Seq(Block) /\ m.heap_end \in Nat
      /\ m.slab_ptr \in Int /\ m.slab_size \in Nat
      /\ SlabSize \in Nat /\ HeapSize \in Nat
  BY ProfileAssumption DEF Memory
<1> DEFINE top == Aligned(m.heap_end)
<1>2. /\ top \in Nat /\ m.heap_end <= top /\ top <= Aligned(HeapSize)
      /\ HeapSize <= Aligned(HeapSize) /\ Aligned(HeapSize) \in Nat
  BY <1>1, AlignedIs DEF Bounded
<1>3. CASE Exhausted(m.heap_end, SlabSize)
  <2>1. n = WithSlab(m, top, -1)
    BY <1>3 DEF NewSlab, WithSlab
  <2> HIDE DEF n, top
  <2>2. n \in Memory /\ n.heap_end = top /\ n.slab_size = SlabSize /\ n.slab_ptr = -1
    <3>1. -1 \in Nat \union {-1}
      OBVIOUS
    <3> QED
      BY <1>2, <2>1, <3>1, WithSlabIs, Zenon
  <2>3. Bounded(n)
    BY <1>2, <2>2 DEF Bounded
  <2> QED
    BY <2>2, <2>3 DEF n
<1>4. CASE ~Exhausted(m.heap_end, SlabSize)
  <2>1. n = WithSlab(m, top + SlabSize, top)
    BY <1>4 DEF NewSlab, WithSlab
  <2>2. top + SlabSize <= HeapSize /\ top + SlabSize \in Nat
    BY <1>1, <1>2, <1>4 DEF Exhausted
  <2> HIDE DEF n, top
  <2>3. /\ n \in Memory /\ n.heap_end = top + SlabSize /\ n.slab_size = SlabSize
        /\ n.slab_ptr = top /\ n.given = m.given
    <3>1. top \in Nat \union {-1}
      BY <1>2
    <3> QED
      BY <2>1, <2>2, <3>1, WithSlabIs, Zenon
  <2>4. Bounded(n)
    BY <1>1, <1>2, <2>2, <2>3 DEF Bounded
  <2>5. m.heap_end <= n.heap_end
    BY <1>1, <1>2, <2>3
  <2>6. ASSUME Granted(m.given)
        PROVE  /\ Inside(n, top, SlabSize)
               /\ \A i \in DOMAIN m.given :
                    /\ Inside(n, m.given[i][1], m.given[i][2])
                    /\ Apart(m.given[i][1], m.given[i][2], top, SlabSize)
                    /\ \A j \in 1 .. i - 1 :
                         Apart(m.given[i][1], m.given[i][2], m.given[j][1], m.given[j][2])
    <3>1. \A i \in DOMAIN m.given :
            /\ Inside(m, m.given[i][1], m.given[i][2])
            /\ \A j \in 1 .. i - 1 :
                 Apart(m.given[i][1], m.given[i][2], m.given[j][1], m.given[j][2])
      BY <2>6 DEF HeapKept
    <3>2. \A i \in DOMAIN m.given : m.given[i][1] \in Int /\ m.given[i][2] \in Nat
      BY <1>1 DEF Block
    <3>3. \A a \in Int, k \in Nat : Inside(m, a, k) => Inside(n, a, k)
      BY <2>3, <2>5, InsideStays
    <3>4. \A a \in Int, k \in Nat : Inside(m, a, k) => Apart(a, k, top, SlabSize)
      BY <1>1, <1>2 DEF Inside, Apart
    <3>5. Inside(n, top, SlabSize)
      BY <1>1, <1>2, <2>2, <2>3 DEF Inside
    <3> QED
      BY <3>1, <3>2, <3>3, <3>4, <3>5
  <2>7. HeapKept(n)
    BY <2>3, <2>6 DEF HeapKept
  <2> QED
    BY <2>3, <2>4, <2>7 DEF n
<1> QED
  BY <1>3, <1>4

\* An entry, from the slab.
LEMMA EntryKept ==
  ASSUME NEW m \in Memory, Bounded(m), EntrySize <= m.slab_size,
         m.slab_ptr = -1 \/ HeapKept(m)
  PROVE  LET n == [Give(m, m.slab_ptr, EntrySize) EXCEPT
                     !.slab_ptr = @ + EntrySize, !.slab_size = @ - EntrySize]
         IN  n \in Memory /\ Bounded(n) /\ HeapKept(n)
<1> DEFINE g == Give(m, m.slab_ptr, EntrySize)
           n == [g EXCEPT !.slab_ptr = @ + EntrySize, !.slab_size = @ - EntrySize]
<1>1. /\ m.given \in Seq(Block) /\ m.heap_end \in Nat
      /\ m.slab_ptr \in Nat \union {-1} /\ m.slab_size \in 0 .. SlabSize
      /\ SlabSize \in Nat /\ EntrySize \in Nat \ {0}
  BY ProfileAssumption DEF Memory
<1>2. PICK b \in Block : /\ b = <<m.slab_ptr, EntrySize>>
                         /\ b[1] = m.slab_ptr /\ b[2] = EntrySize
  BY <1>1, BlockIs
<1>3. /\ g \in Memory /\ g.heap_end = m.heap_end /\ g.slab_ptr = m.slab_ptr
      /\ g.slab_size = m.slab_size /\ g.given = Append(m.given, b)
  <2>1. Append(m.given, b) \in Seq(Block)
    BY <1>1
  <2> QED
    BY <1>2, <2>1 DEF Give, Memory
<1> HIDE DEF g
<1>4. /\ n \in Memory /\ n.heap_end = m.heap_end
      /\ n.slab_ptr = m.slab_ptr + EntrySize /\ n.slab_size = m.slab_size - EntrySize
      /\ n.given = Append(m.given, b)
  <2>1. /\ m.slab_ptr + EntrySize \in Nat
        /\ m.slab_size - EntrySize \in 0 .. SlabSize
    BY <1>1
  <2> QED
    BY <1>3, <2>1 DEF Memory
<1> HIDE DEF n
<1>5. Bounded(n)
  BY <1>4 DEF Bounded
<1>6. CASE m.slab_ptr = -1
  <2>1. ~Granted(n.given)
    BY <1>1, <1>2, <1>4, <1>6, GrantedBefore
  <2> QED
    BY <1>4, <1>5, <2>1 DEF HeapKept, n, g
<1>7. CASE HeapKept(m)
  <2>1. ASSUME Granted(n.given)
        PROVE  /\ HeapKept(m) => Inside(n, n.slab_ptr, n.slab_size)
               /\ Inside(n, b[1], b[2])
               /\ Apart(b[1], b[2], n.slab_ptr, n.slab_size)
               /\ \A i \in DOMAIN m.given :
                    /\ Apart(b[1], b[2], m.given[i][1], m.given[i][2])
                    /\ Apart(m.given[i][1], m.given[i][2], n.slab_ptr, n.slab_size)
    <3>1. Granted(m.given)
      BY <1>1, <1>4, <2>1, GrantedBefore
    <3>2. /\ Inside(m, m.slab_ptr, m.slab_size)
          /\ \A i \in DOMAIN m.given :
               Apart(m.given[i][1], m.given[i][2], m.slab_ptr, m.slab_size)
      BY <1>7, <3>1 DEF HeapKept
    <3>3. \A i \in DOMAIN m.given : m.given[i][1] \in Int /\ m.given[i][2] \in Nat
      BY <1>1 DEF Block
    <3>4. Inside(n, n.slab_ptr, n.slab_size) /\ Inside(n, m.slab_ptr, EntrySize)
      BY <1>1, <1>4, <3>2, ProfileAssumption DEF Inside
    <3>5. \A a \in Int, k \in Nat :
            Apart(a, k, m.slab_ptr, m.slab_size) =>
              /\ Apart(m.slab_ptr, EntrySize, a, k)
              /\ Apart(a, k, n.slab_ptr, n.slab_size)
      BY <1>1, <1>4 DEF Apart
    <3>6. Apart(m.slab_ptr, EntrySize, n.slab_ptr, n.slab_size)
      BY <1>1, <1>4 DEF Apart
    <3> QED
      BY <1>2, <3>2, <3>3, <3>4, <3>5, <3>6
  <2>2. m.heap_end <= n.heap_end
    BY <1>1, <1>4
  <2>3. HeapKept(n)
    BY <1>4, <1>7, <2>1, <2>2, GiveKept
  <2> QED
    BY <1>4, <1>5, <2>3 DEF n, g
<1> QED
  BY <1>6, <1>7

LEMMA AllocateKept ==
  ASSUME NEW m \in Memory, HeapKept(m), Bounded(m)
  PROVE  /\ Allocate(m) \in Memory
         /\ HeapKept(Allocate(m)) /\ Bounded(Allocate(m))
<1>1. CASE SlabFull(m)
  <2> DEFINE slab == NewSlab(m)
  <2>1. /\ slab \in Memory /\ Bounded(slab) /\ slab.slab_size = SlabSize
        /\ slab.slab_ptr = -1 \/ HeapKept(slab)
    BY <1>1, NewSlabKept
  <2>2. Allocate(m) = [Give(slab, slab.slab_ptr, EntrySize) EXCEPT
                         !.slab_ptr = @ + EntrySize, !.slab_size = @ - EntrySize]
    BY <1>1 DEF Allocate
  <2> HIDE DEF slab
  <2>3. EntrySize <= slab.slab_size
    BY <2>1, ProfileAssumption
  <2> QED
    BY <2>1, <2>2, <2>3, EntryKept
<1>2. CASE ~SlabFull(m)
  <2>1. Allocate(m) = [Give(m, m.slab_ptr, EntrySize) EXCEPT
                         !.slab_ptr = @ + EntrySize, !.slab_size = @ - EntrySize]
    BY <1>2 DEF Allocate
  <2>2. EntrySize <= m.slab_size
    BY <1>2, ProfileAssumption DEF SlabFull, Memory
  <2> QED
    BY <2>1, <2>2, EntryKept
<1> QED
  BY <1>1, <1>2

-----------------------------------------------------------------------------
(***************************************************************************)
(* The lists and the two levels.  A frame keeps places in lists that only  *)
(* grow; the one that runs sbrk with interrupts disabled has read heap_end *)
(* and nothing moves it meanwhile.                                         *)
(***************************************************************************)
ArcEntry == [from_pc : Callers, count : Nat \ {0}]
FnEntry  == [self_pc : Callees, arcs : Seq(ArcEntry)]

Frames == [pc : Pcs, arc : Arcs \union {NoArc}, fn_entry : Nat, arc_entry : Nat,
           count : Nat, size : Nat, prev : Nat \union {-1}]

InMcount == Pcs \ {"run", "sbrk", "sbrk_end"}

FrameOK(f, list) ==
  /\ f.pc = "run" => f = Idle
  /\ f.pc \in InMcount => f.arc \in Arcs
  /\ f.fn_entry # 0 =>
       f.fn_entry \in DOMAIN list /\ list[f.fn_entry].self_pc = f.arc[1]
  /\ f.pc \in {"arc", "load", "store"} => f.fn_entry # 0
  /\ f.pc \in {"load", "store"} =>
       LET arcs == list[f.fn_entry].arcs
       IN  f.arc_entry \in DOMAIN arcs /\ arcs[f.arc_entry].from_pc = f.arc[2]

FramesOK ==
  /\ level \in 0 .. 1
  /\ frame \in [0 .. 1 -> Frames]
  /\ \A l \in 0 .. 1 : FrameOK(frame[l], fns)
  /\ level = 0 => frame[1] = Idle
  /\ level = 1 => frame[0].pc \notin Masked

Scalars ==
  /\ need_init \in 0 .. 1 /\ tick_rate \in BOOLEAN /\ alarms \in Nat
  /\ requests \in 0 .. MaxRequests

MemoryOK == memory \in Memory /\ Bounded(memory) /\ HeapKept(memory)

\* A section of sbrk that was given something.
Taking ==
  Top.pc \in Masked /\ Top.prev # -1 =>
    Top.prev = memory.heap_end /\ Top.prev + Top.size <= HeapSize

OnLists(arc, list) ==
  \E i \in DOMAIN list :
    /\ list[i].self_pc = arc[1]
    /\ \E j \in DOMAIN list[i].arcs : list[i].arcs[j].from_pc = arc[2]

\* Every arc that was called is on the lists, under its own function.
ArcsListed == \A arc \in Arcs : calls[arc] > 0 => OnLists(arc, fns)

ProfIInv ==
  /\ fns \in Seq(FnEntry) /\ calls \in [Arcs -> Nat]
  /\ Scalars /\ FramesOK /\ MemoryOK /\ Taking /\ ArcsListed

\* b is a with entries and arcs added, and other counts.
Longer(a, b) ==
  \A i \in DOMAIN a :
    /\ i \in DOMAIN b /\ b[i].self_pc = a[i].self_pc
    /\ \A j \in DOMAIN a[i].arcs :
         j \in DOMAIN b[i].arcs /\ b[i].arcs[j].from_pc = a[i].arcs[j].from_pc

LEMMA LongerKeeps ==
  ASSUME NEW a, NEW b, Longer(a, b)
  PROVE  /\ \A f : FrameOK(f, a) => FrameOK(f, b)
         /\ \A arc : OnLists(arc, a) => OnLists(arc, b)
<1>1. ASSUME NEW f, FrameOK(f, a) PROVE FrameOK(f, b)
  BY <1>1 DEF FrameOK, Longer
<1>2. ASSUME NEW arc, OnLists(arc, a) PROVE OnLists(arc, b)
  BY <1>2 DEF OnLists, Longer
<1> QED
  BY <1>1, <1>2

LEMMA IdleOK == Idle \in Frames /\ Idle.pc = "run" /\ \A list : FrameOK(Idle, list)
BY DEF Idle, Frames, Pcs, FrameOK, InMcount, NoArc

LEMMA TopOK ==
  ASSUME FramesOK
  PROVE  Top \in Frames /\ FrameOK(Top, fns) /\ level \in 0 .. 1
BY DEF FramesOK, Top

\* The frame that runs is replaced.
LEMMA BecomeKeeps ==
  ASSUME FramesOK, level' = level, Longer(fns, fns'),
         NEW f \in Frames, FrameOK(f, fns'), Become(f)
  PROVE  FramesOK' /\ Top' = f
<1>1. /\ level \in 0 .. 1 /\ frame \in [0 .. 1 -> Frames]
      /\ frame' = [frame EXCEPT ![level] = f]
  BY DEF FramesOK, Become
<1>2. /\ frame' \in [0 .. 1 -> Frames] /\ frame'[level] = f
      /\ \A l \in 0 .. 1 : l # level => frame'[l] = frame[l]
  BY <1>1
<1>3. \A l \in 0 .. 1 : FrameOK(frame'[l], fns')
  BY <1>1, <1>2, LongerKeeps DEF FramesOK
<1> QED
  BY <1>1, <1>2, <1>3 DEF FramesOK, Top

LEMMA SameLonger == Longer(fns, fns)
BY DEF Longer

\* A step of the frame that runs and of nothing the two levels share.
LEMMA LocalKeeps ==
  ASSUME ProfIInv, UNCHANGED <<fns, calls, memory, level>>, Scalars',
         NEW f \in Frames, FrameOK(f, fns), f.pc \notin Masked, Become(f)
  PROVE  ProfIInv'
<1>1. Longer(fns, fns') /\ FrameOK(f, fns')
  BY SameLonger
<1>2. FramesOK' /\ Top' = f
  BY <1>1, BecomeKeeps DEF ProfIInv
<1>3. Taking'
  BY <1>2 DEF Taking, Masked
<1>4. MemoryOK' /\ ArcsListed'
  BY DEF ProfIInv, MemoryOK, ArcsListed
<1> QED
  BY <1>2, <1>3, <1>4 DEF ProfIInv

LEMMA InitProfIInv == ProfInit => ProfIInv
<1> SUFFICES ASSUME ProfInit PROVE ProfIInv
  OBVIOUS
<1>1. fns \in Seq(FnEntry) /\ calls \in [Arcs -> Nat] /\ Scalars
  BY ProfileAssumption DEF ProfInit, Scalars
<1>2. FramesOK
  BY IdleOK DEF ProfInit, FramesOK
<1>3. MemoryOK
  <2>1. /\ memory.heap_end = 0 /\ memory.slab_ptr = 0 /\ memory.slab_size = 0
        /\ memory.given = <<>>
    BY DEF ProfInit
  <2>2. memory \in Memory
    BY ProfileAssumption DEF ProfInit, Memory
  <2>3. Bounded(memory)
    BY <2>1, AlignedIs, ProfileAssumption DEF Bounded
  <2>4. HeapKept(memory)
    BY <2>1, ProfileAssumption DEF HeapKept, Inside
  <2> QED
    BY <2>2, <2>3, <2>4 DEF MemoryOK
<1>4. Taking
  BY IdleOK DEF ProfInit, Taking, Top, Masked
<1>5. ArcsListed
  BY DEF ProfInit, ArcsListed
<1> QED
  BY <1>1, <1>2, <1>3, <1>4, <1>5 DEF ProfIInv

LEMMA EntriesAre ==
  ASSUME fns \in Seq(FnEntry), NEW i \in DOMAIN fns
  PROVE  /\ fns[i] \in FnEntry /\ fns[i].arcs \in Seq(ArcEntry)
         /\ \A j \in DOMAIN fns[i].arcs :
              fns[i].arcs[j] \in ArcEntry /\ fns[i].arcs[j].count \in Nat
<1>1. fns[i] \in FnEntry
  OBVIOUS
<1>2. fns[i].arcs \in Seq(ArcEntry)
  BY <1>1 DEF FnEntry
<1>3. \A j \in DOMAIN fns[i].arcs : fns[i].arcs[j] \in ArcEntry
  BY <1>2
<1> QED
  BY <1>1, <1>2, <1>3 DEF ArcEntry

\* The steps that change only the frame and what one level owns.
LEMMA LocalSteps ==
  ASSUME ProfIInv,
         \/ \E arc \in Arcs : Mcount(arc)
         \/ \E incr \in Increments : Sbrk(incr)
         \/ FindFn \/ FindArc \/ LoadCount
         \/ ReadNeedInit \/ ClearNeedInit \/ StartSampler \/ SetNeedInit
  PROVE  ProfIInv'
<1>1. /\ Top \in Frames /\ FrameOK(Top, fns) /\ level \in 0 .. 1 /\ Scalars
      /\ fns \in Seq(FnEntry)
  BY TopOK DEF ProfIInv
<1>2. ASSUME NEW arc \in Arcs, Mcount(arc) PROVE ProfIInv'
  <2> DEFINE f == [Top EXCEPT !.pc = "fn", !.arc = arc]
  <2>1. f \in Frames /\ FrameOK(f, fns) /\ f.pc \notin Masked
    <3>1. Top.fn_entry = 0
      <4>1. Top.pc = "run"
        BY <1>2 DEF Mcount, At
      <4>2. Top = Idle
        BY <1>1, <4>1 DEF FrameOK
      <4> QED
        BY <4>2 DEF Idle
    <3>2. f \in Frames /\ f.pc = "fn" /\ f.arc = arc /\ f.fn_entry = 0
      BY <1>1, <3>1 DEF Frames, Pcs
    <3> HIDE DEF f
    <3> QED
      BY <3>2 DEF FrameOK, InMcount, Masked
  <2>2. Become(f) /\ UNCHANGED <<fns, calls, memory, level>> /\ Scalars'
    BY <1>1, <1>2 DEF Mcount, Scalars
  <2> HIDE DEF f
  <2> QED
    BY <2>1, <2>2, LocalKeeps
<1>3. ASSUME NEW incr \in Increments, Sbrk(incr) PROVE ProfIInv'
  <2> DEFINE f == [Top EXCEPT !.pc = "sbrk", !.size = incr]
  <2>1. f \in Frames /\ FrameOK(f, fns) /\ f.pc \notin Masked
    BY <1>1, <1>3, ProfileAssumption
       DEF Sbrk, At, Frames, Pcs, FrameOK, InMcount, Masked, Idle
  <2>2. Become(f) /\ UNCHANGED <<fns, calls, memory, level>>
    BY <1>3 DEF Sbrk
  <2>3. Scalars'
    <3>1. requests' \in 0 .. MaxRequests
      <4>1. requests < MaxRequests /\ requests' = requests + 1
        BY <1>3 DEF Sbrk
      <4>2. requests \in 0 .. MaxRequests
        BY <1>1, Zenon DEF Scalars
      <4> QED
        BY <4>1, <4>2, ProfileAssumption
    <3>2. UNCHANGED <<need_init, tick_rate, alarms>>
      BY <1>3 DEF Sbrk
    <3>3. Scalars
      BY <1>1
    <3> QED
      BY <3>1, <3>2, <3>3 DEF Scalars
  <2> HIDE DEF f
  <2> QED
    BY <2>1, <2>2, <2>3, LocalKeeps
<1>4. ASSUME FindFn PROVE ProfIInv'
  <2>1. PICK p \in Newest({i \in DOMAIN fns : fns[i].self_pc = Top.arc[1]}) :
          Become([Top EXCEPT !.fn_entry = p,
                             !.pc = IF p = 0 THEN "record" ELSE "arc"])
    BY <1>4 DEF FindFn
  <2> DEFINE f == [Top EXCEPT !.fn_entry = p,
                              !.pc = IF p = 0 THEN "record" ELSE "arc"]
  <2>2. p \in Nat /\ (p # 0 => p \in DOMAIN fns /\ fns[p].self_pc = Top.arc[1])
    BY <1>1, <2>1 DEF Newest
  <2>3. f \in Frames /\ FrameOK(f, fns) /\ f.pc \notin Masked
    BY <1>1, <1>4, <2>2 DEF FindFn, At, Frames, Pcs, FrameOK, InMcount, Masked
  <2> QED
    BY <1>1, <1>4, <2>1, <2>3, LocalKeeps DEF FindFn, Scalars
<1>5. ASSUME FindArc PROVE ProfIInv'
  <2> DEFINE arcs == fns[Top.fn_entry].arcs
  <2>1. PICK p \in Newest({i \in DOMAIN arcs : arcs[i].from_pc = Top.arc[2]}) :
          Become([Top EXCEPT !.arc_entry = p,
                             !.pc = IF p = 0 THEN "record" ELSE "load"])
    BY <1>5 DEF FindArc
  <2> DEFINE f == [Top EXCEPT !.arc_entry = p,
                              !.pc = IF p = 0 THEN "record" ELSE "load"]
  <2>2. arcs \in Seq(ArcEntry)
    <3>1. Top.fn_entry \in DOMAIN fns
      BY <1>1, <1>5 DEF FindArc, At, FrameOK
    <3> QED
      BY <1>1, <3>1, EntriesAre
  <2>3. p \in Nat /\ (p # 0 => p \in DOMAIN arcs /\ arcs[p].from_pc = Top.arc[2])
    BY <2>1, <2>2 DEF Newest
  <2>4. f \in Frames /\ FrameOK(f, fns) /\ f.pc \notin Masked
    BY <1>1, <1>5, <2>3 DEF FindArc, At, Frames, Pcs, FrameOK, InMcount, Masked
  <2> QED
    BY <1>1, <1>5, <2>1, <2>4, LocalKeeps DEF FindArc, Scalars
<1>6. ASSUME LoadCount PROVE ProfIInv'
  <2> DEFINE n == fns[Top.fn_entry].arcs[Top.arc_entry].count
             f == [Top EXCEPT !.pc = "store", !.count = n]
  <2>1. n \in Nat
    <3>1. /\ Top.fn_entry \in DOMAIN fns
          /\ Top.arc_entry \in DOMAIN fns[Top.fn_entry].arcs
      BY <1>1, <1>6 DEF LoadCount, At, FrameOK
    <3> QED
      BY <1>1, <3>1, EntriesAre
  <2> HIDE DEF n
  <2>2. f \in Frames /\ FrameOK(f, fns) /\ f.pc \notin Masked
    BY <1>1, <1>6, <2>1 DEF LoadCount, At, Frames, Pcs, FrameOK, InMcount, Masked
  <2> QED
    BY <1>1, <1>6, <2>2, LocalKeeps DEF LoadCount, Scalars, n
<1>7. ASSUME ReadNeedInit PROVE ProfIInv'
  <2> DEFINE f == [Top EXCEPT !.pc = IF need_init = 1 THEN "clear" ELSE "section"]
  <2>1. f \in Frames /\ FrameOK(f, fns) /\ f.pc \notin Masked
    BY <1>1, <1>7 DEF ReadNeedInit, At, Frames, Pcs, FrameOK, InMcount, Masked
  <2> QED
    BY <1>1, <1>7, <2>1, LocalKeeps DEF ReadNeedInit, Goto, Scalars
<1>8. ASSUME ClearNeedInit PROVE ProfIInv'
  <2> DEFINE f == [Top EXCEPT !.pc = IF tick_rate THEN "sample" ELSE "no_clock",
                              !.size = Samples]
  <2>1. f \in Frames /\ FrameOK(f, fns) /\ f.pc \notin Masked
    BY <1>1, <1>8, ProfileAssumption
       DEF ClearNeedInit, At, Frames, Pcs, FrameOK, InMcount, Masked
  <2>2. Scalars'
    BY <1>1, <1>8 DEF ClearNeedInit, Scalars
  <2> QED
    BY <1>8, <2>1, <2>2, LocalKeeps DEF ClearNeedInit
<1>9. ASSUME StartSampler PROVE ProfIInv'
  <2> DEFINE f == [Top EXCEPT !.pc = "started"]
  <2>1. f \in Frames /\ FrameOK(f, fns) /\ f.pc \notin Masked
    BY <1>1, <1>9 DEF StartSampler, At, Frames, Pcs, FrameOK, InMcount, Masked
  <2>2. Scalars'
    BY <1>1, <1>9 DEF StartSampler, Scalars
  <2> QED
    BY <1>9, <2>1, <2>2, LocalKeeps DEF StartSampler, Goto
<1>10. ASSUME SetNeedInit PROVE ProfIInv'
  <2> DEFINE f == [Top EXCEPT !.pc = "section"]
  <2>1. f \in Frames /\ FrameOK(f, fns) /\ f.pc \notin Masked
    BY <1>1, <1>10 DEF SetNeedInit, At, Frames, Pcs, FrameOK, InMcount, Masked
  <2>2. Scalars'
    BY <1>1, <1>10 DEF SetNeedInit, Scalars
  <2> QED
    BY <1>10, <2>1, <2>2, LocalKeeps DEF SetNeedInit, Goto
<1> QED
  BY <1>2, <1>3, <1>4, <1>5, <1>6, <1>7, <1>8, <1>9, <1>10

\* sbrk reads heap_end, aligns it and decides.
LEMMA SbrkReadKeeps == ProfIInv /\ SbrkRead => ProfIInv'
<1> SUFFICES ASSUME ProfIInv, SbrkRead PROVE ProfIInv'
  OBVIOUS
<1> DEFINE end == Aligned(memory.heap_end)
           prev == IF Exhausted(memory.heap_end, Top.size) THEN -1 ELSE end
           back == IF At("sbrk") THEN "sbrk_end" ELSE "sample_end"
           f == [Top EXCEPT !.prev = prev, !.pc = back]
<1>1. /\ Top \in Frames /\ FrameOK(Top, fns) /\ level \in 0 .. 1
      /\ memory \in Memory /\ HeapKept(memory) /\ Bounded(memory)
  BY TopOK DEF ProfIInv, MemoryOK
<1>2. /\ memory.heap_end \in Nat /\ Top.size \in Nat /\ HeapSize \in Nat
  BY <1>1, ProfileAssumption DEF Memory, Frames
<1>3. end \in Nat /\ memory.heap_end <= end /\ end <= Aligned(HeapSize)
  BY <1>1, <1>2, AlignedIs DEF Bounded
<1>4. memory' = [memory EXCEPT !.heap_end = end] /\ memory'.heap_end = end
  BY <1>1 DEF SbrkRead, Memory
<1>5. Become(f) /\ UNCHANGED <<fns, calls, level>> /\ Scalars'
  BY <1>4 DEF SbrkRead, ProfIInv, Scalars
<1>6. prev \in Nat \union {-1} /\ (prev # -1 => prev = end /\ end + Top.size <= HeapSize)
  BY <1>2, <1>3 DEF Exhausted
<1>7. At("sbrk") \/ At("sample")
  BY DEF SbrkRead
<1> HIDE DEF end, prev
<1>8. f \in Frames /\ FrameOK(f, fns) /\ f.prev = prev /\ f.size = Top.size
  BY <1>1, <1>6, <1>7 DEF At, Frames, Pcs, FrameOK, InMcount
<1> HIDE DEF f
<1>9. FramesOK' /\ Top' = f
  BY <1>5, <1>8, SameLonger, BecomeKeeps DEF ProfIInv
<1>10. MemoryOK'
  <2>1. memory' \in Memory /\ HeapKept(memory')
    BY <1>1, <1>3, <1>4, RaiseKept
  <2> QED
    BY <1>3, <1>4, <2>1 DEF MemoryOK, Bounded
<1>11. Taking'
  BY <1>4, <1>6, <1>8, <1>9 DEF Taking
<1> QED
  BY <1>5, <1>9, <1>10, <1>11 DEF ProfIInv, ArcsListed

\* sbrk writes heap_end, or the histogram goes on without its memory.
LEMMA SbrkEndsKeeps ==
  ASSUME ProfIInv, SbrkEnd \/ SampleEnd
  PROVE  ProfIInv'
<1> DEFINE f == IF At("sbrk_end") THEN Idle ELSE [Top EXCEPT !.pc = "start"]
<1>1. /\ Top \in Frames /\ FrameOK(Top, fns) /\ level \in 0 .. 1
      /\ memory \in Memory /\ HeapKept(memory) /\ Bounded(memory)
  BY TopOK DEF ProfIInv, MemoryOK
<1>2. /\ memory.heap_end \in Nat /\ memory.given \in Seq(Block)
      /\ Top.size \in Nat /\ HeapSize \in Nat /\ Top.prev \in Nat \union {-1}
  BY <1>1, ProfileAssumption DEF Memory, Frames
<1>3. /\ Become(f) /\ UNCHANGED <<fns, calls, level>> /\ Scalars'
      /\ Top.pc \in Masked
  BY DEF SbrkEnd, SampleEnd, At, Goto, ProfIInv, Scalars, Masked
<1>4. f \in Frames /\ FrameOK(f, fns) /\ f.pc \notin Masked
  BY <1>1, <1>3, IdleOK DEF At, Frames, Pcs, FrameOK, InMcount, Masked
<1> HIDE DEF f
<1>5. FramesOK' /\ Top' = f
  BY <1>3, <1>4, SameLonger, BecomeKeeps DEF ProfIInv
<1>6. MemoryOK'
  <2>1. CASE Top.prev # -1
    <3>1. /\ memory' = [Give(memory, Top.prev, Top.size)
                          EXCEPT !.heap_end = Top.prev + Top.size]
          /\ Top.prev = memory.heap_end /\ Top.prev + Top.size <= HeapSize
      BY <1>3, <2>1 DEF SbrkEnd, SampleEnd, ProfIInv, Taking
    <3>2. Top.prev \in Nat /\ Top.prev + Top.size \in Nat
      BY <1>2, <2>1
    <3>3. memory' \in Memory /\ HeapKept(memory')
      BY <1>1, <1>2, <3>1, <3>2, TopKept
    <3>4. memory'.heap_end = Top.prev + Top.size
      BY <1>1, <3>1 DEF Give, Memory
    <3>5. HeapSize <= Aligned(HeapSize) /\ Aligned(HeapSize) \in Nat
      BY <1>2, AlignedIs
    <3>6. Bounded(memory')
      BY <1>2, <3>1, <3>2, <3>4, <3>5 DEF Bounded
    <3> QED
      BY <3>3, <3>6 DEF MemoryOK
  <2>2. CASE Top.prev = -1 /\ memory' = memory
    BY <1>1, <2>2 DEF MemoryOK
  <2>3. CASE Top.prev = -1 /\ memory' = Give(memory, -1, Top.size)
    <3>1. -1 \in Nat \union {-1}
      OBVIOUS
    <3>2. PICK b \in Block : b = <<-1, Top.size>> /\ b[1] = -1
      BY <1>2, <3>1, BlockIs
    <3>3. /\ memory' \in Memory /\ memory'.heap_end = memory.heap_end
          /\ memory'.given = Append(memory.given, b)
      <4>1. Append(memory.given, b) \in Seq(Block)
        BY <1>2
      <4> QED
        BY <1>1, <2>3, <3>2, <4>1 DEF Give, Memory
    <3>4. HeapKept(memory')
      BY <1>2, <3>2, <3>3, GrantedBefore DEF HeapKept
    <3>5. Bounded(memory')
      BY <1>1, <3>3 DEF Bounded
    <3> QED
      BY <3>3, <3>4, <3>5 DEF MemoryOK
  <2>4. Top.prev = -1 => memory' = memory \/ memory' = Give(memory, -1, Top.size)
    BY DEF SbrkEnd, SampleEnd
  <2> QED
    BY <2>1, <2>2, <2>3, <2>4
<1>7. Taking'
  BY <1>4, <1>5 DEF Taking
<1> QED
  BY <1>3, <1>5, <1>6, <1>7 DEF ProfIInv, ArcsListed

\* An interrupt comes or ends, or the clock starts.
LEMMA LevelsKeep ==
  ASSUME ProfIInv, Interrupt \/ InterruptEnd \/ ClockStarts \/ UNCHANGED profVars
  PROVE  ProfIInv'
<1>1. UNCHANGED <<fns, calls, memory, frame>> /\ MemoryOK' /\ ArcsListed'
  BY DEF ProfIInv, MemoryOK, ArcsListed, Interrupt, InterruptEnd, ClockStarts, profVars
<1>2. Scalars'
  BY DEF ProfIInv, Scalars, Interrupt, InterruptEnd, ClockStarts, profVars
<1>3. FramesOK' /\ Taking'
  <2>1. CASE Interrupt
    <3>1. /\ level = 0 /\ level' = 1 /\ frame[0].pc \notin Masked
          /\ frame[1] = Idle
      BY <2>1 DEF Interrupt, Top, ProfIInv, FramesOK
    <3> QED
      BY <1>1, <3>1, IdleOK DEF ProfIInv, FramesOK, Taking, Top, Masked
  <2>2. CASE InterruptEnd
    <3>1. /\ level = 1 /\ level' = 0 /\ frame[1] = Idle
          /\ frame[0].pc \notin Masked
      BY <2>2 DEF InterruptEnd, At, Top, ProfIInv, FramesOK, FrameOK
    <3> QED
      BY <1>1, <3>1 DEF ProfIInv, FramesOK, Taking, Top
  <2>3. CASE UNCHANGED level
    BY <1>1, <2>3 DEF ProfIInv, FramesOK, Taking, Top
  <2> QED
    BY <2>1, <2>2, <2>3 DEF ClockStarts, profVars
<1> QED
  BY <1>1, <1>2, <1>3 DEF ProfIInv

\* A call ends that is on the lists as they are now.
LEMMA EndKeeps ==
  ASSUME ProfIInv, Longer(fns, fns'), fns' \in Seq(FnEntry), MemoryOK',
         UNCHANGED level, Scalars', Top.arc \in Arcs, McountEnds,
         OnLists(Top.arc, fns')
  PROVE  ProfIInv'
<1>1. FramesOK' /\ Top' = Idle
  BY IdleOK, BecomeKeeps DEF ProfIInv, McountEnds
<1>2. Taking'
  BY <1>1, IdleOK DEF Taking, Masked
<1>3. /\ calls \in [Arcs -> Nat]
      /\ calls' = [calls EXCEPT ![Top.arc] = calls[Top.arc] + 1]
  BY DEF ProfIInv, McountEnds
<1>4. calls' \in [Arcs -> Nat]
  BY <1>3
<1>5. ArcsListed'
  <2> SUFFICES ASSUME NEW arc \in Arcs, calls'[arc] > 0
               PROVE  OnLists(arc, fns')
    BY DEF ArcsListed
  <2>1. CASE arc # Top.arc
    <3>1. calls[arc] > 0
      BY <1>3, <2>1
    <3>2. OnLists(arc, fns)
      BY <3>1 DEF ProfIInv, ArcsListed
    <3> QED
      BY <3>2, LongerKeeps
  <2> QED
    BY <2>1
<1> QED
  BY <1>1, <1>2, <1>4, <1>5 DEF ProfIInv

LEMMA StoreCountKeeps == ProfIInv /\ StoreCount => ProfIInv'
<1> SUFFICES ASSUME ProfIInv, StoreCount PROVE ProfIInv'
  OBVIOUS
<1> DEFINE i == Top.fn_entry
           j == Top.arc_entry
           arcs == fns[i].arcs
<1>1. /\ Top \in Frames /\ FrameOK(Top, fns) /\ fns \in Seq(FnEntry)
      /\ Top.pc = "store" /\ Top.arc \in Arcs
  BY TopOK DEF ProfIInv, StoreCount, At, FrameOK, InMcount, Pcs
<1>2. /\ i \in DOMAIN fns /\ fns[i].self_pc = Top.arc[1]
      /\ j \in DOMAIN arcs /\ arcs[j].from_pc = Top.arc[2]
      /\ Top.count + 1 \in Nat \ {0}
  BY <1>1 DEF FrameOK, Frames
<1>3. fns[i] \in FnEntry /\ arcs \in Seq(ArcEntry) /\ arcs[j] \in ArcEntry
  BY <1>1, <1>2, EntriesAre
<1> DEFINE one  == [arcs[j] EXCEPT !.count = Top.count + 1]
           many == [arcs EXCEPT ![j] = one]
           fn   == [fns[i] EXCEPT !.arcs = many]
<1>4. fns' = [fns EXCEPT ![i] = fn]
  BY DEF StoreCount
<1>5. one \in ArcEntry /\ one.from_pc = arcs[j].from_pc
  BY <1>2, <1>3 DEF ArcEntry
<1> HIDE DEF one
<1>6. /\ many \in Seq(ArcEntry) /\ DOMAIN many = DOMAIN arcs
      /\ \A k \in DOMAIN arcs : many[k].from_pc = arcs[k].from_pc
  BY <1>2, <1>3, <1>5
<1> HIDE DEF many
<1>7. fn \in FnEntry /\ fn.self_pc = fns[i].self_pc /\ fn.arcs = many
  BY <1>3, <1>6 DEF FnEntry
<1> HIDE DEF fn
<1>8. /\ fns' \in Seq(FnEntry) /\ DOMAIN fns' = DOMAIN fns /\ fns'[i] = fn
      /\ \A k \in DOMAIN fns : k # i => fns'[k] = fns[k]
  BY <1>1, <1>2, <1>4, <1>7
<1>9. Longer(fns, fns')
  BY <1>6, <1>7, <1>8 DEF Longer
<1>10. OnLists(Top.arc, fns')
  BY <1>2, <1>6, <1>7, <1>8 DEF OnLists
<1>11. MemoryOK' /\ UNCHANGED level /\ Scalars' /\ McountEnds
  BY DEF StoreCount, ProfIInv, MemoryOK, Scalars
<1> QED
  BY <1>1, <1>8, <1>9, <1>10, <1>11, EndKeeps

LEMMA RecordKeeps == ProfIInv /\ Record => ProfIInv'
<1> SUFFICES ASSUME ProfIInv, Record PROVE ProfIInv'
  OBVIOUS
<1> DEFINE i == Top.fn_entry
           one == [from_pc |-> Top.arc[2], count |-> 1]
<1>1. /\ Top \in Frames /\ FrameOK(Top, fns) /\ fns \in Seq(FnEntry)
      /\ Top.pc = "section" /\ Top.arc \in Arcs
      /\ memory \in Memory /\ HeapKept(memory) /\ Bounded(memory)
  BY TopOK DEF ProfIInv, MemoryOK, Record, At, FrameOK, InMcount, Pcs
<1>2. Top.arc[1] \in Callees /\ Top.arc[2] \in Callers
  BY <1>1 DEF Arcs
<1>3. one \in ArcEntry /\ one.from_pc = Top.arc[2]
  BY <1>2 DEF ArcEntry
<1> HIDE DEF one
<1>4. UNCHANGED level /\ Scalars' /\ McountEnds
  BY DEF Record, ProfIInv, Scalars
<1>5. DOMAIN fns = 1 .. Len(fns) /\ Len(fns) \in Nat
  BY <1>1
<1>6. CASE i = 0
  <2> DEFINE fn == [self_pc |-> Top.arc[1], arcs |-> <<one>>]
  <2>1. fns' = Append(fns, fn) /\ memory' = Allocate(Allocate(memory))
    BY <1>6 DEF Record, one
  <2>2. fn \in FnEntry /\ fn.self_pc = Top.arc[1] /\ fn.arcs = <<one>>
    BY <1>2, <1>3 DEF FnEntry
  <2> HIDE DEF fn
  <2>3. /\ fns' \in Seq(FnEntry) /\ DOMAIN fns' = 1 .. Len(fns) + 1
        /\ fns'[Len(fns) + 1] = fn /\ \A k \in DOMAIN fns : fns'[k] = fns[k]
    BY <1>1, <1>5, <2>1, <2>2
  <2>4. Longer(fns, fns')
    BY <1>5, <2>3 DEF Longer
  <2>5. OnLists(Top.arc, fns')
    <3>1. 1 \in DOMAIN fn.arcs /\ fn.arcs[1].from_pc = Top.arc[2]
      BY <1>3, <2>2
    <3>2. Len(fns) + 1 \in DOMAIN fns'
      BY <1>5, <2>3
    <3> QED
      BY <2>2, <2>3, <3>1, <3>2 DEF OnLists
  <2>6. MemoryOK'
    <3>1. Allocate(memory) \in Memory /\ HeapKept(Allocate(memory)) /\ Bounded(Allocate(memory))
      BY <1>1, AllocateKept
    <3> QED
      BY <2>1, <3>1, AllocateKept DEF MemoryOK
  <2> QED
    BY <1>1, <1>4, <2>3, <2>4, <2>5, <2>6, EndKeeps
<1>7. CASE i # 0
  <2> DEFINE many == Append(fns[i].arcs, one)
             fn == [fns[i] EXCEPT !.arcs = many]
  <2>1. fns' = [fns EXCEPT ![i] = fn] /\ memory' = Allocate(memory)
    BY <1>7 DEF Record, ArcHome, one
  <2>2. /\ i \in DOMAIN fns /\ fns[i].self_pc = Top.arc[1]
        /\ fns[i] \in FnEntry /\ fns[i].arcs \in Seq(ArcEntry)
    BY <1>1, <1>7, EntriesAre DEF FrameOK
  <2>3. /\ many \in Seq(ArcEntry) /\ Len(fns[i].arcs) \in Nat
        /\ DOMAIN fns[i].arcs = 1 .. Len(fns[i].arcs)
        /\ DOMAIN many = 1 .. Len(fns[i].arcs) + 1
        /\ many[Len(fns[i].arcs) + 1] = one
        /\ \A k \in DOMAIN fns[i].arcs : many[k] = fns[i].arcs[k]
    BY <1>3, <2>2
  <2> HIDE DEF many
  <2>4. fn \in FnEntry /\ fn.self_pc = fns[i].self_pc /\ fn.arcs = many
    BY <2>2, <2>3 DEF FnEntry
  <2> HIDE DEF fn
  <2>5. /\ fns' \in Seq(FnEntry) /\ DOMAIN fns' = DOMAIN fns /\ fns'[i] = fn
        /\ \A k \in DOMAIN fns : k # i => fns'[k] = fns[k]
    BY <1>1, <2>1, <2>2, <2>4
  <2>6. Longer(fns, fns')
    <3>1. \A k \in DOMAIN fns[i].arcs :
            k \in DOMAIN many /\ many[k].from_pc = fns[i].arcs[k].from_pc
      BY <2>3
    <3> QED
      BY <2>4, <2>5, <3>1 DEF Longer
  <2>7. OnLists(Top.arc, fns')
    <3>1. Len(fns[i].arcs) + 1 \in DOMAIN many
      BY <2>3
    <3> QED
      BY <1>3, <2>2, <2>3, <2>4, <2>5, <3>1 DEF OnLists
  <2>8. MemoryOK'
    BY <1>1, <2>1, AllocateKept DEF MemoryOK
  <2> QED
    BY <1>1, <1>4, <2>5, <2>6, <2>7, <2>8, EndKeeps
<1> QED
  BY <1>6, <1>7

-----------------------------------------------------------------------------
(***************************************************************************)
(* Results                                                                 *)
(***************************************************************************)
LEMMA ProfIInvKept == ProfIInv /\ [ProfNext]_profVars => ProfIInv'
<1> SUFFICES ASSUME ProfIInv, [ProfNext]_profVars PROVE ProfIInv'
  OBVIOUS
<1>1. CASE \/ \E arc \in Arcs : Mcount(arc)
           \/ \E incr \in Increments : Sbrk(incr)
           \/ FindFn \/ FindArc \/ LoadCount
           \/ ReadNeedInit \/ ClearNeedInit \/ StartSampler \/ SetNeedInit
  BY <1>1, LocalSteps
<1>2. CASE SbrkRead
  BY <1>2, SbrkReadKeeps
<1>3. CASE SbrkEnd \/ SampleEnd
  BY <1>3, SbrkEndsKeeps
<1>4. CASE StoreCount
  BY <1>4, StoreCountKeeps
<1>5. CASE Record
  BY <1>5, RecordKeeps
<1>6. CASE Interrupt \/ InterruptEnd \/ ClockStarts \/ UNCHANGED profVars
  BY <1>6, LevelsKeep
<1> QED
  BY <1>1, <1>2, <1>3, <1>4, <1>5, <1>6 DEF ProfNext

LEMMA ProfileCorrect == ProfSpec => []ProfIInv
BY InitProfIInv, ProfIInvKept, PTL DEF ProfSpec

\* The profiler's memory, lists and levels have their types, and its routine
\* at interrupt level starts afresh each time.
THEOREM ProfileTypeCorrect == ProfSpec => []ProfileTypeOK
<1>1. ProfIInv => ProfileTypeOK
  <2> SUFFICES ASSUME ProfIInv PROVE ProfileTypeOK
    OBVIOUS
  <2>1. memory \in [heap_end : 0 .. HeapSize + Align, slab_ptr : Nat \union {-1},
                    slab_size : 0 .. SlabSize, given : Seq(Block)]
    <3>1. memory \in Memory /\ memory.heap_end <= Aligned(HeapSize)
      BY DEF ProfIInv, MemoryOK, Bounded
    <3>2. Aligned(HeapSize) \in Nat /\ Aligned(HeapSize) < HeapSize + Align
      BY AlignedIs, ProfileAssumption
    <3>3. memory.heap_end \in 0 .. HeapSize + Align
      BY <3>1, <3>2, ProfileAssumption DEF Memory
    <3> QED
      BY <3>1, <3>3 DEF Memory
  <2>2. fns \in Seq([self_pc : Callees, arcs : Seq([from_pc : Callers, count : Nat \ {0}])])
    BY DEF ProfIInv, FnEntry, ArcEntry
  <2>3. \A l \in 0 .. 1 : frame[l].pc \in Pcs
    BY DEF ProfIInv, FramesOK, Frames
  <2>4. level \in 0 .. 1 /\ (level = 0 => frame[1] = Idle) /\ calls \in [Arcs -> Nat]
    BY DEF ProfIInv, FramesOK
  <2>5. Scalars
    BY DEF ProfIInv
  <2> QED
    BY <2>1, <2>2, <2>3, <2>4, <2>5 DEF ProfileTypeOK, Scalars
<1> QED
  BY <1>1, ProfileCorrect, PTL

\* No two blocks that sbrk and mcount_allocate hand out share memory, however
\* the profiler's calls at interrupt level fall between those of the program,
\* whatever the sizes of the heap, the slab, the histogram and the entries.
THEOREM BlocksStayDisjoint == ProfSpec => []BlocksDisjoint
<1>1. ProfIInv => BlocksDisjoint
  <2> SUFFICES ASSUME ProfIInv, \A i \in DOMAIN memory.given : memory.given[i][1] # -1,
                      NEW i \in DOMAIN memory.given
               PROVE  /\ memory.given[i][1] + memory.given[i][2] <= HeapSize
                      /\ \A j \in 1 .. i - 1 : ~Overlap(memory.given[i], memory.given[j])
    BY DEF BlocksDisjoint
  <2>1. memory \in Memory /\ HeapKept(memory) /\ Granted(memory.given)
    BY DEF ProfIInv, MemoryOK, Granted
  <2>2. /\ Inside(memory, memory.given[i][1], memory.given[i][2])
        /\ \A j \in 1 .. i - 1 : Apart(memory.given[i][1], memory.given[i][2],
                                       memory.given[j][1], memory.given[j][2])
    BY <2>1 DEF HeapKept
  <2>3. memory.given \in Seq(Block)
    BY <2>1 DEF Memory
  <2>4. \A k \in DOMAIN memory.given :
          memory.given[k][1] \in Int /\ memory.given[k][2] \in Nat
    BY <2>3 DEF Block
  <2>5. i \in Nat /\ \A j \in 1 .. i - 1 : j \in DOMAIN memory.given
    BY <2>3
  <2>6. \A j \in 1 .. i - 1 : ~Overlap(memory.given[i], memory.given[j])
    BY <2>2, <2>4, <2>5 DEF Apart, Overlap
  <2> QED
    BY <2>2, <2>6 DEF Inside
<1> QED
  BY <1>1, ProfileCorrect, PTL

\* Whatever an interrupt routine adds to the lists while a search walks them,
\* an arc whose call has ended is on them, in an entry of its own function.
THEOREM CalledArcsAreListed == ProfSpec => []ArcsListed
<1>1. ProfIInv => ArcsListed
  BY DEF ProfIInv
<1> QED
  BY <1>1, ProfileCorrect, PTL

-----------------------------------------------------------------------------
(***************************************************************************)
(* The counts.  A count is loaded, and stored one more, with interrupts on *)
(* in between: a store at the lower level may lose what the upper one      *)
(* counted, but never counts a call twice.                                 *)
(***************************************************************************)
IsOf(list, f, k, arc) ==
  /\ f \in DOMAIN list /\ list[f].self_pc = arc[1]
  /\ k \in DOMAIN list[f].arcs /\ list[f].arcs[k].from_pc = arc[2]

CountAt(list, f, k) == list[f].arcs[k].count

CopiesIn(list, arc) ==
  UNION {{f} \X {k \in DOMAIN list[f].arcs : list[f].arcs[k].from_pc = arc[2]} :
           f \in {f \in DOMAIN list : list[f].self_pc = arc[1]}}

CountsIn(list, arc) ==
  SumFunction([c \in CopiesIn(list, arc) |-> CountAt(list, c[1], c[2])])

\* What a level has loaded, the entry still holds, and more only if another
\* level has counted meanwhile.
Loaded ==
  \A l \in 0 .. 1 : frame[l].pc = "store" =>
    LET now == CountAt(fns, frame[l].fn_entry, frame[l].arc_entry)
    IN  frame[l].count <= now /\ (l = 1 => frame[l].count = now)

CountsFit ==
  \A arc \in Arcs :
    IsFiniteSet(CopiesIn(fns, arc)) /\ CountsIn(fns, arc) <= calls[arc]

CountInv == Loaded /\ CountsFit

LEMMA CopiesAre ==
  ASSUME NEW list, NEW arc
  PROVE  /\ \A c \in CopiesIn(list, arc) :
              c = <<c[1], c[2]>> /\ IsOf(list, c[1], c[2], arc)
         /\ \A f, k : <<f, k>> \in CopiesIn(list, arc) <=> IsOf(list, f, k, arc)
<1>1. ASSUME NEW c \in CopiesIn(list, arc)
      PROVE  c = <<c[1], c[2]>> /\ IsOf(list, c[1], c[2], arc)
  BY DEF CopiesIn, IsOf
<1>2. ASSUME NEW f, NEW k, IsOf(list, f, k, arc)
      PROVE  <<f, k>> \in CopiesIn(list, arc)
  BY <1>2 DEF CopiesIn, IsOf
<1>3. \A f, k : <<f, k>>[1] = f /\ <<f, k>>[2] = k
  OBVIOUS
<1>4. ASSUME NEW f, NEW k, <<f, k>> \in CopiesIn(list, arc)
      PROVE  IsOf(list, f, k, arc)
  BY <1>1, <1>3, <1>4
<1> QED
  BY <1>1, <1>2, <1>4

LEMMA HeldIs ==
  ASSUME NEW list \in Seq(FnEntry), NEW f, NEW k, NEW arc, IsOf(list, f, k, arc)
  PROVE  CountAt(list, f, k) \in Nat \ {0}
<1>1. list[f] \in FnEntry
  BY DEF IsOf
<1>2. list[f].arcs \in Seq(ArcEntry)
  BY <1>1 DEF FnEntry
<1>3. list[f].arcs[k] \in ArcEntry
  BY <1>2 DEF IsOf
<1> QED
  BY <1>3 DEF ArcEntry, CountAt

\* One call is counted: an entry of its arc counts one more at most, or is
\* new and counts one.
OneMore(a, b, i, j, t) ==
  /\ IsOf(b, i, j, t)
  /\ \A arc : IsOf(a, i, j, arc) => IsOf(b, i, j, arc)
  /\ \A f, k : <<f, k>> # <<i, j>> =>
       \A arc : /\ IsOf(a, f, k, arc) <=> IsOf(b, f, k, arc)
                /\ IsOf(a, f, k, arc) => CountAt(b, f, k) = CountAt(a, f, k)
  /\ CountAt(b, i, j) <= (IF IsOf(a, i, j, t) THEN CountAt(a, i, j) ELSE 0) + 1

LEMMA CountsOne ==
  ASSUME NEW a \in Seq(FnEntry), NEW b \in Seq(FnEntry), NEW i, NEW j,
         NEW t \in Arcs, OneMore(a, b, i, j, t),
         NEW arc \in Arcs, IsFiniteSet(CopiesIn(a, arc))
  PROVE  /\ IsFiniteSet(CopiesIn(b, arc))
         /\ CountsIn(a, arc) \in Nat /\ CountsIn(b, arc) \in Nat
         /\ CountsIn(b, arc) <= CountsIn(a, arc) + (IF arc = t THEN 1 ELSE 0)
<1> DEFINE S == CopiesIn(a, arc)
           R == CopiesIn(b, arc)
           x == <<i, j>>
           F == [c \in S |-> CountAt(a, c[1], c[2])]
           E == [c \in R |-> CountAt(b, c[1], c[2])]
<1>1. F \in [S -> Nat] /\ E \in [R -> Nat]
  BY CopiesAre, HeldIs
<1>2. \A f, k : /\ <<f, k>> \in S <=> IsOf(a, f, k, arc)
                /\ <<f, k>> \in R <=> IsOf(b, f, k, arc)
  BY CopiesAre
<1>3. (\A c \in S : c = <<c[1], c[2]>>) /\ (\A c \in R : c = <<c[1], c[2]>>)
  BY CopiesAre
<1>4. CountsIn(a, arc) = SumFunction(F) /\ CountsIn(b, arc) = SumFunction(E)
  BY DEF CountsIn
<1>5. \A c \in S : F[c] = CountAt(a, c[1], c[2])
  OBVIOUS
<1>6. \A c \in R : E[c] = CountAt(b, c[1], c[2])
  OBVIOUS
<1> HIDE DEF S, R, F, E
<1>7. S \ {x} = R \ {x}
  <2>1. ASSUME NEW c \in S, c # x PROVE c \in R
    BY <1>2, <1>3, <2>1 DEF OneMore
  <2>2. ASSUME NEW c \in R, c # x PROVE c \in S
    BY <1>2, <1>3, <2>2 DEF OneMore
  <2> QED
    BY <2>1, <2>2
<1>8. \A c \in S \ {x} : E[c] = F[c]
  <2> SUFFICES ASSUME NEW c \in S, c # x PROVE E[c] = F[c]
    OBVIOUS
  <2>1. c \in R /\ c = <<c[1], c[2]>> /\ IsOf(a, c[1], c[2], arc)
    BY <1>2, <1>3, <1>7
  <2>2. CountAt(b, c[1], c[2]) = CountAt(a, c[1], c[2])
    BY <2>1 DEF OneMore
  <2> QED
    BY <1>5, <1>6, <2>1, <2>2
<1>9. IsFiniteSet(R)
  <2>1. IsFiniteSet(S \union {x}) /\ R \subseteq S \union {x}
    BY <1>7, FS_AddElement DEF S
  <2> QED
    BY <2>1, FS_Subset
<1>10. IsFiniteSet(S)
  BY DEF S
<1>11. SumFunction(E) + (IF x \in S THEN F[x] ELSE 0)
         = SumFunction(F) + (IF x \in R THEN E[x] ELSE 0)
  <2> HIDE DEF x
  <2> QED
    BY <1>1, <1>7, <1>8, <1>9, <1>10, SumsDiffer, SMTT(60)
<1>12. SumFunction(E) \in Nat /\ SumFunction(F) \in Nat
  BY <1>1, <1>9, <1>10, SumBounds
<1>13. x \in S => F[x] \in Nat /\ F[x] = CountAt(a, i, j)
  BY <1>1, <1>5
<1>14. x \in R => E[x] \in Nat /\ E[x] = CountAt(b, i, j)
  BY <1>1, <1>6
<1>15. SumFunction(E) <= SumFunction(F) + (IF arc = t THEN 1 ELSE 0)
  <2>1. CASE arc = t
    <3>1. x \in R /\ (x \in S <=> IsOf(a, i, j, t))
      BY <1>2, <2>1 DEF OneMore
    <3>2. E[x] <= (IF x \in S THEN F[x] ELSE 0) + 1
      BY <1>13, <1>14, <3>1 DEF OneMore
    <3> QED
      BY <1>11, <1>12, <1>13, <1>14, <2>1, <3>1, <3>2
  <2>2. CASE arc # t
    <3>1. arc = <<arc[1], arc[2]>> /\ t = <<t[1], t[2]>>
      BY DEF Arcs
    <3>2. ~IsOf(b, i, j, arc)
      BY <2>2, <3>1 DEF OneMore, IsOf
    <3>3. ~IsOf(a, i, j, arc)
      BY <3>2 DEF OneMore
    <3> QED
      BY <1>2, <1>11, <1>12, <2>2, <3>2, <3>3
  <2> QED
    BY <2>1, <2>2
<1> QED
  BY <1>4, <1>9, <1>12, <1>15 DEF R

\* The call that ends is counted, whatever its level.
LEMMA CountKeeps ==
  ASSUME ProfIInv, ProfIInv', CountInv, NEW i, NEW j,
         OneMore(fns, fns', i, j, Top.arc), Top.arc \in Arcs, McountEnds,
         UNCHANGED level,
         IsOf(fns, i, j, Top.arc) =>
           /\ Top.count <= CountAt(fns, i, j) /\ CountAt(fns', i, j) = Top.count + 1
           /\ level = 1 => Top.count = CountAt(fns, i, j)
  PROVE  CountInv'
<1>1. /\ fns \in Seq(FnEntry) /\ fns' \in Seq(FnEntry) /\ level \in 0 .. 1
      /\ frame \in [0 .. 1 -> Frames] /\ calls \in [Arcs -> Nat]
      /\ (level = 0 => frame[1] = Idle) /\ \A l \in 0 .. 1 : FrameOK(frame[l], fns)
  BY DEF ProfIInv, FramesOK
<1>2. calls' = [calls EXCEPT ![Top.arc] = calls[Top.arc] + 1]
  BY DEF McountEnds
<1>3. CountsFit'
  <2> SUFFICES ASSUME NEW arc \in Arcs
               PROVE  /\ IsFiniteSet(CopiesIn(fns', arc))
                      /\ CountsIn(fns', arc) <= calls'[arc]
    BY DEF CountsFit
  <2>1. IsFiniteSet(CopiesIn(fns, arc)) /\ CountsIn(fns, arc) <= calls[arc]
    BY DEF CountInv, CountsFit
  <2>2. /\ IsFiniteSet(CopiesIn(fns', arc))
        /\ CountsIn(fns, arc) \in Nat /\ CountsIn(fns', arc) \in Nat
        /\ CountsIn(fns', arc) <= CountsIn(fns, arc) + (IF arc = Top.arc THEN 1 ELSE 0)
    BY <1>1, <2>1, CountsOne
  <2>3. calls'[arc] = calls[arc] + (IF arc = Top.arc THEN 1 ELSE 0) /\ calls[arc] \in Nat
    BY <1>1, <1>2
  <2> QED
    BY <2>1, <2>2, <2>3
<1>4. Loaded'
  <2> SUFFICES ASSUME NEW l \in 0 .. 1, frame'[l].pc = "store"
               PROVE  LET now == CountAt(fns', frame'[l].fn_entry, frame'[l].arc_entry)
                      IN  frame'[l].count <= now /\ (l = 1 => frame'[l].count = now)
    BY DEF Loaded
  <2>1. l # level /\ frame'[l] = frame[l]
    BY <1>1 DEF McountEnds, Become, Idle
  <2>2. l = 0 /\ level = 1
    BY <1>1, <2>1 DEF Idle
  <2> DEFINE f == frame[0].fn_entry
             k == frame[0].arc_entry
             arc == frame[0].arc
  <2>3. IsOf(fns, f, k, arc) /\ arc \in Arcs
    BY <1>1, <2>1, <2>2 DEF FrameOK, IsOf, InMcount, Pcs
  <2>4. frame[0].count <= CountAt(fns, f, k)
    BY <2>1, <2>2 DEF CountInv, Loaded
  <2>5. CountAt(fns, f, k) \in Nat /\ frame[0].count \in Nat
    BY <1>1, <2>3, HeldIs DEF Frames
  <2> HIDE DEF f, k, arc
  <2>6. CASE <<f, k>> # <<i, j>>
    <3>1. CountAt(fns', f, k) = CountAt(fns, f, k)
      BY <2>3, <2>6 DEF OneMore
    <3> QED
      BY <2>1, <2>2, <2>4, <3>1 DEF f, k
  <2>7. CASE <<f, k>> = <<i, j>>
    <3>1. f = i /\ k = j
      BY <2>7
    <3>2. IsOf(fns', i, j, arc)
      BY <2>3, <3>1 DEF OneMore
    <3>3. arc = Top.arc
      <4>1. IsOf(fns', i, j, Top.arc)
        BY DEF OneMore
      <4>2. arc[1] = Top.arc[1] /\ arc[2] = Top.arc[2]
        BY <3>2, <4>1 DEF IsOf
      <4> QED
        BY <2>3, <4>2 DEF Arcs
    <3>4. CountAt(fns', f, k) = CountAt(fns, f, k) + 1
      BY <2>2, <2>3, <3>1, <3>3
    <3> QED
      BY <2>1, <2>2, <2>4, <2>5, <3>4 DEF f, k
  <2> QED
    BY <2>6, <2>7
<1> QED
  BY <1>3, <1>4 DEF CountInv

\* The steps that leave the lists alone.
LEMMA OthersKeepCounts ==
  ASSUME ProfIInv, CountInv, [ProfNext]_profVars, ~StoreCount, ~Record
  PROVE  CountInv'
<1>1. UNCHANGED <<fns, calls>>
  BY DEF ProfNext, Mcount, Sbrk, SbrkRead, SbrkEnd, FindFn, FindArc, LoadCount,
         ReadNeedInit, ClearNeedInit, SampleEnd, StartSampler, SetNeedInit, Interrupt,
         InterruptEnd, ClockStarts, profVars
<1>2. CountsFit'
  BY <1>1 DEF CountInv, CountsFit
<1>3. /\ level \in 0 .. 1 /\ frame \in [0 .. 1 -> Frames]
      /\ (level = 0 => frame[1] = Idle) /\ fns \in Seq(FnEntry)
      /\ \A l \in 0 .. 1 : FrameOK(frame[l], fns)
  BY DEF ProfIInv, FramesOK
<1>4. CASE LoadCount
  <2> DEFINE now == CountAt(fns, Top.fn_entry, Top.arc_entry)
             f == [Top EXCEPT !.pc = "store", !.count = now]
  <2>1. frame' = [frame EXCEPT ![level] = f]
    BY <1>4 DEF LoadCount, Become, CountAt
  <2>2. /\ Top \in Frames /\ FrameOK(Top, fns) /\ Top.pc = "load"
    BY <1>3, <1>4 DEF Top, LoadCount, At
  <2>3. now \in Nat
    <3>1. IsOf(fns, Top.fn_entry, Top.arc_entry, Top.arc)
      BY <2>2 DEF FrameOK, IsOf
    <3> QED
      BY <1>3, <3>1, HeldIs
  <2>4. f.count = now /\ f.fn_entry = Top.fn_entry /\ f.arc_entry = Top.arc_entry
    BY <2>2 DEF Frames
  <2> HIDE DEF f
  <2>5. /\ frame'[level] = f
        /\ \A l \in 0 .. 1 : l # level => frame'[l] = frame[l]
    BY <1>3, <2>1
  <2>6. Loaded'
    BY <1>1, <2>3, <2>4, <2>5 DEF CountInv, Loaded
  <2> QED
    BY <1>2, <2>6 DEF CountInv
<1>5. CASE ~LoadCount
  <2>1. \/ UNCHANGED frame
        \/ \E f : f.pc # "store" /\ frame' = [frame EXCEPT ![level] = f]
    <3>1. CASE \/ \E arc \in Arcs : Mcount(arc)
               \/ \E incr \in Increments : Sbrk(incr)
      <4>1. Top \in Frames
        BY <1>3 DEF Top
      <4> QED
        BY <3>1, <4>1 DEF Mcount, Sbrk, Become, Frames
    <3>2. CASE FindFn \/ FindArc
      <4>1. Top \in Frames
        BY <1>3 DEF Top
      <4> QED
        BY <3>2, <4>1 DEF FindFn, FindArc, Become, Frames
    <3>3. CASE SbrkRead \/ SbrkEnd \/ SampleEnd
      <4>1. Top \in Frames
        BY <1>3 DEF Top
      <4> QED
        BY <3>3, <4>1 DEF SbrkRead, SbrkEnd, SampleEnd, Goto, Become, Frames, Idle
    <3>4. CASE ReadNeedInit \/ ClearNeedInit \/ StartSampler \/ SetNeedInit
      <4>1. Top \in Frames
        BY <1>3 DEF Top
      <4> QED
        BY <3>4, <4>1 DEF ReadNeedInit, ClearNeedInit, StartSampler, SetNeedInit,
                          Goto, Become, Frames
    <3>5. CASE Interrupt \/ InterruptEnd \/ ClockStarts \/ UNCHANGED profVars
      BY <3>5 DEF Interrupt, InterruptEnd, ClockStarts, profVars
    <3> QED
      BY <1>5, <3>1, <3>2, <3>3, <3>4, <3>5 DEF ProfNext
  <2>2. \A l \in 0 .. 1 : frame'[l].pc = "store" => frame'[l] = frame[l]
    BY <1>3, <2>1
  <2>3. Loaded'
    BY <1>1, <2>2 DEF CountInv, Loaded
  <2> QED
    BY <1>2, <2>3 DEF CountInv
<1> QED
  BY <1>4, <1>5

LEMMA StoreKeepsCounts ==
  ASSUME ProfIInv, ProfIInv', CountInv, StoreCount
  PROVE  CountInv'
<1> DEFINE i == Top.fn_entry
           j == Top.arc_entry
           arcs == fns[i].arcs
           one  == [arcs[j] EXCEPT !.count = Top.count + 1]
           many == [arcs EXCEPT ![j] = one]
           fn   == [fns[i] EXCEPT !.arcs = many]
<1>1. /\ Top \in Frames /\ FrameOK(Top, fns) /\ fns \in Seq(FnEntry)
      /\ Top.pc = "store" /\ Top.arc \in Arcs /\ level \in 0 .. 1 /\ Top = frame[level]
  BY TopOK DEF ProfIInv, StoreCount, At, FrameOK, InMcount, Pcs, Top
<1>2. IsOf(fns, i, j, Top.arc)
  BY <1>1 DEF FrameOK, IsOf
<1>3. i \in DOMAIN fns /\ j \in DOMAIN arcs
  BY <1>2 DEF IsOf
<1>4. fns[i] \in FnEntry /\ arcs \in Seq(ArcEntry) /\ arcs[j] \in ArcEntry
  BY <1>1, <1>3, EntriesAre
<1>5. fns' = [fns EXCEPT ![i] = fn]
  BY DEF StoreCount
<1>6. one.from_pc = arcs[j].from_pc /\ one.count = Top.count + 1
  BY <1>4 DEF ArcEntry
<1> HIDE DEF one
<1>7. /\ DOMAIN many = DOMAIN arcs /\ many[j] = one
      /\ \A k \in DOMAIN arcs : k # j => many[k] = arcs[k]
  BY <1>3, <1>4
<1> HIDE DEF many
<1>8. fn.self_pc = fns[i].self_pc /\ fn.arcs = many
  BY <1>4 DEF FnEntry
<1> HIDE DEF fn
<1>9. /\ DOMAIN fns' = DOMAIN fns /\ fns'[i] = fn
      /\ \A f \in DOMAIN fns : f # i => fns'[f] = fns[f]
  BY <1>3, <1>5
<1>10. CountAt(fns', i, j) = Top.count + 1
  BY <1>6, <1>7, <1>8, <1>9 DEF CountAt
<1>11. /\ Top.count <= CountAt(fns, i, j)
       /\ level = 1 => Top.count = CountAt(fns, i, j)
  BY <1>1 DEF CountInv, Loaded
<1>12. \A f, k, arc : IsOf(fns, f, k, arc) <=> IsOf(fns', f, k, arc)
  BY <1>3, <1>6, <1>7, <1>8, <1>9 DEF IsOf
<1>13. ASSUME NEW f, NEW k, NEW arc, <<f, k>> # <<i, j>>, IsOf(fns, f, k, arc)
       PROVE  CountAt(fns', f, k) = CountAt(fns, f, k)
  <2>1. f \in DOMAIN fns /\ k \in DOMAIN fns[f].arcs
    BY <1>13 DEF IsOf
  <2>2. CASE f # i
    BY <1>9, <2>1, <2>2 DEF CountAt
  <2>3. CASE f = i /\ k # j
    BY <1>7, <1>8, <1>9, <2>1, <2>3 DEF CountAt
  <2> QED
    BY <1>13, <2>2, <2>3
<1>14. CountAt(fns, i, j) \in Nat /\ Top.count \in Nat
  BY <1>1, <1>2, HeldIs DEF Frames
<1>15. OneMore(fns, fns', i, j, Top.arc)
  BY <1>2, <1>10, <1>11, <1>12, <1>13, <1>14 DEF OneMore
<1>16. McountEnds /\ UNCHANGED level
  BY DEF StoreCount
<1> QED
  BY <1>1, <1>10, <1>11, <1>15, <1>16, CountKeeps

LEMMA RecordKeepsCounts ==
  ASSUME ProfIInv, ProfIInv', CountInv, Record
  PROVE  CountInv'
<1> DEFINE one == [from_pc |-> Top.arc[2], count |-> 1]
<1>1. /\ FrameOK(Top, fns) /\ fns \in Seq(FnEntry) /\ Top.arc \in Arcs
  BY TopOK DEF ProfIInv, Record, At, FrameOK, InMcount, Pcs
<1>2. one.from_pc = Top.arc[2] /\ one.count = 1
  OBVIOUS
<1>3. DOMAIN fns = 1 .. Len(fns) /\ Len(fns) \in Nat
  BY <1>1
<1>4. McountEnds /\ UNCHANGED level
  BY DEF Record
<1>5. CASE Top.fn_entry = 0
  <2> DEFINE fn == [self_pc |-> Top.arc[1], arcs |-> <<one>>]
             i == Len(fns) + 1
  <2>1. fns' = Append(fns, fn)
    BY <1>5 DEF Record
  <2>2. fn.self_pc = Top.arc[1] /\ fn.arcs = <<one>>
    OBVIOUS
  <2>3. DOMAIN fn.arcs = 1 .. 1 /\ fn.arcs[1] = one
    BY <2>2
  <2> HIDE DEF fn, one
  <2>4. /\ DOMAIN fns' = 1 .. i /\ fns'[i] = fn
        /\ \A f \in DOMAIN fns : fns'[f] = fns[f]
    BY <1>1, <1>3, <2>1
  <2>5. i \notin DOMAIN fns /\ i \in DOMAIN fns' /\ DOMAIN fns' = DOMAIN fns \union {i}
    BY <1>3, <2>4
  <2> HIDE DEF i
  <2>6. IsOf(fns', i, 1, Top.arc) /\ CountAt(fns', i, 1) = 1
    BY <1>2, <2>2, <2>3, <2>4, <2>5 DEF IsOf, CountAt
  <2>7. \A arc : ~IsOf(fns, i, 1, arc)
    BY <2>5 DEF IsOf
  <2>8. ASSUME NEW f, NEW k, NEW arc, <<f, k>> # <<i, 1>>
        PROVE  /\ IsOf(fns, f, k, arc) <=> IsOf(fns', f, k, arc)
               /\ IsOf(fns, f, k, arc) => CountAt(fns', f, k) = CountAt(fns, f, k)
    <3>1. CASE f = i
      <4>1. k # 1
        BY <2>8, <3>1
      <4>2. k \notin DOMAIN fns'[f].arcs
        BY <2>3, <2>4, <3>1, <4>1
      <4> QED
        BY <2>5, <3>1, <4>2 DEF IsOf
    <3>2. CASE f # i
      <4>1. f \in DOMAIN fns' <=> f \in DOMAIN fns
        BY <2>5, <3>2
      <4>2. f \in DOMAIN fns => fns'[f] = fns[f]
        BY <2>4
      <4> QED
        BY <4>1, <4>2 DEF IsOf, CountAt
    <3> QED
      BY <3>1, <3>2
  <2>9. OneMore(fns, fns', i, 1, Top.arc)
    BY <2>6, <2>7, <2>8 DEF OneMore
  <2> QED
    BY <1>1, <1>4, <2>7, <2>9, CountKeeps
<1>6. CASE Top.fn_entry # 0
  <2> DEFINE i == Top.fn_entry
             old == fns[i].arcs
             many == Append(old, one)
             j == Len(old) + 1
             fn == [fns[i] EXCEPT !.arcs = many]
  <2>1. fns' = [fns EXCEPT ![i] = fn]
    BY <1>6 DEF Record, ArcHome
  <2>2. /\ i \in DOMAIN fns /\ fns[i].self_pc = Top.arc[1]
        /\ fns[i] \in FnEntry /\ old \in Seq(ArcEntry)
    BY <1>1, <1>6, EntriesAre DEF FrameOK
  <2> HIDE DEF one
  <2>3. /\ DOMAIN old = 1 .. Len(old) /\ Len(old) \in Nat
        /\ DOMAIN many = 1 .. j /\ many[j] = one
        /\ \A k \in DOMAIN old : many[k] = old[k]
    BY <2>2
  <2>4. j \notin DOMAIN old /\ DOMAIN many = DOMAIN old \union {j}
    BY <2>3
  <2> HIDE DEF many
  <2>5. fn.self_pc = fns[i].self_pc /\ fn.arcs = many
    BY <2>2 DEF FnEntry
  <2> HIDE DEF fn
  <2>6. /\ DOMAIN fns' = DOMAIN fns /\ fns'[i] = fn
        /\ \A f \in DOMAIN fns : f # i => fns'[f] = fns[f]
    BY <2>1, <2>2
  <2> HIDE DEF j
  <2>7. IsOf(fns', i, j, Top.arc) /\ CountAt(fns', i, j) = 1
    BY <1>2, <2>2, <2>3, <2>4, <2>5, <2>6 DEF IsOf, CountAt
  <2>8. \A arc : ~IsOf(fns, i, j, arc)
    BY <2>4 DEF IsOf
  <2>9. ASSUME NEW f, NEW k, NEW arc, <<f, k>> # <<i, j>>
        PROVE  /\ IsOf(fns, f, k, arc) <=> IsOf(fns', f, k, arc)
               /\ IsOf(fns, f, k, arc) => CountAt(fns', f, k) = CountAt(fns, f, k)
    <3>1. CASE f = i
      <4>1. k # j
        BY <2>9, <3>1
      <4>2. k \in DOMAIN fns'[f].arcs <=> k \in DOMAIN fns[f].arcs
        BY <2>4, <2>5, <2>6, <3>1, <4>1
      <4>3. k \in DOMAIN fns[f].arcs => fns'[f].arcs[k] = fns[f].arcs[k]
        BY <2>3, <2>5, <2>6, <3>1
      <4> QED
        BY <2>5, <2>6, <3>1, <4>2, <4>3 DEF IsOf, CountAt
    <3>2. CASE f # i
      BY <2>6, <3>2 DEF IsOf, CountAt
    <3> QED
      BY <3>1, <3>2
  <2>10. OneMore(fns, fns', i, j, Top.arc)
    BY <2>7, <2>8, <2>9 DEF OneMore
  <2> QED
    BY <1>1, <1>4, <2>8, <2>10, CountKeeps
<1> QED
  BY <1>5, <1>6

LEMMA InitCountInv == ProfInit => CountInv
<1> SUFFICES ASSUME ProfInit PROVE CountInv
  OBVIOUS
<1>1. Loaded
  BY DEF ProfInit, Loaded, Idle
<1>2. CountsFit
  <2> SUFFICES ASSUME NEW arc \in Arcs
               PROVE  /\ IsFiniteSet(CopiesIn(fns, arc))
                      /\ CountsIn(fns, arc) <= calls[arc]
    BY DEF CountsFit
  <2>1. CopiesIn(fns, arc) = {}
    BY DEF ProfInit, CopiesIn
  <2>2. IsFiniteSet({})
    BY FS_EmptySet
  <2> DEFINE F == [c \in CopiesIn(fns, arc) |-> CountAt(fns, c[1], c[2])]
  <2>3. F \in [{} -> Nat]
    BY <2>1
  <2> HIDE DEF F
  <2>4. SumFunction(F) = 0
    BY <2>2, <2>3, SumBounds
  <2>5. calls[arc] = 0
    BY DEF ProfInit
  <2> QED
    BY <2>1, <2>2, <2>4, <2>5 DEF CountsIn, F
<1> QED
  BY <1>1, <1>2 DEF CountInv

\* Whatever an interrupt routine adds in the middle of a search, or counts in
\* the middle of a count, every arc whose call has ended is on the lists under
\* its own function, and is not counted more often than it was called.
THEOREM CallsAreRecorded == ProfSpec => []CallsRecorded
<1>1. ProfIInv /\ CountInv => CallsRecorded
  <2> SUFFICES ASSUME ProfIInv, CountInv, NEW arc \in Arcs
               PROVE  /\ Counts(arc) <= calls[arc]
                      /\ calls[arc] > 0 => Counts(arc) > 0
    BY DEF CallsRecorded
  <2> DEFINE S == CopiesIn(fns, arc)
             F == [c \in S |-> CountAt(fns, c[1], c[2])]
  <2>1. Counts(arc) = CountsIn(fns, arc) /\ CountsIn(fns, arc) = SumFunction(F)
    BY DEF Counts, Copies, CountsIn, CopiesIn, CountAt
  <2>2. CountsIn(fns, arc) <= calls[arc] /\ IsFiniteSet(S)
    BY DEF CountInv, CountsFit
  <2>3. \A c \in S : CountAt(fns, c[1], c[2]) \in Nat \ {0}
    BY CopiesAre, HeldIs DEF ProfIInv
  <2>4. F \in [S -> Nat] /\ \A c \in S : F[c] \in Nat \ {0}
    BY <2>3
  <2>5. ASSUME calls[arc] > 0 PROVE \E c : c \in S
    <3>1. OnLists(arc, fns)
      BY <2>5 DEF ProfIInv, ArcsListed
    <3>2. PICK f, k : IsOf(fns, f, k, arc)
      BY <3>1 DEF OnLists, IsOf
    <3> QED
      BY <3>2, CopiesAre
  <2> HIDE DEF S, F
  <2>6. SumFunction(F) \in Nat /\ \A c \in S : F[c] <= SumFunction(F)
    BY <2>2, <2>4, SumBounds
  <2>7. calls[arc] > 0 => SumFunction(F) > 0
    BY <2>4, <2>5, <2>6
  <2> QED
    BY <2>1, <2>2, <2>7
<1>2. ProfIInv /\ ProfIInv' /\ CountInv /\ [ProfNext]_profVars => CountInv'
  BY StoreKeepsCounts, RecordKeepsCounts, OthersKeepCounts
<1> QED
  BY <1>1, <1>2, InitCountInv, ProfileCorrect, PTL DEF ProfSpec

-----------------------------------------------------------------------------
(***************************************************************************)
(* The time of day.  The times callers set and the seconds since reset fit *)
(* in a long, and a time is set before the microseconds since reset leave  *)
(* a word: settimeofday multiplies 32-bit words.                           *)
(***************************************************************************)
SecondsFit ==
  /\ 2 * US <= 2^(WordBits - 1)
  /\ \A r \in Rates, t \in Times : t.tv_sec + MaxTicks \div r < 2^(WordBits - 1)
  /\ \A r \in Rates : MaxTicks \div r < 2^(WordBits - 1)

SetEarly == \A r \in Rates : SetUntil * (US \div r) < 2^WordBits

TimesSet == Times \union {Zero}

\* The reset time is what makes the time that was set come out at set_at.
TimeKept ==
  /\ nticks \in 0 .. MaxTicks /\ set \in TimesSet /\ set_at \in 0 .. nticks
  /\ _alt_tick_rate \in Rates \union {0}
  /\ _alt_tick_rate = 0 => alt_resettime = Zero /\ set = Zero /\ nticks = 0
  /\ _alt_tick_rate # 0 =>
       alt_resettime = [tv_sec  |-> set.tv_sec - set_at \div _alt_tick_rate,
                        tv_usec |-> set.tv_usec - ((set_at * TickUs) % US)]

LEMMA SignedIs ==
  ASSUME NEW x \in Int, -(2^(WordBits - 1)) <= x, x < 2^(WordBits - 1)
  PROVE  Signed(x) = x
<1> DEFINE half == 2^(WordBits - 1)
           word == 2^WordBits
<1>1. /\ half \in Nat \ {0} /\ word = 2 * half
      /\ -half <= x /\ x < half
  BY TimeAssumption
<1>2. Signed(x) = IF x % word >= half THEN (x % word) - word ELSE x % word
  BY DEF Signed, Unsigned
<1> HIDE DEF half, word
<1>3. CASE x >= 0
  <2>1. x % word = x
    BY <1>1, <1>3
  <2> QED
    BY <1>1, <1>2, <2>1
<1>4. CASE x < 0
  <2>1. x % word = x + word
    BY <1>1, <1>4
  <2> QED
    BY <1>1, <1>2, <2>1
<1> QED
  BY <1>1, <1>3, <1>4

\* n ticks are so many whole seconds and a rest.
LEMMA TicksAre ==
  ASSUME NEW n \in Nat, NEW r \in Rates
  PROVE  /\ n \div r \in Nat /\ US \div r \in Nat
         /\ (n * (US \div r)) % US \in 0 .. US - 1
         /\ n * (US \div r) = (n \div r) * US + ((n * (US \div r)) % US)
<1> DEFINE T == US \div r
           q == n \div r
           k == n % r
<1>1. /\ US \in Nat \ {0} /\ r \in Nat \ {0} /\ r <= US /\ US % r = 0
  BY TimeAssumption
<1>2. T \in Nat /\ US = r * T
  BY <1>1
<1>3. q \in Nat /\ k \in 0 .. r - 1 /\ n = r * q + k
  BY <1>1
<1> HIDE DEF T, q, k
<1>4. n * T = q * US + k * T
  <2>1. (r * q + k) * T = q * (r * T) + k * T
    BY <1>1, <1>2, <1>3
  <2> QED
    BY <1>2, <1>3, <2>1
<1>5. k * T \in 0 .. US - 1
  <2>1. k * T \in Nat
    BY <1>2, <1>3
  <2>2. T # 0
    BY <1>1, <1>2
  <2>3. r * T = k * T + (r - k) * T /\ (r - k) * T >= T
    <3>1. \A j \in Nat : r = k + j /\ j >= 1 => r * T = k * T + j * T /\ j * T >= T
      BY <1>2, <1>3
    <3>2. r - k \in Nat /\ r = k + (r - k) /\ r - k >= 1
      BY <1>1, <1>3
    <3> QED
      BY <3>1, <3>2
  <2> DEFINE a == k * T
             b == r * T
             c == (r - k) * T
  <2>4. a \in Nat /\ US = b /\ b = a + c /\ c >= T /\ c \in Int
    BY <1>1, <1>2, <1>3, <2>1, <2>3
  <2> HIDE DEF a, b, c
  <2>5. a \in 0 .. US - 1
    BY <1>1, <1>2, <2>2, <2>4
  <2> QED
    BY <2>5 DEF a
<1>6. (q * US + k * T) % US = k * T
  BY <1>1, <1>3, <1>5, RemainderIs
<1> QED
  BY <1>2, <1>3, <1>4, <1>5, <1>6 DEF T, q

LEMMA TodInitKept == TodInit => TimeKept
BY TimeAssumption DEF TodInit, TimeKept, TimesSet

\* The seconds and the microseconds of a time that is set, and those of the
\* time of day before it is brought back into a second.
LEMMA TimesAre ==
  ASSUME NEW t \in TimesSet
  PROVE  t.tv_sec \in Nat /\ t.tv_usec \in 0 .. US - 1
BY TimeAssumption DEF TimesSet, Zero

LEMMA SecondsAre ==
  ASSUME SecondsFit, NEW r \in Rates, NEW n \in 0 .. MaxTicks, NEW t \in TimesSet
  PROVE  /\ n \div r \in Nat /\ n \div r < 2^(WordBits - 1)
         /\ t.tv_sec + n \div r < 2^(WordBits - 1)
<1>1. /\ r \in Nat \ {0} /\ MaxTicks \in Nat /\ n \in Nat /\ n <= MaxTicks
      /\ 2^(WordBits - 1) \in Nat
  BY TimeAssumption
<1>2. n \div r \in Nat /\ MaxTicks \div r \in Nat /\ n \div r <= MaxTicks \div r
  <2> DEFINE a == n \div r
             b == MaxTicks \div r
  <2>1. /\ a \in Nat /\ b \in Nat
        /\ n = a * r + (n % r) /\ n % r \in 0 .. r - 1 /\ a * r \in Nat
        /\ MaxTicks = b * r + (MaxTicks % r) /\ MaxTicks % r \in 0 .. r - 1 /\ b * r \in Nat
    BY <1>1
  <2> HIDE DEF a, b
  <2>2. ~(a > b)
    <3> SUFFICES ASSUME a > b PROVE FALSE
      OBVIOUS
    <3>1. a * r >= b * r + r
      BY <1>1, <2>1, MultipleAbove
    <3> QED
      BY <1>1, <2>1, <3>1
  <2> QED
    BY <2>1, <2>2 DEF a, b
<1>3. MaxTicks \div r < 2^(WordBits - 1)
  BY DEF SecondsFit
<1>4. t.tv_sec \in Nat /\ t.tv_sec + MaxTicks \div r < 2^(WordBits - 1)
  <2>1. CASE t \in Times
    BY <2>1, TimesAre DEF SecondsFit
  <2>2. CASE t = Zero
    BY <1>1, <1>2, <1>3, <2>2 DEF Zero
  <2> QED
    BY <2>1, <2>2 DEF TimesSet
<1> QED
  BY <1>1, <1>2, <1>3, <1>4

LEMMA SettimeofdayKeeps ==
  ASSUME SecondsFit, SetEarly, TimeKept, NEW t \in Times, Settimeofday(t)
  PROVE  TimeKept'
<1> DEFINE r == _alt_tick_rate
           n == nticks
<1>1. /\ r \in Rates /\ n \in 0 .. MaxTicks /\ n <= SetUntil
      /\ set' = t /\ set_at' = n /\ nticks' = n /\ _alt_tick_rate' = r
      /\ r # 0 /\ n \in Nat
  BY TimeAssumption DEF Settimeofday, TimeKept
<1>2. t \in TimesSet /\ t.tv_sec \in Nat /\ t.tv_usec \in 0 .. US - 1
  BY TimesAre DEF TimesSet
<1>3. /\ n \div r \in Nat /\ n \div r < 2^(WordBits - 1)
      /\ t.tv_sec + n \div r < 2^(WordBits - 1)
  BY <1>1, <1>2, SecondsAre
<1>4. /\ US \div r \in Nat /\ (n * (US \div r)) % US \in 0 .. US - 1
  BY <1>1, TicksAre
<1>5. SetFraction = (n * (US \div r)) % US
  <2> DEFINE T == US \div r
  <2>1. n * T \in Nat /\ n * T <= SetUntil * T
    BY <1>1, <1>4, TimeAssumption
  <2>2. SetUntil * T < 2^WordBits
    BY <1>1 DEF SetEarly
  <2>3. /\ SetUntil * T \in Nat /\ 2^WordBits \in Nat
    BY <1>4, TimeAssumption
  <2> DEFINE x == n * T
             y == SetUntil * T
             word == 2^WordBits
  <2>4. x \in Nat /\ y \in Nat /\ word \in Nat /\ x <= y /\ y < word
    BY <2>1, <2>2, <2>3
  <2> HIDE DEF x, y, word
  <2>5. x % word = x
    BY <2>4
  <2> QED
    BY <2>5 DEF SetFraction, TickUs, Unsigned, x, word
<1>6. Signed(t.tv_sec - Seconds) = t.tv_sec - n \div r
  <2> DEFINE half == 2^(WordBits - 1)
             x == t.tv_sec - n \div r
  <2>1. half \in Nat /\ x \in Int /\ -half <= x /\ x < half
    BY <1>2, <1>3, TimeAssumption
  <2>2. Signed(x) = x
    BY <2>1, SignedIs
  <2> QED
    BY <2>2 DEF Seconds
<1>7. Signed(t.tv_usec - SetFraction) = t.tv_usec - ((n * (US \div r)) % US)
  <2> DEFINE half == 2^(WordBits - 1)
             fraction == (n * (US \div r)) % US
             x == t.tv_usec - fraction
  <2>1. half \in Nat /\ 2 * US <= half /\ US \in Nat /\ fraction \in 0 .. US - 1
    BY <1>4, TimeAssumption DEF SecondsFit
  <2> HIDE DEF half, fraction
  <2>2. x \in Int /\ -half <= x /\ x < half
    BY <1>2, <2>1
  <2>3. Signed(x) = x
    BY <2>2, SignedIs DEF half
  <2> QED
    BY <1>5, <2>3 DEF fraction
<1>8. alt_resettime' = [tv_sec  |-> t.tv_sec - n \div r,
                        tv_usec |-> t.tv_usec - ((n * (US \div r)) % US)]
  BY <1>6, <1>7 DEF Settimeofday
<1> QED
  BY <1>1, <1>2, <1>8 DEF TimeKept, TickUs

LEMMA TimeKeptStays ==
  ASSUME SecondsFit, SetEarly, TimeKept, [TodNext]_todVars
  PROVE  TimeKept'
<1>1. ASSUME NEW r \in Rates, SysclkInit(r) PROVE TimeKept'
  <2>1. /\ _alt_tick_rate' = r /\ r \in Nat \ {0} /\ US \in Nat \ {0}
        /\ nticks' = 0 /\ set' = Zero /\ set_at' = 0 /\ alt_resettime' = Zero
    BY <1>1, TimeAssumption DEF SysclkInit, TimeKept
  <2>2. 0 \div r = 0 /\ US \div r \in Nat
    BY <2>1
  <2>3. (0 * (US \div r)) % US = 0
    BY <2>1, <2>2
  <2>4. Zero = [tv_sec |-> 0 - 0 \div r, tv_usec |-> 0 - ((0 * (US \div r)) % US)]
    BY <2>2, <2>3 DEF Zero
  <2>5. Zero.tv_sec = 0 /\ Zero.tv_usec = 0
    BY DEF Zero
  <2> QED
    BY <2>1, <2>4, <2>5, TimeAssumption DEF TimeKept, TickUs, TimesSet
<1>2. ASSUME Tick PROVE TimeKept'
  BY <1>2, TimeAssumption DEF Tick, TimeKept, TickUs
<1>3. ASSUME NEW t \in Times, Settimeofday(t) PROVE TimeKept'
  BY <1>3, SettimeofdayKeeps
<1>4. CASE UNCHANGED todVars
  BY <1>4 DEF todVars, TimeKept, TickUs
<1> QED
  BY <1>1, <1>2, <1>3, <1>4 DEF TodNext

\* What gettimeofday computes before its loops: to the microsecond the time
\* that was set and the ticks since, but not yet within a second.
LEMMA BeforeLoops ==
  ASSUME SecondsFit, TimeKept, _alt_tick_rate # 0
  PROVE  \E sec \in Nat, usec \in (1 - US) .. (2 * US - 2) :
           /\ Gettimeofday = Carried(Borrowed([tv_sec |-> sec, tv_usec |-> usec]))
           /\ sec * US + usec = Micros(set) + (nticks - set_at) * TickUs
           /\ sec * US + usec >= 0
<1> DEFINE r == _alt_tick_rate
           T == US \div r
           a == set_at \div r
           fa == (set_at * T) % US
           b == nticks \div r
           fb == (nticks * T) % US
           half == 2^(WordBits - 1)
<1>1. /\ r \in Rates /\ nticks \in Nat /\ nticks \in 0 .. MaxTicks
      /\ set_at \in Nat /\ set_at <= nticks /\ set \in TimesSet
      /\ US \in Nat \ {0} /\ half \in Nat
  BY TimeAssumption DEF TimeKept
<1>2. /\ T \in Nat /\ a \in Nat /\ b \in Nat
      /\ fa \in 0 .. US - 1 /\ fb \in 0 .. US - 1
      /\ set_at * T = a * US + fa /\ nticks * T = b * US + fb
  BY <1>1, TicksAre
<1>3. /\ set.tv_sec \in Nat /\ set.tv_usec \in 0 .. US - 1
  BY <1>1, TimesAre
<1>4. /\ alt_resettime.tv_sec = set.tv_sec - a
      /\ alt_resettime.tv_usec = set.tv_usec - fa
  BY DEF TimeKept, TickUs
<1>5. Seconds = b /\ Fraction = fb /\ TickUs = T
  BY DEF Seconds, Fraction, TickUs
<1>6. set.tv_sec + b < half /\ 2 * US <= half
  BY <1>1, SecondsAre DEF SecondsFit
<1> HIDE DEF r, T, a, fa, b, fb, half
<1> DEFINE d == nticks - set_at
<1>7. d \in Nat /\ nticks = set_at + d
  BY <1>1
<1> HIDE DEF d
<1>8. /\ d * T \in Nat /\ nticks * T = set_at * T + d * T
  BY <1>1, <1>2, <1>7
<1>9. b * US + fb = a * US + fa + d * T /\ a <= b
  <2> DEFINE x == a * US
             y == b * US
             z == d * T
  <2>1. x \in Nat /\ y \in Nat /\ z \in Nat /\ y + fb = x + fa + z
    BY <1>1, <1>2, <1>8
  <2>2. ~(a > b)
    <3> SUFFICES ASSUME a > b PROVE FALSE
      OBVIOUS
    <3>1. x >= y + US
      BY <1>1, <1>2, MultipleAbove
    <3> HIDE DEF x, y, z
    <3> QED
      BY <1>1, <1>2, <2>1, <3>1
  <2> QED
    BY <1>2, <2>1, <2>2
<1> DEFINE sec == set.tv_sec - a + b
           usec == set.tv_usec - fa + fb
<1>10. /\ sec \in Nat /\ sec < half /\ usec \in (1 - US) .. (2 * US - 2)
  BY <1>1, <1>2, <1>3, <1>6, <1>9
<1>11. Signed(sec) = sec
  <2>1. -half <= sec
    BY <1>1, <1>10
  <2> HIDE DEF sec
  <2> QED
    BY <1>10, <2>1, SignedIs DEF half
<1>12. Signed(usec) = usec
  <2>1. usec \in Int /\ -half <= usec /\ usec < half
    BY <1>1, <1>6, <1>10
  <2> HIDE DEF usec
  <2> QED
    BY <2>1, SignedIs DEF half
<1>13. Gettimeofday = Carried(Borrowed([tv_sec |-> sec, tv_usec |-> usec]))
  BY <1>4, <1>5, <1>11, <1>12 DEF Gettimeofday
<1>14. sec * US = set.tv_sec * US - a * US + b * US
  BY <1>1, <1>2, <1>3
<1>15. sec * US + usec = Micros(set) + d * T /\ Micros(set) \in Nat
  <2>1. Micros(set) = set.tv_sec * US + set.tv_usec
    BY DEF Micros
  <2> DEFINE p == set.tv_sec * US
             x == a * US
             y == b * US
             z == d * T
             w == sec * US
  <2>2. /\ p \in Nat /\ x \in Nat /\ y \in Nat /\ z \in Nat
        /\ fa \in Int /\ fb \in Int /\ set.tv_usec \in Nat
    BY <1>1, <1>2, <1>3, <1>8
  <2>3. /\ w = p - x + y /\ y + fb = x + fa + z
        /\ usec = set.tv_usec - fa + fb /\ Micros(set) = p + set.tv_usec
    BY <1>9, <1>14, <2>1
  <2> HIDE DEF p, x, y, z, w, sec, usec
  <2>4. w + usec = Micros(set) + z /\ Micros(set) \in Nat
    BY <2>2, <2>3
  <2> QED
    BY <2>4 DEF w, z
<1> HIDE DEF sec, usec
<1>16. sec * US + usec >= 0
  BY <1>8, <1>15
<1> QED
  BY <1>5, <1>10, <1>13, <1>15, <1>16 DEF d

\* The loops bring the fraction into a second and do not change the time.
LEMMA LoopsKeep ==
  ASSUME NEW sec \in Nat, NEW usec \in (1 - US) .. (2 * US - 2), sec * US + usec >= 0
  PROVE  LET t == Carried(Borrowed([tv_sec |-> sec, tv_usec |-> usec]))
         IN  t.tv_usec \in 0 .. US - 1 /\ Micros(t) = sec * US + usec
<1>1. US \in Nat \ {0}
  BY TimeAssumption
<1> DEFINE t == Carried(Borrowed([tv_sec |-> sec, tv_usec |-> usec]))
<1>2. /\ (sec - 1) * US = sec * US - US /\ (sec + 1) * US = sec * US + US
      /\ sec * US \in Nat /\ (sec = 0 => sec * US = 0)
  BY <1>1
<1>3. CASE usec < 0
  <2>1. sec > 0
    BY <1>2, <1>3
  <2>2. t = [tv_sec |-> sec - 1, tv_usec |-> usec + US]
    BY <1>1, <1>3, <2>1 DEF Carried, Borrowed
  <2>3. t.tv_usec = usec + US /\ Micros(t) = (sec - 1) * US + (usec + US)
    BY <2>2 DEF Micros
  <2> DEFINE p == sec * US
             q == (sec - 1) * US
  <2>4. p \in Nat /\ q = p - US /\ Micros(t) = q + (usec + US)
    BY <1>2, <2>3
  <2> HIDE DEF p, q, t
  <2>5. Micros(t) = p + usec /\ t.tv_usec \in 0 .. US - 1
    BY <1>1, <1>3, <2>3, <2>4
  <2> QED
    BY <2>5 DEF p, t
<1>4. CASE usec \in 0 .. US - 1
  <2>1. t = [tv_sec |-> sec, tv_usec |-> usec]
    BY <1>1, <1>4 DEF Carried, Borrowed
  <2> QED
    BY <1>4, <2>1 DEF Micros
<1>5. CASE usec >= US
  <2>1. t = [tv_sec |-> sec + 1, tv_usec |-> usec - US]
    BY <1>1, <1>5 DEF Carried, Borrowed
  <2>2. t.tv_usec = usec - US /\ Micros(t) = (sec + 1) * US + (usec - US)
    BY <2>1 DEF Micros
  <2> DEFINE p == sec * US
             q == (sec + 1) * US
  <2>3. p \in Nat /\ q = p + US /\ Micros(t) = q + (usec - US)
    BY <1>2, <2>2
  <2> HIDE DEF p, q, t
  <2>4. Micros(t) = p + usec /\ t.tv_usec \in 0 .. US - 1
    BY <1>1, <1>5, <2>2, <2>3
  <2> QED
    BY <2>4 DEF p, t
<1> QED
  BY <1>1, <1>3, <1>4, <1>5

\* gettimeofday returns the time that was set and the ticks since then, for
\* every tick rate that divides a second and every width of a word, as long as
\* the times fit in a long and none is set after the product of 32-bit words
\* in settimeofday overflows.
THEOREM WallClockIsTrue == SecondsFit /\ SetEarly => (TodSpec => []WallClock)
<1> SUFFICES ASSUME SecondsFit, SetEarly PROVE TodSpec => []WallClock
  OBVIOUS
<1>1. TimeKept /\ [TodNext]_todVars => TimeKept'
  BY TimeKeptStays
<1>2. TimeKept => WallClock
  <2> SUFFICES ASSUME TimeKept, _alt_tick_rate > 0
               PROVE  /\ Gettimeofday.tv_usec \in 0 .. US - 1
                      /\ Micros(Gettimeofday) = Micros(set) + (nticks - set_at) * TickUs
    BY DEF WallClock
  <2>1. _alt_tick_rate # 0
    OBVIOUS
  <2>2. PICK sec \in Nat, usec \in (1 - US) .. (2 * US - 2) :
          /\ Gettimeofday = Carried(Borrowed([tv_sec |-> sec, tv_usec |-> usec]))
          /\ sec * US + usec = Micros(set) + (nticks - set_at) * TickUs
          /\ sec * US + usec >= 0
    BY <2>1, BeforeLoops
  <2> QED
    BY <2>2, LoopsKeep
<1> QED
  BY <1>1, <1>2, TodInitKept, PTL DEF TodSpec

-----------------------------------------------------------------------------
\* The times the code computes are numbers, whether they are right or not.
LEMMA TodTypeInvariance == TodSpec => []TodTypeOK
<1>1. \A x \in Int : Signed(x) \in Int
  <2> DEFINE word == 2^WordBits
             half == 2^(WordBits - 1)
  <2>1. word \in Int /\ half \in Int /\ word >= 1
    BY TimeAssumption
  <2> HIDE DEF word, half
  <2>2. \A x \in Int : (IF x % word >= half THEN (x % word) - word ELSE x % word) \in Int
    BY <2>1
  <2> QED
    BY <2>2 DEF Signed, Unsigned, word, half
<1>2. TodInit => TodTypeOK
  BY TimeAssumption DEF TodInit, TodTypeOK, Timeval, Zero
<1>3. ASSUME TodTypeOK, TodNext PROVE TodTypeOK'
  <2>1. CASE \E r \in Rates : SysclkInit(r)
    BY <1>3, <2>1 DEF TodTypeOK, SysclkInit
  <2>2. CASE Tick
    BY <1>3, <2>2, TimeAssumption DEF TodTypeOK, Tick
  <2>3. ASSUME NEW t \in Times, Settimeofday(t) PROVE TodTypeOK'
    <3>1. Seconds \in Int /\ SetFraction \in Int
      <4>1. /\ _alt_tick_rate \in Int /\ _alt_tick_rate > 0 /\ nticks \in Int
            /\ US \in Int /\ US >= 1
        BY <1>3, <2>3, TimeAssumption DEF TodTypeOK, Settimeofday
      <4>2. Seconds \in Int
        BY <4>1 DEF Seconds
      <4>3. TickUs \in Int
        BY <4>1 DEF TickUs
      <4>4. nticks * TickUs \in Int
        BY <4>1, <4>3
      <4> DEFINE word == 2^WordBits
                 product == nticks * TickUs
      <4>5. word \in Int /\ word >= 1
        BY TimeAssumption
      <4> HIDE DEF word, product
      <4>6. (product % word) % US \in Int
        BY <4>1, <4>4, <4>5 DEF product
      <4> QED
        BY <4>2, <4>6 DEF SetFraction, Unsigned, word, product
    <3>2. t.tv_sec \in Int /\ t.tv_usec \in Int
      BY TimeAssumption
    <3>3. Signed(t.tv_sec - Seconds) \in Int /\ Signed(t.tv_usec - SetFraction) \in Int
      BY <1>1, <3>1, <3>2
    <3>4. alt_resettime' \in Timeval
      BY <2>3, <3>3 DEF Settimeofday, Timeval
    <3>5. nticks \in 0 .. nticks
      BY <1>3, TimeAssumption DEF TodTypeOK
    <3> QED
      BY <1>3, <2>3, <3>4, <3>5 DEF TodTypeOK, Settimeofday
  <2> QED
    BY <1>3, <2>1, <2>2, <2>3 DEF TodNext
<1>4. TodTypeOK /\ UNCHANGED todVars => TodTypeOK'
  BY DEF TodTypeOK, todVars
<1> QED
  BY <1>2, <1>3, <1>4, PTL DEF TodSpec

-----------------------------------------------------------------------------
(***************************************************************************)
(* The bench.                                                              *)
(***************************************************************************)
\* Running one service at a time adds no behaviour to any of them: what is
\* proved of each module is true of the bench that TLC checks.
THEOREM BenchRunsEach ==
  HalSpec => Spec /\ FdSpec /\ SmallSpec /\ TodSpec /\ ProfSpec
<1>1. HalInit => Init /\ FdInit /\ SmallInit /\ TodInit /\ ProfInit
  BY DEF HalInit
<1>2. [HalNext]_halVars => [Next]_vars
  BY DEF HalNext, halVars
<1>3. [HalNext]_halVars => [FdNext]_fdVars
  BY DEF HalNext, halVars
<1>4. [HalNext]_halVars => [SmallNext]_smallVars
  BY DEF HalNext, halVars
<1>5. [HalNext]_halVars => [TodNext]_todVars
  BY DEF HalNext, halVars
<1>6. [HalNext]_halVars => [ProfNext]_profVars
  BY DEF HalNext, halVars
<1> QED
  BY <1>1, <1>2, <1>3, <1>4, <1>5, <1>6, PTL
     DEF HalSpec, Spec, FdSpec, SmallSpec, TodSpec, ProfSpec

\* Every variable of every service has its type.
THEOREM HalTypesCorrect ==
  ASSUME IntervalsFit, StopsOwnOnly
  PROVE  HalSpec => []HalTypeOK
<1>1. Spec => []TypeOK
  BY TypeCorrect
<1>2. TypeOK /\ FdTypeOK /\ SmallTypeOK /\ TodTypeOK /\ ProfileTypeOK => HalTypeOK
  BY DEF HalTypeOK
<1> QED
  BY <1>1, <1>2, BenchRunsEach, FdTypeCorrect, SmallTypeCorrect, TodTypeInvariance,
     ProfileTypeCorrect, PTL
=============================================================================
