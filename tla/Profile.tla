------------------------------- MODULE Profile ------------------------------
(***************************************************************************)
(* The HAL's profiler: mcount and __mcount_record, which every function of *)
(* a program compiled with -pg calls, at interrupt level too, the start of *)
(* the pc sampler, and sbrk, which gives them memory.                      *)
(*                                                                         *)
(* Level 0 is the program; level 1 is an interrupt routine that runs to    *)
(* its end before the program goes on.  A step is an access to memory the  *)
(* two share, or a whole section with interrupts disabled.  The hash only  *)
(* shortens the search: one list stands for all buckets.                   *)
(***************************************************************************)
EXTENDS Integers, Sequences, FiniteSetsExt, Functions

CONSTANTS
  Callees,      \* self_pc
  Callers,      \* from_pc
  Align,        \* bytes of a word
  EntrySize,    \* of a function's entry, and of an arc's
  SlabSize,     \* MCOUNT_SLAB_INCREMENT
  Samples,      \* bytes of the histogram
  HeapSize,     \* __alt_heap_limit - __alt_heap_start
  Increments,   \* what the program asks sbrk for
  MaxCalls,     \* bound: calls of mcount
  MaxRequests   \* bound: requests of the program

ASSUME ProfileAssumption ==
  /\ Align \in Nat \ {0}
  /\ EntrySize \in Nat \ {0} /\ EntrySize % Align = 0
  /\ SlabSize \in Nat /\ SlabSize >= EntrySize
  /\ Samples \in Nat \ {0} /\ HeapSize \in Nat /\ Increments \subseteq Nat \ {0}
  /\ MaxCalls \in Nat /\ MaxRequests \in Nat

VARIABLES
  fns,         \* __mcount_fn_head: the functions' entries, oldest first,
               \* each with its arcs, oldest first
  need_init,   \* pcsample_need_init
  tick_rate,   \* whether alt_ticks_per_second () is not zero
  alarms,      \* the times alt_alarm_start was given the sampler's alarm
  memory,      \* heap_end, the slab, and what was handed out
  level, frame,
  requests,    \* the program's requests of sbrk so far
  calls        \* the calls of each arc that have returned

profVars ==
  <<fns, need_init, tick_rate, alarms, memory, level, frame, requests, calls>>

Arcs == Callees \X Callers

NoArc == <<>>

Idle == [pc |-> "run", arc |-> NoArc, fn_entry |-> 0, arc_entry |-> 0,
         count |-> 0, size |-> 0, prev |-> 0]

ProfInit ==
  /\ fns = <<>> /\ need_init = 1 /\ tick_rate = FALSE /\ alarms = 0
  /\ memory = [heap_end |-> 0, slab_ptr |-> 0, slab_size |-> 0, given |-> <<>>]
  /\ level = 0 /\ frame = [l \in 0 .. 1 |-> Idle]
  /\ requests = 0
  /\ calls = [a \in Arcs |-> 0]

Top == frame[level]
At(pc) == Top.pc = pc
Become(f) == frame' = [frame EXCEPT ![level] = f]
Goto(pc) == Become([Top EXCEPT !.pc = pc])

-----------------------------------------------------------------------------
(***************************************************************************)
(* Memory.  A block at -1 is what a caller of sbrk that ignores its error  *)
(* goes on to use.                                                         *)
(***************************************************************************)
Aligned(end) == ((end + Align - 1) \div Align) * Align

Exhausted(end, incr) == Aligned(end) + incr > HeapSize

Give(m, start, size) == [m EXCEPT !.given = Append(@, <<start, size>>)]

\* sbrk (MCOUNT_SLAB_INCREMENT), for mcount_allocate
NewSlab(m) ==
  IF Exhausted(m.heap_end, SlabSize)
  THEN [m EXCEPT !.heap_end = Aligned(@), !.slab_ptr = -1,
                 !.slab_size = SlabSize]
  ELSE [m EXCEPT !.heap_end = Aligned(@) + SlabSize,
                 !.slab_ptr = Aligned(m.heap_end), !.slab_size = SlabSize]

SlabFull(m) == EntrySize > m.slab_size

\* mcount_allocate
Allocate(m) ==
  LET slab == IF SlabFull(m) THEN NewSlab(m) ELSE m
  IN  [Give(slab, slab.slab_ptr, EntrySize) EXCEPT
         !.slab_ptr = @ + EntrySize, !.slab_size = @ - EntrySize]

\* sbrk, for the program and for the sampler's histogram: interrupts are
\* disabled between its reading heap_end and its writing it.
SbrkRead ==
  /\ At("sbrk") \/ At("sample")
  /\ memory' = [memory EXCEPT !.heap_end = Aligned(@)]
  /\ LET prev == IF Exhausted(memory.heap_end, Top.size) THEN -1
                 ELSE memory'.heap_end
     IN  Become([Top EXCEPT !.prev = prev,
                   !.pc = IF At("sbrk") THEN "sbrk_end" ELSE "sample_end"])
  /\ UNCHANGED <<fns, need_init, tick_rate, alarms, level, requests, calls>>

\* The program's request fails, or is granted.
SbrkEnd ==
  /\ At("sbrk_end")
  /\ memory' = IF Top.prev = -1 THEN memory
               ELSE [Give(memory, Top.prev, Top.size)
                       EXCEPT !.heap_end = Top.prev + Top.size]
  /\ Become(Idle)
  /\ UNCHANGED <<fns, need_init, tick_rate, alarms, level, requests, calls>>

Sbrk(incr) ==
  /\ level = 0 /\ At("run") /\ requests < MaxRequests
  /\ requests' = requests + 1
  /\ Become([Top EXCEPT !.pc = "sbrk", !.size = incr])
  /\ UNCHANGED <<fns, need_init, tick_rate, alarms, memory, level, calls>>

-----------------------------------------------------------------------------
(***************************************************************************)
(* mcount.  Entries are only ever added at the heads of the lists, so that *)
(* a search sees the list as it was when it read its head.                 *)
(***************************************************************************)
InFlight == Cardinality({l \in 0 .. 1 : frame[l].arc # NoArc})

Mcount(arc) ==
  /\ At("run") /\ SumFunction(calls) + InFlight < MaxCalls
  /\ Become([Top EXCEPT !.pc = "fn", !.arc = arc])
  /\ UNCHANGED <<fns, need_init, tick_rate, alarms, memory, level, requests,
                 calls>>

\* Where a search from the newest entry on stops, if those of S match: 0 is
\* the end of the list.
Newest(S) == {i \in S \union {0} : \A j \in S : j <= i}

FindFn ==
  /\ At("fn")
  /\ \E f \in Newest({i \in DOMAIN fns : fns[i].self_pc = Top.arc[1]}) :
       Become([Top EXCEPT !.fn_entry = f,
                          !.pc = IF f = 0 THEN "record" ELSE "arc"])
  /\ UNCHANGED <<fns, need_init, tick_rate, alarms, memory, level, requests,
                 calls>>

FindArc ==
  /\ At("arc")
  /\ LET arcs == fns[Top.fn_entry].arcs
     IN  \E a \in Newest({i \in DOMAIN arcs : arcs[i].from_pc = Top.arc[2]}) :
           Become([Top EXCEPT !.arc_entry = a,
                              !.pc = IF a = 0 THEN "record" ELSE "load"])
  /\ UNCHANGED <<fns, need_init, tick_rate, alarms, memory, level, requests,
                 calls>>

McountEnds ==
  /\ calls' = [calls EXCEPT ![Top.arc] = @ + 1]
  /\ Become(Idle)

LoadCount ==
  /\ At("load")
  /\ Become([Top EXCEPT !.pc = "store",
                        !.count = fns[Top.fn_entry].arcs[Top.arc_entry].count])
  /\ UNCHANGED <<fns, need_init, tick_rate, alarms, memory, level, requests,
                 calls>>

StoreCount ==
  /\ At("store")
  /\ fns' = [fns EXCEPT ![Top.fn_entry].arcs[Top.arc_entry].count =
               Top.count + 1]
  /\ McountEnds
  /\ UNCHANGED <<need_init, tick_rate, alarms, memory, level, requests>>

-----------------------------------------------------------------------------
(***************************************************************************)
(* __mcount_record                                                         *)
(***************************************************************************)
ReadNeedInit ==
  /\ At("record")
  /\ Goto(IF need_init = 1 THEN "clear" ELSE "section")
  /\ UNCHANGED <<fns, need_init, tick_rate, alarms, memory, level, requests,
                 calls>>

\* pcsample_need_init = 0, and the beginning of nios2_pcsample_init
ClearNeedInit ==
  /\ At("clear")
  /\ need_init' = 0
  /\ Become([Top EXCEPT !.pc = IF tick_rate THEN "sample" ELSE "no_clock",
                        !.size = Samples])
  /\ UNCHANGED <<fns, tick_rate, alarms, memory, level, requests, calls>>

\* The histogram's block, and alt_alarm_start.
SampleEnd ==
  /\ At("sample_end")
  /\ memory' = IF Top.prev = -1 THEN Give(memory, -1, Top.size)
               ELSE [Give(memory, Top.prev, Top.size)
                       EXCEPT !.heap_end = Top.prev + Top.size]
  /\ Goto("start")
  /\ UNCHANGED <<fns, need_init, tick_rate, alarms, level, requests, calls>>

StartSampler ==
  /\ At("start")
  /\ alarms' = alarms + 1
  /\ Goto("started")
  /\ UNCHANGED <<fns, need_init, tick_rate, memory, level, requests, calls>>

\* pcsample_need_init = nios2_pcsample_init ()
SetNeedInit ==
  /\ At("started") \/ At("no_clock")
  /\ need_init' = IF At("started") THEN 0 ELSE 1
  /\ Goto("section")
  /\ UNCHANGED <<fns, tick_rate, alarms, memory, level, requests, calls>>

\* Mutant: an arc goes to the newest function's entry.
ArcHomeNewest(f) == Len(fns)

ArcHome(f) == f.fn_entry

\* The section with interrupts disabled: a function's entry if the search
\* found none, and an arc's.
Record ==
  /\ At("section")
  /\ LET arc == [from_pc |-> Top.arc[2], count |-> 1]
     IN  \/ /\ Top.fn_entry = 0
            /\ fns' = Append(fns, [self_pc |-> Top.arc[1], arcs |-> <<arc>>])
            /\ memory' = Allocate(Allocate(memory))
         \/ /\ Top.fn_entry # 0
            /\ fns' = [fns EXCEPT ![ArcHome(Top)].arcs = Append(@, arc)]
            /\ memory' = Allocate(memory)
  /\ McountEnds
  /\ UNCHANGED <<need_init, tick_rate, alarms, level, requests>>

-----------------------------------------------------------------------------
(***************************************************************************)
(* The rest of the system.                                                 *)
(***************************************************************************)
\* Mutant: sbrk leaves interrupts on.
MaskedNowhere == {}

Masked == {"sbrk_end", "sample_end"}

Interrupt ==
  /\ level = 0 /\ Top.pc \notin Masked
  /\ level' = 1
  /\ UNCHANGED <<fns, need_init, tick_rate, alarms, memory, frame, requests,
                 calls>>

InterruptEnd ==
  /\ level = 1 /\ At("run")
  /\ level' = 0
  /\ UNCHANGED <<fns, need_init, tick_rate, alarms, memory, frame, requests,
                 calls>>

\* alt_sysclk_init
ClockStarts ==
  /\ level = 0 /\ At("run") /\ ~tick_rate
  /\ tick_rate' = TRUE
  /\ UNCHANGED <<fns, need_init, alarms, memory, level, frame, requests, calls>>

ProfNext ==
  \/ \E arc \in Arcs : Mcount(arc)
  \/ \E incr \in Increments : Sbrk(incr)
  \/ SbrkRead \/ SbrkEnd
  \/ FindFn \/ FindArc \/ LoadCount \/ StoreCount
  \/ ReadNeedInit \/ ClearNeedInit \/ SampleEnd \/ StartSampler \/ SetNeedInit
  \/ Record
  \/ Interrupt \/ InterruptEnd \/ ClockStarts

ProfSpec == ProfInit /\ [][ProfNext]_profVars

-----------------------------------------------------------------------------
(***************************************************************************)
(* Properties                                                              *)
(***************************************************************************)
Block == (Nat \union {-1}) \X Nat
Pcs == {"run", "sbrk", "sbrk_end", "fn", "arc", "load", "store", "record",
        "clear", "sample", "sample_end", "start", "started", "no_clock",
        "section"}

\* Every variable has its type, and level 1 is idle while the program runs.
ProfileTypeOK ==
  /\ fns \in Seq([self_pc : Callees,
                  arcs : Seq([from_pc : Callers, count : Nat \ {0}])])
  /\ need_init \in 0 .. 1 /\ tick_rate \in BOOLEAN /\ alarms \in Nat
  /\ memory \in [heap_end : 0 .. HeapSize + Align, slab_ptr : Nat \union {-1},
                 slab_size : 0 .. SlabSize, given : Seq(Block)]
  /\ level \in 0 .. 1 /\ requests \in 0 .. MaxRequests
  /\ \A l \in 0 .. 1 : frame[l].pc \in Pcs
  /\ level = 0 => frame[1] = Idle
  /\ calls \in [Arcs -> Nat]

Overlap(b, c) == b[1] < c[1] + c[2] /\ c[1] < b[1] + b[2]

\* No two blocks that sbrk and mcount_allocate hand out share memory, and all
\* lie in the heap, although interrupt routines take memory too: as long as
\* the profiler, which ignores sbrk's error, has not met it and gone on with a
\* block at -1.
BlocksDisjoint ==
  LET given == memory.given
  IN  (\A i \in DOMAIN given : given[i][1] # -1) =>
        \A i \in DOMAIN given :
          /\ given[i][1] + given[i][2] <= HeapSize
          /\ \A j \in 1 .. i - 1 : ~Overlap(given[i], given[j])

\* The places of an arc: every copy of it, in every entry of its function.
Copies(arc) ==
  UNION {{f} \X {a \in DOMAIN fns[f].arcs : fns[f].arcs[a].from_pc = arc[2]} :
           f \in {f \in DOMAIN fns : fns[f].self_pc = arc[1]}}

\* The counts the host adds up for an arc.
Counts(arc) ==
  SumFunction([c \in Copies(arc) |-> fns[c[1]].arcs[c[2]].count])

\* Whatever an interrupt routine adds in the middle of a search, every arc
\* that was ever called is on the lists, under its own function, and is not
\* counted more often than it was called.
CallsRecorded ==
  \A arc \in Arcs :
    /\ Counts(arc) <= calls[arc]
    /\ calls[arc] > 0 => Counts(arc) > 0

\* What __mcount_record says: it copes with being called again at interrupt
\* time.  Its alarm is started once, for the list of alarms holds it once.
SamplerStartedOnce == alarms <= 1
=============================================================================
