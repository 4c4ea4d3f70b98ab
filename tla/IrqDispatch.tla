---------------------------- MODULE IrqDispatch -----------------------------
(***************************************************************************)
(* The HAL's interrupt dispatch for the internal interrupt controller: the *)
(* table of handlers, the enable mask, critical sections, the exception    *)
(* entry, alt_irq_handler, and handlers that let higher priorities in.     *)
(*                                                                         *)
(* One CPU.  Level 0 is the program; an exception starts a new level on    *)
(* top of the one it interrupts, and only the top level runs.  Lines go up *)
(* and down at any time, whatever the CPU does: a request may be withdrawn *)
(* between the exception it causes, the test for an interrupt and the read *)
(* of the pending lines.  Interrupt numbers are priorities: 0 is the       *)
(* highest.                                                                *)
(***************************************************************************)
EXTENDS Integers, Sequences

CONSTANTS
  NIRQ,            \* ALT_NIRQ
  Handlers,        \* what callers register; each passes itself as context
  Null,            \* the null pointer
  Nesting,         \* the lines whose handlers call alt_irq_interruptible
  EnableNested,    \* whether lines are enabled while such a handler lets
                   \* others in
  MaxLevel,        \* bound: levels
  MaxSections      \* bound: critical sections inside one another

Irq == 0 .. NIRQ - 1

ASSUME IrqAssumption ==
  /\ NIRQ \in Nat \ {0}
  /\ Null \notin Handlers
  /\ Nesting \subseteq Irq
  /\ EnableNested \in BOOLEAN
  /\ MaxLevel \in Nat \ {0}
  /\ MaxSections \in Nat

VARIABLES
  request,            \* the lines that ask for service
  ienable,            \* the CPU's ienable register, as a set
  pie,                \* the PIE bit of its status register
  alt_irq_active,     \* the lines the program has enabled
  alt_priority_mask,  \* those the handlers in progress let in
  alt_irq,            \* the table: a handler and its context for each line
  level,              \* the level that runs
  frame               \* where each level is, and its locals

cpuVars  == <<ienable, pie>>
maskVars == <<alt_irq_active, alt_priority_mask>>
irqVars  == <<request, cpuVars, maskVars, alt_irq, level, frame>>

-----------------------------------------------------------------------------

Entry == [handler : Handlers \union {Null}, context : Handlers \union {Null}]

NoEntry == [handler |-> Null, context |-> Null]

\* A level's locals: where it is, the pending lines it has read, the line it
\* serves and the entry it called for it, the contexts of the critical
\* sections it is in, the registration it makes, and the mask to put back.
NewFrame(at) ==
  [pc |-> at, active |-> {}, irq |-> 0, called |-> NoEntry, served |-> FALSE,
   saved |-> <<>>, target |-> 0, isr |-> Null, nested |-> FALSE, old |-> Irq]

Init ==
  /\ request = {}
  /\ ienable = {} /\ pie = TRUE
  /\ alt_irq_active = {} /\ alt_priority_mask = Irq
  /\ alt_irq = [i \in Irq |-> NoEntry]
  /\ level = 0
  /\ frame = [l \in 0 .. MaxLevel |-> NewFrame("run")]

Top == frame[level]
At(pc) == Top.pc = pc
Become(f) == frame' = [frame EXCEPT ![level] = f]
Goto(pc) == Become([Top EXCEPT !.pc = pc])

Pending == request \intersect ienable

Lowest(lines) == CHOOSE i \in lines : \A j \in lines : i <= j

\* Mutants: interrupts are switched on whatever they were; the call that
\* switches them on again is left out.
RestoredOn(context) == TRUE
RestoredNever(context) == FALSE

\* alt_irq_enable_all writes back the status alt_irq_disable_all found.
Restored(context) == context

Innermost(f) == f.saved[Len(f.saved)]
Outer(f) == SubSeq(f.saved, 1, Len(f.saved) - 1)

-----------------------------------------------------------------------------
(***************************************************************************)
(* Critical sections: alt_irq_disable_all and alt_irq_enable_all.          *)
(***************************************************************************)
DisableAll ==
  /\ At("run") /\ Len(Top.saved) < MaxSections
  /\ Become([Top EXCEPT !.saved = Append(@, pie)])
  /\ pie' = FALSE
  /\ UNCHANGED <<request, ienable, maskVars, alt_irq, level>>

EnableAll ==
  /\ At("run") /\ Top.saved # <<>>
  /\ pie' = Restored(Innermost(Top))
  /\ Become([Top EXCEPT !.saved = Outer(Top)])
  /\ UNCHANGED <<request, ienable, maskVars, alt_irq, level>>

-----------------------------------------------------------------------------
(***************************************************************************)
(* alt_ic_isr_register, alt_ic_irq_enable and alt_ic_irq_disable.  Callers *)
(* enable only lines with a handler.                                       *)
(***************************************************************************)
MayEnable == EnableNested \/ \A l \in 1 .. level : ~frame[l].nested

\* Mutant: the table is changed with interrupts on.
DisabledForUpdateNot == pie

DisabledForUpdate == FALSE

\* status = alt_irq_disable_all ().
OpBegin(pc, i, isr) ==
  /\ At("run") /\ MayEnable
  /\ Become([Top EXCEPT !.saved = Append(@, pie), !.target = i, !.isr = isr,
                        !.pc = pc])
  /\ pie' = DisabledForUpdate
  /\ UNCHANGED <<request, ienable, maskVars, alt_irq, level>>

Register(i, isr) == OpBegin("op_handler", i, isr)

EnableIrq(i) ==
  alt_irq[i].handler # Null /\ OpBegin("op_mask", i, alt_irq[i].handler)

DisableIrq(i) == OpBegin("op_mask", i, Null)

OpHandler ==
  /\ At("op_handler")
  /\ alt_irq' = [alt_irq EXCEPT ![Top.target].handler = Top.isr]
  /\ Goto("op_context")
  /\ UNCHANGED <<request, cpuVars, maskVars, level>>

OpContext ==
  /\ At("op_context")
  /\ alt_irq' = [alt_irq EXCEPT ![Top.target].context = Top.isr]
  /\ Goto("op_mask")
  /\ UNCHANGED <<request, cpuVars, maskVars, level>>

\* Mutant: lines are counted from one.
ActiveAfterFromOne(f) ==
  IF f.isr # Null THEN alt_irq_active \union {f.target + 1}
  ELSE alt_irq_active \ {f.target + 1}

ActiveAfter(f) ==
  IF f.isr # Null THEN alt_irq_active \union {f.target}
  ELSE alt_irq_active \ {f.target}

\* alt_irq_enable or alt_irq_disable, with a section of its own inside the
\* caller's.
OpMask ==
  /\ At("op_mask")
  /\ alt_irq_active' = ActiveAfter(Top)
  /\ ienable' = alt_irq_active'
  /\ pie' = Restored(pie)
  /\ Goto("op_end")
  /\ UNCHANGED <<request, alt_priority_mask, alt_irq, level>>

\* alt_irq_enable_all (status).
OpEnd ==
  /\ At("op_end")
  /\ pie' = Restored(Innermost(Top))
  /\ Become([Top EXCEPT !.saved = Outer(Top), !.pc = "run",
                        !.target = 0, !.isr = Null])
  /\ UNCHANGED <<request, ienable, maskVars, alt_irq, level>>

-----------------------------------------------------------------------------
(***************************************************************************)
(* The exception, the test for an interrupt and alt_irq_handler.           *)
(***************************************************************************)
Exception ==
  /\ pie /\ Pending # {} /\ level < MaxLevel
  /\ level' = level + 1
  /\ frame' = [frame EXCEPT ![level + 1] = NewFrame("irqtest")]
  /\ pie' = FALSE
  /\ UNCHANGED <<request, ienable, maskVars, alt_irq>>

\* Without a pending interrupt, because the line that caused the exception
\* has gone down again, it is taken for an instruction's, and nothing handles
\* those.
IrqTest ==
  /\ At("irqtest")
  /\ Goto(IF Pending # {} THEN "pending" ELSE "unknown")
  /\ UNCHANGED <<request, cpuVars, maskVars, alt_irq, level>>

ReadPending ==
  /\ At("pending")
  /\ Become([Top EXCEPT !.active = Pending, !.pc = "scan"])
  /\ UNCHANGED <<request, cpuVars, maskVars, alt_irq, level>>

\* The scan for the lowest set bit, and the call.  Without a set bit the scan
\* does not end.
Dispatch ==
  /\ At("scan") /\ Top.active # {}
  /\ LET i == Lowest(Top.active)
     IN  Become([NewFrame("run") EXCEPT !.active = Top.active, !.irq = i,
                                        !.called = alt_irq[i]])
  /\ UNCHANGED <<request, cpuVars, maskVars, alt_irq, level>>

\* What a handler does to its device.
Serve ==
  /\ level > 0 /\ At("run")
  /\ request' = request \ {Top.irq}
  /\ Become([Top EXCEPT !.served = TRUE])
  /\ UNCHANGED <<cpuVars, maskVars, alt_irq, level>>

\* Handlers leave their sections, and keep others out again, before they
\* return.
HandlerReturn ==
  /\ level > 0 /\ At("run")
  /\ Top.served /\ Top.saved = <<>> /\ ~Top.nested
  /\ Goto("reload")
  /\ UNCHANGED <<request, cpuVars, maskVars, alt_irq, level>>

\* active = alt_irq_pending (), and another pass or the end of the exception.
Reload ==
  /\ At("reload")
  /\ \/ /\ Pending # {}
        /\ Become([Top EXCEPT !.active = Pending, !.pc = "scan"])
        /\ UNCHANGED <<pie, level>>
     \/ /\ Pending = {}
        /\ level' = level - 1
        /\ pie' = TRUE
        /\ frame' = [frame EXCEPT ![level] = NewFrame("run")]
  /\ UNCHANGED <<request, ienable, maskVars, alt_irq>>

-----------------------------------------------------------------------------
(***************************************************************************)
(* alt_irq_interruptible and alt_irq_non_interruptible, for handlers.      *)
(***************************************************************************)
\* Mutant: the handler's own line is let in.
AboveOrSame(i) == 0 .. i

Above(i) == 0 .. i - 1

Interruptible ==
  /\ level > 0 /\ At("run")
  /\ Top.irq \in Nesting /\ ~Top.nested /\ Top.saved = <<>>
  /\ Become([Top EXCEPT !.nested = TRUE, !.old = alt_priority_mask])
  /\ alt_priority_mask' = Above(Top.irq)
  /\ ienable' = alt_irq_active \intersect alt_priority_mask'
  /\ pie' = TRUE
  /\ UNCHANGED <<request, alt_irq_active, alt_irq, level>>

\* Mutant: every line is let in again.
MaskBackWhole(f) == Irq

MaskBack(f) == f.old

NonInterruptible ==
  /\ level > 0 /\ At("run") /\ Top.nested /\ Top.saved = <<>>
  /\ Become([Top EXCEPT !.nested = FALSE])
  /\ pie' = FALSE
  /\ alt_priority_mask' = MaskBack(Top)
  /\ ienable' = MaskBack(Top) \intersect alt_irq_active
  /\ UNCHANGED <<request, alt_irq_active, alt_irq, level>>

-----------------------------------------------------------------------------
(***************************************************************************)
(* The lines.  A device withdraws its request by itself, or because code   *)
(* other than its handler masks it.                                        *)
(***************************************************************************)
Raise(i) ==
  /\ i \notin request
  /\ request' = request \union {i}
  /\ UNCHANGED <<cpuVars, maskVars, alt_irq, level, frame>>

Quiet(i) ==
  /\ i \in request
  /\ request' = request \ {i}
  /\ UNCHANGED <<cpuVars, maskVars, alt_irq, level, frame>>

Operation == OpHandler \/ OpContext \/ OpMask \/ OpEnd
Entering == IrqTest \/ ReadPending \/ Dispatch \/ Reload

Calls ==
  \/ DisableAll
  \/ \E i \in Irq, isr \in Handlers \union {Null} : Register(i, isr)
  \/ \E i \in Irq : EnableIrq(i) \/ DisableIrq(i)

Next ==
  \/ Calls \/ Operation \/ EnableAll
  \/ Exception \/ Entering \/ Serve \/ HandlerReturn
  \/ Interruptible \/ NonInterruptible
  \/ \E i \in Irq : Raise(i) \/ Quiet(i)

Spec == Init /\ [][Next]_irqVars

(***************************************************************************)
(* Fairness: the CPU runs; it takes a pending interrupt whenever they are  *)
(* on; sections end; handlers serve their device and return.               *)
(***************************************************************************)
FairSpec ==
  /\ Spec
  /\ WF_irqVars(Operation) /\ WF_irqVars(Entering)
  /\ SF_irqVars(EnableAll) /\ SF_irqVars(Exception)
  /\ SF_irqVars(Serve) /\ SF_irqVars(HandlerReturn)
  /\ SF_irqVars(NonInterruptible)

-----------------------------------------------------------------------------
(***************************************************************************)
(* Properties                                                              *)
(***************************************************************************)
Pcs == {"run", "op_handler", "op_context", "op_mask", "op_end",
        "irqtest", "pending", "scan", "reload", "unknown"}

Frames ==
  [pc : Pcs, active : SUBSET Irq, irq : Irq, called : Entry, served : BOOLEAN,
   saved : Seq(BOOLEAN), target : Irq, isr : Handlers \union {Null},
   nested : BOOLEAN, old : SUBSET Irq]

\* Every variable has its type.
IrqTypeOK ==
  /\ request \in SUBSET Irq
  /\ ienable \in SUBSET Irq /\ pie \in BOOLEAN
  /\ alt_irq_active \in SUBSET Irq /\ alt_priority_mask \in SUBSET Irq
  /\ alt_irq \in [Irq -> Entry]
  /\ level \in 0 .. MaxLevel
  /\ frame \in [0 .. MaxLevel -> Frames]

\* Where a handler may be.
InHandler(l) ==
  l > 0 /\ frame[l].pc \notin {"irqtest", "pending", "scan", "unknown"}

Serving == {l \in 1 .. level : InHandler(l)}

\* alt_irq_handler never calls a null pointer and never calls a handler with
\* the context of another, whoever registers, unregisters and enables lines
\* meanwhile: the program in the middle of it, or the handler served before.
CalledAsRegistered ==
  \A l \in Serving :
    /\ frame[l].called.handler # Null
    /\ frame[l].called.context = frame[l].called.handler

\* No code in a critical section is interrupted, however sections of the
\* program, of handlers and of the HAL lie inside one another.
SectionsExclude == \A l \in 0 .. level - 1 : frame[l].saved = <<>>

\* What alt_irq_interruptible is for: a handler is interrupted only when it
\* asked for that, and only by handlers of higher priority.
OnlyHigherPreempts ==
  \A l, m \in Serving :
    l < m => frame[l].nested /\ frame[m].irq < frame[l].irq

\* The lines that every handler which lets others in lets in.
LetIn ==
  {i \in Irq : \A l \in Serving : frame[l].nested => i < frame[l].irq}

\* The masks never drift from the levels in progress, in whatever order
\* handlers let others in, are interrupted and take it back: the CPU lets in
\* what the program has enabled of the lines above every such handler, so all
\* of it once there is none.
MaskInStep ==
  /\ alt_priority_mask = LetIn
  /\ ienable = alt_irq_active \intersect LetIn

\* An exception that found no interrupt any more.  The CPU stays in it: in
\* alt_exception_unknown, or in the first scan, which nothing tests before.
Spurious == At("unknown") \/ (At("scan") /\ Top.active = {})

\* A line that the program has enabled is served, if those of higher priority
\* stop asking: no request is forgotten between two passes, two levels or a
\* critical section and its end, although other lines go up and down
\* meanwhile.  After a spurious interrupt nothing is promised.
RequestServed ==
  \A i \in Irq :
    []~Spurious /\ (\A j \in Above(i) : <>[](j \notin request)) =>
      (i \in request /\ i \in alt_irq_active
         ~> ~(i \in request /\ i \in alt_irq_active))
=============================================================================
