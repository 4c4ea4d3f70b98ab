------------------------- MODULE IrqDispatchProofs --------------------------
(***************************************************************************)
(* Proofs about IrqDispatch, for every number of lines, set of handlers    *)
(* and depth of nesting.                                                   *)
(***************************************************************************)
EXTENDS IrqDispatch, SequenceTheorems, WellFoundedInduction, TLAPS

(***************************************************************************)
(* The inductive invariant.  Interrupts are on only where the code that    *)
(* runs is in no section and is the program or a handler that lets others  *)
(* in: so every level below the one that runs stays where an exception     *)
(* found it, and an operation on the table is never interrupted.           *)
(***************************************************************************)
Open == level > 0 => Top.nested

Below ==
  \A l \in 0 .. level - 1 :
    /\ frame[l].pc = "run" /\ frame[l].saved = <<>>
    /\ l > 0 => frame[l].nested

PieMeans == pie => At("run") /\ Top.saved = <<>> /\ Open

SavedMeans == \A k \in 1 .. Len(Top.saved) : Top.saved[k] => k = 1 /\ Open

EntryPcs == {"irqtest", "pending", "scan", "reload", "unknown"}
OpPcs == {"op_handler", "op_context", "op_mask", "op_end"}

EntryMeans ==
  /\ Top.pc \in EntryPcs => level > 0
  /\ Top.pc \in OpPcs => Top.saved # <<>>
  /\ At("scan") => Top.active \subseteq alt_irq_active

\* The table is whole but for the entry that is being changed.
TableMeans ==
  /\ ienable \subseteq alt_irq_active
  /\ \A i \in Irq :
       alt_irq[i].context # alt_irq[i].handler =>
         At("op_context") /\ Top.target = i
  /\ \A i \in alt_irq_active :
       alt_irq[i].handler = Null =>
         /\ Top.pc \in {"op_context", "op_mask"}
         /\ Top.target = i /\ Top.isr = Null
  /\ At("op_context") => alt_irq[Top.target].handler = Top.isr
  /\ At("op_mask") /\ Top.isr # Null => alt_irq[Top.target].handler = Top.isr

CalledMeans ==
  \A l \in 1 .. level :
    InHandler(l) =>
      /\ frame[l].called.handler # Null
      /\ frame[l].called.context = frame[l].called.handler

IInv ==
  /\ IrqTypeOK /\ Below /\ PieMeans /\ SavedMeans
  /\ EntryMeans /\ TableMeans /\ CalledMeans

-----------------------------------------------------------------------------
\* What a new value of the running level's frame changes.
LEMMA BecomeIs ==
  ASSUME IrqTypeOK, NEW f \in Frames, Become(f)
  PROVE  /\ frame' \in [0 .. MaxLevel -> Frames]
         /\ frame'[level] = f
         /\ \A l \in 0 .. MaxLevel : l # level => frame'[l] = frame[l]
BY DEF IrqTypeOK, Become

LEMMA TopIs == ASSUME IrqTypeOK PROVE Top \in Frames
BY DEF IrqTypeOK, Top

\* A frame that has just been made is one.
LEMMA NewFrameIs ==
  ASSUME NEW pc \in Pcs
  PROVE  /\ NewFrame(pc) \in Frames
         /\ NewFrame(pc).pc = pc /\ NewFrame(pc).saved = <<>>
         /\ NewFrame(pc).nested = FALSE
<1>1. 0 \in Irq
  BY IrqAssumption DEF Irq
<1>2. NoEntry \in Entry
  BY DEF NoEntry, Entry
<1>3. <<>> \in Seq(BOOLEAN)
  OBVIOUS
<1> QED
  BY <1>1, <1>2, <1>3 DEF NewFrame, Frames

(***************************************************************************)
(* A step that stays at its level keeps what is below it.                  *)
(***************************************************************************)
LEMMA Stays ==
  ASSUME IInv, NEW f \in Frames, Become(f), level' = level
  PROVE  Top' = f /\ Below'
<1>1. level \in 0 .. MaxLevel /\ MaxLevel \in Nat
  BY IrqAssumption DEF IInv, IrqTypeOK
<1>2. \A l \in 0 .. level - 1 : l \in 0 .. MaxLevel /\ l # level
  BY <1>1
<1>3. \A l \in 0 .. level - 1 : frame'[l] = frame[l]
  BY <1>2, BecomeIs DEF IInv
<1>4. Top' = f
  BY BecomeIs DEF IInv, Top
<1> QED
  BY <1>3, <1>4 DEF IInv, Below

LEMMA CalledKept ==
  ASSUME IInv, NEW f \in Frames, Become(f), level' = level,
         \/ f.called = Top.called /\ (InHandler(level) \/ level = 0)
         \/ f.pc \in {"irqtest", "pending", "scan", "unknown"}
  PROVE  CalledMeans'
<1>1. level \in 0 .. MaxLevel /\ MaxLevel \in Nat
  BY IrqAssumption DEF IInv, IrqTypeOK
<1>2. \A l \in 1 .. level : l \in 0 .. MaxLevel
  BY <1>1
<1>3. \A l \in 1 .. level : l # level => frame'[l] = frame[l]
  BY <1>2, BecomeIs DEF IInv
<1>4. frame'[level] = f
  BY BecomeIs DEF IInv
<1> QED
  BY <1>1, <1>3, <1>4 DEF IInv, CalledMeans, InHandler, Top

(***************************************************************************)
(* Sections.                                                               *)
(***************************************************************************)
\* Entering a section, of the caller or of an operation on the table.
LEMMA Entered ==
  ASSUME IInv, At("run"), NEW f \in Frames,
         f.saved = Append(Top.saved, pie), f.nested = Top.nested,
         Top' = f, level' = level, pie' = FALSE
  PROVE  PieMeans' /\ SavedMeans' /\ f.saved # <<>>
<1>1. Top.saved \in Seq(BOOLEAN) /\ pie \in BOOLEAN
  BY TopIs DEF IInv, IrqTypeOK, Frames
<1>2. /\ Len(f.saved) = Len(Top.saved) + 1 /\ Len(Top.saved) \in Nat
      /\ f.saved[Len(Top.saved) + 1] = pie
      /\ \A k \in 1 .. Len(Top.saved) : f.saved[k] = Top.saved[k]
  BY <1>1
<1>3. Open' = Open
  BY DEF Open
<1>4. ASSUME NEW k \in 1 .. Len(f.saved), f.saved[k]
      PROVE  k = 1 /\ Open
  <2>1. CASE k \in 1 .. Len(Top.saved)
    BY <1>2, <1>4, <2>1 DEF IInv, SavedMeans
  <2>2. CASE k = Len(Top.saved) + 1
    <3>1. pie = TRUE
      BY <1>1, <1>2, <1>4, <2>2
    <3>2. Top.saved = <<>> /\ Open
      BY <3>1 DEF IInv, PieMeans
    <3> QED
      BY <3>2, <2>2
  <2> QED
    BY <1>2, <2>1, <2>2
<1>5. SavedMeans'
  BY <1>3, <1>4 DEF SavedMeans
<1>6. f.saved # <<>>
  BY <1>2
<1> QED
  BY <1>5, <1>6 DEF PieMeans

LEMMA AppendIs ==
  ASSUME NEW g \in Frames, NEW b \in BOOLEAN
  PROVE  Append(g.saved, b) \in Seq(BOOLEAN)
<1>1. g.saved \in Seq(BOOLEAN)
  BY DEF Frames
<1> QED
  BY <1>1, AppendProperties

\* Leaving one.
LEMMA OuterIs ==
  ASSUME NEW g \in Frames, g.saved # <<>>
  PROVE  Outer(g) \in Seq(BOOLEAN)
<1>1. g.saved \in Seq(BOOLEAN) /\ Len(g.saved) \in Nat \ {0}
  BY EmptySeq DEF Frames
<1>2. \A i \in 1 .. Len(g.saved) - 1 : g.saved[i] \in BOOLEAN
  BY <1>1
<1> QED
  BY <1>1, <1>2, SubSeqProperties DEF Outer

LEMMA Left ==
  ASSUME IInv, Top.saved # <<>>, NEW f \in Frames,
         f.saved = Outer(Top), f.nested = Top.nested, f.pc = "run",
         Top' = f, level' = level, pie' = Restored(Innermost(Top))
  PROVE  PieMeans' /\ SavedMeans' /\ pie' \in BOOLEAN
<1>1. Top.saved \in Seq(BOOLEAN) /\ Len(Top.saved) \in Nat \ {0}
  BY TopIs, EmptySeq DEF IInv, Frames
<1>2. pie' = Top.saved[Len(Top.saved)]
  BY DEF Restored, Innermost
<1>3. pie' \in BOOLEAN
  BY <1>1, <1>2, ElementOfSeq
<1>4. /\ Len(f.saved) = Len(Top.saved) - 1
      /\ \A k \in 1 .. Len(Top.saved) - 1 : f.saved[k] = Top.saved[k]
  <2>1. \A i \in 1 .. Len(Top.saved) - 1 : Top.saved[i] \in BOOLEAN
    BY <1>1
  <2> QED
    BY <1>1, <2>1, SubSeqProperties DEF Outer
<1>5. Open' = Open
  BY DEF Open
<1>6. SavedMeans'
  BY <1>1, <1>4, <1>5 DEF SavedMeans, IInv
<1>7. ASSUME pie' PROVE f.saved = <<>> /\ Open
  <2>1. Top.saved[Len(Top.saved)]
    BY <1>2, <1>7
  <2>0. Len(Top.saved) \in 1 .. Len(Top.saved)
    BY <1>1
  <2>2. Len(Top.saved) = 1 /\ Open
    BY <2>0, <2>1, Zenon DEF IInv, SavedMeans
  <2>3. Len(f.saved) = 0
    BY <2>2, <1>4
  <2>4. f.saved \in Seq(BOOLEAN)
    BY DEF Frames
  <2> QED
    BY <2>2, <2>3, <2>4, EmptySeq
<1> QED
  BY <1>3, <1>5, <1>6, <1>7 DEF PieMeans, At

(***************************************************************************)
(* Steps of code that is in no operation and stays so.                     *)
(***************************************************************************)
LEMMA RunsOn ==
  ASSUME IInv, At("run"), NEW f \in Frames, Become(f), level' = level,
         f.pc = "run", f.called = Top.called,
         UNCHANGED <<alt_irq, alt_irq_active>>, ienable' \subseteq alt_irq_active
  PROVE  /\ Top' = f /\ Below' /\ CalledMeans' /\ EntryMeans' /\ TableMeans'
         /\ alt_irq' \in [Irq -> Entry] /\ level' \in 0 .. MaxLevel
         /\ frame' \in [0 .. MaxLevel -> Frames]
         /\ alt_irq_active' \in SUBSET Irq
<1>1. Top' = f /\ Below'
  BY Stays
<1>2. InHandler(level) \/ level = 0
  BY DEF At, InHandler, Top, IInv, IrqTypeOK
<1>3. CalledMeans'
  BY <1>2, CalledKept
<1>4. EntryMeans'
  BY <1>1 DEF EntryMeans, EntryPcs, OpPcs, At
<1>5. TableMeans'
  BY <1>1 DEF IInv, TableMeans, At
<1> QED
  BY <1>1, <1>3, <1>4, <1>5, BecomeIs DEF IInv, IrqTypeOK

LEMMA DisableAllKeeps == ASSUME IInv, DisableAll PROVE IInv'
<1> DEFINE f == [Top EXCEPT !.saved = Append(@, pie)]
<1>1. Top \in Frames /\ Append(Top.saved, pie) \in Seq(BOOLEAN)
  BY TopIs, AppendIs DEF IInv, IrqTypeOK
<1>2. /\ f \in Frames /\ f.pc = Top.pc /\ f.called = Top.called
      /\ f.saved = Append(Top.saved, pie) /\ f.nested = Top.nested
  BY <1>1 DEF Frames
<1>3. At("run") /\ f.pc = "run" /\ Become(f) /\ pie' = FALSE
  BY <1>2 DEF DisableAll, At
<1>4. /\ UNCHANGED <<request, ienable, alt_irq_active, alt_priority_mask>>
      /\ alt_irq' = alt_irq /\ level' = level
  BY DEF DisableAll, maskVars
<1> HIDE DEF f
<1>5. ienable' \subseteq alt_irq_active
  BY <1>4 DEF IInv, TableMeans
<1>6. Top' = f /\ Below' /\ CalledMeans' /\ EntryMeans' /\ TableMeans'
  BY <1>2, <1>3, <1>4, <1>5, RunsOn
<1>7. PieMeans' /\ SavedMeans'
  BY <1>2, <1>3, <1>4, <1>6, Entered
<1>8. frame' \in [0 .. MaxLevel -> Frames]
  BY <1>2, <1>3, BecomeIs DEF IInv
<1>9. IrqTypeOK'
  BY <1>3, <1>4, <1>8 DEF IInv, IrqTypeOK
<1> QED
  BY <1>6, <1>7, <1>9 DEF IInv

LEMMA EnableAllKeeps == ASSUME IInv, EnableAll PROVE IInv'
<1> DEFINE f == [Top EXCEPT !.saved = Outer(Top)]
<1>1. Top \in Frames /\ Top.saved # <<>>
  BY TopIs DEF IInv, EnableAll
<1>2. Outer(Top) \in Seq(BOOLEAN)
  BY <1>1, OuterIs
<1>3. /\ f \in Frames /\ f.pc = Top.pc /\ f.called = Top.called
      /\ f.saved = Outer(Top) /\ f.nested = Top.nested
  BY <1>1, <1>2 DEF Frames
<1>4. /\ At("run") /\ f.pc = "run" /\ Become(f)
      /\ pie' = Restored(Innermost(Top))
  BY <1>3 DEF EnableAll, At
<1>5. /\ UNCHANGED <<request, ienable, alt_irq_active, alt_priority_mask>>
      /\ alt_irq' = alt_irq /\ level' = level
  BY DEF EnableAll, maskVars
<1> HIDE DEF f
<1>6. ienable' \subseteq alt_irq_active
  BY <1>5 DEF IInv, TableMeans
<1>7. Top' = f /\ Below' /\ CalledMeans' /\ EntryMeans' /\ TableMeans'
  BY <1>3, <1>4, <1>5, <1>6, RunsOn
<1>8. PieMeans' /\ SavedMeans' /\ pie' \in BOOLEAN
  BY <1>1, <1>3, <1>4, <1>5, <1>7, Left
<1>9. frame' \in [0 .. MaxLevel -> Frames]
  BY <1>3, <1>4, BecomeIs DEF IInv
<1>10. IrqTypeOK'
  BY <1>5, <1>8, <1>9 DEF IInv, IrqTypeOK
<1> QED
  BY <1>7, <1>8, <1>10 DEF IInv

LEMMA ServeKeeps == ASSUME IInv, Serve PROVE IInv'
<1> DEFINE f == [Top EXCEPT !.served = TRUE]
<1>1. Top \in Frames
  BY TopIs DEF IInv
<1>2. /\ f \in Frames /\ f.pc = Top.pc /\ f.called = Top.called
      /\ f.saved = Top.saved /\ f.nested = Top.nested
  BY <1>1 DEF Frames
<1>3. At("run") /\ f.pc = "run" /\ Become(f)
  BY <1>2 DEF Serve, At
<1>4. /\ request' \subseteq request
      /\ UNCHANGED <<ienable, pie, alt_irq_active, alt_priority_mask>>
      /\ alt_irq' = alt_irq /\ level' = level
  BY DEF Serve, cpuVars, maskVars
<1> HIDE DEF f
<1>5. ienable' \subseteq alt_irq_active
  BY <1>4 DEF IInv, TableMeans
<1>6. Top' = f /\ Below' /\ CalledMeans' /\ EntryMeans' /\ TableMeans'
  BY <1>2, <1>3, <1>4, <1>5, RunsOn
<1>7. PieMeans' /\ SavedMeans'
  BY <1>2, <1>3, <1>4, <1>6 DEF IInv, PieMeans, SavedMeans, Open, At
<1>8. IrqTypeOK'
  BY <1>2, <1>3, <1>4, BecomeIs DEF IInv, IrqTypeOK
<1> QED
  BY <1>6, <1>7, <1>8 DEF IInv

LEMMA InterruptibleKeeps == ASSUME IInv, Interruptible PROVE IInv'
<1> DEFINE f == [Top EXCEPT !.nested = TRUE, !.old = alt_priority_mask]
<1>1. Top \in Frames /\ alt_priority_mask \in SUBSET Irq
  BY TopIs DEF IInv, IrqTypeOK
<1>2. /\ f \in Frames /\ f.pc = Top.pc /\ f.called = Top.called
      /\ f.saved = Top.saved /\ f.nested = TRUE
  BY <1>1 DEF Frames
<1>3. /\ At("run") /\ f.pc = "run" /\ f.saved = <<>> /\ Become(f)
      /\ level' = level /\ pie' = TRUE
  BY <1>2 DEF Interruptible, At
<1>4. /\ UNCHANGED <<request, alt_irq_active, alt_irq>>
      /\ alt_priority_mask' = Above(Top.irq)
      /\ ienable' = alt_irq_active \intersect alt_priority_mask'
  BY DEF Interruptible
<1> HIDE DEF f
<1>5. Top' = f /\ Below' /\ CalledMeans' /\ EntryMeans' /\ TableMeans'
  BY <1>2, <1>3, <1>4, RunsOn
<1>6. PieMeans' /\ SavedMeans'
  BY <1>2, <1>3, <1>5 DEF PieMeans, SavedMeans, Open, At
<1>7. Above(Top.irq) \in SUBSET Irq
  BY <1>1, IrqAssumption DEF Above, Irq, Frames
<1>8. IrqTypeOK'
  BY <1>2, <1>3, <1>4, <1>7, BecomeIs DEF IInv, IrqTypeOK
<1> QED
  BY <1>5, <1>6, <1>8 DEF IInv

LEMMA NonInterruptibleKeeps == ASSUME IInv, NonInterruptible PROVE IInv'
<1> DEFINE f == [Top EXCEPT !.nested = FALSE]
<1>1. Top \in Frames /\ Top.old \in SUBSET Irq
  BY TopIs DEF IInv, Frames
<1>2. /\ f \in Frames /\ f.pc = Top.pc /\ f.called = Top.called
      /\ f.saved = Top.saved
  BY <1>1 DEF Frames
<1>3. /\ At("run") /\ f.pc = "run" /\ f.saved = <<>> /\ Become(f)
      /\ level' = level /\ pie' = FALSE
  BY <1>2 DEF NonInterruptible, At
<1>4. /\ UNCHANGED <<request, alt_irq_active, alt_irq>>
      /\ alt_priority_mask' = Top.old
      /\ ienable' = Top.old \intersect alt_irq_active
  BY DEF NonInterruptible, MaskBack
<1> HIDE DEF f
<1>5. Top' = f /\ Below' /\ CalledMeans' /\ EntryMeans' /\ TableMeans'
  BY <1>2, <1>3, <1>4, RunsOn
<1>6. PieMeans' /\ SavedMeans'
  BY <1>2, <1>3, <1>5 DEF PieMeans, SavedMeans
<1>7. IrqTypeOK'
  BY <1>1, <1>2, <1>3, <1>4, BecomeIs DEF IInv, IrqTypeOK
<1> QED
  BY <1>5, <1>6, <1>7 DEF IInv

(***************************************************************************)
(* Operations on the table.                                                *)
(***************************************************************************)
LEMMA OpBeginKeeps ==
  ASSUME IInv, NEW i \in Irq, NEW isr \in Handlers \union {Null},
         NEW pc \in {"op_handler", "op_mask"}, OpBegin(pc, i, isr),
         pc = "op_mask" => isr = Null \/ isr = alt_irq[i].handler
  PROVE  IInv'
<1> DEFINE f == [Top EXCEPT !.saved = Append(@, pie), !.target = i,
                            !.isr = isr, !.pc = pc]
<1>1. Top \in Frames /\ Append(Top.saved, pie) \in Seq(BOOLEAN)
  BY TopIs, AppendIs DEF IInv, IrqTypeOK
<1>2. /\ f \in Frames /\ f.pc = pc /\ f.called = Top.called
      /\ f.saved = Append(Top.saved, pie) /\ f.nested = Top.nested
      /\ f.target = i /\ f.isr = isr
  BY <1>1 DEF Frames, Pcs
<1>3. At("run") /\ Become(f) /\ pie' = FALSE
  BY <1>2 DEF OpBegin, DisabledForUpdate
<1>4. /\ UNCHANGED <<request, ienable, alt_irq_active, alt_priority_mask>>
      /\ alt_irq' = alt_irq /\ level' = level
  BY DEF OpBegin, maskVars
<1> HIDE DEF f
<1>5. Top' = f /\ Below'
  BY <1>2, <1>3, <1>4, Stays
<1>6. InHandler(level) \/ level = 0
  BY <1>3 DEF At, InHandler, Top, IInv, IrqTypeOK
<1>7. CalledMeans'
  BY <1>2, <1>3, <1>4, <1>6, CalledKept
<1>8. PieMeans' /\ SavedMeans' /\ f.saved # <<>>
  BY <1>2, <1>3, <1>4, <1>5, Entered
<1>9. EntryMeans'
  BY <1>2, <1>5, <1>8 DEF EntryMeans, EntryPcs, OpPcs, At
<1>10. TableMeans'
  BY <1>2, <1>3, <1>4, <1>5 DEF IInv, TableMeans, At
<1>11. IrqTypeOK'
  BY <1>2, <1>3, <1>4, BecomeIs DEF IInv, IrqTypeOK
<1> QED
  BY <1>5, <1>7, <1>8, <1>9, <1>10, <1>11 DEF IInv

\* What a level that is in an operation or in the entry knows.
LEMMA NotRunning ==
  ASSUME IInv, ~At("run")
  PROVE  pie = FALSE
BY DEF IInv, IrqTypeOK, PieMeans

\* The next step of an operation, with interrupts off.
LEMMA OpGoesOn ==
  ASSUME IInv, NEW pc \in OpPcs, Top.pc \in OpPcs, Goto(pc),
         level' = level, pie' = pie
  PROVE  /\ Top' \in Frames /\ Top'.pc = pc
         /\ Top'.target = Top.target /\ Top'.isr = Top.isr
         /\ frame' \in [0 .. MaxLevel -> Frames]
         /\ Below' /\ CalledMeans' /\ PieMeans' /\ SavedMeans' /\ EntryMeans'
<1> DEFINE f == [Top EXCEPT !.pc = pc]
<1>1. Top \in Frames
  BY TopIs DEF IInv
<1>2. /\ f \in Frames /\ f.pc = pc /\ f.called = Top.called
      /\ f.saved = Top.saved /\ f.nested = Top.nested
      /\ f.target = Top.target /\ f.isr = Top.isr
  BY <1>1 DEF Frames, Pcs, OpPcs
<1>3. Become(f)
  BY DEF Goto
<1> HIDE DEF f
<1>4. Top' = f /\ Below' /\ frame' \in [0 .. MaxLevel -> Frames]
  BY <1>2, <1>3, Stays, BecomeIs DEF IInv
<1>5. InHandler(level) \/ level = 0
  BY DEF OpPcs, InHandler, Top, IInv, IrqTypeOK
<1>6. CalledMeans'
  BY <1>2, <1>3, <1>5, CalledKept
<1>7. pie = FALSE
  BY NotRunning DEF At, OpPcs
<1>8. PieMeans' /\ SavedMeans'
  BY <1>2, <1>4, <1>7 DEF IInv, PieMeans, SavedMeans, Open
<1>9. EntryMeans'
  BY <1>2, <1>4 DEF IInv, EntryMeans, EntryPcs, OpPcs, At
<1> QED
  BY <1>2, <1>4, <1>6, <1>8, <1>9

LEMMA OpHandlerKeeps == ASSUME IInv, OpHandler PROVE IInv'
<1>1. /\ Top.pc = "op_handler" /\ Goto("op_context")
      /\ level' = level /\ pie' = pie
      /\ UNCHANGED <<request, ienable, alt_irq_active, alt_priority_mask>>
      /\ alt_irq' = [alt_irq EXCEPT ![Top.target].handler = Top.isr]
  BY DEF OpHandler, At, cpuVars, maskVars
<1>2. /\ Top'.pc = "op_context"
      /\ Top'.target = Top.target /\ Top'.isr = Top.isr
      /\ frame' \in [0 .. MaxLevel -> Frames]
      /\ Below' /\ CalledMeans' /\ PieMeans' /\ SavedMeans' /\ EntryMeans'
  BY <1>1, OpGoesOn DEF OpPcs
<1>3. Top.target \in Irq /\ Top.isr \in Handlers \union {Null}
  BY TopIs DEF IInv, Frames
<1>4. alt_irq \in [Irq -> Entry]
  BY DEF IInv, IrqTypeOK
<1>5. /\ alt_irq' \in [Irq -> Entry]
      /\ alt_irq'[Top.target].handler = Top.isr
      /\ \A i \in Irq : i # Top.target => alt_irq'[i] = alt_irq[i]
  BY <1>1, <1>3, <1>4 DEF Entry
<1>6. TableMeans'
  BY <1>1, <1>2, <1>3, <1>5 DEF IInv, TableMeans, At, IrqTypeOK
<1>7. IrqTypeOK'
  BY <1>1, <1>2, <1>5 DEF IInv, IrqTypeOK
<1> QED
  BY <1>2, <1>6, <1>7 DEF IInv

LEMMA OpContextKeeps == ASSUME IInv, OpContext PROVE IInv'
<1>1. /\ Top.pc = "op_context" /\ Goto("op_mask")
      /\ level' = level /\ pie' = pie
      /\ UNCHANGED <<request, ienable, alt_irq_active, alt_priority_mask>>
      /\ alt_irq' = [alt_irq EXCEPT ![Top.target].context = Top.isr]
  BY DEF OpContext, At, cpuVars, maskVars
<1>2. /\ Top'.pc = "op_mask"
      /\ Top'.target = Top.target /\ Top'.isr = Top.isr
      /\ frame' \in [0 .. MaxLevel -> Frames]
      /\ Below' /\ CalledMeans' /\ PieMeans' /\ SavedMeans' /\ EntryMeans'
  BY <1>1, OpGoesOn DEF OpPcs
<1>3. Top.target \in Irq /\ Top.isr \in Handlers \union {Null}
  BY TopIs DEF IInv, Frames
<1>4. alt_irq \in [Irq -> Entry]
  BY DEF IInv, IrqTypeOK
<1>5. /\ alt_irq' \in [Irq -> Entry]
      /\ alt_irq'[Top.target].context = Top.isr
      /\ alt_irq'[Top.target].handler = alt_irq[Top.target].handler
      /\ \A i \in Irq : i # Top.target => alt_irq'[i] = alt_irq[i]
  BY <1>1, <1>3, <1>4 DEF Entry
<1>6. TableMeans'
  BY <1>1, <1>2, <1>3, <1>5 DEF IInv, TableMeans, At, IrqTypeOK
<1>7. IrqTypeOK'
  BY <1>1, <1>2, <1>5 DEF IInv, IrqTypeOK
<1> QED
  BY <1>2, <1>6, <1>7 DEF IInv

LEMMA OpMaskKeeps == ASSUME IInv, OpMask PROVE IInv'
<1>1. /\ Top.pc = "op_mask" /\ Goto("op_end")
      /\ level' = level /\ pie' = pie
      /\ UNCHANGED <<request, alt_priority_mask, alt_irq>>
      /\ alt_irq_active' = ActiveAfter(Top) /\ ienable' = alt_irq_active'
  BY DEF OpMask, At, Restored
<1>2. /\ Top'.pc = "op_end"
      /\ frame' \in [0 .. MaxLevel -> Frames]
      /\ Below' /\ CalledMeans' /\ PieMeans' /\ SavedMeans' /\ EntryMeans'
  BY <1>1, OpGoesOn DEF OpPcs
<1>3. Top.target \in Irq /\ Top.isr \in Handlers \union {Null}
  BY TopIs DEF IInv, Frames
<1>4. alt_irq_active' \in SUBSET Irq
  BY <1>1, <1>3 DEF ActiveAfter, IInv, IrqTypeOK
<1>5. TableMeans'
  BY <1>1, <1>2, <1>3 DEF IInv, TableMeans, At, ActiveAfter
<1>6. IrqTypeOK'
  BY <1>1, <1>2, <1>4 DEF IInv, IrqTypeOK
<1> QED
  BY <1>2, <1>5, <1>6 DEF IInv

LEMMA OpEndKeeps == ASSUME IInv, OpEnd PROVE IInv'
<1> DEFINE f == [Top EXCEPT !.saved = Outer(Top), !.pc = "run",
                            !.target = 0, !.isr = Null]
<1>1. Top \in Frames /\ Top.pc = "op_end" /\ Top.saved # <<>>
  BY TopIs DEF IInv, OpEnd, At, EntryMeans, OpPcs
<1>2. Outer(Top) \in Seq(BOOLEAN) /\ 0 \in Irq
  BY <1>1, OuterIs, IrqAssumption DEF Irq
<1>3. /\ f \in Frames /\ f.pc = "run" /\ f.called = Top.called
      /\ f.saved = Outer(Top) /\ f.nested = Top.nested
  BY <1>1, <1>2 DEF Frames, Pcs
<1>4. Become(f) /\ pie' = Restored(Innermost(Top))
  BY DEF OpEnd
<1>5. /\ UNCHANGED <<request, ienable, alt_irq_active, alt_priority_mask>>
      /\ alt_irq' = alt_irq /\ level' = level
  BY DEF OpEnd, maskVars
<1> HIDE DEF f
<1>6. Top' = f /\ Below' /\ frame' \in [0 .. MaxLevel -> Frames]
  BY <1>3, <1>4, <1>5, Stays, BecomeIs DEF IInv
<1>7. InHandler(level) \/ level = 0
  BY <1>1 DEF InHandler, Top, IInv, IrqTypeOK
<1>8. CalledMeans'
  BY <1>3, <1>4, <1>5, <1>7, CalledKept
<1>9. PieMeans' /\ SavedMeans' /\ pie' \in BOOLEAN
  BY <1>1, <1>3, <1>4, <1>5, <1>6, Left
<1>10. EntryMeans'
  BY <1>3, <1>6 DEF EntryMeans, EntryPcs, OpPcs, At
<1>11. TableMeans'
  BY <1>1, <1>3, <1>5, <1>6 DEF IInv, TableMeans, At
<1>12. IrqTypeOK'
  BY <1>5, <1>6, <1>9 DEF IInv, IrqTypeOK
<1> QED
  BY <1>6, <1>8, <1>9, <1>10, <1>11, <1>12 DEF IInv

(***************************************************************************)
(* The entry.  Interrupts are off from the exception to its end, so the    *)
(* lines that are enabled stay the same; those that ask need not.          *)
(***************************************************************************)
LEMMA EntryGoesOn ==
  ASSUME IInv, Top.pc \in EntryPcs, NEW f \in Frames, Become(f),
         f.pc \in {"pending", "scan", "unknown"}, f.saved = Top.saved,
         f.nested = Top.nested,
         f.pc = "scan" => f.active = Pending,
         level' = level,
         UNCHANGED <<request, cpuVars, maskVars, alt_irq>>
  PROVE  IInv'
<1>1. Top' = f /\ Below' /\ frame' \in [0 .. MaxLevel -> Frames]
  BY Stays, BecomeIs DEF IInv
<1>2. CalledMeans'
  BY CalledKept
<1>3. pie = FALSE
  BY NotRunning DEF At, EntryPcs
<1>4. /\ pie' = pie /\ ienable' = ienable /\ request' = request
      /\ alt_irq_active' = alt_irq_active /\ alt_irq' = alt_irq
      /\ alt_priority_mask' = alt_priority_mask
  BY DEF cpuVars, maskVars
<1>5. PieMeans' /\ SavedMeans'
  BY <1>1, <1>3, <1>4 DEF IInv, PieMeans, SavedMeans, Open
<1>6. Pending' = Pending /\ Pending \subseteq alt_irq_active
  BY <1>4 DEF Pending, IInv, TableMeans
<1>7. EntryMeans'
  BY <1>1, <1>4, <1>6 DEF IInv, EntryMeans, EntryPcs, OpPcs, At
<1>8. TableMeans'
  BY <1>1, <1>4 DEF IInv, TableMeans, At, EntryPcs
<1>9. IrqTypeOK'
  BY <1>1, <1>4 DEF IInv, IrqTypeOK
<1> QED
  BY <1>1, <1>2, <1>5, <1>7, <1>8, <1>9 DEF IInv

LEMMA IrqTestKeeps == ASSUME IInv, IrqTest PROVE IInv'
<1> DEFINE f == [Top EXCEPT !.pc = IF Pending # {} THEN "pending"
                                                   ELSE "unknown"]
<1>1. Top \in Frames /\ Top.pc = "irqtest"
  BY TopIs DEF IInv, IrqTest, At
<1>2. /\ f \in Frames /\ f.pc \in {"pending", "unknown"}
      /\ f.saved = Top.saved /\ f.nested = Top.nested
  BY <1>1 DEF Frames, Pcs
<1>3. Become(f) /\ level' = level
      /\ UNCHANGED <<request, cpuVars, maskVars, alt_irq>>
  BY <1>1 DEF IrqTest, Goto
<1> HIDE DEF f
<1> QED
  BY <1>1, <1>2, <1>3, EntryGoesOn DEF EntryPcs

LEMMA ReadPendingKeeps == ASSUME IInv, ReadPending PROVE IInv'
<1> DEFINE f == [Top EXCEPT !.active = Pending, !.pc = "scan"]
<1>1. Top \in Frames /\ Top.pc = "pending"
  BY TopIs DEF IInv, ReadPending, At
<1>2. Pending \in SUBSET Irq
  BY DEF IInv, IrqTypeOK, Pending
<1>3. /\ f \in Frames /\ f.pc = "scan" /\ f.active = Pending
      /\ f.saved = Top.saved /\ f.nested = Top.nested
  BY <1>1, <1>2 DEF Frames, Pcs
<1>4. Become(f) /\ level' = level
      /\ UNCHANGED <<request, cpuVars, maskVars, alt_irq>>
  BY DEF ReadPending
<1> HIDE DEF f
<1> QED
  BY <1>1, <1>3, <1>4, EntryGoesOn DEF EntryPcs

\* The scan finds a line that asked.
LEMMA LowestIs ==
  ASSUME NEW S \in SUBSET Irq, S # {}
  PROVE  Lowest(S) \in S
<1> DEFINE R == {ss \in Nat \X Nat : ss[1] < ss[2]}
<1>1. IsWellFoundedOn(R, Nat)
  BY NatLessThanWellFounded DEF OpToRel
<1>2. S \subseteq Nat
  BY DEF Irq
<1>3. PICK i \in S : \A j \in S : ~(<<j, i>> \in R)
  <2> HIDE DEF R
  <2> QED
    BY <1>1, <1>2, WFMin
<1>4. \A j \in S : i <= j
  <2> SUFFICES ASSUME NEW j \in S, ~(i <= j) PROVE FALSE
    OBVIOUS
  <2>1. i \in Nat /\ j \in Nat /\ j < i
    BY <1>2
  <2>2. <<j, i>> \in R
    BY <2>1
  <2> QED
    BY <2>2, <1>3
<1> QED
  BY <1>4 DEF Lowest

LEMMA DispatchKeeps == ASSUME IInv, Dispatch PROVE IInv'
<1> DEFINE i == Lowest(Top.active)
           f == [NewFrame("run") EXCEPT !.active = Top.active, !.irq = i,
                                        !.called = alt_irq[i]]
<1>1. /\ Top \in Frames /\ Top.pc = "scan" /\ level > 0
      /\ Top.active # {} /\ Top.active \subseteq alt_irq_active
  BY TopIs DEF IInv, Dispatch, At, EntryMeans, EntryPcs
<1>2. Top.active \in SUBSET Irq /\ i \in Top.active
  BY <1>1, LowestIs DEF Frames
<1>3. i \in Irq /\ alt_irq[i] \in Entry /\ i \in alt_irq_active
  BY <1>1, <1>2 DEF IInv, IrqTypeOK
<1>4. NewFrame("run") \in Frames /\ NewFrame("run").saved = <<>>
      /\ NewFrame("run").pc = "run"
  BY NewFrameIs DEF Pcs
<1>5. /\ f \in Frames /\ f.pc = "run" /\ f.saved = <<>>
      /\ f.called = alt_irq[i]
  BY <1>2, <1>3, <1>4 DEF Frames
<1>6. Become(f) /\ level' = level
      /\ UNCHANGED <<request, ienable, pie, alt_irq_active, alt_priority_mask>>
      /\ alt_irq' = alt_irq
  BY DEF Dispatch, cpuVars, maskVars
<1>7. alt_irq[i].handler # Null /\ alt_irq[i].context = alt_irq[i].handler
  BY <1>1, <1>3 DEF IInv, TableMeans, At
<1> HIDE DEF f, i
<1>8. Top' = f /\ Below' /\ frame' \in [0 .. MaxLevel -> Frames]
  BY <1>5, <1>6, Stays, BecomeIs DEF IInv
<1>9. frame'[level] = f
      /\ \A l \in 0 .. MaxLevel : l # level => frame'[l] = frame[l]
  BY <1>5, <1>6, BecomeIs DEF IInv
<1>10. level \in 0 .. MaxLevel /\ MaxLevel \in Nat
  BY IrqAssumption DEF IInv, IrqTypeOK
<1>11. CalledMeans'
  BY <1>5, <1>6, <1>7, <1>9, <1>10 DEF IInv, CalledMeans, InHandler
<1>12. pie = FALSE
  BY <1>1, NotRunning DEF At
<1>13. PieMeans' /\ SavedMeans'
  BY <1>5, <1>6, <1>8, <1>12 DEF PieMeans, SavedMeans
<1>14. EntryMeans'
  BY <1>5, <1>8 DEF EntryMeans, EntryPcs, OpPcs, At
<1>15. TableMeans'
  BY <1>1, <1>5, <1>6, <1>8 DEF IInv, TableMeans, At
<1>16. IrqTypeOK'
  BY <1>6, <1>8 DEF IInv, IrqTypeOK
<1> QED
  BY <1>8, <1>11, <1>13, <1>14, <1>15, <1>16 DEF IInv

\* The end of a handler: the entry looks again.
LEMMA HandlerReturnKeeps == ASSUME IInv, HandlerReturn PROVE IInv'
<1> DEFINE f == [Top EXCEPT !.pc = "reload"]
<1>1. /\ Top \in Frames /\ At("run") /\ level > 0 /\ Top.saved = <<>>
      /\ Top.nested = FALSE
  BY TopIs DEF IInv, HandlerReturn, Frames
<1>2. /\ f \in Frames /\ f.pc = "reload" /\ f.saved = <<>>
      /\ f.called = Top.called
  BY <1>1 DEF Frames, Pcs
<1>3. Become(f) /\ level' = level
      /\ UNCHANGED <<request, ienable, pie, alt_irq_active, alt_priority_mask>>
      /\ alt_irq' = alt_irq
  BY DEF HandlerReturn, Goto, cpuVars, maskVars
<1> HIDE DEF f
<1>4. Top' = f /\ Below' /\ frame' \in [0 .. MaxLevel -> Frames]
  BY <1>2, <1>3, Stays, BecomeIs DEF IInv
<1>5. InHandler(level)
  BY <1>1 DEF At, InHandler, Top
<1>6. CalledMeans'
  BY <1>2, <1>3, <1>5, CalledKept
<1>7. pie = FALSE
  BY <1>1 DEF IInv, IrqTypeOK, PieMeans, Open
<1>8. PieMeans' /\ SavedMeans'
  BY <1>2, <1>3, <1>4, <1>7 DEF PieMeans, SavedMeans
<1>9. EntryMeans'
  BY <1>1, <1>2, <1>3, <1>4 DEF EntryMeans, EntryPcs, OpPcs, At
<1>10. TableMeans'
  BY <1>1, <1>2, <1>3, <1>4 DEF IInv, TableMeans, At
<1>11. IrqTypeOK'
  BY <1>3, <1>4 DEF IInv, IrqTypeOK
<1> QED
  BY <1>4, <1>6, <1>8, <1>9, <1>10, <1>11 DEF IInv

LEMMA ReloadKeeps == ASSUME IInv, Reload PROVE IInv'
<1>1. /\ Top \in Frames /\ Top.pc = "reload" /\ level > 0
      /\ level \in 0 .. MaxLevel /\ MaxLevel \in Nat
  BY TopIs, IrqAssumption DEF IInv, IrqTypeOK, Reload, At, EntryMeans, EntryPcs
<1>2. UNCHANGED <<request, ienable, maskVars, alt_irq>>
  BY DEF Reload
<1>3. pie = FALSE
  BY <1>1, NotRunning DEF At
\* Another pass.
<1>4. ASSUME Pending # {}, pie' = pie, level' = level,
             Become([Top EXCEPT !.active = Pending, !.pc = "scan"])
      PROVE  IInv'
  <2> DEFINE f == [Top EXCEPT !.active = Pending, !.pc = "scan"]
  <2>1. Pending \in SUBSET Irq
    BY DEF IInv, IrqTypeOK, Pending
  <2>2. /\ f \in Frames /\ f.pc = "scan" /\ f.active = Pending
        /\ f.saved = Top.saved /\ f.nested = Top.nested
    BY <1>1, <2>1 DEF Frames, Pcs
  <2>3. Become(f)
    BY <1>4
  <2> HIDE DEF f
  <2>4. UNCHANGED <<request, cpuVars, maskVars, alt_irq>>
    BY <1>2, <1>4 DEF cpuVars
  <2> QED
    BY <1>1, <1>4, <2>2, <2>3, <2>4, EntryGoesOn DEF EntryPcs
\* The end of the exception.
<1>5. ASSUME level' = level - 1, pie' = TRUE,
             frame' = [frame EXCEPT ![level] = NewFrame("run")]
      PROVE  IInv'
  <2>1. NewFrame("run") \in Frames
    BY NewFrameIs DEF Pcs
  <2>2. frame \in [0 .. MaxLevel -> Frames]
    BY DEF IInv, IrqTypeOK
  <2>3. /\ frame' \in [0 .. MaxLevel -> Frames]
        /\ \A l \in 0 .. level - 1 : frame'[l] = frame[l]
    BY <1>1, <1>5, <2>1, <2>2
  <2>4. level - 1 \in 0 .. level - 1 /\ level' \in 0 .. MaxLevel
    BY <1>1, <1>5
  <2>5. /\ Top' = frame[level - 1]
        /\ Top'.pc = "run" /\ Top'.saved = <<>> /\ Open'
    BY <1>5, <2>3, <2>4 DEF Top, Open, IInv, Below
  <2>6. Below'
    BY <1>1, <1>5, <2>3 DEF IInv, Below
  <2>7. CalledMeans'
    BY <1>1, <1>5, <2>3 DEF IInv, CalledMeans, InHandler
  <2>8. PieMeans' /\ SavedMeans'
    BY <2>5 DEF PieMeans, SavedMeans, At
  <2>9. EntryMeans'
    BY <2>5 DEF EntryMeans, EntryPcs, OpPcs, At
  <2>10. /\ ienable' = ienable /\ request' = request
         /\ alt_irq_active' = alt_irq_active /\ alt_irq' = alt_irq
         /\ alt_priority_mask' = alt_priority_mask
    BY <1>2 DEF maskVars
  <2>11. TableMeans'
    BY <1>1, <2>5, <2>10 DEF IInv, TableMeans, At
  <2>12. IrqTypeOK'
    BY <1>5, <2>3, <2>4, <2>10 DEF IInv, IrqTypeOK
  <2> QED
    BY <2>6, <2>7, <2>8, <2>9, <2>11, <2>12 DEF IInv
<1> QED
  BY <1>4, <1>5 DEF Reload

\* An exception finds interrupts on: what it leaves below itself is open.
LEMMA ExceptionKeeps == ASSUME IInv, Exception PROVE IInv'
<1> DEFINE f == NewFrame("irqtest")
<1>1. /\ level \in 0 .. MaxLevel /\ MaxLevel \in Nat /\ level < MaxLevel
      /\ frame \in [0 .. MaxLevel -> Frames]
      /\ level' = level + 1 /\ pie' = FALSE /\ Pending # {}
      /\ frame' = [frame EXCEPT ![level + 1] = f]
  BY IrqAssumption DEF IInv, IrqTypeOK, Exception
<1>2. /\ f \in Frames /\ f.pc = "irqtest" /\ f.saved = <<>>
  BY NewFrameIs DEF Pcs
<1>3. /\ UNCHANGED <<request, ienable, alt_irq_active, alt_priority_mask>>
      /\ alt_irq' = alt_irq
  BY DEF Exception, maskVars
<1>4. At("run") /\ Top.saved = <<>> /\ Open
  BY DEF IInv, PieMeans, Exception
<1> HIDE DEF f
<1>5. /\ frame' \in [0 .. MaxLevel -> Frames]
      /\ frame'[level + 1] = f
      /\ \A l \in 0 .. level : frame'[l] = frame[l]
  BY <1>1, <1>2
<1>6. Top' = f
  BY <1>1, <1>5 DEF Top
<1>7. Below'
  <2>1. ASSUME NEW l \in 0 .. level
        PROVE  /\ frame[l].pc = "run" /\ frame[l].saved = <<>>
               /\ l > 0 => frame[l].nested
    <3>1. CASE l = level
      BY <1>4, <3>1 DEF At, Top, Open
    <3>2. CASE l \in 0 .. level - 1
      BY <3>2 DEF IInv, Below
    <3> QED
      BY <1>1, <3>1, <3>2
  <2>2. \A l \in 0 .. level' - 1 : l \in 0 .. level
    BY <1>1
  <2> QED
    BY <1>5, <2>1, <2>2 DEF Below
<1>8. CalledMeans'
  <2>1. \A l \in 1 .. level' : l \in 1 .. level \/ l = level + 1
    BY <1>1
  <2> QED
    BY <1>2, <1>5, <2>1 DEF IInv, CalledMeans, InHandler
<1>9. PieMeans' /\ SavedMeans'
  BY <1>1, <1>2, <1>6 DEF PieMeans, SavedMeans
<1>10. EntryMeans'
  BY <1>1, <1>2, <1>6 DEF EntryMeans, EntryPcs, OpPcs, At
<1>11. TableMeans'
  BY <1>2, <1>3, <1>4, <1>6 DEF IInv, TableMeans, At
<1>12. IrqTypeOK'
  <2>1. level' \in 0 .. MaxLevel
    BY <1>1
  <2>2. pie' \in BOOLEAN
    BY <1>1
  <2> QED
    BY <1>3, <1>5, <2>1, <2>2 DEF IInv, IrqTypeOK
<1> QED
  BY <1>7, <1>8, <1>9, <1>10, <1>11, <1>12 DEF IInv

(***************************************************************************)
(* Lines that change under the code.                                       *)
(***************************************************************************)
LEMMA LinesKeep ==
  ASSUME IInv, UNCHANGED <<cpuVars, maskVars, alt_irq, level, frame>>,
         request' \in SUBSET Irq
  PROVE  IInv'
<1>1. /\ ienable' = ienable /\ pie' = pie /\ alt_irq_active' = alt_irq_active
      /\ alt_priority_mask' = alt_priority_mask
      /\ alt_irq' = alt_irq /\ level' = level /\ frame' = frame
  BY DEF cpuVars, maskVars
<1>2. Top' = Top
  BY <1>1 DEF Top
<1>3. Below' /\ CalledMeans' /\ TableMeans' /\ PieMeans' /\ SavedMeans'
  BY <1>1, <1>2 DEF IInv, Below, CalledMeans, InHandler, TableMeans, PieMeans,
                    SavedMeans, Open, At
<1>4. EntryMeans'
  BY <1>1, <1>2 DEF IInv, EntryMeans, EntryPcs, OpPcs, At
<1>5. IrqTypeOK'
  BY <1>1 DEF IInv, IrqTypeOK
<1> QED
  BY <1>3, <1>4, <1>5 DEF IInv

-----------------------------------------------------------------------------
(***************************************************************************)
(* The invariant of every run.                                             *)
(***************************************************************************)
LEMMA InitHolds == ASSUME Init PROVE IInv
<1>1. NewFrame("run") \in Frames /\ NewFrame("run").pc = "run"
      /\ NewFrame("run").saved = <<>>
  BY NewFrameIs DEF Pcs
<1>2. 0 \in 0 .. MaxLevel
  BY IrqAssumption
<1>3. frame \in [0 .. MaxLevel -> Frames] /\ Top = NewFrame("run") /\ level = 0
  BY <1>1, <1>2 DEF Init, Top
<1>4. NoEntry \in Entry /\ NoEntry.context = NoEntry.handler
  BY DEF NoEntry, Entry
<1>5. IrqTypeOK
  BY <1>2, <1>3, <1>4 DEF Init, IrqTypeOK
<1>6. Below /\ CalledMeans
  BY <1>3 DEF Below, CalledMeans
<1>7. PieMeans /\ SavedMeans
  BY <1>1, <1>3 DEF PieMeans, SavedMeans, At, Open
<1>8. EntryMeans
  BY <1>1, <1>3 DEF EntryMeans, EntryPcs, OpPcs, At
<1>9. TableMeans
  BY <1>1, <1>3, <1>4 DEF Init, TableMeans, At
<1> QED
  BY <1>5, <1>6, <1>7, <1>8, <1>9 DEF IInv

LEMMA NextKeeps == ASSUME IInv, Next PROVE IInv'
<1>1. CASE Calls
  <2>1. CASE DisableAll
    BY <2>1, DisableAllKeeps
  <2>2. CASE \E i \in Irq, isr \in Handlers \union {Null} : Register(i, isr)
    BY <2>2, OpBeginKeeps DEF Register
  <2>3. ASSUME NEW i \in Irq, EnableIrq(i) PROVE IInv'
    <3>1. alt_irq[i].handler \in Handlers \union {Null}
      BY DEF IInv, IrqTypeOK, Entry
    <3> QED
      BY <2>3, <3>1, OpBeginKeeps DEF EnableIrq
  <2>4. ASSUME NEW i \in Irq, DisableIrq(i) PROVE IInv'
    BY <2>4, OpBeginKeeps DEF DisableIrq
  <2> QED
    BY <1>1, <2>1, <2>2, <2>3, <2>4 DEF Calls
<1>2. CASE Operation
  BY <1>2, OpHandlerKeeps, OpContextKeeps, OpMaskKeeps, OpEndKeeps DEF Operation
<1>3. CASE EnableAll
  BY <1>3, EnableAllKeeps
<1>4. CASE Exception
  BY <1>4, ExceptionKeeps
<1>5. CASE Entering
  BY <1>5, IrqTestKeeps, ReadPendingKeeps, DispatchKeeps, ReloadKeeps DEF Entering
<1>6. CASE Serve
  BY <1>6, ServeKeeps
<1>7. CASE HandlerReturn
  BY <1>7, HandlerReturnKeeps
<1>8. CASE Interruptible
  BY <1>8, InterruptibleKeeps
<1>9. CASE NonInterruptible
  BY <1>9, NonInterruptibleKeeps
<1>10. ASSUME NEW i \in Irq, Raise(i) PROVE IInv'
  <2>1. request' \in SUBSET Irq
    BY <1>10 DEF Raise, IInv, IrqTypeOK
  <2> QED
    BY <1>10, <2>1, LinesKeep DEF Raise
<1>11. ASSUME NEW i \in Irq, Quiet(i) PROVE IInv'
  <2>1. request' \in SUBSET Irq
    BY <1>11 DEF Quiet, IInv, IrqTypeOK
  <2> QED
    BY <1>11, <2>1, LinesKeep DEF Quiet
<1> QED
  BY <1>1, <1>2, <1>3, <1>4, <1>5, <1>6, <1>7, <1>8, <1>9, <1>10, <1>11 DEF Next

LEMMA StutterKeeps == ASSUME IInv, UNCHANGED irqVars PROVE IInv'
<1>1. /\ UNCHANGED <<cpuVars, maskVars, alt_irq, level, frame>>
      /\ request' = request
  BY DEF irqVars
<1> QED
  BY <1>1, LinesKeep DEF IInv, IrqTypeOK

THEOREM IrqInvariant == Spec => []IInv
<1>1. IInv /\ [Next]_irqVars => IInv'
  BY NextKeeps, StutterKeeps
<1> QED
  BY <1>1, InitHolds, PTL DEF Spec

\* Every variable of the dispatch has its type: no level runs beyond the
\* bound, no mask leaves the lines there are.
THEOREM IrqTypeCorrect == Spec => []IrqTypeOK
<1>1. IInv => IrqTypeOK
  BY DEF IInv
<1> QED
  BY <1>1, IrqInvariant, PTL

\* No code inside a critical section is interrupted, whatever the depth to
\* which alt_irq_disable_all and alt_irq_enable_all are nested and whichever
\* handlers let others in.
THEOREM SectionsAreExclusive == Spec => []SectionsExclude
<1>1. IInv => SectionsExclude
  BY DEF IInv, Below, SectionsExclude
<1> QED
  BY <1>1, IrqInvariant, PTL

\* alt_irq_handler calls what was registered, with the context it was
\* registered with, for every interleaving of calls and interrupts.
THEOREM HandlersAreWhole == Spec => []CalledAsRegistered
<1>1. IInv => CalledAsRegistered
  BY DEF IInv, CalledMeans, CalledAsRegistered, Serving
<1> QED
  BY <1>1, IrqInvariant, PTL

-----------------------------------------------------------------------------
(***************************************************************************)
(* Priorities.  As long as no line is enabled while a handler lets others  *)
(* in, the masks follow the levels: a handler that lets others in leaves   *)
(* only the lines above its own, and what it found is what the handler     *)
(* below it had left.                                                      *)
(***************************************************************************)
\* What a level was entered under.
Under(l) == IF l > 1 THEN Above(frame[l - 1].irq) ELSE Irq

MaskMeans ==
  alt_priority_mask =
    IF level > 0 /\ Top.nested THEN Above(Top.irq) ELSE Under(level)

OldMeans == \A l \in 1 .. level : frame[l].nested => frame[l].old = Under(l)

EnabledMeans == ienable = alt_irq_active \intersect alt_priority_mask

Placed ==
  /\ Top.pc \in OpPcs => \A l \in 1 .. level : ~frame[l].nested
  /\ Top.pc \in EntryPcs => ~Top.nested
  /\ At("scan") => Top.active \subseteq Under(level)

Ordered ==
  \A l, m \in Serving : l < m => frame[m].irq < frame[l].irq

NestInv == MaskMeans /\ OldMeans /\ EnabledMeans /\ Placed /\ Ordered

\* Everything a level does but changing whom it lets in.
LEMMA NestStays ==
  ASSUME IInv, NestInv, NEW f \in Frames, Become(f), level' = level,
         f.nested = Top.nested, f.old = Top.old, f.irq = Top.irq,
         alt_priority_mask' = alt_priority_mask, EnabledMeans',
         f.pc \in OpPcs => \A l \in 1 .. level : ~frame[l].nested,
         f.pc \in EntryPcs => Top.nested = FALSE,
         f.pc = "scan" => f.active \subseteq Under(level),
         f.pc \in {"irqtest", "pending", "scan", "unknown"}
           \/ InHandler(level) \/ level = 0
  PROVE  NestInv'
<1>1. level \in 0 .. MaxLevel /\ MaxLevel \in Nat
  BY IrqAssumption DEF IInv, IrqTypeOK
<1>2. Top' = f /\ frame'[level] = f
  BY Stays, BecomeIs DEF IInv
<1>3. \A l \in 0 .. MaxLevel : l # level => frame'[l] = frame[l]
  BY BecomeIs DEF IInv
<1>4. \A l \in 0 .. level : Under(l)' = Under(l)
  <2> SUFFICES ASSUME NEW l \in 0 .. level PROVE Under(l)' = Under(l)
    OBVIOUS
  <2>1. l > 1 => frame'[l - 1] = frame[l - 1]
    BY <1>1, <1>3
  <2> QED
    BY <2>1 DEF Under
<1>5. \A l \in 1 .. level :
        /\ frame'[l].nested = frame[l].nested /\ frame'[l].old = frame[l].old
        /\ frame'[l].irq = frame[l].irq
  BY <1>1, <1>2, <1>3 DEF Top
<1>6. MaskMeans'
  <2>1. Under(level)' = Under(level)
    BY <1>1, <1>4
  <2> QED
    BY <1>2, <2>1 DEF NestInv, MaskMeans
<1>7. OldMeans'
  BY <1>1, <1>4, <1>5 DEF NestInv, OldMeans
<1>8. Placed'
  <2>1. Under(level)' = Under(level)
    BY <1>1, <1>4
  <2> QED
    BY <1>2, <1>5, <2>1 DEF Placed, At
<1>9. Serving' \subseteq Serving
  <2> SUFFICES ASSUME NEW l \in 1 .. level, InHandler(l)' PROVE InHandler(l)
    BY DEF Serving
  <2>1. CASE l = level
    BY <1>1, <1>2, <2>1 DEF InHandler
  <2>2. CASE l # level
    BY <1>1, <1>3, <2>2 DEF InHandler
  <2> QED
    BY <2>1, <2>2
<1>10. Ordered'
  BY <1>5, <1>9 DEF NestInv, Ordered, Serving
<1> QED
  BY <1>6, <1>7, <1>8, <1>10 DEF NestInv

\* Steps that touch no mask and begin no entry.
LEMMA NestRuns ==
  ASSUME IInv, NestInv, NEW f \in Frames, Become(f), level' = level,
         f.nested = Top.nested, f.old = Top.old, f.irq = Top.irq,
         UNCHANGED <<ienable, alt_irq_active, alt_priority_mask>>,
         f.pc \in OpPcs => \A l \in 1 .. level : ~frame[l].nested,
         f.pc = "reload" => Top.nested = FALSE,
         f.pc \in OpPcs \union {"run", "reload"},
         At("run") \/ Top.pc \in OpPcs
  PROVE  NestInv'
<1>1. EnabledMeans'
  BY DEF NestInv, EnabledMeans
<1>2. InHandler(level) \/ level = 0
  BY DEF At, InHandler, Top, OpPcs, IInv, IrqTypeOK
<1>3. f.pc \in EntryPcs => f.pc = "reload"
  BY DEF EntryPcs, OpPcs
<1>4. f.pc # "scan"
  BY DEF OpPcs
<1> QED
  BY <1>1, <1>2, <1>3, <1>4, NestStays

\* Steps of the entry that read what is pending.
LEMMA NestScans ==
  ASSUME IInv, NestInv, NEW f \in Frames, Become(f), level' = level,
         f.nested = Top.nested, f.old = Top.old, f.irq = Top.irq,
         UNCHANGED <<ienable, alt_irq_active, alt_priority_mask>>,
         f.pc \in {"pending", "scan", "unknown"},
         f.pc = "scan" => f.active = Pending,
         Top.pc \in EntryPcs
  PROVE  NestInv'
<1>1. EnabledMeans'
  BY DEF NestInv, EnabledMeans
<1>2. Top.nested = FALSE
  BY TopIs DEF NestInv, Placed, IInv, Frames
<1>3. Pending \subseteq Under(level)
  BY <1>2 DEF NestInv, MaskMeans, EnabledMeans, Pending
<1>4. f.pc \notin OpPcs
  BY DEF OpPcs
<1> QED
  BY <1>1, <1>2, <1>3, <1>4, NestStays

\* At the end of the mask's update no handler lets others in, so the mask the
\* operation writes, which leaves the priorities out, is the right one.
LEMMA NestOpMask == ASSUME IInv, NestInv, OpMask PROVE NestInv'
<1> DEFINE f == [Top EXCEPT !.pc = "op_end"]
<1>1. Top \in Frames /\ Top.pc = "op_mask"
  BY TopIs DEF IInv, OpMask, At
<1>2. /\ f \in Frames /\ f.pc = "op_end"
      /\ f.nested = Top.nested /\ f.old = Top.old /\ f.irq = Top.irq
  BY <1>1 DEF Frames, Pcs
<1>3. /\ Become(f) /\ level' = level /\ alt_priority_mask' = alt_priority_mask
      /\ alt_irq_active' = ActiveAfter(Top) /\ ienable' = alt_irq_active'
  BY DEF OpMask, Goto
<1> HIDE DEF f
<1>4. \A l \in 1 .. level : ~frame[l].nested
  BY <1>1 DEF NestInv, Placed, OpPcs
<1>5. level \in Nat
  BY IrqAssumption DEF IInv, IrqTypeOK
<1>6. ~(level > 0 /\ Top.nested)
  BY <1>4, <1>5 DEF Top
<1>7. ~(level > 1)
  <2> SUFFICES ASSUME level > 1 PROVE FALSE
    OBVIOUS
  <2>1. level - 1 \in 0 .. level - 1 /\ level - 1 \in 1 .. level /\ level - 1 > 0
    BY <1>5
  <2> QED
    BY <1>4, <2>1 DEF IInv, Below
<1>8. alt_priority_mask = Irq
  BY <1>6, <1>7 DEF NestInv, MaskMeans, Under
<1>9. alt_irq_active' \subseteq Irq
  BY <1>1, <1>3 DEF ActiveAfter, IInv, IrqTypeOK, Frames
<1>10. EnabledMeans'
  BY <1>3, <1>8, <1>9 DEF EnabledMeans
<1>11. InHandler(level) \/ level = 0
  BY <1>1, <1>5 DEF InHandler, Top
<1> QED
  BY <1>2, <1>3, <1>4, <1>10, <1>11, NestStays DEF EntryPcs

\* An operation is begun only where no handler lets others in.
LEMMA NestOpBegin ==
  ASSUME IInv, NestInv, EnableNested = FALSE,
         NEW i \in Irq, NEW isr \in Handlers \union {Null},
         NEW pc \in {"op_handler", "op_mask"}, OpBegin(pc, i, isr)
  PROVE  NestInv'
<1> DEFINE f == [Top EXCEPT !.saved = Append(@, pie), !.target = i,
                            !.isr = isr, !.pc = pc]
<1>1. Top \in Frames /\ Append(Top.saved, pie) \in Seq(BOOLEAN)
  BY TopIs, AppendIs DEF IInv, IrqTypeOK
<1>2. /\ f \in Frames /\ f.pc = pc
      /\ f.nested = Top.nested /\ f.old = Top.old /\ f.irq = Top.irq
  BY <1>1 DEF Frames, Pcs
<1>3. /\ Become(f) /\ level' = level /\ At("run")
      /\ UNCHANGED <<ienable, alt_irq_active, alt_priority_mask>>
  BY DEF OpBegin, maskVars
<1> HIDE DEF f
<1>4. \A l \in 1 .. level : ~frame[l].nested
  BY DEF OpBegin, MayEnable
<1> QED
  BY <1>2, <1>3, <1>4, NestRuns DEF OpPcs

\* The other steps of the code that touch no mask.
LEMMA NestPlain ==
  ASSUME IInv, NestInv,
         \/ DisableAll \/ EnableAll \/ Serve \/ HandlerReturn
         \/ OpHandler \/ OpContext \/ OpEnd
  PROVE  NestInv'
<1>0. Top \in Frames
  BY TopIs DEF IInv
<1>1. CASE DisableAll
  <2> DEFINE f == [Top EXCEPT !.saved = Append(@, pie)]
  <2>1. Append(Top.saved, pie) \in Seq(BOOLEAN)
    BY <1>0, AppendIs DEF IInv, IrqTypeOK
  <2>2. /\ f \in Frames /\ f.pc = Top.pc
        /\ f.nested = Top.nested /\ f.old = Top.old /\ f.irq = Top.irq
    BY <1>0, <2>1 DEF Frames
  <2>3. /\ Become(f) /\ level' = level /\ At("run")
        /\ UNCHANGED <<ienable, alt_irq_active, alt_priority_mask>>
    BY <1>1 DEF DisableAll, maskVars
  <2> HIDE DEF f
  <2> QED
    BY <2>2, <2>3, NestRuns DEF At, OpPcs
<1>2. CASE EnableAll
  <2> DEFINE f == [Top EXCEPT !.saved = Outer(Top)]
  <2>1. Outer(Top) \in Seq(BOOLEAN)
    BY <1>0, <1>2, OuterIs DEF EnableAll
  <2>2. /\ f \in Frames /\ f.pc = Top.pc
        /\ f.nested = Top.nested /\ f.old = Top.old /\ f.irq = Top.irq
    BY <1>0, <2>1 DEF Frames
  <2>3. /\ Become(f) /\ level' = level /\ At("run")
        /\ UNCHANGED <<ienable, alt_irq_active, alt_priority_mask>>
    BY <1>2 DEF EnableAll, maskVars
  <2> HIDE DEF f
  <2> QED
    BY <2>2, <2>3, NestRuns DEF At, OpPcs
<1>3. CASE Serve
  <2> DEFINE f == [Top EXCEPT !.served = TRUE]
  <2>1. /\ f \in Frames /\ f.pc = Top.pc
        /\ f.nested = Top.nested /\ f.old = Top.old /\ f.irq = Top.irq
    BY <1>0 DEF Frames
  <2>2. /\ Become(f) /\ level' = level /\ At("run")
        /\ UNCHANGED <<ienable, alt_irq_active, alt_priority_mask>>
    BY <1>3 DEF Serve, cpuVars, maskVars
  <2> HIDE DEF f
  <2> QED
    BY <2>1, <2>2, NestRuns DEF At, OpPcs
<1>4. CASE HandlerReturn
  <2> DEFINE f == [Top EXCEPT !.pc = "reload"]
  <2>1. /\ f \in Frames /\ f.pc = "reload"
        /\ f.nested = Top.nested /\ f.old = Top.old /\ f.irq = Top.irq
    BY <1>0 DEF Frames, Pcs
  <2>2. /\ Become(f) /\ level' = level /\ At("run") /\ ~Top.nested
        /\ UNCHANGED <<ienable, alt_irq_active, alt_priority_mask>>
    BY <1>4 DEF HandlerReturn, Goto, cpuVars, maskVars
  <2>3. Top.nested = FALSE
    BY <1>0, <2>2 DEF Frames
  <2> HIDE DEF f
  <2> QED
    BY <2>1, <2>2, <2>3, NestRuns DEF OpPcs
<1>5. ASSUME NEW pc \in {"op_context", "op_mask"}, Top.pc \in OpPcs, Goto(pc),
             level' = level,
             UNCHANGED <<ienable, alt_irq_active, alt_priority_mask>>
      PROVE  NestInv'
  <2> DEFINE f == [Top EXCEPT !.pc = pc]
  <2>1. /\ f \in Frames /\ f.pc = pc
        /\ f.nested = Top.nested /\ f.old = Top.old /\ f.irq = Top.irq
    BY <1>0 DEF Frames, Pcs
  <2>2. Become(f)
    BY <1>5 DEF Goto
  <2>3. \A l \in 1 .. level : ~frame[l].nested
    BY <1>5 DEF NestInv, Placed
  <2> HIDE DEF f
  <2> QED
    BY <1>5, <2>1, <2>2, <2>3, NestRuns DEF OpPcs
<1>6. CASE OpHandler
  BY <1>5, <1>6 DEF OpHandler, At, OpPcs, cpuVars, maskVars
<1>7. CASE OpContext
  BY <1>5, <1>7 DEF OpContext, At, OpPcs, cpuVars, maskVars
<1>8. CASE OpEnd
  <2> DEFINE f == [Top EXCEPT !.saved = Outer(Top), !.pc = "run",
                              !.target = 0, !.isr = Null]
  <2>1. Top.pc = "op_end" /\ Top.saved # <<>> /\ 0 \in Irq
    BY <1>8, IrqAssumption DEF OpEnd, At, IInv, EntryMeans, OpPcs, Irq
  <2>2. Outer(Top) \in Seq(BOOLEAN)
    BY <1>0, <2>1, OuterIs
  <2>3. /\ f \in Frames /\ f.pc = "run"
        /\ f.nested = Top.nested /\ f.old = Top.old /\ f.irq = Top.irq
    BY <1>0, <2>1, <2>2 DEF Frames, Pcs
  <2>4. /\ Become(f) /\ level' = level
        /\ UNCHANGED <<ienable, alt_irq_active, alt_priority_mask>>
    BY <1>8 DEF OpEnd, maskVars
  <2> HIDE DEF f
  <2> QED
    BY <2>1, <2>3, <2>4, NestRuns DEF OpPcs
<1> QED
  BY <1>1, <1>2, <1>3, <1>4, <1>6, <1>7, <1>8

\* A handler that lets others in leaves those above its own line, and keeps
\* what it found to put it back.
LEMMA NestInterruptible == ASSUME IInv, NestInv, Interruptible PROVE NestInv'
<1> DEFINE f == [Top EXCEPT !.nested = TRUE, !.old = alt_priority_mask]
<1>1. /\ Top \in Frames /\ alt_priority_mask \in SUBSET Irq
      /\ level \in 0 .. MaxLevel /\ MaxLevel \in Nat
  BY TopIs, IrqAssumption DEF IInv, IrqTypeOK
<1>2. /\ f \in Frames /\ f.pc = Top.pc /\ f.irq = Top.irq
      /\ f.nested = TRUE /\ f.old = alt_priority_mask
  BY <1>1 DEF Frames
<1>3. /\ Become(f) /\ level' = level /\ At("run") /\ level > 0 /\ ~Top.nested
      /\ alt_priority_mask' = Above(Top.irq)
      /\ alt_irq_active' = alt_irq_active
      /\ ienable' = alt_irq_active \intersect alt_priority_mask'
  BY DEF Interruptible
<1> HIDE DEF f
<1>4. Top' = f /\ frame'[level] = f
      /\ \A l \in 0 .. MaxLevel : l # level => frame'[l] = frame[l]
  BY <1>2, <1>3, Stays, BecomeIs DEF IInv
<1>5. \A l \in 0 .. level : Under(l)' = Under(l)
  <2> SUFFICES ASSUME NEW l \in 0 .. level PROVE Under(l)' = Under(l)
    OBVIOUS
  <2>1. l > 1 => frame'[l - 1] = frame[l - 1]
    BY <1>1, <1>4
  <2> QED
    BY <2>1 DEF Under
<1>6. MaskMeans' /\ EnabledMeans'
  BY <1>2, <1>3, <1>4 DEF MaskMeans, EnabledMeans
<1>7. OldMeans'
  <2>1. alt_priority_mask = Under(level)
    BY <1>3 DEF NestInv, MaskMeans
  <2>2. ASSUME NEW l \in 1 .. level, frame'[l].nested
        PROVE  frame'[l].old = Under(l)'
    <3>1. CASE l = level
      BY <1>1, <1>2, <1>4, <1>5, <2>1, <3>1
    <3>2. CASE l # level
      BY <1>1, <1>4, <1>5, <2>2, <3>2 DEF NestInv, OldMeans
    <3> QED
      BY <3>1, <3>2
  <2> QED
    BY <1>3, <2>2 DEF OldMeans
<1>8. Placed'
  BY <1>2, <1>3, <1>4 DEF Placed, At, OpPcs, EntryPcs
<1>9. Ordered'
  <2>1. \A l \in 1 .. level :
          frame'[l].irq = frame[l].irq /\ frame'[l].pc = frame[l].pc
    BY <1>1, <1>2, <1>4 DEF Top
  <2> QED
    BY <1>3, <2>1 DEF NestInv, Ordered, Serving, InHandler
<1> QED
  BY <1>6, <1>7, <1>8, <1>9 DEF NestInv

LEMMA NestNonInterruptible ==
  ASSUME IInv, NestInv, NonInterruptible PROVE NestInv'
<1> DEFINE f == [Top EXCEPT !.nested = FALSE]
<1>1. /\ Top \in Frames /\ level \in 0 .. MaxLevel /\ MaxLevel \in Nat
  BY TopIs, IrqAssumption DEF IInv, IrqTypeOK
<1>2. /\ f \in Frames /\ f.pc = Top.pc /\ f.irq = Top.irq
      /\ f.nested = FALSE
  BY <1>1 DEF Frames
<1>3. /\ Become(f) /\ level' = level /\ At("run") /\ level > 0 /\ Top.nested
      /\ alt_priority_mask' = Top.old
      /\ alt_irq_active' = alt_irq_active
      /\ ienable' = alt_irq_active \intersect alt_priority_mask'
  BY DEF NonInterruptible, MaskBack
<1> HIDE DEF f
<1>4. Top' = f /\ frame'[level] = f
      /\ \A l \in 0 .. MaxLevel : l # level => frame'[l] = frame[l]
  BY <1>2, <1>3, Stays, BecomeIs DEF IInv
<1>5. \A l \in 0 .. level : Under(l)' = Under(l)
  <2> SUFFICES ASSUME NEW l \in 0 .. level PROVE Under(l)' = Under(l)
    OBVIOUS
  <2>1. l > 1 => frame'[l - 1] = frame[l - 1]
    BY <1>1, <1>4
  <2> QED
    BY <2>1 DEF Under
<1>6. level \in 1 .. level /\ level \in 0 .. level
  BY <1>1, <1>3
<1>7. Top.old = Under(level)
  BY <1>3, <1>6 DEF NestInv, OldMeans, Top
<1>8. MaskMeans' /\ EnabledMeans'
  BY <1>2, <1>3, <1>4, <1>5, <1>6, <1>7 DEF MaskMeans, EnabledMeans
<1>9. OldMeans'
  <2>1. ASSUME NEW l \in 1 .. level, frame'[l].nested
        PROVE  frame'[l].old = Under(l)'
    <3>1. CASE l = level
      BY <1>2, <1>4, <2>1, <3>1
    <3>2. CASE l # level
      BY <1>1, <1>4, <1>5, <2>1, <3>2 DEF NestInv, OldMeans
    <3> QED
      BY <3>1, <3>2
  <2> QED
    BY <1>3, <2>1 DEF OldMeans
<1>10. Placed'
  BY <1>2, <1>3, <1>4 DEF Placed, At, OpPcs, EntryPcs
<1>11. Ordered'
  <2>1. \A l \in 1 .. level :
          frame'[l].irq = frame[l].irq /\ frame'[l].pc = frame[l].pc
    BY <1>1, <1>2, <1>4 DEF Top
  <2> QED
    BY <1>3, <2>1 DEF NestInv, Ordered, Serving, InHandler
<1> QED
  BY <1>8, <1>9, <1>10, <1>11 DEF NestInv

\* The line that is found is above every line being served: the mask let no
\* other in.
LEMMA NestDispatch == ASSUME IInv, NestInv, Dispatch PROVE NestInv'
<1> DEFINE i == Lowest(Top.active)
           f == [NewFrame("run") EXCEPT !.active = Top.active, !.irq = i,
                                        !.called = alt_irq[i]]
<1>1. /\ Top \in Frames /\ Top.pc = "scan" /\ level > 0
      /\ Top.active # {} /\ Top.active \subseteq Under(level)
      /\ level \in 0 .. MaxLevel /\ MaxLevel \in Nat
  BY TopIs, IrqAssumption
     DEF IInv, IrqTypeOK, NestInv, Placed, Dispatch, At, EntryMeans, EntryPcs
<1>2. Top.active \in SUBSET Irq /\ i \in Top.active
  BY <1>1, LowestIs DEF Frames
<1>3. i \in Irq /\ alt_irq[i] \in Entry
  BY <1>2 DEF IInv, IrqTypeOK
<1>4. NewFrame("run") \in Frames /\ NewFrame("run").nested = FALSE
      /\ NewFrame("run").pc = "run"
  BY NewFrameIs DEF Pcs
<1>5. /\ f \in Frames /\ f.pc = "run" /\ f.nested = FALSE /\ f.irq = i
  BY <1>2, <1>3, <1>4 DEF Frames
<1>6. /\ Become(f) /\ level' = level
      /\ UNCHANGED <<ienable, alt_irq_active, alt_priority_mask>>
  BY DEF Dispatch, cpuVars, maskVars
<1>7. i \in Under(level)
  BY <1>1, <1>2
<1> HIDE DEF f, i
<1>8. Top' = f /\ frame'[level] = f
      /\ \A l \in 0 .. MaxLevel : l # level => frame'[l] = frame[l]
  BY <1>5, <1>6, Stays, BecomeIs DEF IInv
<1>9. \A l \in 0 .. level : Under(l)' = Under(l)
  <2> SUFFICES ASSUME NEW l \in 0 .. level PROVE Under(l)' = Under(l)
    OBVIOUS
  <2>1. l > 1 => frame'[l - 1] = frame[l - 1]
    BY <1>1, <1>8
  <2> QED
    BY <2>1 DEF Under
<1>10. EnabledMeans'
  BY <1>6 DEF NestInv, EnabledMeans
<1>11. Top.nested = FALSE
  BY <1>1 DEF NestInv, Placed, EntryPcs, Frames
<1>12. level \in 0 .. level
  BY <1>1
<1>13. MaskMeans'
  BY <1>5, <1>6, <1>8, <1>9, <1>11, <1>12 DEF NestInv, MaskMeans
<1>14. OldMeans'
  <2>1. ASSUME NEW l \in 1 .. level, frame'[l].nested
        PROVE  frame'[l].old = Under(l)'
    <3>1. CASE l = level
      BY <1>5, <1>8, <2>1, <3>1
    <3>2. CASE l # level
      BY <1>1, <1>8, <1>9, <2>1, <3>2 DEF NestInv, OldMeans
    <3> QED
      BY <3>1, <3>2
  <2> QED
    BY <1>6, <2>1 DEF OldMeans
<1>15. Placed'
  BY <1>5, <1>8 DEF Placed, At, OpPcs, EntryPcs
<1>16. Ordered'
  <2> SUFFICES ASSUME NEW l \in Serving', NEW m \in Serving', l < m
               PROVE  frame'[m].irq < frame'[l].irq
    BY DEF Ordered
  <2>1. l \in 1 .. level /\ m \in 1 .. level /\ l # level /\ l \in 0 .. MaxLevel
    BY <1>1, <1>6 DEF Serving
  <2>2. frame'[l] = frame[l] /\ l \in Serving
    BY <1>6, <1>8, <2>1 DEF Serving, InHandler
  <2>3. CASE m # level
    <3>1. m \in 0 .. MaxLevel
      BY <1>1, <2>1
    <3>2. frame'[m] = frame[m] /\ m \in Serving
      BY <1>6, <1>8, <2>1, <2>3, <3>1 DEF Serving, InHandler
    <3> QED
      BY <2>2, <3>2 DEF NestInv, Ordered
  <2>4. CASE m = level
    <3>1. level > 1 /\ level - 1 \in 0 .. MaxLevel /\ level - 1 \in 1 .. level
          /\ level - 1 \in 0 .. level - 1
      BY <1>1, <2>1, <2>4
    <3>2. frame[level - 1].irq \in Irq /\ frame[l].irq \in Irq
      BY <2>1, <3>1 DEF IInv, IrqTypeOK, Frames
    <3>3. i < frame[level - 1].irq
      BY <1>7, <3>1, <3>2 DEF Under, Above, Irq
    <3>4. level - 1 \in Serving
      BY <3>1 DEF IInv, Below, Serving, InHandler
    <3>5. l = level - 1 \/ l < level - 1
      BY <1>1, <2>1
    <3>6. frame[level - 1].irq <= frame[l].irq
      BY <2>2, <3>2, <3>4, <3>5 DEF NestInv, Ordered, Irq
    <3> QED
      BY <1>3, <1>5, <1>8, <2>2, <2>4, <3>2, <3>3, <3>6 DEF Irq
  <2> QED
    BY <2>3, <2>4
<1> QED
  BY <1>10, <1>13, <1>14, <1>15, <1>16 DEF NestInv

\* A new level is entered under what the one below it had left.
LEMMA NestException == ASSUME IInv, NestInv, Exception PROVE NestInv'
<1> DEFINE f == NewFrame("irqtest")
<1>1. /\ level \in 0 .. MaxLevel /\ MaxLevel \in Nat /\ level < MaxLevel
      /\ frame \in [0 .. MaxLevel -> Frames]
      /\ level' = level + 1
      /\ frame' = [frame EXCEPT ![level + 1] = f]
      /\ UNCHANGED <<ienable, alt_irq_active, alt_priority_mask>>
  BY IrqAssumption DEF IInv, IrqTypeOK, Exception, maskVars
<1>2. f \in Frames /\ f.pc = "irqtest" /\ f.nested = FALSE
  BY NewFrameIs DEF Pcs
<1>3. At("run") /\ Open
  BY DEF IInv, PieMeans, Exception
<1> HIDE DEF f
<1>4. /\ frame'[level + 1] = f
      /\ \A l \in 0 .. level : frame'[l] = frame[l]
  BY <1>1, <1>2
<1>5. Top' = f
  BY <1>1, <1>4 DEF Top
<1>6. \A l \in 0 .. level : Under(l)' = Under(l)
  <2> SUFFICES ASSUME NEW l \in 0 .. level PROVE Under(l)' = Under(l)
    OBVIOUS
  <2>1. l > 1 => frame'[l - 1] = frame[l - 1]
    BY <1>1, <1>4
  <2> QED
    BY <2>1 DEF Under
<1>7. MaskMeans'
  <2>1. CASE level = 0
    <3>1. alt_priority_mask = Irq
      BY <2>1 DEF NestInv, MaskMeans, Under
    <3>2. ~(level' > 1)
      BY <1>1, <2>1
    <3> QED
      BY <1>1, <1>2, <1>5, <3>1, <3>2 DEF MaskMeans, Under
  <2>2. CASE level > 0
    <3>1. alt_priority_mask = Above(frame[level].irq)
      BY <1>3, <2>2 DEF NestInv, MaskMeans, Open, Top
    <3>2. level' > 1 /\ level' - 1 = level /\ frame'[level] = frame[level]
      BY <1>1, <1>4, <2>2
    <3> QED
      BY <1>1, <1>2, <1>5, <3>1, <3>2 DEF MaskMeans, Under
  <2> QED
    BY <1>1, <2>1, <2>2
<1>8. OldMeans'
  <2>1. ASSUME NEW l \in 1 .. level', frame'[l].nested
        PROVE  frame'[l].old = Under(l)'
    <3>1. l # level + 1
      BY <1>2, <1>4, <2>1
    <3>2. l \in 1 .. level /\ l \in 0 .. level
      BY <1>1, <3>1
    <3> QED
      BY <1>4, <1>6, <2>1, <3>2 DEF NestInv, OldMeans
  <2> QED
    BY <2>1 DEF OldMeans
<1>9. EnabledMeans'
  BY <1>1 DEF NestInv, EnabledMeans
<1>10. Placed'
  BY <1>2, <1>5 DEF Placed, At, OpPcs
<1>11. Serving' \subseteq Serving
  <2> SUFFICES ASSUME NEW l \in 1 .. level', InHandler(l)' PROVE l \in Serving
    BY DEF Serving
  <2>1. l # level + 1
    BY <1>2, <1>4 DEF InHandler
  <2>2. l \in 1 .. level /\ l \in 0 .. level
    BY <1>1, <2>1
  <2> QED
    BY <1>4, <2>2 DEF Serving, InHandler
<1>12. \A l \in Serving : frame'[l] = frame[l]
  BY <1>1, <1>4 DEF Serving
<1>13. Ordered'
  BY <1>11, <1>12 DEF NestInv, Ordered
<1> QED
  BY <1>7, <1>8, <1>9, <1>10, <1>13 DEF NestInv

LEMMA NestReload == ASSUME IInv, NestInv, Reload PROVE NestInv'
<1>1. /\ Top \in Frames /\ Top.pc = "reload" /\ level > 0
      /\ level \in 0 .. MaxLevel /\ MaxLevel \in Nat
  BY TopIs, IrqAssumption DEF IInv, IrqTypeOK, Reload, At, EntryMeans, EntryPcs
<1>2. UNCHANGED <<ienable, alt_irq_active, alt_priority_mask>>
  BY DEF Reload, maskVars
<1>3. ASSUME level' = level,
             Become([Top EXCEPT !.active = Pending, !.pc = "scan"])
      PROVE  NestInv'
  <2> DEFINE f == [Top EXCEPT !.active = Pending, !.pc = "scan"]
  <2>1. Pending \in SUBSET Irq
    BY DEF IInv, IrqTypeOK, Pending
  <2>2. /\ f \in Frames /\ f.pc = "scan" /\ f.active = Pending
        /\ f.nested = Top.nested /\ f.old = Top.old /\ f.irq = Top.irq
    BY <1>1, <2>1 DEF Frames, Pcs
  <2>3. Become(f)
    BY <1>3
  <2> HIDE DEF f
  <2> QED
    BY <1>1, <1>2, <1>3, <2>2, <2>3, NestScans DEF EntryPcs
<1>4. ASSUME level' = level - 1,
             frame' = [frame EXCEPT ![level] = NewFrame("run")]
      PROVE  NestInv'
  <2>1. NewFrame("run") \in Frames
    BY NewFrameIs DEF Pcs
  <2>2. frame \in [0 .. MaxLevel -> Frames]
    BY DEF IInv, IrqTypeOK
  <2>3. \A l \in 0 .. level - 1 : frame'[l] = frame[l]
    BY <1>1, <1>4, <2>1, <2>2
  <2>4. level - 1 \in 0 .. level - 1
    BY <1>1
  <2>5. Top' = frame[level - 1] /\ Top'.pc = "run" /\ Open'
    BY <1>4, <2>3, <2>4 DEF Top, Open, IInv, Below
  <2>6. \A l \in 0 .. level - 1 : Under(l)' = Under(l)
    <3> SUFFICES ASSUME NEW l \in 0 .. level - 1 PROVE Under(l)' = Under(l)
      OBVIOUS
    <3>1. l > 1 => frame'[l - 1] = frame[l - 1]
      BY <1>1, <2>3
    <3> QED
      BY <3>1 DEF Under
  <2>7. Top.nested = FALSE
    BY <1>1 DEF NestInv, Placed, EntryPcs, Frames
  <2>8. MaskMeans'
    <3>1. alt_priority_mask = Under(level)
      BY <2>7 DEF NestInv, MaskMeans
    <3>2. CASE level > 1
      <4>1. level' > 0 /\ Top'.nested
        BY <1>1, <1>4, <2>5, <3>2 DEF Open
      <4> QED
        BY <1>2, <2>5, <3>1, <3>2, <4>1 DEF MaskMeans, Under
    <3>3. CASE level = 1
      <4>1. ~(level' > 0) /\ ~(level' > 1)
        BY <1>4, <3>3
      <4> QED
        BY <1>2, <3>1, <3>3, <4>1 DEF MaskMeans, Under
    <3> QED
      BY <1>1, <3>2, <3>3
  <2>9. OldMeans'
    <3>1. \A l \in 1 .. level' : l \in 1 .. level /\ l \in 0 .. level - 1
      BY <1>1, <1>4
    <3> QED
      BY <2>3, <2>6, <3>1 DEF NestInv, OldMeans
  <2>10. EnabledMeans'
    BY <1>2 DEF NestInv, EnabledMeans
  <2>11. Placed'
    BY <2>5 DEF Placed, At, OpPcs, EntryPcs
  <2>12. \A l \in Serving' : l \in Serving /\ frame'[l] = frame[l]
    <3>1. \A l \in 1 .. level' : l \in 1 .. level /\ l \in 0 .. level - 1
      BY <1>1, <1>4
    <3> QED
      BY <2>3, <3>1 DEF Serving, InHandler
  <2>13. Ordered'
    BY <2>12 DEF NestInv, Ordered
  <2> QED
    BY <2>8, <2>9, <2>10, <2>11, <2>13 DEF NestInv
<1> QED
  BY <1>3, <1>4 DEF Reload

LEMMA NestEntry ==
  ASSUME IInv, NestInv, IrqTest \/ ReadPending PROVE NestInv'
<1>0. Top \in Frames
  BY TopIs DEF IInv
<1>1. CASE IrqTest
  <2> DEFINE f == [Top EXCEPT !.pc = IF Pending # {} THEN "pending"
                                                     ELSE "unknown"]
  <2>1. Top.pc = "irqtest"
    BY <1>1 DEF IrqTest, At
  <2>2. /\ f \in Frames /\ f.pc \in {"pending", "unknown"}
        /\ f.nested = Top.nested /\ f.old = Top.old /\ f.irq = Top.irq
    BY <1>0 DEF Frames, Pcs
  <2>3. /\ Become(f) /\ level' = level
        /\ UNCHANGED <<ienable, alt_irq_active, alt_priority_mask>>
    BY <1>1, <2>1 DEF IrqTest, Goto, cpuVars, maskVars
  <2> HIDE DEF f
  <2> QED
    BY <2>1, <2>2, <2>3, NestScans DEF EntryPcs
<1>2. CASE ReadPending
  <2> DEFINE f == [Top EXCEPT !.active = Pending, !.pc = "scan"]
  <2>1. Top.pc = "pending" /\ Pending \in SUBSET Irq
    BY <1>2 DEF ReadPending, At, IInv, IrqTypeOK, Pending
  <2>2. /\ f \in Frames /\ f.pc = "scan" /\ f.active = Pending
        /\ f.nested = Top.nested /\ f.old = Top.old /\ f.irq = Top.irq
    BY <1>0, <2>1 DEF Frames, Pcs
  <2>3. /\ Become(f) /\ level' = level
        /\ UNCHANGED <<ienable, alt_irq_active, alt_priority_mask>>
    BY <1>2 DEF ReadPending, cpuVars, maskVars
  <2> HIDE DEF f
  <2> QED
    BY <2>1, <2>2, <2>3, NestScans DEF EntryPcs
<1> QED
  BY <1>1, <1>2

LEMMA NestLines ==
  ASSUME NestInv, UNCHANGED <<cpuVars, maskVars, alt_irq, level, frame>>
  PROVE  NestInv'
BY DEF cpuVars, maskVars, NestInv, MaskMeans, OldMeans, EnabledMeans, Placed,
       Ordered, Serving, InHandler, Under, At, Top

LEMMA NestNext ==
  ASSUME EnableNested = FALSE, IInv, NestInv, [Next]_irqVars
  PROVE  NestInv'
<1>1. CASE Calls
  <2>1. CASE DisableAll
    BY <2>1, NestPlain
  <2>2. CASE \E i \in Irq, isr \in Handlers \union {Null} : Register(i, isr)
    BY <2>2, NestOpBegin DEF Register
  <2>3. ASSUME NEW i \in Irq, EnableIrq(i) \/ DisableIrq(i) PROVE NestInv'
    <3>1. alt_irq[i].handler \in Handlers \union {Null}
      BY DEF IInv, IrqTypeOK, Entry
    <3> QED
      BY <2>3, <3>1, NestOpBegin DEF EnableIrq, DisableIrq
  <2> QED
    BY <1>1, <2>1, <2>2, <2>3 DEF Calls
<1>2. CASE Operation \/ EnableAll \/ Serve \/ HandlerReturn
  BY <1>2, NestPlain, NestOpMask DEF Operation
<1>3. CASE Entering
  BY <1>3, NestEntry, NestDispatch, NestReload DEF Entering
<1>4. CASE Exception
  BY <1>4, NestException
<1>5. CASE Interruptible \/ NonInterruptible
  BY <1>5, NestInterruptible, NestNonInterruptible
<1>6. ASSUME NEW i \in Irq, Raise(i) \/ Quiet(i) PROVE NestInv'
  BY <1>6, NestLines DEF Raise, Quiet
<1>7. CASE UNCHANGED irqVars
  BY <1>7, NestLines DEF irqVars
<1> QED
  BY <1>1, <1>2, <1>3, <1>4, <1>5, <1>6, <1>7 DEF Next

LEMMA NestInit == ASSUME Init PROVE NestInv
<1>1. level = 0 /\ Top = NewFrame("run") /\ NewFrame("run").pc = "run"
  BY IrqAssumption, NewFrameIs DEF Init, Top, Pcs
<1>2. MaskMeans
  BY <1>1 DEF Init, MaskMeans, Under
<1>3. OldMeans /\ Ordered
  BY <1>1 DEF OldMeans, Ordered, Serving
<1>4. EnabledMeans
  BY DEF Init, EnabledMeans
<1>5. Placed
  BY <1>1 DEF Placed, At, OpPcs, EntryPcs
<1> QED
  BY <1>2, <1>3, <1>4, <1>5 DEF NestInv

THEOREM NestInvariant ==
  ASSUME EnableNested = FALSE
  PROVE  Spec => [](IInv /\ NestInv)
<1>1. IInv /\ NestInv /\ [Next]_irqVars => NestInv'
  BY NestNext
<1>2. IInv /\ [Next]_irqVars => IInv'
  BY NextKeeps, StutterKeeps
<1> QED
  BY <1>1, <1>2, InitHolds, NestInit, PTL DEF Spec

\* A handler is interrupted only if it asked for that and only by handlers of
\* higher priority, at every depth of nesting, as long as no line is enabled
\* while a handler lets others in.
THEOREM PrioritiesHold ==
  ASSUME EnableNested = FALSE
  PROVE  Spec => []OnlyHigherPreempts
<1>1. ASSUME IInv, NestInv PROVE OnlyHigherPreempts
  <2> SUFFICES ASSUME NEW l \in Serving, NEW m \in Serving, l < m
               PROVE  frame[l].nested /\ frame[m].irq < frame[l].irq
    BY DEF OnlyHigherPreempts
  <2>1. l \in 0 .. level - 1 /\ l > 0
    BY <1>1, IrqAssumption DEF Serving, IInv, IrqTypeOK
  <2> QED
    BY <1>1, <2>1 DEF IInv, Below, NestInv, Ordered
<1> QED
  BY <1>1, NestInvariant, PTL

\* The mask is what the levels in progress say: the last handler that lets
\* others in has the highest priority of all of them.
LEMMA MaskIsLetIn == ASSUME IInv, NestInv PROVE alt_priority_mask = LetIn
<1>1. level \in Nat /\ \A l \in 1 .. level : frame[l].irq \in Irq
  BY IrqAssumption DEF IInv, IrqTypeOK, Frames
<1>2. \A l \in 1 .. level - 1 : l \in Serving /\ frame[l].nested
  BY <1>1 DEF IInv, Below, Serving, InHandler
\* The last one closes at least as much as each of the others.
<1>3. ASSUME NEW k \in Serving, frame[k].nested,
             \A l \in Serving : frame[l].nested => l <= k
      PROVE  LetIn = Above(frame[k].irq)
  <2>1. k \in 1 .. level /\ frame[k].irq \in Irq
    BY <1>1, <1>3 DEF Serving
  <2>2. ASSUME NEW l \in Serving, frame[l].nested
        PROVE  frame[l].irq \in Irq /\ frame[k].irq <= frame[l].irq
    <3>1. l \in 1 .. level /\ frame[l].irq \in Irq /\ l <= k
      BY <1>1, <1>3, <2>2 DEF Serving
    <3>2. CASE l = k
      BY <2>1, <3>2 DEF Irq
    <3>3. CASE l < k
      BY <1>3, <2>1, <3>1, <3>3 DEF NestInv, Ordered, Irq
    <3> QED
      BY <2>1, <3>1, <3>2, <3>3
  <2>3. ASSUME NEW i \in Irq
        PROVE  i \in LetIn <=> i < frame[k].irq
    BY <1>3, <2>1, <2>2, <2>3 DEF LetIn, Irq
  <2>4. LetIn \subseteq Irq /\ Above(frame[k].irq) \subseteq Irq
    BY <2>1, IrqAssumption DEF LetIn, Above, Irq
  <2>5. \A i \in Irq : i \in Above(frame[k].irq) <=> i < frame[k].irq
    BY <2>1, IrqAssumption DEF Above, Irq
  <2> QED
    BY <2>3, <2>4, <2>5
<1>4. CASE level > 0 /\ Top.nested
  <2>1. level \in 1 .. level /\ Top.pc \notin EntryPcs
    BY <1>1, <1>4 DEF NestInv, Placed
  <2>2. level \in Serving
    BY <1>4, <2>1 DEF Serving, InHandler, Top, EntryPcs
  <2>3. \A l \in Serving : l <= level
    BY <1>1 DEF Serving
  <2>4. LetIn = Above(frame[level].irq)
    BY <1>3, <1>4, <2>2, <2>3 DEF Top
  <2> QED
    BY <1>4, <2>4 DEF NestInv, MaskMeans, Top
<1>5. CASE ~(level > 0 /\ Top.nested) /\ level > 1
  <2>1. level - 1 \in 1 .. level - 1
    BY <1>1, <1>5
  <2>2. \A l \in Serving : frame[l].nested => l <= level - 1
    BY <1>1, <1>5 DEF Serving, Top
  <2>3. LetIn = Above(frame[level - 1].irq)
    BY <1>2, <1>3, <2>1, <2>2
  <2> QED
    BY <1>5, <2>3 DEF NestInv, MaskMeans, Under
<1>6. CASE ~(level > 0 /\ Top.nested) /\ ~(level > 1)
  <2>1. \A l \in Serving : ~frame[l].nested
    BY <1>1, <1>6 DEF Serving, Top
  <2>2. LetIn = Irq
    BY <2>1 DEF LetIn
  <2> QED
    BY <1>6, <2>2 DEF NestInv, MaskMeans, Under
<1> QED
  BY <1>4, <1>5, <1>6

\* The masks never drift from the levels in progress, at any depth: the CPU
\* lets in exactly what the program enabled of the lines above every handler
\* that lets others in, as long as no line is enabled meanwhile.
THEOREM MasksFollow ==
  ASSUME EnableNested = FALSE
  PROVE  Spec => []MaskInStep
<1>1. ASSUME IInv, NestInv PROVE MaskInStep
  BY <1>1, MaskIsLetIn DEF MaskInStep, NestInv, EnabledMeans
<1> QED
  BY <1>1, NestInvariant, PTL

=============================================================================
