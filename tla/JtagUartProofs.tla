--------------------------- MODULE JtagUartProofs ---------------------------
(***************************************************************************)
(* Proofs about JtagUart, for every length of the ring buffers, depth of   *)
(* the device's FIFOs, threshold, timeout and request: the interrupts, the *)
(* timeout, and that the driver implements a bounded stream each way.      *)
(***************************************************************************)
EXTENDS JtagUart, SequenceTheorems, TLAPS

(***************************************************************************)
(* What the locals of the routine in progress say of the shared state.     *)
(* The foreground is the only one to move rx_out and tx_in, so its copies  *)
(* of them are exact; its copies of rx_in and tx_out may be old, but the   *)
(* interrupt routine only makes more characters, or more room, available.  *)
(***************************************************************************)
Reading ==
  /\ pc \in {"rd_chunk", "rd_spin", "rd_recheck"} => loc.left > 0
  /\ pc = "rd_copy" =>
       /\ loc.out = rx_out
       /\ loc.n > 0 /\ loc.n <= loc.left /\ loc.copied <= loc.n
       /\ loc.n <= ReadChunkLen(rx_in, rx_out)
  /\ pc \in {"rd_spin", "rd_recheck"} => loc.done = 0 /\ loc.in = rx_out
  /\ pc = "rd_enable" => loc.done > 0

Writing ==
  /\ pc = "wr_copy" =>
       /\ loc.in = tx_in
       /\ loc.n > 0 /\ loc.n <= loc.left /\ loc.copied <= loc.n
       /\ loc.n <= WriteChunkLen(tx_in, tx_out)
  /\ pc \in {"wr_spin", "wr_check"} => loc.left > 0
  /\ pc = "wr_spin" \/ (pc = "wr_enable" /\ loc.left > 0) => tx_in # loc.out

\* The interrupt routine disables receive interrupts on a full ring only.
Receiving == isr = "rx_end" /\ avail => RxRingFull

\* The software copy of the enable bits is the register's.
RegisterKnown == enabled = irq_enable

IInv ==
  /\ TypeOK
  /\ Reading
  /\ Writing
  /\ Receiving
  /\ RegisterKnown
  /\ ReceiveArmed
  /\ TransmitArmed

-----------------------------------------------------------------------------
(***************************************************************************)
(* Lemmas about the index arithmetic.                                      *)
(***************************************************************************)

LEMMA Wrap ==
  ASSUME NEW x \in 0 .. BufLen
  PROVE  x % BufLen = IF x = BufLen THEN 0 ELSE x
BY ConstantsAssumption

LEMMA NextSlotIs ==
  ASSUME NEW i \in Slot
  PROVE  /\ NextSlot(i) = IF i = BufLen - 1 THEN 0 ELSE i + 1
         /\ NextSlot(i) \in Slot /\ NextSlot(i) # i
BY ConstantsAssumption DEF NextSlot, Slot

\* A place inside a chunk that ends inside the buffer is a slot.
LEMMA InChunk ==
  ASSUME NEW out \in Nat, NEW copied \in Nat, NEW n \in Nat, NEW len \in Nat,
         copied < n, n <= len, out + len <= BufLen
  PROVE  out + copied \in Slot
BY ConstantsAssumption DEF Slot

LEMMA ReadChunkLenIs ==
  ASSUME NEW i \in Slot, NEW o \in Slot
  PROVE  /\ ReadChunkLen(i, o) \in 0 .. BufLen - 1
         /\ o + ReadChunkLen(i, o) <= BufLen
         /\ ReadChunkLen(i, o) = 0 <=> i = o
BY ConstantsAssumption DEF ReadChunkLen, Slot

\* A character put in the ring leaves the reader's chunk where it is.
LEMMA ReadChunkLenGrows ==
  ASSUME NEW i \in Slot, NEW o \in Slot, NextSlot(i) # o
  PROVE  ReadChunkLen(i, o) <= ReadChunkLen(NextSlot(i), o)
BY NextSlotIs, ConstantsAssumption DEF ReadChunkLen, Slot

LEMMA WriteChunkLenIs ==
  ASSUME NEW i \in Slot, NEW o \in Slot
  PROVE  /\ WriteChunkLen(i, o) \in 0 .. BufLen - 1
         /\ i + WriteChunkLen(i, o) <= BufLen
         /\ WriteChunkLen(i, o) = 0 => i # o
BY ConstantsAssumption DEF WriteChunkLen, Slot

\* A character taken from the ring leaves the writer's chunk free.
LEMMA WriteChunkLenGrows ==
  ASSUME NEW i \in Slot, NEW o \in Slot, i # o
  PROVE  WriteChunkLen(i, o) <= WriteChunkLen(i, NextSlot(o))
BY NextSlotIs, ConstantsAssumption DEF WriteChunkLen, Slot

-----------------------------------------------------------------------------
(***************************************************************************)
(* Which actions touch which variables.                                    *)
(***************************************************************************)

LEMMA Frames ==
  ASSUME [Next]_vars
  PROVE  /\ ReadCopy \/ ReadAdvance \/ IsrReceive \/ HostSend \/ UNCHANGED rxVars
         /\ WriteCopy \/ WriteAdvance \/ IsrTransmit \/ HostTake \/ UNCHANGED txVars
         /\ \/ ReadEnable \/ WriteEnable \/ IsrReceiveEnd \/ IsrTransmitEnd
            \/ AlarmClearActivity
            \/ UNCHANGED ctlVars
         /\ (\E t \in Timeouts : SetTimeout(t)) \/ UNCHANGED timeout
         /\ AlarmExpire \/ AlarmClearActivity \/ UNCHANGED host_inactive
         /\ AlarmExpire \/ quiet' = TimedOut \/ UNCHANGED quiet
         /\ ac' \in {TRUE, FALSE} \/ UNCHANGED ac
         /\ HostLeave \/ UNCHANGED host
         /\ Isr \/ AlarmExpire \/ AlarmClearActivity \/ UNCHANGED isrVars
         /\ Calls \/ Running \/ UNCHANGED callVars
<1> USE DEF Next, Calls, ReadCalls, Running, Isr, Alarm, Host, Call, LocalStep,
            ReadCall, ReadNothing, ReadChunk, ReadCopy, ReadAdvance, ReadSpin,
            ReadRecheck, ReadEnable, WriteCall, WriteChunk, WriteCopy,
            WriteAdvance, WriteEnable, WriteSpin, WriteCheck, CloseCall,
            CloseDrain, SetTimeout, IsrEnter, IsrReadControl, IsrReceive,
            IsrReceiveEnd, IsrTransmit, IsrTransmitEnd, AlarmExpire,
            AlarmClearActivity, HostSend, HostTake, HostPoll, HostLeave, vars
<1>1. ReadCopy \/ ReadAdvance \/ IsrReceive \/ HostSend \/ UNCHANGED rxVars
  OBVIOUS
<1>2. WriteCopy \/ WriteAdvance \/ IsrTransmit \/ HostTake \/ UNCHANGED txVars
  OBVIOUS
<1>3. \/ ReadEnable \/ WriteEnable \/ IsrReceiveEnd \/ IsrTransmitEnd
      \/ AlarmClearActivity
      \/ UNCHANGED ctlVars
  OBVIOUS
<1>4. (\E t \in Timeouts : SetTimeout(t)) \/ UNCHANGED timeout
  BY DEF timeVars
<1>5. AlarmExpire \/ AlarmClearActivity \/ UNCHANGED host_inactive
  BY DEF timeVars
<1>6. AlarmExpire \/ quiet' = TimedOut \/ UNCHANGED quiet
  BY DEF timeVars
<1>7. ac' \in {TRUE, FALSE} \/ UNCHANGED ac
  BY DEF timeVars
<1>8. HostLeave \/ UNCHANGED host
  OBVIOUS
<1>9. Isr \/ AlarmExpire \/ AlarmClearActivity \/ UNCHANGED isrVars
  OBVIOUS
<1>10. Calls \/ Running \/ UNCHANGED callVars
  OBVIOUS
<1> HIDE DEF Next, Calls, ReadCalls, Running, Isr, Alarm, Host, Call, LocalStep,
            ReadCall, ReadNothing, ReadChunk, ReadCopy, ReadAdvance, ReadSpin,
            ReadRecheck, ReadEnable, WriteCall, WriteChunk, WriteCopy,
            WriteAdvance, WriteEnable, WriteSpin, WriteCheck, CloseCall,
            CloseDrain, SetTimeout, IsrEnter, IsrReadControl, IsrReceive,
            IsrReceiveEnd, IsrTransmit, IsrTransmitEnd, AlarmExpire,
            AlarmClearActivity, HostSend, HostTake, HostPoll, HostLeave, vars
<1> QED
  BY <1>1, <1>2, <1>3, <1>4, <1>5, <1>6, <1>7, <1>8, <1>9, <1>10

\* The foreground runs only when no interrupt routine does, and leaves the
\* indices the interrupt routines own alone.
LEMMA ForegroundFrame ==
  ASSUME Calls \/ Running
  PROVE  UNCHANGED <<rx_in, tx_out>> /\ UNCHANGED isrVars
BY DEF Calls, ReadCalls, Running, Call, LocalStep, ReadCall, ReadNothing,
       ReadChunk, ReadCopy, ReadAdvance, ReadSpin, ReadRecheck, ReadEnable,
       WriteCall, WriteChunk, WriteCopy, WriteAdvance, WriteEnable, WriteSpin,
       WriteCheck, CloseCall, CloseDrain, SetTimeout, rxVars, txVars

-----------------------------------------------------------------------------
(***************************************************************************)
(* Types.                                                                  *)
(***************************************************************************)

LEMMA RxTypesStep ==
  ASSUME TypeOK, Reading, [Next]_vars
  PROVE  RxTypes'
<1>1. /\ rx_in \in Slot /\ rx_out \in Slot /\ rx_buf \in [Slot -> Nat]
      /\ rx_fifo \in Seq(Nat) /\ Len(rx_fifo) <= RxDepth
      /\ sent \in Nat /\ received \in Seq(Nat)
  BY DEF TypeOK, RxTypes
<1>2. CASE ReadCopy
  <2>1. loc.out + loc.copied \in Slot
    <3>1. /\ loc.out = rx_out /\ loc.copied < loc.n
          /\ loc.n <= ReadChunkLen(rx_in, rx_out)
          /\ loc.n \in Nat /\ loc.copied \in Nat
      BY <1>2 DEF ReadCopy, At, Reading, TypeOK, CallTypes, Locals
    <3>2. rx_out + ReadChunkLen(rx_in, rx_out) <= BufLen
      BY <1>1, ReadChunkLenIs
    <3>3. ReadChunkLen(rx_in, rx_out) \in Nat
      BY <1>1, ReadChunkLenIs, ConstantsAssumption
    <3>4. rx_out \in Nat
      BY <1>1 DEF Slot
    <3>5. loc.out \in Nat /\ loc.out + ReadChunkLen(rx_in, rx_out) <= BufLen
      BY <3>1, <3>2, <3>4
    <3> QED
      BY <3>1, <3>3, <3>5, InChunk
  <2>2. rx_buf[loc.out + loc.copied] \in Nat
    BY <1>1, <2>1
  <2> QED
    BY <1>1, <1>2, <2>2 DEF ReadCopy, RxTypes
<1>3. CASE ReadAdvance
  <2>1. rx_out' \in Slot
    <3>1. loc.out + loc.n \in Nat /\ rx_out' = (loc.out + loc.n) % BufLen
      BY <1>3 DEF ReadAdvance, TypeOK, CallTypes, Locals, Slot
    <3> QED
      BY <3>1, ConstantsAssumption DEF Slot
  <2> QED
    BY <1>1, <1>3, <2>1 DEF ReadAdvance, RxTypes
<1>4. CASE IsrReceive
  <2>1. CASE RxRingFull \/ rx_fifo = <<>>
    BY <1>1, <1>4, <2>1 DEF RxTypes, IsrReceive
  <2>2. CASE ~RxRingFull /\ rx_fifo # <<>>
    <3>1. /\ rx_fifo' = Tail(rx_fifo)
          /\ rx_buf' = [rx_buf EXCEPT ![rx_in] = Head(rx_fifo)]
          /\ rx_in' = NextSlot(rx_in) /\ UNCHANGED <<rx_out, sent, received>>
      BY <1>4, <2>2 DEF IsrReceive
    <3>2. /\ Head(rx_fifo) \in Nat /\ Tail(rx_fifo) \in Seq(Nat)
          /\ Len(Tail(rx_fifo)) <= RxDepth
      BY <2>2, <1>1, ConstantsAssumption
    <3> QED
      BY <1>1, <3>1, <3>2, NextSlotIs DEF RxTypes
  <2> QED
    BY <2>1, <2>2
<1>5. CASE HostSend
  BY <1>1, <1>5, ConstantsAssumption DEF HostSend, RxTypes
<1>6. CASE UNCHANGED rxVars
  BY <1>1, <1>6 DEF RxTypes, rxVars
<1> QED
  BY <1>2, <1>3, <1>4, <1>5, <1>6, Frames

LEMMA TxTypesStep ==
  ASSUME TypeOK, Writing, [Next]_vars
  PROVE  TxTypes'
<1>1. /\ tx_in \in Slot /\ tx_out \in Slot /\ tx_buf \in [Slot -> Nat]
      /\ tx_fifo \in Seq(Nat) /\ Len(tx_fifo) <= TxDepth
      /\ accepted \in Nat /\ transmitted \in Seq(Nat)
  BY DEF TypeOK, TxTypes
<1>2. CASE WriteCopy
  <2>1. /\ tx_buf' = [tx_buf EXCEPT ![loc.in + loc.copied] = accepted + 1]
        /\ accepted' = accepted + 1
        /\ UNCHANGED <<tx_in, tx_out, tx_fifo, transmitted>>
    BY <1>2 DEF WriteCopy
  <2>2. accepted + 1 \in Nat
    BY <1>1
  <2>3. tx_buf' \in [Slot -> Nat]
    BY <1>1, <2>1, <2>2
  <2> QED
    BY <1>1, <2>1, <2>2, <2>3 DEF TxTypes
<1>3. CASE WriteAdvance
  <2>1. tx_in' \in Slot
    <3>1. loc.in + loc.n \in Nat /\ tx_in' = (loc.in + loc.n) % BufLen
      BY <1>3 DEF WriteAdvance, TypeOK, CallTypes, Locals, Slot
    <3> QED
      BY <3>1, ConstantsAssumption DEF Slot
  <2> QED
    BY <1>1, <1>3, <2>1 DEF WriteAdvance, TxTypes
<1>4. CASE IsrTransmit
  <2>1. tx_out' \in Slot
    BY <1>1, <1>4, NextSlotIs DEF IsrTransmit
  <2>2. tx_fifo' \in Seq(Nat) /\ Len(tx_fifo') <= TxDepth
    BY <1>1, <1>4, ConstantsAssumption DEF IsrTransmit
  <2> QED
    BY <1>1, <1>4, <2>1, <2>2 DEF IsrTransmit, TxTypes
<1>5. CASE HostTake
  <2>1. /\ Head(tx_fifo) \in Nat /\ Tail(tx_fifo) \in Seq(Nat)
        /\ Len(Tail(tx_fifo)) <= TxDepth
    BY <1>1, <1>5, ConstantsAssumption DEF HostTake
  <2> QED
    BY <1>1, <1>5, <2>1 DEF HostTake, TxTypes
<1>6. CASE UNCHANGED txVars
  BY <1>1, <1>6 DEF TxTypes, txVars
<1> QED
  BY <1>2, <1>3, <1>4, <1>5, <1>6, Frames

LEMMA ControlTypesStep ==
  ASSUME TypeOK, [Next]_vars
  PROVE  ControlTypes'
<1>1. irq_enable' \in SUBSET Control /\ enabled' \in SUBSET Control
  BY Frames
     DEF TypeOK, ControlTypes, Control, ReadEnable, WriteEnable, IsrReceiveEnd,
         IsrTransmitEnd, AlarmClearActivity, Enable, Disable, WriteControl,
         ctlVars
<1>2. host_inactive' \in 0 .. IntMax - 2
  <2>1. host_inactive \in 0 .. IntMax - 2
    BY DEF TypeOK, ControlTypes
  <2>2. CASE AlarmExpire
    BY <2>1, <2>2, ConstantsAssumption DEF AlarmExpire, NextInactive
  <2>3. CASE AlarmClearActivity
    BY <2>3, ConstantsAssumption DEF AlarmClearActivity
  <2> QED
    BY <2>1, <2>2, <2>3, Frames
<1>3. timeout' \in 2 .. IntMax
  <2>1. timeout \in 2 .. IntMax
    BY DEF TypeOK, ControlTypes
  <2>2. ASSUME NEW t \in Timeouts, SetTimeout(t)
        PROVE  timeout' \in 2 .. IntMax
    <3>1. timeout' = IF t >= 2 /\ t < IntMax THEN t ELSE IntMax - 1
      BY <2>2 DEF SetTimeout
    <3> QED
      BY <3>1, ConstantsAssumption
  <2> QED
    BY <2>1, <2>2, Frames
<1>4. host' \in {"present", "gone"} /\ ac' \in BOOLEAN
  BY Frames DEF TypeOK, ControlTypes, HostLeave
<1>5. quiet' \in BOOLEAN
  <2>1. TimedOut \in BOOLEAN
    BY DEF TimedOut
  <2>2. CASE AlarmExpire
    BY <2>2 DEF AlarmExpire, TypeOK, ControlTypes
  <2> QED
    BY <2>1, <2>2, Frames DEF TypeOK, ControlTypes
<1> QED
  BY <1>1, <1>2, <1>3, <1>4, <1>5 DEF ControlTypes

LEMMA IsrTypesStep ==
  ASSUME TypeOK, [Next]_vars
  PROVE  IsrTypes'
<1>1. /\ isr \in {"none", "top", "rx", "rx_end", "tx", "alarm"}
      /\ wi \in BOOLEAN /\ avail \in BOOLEAN /\ space \in 0 .. TxDepth
      /\ tx_fifo \in Seq(Nat) /\ Len(tx_fifo) <= TxDepth
  BY DEF TypeOK, IsrTypes, TxTypes
<1>2. CASE Isr
  <2>1. space' \in 0 .. TxDepth
    BY <1>1, <1>2, ConstantsAssumption
       DEF Isr, IsrEnter, IsrReadControl, FifoSpace, IsrReceive, IsrReceiveEnd,
           IsrTransmit, IsrTransmitEnd
  <2>2. isr' \in {"none", "top", "rx", "rx_end", "tx", "alarm"}
    BY <1>1, <1>2
       DEF Isr, IsrEnter, IsrReadControl, IsrReceive, IsrReceiveEnd,
           IsrTransmit, IsrTransmitEnd
  <2>3. wi' \in BOOLEAN
    BY <1>1, <1>2
       DEF Isr, IsrEnter, IsrReadControl, IsrReceive, IsrReceiveEnd,
           IsrTransmit, IsrTransmitEnd, WI
  <2>4. avail' \in BOOLEAN
    <3>1. RI \in BOOLEAN /\ (Len(rx_fifo) > 1) \in BOOLEAN
      BY DEF RI
    <3> QED
      BY <1>1, <1>2, <3>1
         DEF Isr, IsrEnter, IsrReadControl, IsrReceive, IsrReceiveEnd,
             IsrTransmit, IsrTransmitEnd
  <2> QED
    BY <2>1, <2>2, <2>3, <2>4 DEF IsrTypes
<1>3. CASE AlarmExpire \/ AlarmClearActivity
  BY <1>1, <1>3 DEF AlarmExpire, AlarmClearActivity, IsrTypes
<1>4. CASE UNCHANGED isrVars
  BY <1>1, <1>4 DEF isrVars, IsrTypes
<1> QED
  BY <1>2, <1>3, <1>4, Frames

\* The locals the steps of read and write leave behind.
LEMMA ChunkLocals ==
  ASSUME TypeOK, NEW len \in 0 .. BufLen - 1, NEW i \in Slot, NEW o \in Slot
  PROVE  /\ Chunk(len, i, o) \in Locals
         /\ Chunk(len, i, o).left = loc.left /\ Chunk(len, i, o).done = loc.done
         /\ Chunk(len, i, o).in = i /\ Chunk(len, i, o).out = o
         /\ Chunk(len, i, o).copied = 0
         /\ Chunk(len, i, o).n <= len /\ Chunk(len, i, o).n <= loc.left
         /\ len > 0 /\ loc.left > 0 => Chunk(len, i, o).n > 0
<1>1. loc \in Locals
  BY DEF TypeOK, CallTypes
<1>2. /\ Least(len, loc.left) \in 0 .. BufLen - 1
      /\ Least(len, loc.left) <= len /\ Least(len, loc.left) <= loc.left
      /\ len > 0 /\ loc.left > 0 => Least(len, loc.left) > 0
  <2>1. loc.left \in Nat
    BY <1>1 DEF Locals
  <2> QED
    BY <2>1, ConstantsAssumption DEF Least
<1>3. 0 \in 0 .. BufLen - 1
  BY ConstantsAssumption
<1> QED
  BY <1>1, <1>2, <1>3 DEF Chunk, Locals

LEMMA CopiedLocals ==
  ASSUME TypeOK, loc.copied < loc.n
  PROVE  /\ Copied \in Locals
         /\ Copied.left = loc.left /\ Copied.n = loc.n
         /\ Copied.in = loc.in /\ Copied.out = loc.out
         /\ Copied.copied <= loc.n
<1>1. loc \in Locals
  BY DEF TypeOK, CallTypes
<1>2. loc.copied + 1 \in 0 .. BufLen - 1 /\ loc.copied + 1 <= loc.n
  BY <1>1, ConstantsAssumption DEF Locals
<1> QED
  BY <1>1, <1>2 DEF Copied, Locals

LEMMA AdvancedLocals ==
  ASSUME TypeOK, loc.n <= loc.left
  PROVE  /\ Advanced \in Locals
         /\ Advanced.left = loc.left - loc.n
         /\ Advanced.done = loc.done + loc.n
<1>1. loc \in Locals
  BY DEF TypeOK, CallTypes
<1>2. /\ loc.left - loc.n \in Nat /\ loc.done + loc.n \in Nat
      /\ 0 \in 0 .. BufLen - 1
  BY <1>1, ConstantsAssumption DEF Locals
<1> QED
  BY <1>1, <1>2 DEF Advanced, Locals

LEMMA GotoTypes ==
  ASSUME TypeOK, NEW l \in ReadPcs \union WritePcs, NEW locals \in Locals,
         Goto(l, locals)
  PROVE  CallTypes'
BY DEF Goto, TypeOK, CallTypes

LEMMA ReturnTypes ==
  ASSUME NEW v \in Nat \union {EIO, EWOULDBLOCK}, Return(v)
  PROVE  CallTypes'
<1>1. NoLocals \in Locals
  BY ConstantsAssumption DEF NoLocals, Locals, Slot
<1> QED
  BY <1>1 DEF Return, CallTypes

LEMMA ResultTypes ==
  ASSUME NEW d \in Nat
  PROVE  Result(d) \in Nat \union {EIO, EWOULDBLOCK}
BY DEF Result

LEMMA ReadLoopEndsTypes ==
  ASSUME TypeOK, NEW locals \in Locals, ReadLoopEnds(locals)
  PROVE  CallTypes'
<1>1. locals.done \in Nat
  BY DEF Locals
<1>2. "rd_enable" \in ReadPcs \union WritePcs /\ "rd_spin" \in ReadPcs \union WritePcs
  BY DEF ReadPcs
<1>3. \/ Goto("rd_enable", locals) \/ Goto("rd_spin", locals)
      \/ Return(EWOULDBLOCK)
  BY DEF ReadLoopEnds
<1> QED
  BY <1>2, <1>3, GotoTypes, ReturnTypes

LEMMA CallTypesStep ==
  ASSUME TypeOK, Reading, Writing, [Next]_vars
  PROVE  CallTypes'
<1>1. /\ pc \in {"idle", "close"} \union ReadPcs \union WritePcs
      /\ loc \in Locals /\ ret \in Nat \union {EIO, EWOULDBLOCK}
      /\ rx_in \in Slot /\ rx_out \in Slot /\ tx_in \in Slot /\ tx_out \in Slot
  BY DEF TypeOK, CallTypes, RxTypes, TxTypes
<1>2. Result(loc.done) \in Nat \union {EIO, EWOULDBLOCK}
  BY <1>1, ResultTypes DEF Locals
<1>3. 0 \in 0 .. BufLen - 1
  BY ConstantsAssumption
<1>4. ASSUME NEW l \in {"rd_chunk", "wr_chunk", "close"}, NEW len \in Nat,
             NEW nb \in BOOLEAN, Call(l, len, nb)
      PROVE  CallTypes'
  <2>1. NoLocals \in Locals
    BY <1>3 DEF NoLocals, Locals, Slot
  <2>2. [NoLocals EXCEPT !.left = len, !.nonblock = nb] \in Locals
    BY <2>1 DEF Locals
  <2> QED
    BY <1>4, <2>2 DEF Call, CallTypes, ReadPcs, WritePcs
<1>5. CASE Calls
  <2>1. CASE ReadCalls
    BY <1>4, <2>1, ConstantsAssumption DEF ReadCalls, ReadCall
  <2>2. ASSUME NEW nb \in BOOLEAN, ReadNothing(nb)
        PROVE  CallTypes'
    BY <2>2, ReturnTypes DEF ReadNothing
  <2>3. ASSUME NEW nb \in BOOLEAN, CloseCall(nb)
        PROVE  CallTypes'
    BY <1>4, <2>3 DEF CloseCall
  <2>4. ASSUME NEW len \in Requests, NEW nb \in BOOLEAN, WriteCall(len, nb)
        PROVE  CallTypes'
    BY <1>4, <2>4, ConstantsAssumption DEF WriteCall
  <2>5. ASSUME NEW t \in Timeouts, SetTimeout(t)
        PROVE  CallTypes'
    BY <1>1, <2>5 DEF SetTimeout, callVars, CallTypes
  <2> QED
    BY <1>5, <2>1, <2>2, <2>3, <2>4, <2>5 DEF Calls
<1>6. CASE Running
  <2>1. CASE ReadChunk
    <3> DEFINE len == ReadChunkLen(rx_in, rx_out)
               locals == Chunk(len, rx_in, rx_out)
    <3>1. len \in 0 .. BufLen - 1
      BY <1>1, ReadChunkLenIs
    <3>2. locals \in Locals
      BY <1>1, <3>1, ChunkLocals
    <3>3. Goto("rd_copy", locals) \/ ReadLoopEnds(locals)
      BY <2>1 DEF ReadChunk
    <3> HIDE DEF locals
    <3>4. "rd_copy" \in ReadPcs \union WritePcs
      BY DEF ReadPcs
    <3> QED
      BY <3>2, <3>3, <3>4, GotoTypes, ReadLoopEndsTypes
  <2>2. CASE ReadCopy
    BY <2>2, CopiedLocals, GotoTypes DEF ReadCopy, ReadPcs
  <2>3. CASE ReadAdvance
    <3>1. Advanced \in Locals
      BY <2>3, AdvancedLocals DEF ReadAdvance, At, Reading
    <3>2. Goto("rd_chunk", Advanced) \/ ReadLoopEnds(Advanced)
      BY <2>3 DEF ReadAdvance
    <3>3. "rd_chunk" \in ReadPcs \union WritePcs
      BY DEF ReadPcs
    <3> QED
      BY <3>1, <3>2, <3>3, GotoTypes, ReadLoopEndsTypes
  <2>4. CASE ReadSpin
    BY <1>1, <2>4, GotoTypes DEF ReadSpin, ReadPcs
  <2>5. CASE ReadRecheck
    BY <1>1, <1>2, <2>5, GotoTypes, ReturnTypes DEF ReadRecheck, ReadPcs
  <2>6. CASE ReadEnable
    BY <1>2, <2>6, ReturnTypes DEF ReadEnable
  <2>7. CASE WriteChunk
    <3> DEFINE len == WriteChunkLen(tx_in, tx_out)
    <3>1. len \in 0 .. BufLen - 1
      BY <1>1, WriteChunkLenIs
    <3>2. Chunk(len, tx_in, tx_out) \in Locals /\ Chunk(0, tx_in, tx_out) \in Locals
      BY <1>1, <1>3, <3>1, ChunkLocals
    <3>3. \/ Goto("wr_copy", Chunk(len, tx_in, tx_out))
          \/ Goto("wr_enable", Chunk(0, tx_in, tx_out))
          \/ Goto("wr_enable", loc)
      BY <2>7 DEF WriteChunk
    <3>4. "wr_copy" \in ReadPcs \union WritePcs /\ "wr_enable" \in ReadPcs \union WritePcs
      BY DEF WritePcs
    <3> QED
      BY <1>1, <3>2, <3>3, <3>4, GotoTypes
  <2>8. CASE WriteCopy
    BY <2>8, CopiedLocals, GotoTypes DEF WriteCopy, WritePcs
  <2>9. CASE WriteAdvance
    BY <2>9, AdvancedLocals, GotoTypes DEF WriteAdvance, At, Writing, WritePcs
  <2>10. CASE WriteEnable
    BY <1>1, <1>2, <2>10, GotoTypes, ReturnTypes DEF WriteEnable, WritePcs
  <2>11. CASE WriteSpin
    BY <1>1, <2>11, GotoTypes DEF WriteSpin, WritePcs
  <2>12. CASE WriteCheck
    BY <1>1, <1>2, <2>12, GotoTypes, ReturnTypes DEF WriteCheck, WritePcs
  <2>13. CASE CloseDrain
    BY <2>13, ReturnTypes DEF CloseDrain
  <2> QED
    BY <1>6, <2>1, <2>2, <2>3, <2>4, <2>5, <2>6, <2>7, <2>8, <2>9, <2>10,
       <2>11, <2>12, <2>13 DEF Running
<1>7. CASE UNCHANGED callVars
  BY <1>1, <1>7 DEF callVars, CallTypes
<1> QED
  BY <1>5, <1>6, <1>7, Frames

LEMMA TypeStep ==
  ASSUME TypeOK, Reading, Writing, [Next]_vars
  PROVE  TypeOK'
BY RxTypesStep, TxTypesStep, ControlTypesStep, CallTypesStep, IsrTypesStep
   DEF TypeOK

-----------------------------------------------------------------------------
(***************************************************************************)
(* The locals of the routine in progress.                                  *)
(***************************************************************************)

\* What moves the program counter, the locals or an index of a ring.
LEMMA Progress ==
  ASSUME [Next]_vars
  PROVE  \/ Calls \/ Running \/ IsrReceive \/ IsrTransmit
         \/ UNCHANGED <<pc, loc, rx_in, rx_out, tx_in, tx_out>>
BY DEF Next, Isr, Alarm, Host, IsrEnter, IsrReadControl, IsrReceiveEnd,
       IsrTransmitEnd, AlarmExpire, AlarmClearActivity, HostSend, HostTake,
       HostPoll, HostLeave, rxVars, txVars, callVars, vars

LEMMA CallLocals ==
  ASSUME Calls
  PROVE  /\ \/ pc' \in {"rd_chunk", "wr_chunk", "close"} /\ loc'.done = 0
            \/ pc' = "idle"
         /\ pc' = "rd_chunk" => loc'.left > 0
         /\ pc = "idle"
         /\ UNCHANGED <<rx_in, rx_out, tx_in, tx_out, irq_enable>>
BY DEF Calls, ReadCalls, ReadCall, ReadNothing, WriteCall, CloseCall,
       SetTimeout, Call, NoLocals, Return, At, LocalStep, rxVars, txVars,
       ctlVars, callVars

LEMMA ReadingStep ==
  ASSUME TypeOK, Reading, [Next]_vars
  PROVE  Reading'
<1>1. /\ rx_in \in Slot /\ rx_out \in Slot /\ loc \in Locals
      /\ loc.left \in Nat /\ loc.done \in Nat /\ loc.n \in Nat
  BY DEF TypeOK, RxTypes, CallTypes, Locals
<1>2. CASE Calls
  BY <1>2, CallLocals DEF Reading
<1>3. CASE ReadChunk
  <2> DEFINE len == ReadChunkLen(rx_in, rx_out)
             locals == Chunk(len, rx_in, rx_out)
  <2>1. pc = "rd_chunk" /\ UNCHANGED <<rx_in, rx_out>>
    BY <1>3 DEF ReadChunk, At, LocalStep, rxVars
  <2>2. len \in 0 .. BufLen - 1 /\ (len = 0 <=> rx_in = rx_out)
    BY <1>1, ReadChunkLenIs
  <2>3. /\ locals.left = loc.left /\ locals.done = loc.done
        /\ locals.in = rx_in /\ locals.out = rx_out /\ locals.copied = 0
        /\ locals.n <= len /\ locals.n <= loc.left /\ locals.n \in Nat
        /\ len > 0 /\ loc.left > 0 => locals.n > 0
    BY <1>1, <2>2, ChunkLocals DEF Locals
  <2>4. loc.left > 0
    BY <2>1 DEF Reading
  <2>5. IF len > 0 THEN Goto("rd_copy", locals) ELSE ReadLoopEnds(locals)
    BY <1>3 DEF ReadChunk
  <2>6. CASE len > 0
    <3>1. pc' = "rd_copy" /\ loc' = locals
      BY <2>5, <2>6 DEF Goto
    <3> HIDE DEF locals, len
    <3>2. len = ReadChunkLen(rx_in', rx_out')
      BY <2>1 DEF len
    <3> QED
      BY <2>1, <2>3, <2>4, <2>6, <3>1, <3>2 DEF Reading
  <2>7. CASE len = 0
    <3>1. ReadLoopEnds(locals) /\ rx_in = rx_out
      BY <2>2, <2>5, <2>7
    <3> HIDE DEF locals, len
    <3>2. \/ pc' = "rd_enable" /\ loc' = locals /\ locals.done > 0
          \/ pc' = "idle"
          \/ pc' = "rd_spin" /\ loc' = locals /\ locals.done = 0
      BY <3>1 DEF ReadLoopEnds, Goto, Return
    <3> QED
      BY <2>1, <2>3, <2>4, <3>1, <3>2 DEF Reading
  <2> QED
    BY <2>2, <2>6, <2>7
<1>4. CASE ReadCopy
  <2>1. /\ pc = "rd_copy" /\ loc.copied < loc.n
        /\ pc' = "rd_copy" /\ loc' = Copied /\ UNCHANGED <<rx_in, rx_out>>
    BY <1>4 DEF ReadCopy, At, Goto
  <2>2. /\ Copied.left = loc.left /\ Copied.n = loc.n
        /\ Copied.out = loc.out /\ Copied.copied <= loc.n
    BY <2>1, CopiedLocals
  <2> QED
    BY <2>1, <2>2 DEF Reading
<1>5. CASE ReadAdvance
  <2>1. pc = "rd_copy" /\ loc.n > 0 /\ loc.n <= loc.left
    BY <1>5 DEF ReadAdvance, At, Reading
  <2>2. Advanced.left = loc.left - loc.n /\ Advanced.done = loc.done + loc.n
    BY <2>1, AdvancedLocals
  <2>3. \/ loc.left > loc.n /\ pc' = "rd_chunk" /\ loc' = Advanced
        \/ Advanced.done > 0 /\ pc' = "rd_enable" /\ loc' = Advanced
        \/ Advanced.done = 0
    BY <1>5 DEF ReadAdvance, ReadLoopEnds, Goto
  <2> QED
    BY <1>1, <2>1, <2>2, <2>3 DEF Reading
<1>6. CASE ReadSpin \/ ReadRecheck \/ ReadEnable
  BY <1>6 DEF ReadSpin, ReadRecheck, ReadEnable, At, Goto, Return, LocalStep,
              rxVars, Reading
<1>7. CASE \/ WriteChunk \/ WriteCopy \/ WriteAdvance \/ WriteEnable
           \/ WriteSpin \/ WriteCheck \/ CloseDrain
  BY <1>7 DEF WriteChunk, WriteCopy, WriteAdvance, WriteEnable, WriteSpin,
              WriteCheck, CloseDrain, Goto, Return, Reading
<1>8. CASE IsrReceive
  <2>1. UNCHANGED <<pc, loc, rx_out>>
    BY <1>8 DEF IsrReceive, callVars
  <2>2. CASE rx_in' = rx_in
    BY <2>1, <2>2 DEF Reading
  <2>3. CASE rx_in' = NextSlot(rx_in) /\ ~RxRingFull
    <3>1. ReadChunkLen(rx_in, rx_out) <= ReadChunkLen(rx_in', rx_out')
      BY <1>1, <2>1, <2>3, ReadChunkLenGrows DEF RxRingFull
    <3>2. /\ ReadChunkLen(rx_in, rx_out) \in Nat
          /\ ReadChunkLen(rx_in', rx_out') \in Nat
      BY <1>1, <2>1, <2>3, ReadChunkLenIs, NextSlotIs, ConstantsAssumption
    <3> QED
      BY <1>1, <2>1, <3>1, <3>2 DEF Reading
  <2> QED
    BY <1>8, <2>2, <2>3 DEF IsrReceive
<1>9. CASE IsrTransmit
  BY <1>9 DEF IsrTransmit, callVars, rxVars, Reading
<1>10. CASE UNCHANGED <<pc, loc, rx_in, rx_out, tx_in, tx_out>>
  BY <1>10 DEF Reading
<1> QED
  BY <1>2, <1>3, <1>4, <1>5, <1>6, <1>7, <1>8, <1>9, <1>10, Progress
     DEF Running

LEMMA WritingStep ==
  ASSUME TypeOK, Writing, [Next]_vars
  PROVE  Writing'
<1>1. /\ tx_in \in Slot /\ tx_out \in Slot /\ loc \in Locals
      /\ loc.left \in Nat /\ loc.n \in Nat
  BY DEF TypeOK, TxTypes, CallTypes, Locals
<1>2. CASE Calls
  BY <1>2, CallLocals DEF Writing
<1>3. CASE WriteChunk
  <2> DEFINE len == WriteChunkLen(tx_in, tx_out)
             some == Chunk(len, tx_in, tx_out)
             none == Chunk(0, tx_in, tx_out)
  <2>1. UNCHANGED <<tx_in, tx_out>>
    BY <1>3 DEF WriteChunk, LocalStep, txVars
  <2>2. len \in 0 .. BufLen - 1 /\ (len = 0 => tx_in # tx_out)
    BY <1>1, WriteChunkLenIs
  <2>3. /\ some.left = loc.left /\ some.in = tx_in /\ some.copied = 0
        /\ some.n <= len /\ some.n <= loc.left /\ some.n \in Nat
        /\ len > 0 /\ loc.left > 0 => some.n > 0
    BY <1>1, <2>2, ChunkLocals DEF Locals
  <2>4. none.left = loc.left /\ none.out = tx_out
    BY <1>1, ChunkLocals, ConstantsAssumption
  <2>5. len = WriteChunkLen(tx_in', tx_out')
    BY <2>1
  <2>6. \/ loc.left > 0 /\ len > 0 /\ pc' = "wr_copy" /\ loc' = some
        \/ len = 0 /\ pc' = "wr_enable" /\ loc' = none
        \/ loc.left = 0 /\ pc' = "wr_enable" /\ loc' = loc
    BY <1>3 DEF WriteChunk, Goto
  <2> HIDE DEF len, some, none
  <2> QED
    BY <1>1, <2>1, <2>2, <2>3, <2>4, <2>5, <2>6 DEF Writing
<1>4. CASE WriteCopy
  <2>1. /\ pc = "wr_copy" /\ loc.copied < loc.n
        /\ pc' = "wr_copy" /\ loc' = Copied /\ UNCHANGED <<tx_in, tx_out>>
    BY <1>4 DEF WriteCopy, At, Goto
  <2>2. /\ Copied.left = loc.left /\ Copied.n = loc.n
        /\ Copied.in = loc.in /\ Copied.copied <= loc.n
    BY <2>1, CopiedLocals
  <2> QED
    BY <2>1, <2>2 DEF Writing
<1>5. CASE WriteAdvance
  BY <1>5 DEF WriteAdvance, Goto, Writing
<1>6. CASE WriteEnable
  BY <1>6 DEF WriteEnable, At, Goto, Return, txVars, Writing
<1>7. CASE WriteSpin \/ WriteCheck
  BY <1>7 DEF WriteSpin, WriteCheck, At, Goto, Return, LocalStep, Writing
<1>8. CASE \/ ReadChunk \/ ReadCopy \/ ReadAdvance \/ ReadSpin \/ ReadRecheck
           \/ ReadEnable \/ CloseDrain
  BY <1>8 DEF ReadChunk, ReadCopy, ReadAdvance, ReadSpin, ReadRecheck,
              ReadEnable, CloseDrain, ReadLoopEnds, Goto, Return, Writing
<1>9. CASE IsrTransmit
  <2>1. /\ UNCHANGED <<pc, loc, tx_in>> /\ tx_out # tx_in
        /\ tx_out' = NextSlot(tx_out)
    BY <1>9 DEF IsrTransmit, callVars
  <2>2. WriteChunkLen(tx_in, tx_out) <= WriteChunkLen(tx_in', tx_out')
    BY <1>1, <2>1, WriteChunkLenGrows
  <2>3. /\ WriteChunkLen(tx_in, tx_out) \in Nat
        /\ WriteChunkLen(tx_in', tx_out') \in Nat
    BY <1>1, <2>1, WriteChunkLenIs, NextSlotIs, ConstantsAssumption
  <2> QED
    BY <1>1, <2>1, <2>2, <2>3 DEF Writing
<1>10. CASE IsrReceive
  BY <1>10 DEF IsrReceive, callVars, txVars, Writing
<1>11. CASE UNCHANGED <<pc, loc, rx_in, rx_out, tx_in, tx_out>>
  BY <1>11 DEF Writing
<1> QED
  BY <1>2, <1>3, <1>4, <1>5, <1>6, <1>7, <1>8, <1>9, <1>10, <1>11, Progress
     DEF Running

-----------------------------------------------------------------------------
(***************************************************************************)
(* The interrupts.                                                         *)
(***************************************************************************)

LEMMA ReceivingStep ==
  ASSUME TypeOK, Receiving, [Next]_vars
  PROVE  Receiving'
<1>1. CASE Calls \/ Running
  <2>1. isr = "none"
    BY <1>1
       DEF Calls, ReadCalls, ReadCall, ReadNothing, WriteCall, CloseCall,
           SetTimeout, Call, Running, ReadChunk, ReadCopy, ReadAdvance,
           ReadSpin, ReadRecheck, ReadEnable, WriteChunk, WriteCopy,
           WriteAdvance, WriteEnable, WriteSpin, WriteCheck, CloseDrain, At
  <2> QED
    BY <1>1, <2>1, ForegroundFrame DEF Receiving, isrVars
<1>2. CASE IsrReceive
  <2>1. isr' = "rx_end" => UNCHANGED <<rx_in, rx_out>> /\ (avail' => RxRingFull)
    BY <1>2 DEF IsrReceive, InIsr
  <2> QED
    BY <2>1 DEF Receiving, RxRingFull, NextSlot
<1>3. CASE \/ IsrEnter \/ IsrReadControl \/ IsrReceiveEnd \/ IsrTransmit
           \/ IsrTransmitEnd \/ Alarm
  BY <1>3 DEF IsrEnter, IsrReadControl, IsrReceiveEnd, IsrTransmit,
              IsrTransmitEnd, Alarm, AlarmExpire, AlarmClearActivity, InIsr,
              Receiving
<1>4. CASE Host \/ UNCHANGED vars
  BY <1>4 DEF Host, HostSend, HostTake, HostPoll, HostLeave, vars, isrVars,
              rxVars, Receiving, RxRingFull, NextSlot
<1> QED
  BY <1>1, <1>2, <1>3, <1>4 DEF Next, Isr

LEMMA RegisterKnownStep ==
  ASSUME RegisterKnown, [Next]_vars
  PROVE  RegisterKnown'
BY Frames DEF ReadEnable, WriteEnable, IsrReceiveEnd, IsrTransmitEnd,
              AlarmClearActivity, Enable, Disable, WriteControl, ctlVars,
              RegisterKnown

LEMMA ReceiveArmedStep ==
  ASSUME TypeOK, Reading, Receiving, ReceiveArmed, [Next]_vars
  PROVE  ReceiveArmed'
<1>1. /\ rx_in \in Slot /\ rx_out \in Slot /\ loc \in Locals
      /\ loc.left \in Nat /\ loc.done \in Nat /\ loc.n \in Nat
  BY DEF TypeOK, RxTypes, CallTypes, Locals
<1>2. CASE Calls
  BY <1>2, CallLocals DEF ReceiveArmed
<1>3. CASE ReadChunk
  <2> DEFINE len == ReadChunkLen(rx_in, rx_out)
             locals == Chunk(len, rx_in, rx_out)
  <2>1. pc = "rd_chunk" /\ UNCHANGED <<rx_in, rx_out, irq_enable>>
    BY <1>3 DEF ReadChunk, At, LocalStep, rxVars, ctlVars
  <2>2. len \in 0 .. BufLen - 1 /\ (len = 0 <=> rx_in = rx_out)
    BY <1>1, ReadChunkLenIs
  <2>3. locals.done = loc.done
    BY <1>1, <2>2, ChunkLocals
  <2>4. CASE rx_in = rx_out
    <3>1. ReadLoopEnds(locals)
      BY <1>3, <2>2, <2>4 DEF ReadChunk
    <3>2. loc.done > 0 => pc' = "rd_enable"
      BY <1>1, <2>3, <3>1 DEF ReadLoopEnds, Goto
    <3> QED
      BY <2>1, <2>4, <3>2 DEF ReceiveArmed
  <2>5. CASE rx_in # rx_out
    BY <2>1, <2>5 DEF ReceiveArmed
  <2> QED
    BY <2>4, <2>5
<1>4. CASE ReadAdvance
  <2>1. pc = "rd_copy" /\ loc.n > 0 /\ loc.n <= loc.left
    BY <1>4 DEF ReadAdvance, At, Reading
  <2>2. Advanced.done = loc.done + loc.n
    BY <2>1, AdvancedLocals
  <2>3. \/ pc' = "rd_chunk" /\ loc' = Advanced
        \/ pc' = "rd_enable"
        \/ Advanced.done = 0
    BY <1>4 DEF ReadAdvance, ReadLoopEnds, Goto
  <2> QED
    BY <1>1, <2>1, <2>2, <2>3 DEF ReceiveArmed
<1>5. CASE ReadEnable \/ WriteEnable
  BY <1>5 DEF ReadEnable, WriteEnable, At, Enable, WriteControl, rxVars,
              ReceiveArmed
<1>6. CASE ReadCopy \/ ReadSpin \/ ReadRecheck
  BY <1>6 DEF ReadCopy, ReadSpin, ReadRecheck, At, Goto, LocalStep, rxVars,
              ctlVars, ReceiveArmed
<1>7. CASE WriteChunk \/ WriteCopy \/ WriteAdvance
  BY <1>7 DEF WriteChunk, WriteCopy, WriteAdvance, At, LocalStep, rxVars,
              ctlVars, ReceiveArmed
<1>8. CASE WriteSpin \/ WriteCheck \/ CloseDrain
  BY <1>8 DEF WriteSpin, WriteCheck, CloseDrain, At, LocalStep, rxVars,
              ctlVars, ReceiveArmed
<1>9. CASE IsrReceive
  <2>1. UNCHANGED <<pc, loc, rx_out, irq_enable>>
    BY <1>9 DEF IsrReceive, callVars, ctlVars
  <2>2. rx_in' = rx_in \/ (rx_in' = NextSlot(rx_in) /\ NextSlot(rx_in) # rx_out)
    BY <1>9 DEF IsrReceive, RxRingFull
  <2> QED
    BY <2>1, <2>2 DEF ReceiveArmed
<1>10. CASE IsrReceiveEnd
  <2>1. UNCHANGED <<pc, loc, rx_in, rx_out>>
    BY <1>10 DEF IsrReceiveEnd, callVars, rxVars
  <2>2. CASE avail
    <3>1. NextSlot(rx_in) = rx_out
      BY <1>10, <2>2 DEF IsrReceiveEnd, InIsr, Receiving, RxRingFull
    <3> QED
      BY <1>1, <2>1, <3>1, NextSlotIs DEF ReceiveArmed
  <2>3. CASE ~avail
    BY <1>10, <2>1, <2>3 DEF IsrReceiveEnd, ctlVars, ReceiveArmed
  <2> QED
    BY <2>2, <2>3
<1>11. CASE IsrTransmitEnd
  BY <1>11 DEF IsrTransmitEnd, Disable, WriteControl, callVars, rxVars,
               ctlVars, ReceiveArmed
<1>12. CASE IsrEnter \/ IsrReadControl \/ IsrTransmit \/ Alarm
  BY <1>12 DEF IsrEnter, IsrReadControl, IsrTransmit, Alarm, AlarmExpire,
               AlarmClearActivity, callVars, rxVars, ctlVars, ReceiveArmed
<1>13. CASE Host \/ UNCHANGED vars
  BY <1>13 DEF Host, HostSend, HostTake, HostPoll, HostLeave, vars, callVars,
               rxVars, ctlVars, ReceiveArmed
<1> QED
  BY <1>2, <1>3, <1>4, <1>5, <1>6, <1>7, <1>8, <1>9, <1>10, <1>11, <1>12,
     <1>13 DEF Next, Running, Isr

LEMMA TransmitArmedStep ==
  ASSUME TypeOK, TransmitArmed, [Next]_vars
  PROVE  TransmitArmed'
<1>1. CASE Calls
  BY <1>1, CallLocals DEF TransmitArmed
<1>2. CASE ReadChunk \/ ReadCopy \/ ReadAdvance \/ ReadSpin \/ ReadRecheck
  BY <1>2 DEF ReadChunk, ReadCopy, ReadAdvance, ReadSpin, ReadRecheck, At,
              LocalStep, txVars, ctlVars, TransmitArmed
<1>3. CASE ReadEnable \/ WriteEnable
  BY <1>3 DEF ReadEnable, WriteEnable, At, Enable, WriteControl, txVars,
              TransmitArmed
<1>4. CASE WriteChunk \/ WriteCopy \/ WriteAdvance
  BY <1>4 DEF WriteChunk, WriteCopy, WriteAdvance, Goto, TransmitArmed
<1>5. CASE WriteSpin \/ WriteCheck \/ CloseDrain
  BY <1>5 DEF WriteSpin, WriteCheck, CloseDrain, At, LocalStep, txVars,
              ctlVars, TransmitArmed
<1>6. CASE IsrTransmit
  BY <1>6 DEF IsrTransmit, callVars, ctlVars, TransmitArmed
<1>7. CASE IsrTransmitEnd
  <2>1. UNCHANGED <<pc, tx_in, tx_out>> /\ (space = 0 \/ tx_out = tx_in)
    BY <1>7 DEF IsrTransmitEnd, callVars, txVars
  <2>2. RingDrained => tx_out = tx_in
    BY <2>1 DEF RingDrained, TypeOK, IsrTypes
  <2>3. ~RingDrained => UNCHANGED irq_enable
    BY <1>7 DEF IsrTransmitEnd, ctlVars
  <2> QED
    BY <2>1, <2>2, <2>3 DEF TransmitArmed
<1>8. CASE IsrReceiveEnd
  BY <1>8 DEF IsrReceiveEnd, Disable, WriteControl, callVars, txVars, ctlVars,
              TransmitArmed
<1>9. CASE IsrEnter \/ IsrReadControl \/ IsrReceive \/ Alarm
  BY <1>9 DEF IsrEnter, IsrReadControl, IsrReceive, Alarm, AlarmExpire,
              AlarmClearActivity, callVars, txVars, ctlVars, TransmitArmed
<1>10. CASE Host \/ UNCHANGED vars
  BY <1>10 DEF Host, HostSend, HostTake, HostPoll, HostLeave, vars, callVars,
               txVars, ctlVars, TransmitArmed
<1> QED
  BY <1>1, <1>2, <1>3, <1>4, <1>5, <1>6, <1>7, <1>8, <1>9, <1>10
     DEF Next, Running, Isr

-----------------------------------------------------------------------------
(***************************************************************************)
(* The inductive invariant.                                                *)
(***************************************************************************)

LEMMA InitIInv == Init => IInv
<1> SUFFICES ASSUME Init PROVE IInv
  OBVIOUS
<1>1. /\ 0 \in Slot /\ 0 \in 0 .. BufLen - 1 /\ 0 \in 0 .. TxDepth
      /\ 0 \in 0 .. IntMax - 2
      /\ DefaultTimeout \in 2 .. IntMax /\ IntMax \in 2 .. IntMax
      /\ RxDepth \in Nat /\ TxDepth \in Nat
  BY ConstantsAssumption DEF Slot
<1>2. RxTypes /\ TxTypes
  BY <1>1 DEF Init, RxTypes, TxTypes
<1>3. ControlTypes
  BY <1>1 DEF Init, ControlTypes, Control
<1>4. CallTypes /\ IsrTypes
  BY <1>1 DEF Init, CallTypes, IsrTypes, NoLocals, Locals
<1>5. Reading /\ Writing /\ Receiving
  BY DEF Init, Reading, Writing, Receiving
<1>6. RegisterKnown /\ ReceiveArmed /\ TransmitArmed
  BY DEF Init, RegisterKnown, ReceiveArmed, TransmitArmed
<1> QED
  BY <1>2, <1>3, <1>4, <1>5, <1>6 DEF IInv, TypeOK

LEMMA NextIInv == IInv /\ [Next]_vars => IInv'
BY TypeStep, ReadingStep, WritingStep, ReceivingStep, RegisterKnownStep,
   ReceiveArmedStep, TransmitArmedStep
   DEF IInv

LEMMA Invariance == Spec => []IInv
BY InitIInv, NextIInv, PTL DEF Spec

\* The ring indices stay inside the buffers, the device's FIFOs within their
\* depth and the inactivity count below INT_MAX - 1, and every other variable
\* has its type.
THEOREM TypeCorrect == Spec => []TypeOK
<1>1. IInv => TypeOK
  BY DEF IInv
<1> QED
  BY <1>1, Invariance, PTL

\* Receive interrupts that altera_avalon_jtag_uart_irq disabled on a full ring
\* are always enabled again: by the read that takes what is in the ring.
THEOREM ReceiveStaysArmed == Spec => []ReceiveArmed
<1>1. IInv => ReceiveArmed
  BY DEF IInv
<1> QED
  BY <1>1, Invariance, PTL

\* Characters in the transmit ring always have a transmit interrupt, on or
\* about to be turned on by the write that put them there.
THEOREM TransmitStaysArmed == Spec => []TransmitArmed
<1>1. IInv => TransmitArmed
  BY DEF IInv
<1> QED
  BY <1>1, Invariance, PTL

\* No read and no write waits for an interrupt that is off: the wake-up of a
\* spinning call cannot be lost.
THEOREM NoLostWakeUp == Spec => []WaiterArmed
<1>1. ASSUME IInv
      PROVE  WaiterArmed
  <2>1. pc = "rd_spin" /\ loc.in = rx_in => "RE" \in enabled
    BY <1>1 DEF IInv, Reading, ReceiveArmed, RegisterKnown
  <2>2. pc = "wr_spin" /\ loc.out = tx_out => "WE" \in enabled
    BY <1>1 DEF IInv, Writing, TransmitArmed, RegisterKnown
  <2> QED
    BY <2>1, <2>2 DEF WaiterArmed
<1> QED
  BY <1>1, Invariance, PTL

-----------------------------------------------------------------------------
(***************************************************************************)
(* The timeout.  quiet remembers that it was reached since the call began. *)
(* A read that has left its loop and finds rx_in where it was has left it  *)
(* because of the timeout: rx_in moves only away from rx_out, where it was *)
(* when the ring was found empty, and not as far as back to it.            *)
(***************************************************************************)
TimeoutSeen == pc # "idle" /\ TimedOut => quiet

GivesUp == pc = "rd_recheck" /\ loc.in = rx_in => quiet

LEMMA TimeoutSeenStep ==
  ASSUME TypeOK, TimeoutSeen, [Next]_vars
  PROVE  TimeoutSeen'
<1>1. CASE Calls
  <2>1. \/ pc' = "idle"
        \/ quiet' = TimedOut /\ UNCHANGED <<host_inactive, timeout>>
    BY <1>1 DEF Calls, ReadCalls, ReadCall, ReadNothing, WriteCall, CloseCall,
                SetTimeout, Call, Return, At, callVars
  <2> QED
    BY <2>1 DEF TimeoutSeen, TimedOut
<1>2. CASE Running
  <2>1. pc # "idle" /\ UNCHANGED timeVars
    BY <1>2 DEF Running, ReadChunk, ReadCopy, ReadAdvance, ReadSpin,
                ReadRecheck, ReadEnable, WriteChunk, WriteCopy, WriteAdvance,
                WriteEnable, WriteSpin, WriteCheck, CloseDrain, At, LocalStep
  <2> QED
    BY <2>1 DEF TimeoutSeen, TimedOut, timeVars
<1>3. CASE AlarmExpire
  <2>1. UNCHANGED <<pc, timeout>>
    BY <1>3 DEF AlarmExpire, callVars
  <2>2. \/ UNCHANGED <<host_inactive, quiet>>
        \/ quiet' = (quiet \/ host_inactive' >= timeout)
    BY <1>3, Zenon DEF AlarmExpire
  <2> QED
    BY <2>1, <2>2, Zenon DEF TimeoutSeen, TimedOut
<1>4. CASE AlarmClearActivity
  <2>1. host_inactive' = 0 /\ timeout' = timeout /\ timeout \in 2 .. IntMax
    BY <1>4 DEF AlarmClearActivity, TypeOK, ControlTypes
  <2> QED
    BY <2>1, ConstantsAssumption DEF TimeoutSeen, TimedOut
<1>5. CASE Isr \/ Host \/ UNCHANGED vars
  <2>1. UNCHANGED <<pc, host_inactive, timeout, quiet>>
    BY <1>5 DEF Isr, IsrEnter, IsrReadControl, IsrReceive, IsrReceiveEnd,
                IsrTransmit, IsrTransmitEnd, Host, HostSend, HostTake,
                HostPoll, HostLeave, callVars, timeVars, vars
  <2> QED
    BY <2>1 DEF TimeoutSeen, TimedOut
<1> QED
  BY <1>1, <1>2, <1>3, <1>4, <1>5 DEF Next, Alarm

LEMMA GivesUpStep ==
  ASSUME TypeOK, Reading, TimeoutSeen, GivesUp, [Next]_vars
  PROVE  GivesUp'
<1>1. CASE Calls
  BY <1>1, CallLocals DEF GivesUp
<1>2. CASE ReadSpin
  <2>1. /\ pc = "rd_spin"
        /\ loc.in # rx_in \/ TimedOut
        /\ loc' = loc /\ UNCHANGED <<rx_in, quiet>>
    BY <1>2 DEF ReadSpin, At, Goto, LocalStep, rxVars, timeVars
  <2> QED
    BY <2>1 DEF TimeoutSeen, GivesUp
<1>3. CASE Running /\ ~ReadSpin
  <2>1. pc' # "rd_recheck"
    BY <1>3 DEF Running, ReadChunk, ReadCopy, ReadAdvance, ReadRecheck,
                ReadEnable, ReadLoopEnds, WriteChunk, WriteCopy, WriteAdvance,
                WriteEnable, WriteSpin, WriteCheck, CloseDrain, Goto, Return
  <2> QED
    BY <2>1 DEF GivesUp
<1>4. CASE IsrReceive
  <2>1. UNCHANGED <<pc, loc, quiet>>
    BY <1>4 DEF IsrReceive, callVars, timeVars
  <2>2. rx_in' = rx_in \/ rx_in' # rx_out
    BY <1>4 DEF IsrReceive, RxRingFull
  <2> QED
    BY <2>1, <2>2 DEF Reading, GivesUp
<1>5. CASE (Isr /\ ~IsrReceive) \/ AlarmClearActivity \/ Host \/ UNCHANGED vars
  <2>1. UNCHANGED <<pc, loc, rx_in, quiet>>
    BY <1>5 DEF Isr, IsrEnter, IsrReadControl, IsrReceiveEnd, IsrTransmit,
                IsrTransmitEnd, AlarmClearActivity, Host, HostSend, HostTake,
                HostPoll, HostLeave, callVars, timeVars, rxVars, vars
  <2> QED
    BY <2>1 DEF GivesUp
<1>6. CASE AlarmExpire
  <2>1. UNCHANGED <<pc, loc, rx_in>>
    BY <1>6 DEF AlarmExpire, callVars, rxVars
  <2>2. quiet => quiet'
    BY <1>6, Zenon DEF AlarmExpire
  <2> QED
    BY <2>1, <2>2 DEF GivesUp
<1> QED
  BY <1>1, <1>2, <1>3, <1>4, <1>5, <1>6 DEF Next, Alarm

\* altera_avalon_jtag_uart_read gives up only after the inactivity timeout,
\* however the interrupt routine and the alarm come between its last look at
\* the ring and its decision.
THEOREM ReadsFailOnTimeout == Spec => ReadFailsOnTimeout
<1>1. Init => TimeoutSeen /\ GivesUp
  BY DEF Init, TimeoutSeen, GivesUp
<1>2. IInv /\ TimeoutSeen /\ GivesUp /\ [Next]_vars => (TimeoutSeen /\ GivesUp)'
  BY TimeoutSeenStep, GivesUpStep DEF IInv
<1>3. GivesUp /\ [Next]_vars => [pc = "rd_recheck" /\ pc' = "idle" => quiet]_vars
  <2> SUFFICES ASSUME GivesUp, [Next]_vars, pc = "rd_recheck", pc' = "idle"
               PROVE  quiet
    OBVIOUS
  <2>1. CASE ReadRecheck
    BY <2>1 DEF ReadRecheck, Goto, GivesUp
  <2>2. CASE ~ReadRecheck
    BY <2>2, CallLocals
       DEF Next, Running, ReadChunk, ReadCopy, ReadAdvance, ReadSpin,
           ReadEnable, WriteChunk, WriteCopy, WriteAdvance, WriteEnable,
           WriteSpin, WriteCheck, CloseDrain, At, Isr, IsrEnter,
           IsrReadControl, IsrReceive, IsrReceiveEnd, IsrTransmit,
           IsrTransmitEnd, Alarm, AlarmExpire, AlarmClearActivity, Host,
           HostSend, HostTake, HostPoll, HostLeave, callVars, vars
  <2> QED
    BY <2>1, <2>2
<1> QED
  BY <1>1, <1>2, <1>3, Invariance, PTL DEF Spec, ReadFailsOnTimeout

-----------------------------------------------------------------------------
(***************************************************************************)
(* Streams.  Each direction loses, duplicates and reorders no character    *)
(* and implements ByteStream.  The invariant says of every place a         *)
(* character can be in which character is there: the slot of a ring that   *)
(* is d slots after the oldest one holds the character d places later in   *)
(* the stream.                                                             *)
(***************************************************************************)
\* How many slots b is after a.
Dist(a, b) == IF b >= a THEN b - a ELSE b - a + BufLen

\* The n characters after the first k.
Run(k, n) == [i \in 1 .. n |-> k + i]

RxHeld == Dist(RxCopied, rx_in)

RxPlaces ==
  /\ Len(received) + RxHeld + Len(rx_fifo) = sent
  /\ \A i \in 1 .. Len(received) : received[i] = i
  /\ \A s \in Slot :
       Dist(RxCopied, s) < RxHeld =>
         rx_buf[s] = Len(received) + Dist(RxCopied, s) + 1
  /\ \A i \in 1 .. Len(rx_fifo) : rx_fifo[i] = Len(received) + RxHeld + i

TxHeld == Dist(tx_out, TxCopied)

TxPlaces ==
  /\ Len(transmitted) + Len(tx_fifo) + TxHeld = accepted
  /\ \A i \in 1 .. Len(transmitted) : transmitted[i] = i
  /\ \A i \in 1 .. Len(tx_fifo) : tx_fifo[i] = Len(transmitted) + i
  /\ \A s \in Slot :
       Dist(tx_out, s) < TxHeld =>
         tx_buf[s] = Len(transmitted) + Len(tx_fifo) + Dist(tx_out, s) + 1

\* The room altera_avalon_jtag_uart_irq read from the device is still there:
\* the host only makes more.
RoomKnown ==
  isr \in {"rx", "rx_end", "tx"} => space <= TxDepth - Len(tx_fifo)

SInv == IInv /\ RxPlaces /\ TxPlaces /\ RoomKnown

-----------------------------------------------------------------------------
(***************************************************************************)
(* Distances in a ring.                                                    *)
(***************************************************************************)

LEMMA DistIs ==
  ASSUME NEW a \in Slot, NEW b \in Slot
  PROVE  Dist(a, b) \in 0 .. BufLen - 1 /\ (Dist(a, b) = 0 <=> a = b)
BY ConstantsAssumption DEF Dist, Slot

LEMMA DistInjective ==
  ASSUME NEW a \in Slot, NEW b \in Slot, NEW c \in Slot,
         Dist(a, b) = Dist(a, c)
  PROVE  b = c
BY ConstantsAssumption DEF Dist, Slot

\* The far end of a stretch moves on.
LEMMA DistGrows ==
  ASSUME NEW a \in Slot, NEW b \in Slot, NextSlot(b) # a
  PROVE  Dist(a, NextSlot(b)) = Dist(a, b) + 1
BY NextSlotIs, ConstantsAssumption DEF Dist, Slot

\* The near end of a stretch moves on.
LEMMA DistShrinks ==
  ASSUME NEW a \in Slot, NEW b \in Slot, a # b
  PROVE  Dist(NextSlot(a), b) = Dist(a, b) - 1
BY NextSlotIs, ConstantsAssumption DEF Dist, Slot

LEMMA DistAround ==
  ASSUME NEW a \in Slot
  PROVE  Dist(NextSlot(a), a) = BufLen - 1
BY NextSlotIs, ConstantsAssumption DEF Dist, Slot

\* The slots of a ring from a on, by their distance from it.
LEMMA RingSlots ==
  ASSUME NEW a \in Slot, NEW b \in Slot
  PROVE  /\ (b - a) % BufLen = Dist(a, b)
         /\ \A i \in 1 .. Dist(a, b) :
              /\ (a + i - 1) % BufLen \in Slot
              /\ Dist(a, (a + i - 1) % BufLen) = i - 1
<1>1. ASSUME NEW x \in 0 .. 2 * BufLen - 1
      PROVE  x % BufLen = IF x < BufLen THEN x ELSE x - BufLen
  BY <1>1, ConstantsAssumption
<1>2. (b - a) % BufLen = Dist(a, b)
  BY ConstantsAssumption DEF Dist, Slot
<1>3. ASSUME NEW i \in 1 .. Dist(a, b)
      PROVE  /\ (a + i - 1) % BufLen \in Slot
             /\ Dist(a, (a + i - 1) % BufLen) = i - 1
  <2> DEFINE x == a + i - 1
  <2>1. x \in 0 .. 2 * BufLen - 1 /\ i - 1 < BufLen /\ i >= 1 /\ i \in Nat
    BY DistIs, ConstantsAssumption DEF Slot
  <2> HIDE DEF x
  <2>2. x % BufLen = IF x < BufLen THEN x ELSE x - BufLen
    BY <1>1, <2>1
  <2>3. x % BufLen \in Slot /\ Dist(a, x % BufLen) = i - 1
    BY <2>1, <2>2, ConstantsAssumption DEF Dist, Slot, x
  <2> QED
    BY <2>3 DEF x
<1> QED
  BY <1>2, <1>3

-----------------------------------------------------------------------------
(***************************************************************************)
(* Where the copies have got to.                                           *)
(***************************************************************************)

\* The reader's copy is at a slot it has not freed yet, and the slot the
\* interrupt routine fills last is before it.
LEMMA RxCopiedIs ==
  ASSUME TypeOK, Reading
  PROVE  /\ RxCopied \in Slot
         /\ NextSlot(rx_in) # rx_out => NextSlot(rx_in) # RxCopied
         /\ pc = "rd_copy" /\ loc.copied < loc.n =>
              /\ loc.out + loc.copied = RxCopied
              /\ RxCopied # rx_in
              /\ (loc.out + (loc.copied + 1)) % BufLen = NextSlot(RxCopied)
<1>1. rx_in \in Slot /\ rx_out \in Slot /\ loc.n \in Nat /\ loc.copied \in Nat
  BY DEF TypeOK, RxTypes, CallTypes, Locals
<1>2. CASE pc # "rd_copy"
  BY <1>1, <1>2 DEF RxCopied
<1>3. CASE pc = "rd_copy"
  <2>1. /\ loc.out = rx_out /\ loc.copied <= loc.n
        /\ loc.n <= ReadChunkLen(rx_in, rx_out)
    BY <1>3 DEF Reading
  <2>2. /\ loc.copied <= ReadChunkLen(rx_in, rx_out)
        /\ loc.copied < loc.n => loc.copied < ReadChunkLen(rx_in, rx_out)
        /\ rx_out + ReadChunkLen(rx_in, rx_out) <= BufLen
        /\ ReadChunkLen(rx_in, rx_out) \in 0 .. BufLen - 1
    BY <1>1, <2>1, ReadChunkLenIs, ConstantsAssumption
  <2>3. RxCopied = (rx_out + loc.copied) % BufLen
    BY <1>3, <2>1 DEF RxCopied
  <2>4. RxCopied = IF rx_out + loc.copied = BufLen THEN 0 ELSE rx_out + loc.copied
    BY <1>1, <2>2, <2>3, Wrap, ConstantsAssumption DEF Slot
  <2>5. RxCopied \in Slot
    BY <1>1, <2>2, <2>4, ConstantsAssumption DEF Slot
  <2>6. NextSlot(rx_in) # rx_out => NextSlot(rx_in) # RxCopied
    BY <1>1, <2>2, <2>4, NextSlotIs, ConstantsAssumption DEF ReadChunkLen, Slot
  <2>7. ASSUME loc.copied < loc.n
        PROVE  /\ rx_out + loc.copied = RxCopied
               /\ RxCopied # rx_in
               /\ (rx_out + (loc.copied + 1)) % BufLen = NextSlot(RxCopied)
    <3>1. rx_out + loc.copied = RxCopied
      BY <1>1, <2>2, <2>4, <2>7, ConstantsAssumption DEF Slot
    <3>2. RxCopied # rx_in
      BY <1>1, <2>2, <2>7, <3>1, ConstantsAssumption DEF ReadChunkLen, Slot
    <3>3. rx_out + (loc.copied + 1) = RxCopied + 1
      BY <1>1, <3>1 DEF Slot
    <3> QED
      BY <3>1, <3>2, <3>3 DEF NextSlot
  <2> QED
    BY <2>1, <2>5, <2>6, <2>7
<1> QED
  BY <1>2, <1>3

\* The writer's copy never reaches the slot before the oldest character, the
\* one that always stays free.
LEMMA TxCopiedIs ==
  ASSUME TypeOK, Writing
  PROVE  /\ TxCopied \in Slot
         /\ tx_in # tx_out => TxCopied # tx_out
         /\ pc = "wr_copy" /\ loc.copied < loc.n =>
              /\ loc.in + loc.copied = TxCopied
              /\ NextSlot(TxCopied) # tx_out
              /\ (loc.in + (loc.copied + 1)) % BufLen = NextSlot(TxCopied)
<1>1. tx_in \in Slot /\ tx_out \in Slot /\ loc.n \in Nat /\ loc.copied \in Nat
  BY DEF TypeOK, TxTypes, CallTypes, Locals
<1>2. CASE pc # "wr_copy"
  BY <1>1, <1>2 DEF TxCopied
<1>3. CASE pc = "wr_copy"
  <2>1. /\ loc.in = tx_in /\ loc.copied <= loc.n
        /\ loc.n <= WriteChunkLen(tx_in, tx_out)
    BY <1>3 DEF Writing
  <2>2. /\ loc.copied <= WriteChunkLen(tx_in, tx_out)
        /\ loc.copied < loc.n => loc.copied < WriteChunkLen(tx_in, tx_out)
        /\ tx_in + WriteChunkLen(tx_in, tx_out) <= BufLen
        /\ WriteChunkLen(tx_in, tx_out) \in 0 .. BufLen - 1
    BY <1>1, <2>1, WriteChunkLenIs, ConstantsAssumption
  <2>3. TxCopied = (tx_in + loc.copied) % BufLen
    BY <1>3, <2>1 DEF TxCopied
  <2>4. TxCopied = IF tx_in + loc.copied = BufLen THEN 0 ELSE tx_in + loc.copied
    BY <1>1, <2>2, <2>3, Wrap, ConstantsAssumption DEF Slot
  <2>5. TxCopied \in Slot
    BY <1>1, <2>2, <2>4, ConstantsAssumption DEF Slot
  <2>6. tx_in # tx_out => TxCopied # tx_out
    BY <1>1, <2>2, <2>4, ConstantsAssumption DEF WriteChunkLen, Slot
  <2>7. ASSUME loc.copied < loc.n
        PROVE  /\ tx_in + loc.copied = TxCopied
               /\ NextSlot(TxCopied) # tx_out
               /\ (tx_in + (loc.copied + 1)) % BufLen = NextSlot(TxCopied)
    <3>1. tx_in + loc.copied = TxCopied
      BY <1>1, <2>2, <2>4, <2>7, ConstantsAssumption DEF Slot
    <3>2. NextSlot(TxCopied) # tx_out
      BY <1>1, <2>2, <2>5, <2>7, <3>1, NextSlotIs, ConstantsAssumption
         DEF WriteChunkLen, Slot
    <3>3. tx_in + (loc.copied + 1) = TxCopied + 1
      BY <1>1, <3>1 DEF Slot
    <3> QED
      BY <3>1, <3>2, <3>3 DEF NextSlot
  <2> QED
    BY <2>1, <2>5, <2>6, <2>7
<1> QED
  BY <1>2, <1>3

\* Only the copy of a character moves the reader.
LEMMA RxCopiedFrame ==
  ASSUME TypeOK, Reading, [Next]_vars
  PROVE  ReadCopy \/ RxCopied' = RxCopied
<1>1. rx_in \in Slot /\ rx_out \in Slot
  BY DEF TypeOK, RxTypes
<1>2. CASE Calls
  BY <1>2, CallLocals DEF RxCopied
<1>3. CASE ReadChunk
  <2> DEFINE len == ReadChunkLen(rx_in, rx_out)
             locals == Chunk(len, rx_in, rx_out)
  <2>1. pc = "rd_chunk" /\ rx_out' = rx_out
    BY <1>3 DEF ReadChunk, At, LocalStep, rxVars
  <2>2. locals.out = rx_out /\ locals.copied = 0
    BY <1>1, ReadChunkLenIs, ChunkLocals
  <2>3. pc' = "rd_copy" => loc' = locals
    BY <1>3 DEF ReadChunk, ReadLoopEnds, Goto, Return
  <2> HIDE DEF locals
  <2>4. (rx_out + 0) % BufLen = rx_out
    BY <1>1, Wrap, ConstantsAssumption DEF Slot
  <2> QED
    BY <2>1, <2>2, <2>3, <2>4 DEF RxCopied
<1>4. CASE ReadAdvance
  BY <1>4 DEF ReadAdvance, At, ReadLoopEnds, Goto, Return, RxCopied
<1>5. CASE ReadSpin \/ ReadRecheck \/ ReadEnable
  BY <1>5 DEF ReadSpin, ReadRecheck, ReadEnable, At, Goto, Return, LocalStep,
              rxVars, RxCopied
<1>6. CASE WriteChunk \/ WriteCopy \/ WriteAdvance
  BY <1>6 DEF WriteChunk, WriteCopy, WriteAdvance, At, Goto, Return, LocalStep,
              rxVars, RxCopied
<1>7. CASE WriteEnable \/ WriteSpin \/ WriteCheck \/ CloseDrain
  BY <1>7 DEF WriteEnable, WriteSpin, WriteCheck, CloseDrain, At, Goto, Return,
              LocalStep, rxVars, RxCopied
<1>8. CASE IsrReceive \/ IsrTransmit
  BY <1>8 DEF IsrReceive, IsrTransmit, callVars, rxVars, RxCopied
<1>9. CASE UNCHANGED <<pc, loc, rx_in, rx_out, tx_in, tx_out>>
  BY <1>9 DEF RxCopied
<1> QED
  BY <1>2, <1>3, <1>4, <1>5, <1>6, <1>7, <1>8, <1>9, Progress DEF Running

\* Only the copy of a character moves the writer.
LEMMA TxCopiedFrame ==
  ASSUME TypeOK, Writing, [Next]_vars
  PROVE  WriteCopy \/ TxCopied' = TxCopied
<1>1. tx_in \in Slot /\ tx_out \in Slot
  BY DEF TypeOK, TxTypes
<1>2. CASE Calls
  BY <1>2, CallLocals DEF TxCopied
<1>3. CASE WriteChunk
  <2> DEFINE len == WriteChunkLen(tx_in, tx_out)
             locals == Chunk(len, tx_in, tx_out)
  <2>1. pc = "wr_chunk" /\ tx_in' = tx_in
    BY <1>3 DEF WriteChunk, At, LocalStep, txVars
  <2>2. locals.in = tx_in /\ locals.copied = 0
    BY <1>1, WriteChunkLenIs, ChunkLocals
  <2>3. pc' = "wr_copy" => loc' = locals
    BY <1>3 DEF WriteChunk, Goto
  <2> HIDE DEF locals
  <2>4. (tx_in + 0) % BufLen = tx_in
    BY <1>1, Wrap, ConstantsAssumption DEF Slot
  <2> QED
    BY <2>1, <2>2, <2>3, <2>4 DEF TxCopied
<1>4. CASE WriteAdvance
  BY <1>4 DEF WriteAdvance, At, Goto, TxCopied
<1>5. CASE ReadChunk \/ ReadCopy \/ ReadAdvance
  BY <1>5 DEF ReadChunk, ReadCopy, ReadAdvance, ReadLoopEnds, At, Goto, Return,
              LocalStep, txVars, TxCopied
<1>6. CASE ReadSpin \/ ReadRecheck \/ ReadEnable
  BY <1>6 DEF ReadSpin, ReadRecheck, ReadEnable, At, Goto, Return, LocalStep,
              txVars, TxCopied
<1>7. CASE WriteEnable \/ WriteSpin \/ WriteCheck \/ CloseDrain
  BY <1>7 DEF WriteEnable, WriteSpin, WriteCheck, CloseDrain, At, Goto, Return,
              LocalStep, txVars, TxCopied
<1>8. CASE IsrReceive \/ IsrTransmit
  BY <1>8 DEF IsrReceive, IsrTransmit, callVars, txVars, TxCopied
<1>9. CASE UNCHANGED <<pc, loc, rx_in, rx_out, tx_in, tx_out>>
  BY <1>9 DEF TxCopied
<1> QED
  BY <1>2, <1>3, <1>4, <1>5, <1>6, <1>7, <1>8, <1>9, Progress DEF Running

-----------------------------------------------------------------------------
(***************************************************************************)
(* Receiving.                                                              *)
(***************************************************************************)

\* A character that moves on or is added changes no more than its two counts.
LEMMA SumMoves ==
  ASSUME NEW a \in Nat, NEW b \in Nat, NEW c \in Nat, NEW d \in Nat,
         a + b + c = d
  PROVE  a + (b + 1) + (c - 1) = d /\ a + b + (c + 1) = d + 1
OBVIOUS

LEMMA RxPlacesStep ==
  ASSUME TypeOK, Reading, RxPlaces, [Next]_vars
  PROVE  RxPlaces'
<1>1. /\ rx_in \in Slot /\ RxCopied \in Slot /\ rx_buf \in [Slot -> Nat]
      /\ rx_fifo \in Seq(Nat) /\ received \in Seq(Nat) /\ sent \in Nat
      /\ Len(rx_fifo) \in Nat /\ Len(received) \in Nat
  BY RxCopiedIs DEF TypeOK, RxTypes
<1>2. RxHeld \in 0 .. BufLen - 1 /\ BufLen \in Nat
  BY <1>1, DistIs, ConstantsAssumption DEF RxHeld
<1>sum. Len(received) + RxHeld + Len(rx_fifo) = sent
  BY DEF RxPlaces
<1>nat. /\ Len(received) \in Nat /\ RxHeld \in Nat
        /\ Len(rx_fifo) \in Nat /\ sent \in Nat
  BY <1>1, <1>2
<1>3. CASE ReadCopy
  <2>1. /\ pc = "rd_copy" /\ loc.copied < loc.n
        /\ received' = Append(received, rx_buf[loc.out + loc.copied])
        /\ pc' = "rd_copy" /\ loc' = Copied
        /\ UNCHANGED <<rx_in, rx_buf, rx_fifo, sent>>
    BY <1>3 DEF ReadCopy, At, Goto
  <2>2. /\ loc.out + loc.copied = RxCopied /\ RxCopied # rx_in
        /\ (loc.out + (loc.copied + 1)) % BufLen = NextSlot(RxCopied)
    BY <2>1, RxCopiedIs
  <2>3. loc'.out = loc.out /\ loc'.copied = loc.copied + 1
    BY <2>1 DEF Copied, TypeOK, CallTypes, Locals
  <2>4. RxCopied' = NextSlot(RxCopied)
    BY <2>1, <2>2, <2>3 DEF RxCopied
  <2>5. RxHeld' = RxHeld - 1
    BY <1>1, <2>1, <2>2, <2>4, DistShrinks DEF RxHeld, Dist
  <2>6. Dist(RxCopied, RxCopied) = 0 /\ RxHeld # 0
    BY <1>1, <2>2, DistIs DEF RxHeld
  <2>7. rx_buf[RxCopied] = Len(received) + 1
    BY <1>1, <1>2, <2>6 DEF RxPlaces
  <2>8. /\ Len(received') = Len(received) + 1
        /\ \A i \in 1 .. Len(received') : received'[i] = i
    BY <1>1, <2>1, <2>2, <2>7 DEF RxPlaces
  <2>9. ASSUME NEW s \in Slot, Dist(RxCopied', s) < RxHeld'
        PROVE  rx_buf'[s] = Len(received') + Dist(RxCopied', s) + 1
    <3>1. s # RxCopied
      BY <1>1, <1>2, <2>4, <2>5, <2>9, DistAround
    <3>2. Dist(RxCopied', s) = Dist(RxCopied, s) - 1
      BY <1>1, <2>4, <3>1, DistShrinks
    <3>3. Dist(RxCopied, s) \in Nat
      BY <1>1, DistIs, ConstantsAssumption
    <3>4. rx_buf[s] = Len(received) + Dist(RxCopied, s) + 1
      BY <1>2, <2>5, <2>9, <3>2, <3>3 DEF RxPlaces
    <3> QED
      BY <1>1, <2>1, <2>8, <3>2, <3>3, <3>4
  <2>10. ASSUME NEW i \in 1 .. Len(rx_fifo')
         PROVE  rx_fifo'[i] = Len(received') + RxHeld' + i
    BY <1>1, <1>2, <2>1, <2>5, <2>8, <2>10 DEF RxPlaces
  <2>11. Len(received') + RxHeld' + Len(rx_fifo') = sent'
    BY <1>1, <1>2, <2>1, <2>5, <2>8 DEF RxPlaces
  <2> QED
    BY <2>8, <2>9, <2>10, <2>11 DEF RxPlaces
<1>4. CASE IsrReceive /\ ~RxRingFull /\ rx_fifo # <<>>
  <2>1. /\ rx_fifo' = Tail(rx_fifo)
        /\ rx_buf' = [rx_buf EXCEPT ![rx_in] = Head(rx_fifo)]
        /\ rx_in' = NextSlot(rx_in) /\ UNCHANGED <<sent, received>>
    BY <1>4 DEF IsrReceive
  <2>2. NextSlot(rx_in) # RxCopied
    BY <1>4, RxCopiedIs DEF RxRingFull
  <2>3. RxCopied' = RxCopied
    BY <1>4 DEF IsrReceive, callVars, RxCopied
  <2>4. RxHeld' = RxHeld + 1
    BY <1>1, <2>1, <2>2, <2>3, DistGrows DEF RxHeld, Dist
  <2>5. /\ Len(rx_fifo) > 0 /\ Len(rx_fifo') = Len(rx_fifo) - 1
        /\ \A i \in 1 .. Len(rx_fifo') : rx_fifo'[i] = rx_fifo[i + 1]
        /\ Head(rx_fifo) = rx_fifo[1]
    BY <1>1, <1>4, <2>1
  <2>6. ASSUME NEW s \in Slot, Dist(RxCopied', s) < RxHeld'
        PROVE  rx_buf'[s] = Len(received') + Dist(RxCopied', s) + 1
    <3>1. Dist(RxCopied, s) \in Nat /\ Dist(RxCopied, s) <= RxHeld
      BY <1>1, <1>2, <2>3, <2>4, <2>6, DistIs, ConstantsAssumption
    <3>2. CASE s = rx_in
      <4>1. rx_buf'[s] = Len(received) + RxHeld + 1
        BY <1>1, <1>2, <2>1, <2>5, <3>2 DEF RxPlaces
      <4> QED
        BY <2>1, <2>3, <3>2, <4>1 DEF RxHeld
    <3>3. CASE s # rx_in
      <4>1. Dist(RxCopied, s) # RxHeld
        BY <1>1, <3>3, DistInjective DEF RxHeld
      <4>2. rx_buf[s] = Len(received) + Dist(RxCopied, s) + 1
        BY <1>2, <3>1, <4>1 DEF RxPlaces
      <4> QED
        BY <1>1, <2>1, <2>3, <3>3, <4>2
    <3> QED
      BY <3>2, <3>3
  <2>7. ASSUME NEW i \in 1 .. Len(rx_fifo')
        PROVE  rx_fifo'[i] = Len(received') + RxHeld' + i
    <3>1. i + 1 \in 1 .. Len(rx_fifo)
      BY <1>1, <2>5, <2>7
    <3>2. rx_fifo[i + 1] = Len(received) + RxHeld + (i + 1)
      BY <3>1 DEF RxPlaces
    <3> QED
      BY <1>1, <1>2, <2>1, <2>4, <2>5, <2>7, <3>2
  <2>8. Len(received') + RxHeld' + Len(rx_fifo') = sent'
    <3>1. Len(received') = Len(received) /\ sent' = sent
      BY <2>1
    <3>2. Len(rx_fifo') = Len(rx_fifo) - 1
      BY <2>5
    <3>3. Len(received) + (RxHeld + 1) + (Len(rx_fifo) - 1) = sent
      BY <1>sum, <1>nat, SumMoves
    <3> QED
      BY <2>4, <3>1, <3>2, <3>3
  <2>9. \A i \in 1 .. Len(received') : received'[i] = i
    BY <2>1 DEF RxPlaces
  <2> QED
    BY <2>6, <2>7, <2>8, <2>9 DEF RxPlaces
<1>5. CASE HostSend
  <2>1. /\ sent' = sent + 1 /\ rx_fifo' = Append(rx_fifo, sent + 1)
        /\ UNCHANGED <<rx_in, rx_buf, received>>
    BY <1>5 DEF HostSend
  <2>2. RxCopied' = RxCopied
    BY <1>5 DEF HostSend, callVars, RxCopied
  <2>3. RxHeld' = RxHeld
    BY <2>1, <2>2 DEF RxHeld, Dist
  <2>4. Len(rx_fifo') = Len(rx_fifo) + 1
    BY <1>1, <2>1
  <2>5. ASSUME NEW i \in 1 .. Len(rx_fifo')
        PROVE  rx_fifo'[i] = Len(received') + RxHeld' + i
    <3>1. CASE i = Len(rx_fifo) + 1
      BY <1>1, <1>2, <2>1, <2>3, <3>1 DEF RxPlaces
    <3>2. CASE i # Len(rx_fifo) + 1
      <4>1. i \in 1 .. Len(rx_fifo) /\ rx_fifo'[i] = rx_fifo[i]
        BY <1>1, <2>1, <2>4, <3>2
      <4> QED
        BY <2>1, <2>3, <4>1 DEF RxPlaces
    <3> QED
      BY <3>1, <3>2
  <2>6. Len(received') + RxHeld' + Len(rx_fifo') = sent'
    <3>1. Len(received') = Len(received) /\ sent' = sent + 1
      BY <2>1
    <3>2. Len(received) + RxHeld + (Len(rx_fifo) + 1) = sent + 1
      BY <1>sum, <1>nat, SumMoves
    <3> QED
      BY <2>3, <2>4, <3>1, <3>2
  <2>7. \A i \in 1 .. Len(received') : received'[i] = i
    BY <2>1 DEF RxPlaces
  <2>8. ASSUME NEW s \in Slot, Dist(RxCopied', s) < RxHeld'
        PROVE  rx_buf'[s] = Len(received') + Dist(RxCopied', s) + 1
    BY <2>1, <2>2, <2>3, <2>8 DEF RxPlaces
  <2> QED
    BY <2>5, <2>6, <2>7, <2>8 DEF RxPlaces
<1>6. CASE /\ UNCHANGED <<rx_in, rx_buf, rx_fifo, sent, received>>
           /\ RxCopied' = RxCopied
  BY <1>6 DEF RxPlaces, RxHeld, Dist
<1>7. IsrReceive => \/ ~RxRingFull /\ rx_fifo # <<>>
                    \/ UNCHANGED <<rx_in, rx_buf, rx_fifo, sent, received>>
  BY DEF IsrReceive
<1>8. ReadAdvance \/ UNCHANGED rxVars =>
        UNCHANGED <<rx_in, rx_buf, rx_fifo, sent, received>>
  BY DEF ReadAdvance, rxVars
<1> QED
  BY <1>3, <1>4, <1>5, <1>6, <1>7, <1>8, Frames, RxCopiedFrame

-----------------------------------------------------------------------------
(***************************************************************************)
(* Transmitting.                                                           *)
(***************************************************************************)

LEMMA RoomKnownStep ==
  ASSUME TypeOK, RoomKnown, [Next]_vars
  PROVE  RoomKnown'
<1>1. /\ tx_fifo \in Seq(Nat) /\ Len(tx_fifo) \in Nat /\ Len(tx_fifo) <= TxDepth
      /\ space \in 0 .. TxDepth /\ TxDepth \in Nat
  BY ConstantsAssumption DEF TypeOK, TxTypes, IsrTypes
<1>2. CASE Calls \/ Running
  <2>1. isr' = isr /\ isr = "none"
    BY <1>2
       DEF Calls, ReadCalls, ReadCall, ReadNothing, WriteCall, CloseCall,
           SetTimeout, Call, Running, ReadChunk, ReadCopy, ReadAdvance,
           ReadSpin, ReadRecheck, ReadEnable, WriteChunk, WriteCopy,
           WriteAdvance, WriteEnable, WriteSpin, WriteCheck, CloseDrain, At,
           LocalStep, isrVars
  <2> QED
    BY <2>1 DEF RoomKnown
<1>3. CASE IsrReadControl
  <2>1. tx_fifo' = tx_fifo /\ (space' = TxDepth - Len(tx_fifo) \/ space' = 0)
    BY <1>3 DEF IsrReadControl, FifoSpace, txVars
  <2> QED
    BY <1>1, <2>1 DEF RoomKnown
<1>4. CASE IsrTransmit
  <2>1. isr = "tx" /\ isr' = isr /\ space' = space - 1
    BY <1>4 DEF IsrTransmit, InIsr
  <2>2. Len(tx_fifo') <= Len(tx_fifo) + 1 /\ Len(tx_fifo') \in Nat
    BY <1>1, <1>4 DEF IsrTransmit
  <2>3. space <= TxDepth - Len(tx_fifo)
    BY <2>1 DEF RoomKnown
  <2>4. space - 1 <= TxDepth - Len(tx_fifo')
    BY <1>1, <2>2, <2>3
  <2> QED
    BY <2>1, <2>4 DEF RoomKnown
<1>5. CASE IsrEnter \/ IsrReceive \/ IsrReceiveEnd \/ IsrTransmitEnd \/ Alarm
  BY <1>5 DEF IsrEnter, IsrReceive, IsrReceiveEnd, IsrTransmitEnd, Alarm,
              AlarmExpire, AlarmClearActivity, InIsr, txVars, RoomKnown
<1>6. CASE HostTake
  <2>1. Len(tx_fifo') = Len(tx_fifo) - 1 /\ UNCHANGED <<isr, space>>
    BY <1>1, <1>6 DEF HostTake, isrVars
  <2> QED
    BY <1>1, <2>1 DEF RoomKnown
<1>7. CASE HostSend \/ HostPoll \/ HostLeave \/ UNCHANGED vars
  BY <1>7 DEF HostSend, HostPoll, HostLeave, vars, txVars, isrVars, RoomKnown
<1> QED
  BY <1>2, <1>3, <1>4, <1>5, <1>6, <1>7 DEF Next, Isr, Host

LEMMA TxPlacesStep ==
  ASSUME TypeOK, Writing, RoomKnown, TxPlaces, [Next]_vars
  PROVE  TxPlaces'
<1>1. /\ tx_in \in Slot /\ tx_out \in Slot /\ TxCopied \in Slot
      /\ tx_buf \in [Slot -> Nat]
      /\ tx_fifo \in Seq(Nat) /\ transmitted \in Seq(Nat) /\ accepted \in Nat
      /\ Len(tx_fifo) \in Nat /\ Len(transmitted) \in Nat
  BY TxCopiedIs DEF TypeOK, TxTypes
<1>2. TxHeld \in 0 .. BufLen - 1 /\ TxHeld \in Nat /\ BufLen \in Nat
  BY <1>1, DistIs, ConstantsAssumption DEF TxHeld
<1>sum. Len(transmitted) + Len(tx_fifo) + TxHeld = accepted
  BY DEF TxPlaces
<1>3. CASE WriteCopy
  <2>1. /\ pc = "wr_copy" /\ loc.copied < loc.n
        /\ accepted' = accepted + 1
        /\ tx_buf' = [tx_buf EXCEPT ![loc.in + loc.copied] = accepted + 1]
        /\ pc' = "wr_copy" /\ loc' = Copied
        /\ UNCHANGED <<tx_in, tx_out, tx_fifo, transmitted>>
    BY <1>3 DEF WriteCopy, At, Goto
  <2>2. /\ loc.in + loc.copied = TxCopied /\ NextSlot(TxCopied) # tx_out
        /\ (loc.in + (loc.copied + 1)) % BufLen = NextSlot(TxCopied)
    BY <2>1, TxCopiedIs
  <2>3. loc'.in = loc.in /\ loc'.copied = loc.copied + 1
    BY <2>1 DEF Copied, TypeOK, CallTypes, Locals
  <2>4. TxCopied' = NextSlot(TxCopied)
    BY <2>1, <2>2, <2>3 DEF TxCopied
  <2>5. TxHeld' = TxHeld + 1
    BY <1>1, <2>1, <2>2, <2>4, DistGrows DEF TxHeld, Dist
  <2>6. tx_buf' = [tx_buf EXCEPT ![TxCopied] = accepted + 1]
    BY <2>1, <2>2
  <2>7. ASSUME NEW s \in Slot, Dist(tx_out', s) < TxHeld'
        PROVE  tx_buf'[s] = Len(transmitted') + Len(tx_fifo') + Dist(tx_out', s) + 1
    <3>1. Dist(tx_out, s) \in Nat /\ Dist(tx_out, s) <= TxHeld
      <4>1. Dist(tx_out, s) \in Nat
        BY <1>1, DistIs, ConstantsAssumption
      <4>2. Dist(tx_out, s) < TxHeld + 1
        BY <2>1, <2>5, <2>7
      <4> QED
        BY <1>2, <4>1, <4>2
    <3>2. CASE s = TxCopied
      <4>1. tx_buf'[s] = accepted + 1
        BY <1>1, <2>6, <3>2
      <4> QED
        BY <1>sum, <2>1, <3>2, <4>1 DEF TxHeld
    <3>3. CASE s # TxCopied
      <4>1. Dist(tx_out, s) # TxHeld
        BY <1>1, <3>3, DistInjective DEF TxHeld
      <4>2. tx_buf[s] = Len(transmitted) + Len(tx_fifo) + Dist(tx_out, s) + 1
        BY <1>2, <3>1, <4>1 DEF TxPlaces
      <4> QED
        BY <1>1, <2>1, <2>6, <3>3, <4>2
    <3> QED
      BY <3>2, <3>3
  <2>8. Len(transmitted') + Len(tx_fifo') + TxHeld' = accepted'
    <3>1. Len(transmitted) + Len(tx_fifo) + (TxHeld + 1) = accepted + 1
      BY <1>sum, <1>1, <1>2
    <3> QED
      BY <2>1, <2>5, <3>1
  <2>9. /\ \A i \in 1 .. Len(transmitted') : transmitted'[i] = i
        /\ \A i \in 1 .. Len(tx_fifo') : tx_fifo'[i] = Len(transmitted') + i
    BY <2>1 DEF TxPlaces
  <2> QED
    BY <2>7, <2>8, <2>9 DEF TxPlaces
<1>4. CASE IsrTransmit
  <2>1. /\ isr = "tx" /\ space > 0 /\ tx_out # tx_in
        /\ tx_out' = NextSlot(tx_out)
        /\ UNCHANGED <<tx_in, tx_buf, accepted, transmitted, pc, loc>>
    BY <1>4 DEF IsrTransmit, InIsr, callVars
  <2>2. Len(tx_fifo) < TxDepth
    BY <1>1, <2>1, ConstantsAssumption DEF RoomKnown, TypeOK, IsrTypes
  <2>3. tx_fifo' = Append(tx_fifo, tx_buf[tx_out])
    BY <1>4, <2>2 DEF IsrTransmit
  <2>4. TxCopied # tx_out /\ TxCopied' = TxCopied
    BY <2>1, TxCopiedIs DEF TxCopied
  <2>5. TxHeld' = TxHeld - 1
    BY <1>1, <2>1, <2>4, DistShrinks DEF TxHeld, Dist
  <2>6. Dist(tx_out, tx_out) = 0 /\ TxHeld # 0
    BY <1>1, <2>4, DistIs DEF TxHeld
  <2>7. tx_buf[tx_out] = Len(transmitted) + Len(tx_fifo) + 1
    <3>1. Dist(tx_out, tx_out) < TxHeld
      BY <1>2, <2>6
    <3>2. tx_buf[tx_out] =
            Len(transmitted) + Len(tx_fifo) + Dist(tx_out, tx_out) + 1
      BY <1>1, <3>1 DEF TxPlaces
    <3> QED
      BY <1>1, <2>6, <3>2
  <2>8. Len(tx_fifo') = Len(tx_fifo) + 1
    BY <1>1, <2>3
  <2>9. ASSUME NEW i \in 1 .. Len(tx_fifo')
        PROVE  tx_fifo'[i] = Len(transmitted') + i
    <3>1. CASE i = Len(tx_fifo) + 1
      BY <1>1, <2>1, <2>3, <2>7, <3>1
    <3>2. CASE i # Len(tx_fifo) + 1
      <4>1. i \in 1 .. Len(tx_fifo) /\ tx_fifo'[i] = tx_fifo[i]
        BY <1>1, <2>3, <2>8, <3>2
      <4> QED
        BY <2>1, <4>1 DEF TxPlaces
    <3> QED
      BY <3>1, <3>2
  <2>10. ASSUME NEW s \in Slot, Dist(tx_out', s) < TxHeld'
         PROVE  tx_buf'[s] = Len(transmitted') + Len(tx_fifo') + Dist(tx_out', s) + 1
    <3>1. s # tx_out
      BY <1>1, <1>2, <2>1, <2>5, <2>10, DistAround
    <3>2. Dist(tx_out', s) = Dist(tx_out, s) - 1
      BY <1>1, <2>1, <3>1, DistShrinks
    <3>3. Dist(tx_out, s) \in Nat
      BY <1>1, DistIs, ConstantsAssumption
    <3>4. tx_buf[s] = Len(transmitted) + Len(tx_fifo) + Dist(tx_out, s) + 1
      BY <1>2, <2>5, <2>10, <3>2, <3>3 DEF TxPlaces
    <3>5. tx_buf[s] = Len(transmitted) + (Len(tx_fifo) + 1) + (Dist(tx_out, s) - 1) + 1
      BY <1>1, <3>3, <3>4
    <3> QED
      BY <2>1, <2>8, <3>2, <3>5
  <2>11. Len(transmitted') + Len(tx_fifo') + TxHeld' = accepted'
    <3>1. Len(transmitted) + (Len(tx_fifo) + 1) + (TxHeld - 1) = accepted
      BY <1>sum, <1>1, <1>2
    <3> QED
      BY <2>1, <2>5, <2>8, <3>1
  <2>12. \A i \in 1 .. Len(transmitted') : transmitted'[i] = i
    BY <2>1 DEF TxPlaces
  <2> QED
    BY <2>9, <2>10, <2>11, <2>12 DEF TxPlaces
<1>5. CASE HostTake
  <2>1. /\ tx_fifo # <<>> /\ tx_fifo' = Tail(tx_fifo)
        /\ transmitted' = Append(transmitted, Head(tx_fifo))
        /\ UNCHANGED <<tx_in, tx_out, tx_buf, accepted, pc, loc>>
    BY <1>5 DEF HostTake, callVars
  <2>2. TxCopied' = TxCopied /\ TxHeld' = TxHeld
    BY <2>1 DEF TxCopied, TxHeld, Dist
  <2>3. /\ Len(tx_fifo) > 0 /\ Len(tx_fifo') = Len(tx_fifo) - 1
        /\ \A i \in 1 .. Len(tx_fifo') : tx_fifo'[i] = tx_fifo[i + 1]
        /\ Head(tx_fifo) = tx_fifo[1]
    BY <1>1, <2>1
  <2>4. Head(tx_fifo) = Len(transmitted) + 1
    BY <1>1, <2>3 DEF TxPlaces
  <2>5. /\ Len(transmitted') = Len(transmitted) + 1
        /\ \A i \in 1 .. Len(transmitted') : transmitted'[i] = i
    BY <1>1, <2>1, <2>4 DEF TxPlaces
  <2>6. ASSUME NEW i \in 1 .. Len(tx_fifo')
        PROVE  tx_fifo'[i] = Len(transmitted') + i
    <3>1. i + 1 \in 1 .. Len(tx_fifo)
      BY <1>1, <2>3, <2>6
    <3>2. tx_fifo[i + 1] = Len(transmitted) + (i + 1)
      BY <3>1 DEF TxPlaces
    <3> QED
      BY <1>1, <2>3, <2>5, <2>6, <3>2
  <2>7. ASSUME NEW s \in Slot, Dist(tx_out', s) < TxHeld'
        PROVE  tx_buf'[s] = Len(transmitted') + Len(tx_fifo') + Dist(tx_out', s) + 1
    <3>1. Dist(tx_out, s) \in Nat
      BY <1>1, DistIs, ConstantsAssumption
    <3>2. tx_buf[s] = Len(transmitted) + Len(tx_fifo) + Dist(tx_out, s) + 1
      BY <2>1, <2>2, <2>7 DEF TxPlaces
    <3>3. tx_buf[s] = (Len(transmitted) + 1) + (Len(tx_fifo) - 1) + Dist(tx_out, s) + 1
      BY <1>1, <3>1, <3>2
    <3>4. Len(tx_fifo') = Len(tx_fifo) - 1 /\ Len(transmitted') = Len(transmitted) + 1
      BY <2>3, <2>5
    <3> QED
      BY <2>1, <3>3, <3>4
  <2>8. Len(transmitted') + Len(tx_fifo') + TxHeld' = accepted'
    <3>1. (Len(transmitted) + 1) + (Len(tx_fifo) - 1) + TxHeld = accepted
      BY <1>sum, <1>1, <1>2
    <3>2. Len(tx_fifo') = Len(tx_fifo) - 1 /\ Len(transmitted') = Len(transmitted) + 1
      BY <2>3, <2>5
    <3> QED
      BY <2>1, <2>2, <3>1, <3>2
  <2> QED
    BY <2>5, <2>6, <2>7, <2>8 DEF TxPlaces
<1>6. CASE /\ UNCHANGED <<tx_out, tx_buf, tx_fifo, accepted, transmitted>>
           /\ TxCopied' = TxCopied
  BY <1>6 DEF TxPlaces, TxHeld, Dist
<1>7. WriteAdvance \/ UNCHANGED txVars =>
        UNCHANGED <<tx_out, tx_buf, tx_fifo, accepted, transmitted>>
  BY DEF WriteAdvance, txVars
<1> QED
  BY <1>3, <1>4, <1>5, <1>6, <1>7, Frames, TxCopiedFrame

-----------------------------------------------------------------------------
(***************************************************************************)
(* Stretches of the stream.                                                *)
(***************************************************************************)

LEMMA RunIs ==
  ASSUME NEW k \in Nat, NEW n \in Nat
  PROVE  /\ Run(k, n) \in Seq(Nat) /\ Len(Run(k, n)) = n
         /\ \A i \in 1 .. n : Run(k, n)[i] = k + i
BY DEF Run

\* A sequence of consecutive characters is a stretch of the stream.
LEMMA IsRun ==
  ASSUME NEW s \in Seq(Nat), NEW k \in Nat,
         \A i \in 1 .. Len(s) : s[i] = k + i
  PROVE  s = Run(k, Len(s))
<1>1. Len(s) \in Nat
  OBVIOUS
<1>2. /\ Run(k, Len(s)) \in Seq(Nat) /\ Len(Run(k, Len(s))) = Len(s)
      /\ \A i \in 1 .. Len(s) : Run(k, Len(s))[i] = k + i
  BY <1>1, RunIs
<1> QED
  BY <1>2, SeqEqual

LEMMA RunConcat ==
  ASSUME NEW k \in Nat, NEW m \in Nat, NEW n \in Nat
  PROVE  Run(k, m) \o Run(k + m, n) = Run(k, m + n)
<1> DEFINE a == Run(k, m)
           b == Run(k + m, n)
<1>1. /\ a \in Seq(Nat) /\ Len(a) = m /\ \A i \in 1 .. m : a[i] = k + i
      /\ b \in Seq(Nat) /\ Len(b) = n /\ \A i \in 1 .. n : b[i] = k + m + i
  <2>1. k + m \in Nat
    OBVIOUS
  <2> QED
    BY <2>1, RunIs
<1> HIDE DEF a, b
<1>2. /\ a \o b \in Seq(Nat) /\ Len(a \o b) = m + n
      /\ \A i \in 1 .. m + n : (a \o b)[i] = IF i <= m THEN a[i] ELSE b[i - m]
  BY <1>1, ConcatProperties
<1>3. ASSUME NEW i \in 1 .. Len(a \o b)
      PROVE  (a \o b)[i] = k + i
  <2>1. i \in 1 .. m + n
    BY <1>2
  <2>2. CASE i <= m
    BY <1>1, <1>2, <2>1, <2>2
  <2>3. CASE ~(i <= m)
    <3>1. i - m \in 1 .. n /\ (a \o b)[i] = b[i - m]
      BY <1>2, <2>1, <2>3
    <3>2. b[i - m] = k + m + (i - m)
      BY <1>1, <3>1
    <3> QED
      BY <2>1, <3>1, <3>2
  <2> QED
    BY <2>2, <2>3
<1>4. a \o b = Run(k, Len(a \o b))
  BY <1>2, <1>3, IsRun
<1> QED
  BY <1>2, <1>4 DEF a, b

LEMMA RunAppend ==
  ASSUME NEW k \in Nat, NEW n \in Nat
  PROVE  Append(Run(k, n), k + n + 1) = Run(k, n + 1)
<1>1. /\ Run(k, n) \in Seq(Nat) /\ Len(Run(k, n)) = n
      /\ \A i \in 1 .. n : Run(k, n)[i] = k + i
  BY RunIs
<1> DEFINE s == Append(Run(k, n), k + n + 1)
<1>2. s \in Seq(Nat) /\ Len(s) = n + 1
  BY <1>1
<1>3. ASSUME NEW i \in 1 .. Len(s)
      PROVE  s[i] = k + i
  BY <1>1, <1>2
<1> HIDE DEF s
<1>4. s = Run(k, n + 1)
  BY <1>2, <1>3, IsRun
<1> QED
  BY <1>4 DEF s

LEMMA RunHeadTail ==
  ASSUME NEW k \in Nat, NEW n \in Nat, n > 0
  PROVE  /\ Run(k, n) # <<>> /\ Head(Run(k, n)) = k + 1
         /\ Tail(Run(k, n)) = Run(k + 1, n - 1)
<1> DEFINE s == Run(k, n)
<1>1. s \in Seq(Nat) /\ Len(s) = n /\ \A i \in 1 .. n : s[i] = k + i
  BY RunIs
<1> HIDE DEF s
<1>2. s # <<>> /\ Head(s) = k + 1
  BY <1>1
<1>3. /\ Tail(s) \in Seq(Nat) /\ Len(Tail(s)) = n - 1
      /\ \A i \in 1 .. n - 1 : Tail(s)[i] = s[i + 1]
  BY <1>1, <1>2, HeadTailProperties
<1>4. ASSUME NEW i \in 1 .. Len(Tail(s))
      PROVE  Tail(s)[i] = (k + 1) + i
  <2>1. i \in 1 .. n - 1 /\ i + 1 \in 1 .. n
    BY <1>3
  <2> QED
    BY <1>1, <1>3, <2>1
<1>5. Tail(s) = Run(k + 1, Len(Tail(s)))
  <2>1. k + 1 \in Nat
    OBVIOUS
  <2> QED
    BY <1>3, <1>4, <2>1, IsRun
<1> QED
  BY <1>2, <1>3, <1>5 DEF s

\* What a ring holds whose slots hold consecutive characters.
LEMMA RingIsRun ==
  ASSUME NEW a \in Slot, NEW b \in Slot, NEW buf \in [Slot -> Nat], NEW k \in Nat,
         \A s \in Slot : Dist(a, s) < Dist(a, b) => buf[s] = k + Dist(a, s) + 1
  PROVE  Ring(buf, a, b) = Run(k, Dist(a, b))
<1>1. Dist(a, b) \in Nat
  BY DistIs, ConstantsAssumption
<1>2. Ring(buf, a, b) = [i \in 1 .. Dist(a, b) |-> buf[(a + i - 1) % BufLen]]
  BY RingSlots DEF Ring
<1>3. ASSUME NEW i \in 1 .. Dist(a, b)
      PROVE  buf[(a + i - 1) % BufLen] = k + i
  <2> DEFINE s == (a + i - 1) % BufLen
  <2>1. s \in Slot /\ Dist(a, s) = i - 1
    BY RingSlots
  <2> HIDE DEF s
  <2>2. buf[s] = k + (i - 1) + 1
    BY <1>1, <2>1
  <2>3. buf[s] = k + i
    BY <1>1, <2>2
  <2> QED
    BY <2>3 DEF s
<1> QED
  BY <1>2, <1>3 DEF Run

-----------------------------------------------------------------------------
(***************************************************************************)
(* What is under way in each direction.                                    *)
(***************************************************************************)

\* What has been delivered and what is under way, as stretches of the stream.
RxAsStream ==
  /\ Len(received) \in Nat /\ Len(rx_fifo) \in Nat /\ RxHeld \in 0 .. BufLen - 1
  /\ sent = Len(received) + (RxHeld + Len(rx_fifo))
  /\ received = Run(0, Len(received))
  /\ RxPending = Run(Len(received), RxHeld + Len(rx_fifo))

TxAsStream ==
  /\ Len(transmitted) \in Nat /\ Len(tx_fifo) \in Nat
  /\ TxHeld \in 0 .. BufLen - 1
  /\ accepted = Len(transmitted) + (Len(tx_fifo) + TxHeld)
  /\ transmitted = Run(0, Len(transmitted))
  /\ TxPending = Run(Len(transmitted), Len(tx_fifo) + TxHeld)

LEMMA RxPendingIs ==
  ASSUME TypeOK, Reading, RxPlaces
  PROVE  RxAsStream
<1>1. /\ rx_in \in Slot /\ RxCopied \in Slot /\ rx_buf \in [Slot -> Nat]
      /\ rx_fifo \in Seq(Nat) /\ received \in Seq(Nat)
      /\ Len(rx_fifo) \in Nat /\ Len(received) \in Nat
  BY RxCopiedIs DEF TypeOK, RxTypes
<1>2. RxHeld \in 0 .. BufLen - 1 /\ RxHeld \in Nat
  BY <1>1, DistIs, ConstantsAssumption DEF RxHeld
<1>3. received = Run(0, Len(received))
  <2>1. \A i \in 1 .. Len(received) : received[i] = 0 + i
    BY <1>1 DEF RxPlaces
  <2> QED
    BY <1>1, <2>1, IsRun
<1>4. Ring(rx_buf, RxCopied, rx_in) = Run(Len(received), RxHeld)
  BY <1>1, RingIsRun DEF RxPlaces, RxHeld
<1>5. rx_fifo = Run(Len(received) + RxHeld, Len(rx_fifo))
  <2>1. Len(received) + RxHeld \in Nat
    BY <1>1, <1>2
  <2> QED
    BY <1>1, <2>1, IsRun DEF RxPlaces
<1>6. RxPending = Run(Len(received), RxHeld + Len(rx_fifo))
  BY <1>1, <1>2, <1>4, <1>5, RunConcat DEF RxPending
<1>7. sent = Len(received) + (RxHeld + Len(rx_fifo))
  BY <1>1, <1>2 DEF RxPlaces
<1> QED
  BY <1>1, <1>2, <1>3, <1>6, <1>7 DEF RxAsStream

LEMMA TxPendingIs ==
  ASSUME TypeOK, Writing, TxPlaces
  PROVE  TxAsStream
<1>1. /\ tx_out \in Slot /\ TxCopied \in Slot /\ tx_buf \in [Slot -> Nat]
      /\ tx_fifo \in Seq(Nat) /\ transmitted \in Seq(Nat)
      /\ Len(tx_fifo) \in Nat /\ Len(transmitted) \in Nat
  BY TxCopiedIs DEF TypeOK, TxTypes
<1>2. TxHeld \in 0 .. BufLen - 1 /\ TxHeld \in Nat
  BY <1>1, DistIs, ConstantsAssumption DEF TxHeld
<1>3. transmitted = Run(0, Len(transmitted))
  <2>1. \A i \in 1 .. Len(transmitted) : transmitted[i] = 0 + i
    BY <1>1 DEF TxPlaces
  <2> QED
    BY <1>1, <2>1, IsRun
<1>4. tx_fifo = Run(Len(transmitted), Len(tx_fifo))
  BY <1>1, IsRun DEF TxPlaces
<1>5. Ring(tx_buf, tx_out, TxCopied) = Run(Len(transmitted) + Len(tx_fifo), TxHeld)
  <2>1. Len(transmitted) + Len(tx_fifo) \in Nat
    BY <1>1
  <2> QED
    BY <1>1, <2>1, RingIsRun DEF TxPlaces, TxHeld
<1>6. TxPending = Run(Len(transmitted), Len(tx_fifo) + TxHeld)
  BY <1>1, <1>2, <1>4, <1>5, RunConcat DEF TxPending
<1>7. accepted = Len(transmitted) + (Len(tx_fifo) + TxHeld)
  BY <1>1, <1>2 DEF TxPlaces
<1> QED
  BY <1>1, <1>2, <1>3, <1>6, <1>7 DEF TxAsStream

-----------------------------------------------------------------------------
(***************************************************************************)
(* The invariant, and the refinement of the streams.                       *)
(***************************************************************************)

LEMMA InitSInv == Init => SInv
<1> SUFFICES ASSUME Init PROVE SInv
  OBVIOUS
<1>1. 0 \in Slot /\ Dist(0, 0) = 0
  BY ConstantsAssumption DEF Slot, Dist
<1>2. RxCopied = 0 /\ TxCopied = 0 /\ RxHeld = 0 /\ TxHeld = 0
  BY <1>1 DEF Init, RxCopied, TxCopied, RxHeld, TxHeld
<1>3. \A s \in Slot : ~(Dist(0, s) < 0)
  BY <1>1, DistIs, ConstantsAssumption
<1>4. RxPlaces
  BY <1>2, <1>3 DEF Init, RxPlaces
<1>5. TxPlaces
  BY <1>1, <1>2, <1>3 DEF Init, TxPlaces
<1>6. RoomKnown
  BY DEF Init, RoomKnown
<1> QED
  BY <1>4, <1>5, <1>6, InitIInv DEF SInv

LEMMA NextSInv == SInv /\ [Next]_vars => SInv'
BY NextIInv, RxPlacesStep, TxPlacesStep, RoomKnownStep DEF SInv, IInv

LEMMA StreamInvariance == Spec => []SInv
BY InitSInv, NextSInv, PTL DEF Spec

LEMMA RxStreamInvariant == SInv => RxAsStream
BY RxPendingIs DEF SInv, IInv

LEMMA TxStreamInvariant == SInv => TxAsStream
BY TxPendingIs DEF SInv, IInv

\* No character from the host is lost, duplicated, overwritten or reordered on
\* its way to the buffers of altera_avalon_jtag_uart_read.
THEOREM ReceiveKeepsOrder == Spec => []ReceiveOrder
<1>1. ASSUME RxAsStream
      PROVE  ReceiveOrder
  <2> DEFINE g == Len(received)
             p == RxHeld + Len(rx_fifo)
  <2>1. /\ g \in Nat /\ p \in Nat /\ sent = g + p
        /\ received = Run(0, g) /\ RxPending = Run(0 + g, p)
    BY <1>1, ConstantsAssumption DEF RxAsStream
  <2> HIDE DEF g, p
  <2>2. received \o RxPending = Run(0, g + p)
    BY <2>1, RunConcat
  <2>3. Run(0, sent) = Stream(sent)
    BY <2>1 DEF Run, Stream
  <2> QED
    BY <2>1, <2>2, <2>3 DEF ReceiveOrder
<1> QED
  BY <1>1, RxStreamInvariant, StreamInvariance, PTL

\* The host takes the characters altera_avalon_jtag_uart_write accepted, each
\* once and in order, and the device drops none for lack of room.
THEOREM TransmitKeepsOrder == Spec => []TransmitOrder
<1>1. ASSUME TxAsStream
      PROVE  TransmitOrder
  <2> DEFINE g == Len(transmitted)
             p == Len(tx_fifo) + TxHeld
  <2>1. /\ g \in Nat /\ p \in Nat /\ accepted = g + p
        /\ transmitted = Run(0, g) /\ TxPending = Run(0 + g, p)
    BY <1>1, ConstantsAssumption DEF TxAsStream
  <2> HIDE DEF g, p
  <2>2. transmitted \o TxPending = Run(0, g + p)
    BY <2>1, RunConcat
  <2>3. Run(0, accepted) = Stream(accepted)
    BY <2>1 DEF Run, Stream
  <2> QED
    BY <2>1, <2>2, <2>3 DEF TransmitOrder
<1> QED
  BY <1>1, TxStreamInvariant, StreamInvariance, PTL

\* What a step does to the ends of the receive stream.
LEMMA RxMoves ==
  ASSUME TypeOK, [Next]_vars
  PROVE  \/ Len(received') = Len(received) + 1 /\ sent' = sent
         \/ /\ Len(received') = Len(received) /\ sent' = sent + 1
            /\ Len(rx_fifo) < RxDepth
         \/ Len(received') = Len(received) /\ sent' = sent
<1>1. received \in Seq(Nat)
  BY DEF TypeOK, RxTypes
<1>2. CASE ReadCopy
  BY <1>1, <1>2 DEF ReadCopy
<1>3. CASE ReadAdvance \/ IsrReceive \/ UNCHANGED rxVars
  BY <1>3 DEF ReadAdvance, IsrReceive, rxVars
<1>4. CASE HostSend
  BY <1>4 DEF HostSend
<1> QED
  BY <1>2, <1>3, <1>4, Frames

LEMMA TxMoves ==
  ASSUME TypeOK, TxPlaces, [Next]_vars
  PROVE  \/ Len(transmitted') = Len(transmitted) + 1 /\ accepted' = accepted
         \/ /\ Len(transmitted') = Len(transmitted) /\ accepted' = accepted + 1
            /\ tx_fifo' = tx_fifo
         \/ Len(transmitted') = Len(transmitted) /\ accepted' = accepted
<1>1. transmitted \in Seq(Nat)
  BY DEF TypeOK, TxTypes
<1>2. CASE HostTake
  BY <1>1, <1>2 DEF HostTake
<1>3. CASE WriteAdvance \/ IsrTransmit \/ UNCHANGED txVars
  BY <1>3 DEF WriteAdvance, IsrTransmit, txVars
<1>4. CASE WriteCopy
  BY <1>4 DEF WriteCopy
<1> QED
  BY <1>2, <1>3, <1>4, Frames

\* A step that lengthens one end of a stream by one, or neither, is a step of
\* ByteStream: k characters delivered and n under way before it, and k2 and n2
\* after it.
LEMMA RunGet ==
  ASSUME NEW k \in Nat, NEW n \in Nat, NEW n2 \in Nat, k + n = (k + 1) + n2
  PROVE  /\ Run(k, n) # <<>>
         /\ Run(0, k + 1) = Append(Run(0, k), Head(Run(k, n)))
         /\ Run(k + 1, n2) = Tail(Run(k, n))
<1>1. n > 0 /\ n2 = n - 1
  OBVIOUS
<1>2. /\ Run(k, n) # <<>> /\ Head(Run(k, n)) = k + 1
      /\ Tail(Run(k, n)) = Run(k + 1, n - 1)
  BY <1>1, RunHeadTail
<1>3. Append(Run(0, k), 0 + k + 1) = Run(0, k + 1)
  BY RunAppend
<1> QED
  BY <1>1, <1>2, <1>3

LEMMA RunPut ==
  ASSUME NEW k \in Nat, NEW n \in Nat, NEW n2 \in Nat, k + n + 1 = k + n2
  PROVE  Run(k, n2) = Append(Run(k, n), k + n + 1)
<1>1. n2 = n + 1
  OBVIOUS
<1> QED
  BY <1>1, RunAppend

\* The receive direction implements ByteStream: a step of the driver, the
\* device or the host puts one character in, takes one out, or neither.
THEOREM ReceiveImplementsStream == Spec => ReceiveIsStream
<1>1. ASSUME Init, RxAsStream
      PROVE  RxStream!Init
  <2>1. received = <<>> /\ rx_fifo = <<>> /\ sent = 0 /\ RxHeld = 0
    BY <1>1, ConstantsAssumption DEF Init, RxHeld, RxCopied, Dist
  <2>2. RxPending = Run(0, 0)
    BY <1>1, <2>1 DEF RxAsStream
  <2>3. Run(0, 0) = <<>>
    BY DEF Run
  <2> QED
    BY <2>1, <2>2, <2>3 DEF RxStream!Init
<1>2. ASSUME TypeOK, RxAsStream, RxAsStream', [Next]_vars
      PROVE  [RxStream!Next]_(RxStream!streamVars)
  <2> DEFINE k == Len(received)
             n == RxHeld + Len(rx_fifo)
             k2 == Len(received')
             n2 == RxHeld' + Len(rx_fifo')
  <2>1. /\ k \in Nat /\ n \in Nat /\ sent = k + n
        /\ received = Run(0, k) /\ RxPending = Run(k, n)
    BY <1>2, ConstantsAssumption DEF RxAsStream
  <2>2. /\ k2 \in Nat /\ n2 \in Nat /\ sent' = k2 + n2
        /\ received' = Run(0, k2) /\ RxPending' = Run(k2, n2)
    BY <1>2, ConstantsAssumption DEF RxAsStream
  <2>3. Len(rx_fifo) < RxDepth => n < BufLen - 1 + RxDepth
    BY <1>2, ConstantsAssumption DEF RxAsStream
  <2>4. \/ k2 = k + 1 /\ sent' = sent
        \/ k2 = k /\ sent' = sent + 1 /\ Len(rx_fifo) < RxDepth
        \/ k2 = k /\ sent' = sent
    BY <1>2, RxMoves
  <2> HIDE DEF k, n, k2, n2
  <2>5. CASE k2 = k + 1 /\ sent' = sent
    <3>1. k + n = (k + 1) + n2
      BY <2>1, <2>2, <2>5
    <3> QED
      BY <2>1, <2>2, <2>5, <3>1, RunGet DEF RxStream!Next, RxStream!Get
  <2>6. CASE k2 = k /\ sent' = sent + 1 /\ Len(rx_fifo) < RxDepth
    <3>1. k + n + 1 = k + n2
      BY <2>1, <2>2, <2>6
    <3>2. RxPending' = Append(RxPending, sent + 1) /\ received' = received
      BY <2>1, <2>2, <2>6, <3>1, RunPut
    <3>3. Len(RxPending) < BufLen - 1 + RxDepth
      BY <2>1, <2>3, <2>6, RunIs
    <3> QED
      BY <2>6, <3>2, <3>3 DEF RxStream!Next, RxStream!Put
  <2>7. CASE k2 = k /\ sent' = sent
    <3>1. n2 = n
      BY <2>1, <2>2, <2>7
    <3> QED
      BY <2>1, <2>2, <2>7, <3>1 DEF RxStream!streamVars
  <2> QED
    BY <2>4, <2>5, <2>6, <2>7
<1>3. SInv => TypeOK
  BY DEF SInv, IInv
<1> QED
  BY <1>1, <1>2, <1>3, RxStreamInvariant, StreamInvariance, PTL
     DEF Spec, ReceiveIsStream, RxStream!Spec

\* The transmit direction implements ByteStream.
THEOREM TransmitImplementsStream == Spec => TransmitIsStream
<1>1. ASSUME Init, TxAsStream
      PROVE  TxStream!Init
  <2>1. transmitted = <<>> /\ tx_fifo = <<>> /\ accepted = 0 /\ TxHeld = 0
    BY <1>1, ConstantsAssumption DEF Init, TxHeld, TxCopied, Dist
  <2>2. TxPending = Run(0, 0)
    BY <1>1, <2>1 DEF TxAsStream
  <2>3. Run(0, 0) = <<>>
    BY DEF Run
  <2> QED
    BY <2>1, <2>2, <2>3 DEF TxStream!Init
<1>2. ASSUME TypeOK, TxPlaces, TxAsStream, TxAsStream', TypeOK', [Next]_vars
      PROVE  [TxStream!Next]_(TxStream!streamVars)
  <2> DEFINE k == Len(transmitted)
             n == Len(tx_fifo) + TxHeld
             k2 == Len(transmitted')
             n2 == Len(tx_fifo') + TxHeld'
  <2>1. /\ k \in Nat /\ n \in Nat /\ accepted = k + n
        /\ transmitted = Run(0, k) /\ TxPending = Run(k, n)
    BY <1>2, ConstantsAssumption DEF TxAsStream
  <2>2. /\ k2 \in Nat /\ n2 \in Nat /\ accepted' = k2 + n2
        /\ transmitted' = Run(0, k2) /\ TxPending' = Run(k2, n2)
    BY <1>2, ConstantsAssumption DEF TxAsStream
  <2>3. n2 <= BufLen - 1 + TxDepth
    BY <1>2, ConstantsAssumption DEF TxAsStream, TypeOK, TxTypes
  <2>4. \/ k2 = k + 1 /\ accepted' = accepted
        \/ k2 = k /\ accepted' = accepted + 1
        \/ k2 = k /\ accepted' = accepted
    BY <1>2, TxMoves
  <2> HIDE DEF k, n, k2, n2
  <2>5. CASE k2 = k + 1 /\ accepted' = accepted
    <3>1. k + n = (k + 1) + n2
      BY <2>1, <2>2, <2>5
    <3> QED
      BY <2>1, <2>2, <2>5, <3>1, RunGet DEF TxStream!Next, TxStream!Get
  <2>6. CASE k2 = k /\ accepted' = accepted + 1
    <3>1. k + n + 1 = k + n2 /\ n < BufLen - 1 + TxDepth
      BY <2>1, <2>2, <2>3, <2>6, ConstantsAssumption
    <3>2. TxPending' = Append(TxPending, accepted + 1) /\ transmitted' = transmitted
      BY <2>1, <2>2, <2>6, <3>1, RunPut
    <3>3. Len(TxPending) < BufLen - 1 + TxDepth
      BY <2>1, <3>1, RunIs
    <3> QED
      BY <2>6, <3>2, <3>3 DEF TxStream!Next, TxStream!Put
  <2>7. CASE k2 = k /\ accepted' = accepted
    <3>1. n2 = n
      BY <2>1, <2>2, <2>7
    <3> QED
      BY <2>1, <2>2, <2>7, <3>1 DEF TxStream!streamVars
  <2> QED
    BY <2>4, <2>5, <2>6, <2>7
<1>3. SInv => TypeOK /\ TxPlaces
  BY DEF SInv, IInv
<1> QED
  BY <1>1, <1>2, <1>3, TxStreamInvariant, StreamInvariance, PTL
     DEF Spec, TransmitIsStream, TxStream!Spec
=============================================================================
