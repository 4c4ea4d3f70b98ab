------------------------------ MODULE JtagUart ------------------------------
(***************************************************************************)
(* The interrupt-driven ("fast") driver of the JTAG UART, as test0_bsp     *)
(* builds it: ALT_SINGLE_THREADED, -O0, FIFO-full error not ignored.       *)
(*                                                                         *)
(* One CPU runs the foreground (read, write, close, ioctl), the UART's     *)
(* interrupt routine and the one-second alarm callback; the last two       *)
(* preempt the foreground between any two of its accesses to shared        *)
(* state, and never each other.  The device's FIFOs and the host at the    *)
(* other end of the JTAG cable run concurrently with all three.            *)
(*                                                                         *)
(* A character is the position it has in its stream: the k-th character    *)
(* the host sends is k, and so is the k-th one a caller of write hands     *)
(* over.  The code never looks at a character's value.                     *)
(***************************************************************************)
EXTENDS Errno, Sequences

CONSTANTS
  BufLen,          \* ALTERA_AVALON_JTAG_UART_BUF_LEN
  RxDepth,         \* depth of the device's receive FIFO
  TxDepth,         \* depth of the device's transmit FIFO
  WriteThreshold,  \* the device asserts WI at this fill level or below
  DefaultTimeout,  \* ALTERA_AVALON_JTAG_UART_DEFAULT_TIMEOUT
  IntMax,          \* INT_MAX
  Requests,        \* the lengths callers pass to read and write
  Timeouts,        \* the values callers pass to TIOCSTIMEOUT
  Traffic          \* bound: the pairs of characters the host has sent and
                   \* characters write has taken that a behaviour may reach

ASSUME ConstantsAssumption ==
  /\ BufLen \in Nat /\ BufLen >= 2
  /\ RxDepth \in Nat \ {0}
  /\ TxDepth \in Nat \ {0}
  /\ WriteThreshold \in 0 .. TxDepth - 1
  /\ IntMax \in Nat /\ IntMax >= 4
  /\ DefaultTimeout \in 2 .. IntMax - 1
  /\ Requests \subseteq Nat
  /\ Timeouts \subseteq Int

ASSUME TrafficAssumption == Traffic \subseteq Nat \X Nat

VARIABLES
  \* altera_avalon_jtag_uart_state
  rx_in, rx_out, rx_buf,
  tx_in, tx_out, tx_buf,
  irq_enable,      \* the software copy of the enable bits, {"RE", "WE"}
  host_inactive, timeout,
  \* the device
  rx_fifo, tx_fifo,
  enabled,         \* the RE and WE bits of its control register
  ac,              \* its AC bit: JTAG activity since the bit was cleared
  \* the foreground: where it is, the locals of the routine it is in, and
  \* what the last call returned
  pc, loc, ret,
  \* the interrupt routines: where they are, and the locals of the UART's
  isr, wi, space, avail,
  \* the host, and the history the properties compare
  host,            \* "present" or "gone"
  sent,            \* characters the host has put in rx_fifo
  received,        \* what read has copied out, in order
  accepted,        \* characters write has copied into tx_buf
  transmitted,     \* what the host has taken from tx_fifo, in order
  quiet            \* the timeout was reached since the current call began

ringVars == <<rx_in, rx_out, rx_buf, tx_in, tx_out, tx_buf>>
rxVars   == <<rx_in, rx_out, rx_buf, rx_fifo, sent, received>>
txVars   == <<tx_in, tx_out, tx_buf, tx_fifo, accepted, transmitted>>
ctlVars  == <<irq_enable, enabled>>
timeVars == <<host_inactive, timeout, ac, quiet>>
callVars == <<pc, loc, ret>>
isrVars  == <<isr, wi, space, avail>>
vars     == <<rxVars, txVars, ctlVars, timeVars, callVars, isrVars, host>>

-----------------------------------------------------------------------------

Slot == 0 .. BufLen - 1

\* Mutant: the index is not wrapped.
NextSlotUnwrapped(i) == i + 1

\* The slot after i: next = (i + 1) % ALTERA_AVALON_JTAG_UART_BUF_LEN.
NextSlot(i) == (i + 1) % BufLen

\* Bytes one memcpy can take from the receive ring.
ReadChunkLen(i, o) == IF i >= o THEN i - o ELSE BufLen - o

\* Bytes one memcpy can put in the transmit ring; one slot always stays free.
WriteChunkLen(i, o) ==
  IF i < o THEN o - 1 - i
  ELSE IF o > 0 THEN BufLen - i
  ELSE BufLen - 1 - i

Least(a, b) == IF a < b THEN a ELSE b

\* Mutant: any inactivity ends the wait.
TimedOutAtOnce == host_inactive > 0

TimedOut == host_inactive >= timeout

\* The device's interrupt conditions.
RI == "RE" \in enabled /\ rx_fifo # <<>>
WI == "WE" \in enabled /\ Len(tx_fifo) <= WriteThreshold

\* IOWR of the control register with the software copy of the enable bits.
WriteControl(bits) == irq_enable' = bits /\ enabled' = bits

\* Mutant: the other interrupt's bit is lost.
EnableOnly(bit) == WriteControl({bit})

Enable(bit) == WriteControl(irq_enable \union {bit})
Disable(bit) == WriteControl(irq_enable \ {bit})

-----------------------------------------------------------------------------
(***************************************************************************)
(* altera_avalon_jtag_uart_init.  When the alarm cannot be started the     *)
(* timeout is INT_MAX and the callback never runs.                         *)
(***************************************************************************)
NoLocals == [nonblock |-> FALSE, left |-> 0, done |-> 0, in |-> 0, out |-> 0,
             n |-> 0, copied |-> 0]

Init ==
  /\ rx_in = 0 /\ rx_out = 0 /\ rx_buf = [s \in Slot |-> 0]
  /\ tx_in = 0 /\ tx_out = 0 /\ tx_buf = [s \in Slot |-> 0]
  /\ irq_enable = {"RE"} /\ enabled = {"RE"}
  /\ host_inactive = 0
  /\ timeout \in {DefaultTimeout, IntMax}
  /\ rx_fifo = <<>> /\ tx_fifo = <<>> /\ ac = FALSE
  /\ pc = "idle" /\ loc = NoLocals /\ ret = 0
  /\ isr = "none" /\ wi = FALSE /\ space = 0 /\ avail = FALSE
  /\ host = "present"
  /\ sent = 0 /\ received = <<>> /\ accepted = 0 /\ transmitted = <<>>
  /\ quiet = FALSE

AlarmStarted == timeout # IntMax

-----------------------------------------------------------------------------
(***************************************************************************)
(* The foreground.  It runs when no interrupt routine does.  The locals    *)
(* of a routine are dead once it has returned.                             *)
(***************************************************************************)
At(l) == isr = "none" /\ pc = l
Goto(l, locals) == pc' = l /\ loc' = locals /\ ret' = ret
Return(v) == pc' = "idle" /\ loc' = NoLocals /\ ret' = v

\* What a call returns that has moved d characters.
Result(d) == IF d > 0 THEN d ELSE IF loc.nonblock THEN EWOULDBLOCK ELSE EIO

Call(l, len, nb) ==
  /\ At("idle")
  /\ pc' = l /\ ret' = 0
  /\ loc' = [NoLocals EXCEPT !.left = len, !.nonblock = nb]
  /\ quiet' = TimedOut
  /\ UNCHANGED <<rxVars, txVars, ctlVars, host_inactive, timeout, ac,
                 isrVars, host>>

\* The caller's routine touches its locals only.
LocalStep ==
  UNCHANGED <<rxVars, txVars, ctlVars, timeVars, isrVars, host>>

\* The locals when a memcpy of at most len bytes is about to start.  It is
\* carried out one byte at a time: the interrupt routine may run inside it.
Chunk(len, i, o) ==
  [loc EXCEPT !.in = i, !.out = o, !.n = Least(len, loc.left), !.copied = 0]
Copied   == [loc EXCEPT !.copied = @ + 1]
Advanced == [loc EXCEPT !.done = @ + loc.n, !.left = @ - loc.n,
                        !.n = 0, !.copied = 0]

\* Mutant: a read that got characters returns without enabling the interrupt.
ReadLoopEndsUnarmed(locals) ==
  \/ locals.done > 0 /\ Return(locals.done)
  \/ locals.done = 0 /\ loc.nonblock /\ Return(EWOULDBLOCK)
  \/ locals.done = 0 /\ ~loc.nonblock /\ Goto("rd_spin", locals)

\* altera_avalon_jtag_uart_read after its inner loop: enable the interrupt,
\* give up, or wait.
ReadLoopEnds(locals) ==
  \/ locals.done > 0 /\ Goto("rd_enable", locals)
  \/ locals.done = 0 /\ loc.nonblock /\ Return(EWOULDBLOCK)
  \/ locals.done = 0 /\ ~loc.nonblock /\ Goto("rd_spin", locals)

ReadCall(len, nb) == len > 0 /\ Call("rd_chunk", len, nb)

\* A read of no characters skips the loop and reports an error.
ReadNothing(nb) ==
  /\ At("idle")
  /\ Return(IF nb THEN EWOULDBLOCK ELSE EIO)
  /\ LocalStep

ReadChunk ==
  /\ At("rd_chunk")
  /\ LET len == ReadChunkLen(rx_in, rx_out)
         locals == Chunk(len, rx_in, rx_out)
     IN  IF len > 0 THEN Goto("rd_copy", locals) ELSE ReadLoopEnds(locals)
  /\ LocalStep

ReadCopy ==
  /\ At("rd_copy") /\ loc.copied < loc.n
  /\ received' = Append(received, rx_buf[loc.out + loc.copied])
  /\ Goto("rd_copy", Copied)
  /\ UNCHANGED <<rx_in, rx_out, rx_buf, rx_fifo, sent, txVars, ctlVars,
                 timeVars, isrVars, host>>

ReadAdvance ==
  /\ At("rd_copy") /\ loc.copied = loc.n
  /\ rx_out' = (loc.out + loc.n) % BufLen
  /\ IF loc.left > loc.n THEN Goto("rd_chunk", Advanced)
                         ELSE ReadLoopEnds(Advanced)
  /\ UNCHANGED <<rx_in, rx_buf, rx_fifo, sent, received, txVars, ctlVars,
                 timeVars, isrVars, host>>

ReadSpin ==
  /\ At("rd_spin")
  /\ loc.in # rx_in \/ TimedOut
  /\ Goto("rd_recheck", loc)
  /\ LocalStep

ReadRecheck ==
  /\ At("rd_recheck")
  /\ IF loc.in = rx_in THEN Return(Result(loc.done)) ELSE Goto("rd_chunk", loc)
  /\ LocalStep

ReadEnable ==
  /\ At("rd_enable")
  /\ Enable("RE")
  /\ Return(Result(loc.done))
  /\ UNCHANGED <<rxVars, txVars, timeVars, isrVars, host>>

WriteCall(len, nb) ==
  /\ <<sent, accepted + len>> \in Traffic
  /\ Call("wr_chunk", len, nb)

WriteChunk ==
  /\ At("wr_chunk")
  /\ LET len == WriteChunkLen(tx_in, tx_out)
     IN  \/ /\ loc.left > 0 /\ len > 0
            /\ Goto("wr_copy", Chunk(len, tx_in, tx_out))
         \/ /\ loc.left > 0 /\ len = 0
            /\ Goto("wr_enable", Chunk(0, tx_in, tx_out))
         \/ /\ loc.left = 0
            /\ Goto("wr_enable", loc)
  /\ LocalStep

WriteCopy ==
  /\ At("wr_copy") /\ loc.copied < loc.n
  /\ accepted' = accepted + 1
  /\ tx_buf' = [tx_buf EXCEPT ![loc.in + loc.copied] = accepted + 1]
  /\ Goto("wr_copy", Copied)
  /\ UNCHANGED <<rxVars, tx_in, tx_out, tx_fifo, transmitted, ctlVars,
                 timeVars, isrVars, host>>

WriteAdvance ==
  /\ At("wr_copy") /\ loc.copied = loc.n
  /\ tx_in' = (loc.in + loc.n) % BufLen
  /\ Goto("wr_chunk", Advanced)
  /\ UNCHANGED <<rxVars, tx_out, tx_buf, tx_fifo, accepted, transmitted,
                 ctlVars, timeVars, isrVars, host>>

WriteEnable ==
  /\ At("wr_enable")
  /\ Enable("WE")
  /\ IF loc.left > 0 /\ ~loc.nonblock THEN Goto("wr_spin", loc)
                                      ELSE Return(Result(loc.done))
  /\ UNCHANGED <<rxVars, txVars, timeVars, isrVars, host>>

WriteSpin ==
  /\ At("wr_spin")
  /\ loc.out # tx_out \/ TimedOut
  /\ Goto("wr_check", loc)
  /\ LocalStep

WriteCheck ==
  /\ At("wr_check")
  /\ IF host_inactive # 0 THEN Return(Result(loc.done))
                          ELSE Goto("wr_chunk", loc)
  /\ LocalStep

CloseCall(nb) == Call("close", 0, nb)

\* The loop of altera_avalon_jtag_uart_close: its exit, or the early return.
CloseDrain ==
  /\ At("close")
  /\ \/ (tx_out = tx_in \/ TimedOut) /\ Return(0)
     \/ tx_out # tx_in /\ ~TimedOut /\ loc.nonblock /\ Return(EWOULDBLOCK)
  /\ LocalStep

\* altera_avalon_jtag_uart_ioctl, TIOCSTIMEOUT
SetTimeout(t) ==
  /\ At("idle") /\ timeout # IntMax
  /\ timeout' = IF t >= 2 /\ t < IntMax THEN t ELSE IntMax - 1
  /\ UNCHANGED <<rxVars, txVars, ctlVars, host_inactive, ac, quiet, callVars,
                 isrVars, host>>

-----------------------------------------------------------------------------
(***************************************************************************)
(* altera_avalon_jtag_uart_irq.  Each pass of its outer loop works on one  *)
(* reading of the control register.                                        *)
(***************************************************************************)
InIsr(l) == isr = l

IsrEnter ==
  /\ InIsr("none")
  /\ RI \/ WI
  /\ isr' = "top"
  /\ UNCHANGED <<rxVars, txVars, ctlVars, timeVars, callVars, wi, space, avail,
                 host>>

\* Mutant: the characters already in the FIFO are not counted.
FifoSpaceEmpty == TxDepth

\* WSPACE
FifoSpace == TxDepth - Len(tx_fifo)

IsrReadControl ==
  /\ InIsr("top")
  /\ avail' = RI
  /\ wi' = WI
  /\ space' = IF WI THEN FifoSpace ELSE 0
  /\ isr' = IF RI THEN "rx" ELSE IF WI THEN "tx" ELSE "none"
  /\ UNCHANGED <<rxVars, txVars, ctlVars, timeVars, callVars, host>>

\* Mutant: the ring is never found full.
RxRingNeverFull == FALSE

RxRingFull == NextSlot(rx_in) = rx_out

\* One pass of the receive loop: nothing is read when there is no room, and
\* RVALID is clear when the FIFO was empty.
IsrReceive ==
  /\ InIsr("rx")
  /\ \/ /\ RxRingFull
        /\ isr' = "rx_end"
        /\ UNCHANGED <<rx_in, rx_buf, rx_fifo, avail>>
     \/ /\ ~RxRingFull /\ rx_fifo = <<>>
        /\ avail' = FALSE
        /\ isr' = "rx_end"
        /\ UNCHANGED <<rx_in, rx_buf, rx_fifo>>
     \/ /\ ~RxRingFull /\ rx_fifo # <<>>
        /\ rx_fifo' = Tail(rx_fifo)
        /\ avail' = (Len(rx_fifo) > 1)
        /\ rx_buf' = [rx_buf EXCEPT ![rx_in] = Head(rx_fifo)]
        /\ rx_in' = NextSlot(rx_in)
        /\ isr' = isr
  /\ UNCHANGED <<rx_out, sent, received, txVars, ctlVars, timeVars, callVars,
                 wi, space, host>>

\* RAVAIL is still set: the ring is full, so stop receive interrupts.
IsrReceiveEnd ==
  /\ InIsr("rx_end")
  /\ IF avail THEN Disable("RE") ELSE UNCHANGED ctlVars
  /\ isr' = IF wi THEN "tx" ELSE "top"
  /\ UNCHANGED <<rxVars, txVars, timeVars, callVars, wi, space, avail, host>>

\* One pass of the transmit loop.  The device drops a character written to
\* a full FIFO.
IsrTransmit ==
  /\ InIsr("tx")
  /\ space > 0 /\ tx_out # tx_in
  /\ tx_fifo' = IF Len(tx_fifo) < TxDepth THEN Append(tx_fifo, tx_buf[tx_out])
                                          ELSE tx_fifo
  /\ tx_out' = NextSlot(tx_out)
  /\ space' = space - 1
  /\ UNCHANGED <<rxVars, tx_in, tx_buf, accepted, transmitted, ctlVars,
                 timeVars, callVars, isr, wi, avail, host>>

\* Mutant: the loop is taken to have emptied the ring.
RingDrainedAlways == TRUE

\* The loop left room in the FIFO, so it stopped because the ring was empty.
RingDrained == space > 0

IsrTransmitEnd ==
  /\ InIsr("tx")
  /\ space = 0 \/ tx_out = tx_in
  /\ IF RingDrained THEN Disable("WE") ELSE UNCHANGED ctlVars
  /\ isr' = "top"
  /\ UNCHANGED <<rxVars, txVars, timeVars, callVars, wi, space, avail, host>>

(***************************************************************************)
(* altera_avalon_jtag_uart_timeout, called every second.  The host may act *)
(* between the reading of AC and the write that clears it.                 *)
(***************************************************************************)
\* Mutant: the count does not move.
NextInactiveStuck == host_inactive

NextInactive ==
  IF host_inactive < IntMax - 2 THEN host_inactive + 1 ELSE host_inactive

AlarmExpire ==
  /\ InIsr("none") /\ AlarmStarted
  /\ \/ ac /\ isr' = "alarm" /\ UNCHANGED <<host_inactive, quiet>>
     \/ /\ ~ac /\ isr' = isr
        /\ host_inactive' = NextInactive
        /\ quiet' = (quiet \/ host_inactive' >= timeout)
  /\ UNCHANGED <<rxVars, txVars, ctlVars, timeout, ac, callVars, wi, space,
                 avail, host>>

AlarmClearActivity ==
  /\ InIsr("alarm")
  /\ enabled' = irq_enable /\ ac' = FALSE
  /\ host_inactive' = 0
  /\ isr' = "none"
  /\ UNCHANGED <<rxVars, txVars, irq_enable, timeout, quiet, callVars, wi,
                 space, avail, host>>

-----------------------------------------------------------------------------
(***************************************************************************)
(* The host.  Traffic counts the characters of a write from its call on.   *)
(***************************************************************************)
Claimed ==
  IF pc \in {"wr_chunk", "wr_copy", "wr_enable", "wr_spin", "wr_check"}
  THEN accepted + loc.left - loc.copied ELSE accepted

HostSend ==
  /\ host = "present" /\ Len(rx_fifo) < RxDepth
  /\ <<sent + 1, Claimed>> \in Traffic
  /\ sent' = sent + 1
  /\ rx_fifo' = Append(rx_fifo, sent + 1)
  /\ ac' = TRUE
  /\ UNCHANGED <<rx_in, rx_out, rx_buf, received, txVars, ctlVars,
                 host_inactive, timeout, quiet, callVars, isrVars, host>>

HostTake ==
  /\ host = "present" /\ tx_fifo # <<>>
  /\ transmitted' = Append(transmitted, Head(tx_fifo))
  /\ tx_fifo' = Tail(tx_fifo)
  /\ ac' = TRUE
  /\ UNCHANGED <<rxVars, tx_in, tx_out, tx_buf, accepted, ctlVars,
                 host_inactive, timeout, quiet, callVars, isrVars, host>>

HostPoll ==
  /\ host = "present" /\ ~ac
  /\ ac' = TRUE
  /\ UNCHANGED <<rxVars, txVars, ctlVars, host_inactive, timeout, quiet,
                 callVars, isrVars, host>>

HostLeave ==
  /\ host = "present"
  /\ host' = "gone"
  /\ UNCHANGED <<rxVars, txVars, ctlVars, timeVars, callVars, isrVars>>

-----------------------------------------------------------------------------

\* What the routine in progress does next.
Running ==
  \/ ReadChunk \/ ReadCopy \/ ReadAdvance \/ ReadSpin \/ ReadRecheck
  \/ ReadEnable
  \/ WriteChunk \/ WriteCopy \/ WriteAdvance \/ WriteEnable \/ WriteSpin
  \/ WriteCheck
  \/ CloseDrain

ReadCalls == \E len \in Requests, nb \in BOOLEAN : ReadCall(len, nb)

Calls ==
  \/ ReadCalls
  \/ \E nb \in BOOLEAN : ReadNothing(nb) \/ CloseCall(nb)
  \/ \E len \in Requests, nb \in BOOLEAN : WriteCall(len, nb)
  \/ \E t \in Timeouts : SetTimeout(t)

Isr ==
  \/ IsrEnter \/ IsrReadControl
  \/ IsrReceive \/ IsrReceiveEnd \/ IsrTransmit \/ IsrTransmitEnd

Alarm == AlarmExpire \/ AlarmClearActivity

Host == HostSend \/ HostTake \/ HostPoll \/ HostLeave

Next == Calls \/ Running \/ Isr \/ Alarm \/ Host

Spec == Init /\ [][Next]_vars

(***************************************************************************)
(* Fairness: the CPU returns to the foreground between interrupts, a       *)
(* pending interrupt is taken, the timer ticks for ever, and a host that   *)
(* stays empties the transmit FIFO.  Nobody is obliged to call anything,   *)
(* and the host is obliged to nothing else.                                *)
(***************************************************************************)
FairSpec ==
  /\ Spec
  /\ SF_vars(Running) /\ SF_vars(Isr) /\ SF_vars(Alarm)
  /\ WF_vars(HostTake)

-----------------------------------------------------------------------------
(***************************************************************************)
(* Properties                                                              *)
(***************************************************************************)

Control == {"RE", "WE"}
ReadPcs  == {"rd_chunk", "rd_copy", "rd_spin", "rd_recheck", "rd_enable"}
WritePcs == {"wr_chunk", "wr_copy", "wr_enable", "wr_spin", "wr_check"}

RxTypes ==
  /\ rx_in \in Slot /\ rx_out \in Slot /\ rx_buf \in [Slot -> Nat]
  /\ rx_fifo \in Seq(Nat) /\ Len(rx_fifo) <= RxDepth
  /\ sent \in Nat /\ received \in Seq(Nat)

TxTypes ==
  /\ tx_in \in Slot /\ tx_out \in Slot /\ tx_buf \in [Slot -> Nat]
  /\ tx_fifo \in Seq(Nat) /\ Len(tx_fifo) <= TxDepth
  /\ accepted \in Nat /\ transmitted \in Seq(Nat)

ControlTypes ==
  /\ irq_enable \in SUBSET Control /\ enabled \in SUBSET Control
  /\ host_inactive \in 0 .. IntMax - 2 /\ timeout \in 2 .. IntMax
  /\ ac \in BOOLEAN /\ quiet \in BOOLEAN
  /\ host \in {"present", "gone"}

Locals == [nonblock : BOOLEAN, left : Nat, done : Nat, in : Slot, out : Slot,
           n : 0 .. BufLen - 1, copied : 0 .. BufLen - 1]

CallTypes ==
  /\ pc \in {"idle", "close"} \union ReadPcs \union WritePcs
  /\ loc \in Locals
  /\ ret \in Nat \union {EIO, EWOULDBLOCK}

IsrTypes ==
  /\ isr \in {"none", "top", "rx", "rx_end", "tx", "alarm"}
  /\ wi \in BOOLEAN /\ avail \in BOOLEAN /\ space \in 0 .. TxDepth

\* Every variable has its type: the ring indices stay inside the buffers, the
\* device's FIFOs within their depth, the inactivity count below INT_MAX - 1.
TypeOK == RxTypes /\ TxTypes /\ ControlTypes /\ CallTypes /\ IsrTypes

\* The characters of a ring between two indices, oldest first.
Ring(buf, from, to) ==
  [i \in 1 .. (to - from) % BufLen |-> buf[(from + i - 1) % BufLen]]

\* The first k characters of a stream.
Stream(k) == [i \in 1 .. k |-> i]

\* Where the reader's copy, and the writer's, have got to.
RxCopied == IF pc = "rd_copy" THEN (loc.out + loc.copied) % BufLen ELSE rx_out
TxCopied == IF pc = "wr_copy" THEN (loc.in + loc.copied) % BufLen ELSE tx_in

RxPending == Ring(rx_buf, RxCopied, rx_in) \o rx_fifo
TxPending == tx_fifo \o Ring(tx_buf, tx_out, TxCopied)

\* No character from the host is lost, duplicated, overwritten or reordered
\* between the device's FIFO, the receive ring filled by the interrupt
\* routine and the buffers read copies to, even when the interrupt routine
\* runs in the middle of read's memcpy.
ReceiveOrder == received \o RxPending = Stream(sent)

\* The same of the transmit ring filled by write and emptied by the interrupt
\* routine: the host takes what write accepted, each character once and in
\* order, and the device never drops one for lack of room.
TransmitOrder == transmitted \o TxPending = Stream(accepted)

\* Receive interrupts are off only while something will turn them on again:
\* there are characters in the ring for a read to take, or the read that took
\* them has yet to reach its enabling step.
ReceiveArmed ==
  "RE" \notin irq_enable =>
    \/ rx_in # rx_out
    \/ pc = "rd_enable"
    \/ pc = "rd_chunk" /\ loc.done > 0

\* Characters in the transmit ring have their interrupt on, or the write that
\* put them there has yet to reach its enabling step.
TransmitArmed ==
  tx_in # tx_out =>
    \/ "WE" \in irq_enable
    \/ pc \in {"wr_chunk", "wr_copy", "wr_enable"}

\* A read or a write that spins on an index has the interrupt on whose routine
\* moves it: neither waits for a wake-up that was lost.
WaiterArmed ==
  /\ pc = "rd_spin" /\ loc.in = rx_in  => "RE" \in enabled
  /\ pc = "wr_spin" /\ loc.out = tx_out => "WE" \in enabled

\* A blocking read reports an error only when the inactivity timeout was
\* reached while it waited.
ReadFailsOnTimeout ==
  [][pc = "rd_recheck" /\ pc' = "idle" => quiet]_vars

\* What altera_avalon_jtag_uart_write says of its error: "Host not connected",
\* that is, the timeout was reached during the call.
WriteFailsOnTimeout ==
  [][pc = "wr_check" /\ pc' = "idle" /\ ret' = EIO => quiet]_vars

\* A call that writes or drains always returns, whether the host stays and
\* takes what is sent or leaves, and once the host has left every call does:
\* the inactivity timeout ends the wait.  Beyond the largest count
\* host_inactive reaches, the timeout is no timeout.
CallsReturn ==
  /\ pc \in WritePcs \union {"close"} \/ host = "gone"
  /\ timeout <= IntMax - 2
  ~> pc = "idle"

\* Every character write accepted reaches a host that stays.
AcceptedIsTransmitted ==
  \A i \in {t[2] : t \in Traffic} \ {0} :
    accepted >= i ~> Len(transmitted) >= i \/ host = "gone"

\* Every character the host sent is delivered to an application that goes on
\* calling read: receive interrupts never stay off for ever.
SentIsReceived ==
  []<><<ReadCalls>>_vars =>
    \A i \in {t[1] : t \in Traffic} \ {0} : sent >= i ~> Len(received) >= i

(***************************************************************************)
(* Each direction implements a reliable bounded stream.                    *)
(***************************************************************************)
RxStream == INSTANCE ByteStream WITH
  Capacity <- BufLen - 1 + RxDepth,
  put <- sent, pending <- RxPending, got <- received

TxStream == INSTANCE ByteStream WITH
  Capacity <- BufLen - 1 + TxDepth,
  put <- accepted, pending <- TxPending, got <- transmitted

\* Both directions behave as streams do: a step puts one character in at the
\* back, takes one out at the front, or changes nothing.
ReceiveIsStream  == RxStream!Spec
TransmitIsStream == TxStream!Spec
=============================================================================
