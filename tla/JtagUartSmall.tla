--------------------------- MODULE JtagUartSmall ----------------------------
(***************************************************************************)
(* The polled ("small") driver of the JTAG UART, as test2_bsp builds it    *)
(* (ALT_USE_SMALL_DRIVERS): no rings, no interrupts and no timeout.  read  *)
(* and write work on the device's FIFOs, while the host at the other end   *)
(* of the cable sends, takes, leaves and comes back.                       *)
(*                                                                         *)
(* As in JtagUart, a character is its position in its stream.              *)
(***************************************************************************)
EXTENDS Errno, Sequences

CONSTANTS
  RxDepth,   \* depth of the device's receive FIFO
  TxDepth,   \* depth of its transmit FIFO
  Requests,  \* the lengths callers pass to read and write
  MaxChars   \* bound: characters sent, and characters accepted, in a behaviour

ASSUME SmallAssumption ==
  /\ RxDepth \in Nat \ {0}
  /\ TxDepth \in Nat \ {0}
  /\ Requests \subseteq Nat
  /\ MaxChars \in Nat

VARIABLES
  rx_fifo, tx_fifo,
  pc,           \* where the program is: "idle", "read", "write", "put"
  loc,          \* the locals of the call
  ret,          \* what the last call returned
  host,         \* "present" or "gone"
  sent, received, accepted, transmitted   \* as in JtagUart

callVars  == <<pc, loc, ret>>
rxVars    == <<rx_fifo, sent, received>>
txVars    == <<tx_fifo, accepted, transmitted>>
smallVars == <<callVars, rxVars, txVars, host>>

-----------------------------------------------------------------------------

NoLocals == [left |-> 0, done |-> 0, nonblock |-> FALSE]

SmallInit ==
  /\ rx_fifo = <<>> /\ tx_fifo = <<>>
  /\ pc = "idle" /\ loc = NoLocals /\ ret = 0
  /\ host = "present"
  /\ sent = 0 /\ received = <<>> /\ accepted = 0 /\ transmitted = <<>>

Enter(routine, len, nb) ==
  /\ pc = "idle"
  /\ pc' = routine
  /\ loc' = [left |-> len, done |-> 0, nonblock |-> nb]
  /\ UNCHANGED <<ret, rxVars, txVars, host>>

Return(value) == pc' = "idle" /\ loc' = NoLocals /\ ret' = value

ReadResult ==
  IF loc.done > 0 THEN loc.done
  ELSE IF loc.nonblock THEN EWOULDBLOCK ELSE EIO

\* With no character in the data register, read ends when it has some already
\* or must not block.
ReadGivesUp == loc.done > 0 \/ loc.nonblock

ReadCall(len, nb) == Enter("read", len, nb)

\* Mutant: the pointer stays where it is.
StoredOver(c) ==
  IF loc.done > 0 THEN [received EXCEPT ![Len(received)] = c]
  ELSE Append(received, c)

\* The caller's buffers after *ptr++ = c.
Stored(c) == Append(received, c)

\* One read of the data register takes a character out of the FIFO and says
\* whether there was one.
ReadData ==
  /\ pc = "read" /\ loc.left > 0 /\ rx_fifo # <<>>
  /\ received' = Stored(Head(rx_fifo))
  /\ rx_fifo' = Tail(rx_fifo)
  /\ loc' = [loc EXCEPT !.left = @ - 1, !.done = @ + 1]
  /\ UNCHANGED <<pc, ret, sent, txVars, host>>

\* The buffer is full, or the device has nothing and read gives up.
ReadEnd ==
  /\ pc = "read"
  /\ loc.left = 0 \/ (rx_fifo = <<>> /\ ReadGivesUp)
  /\ Return(ReadResult)
  /\ UNCHANGED <<rxVars, txVars, host>>

WriteCall(len) ==
  /\ accepted + len <= MaxChars
  /\ Enter("write", len, FALSE)

\* Mutant: space is waited for until all fits.
WSpaceForAll == Len(tx_fifo) + loc.left <= TxDepth

\* WSPACE of the control register.
WSpace == Len(tx_fifo) < TxDepth

\* One read of the control register ...
WritePoll ==
  /\ pc = "write" /\ loc.left > 0 /\ WSpace
  /\ pc' = "put"
  /\ UNCHANGED <<loc, ret, rxVars, txVars, host>>

\* ... and one write of the data register, which drops the character when the
\* FIFO is full.
WritePut ==
  /\ pc = "put"
  /\ pc' = "write"
  /\ loc' = [loc EXCEPT !.left = @ - 1, !.done = @ + 1]
  /\ accepted' = accepted + 1
  /\ tx_fifo' = IF Len(tx_fifo) < TxDepth THEN Append(tx_fifo, accepted + 1)
                ELSE tx_fifo
  /\ UNCHANGED <<ret, rxVars, transmitted, host>>

WriteEnd ==
  /\ pc = "write" /\ loc.left = 0
  /\ Return(loc.done)
  /\ UNCHANGED <<rxVars, txVars, host>>

-----------------------------------------------------------------------------
(***************************************************************************)
(* The host.                                                               *)
(***************************************************************************)
HostSend ==
  /\ host = "present" /\ sent < MaxChars /\ Len(rx_fifo) < RxDepth
  /\ sent' = sent + 1
  /\ rx_fifo' = Append(rx_fifo, sent + 1)
  /\ UNCHANGED <<received, txVars, callVars, host>>

HostTake ==
  /\ host = "present" /\ tx_fifo # <<>>
  /\ transmitted' = Append(transmitted, Head(tx_fifo))
  /\ tx_fifo' = Tail(tx_fifo)
  /\ UNCHANGED <<accepted, rxVars, callVars, host>>

\* The host leaves, or comes back.
HostToggle ==
  /\ host' = IF host = "present" THEN "gone" ELSE "present"
  /\ UNCHANGED <<rxVars, txVars, callVars>>

SmallCalls ==
  \/ \E len \in Requests, nb \in BOOLEAN : ReadCall(len, nb)
  \/ \E len \in Requests : WriteCall(len)

Reading == ReadData \/ ReadEnd
Writing == WritePoll \/ WritePut \/ WriteEnd
Host == HostSend \/ HostTake \/ HostToggle

SmallNext == SmallCalls \/ Reading \/ Writing \/ Host

SmallSpec == SmallInit /\ [][SmallNext]_smallVars

(***************************************************************************)
(* Fairness: the program goes on, and a host that is there again and again *)
(* takes what is in the FIFO.                                              *)
(***************************************************************************)
SmallFairSpec ==
  /\ SmallSpec
  /\ WF_smallVars(Reading) /\ WF_smallVars(Writing)
  /\ SF_smallVars(HostTake)

-----------------------------------------------------------------------------
(***************************************************************************)
(* Properties                                                              *)
(***************************************************************************)

\* Every variable has its type, and the FIFOs stay within their depth.
SmallTypeOK ==
  /\ rx_fifo \in Seq(Nat) /\ Len(rx_fifo) <= RxDepth
  /\ tx_fifo \in Seq(Nat) /\ Len(tx_fifo) <= TxDepth
  /\ pc \in {"idle", "read", "write", "put"}
  /\ loc \in [left : Nat, done : Nat, nonblock : BOOLEAN]
  /\ ret \in Nat \union {EIO, EWOULDBLOCK}
  /\ host \in {"present", "gone"}
  /\ sent \in Nat /\ accepted \in Nat
  /\ received \in Seq(Nat) /\ transmitted \in Seq(Nat)

\* "Blocks until it has at least one byte available, it then returns as much
\* as is immediately available": a blocking read never comes back empty-handed,
\* and a read that returns before its buffer is full left nothing in the
\* device and says how much it took.
ReadKeepsPromise ==
  [][pc = "read" /\ pc' = "idle" =>
       /\ loc.left > 0 => rx_fifo = <<>>
       /\ loc.done > 0 => ret' = loc.done
       /\ ~loc.nonblock /\ loc.left > 0 => ret' > 0]_smallVars

\* A write returns as long as the host is there from time to time; it has no
\* timeout, so without that it may wait for ever.
SmallWriteReturns == []<>(host = "present") => (pc = "write" ~> pc = "idle")

\* What a caller of either routine may rely on.
CallsKeepPromise == ReadKeepsPromise /\ SmallWriteReturns

\* Each direction implements a reliable bounded stream, here of the size of
\* the device's FIFO: the polled driver keeps the promise of the other one.
SmallRxStream == INSTANCE ByteStream WITH
  Capacity <- RxDepth, put <- sent, pending <- rx_fifo, got <- received

SmallTxStream == INSTANCE ByteStream WITH
  Capacity <- TxDepth, put <- accepted, pending <- tx_fifo, got <- transmitted

SmallIsStream == SmallRxStream!Spec /\ SmallTxStream!Spec
=============================================================================
