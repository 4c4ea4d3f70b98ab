------------------------------- MODULE SpiFsm -------------------------------
(***************************************************************************)
(* base_fsm: the SPI master that reads a 12-bit conversion from an ADC.    *)
(* A step of the model is one rising edge of clk: every register takes its *)
(* next value from the registers and ports before the edge.                *)
(*                                                                         *)
(* The ADC is external.  It shifts its output on the falling edges of      *)
(* sclk_n while it is selected, and holds it between them; a bit is        *)
(* represented by the number of falling edges the frame had seen when it   *)
(* appeared, and by Stale once a new frame has begun.                      *)
(***************************************************************************)
EXTENDS Integers, Sequences

CONSTANTS
  W,         \* width of clk_scaler and of the divider's counter
  PkgSize,   \* sclk periods in a frame (`PKG_SIZE)
  DataBits,  \* width of data
  Scalers    \* the values the environment gives clk_scaler

ASSUME SpiAssumption ==
  /\ W \in Nat \ {0} /\ 2^W \in Nat \ {0}
  /\ PkgSize \in Nat /\ PkgSize > 5 /\ 2 * PkgSize < 63
  \* the bits of a frame that are sampled, from the fifth on
  /\ DataBits \in Nat \ {0} /\ DataBits <= PkgSize - 4
  /\ Scalers \subseteq 0 .. 2^W - 1

VARIABLES
  start, clk_scaler,                      \* input ports
  sclk_n, cs_n, data, irq,                \* output ports
  state_q, iter_q, sclk_cntr_q,           \* the state machine
  ena, clk_dvdr_cntr,                     \* the clock divider
  enadelayed, data_d, irq_q, irq_2q,      \* the sampling pipeline
  falls                                   \* the ADC: falling edges this frame

ports    == <<sclk_n, cs_n, data, irq>>
machine  == <<state_q, iter_q, sclk_cntr_q>>
divider  == <<ena, clk_dvdr_cntr>>
sampling == <<enadelayed, data_d, irq_q, irq_2q>>
registers == <<ports, machine, divider, sampling, falls>>
vars == <<start, clk_scaler, registers>>

IDLE == 0
WAIT_WR_ADDR == 1
WR_ADDR == 2
RD_RESP == 3

Bit == 0 .. 1
Stale == 0

-----------------------------------------------------------------------------
(***************************************************************************)
(* The combinational block: next values that ena lets into the registers.  *)
(***************************************************************************)
Counting == state_q \in {WAIT_WR_ADDR, WR_ADDR, RD_RESP}

iter_d ==
  IF Counting THEN (iter_q + 1) % 64
  ELSE IF state_q = IDLE THEN 0 ELSE iter_q

sclk_cntr_d ==
  IF Counting THEN 1 - sclk_cntr_q
  ELSE IF state_q = IDLE THEN 1 ELSE sclk_cntr_q

\* Mutant: a frame one clock late.
FrameEndsLate == state_q = RD_RESP /\ iter_q = 2 * PkgSize + 2

\* The case statement looks at the counter before it is incremented.
FrameEnds == state_q = RD_RESP /\ iter_q = 2 * PkgSize

state_d ==
  CASE state_q = IDLE                            -> WAIT_WR_ADDR
    [] state_q = WAIT_WR_ADDR /\ iter_q = 2 * 2  -> WR_ADDR
    [] state_q = WR_ADDR /\ iter_q = 5 * 2       -> RD_RESP
    [] FrameEnds                                 -> IDLE
    [] OTHER                                     -> state_q

cs_n_d == IF Counting /\ ~FrameEnds THEN 0 ELSE 1
\* Mutant: sampling begins with the state, a clock later than the bit.
rd_ena_late == state_q = RD_RESP

rd_ena == state_q = RD_RESP \/ (state_q = WR_ADDR /\ iter_q = 5 * 2)
irq_d  == FrameEnds

irq_2d == irq_q /\ enadelayed

sclk_n_d == IF sclk_cntr_d = 1 /\ ~(cs_n = 1 /\ cs_n_d = 1) THEN 0 ELSE 1

half_scaler == clk_scaler \div 2

\* Mutant: the divider's counter stops at its largest value.
CountOnToTop ==
  IF clk_dvdr_cntr = 2^W - 1 THEN clk_dvdr_cntr ELSE clk_dvdr_cntr + 1

CountOn == (clk_dvdr_cntr + 1) % 2^W

-----------------------------------------------------------------------------
\* Registers power up low, as the initial block says of the divider's.
Init ==
  /\ start \in BOOLEAN /\ clk_scaler \in Scalers
  /\ sclk_n = 0 /\ cs_n = 0 /\ irq = FALSE
  /\ data = [i \in 1 .. DataBits |-> Stale]
  /\ state_q = IDLE /\ iter_q = 0 /\ sclk_cntr_q = 0
  /\ ena = FALSE /\ clk_dvdr_cntr = 0
  /\ enadelayed = FALSE /\ irq_q = FALSE /\ irq_2q = FALSE
  /\ data_d = [i \in 1 .. DataBits |-> Stale]
  /\ falls = 0

Divide ==
  /\ ena' = (clk_dvdr_cntr = half_scaler)
  /\ clk_dvdr_cntr' = IF clk_dvdr_cntr = half_scaler THEN 0 ELSE CountOn

Advance ==
  /\ state_q' = IF start THEN IDLE ELSE IF ena THEN state_d ELSE state_q
  /\ IF ena
     THEN /\ iter_q' = iter_d /\ sclk_cntr_q' = sclk_cntr_d
          /\ sclk_n' = sclk_n_d /\ cs_n' = cs_n_d
     ELSE UNCHANGED <<iter_q, sclk_cntr_q, sclk_n, cs_n>>

\* The ADC's side of an edge: a frame begins when cs_n falls, and the next
\* bit appears when sclk_n falls in a frame.
FrameBegins == cs_n = 1 /\ cs_n' = 0

Adc ==
  falls' = IF FrameBegins THEN 0
           ELSE IF cs_n = 0 /\ sclk_n = 1 /\ sclk_n' = 0 THEN falls + 1
           ELSE falls

\* A shift of from_device into data_d, and the interrupt pipeline.
Sample ==
  /\ enadelayed' = (ena /\ sclk_n_d = 1 /\ rd_ena)
  /\ LET shifted == IF enadelayed THEN Append(Tail(data_d), falls) ELSE data_d
     IN  data_d' = IF FrameBegins THEN [i \in 1 .. DataBits |-> Stale]
                                  ELSE shifted
  /\ irq_q' = irq_d
  /\ irq_2q' = irq_2d
  /\ data' = IF irq_2q THEN data_d ELSE data
  /\ irq' = irq_2q

Inputs == start' \in BOOLEAN /\ clk_scaler' \in Scalers

PosedgeClk == Divide /\ Advance /\ Adc /\ Sample /\ Inputs

Next == PosedgeClk

Spec == Init /\ [][Next]_vars

\* The clock never stops: an edge that changes a register comes, whether or not
\* the inputs ever change.
FairSpec == Spec /\ WF_registers(Next)

-----------------------------------------------------------------------------
(***************************************************************************)
(* Properties                                                              *)
(***************************************************************************)

\* Every register has its width and the ADC never sees more clocks in a frame
\* than the frame has.
TypeOK ==
  /\ start \in BOOLEAN /\ clk_scaler \in Scalers
  /\ sclk_n \in Bit /\ cs_n \in Bit /\ irq \in BOOLEAN
  /\ data \in [1 .. DataBits -> 0 .. PkgSize]
  /\ state_q \in IDLE .. RD_RESP
  /\ iter_q \in 0 .. 63 /\ sclk_cntr_q \in Bit
  /\ ena \in BOOLEAN /\ clk_dvdr_cntr \in 0 .. 2^W - 1
  /\ enadelayed \in BOOLEAN /\ irq_q \in BOOLEAN /\ irq_2q \in BOOLEAN
  /\ data_d \in [1 .. DataBits -> 0 .. PkgSize]
  /\ falls \in 0 .. PkgSize

\* When irq is raised data holds the last DataBits bits of one and the same
\* frame, in order, whatever start pulses and changes of clk_scaler came
\* before: a frame that start cuts short leaves nothing behind in it.
DataIsOneFrame ==
  irq => data = [i \in 1 .. DataBits |-> PkgSize - DataBits + i]

\* Once start is no longer raised and clk_scaler has settled conversions keep
\* arriving, whatever both did before: the divider meets its compare again
\* (its counter wraps) and the machine gets out of every state.
FramesComplete ==
  \A k \in Scalers : <>[](clk_scaler = k /\ ~start) => []<>irq
=============================================================================
