----------------------------- MODULE RtlProofs ------------------------------
(***************************************************************************)
(* Proofs about the cores: SpiFsm, for every width of the divider, length  *)
(* of a frame the iteration counter can count, and width of data a frame   *)
(* fills; SmControl, for every width of the counter and length of a packet *)
(* it can count; FecClient, its column sums and its hand-over, for every   *)
(* size of packets, rows and frames, and every skew of the two clocks that *)
(* a frame outlasts twice; SerialMult, for every width of a word that its  *)
(* counter can count; and the bench that TLC runs, with ReqGrant and the   *)
(* Reed-Solomon models, whose proofs it takes from ReedSolomonProofs.      *)
(***************************************************************************)
EXTENDS MCRtl, ReedSolomonProofs, SequenceTheorems

-----------------------------------------------------------------------------
(***************************************************************************)
(*                                 SpiFsm                                  *)
(***************************************************************************)
(***************************************************************************)
(* The inductive invariant.  Once cs_n is low iter_q counts the half       *)
(* periods of sclk_n, two for every bit the ADC has put out, and each      *)
(* state has its stretch of them: a frame can only be entered at its       *)
(* beginning, so what start cuts short never reaches the end of one.       *)
(***************************************************************************)
InFrame == Counting /\ cs_n = 0

\* Where each state is in the frame.
Stretch ==
  /\ state_q = WAIT_WR_ADDR => iter_q \in 1 .. 4
  /\ state_q = WR_ADDR => iter_q \in 5 .. 10
  /\ state_q = RD_RESP => iter_q \in 11 .. 2 * PkgSize

CountsAgree ==
  /\ Counting /\ cs_n = 1 =>
       state_q = WAIT_WR_ADDR /\ iter_q = 0 /\ sclk_cntr_q = 1
  /\ InFrame =>
       /\ iter_q = 2 * falls + sclk_n /\ sclk_n = 1 - sclk_cntr_q
       /\ Stretch
  /\ state_q = IDLE /\ cs_n = 0 => falls + sclk_n <= PkgSize

\* The last bit of this frame that has been shifted in: between a rise of
\* sclk_n and the clock after it, the bit the ADC holds is still to come.
LastBit == IF sclk_n = 1 /\ ~enadelayed THEN falls ELSE falls - 1

\* d ends with the sampled bits up to the k-th.
HoldsUpTo(d, k) ==
  \A j \in 1 .. DataBits :
    k - DataBits + j > 4 => d[j] = k - DataBits + j

\* The bits on their way: those sampled in this frame, then all but one when
\* the frame has ended, all of them a clock later, and data after that.
SamplesHeld ==
  /\ enadelayed => sclk_n = 1
  /\ state_q = RD_RESP => HoldsUpTo(data_d, LastBit)
  /\ irq_q /\ enadelayed =>
       /\ state_q = IDLE /\ cs_n = 1 /\ falls = PkgSize
       /\ HoldsUpTo(data_d, PkgSize - 1)
  /\ irq_2q => HoldsUpTo(data_d, PkgSize)
  /\ irq => HoldsUpTo(data, PkgSize)

SpiIInv == TypeOK /\ CountsAgree /\ SamplesHeld

-----------------------------------------------------------------------------

\* The shift register after a shift.
LEMMA ShiftIs ==
  ASSUME NEW d \in [1 .. DataBits -> 0 .. PkgSize], NEW x \in 0 .. PkgSize
  PROVE  Append(Tail(d), x)
           = [i \in 1 .. DataBits |-> IF i = DataBits THEN x ELSE d[i + 1]]
<1> DEFINE n == DataBits
           S == 0 .. PkgSize
<1>0. n \in Nat \ {0} /\ d \in [1 .. n -> S] /\ x \in S
  BY SpiAssumption
<1> HIDE DEF n, S
<1>1. d \in Seq(S) /\ DOMAIN d = 1 .. n
  BY <1>0, SeqDef
<1>2. Len(d) = n /\ d # <<>>
  <2>1. Len(d) \in Nat /\ DOMAIN d = 1 .. Len(d)
    BY <1>1, LenProperties
  <2>2. Len(d) = n
    BY <1>0, <1>1, <2>1
  <2> QED
    BY <1>0, <2>2
<1>3. /\ Tail(d) \in Seq(S) /\ Len(Tail(d)) = n - 1
      /\ \A i \in 1 .. n - 1 : Tail(d)[i] = d[i + 1]
  BY <1>0, <1>1, <1>2, HeadTailProperties
<1> DEFINE e == Append(Tail(d), x)
<1>4. /\ e \in Seq(S) /\ Len(e) = n
      /\ \A i \in 1 .. n - 1 : e[i] = d[i + 1]
      /\ e[n] = x
  <2>1. /\ e \in Seq(S) /\ Len(e) = (n - 1) + 1
        /\ \A i \in 1 .. n - 1 : e[i] = Tail(d)[i]
        /\ e[(n - 1) + 1] = x
    BY <1>0, <1>3, AppendProperties
  <2>2. (n - 1) + 1 = n
    BY <1>0
  <2> HIDE DEF e
  <2> QED
    BY <1>0, <1>3, <2>1, <2>2
<1> HIDE DEF e
<1>5. e = [i \in 1 .. n |-> e[i]]
  BY <1>0, <1>4, LenProperties
<1>6. \A i \in 1 .. n : e[i] = IF i = n THEN x ELSE d[i + 1]
  BY <1>0, <1>4
<1>7. e = [i \in 1 .. n |-> IF i = n THEN x ELSE d[i + 1]]
  BY <1>5, <1>6
<1> QED
  BY <1>7 DEF e, n, S

\* A shift adds the next bit.
LEMMA ShiftHolds ==
  ASSUME NEW d \in [1 .. DataBits -> 0 .. PkgSize], NEW k \in 0 .. PkgSize,
         HoldsUpTo(d, k - 1)
  PROVE  /\ Append(Tail(d), k) \in [1 .. DataBits -> 0 .. PkgSize]
         /\ HoldsUpTo(Append(Tail(d), k), k)
<1> USE SpiAssumption
<1> DEFINE e == [i \in 1 .. DataBits |-> IF i = DataBits THEN k ELSE d[i + 1]]
<1>1. Append(Tail(d), k) = e
  BY ShiftIs
<1>2. e \in [1 .. DataBits -> 0 .. PkgSize]
  OBVIOUS
<1>3. ASSUME NEW j \in 1 .. DataBits, k - DataBits + j > 4
      PROVE  e[j] = k - DataBits + j
  <2>1. CASE j = DataBits
    BY <2>1
  <2>2. CASE j # DataBits
    <3>1. j + 1 \in 1 .. DataBits /\ (k - 1) - DataBits + (j + 1) = k - DataBits + j
      BY <2>2
    <3>2. d[j + 1] = (k - 1) - DataBits + (j + 1)
      BY <1>3, <3>1 DEF HoldsUpTo
    <3> QED
      BY <2>2, <3>1, <3>2
  <2> QED
    BY <2>1, <2>2
<1> HIDE DEF e
<1> QED
  BY <1>1, <1>2, <1>3 DEF HoldsUpTo

LEMMA SpiInitIInv == Init => SpiIInv
<1> SUFFICES ASSUME Init PROVE SpiIInv
  OBVIOUS
<1> USE SpiAssumption
<1>1. 0 \in 0 .. 2^W - 1
  <2> DEFINE top == 2^W
  <2>1. top \in Nat \ {0}
    OBVIOUS
  <2> HIDE DEF top
  <2>2. 0 \in 0 .. top - 1
    BY <2>1
  <2> QED
    BY <2>2 DEF top
<1>2. /\ data \in [1 .. DataBits -> 0 .. PkgSize]
      /\ data_d \in [1 .. DataBits -> 0 .. PkgSize]
      /\ falls \in 0 .. PkgSize /\ state_q \in IDLE .. RD_RESP
      /\ iter_q \in 0 .. 63 /\ sclk_cntr_q \in Bit /\ sclk_n \in Bit
      /\ cs_n \in Bit
  BY DEF Init, Stale, Bit, IDLE, RD_RESP
<1>3. clk_dvdr_cntr \in 0 .. 2^W - 1
  BY <1>1, Zenon DEF Init
<1>4. TypeOK
  BY <1>2, <1>3, Zenon DEF Init, TypeOK
<1>5. CountsAgree
  BY DEF Init, CountsAgree, InFrame, Counting, IDLE, WAIT_WR_ADDR, WR_ADDR, RD_RESP
<1>6. SamplesHeld
  BY DEF Init, SamplesHeld, IDLE, RD_RESP
<1> QED
  BY <1>4, <1>5, <1>6 DEF SpiIInv

-----------------------------------------------------------------------------
(***************************************************************************)
(* What an edge does to the machine and the ADC: nothing between two       *)
(* enables; with one it rests, pulls cs_n low, raises or drops sclk_n, or  *)
(* ends the frame.                                                         *)
(***************************************************************************)
Stays ==
  /\ UNCHANGED <<iter_q, sclk_cntr_q, sclk_n, cs_n, falls>>
  /\ state_q' \in {state_q, IDLE} /\ enadelayed' = FALSE

Rests ==
  /\ state_q = IDLE /\ state_q' \in {IDLE, WAIT_WR_ADDR}
  /\ iter_q' = 0 /\ sclk_cntr_q' = 1 /\ cs_n' = 1 /\ sclk_n' \in Bit
  /\ falls' = IF cs_n = 0 /\ sclk_n = 1 THEN falls + 1 ELSE falls
  /\ enadelayed' = FALSE

Begins ==
  /\ state_q = WAIT_WR_ADDR /\ cs_n = 1
  /\ state_q' \in {IDLE, WAIT_WR_ADDR}
  /\ iter_q' = 1 /\ sclk_cntr_q' = 0 /\ cs_n' = 0 /\ sclk_n' = 1
  /\ falls' = 0 /\ enadelayed' = FALSE

Rises ==
  /\ InFrame /\ sclk_n = 0 /\ iter_q < 2 * PkgSize
  /\ iter_q' = iter_q + 1 /\ sclk_cntr_q' = 0 /\ cs_n' = 0 /\ sclk_n' = 1
  /\ falls' = falls
  /\ state_q' \in {IDLE, state_q} \/ (iter_q = 4 /\ state_q' = WR_ADDR)
       \/ (iter_q = 10 /\ state_q' = RD_RESP)
  /\ state_q' = WAIT_WR_ADDR => iter_q < 4
  /\ state_q' = WR_ADDR => iter_q < 10
  /\ state_q' = RD_RESP => enadelayed' = TRUE

Drops ==
  /\ InFrame /\ sclk_n = 1
  /\ iter_q' = iter_q + 1 /\ sclk_cntr_q' = 1 /\ cs_n' = 0 /\ sclk_n' = 0
  /\ falls' = falls + 1
  /\ state_q' \in {IDLE, state_q} /\ enadelayed' = FALSE

Ends ==
  /\ FrameEnds /\ cs_n = 0 /\ sclk_n = 0
  /\ state_q' = IDLE /\ iter_q' = iter_q + 1 /\ sclk_cntr_q' = 0
  /\ cs_n' = 1 /\ sclk_n' = 1
  /\ falls' = falls

LEMMA EdgeCases ==
  ASSUME SpiIInv, PosedgeClk
  PROVE  /\ Stays \/ Rests \/ Begins \/ Rises \/ Drops \/ Ends
         /\ irq_q' /\ enadelayed' => Ends
         /\ enadelayed' => sclk_n' = 1
<1> USE SpiAssumption DEF IDLE, WAIT_WR_ADDR, WR_ADDR, RD_RESP
<1>1. /\ state_q \in 0 .. 3 /\ iter_q \in 0 .. 63 /\ sclk_cntr_q \in 0 .. 1
      /\ sclk_n \in 0 .. 1 /\ cs_n \in 0 .. 1 /\ falls \in 0 .. PkgSize
  BY DEF SpiIInv, TypeOK, Bit
<1>2. /\ enadelayed' => ena /\ sclk_n_d = 1 /\ rd_ena
      /\ ena /\ sclk_n_d = 1 /\ rd_ena => enadelayed' = TRUE
      /\ enadelayed' \in BOOLEAN
      /\ irq_q' => FrameEnds
  BY Zenon DEF PosedgeClk, Sample, irq_d
<1>3. CASE ~ena
  <2>1. /\ UNCHANGED <<iter_q, sclk_cntr_q, sclk_n, cs_n>>
        /\ state_q' \in {state_q, IDLE}
    BY <1>3 DEF PosedgeClk, Advance
  <2>2. falls' = falls
    BY <1>1, <2>1 DEF PosedgeClk, Adc, FrameBegins
  <2>3. enadelayed' = FALSE
    BY <1>2, <1>3
  <2> QED
    BY <1>2, <2>1, <2>2, <2>3 DEF Stays
<1>4. CASE ena /\ state_q = IDLE
  <2>1. ~Counting /\ ~FrameEnds /\ ~rd_ena
    BY <1>4 DEF Counting, FrameEnds, rd_ena
  <2>2. /\ iter_q' = 0 /\ sclk_cntr_q' = 1 /\ cs_n' = 1
        /\ sclk_n' = IF cs_n = 1 THEN 1 ELSE 0
    BY <1>1, <1>4, <2>1
       DEF PosedgeClk, Advance, iter_d, sclk_cntr_d, cs_n_d, sclk_n_d
  <2>3. state_q' \in {IDLE, WAIT_WR_ADDR}
    BY <1>4 DEF PosedgeClk, Advance, state_d
  <2>4. falls' = IF cs_n = 0 /\ sclk_n = 1 THEN falls + 1 ELSE falls
    BY <1>1, <2>2 DEF PosedgeClk, Adc, FrameBegins
  <2>5. enadelayed' = FALSE
    BY <1>2, <2>1
  <2> QED
    BY <1>2, <1>4, <2>2, <2>3, <2>4, <2>5 DEF Rests, Bit
<1>5. CASE ena /\ Counting /\ cs_n = 1
  <2>1. state_q = WAIT_WR_ADDR /\ iter_q = 0 /\ sclk_cntr_q = 1
    BY <1>5 DEF SpiIInv, CountsAgree
  <2>2. ~FrameEnds /\ ~rd_ena
    BY <2>1 DEF FrameEnds, rd_ena
  <2>3. /\ iter_q' = 1 /\ sclk_cntr_q' = 0 /\ cs_n' = 0 /\ sclk_n' = 1
    BY <1>1, <1>5, <2>1, <2>2
       DEF PosedgeClk, Advance, iter_d, sclk_cntr_d, cs_n_d, sclk_n_d
  <2>4. state_q' \in {IDLE, WAIT_WR_ADDR}
    BY <1>5, <2>1, <2>2 DEF PosedgeClk, Advance, state_d
  <2>5. falls' = 0
    BY <1>5, <2>3 DEF PosedgeClk, Adc, FrameBegins
  <2>6. enadelayed' = FALSE
    BY <1>2, <2>2
  <2> QED
    BY <1>2, <1>5, <2>1, <2>3, <2>4, <2>5, <2>6 DEF Begins
<1>6. CASE ena /\ InFrame
  <2>1. /\ Counting /\ cs_n = 0
        /\ iter_q = 2 * falls + sclk_n /\ sclk_n = 1 - sclk_cntr_q /\ Stretch
    BY <1>6 DEF InFrame, SpiIInv, CountsAgree
  <2>2. iter_q < 63 /\ (iter_q + 1) % 64 = iter_q + 1
    BY <1>1, <2>1 DEF Stretch, Counting
  <2>3. /\ iter_q' = iter_q + 1
        /\ sclk_cntr_q' = 1 - sclk_cntr_q
        /\ cs_n' = (IF FrameEnds THEN 1 ELSE 0)
        /\ sclk_n' = 1 - sclk_n
    BY <1>1, <1>6, <2>1, <2>2
       DEF PosedgeClk, Advance, iter_d, sclk_cntr_d, cs_n_d, sclk_n_d
  <2>4. falls' = IF sclk_n = 1 THEN falls + 1 ELSE falls
    BY <1>1, <2>1, <2>3 DEF PosedgeClk, Adc, FrameBegins
  <2>5. state_q' = IDLE \/ state_q' = state_d
    BY <1>6 DEF PosedgeClk, Advance
  <2>6. enadelayed' => sclk_n' = 1
    BY <1>2, <1>6, Zenon DEF PosedgeClk, Advance
  <2>7. CASE FrameEnds
    <3>1. sclk_n = 0
      BY <1>1, <2>1, <2>7 DEF FrameEnds
    <3>2. state_d = IDLE
      BY <2>7 DEF state_d, FrameEnds
    <3> QED
      BY <1>1, <2>1, <2>3, <2>4, <2>5, <2>6, <2>7, <3>1, <3>2 DEF Ends
  <2>8. CASE ~FrameEnds /\ sclk_n = 1
    <3>1. iter_q # 4 /\ iter_q # 10
      BY <1>1, <2>1, <2>8
    <3>2. state_d = state_q
      BY <2>1, <2>8, <3>1 DEF state_d, Counting
    <3>3. enadelayed' = FALSE
      BY <1>2, <2>3, <2>6, <2>8
    <3> QED
      BY <1>1, <1>2, <1>6, <2>1, <2>3, <2>4, <2>5, <2>6, <2>8, <3>2, <3>3 DEF Drops
  <2>9. CASE ~FrameEnds /\ sclk_n = 0
    <3>1. iter_q < 2 * PkgSize
      BY <1>1, <2>1, <2>9 DEF Stretch, Counting, FrameEnds
    <3>2. /\ state_d = IF state_q = WAIT_WR_ADDR /\ iter_q = 4 THEN WR_ADDR
                       ELSE IF state_q = WR_ADDR /\ iter_q = 10 THEN RD_RESP
                       ELSE state_q
      BY <2>1, <2>9 DEF state_d, Counting
    <3>3. /\ state_q' \in {IDLE, state_q} \/ (iter_q = 4 /\ state_q' = WR_ADDR)
               \/ (iter_q = 10 /\ state_q' = RD_RESP)
          /\ state_q' = WAIT_WR_ADDR => iter_q < 4
          /\ state_q' = WR_ADDR => iter_q < 10
          /\ state_q' = RD_RESP => rd_ena
      BY <1>1, <2>1, <2>5, <3>2 DEF Stretch, Counting, rd_ena
    <3>4. sclk_n_d = 1
      BY <1>6, <2>3, <2>9 DEF PosedgeClk, Advance
    <3>5. state_q' = RD_RESP => enadelayed' = TRUE
      BY <1>2, <1>6, <3>3, <3>4
    <3> QED
      BY <1>1, <1>2, <1>6, <2>1, <2>3, <2>4, <2>6, <2>9, <3>1, <3>3, <3>5 DEF Rises
  <2> QED
    BY <1>1, <2>7, <2>8, <2>9
<1> QED
  BY <1>1, <1>3, <1>4, <1>5, <1>6 DEF Counting, InFrame

\* data_d is cleared when a frame begins, and shifted after a sample.
LEMMA SampleCases ==
  ASSUME SpiIInv, PosedgeClk
  PROVE  /\ FrameBegins => data_d' = [i \in 1 .. DataBits |-> Stale]
         /\ ~FrameBegins /\ enadelayed => data_d' = Append(Tail(data_d), falls)
         /\ ~FrameBegins /\ ~enadelayed => data_d' = data_d
         /\ irq_2q' => irq_q /\ enadelayed
         /\ irq' => irq_2q
         /\ irq_2q => data' = data_d
         /\ ~irq_2q => data' = data
         /\ irq_q' \in BOOLEAN /\ irq_2q' \in BOOLEAN
         /\ irq' \in BOOLEAN /\ enadelayed' \in BOOLEAN
<1>1. irq \in BOOLEAN /\ irq_2q \in BOOLEAN
  BY DEF SpiIInv, TypeOK
<1> QED
  BY <1>1, Zenon DEF PosedgeClk, Sample, irq_2d, irq_d, FrameEnds

LEMMA DividerTypes ==
  ASSUME SpiIInv, PosedgeClk
  PROVE  ena' \in BOOLEAN /\ clk_dvdr_cntr' \in 0 .. 2^W - 1
<1> DEFINE top == 2^W
<1>1. top \in Nat \ {0}
  BY SpiAssumption
<1>2. clk_dvdr_cntr \in 0 .. top - 1
  BY DEF SpiIInv, TypeOK
<1> HIDE DEF top
<1>3. (clk_dvdr_cntr + 1) % top \in 0 .. top - 1 /\ 0 \in 0 .. top - 1
  BY <1>1, <1>2
<1>4. CountOn \in 0 .. 2^W - 1 /\ 0 \in 0 .. 2^W - 1
  BY <1>3, Zenon DEF CountOn, top
<1> QED
  BY <1>4, Zenon DEF PosedgeClk, Divide

\* The machine's registers and the ADC's count.
LEMMA EdgeTypes ==
  ASSUME SpiIInv, PosedgeClk
  PROVE  /\ state_q' \in 0 .. 3 /\ iter_q' \in 0 .. 63 /\ sclk_cntr_q' \in 0 .. 1
         /\ sclk_n' \in 0 .. 1 /\ cs_n' \in 0 .. 1 /\ falls' \in 0 .. PkgSize
<1> USE SpiAssumption DEF IDLE, WAIT_WR_ADDR, WR_ADDR, RD_RESP
<1>1. /\ state_q \in 0 .. 3 /\ iter_q \in 0 .. 63 /\ sclk_cntr_q \in 0 .. 1
      /\ sclk_n \in 0 .. 1 /\ cs_n \in 0 .. 1 /\ falls \in 0 .. PkgSize
  BY DEF SpiIInv, TypeOK, Bit
<1>2. InFrame => iter_q = 2 * falls + sclk_n /\ iter_q <= 2 * PkgSize
  BY <1>1 DEF SpiIInv, CountsAgree, Stretch, InFrame, Counting
<1>3. state_q = IDLE /\ cs_n = 0 => falls + sclk_n <= PkgSize
  BY DEF SpiIInv, CountsAgree
<1>4. CASE Stays
  BY <1>1, <1>4 DEF Stays
<1>5. CASE Rests
  BY <1>1, <1>3, <1>5 DEF Rests, Bit
<1>6. CASE Begins
  BY <1>1, <1>6 DEF Begins
<1>7. CASE Rises
  BY <1>1, <1>2, <1>7 DEF Rises
<1>8. CASE Drops
  BY <1>1, <1>2, <1>8 DEF Drops
<1>9. CASE Ends
  <2>1. InFrame
    BY <1>9 DEF Ends, FrameEnds, InFrame, Counting
  <2> QED
    BY <1>1, <1>2, <1>9, <2>1 DEF Ends
<1> QED
  BY <1>4, <1>5, <1>6, <1>7, <1>8, <1>9, EdgeCases

LEMMA EdgeTypeOK ==
  ASSUME SpiIInv, PosedgeClk
  PROVE  TypeOK'
<1> USE SpiAssumption
<1>1. TypeOK
  BY DEF SpiIInv
<1>2. /\ state_q' \in IDLE .. RD_RESP /\ iter_q' \in 0 .. 63 /\ sclk_cntr_q' \in Bit
      /\ sclk_n' \in Bit /\ cs_n' \in Bit /\ falls' \in 0 .. PkgSize
  BY EdgeTypes DEF IDLE, RD_RESP, Bit
<1>3. data_d' \in [1 .. DataBits -> 0 .. PkgSize]
  <2>1. [i \in 1 .. DataBits |-> Stale] \in [1 .. DataBits -> 0 .. PkgSize]
    BY DEF Stale
  <2>2. /\ data_d \in [1 .. DataBits -> 0 .. PkgSize] /\ falls \in 0 .. PkgSize
        /\ DataBits \in Nat \ {0}
    BY <1>1 DEF TypeOK
  <2>3. Append(Tail(data_d), falls) \in [1 .. DataBits -> 0 .. PkgSize]
    <3>1. Append(Tail(data_d), falls)
            = [i \in 1 .. DataBits |->
                 IF i = DataBits THEN falls ELSE data_d[i + 1]]
      BY <2>2, ShiftIs
    <3>2. [i \in 1 .. DataBits |-> IF i = DataBits THEN falls ELSE data_d[i + 1]]
            \in [1 .. DataBits -> 0 .. PkgSize]
      BY <2>2
    <3> QED
      BY <3>1, <3>2
  <2> QED
    BY <2>1, <2>2, <2>3, SampleCases, Zenon
<1>4. data' \in [1 .. DataBits -> 0 .. PkgSize]
  BY <1>1, SampleCases DEF TypeOK
<1>5. start' \in BOOLEAN /\ clk_scaler' \in Scalers
  BY DEF PosedgeClk, Inputs
<1> QED
  BY <1>2, <1>3, <1>4, <1>5, SampleCases, DividerTypes, Zenon DEF TypeOK

LEMMA EdgeCountsAgree ==
  ASSUME SpiIInv, PosedgeClk
  PROVE  CountsAgree'
<1> USE SpiAssumption DEF IDLE, WAIT_WR_ADDR, WR_ADDR, RD_RESP
<1>1. /\ state_q \in 0 .. 3 /\ iter_q \in 0 .. 63 /\ sclk_cntr_q \in 0 .. 1
      /\ sclk_n \in 0 .. 1 /\ cs_n \in 0 .. 1 /\ falls \in 0 .. PkgSize
  BY DEF SpiIInv, TypeOK, Bit
<1>2. CountsAgree
  BY DEF SpiIInv
<1>3. CASE Stays
  BY <1>1, <1>2, <1>3 DEF Stays, CountsAgree, InFrame, Counting, Stretch
<1>4. CASE Rests
  BY <1>1, <1>4 DEF Rests, CountsAgree, InFrame, Counting, Stretch
<1>5. CASE Begins
  BY <1>1, <1>5 DEF Begins, CountsAgree, InFrame, Counting, Stretch
<1>6. CASE Rises
  BY <1>1, <1>2, <1>6 DEF Rises, CountsAgree, InFrame, Counting, Stretch
<1>7. CASE Drops
  BY <1>1, <1>2, <1>7 DEF Drops, CountsAgree, InFrame, Counting, Stretch
<1>8. CASE Ends
  BY <1>1, <1>8 DEF Ends, CountsAgree, InFrame, Counting
<1> QED
  BY <1>3, <1>4, <1>5, <1>6, <1>7, <1>8, EdgeCases

\* A sample that is under way is of the frame's last bit so far, and comes in
\* at this edge.
LEMMA EdgeSamples ==
  ASSUME SpiIInv, PosedgeClk
  PROVE  SamplesHeld'
<1> USE SpiAssumption DEF IDLE, WAIT_WR_ADDR, WR_ADDR, RD_RESP
<1>1. /\ state_q \in 0 .. 3 /\ iter_q \in 0 .. 63 /\ sclk_cntr_q \in 0 .. 1
      /\ sclk_n \in 0 .. 1 /\ cs_n \in 0 .. 1 /\ falls \in 0 .. PkgSize
      /\ data_d \in [1 .. DataBits -> 0 .. PkgSize] /\ enadelayed \in BOOLEAN
  BY DEF SpiIInv, TypeOK, Bit
<1>2. CountsAgree /\ SamplesHeld
  BY DEF SpiIInv
<1>3. ASSUME enadelayed, ~FrameBegins, HoldsUpTo(data_d, falls - 1)
      PROVE  HoldsUpTo(data_d', falls)
  <2>1. data_d' = Append(Tail(data_d), falls)
    BY <1>3, SampleCases
  <2> QED
    BY <1>1, <1>3, <2>1, ShiftHolds
<1>4. ASSUME ~FrameBegins, ~enadelayed
      PROVE  data_d' = data_d
  BY <1>4, SampleCases
<1>5. ASSUME state_q = RD_RESP
      PROVE  ~FrameBegins /\ HoldsUpTo(data_d', IF sclk_n = 1 THEN falls ELSE falls - 1)
  <2>1. cs_n = 0
    BY <1>1, <1>2, <1>5 DEF CountsAgree, Counting
  <2>2. ~FrameBegins
    BY <2>1 DEF FrameBegins
  <2>3. HoldsUpTo(data_d, LastBit) /\ (enadelayed => sclk_n = 1)
    BY <1>2, <1>5 DEF SamplesHeld
  <2>4. CASE enadelayed
    BY <1>3, <2>2, <2>3, <2>4 DEF LastBit
  <2>5. CASE ~enadelayed
    BY <1>4, <2>2, <2>3, <2>5 DEF LastBit
  <2> QED
    BY <2>2, <2>4, <2>5
<1>6. enadelayed' => sclk_n' = 1
  BY EdgeCases
<1>7. state_q' = RD_RESP => HoldsUpTo(data_d', LastBit')
  <2>1. SUFFICES ASSUME state_q' = RD_RESP PROVE HoldsUpTo(data_d', LastBit')
    OBVIOUS
  <2>2. CASE Stays
    <3>1. state_q = RD_RESP /\ enadelayed' = FALSE
      BY <2>1, <2>2 DEF Stays
    <3>2. LastBit' = IF sclk_n = 1 THEN falls ELSE falls - 1
      BY <2>2, <3>1 DEF Stays, LastBit
    <3> QED
      BY <1>5, <3>1, <3>2
  <2>3. CASE Rises
    <3>1. enadelayed' = TRUE /\ sclk_n' = 1 /\ falls' = falls /\ sclk_n = 0
      BY <2>1, <2>3 DEF Rises
    <3>2. LastBit' = falls - 1
      BY <3>1 DEF LastBit
    <3>3. CASE state_q = RD_RESP
      BY <1>5, <3>1, <3>2, <3>3
    <3>4. CASE state_q # RD_RESP
      <4>1. iter_q = 10 /\ falls = 5
        BY <1>1, <1>2, <2>1, <2>3, <3>4 DEF Rises, CountsAgree
      <4>2. \A j \in 1 .. DataBits : ~(5 - 1 - DataBits + j > 4)
        OBVIOUS
      <4> QED
        BY <3>2, <4>1, <4>2 DEF HoldsUpTo
    <3> QED
      BY <3>3, <3>4
  <2>4. CASE Drops
    <3>1. state_q = RD_RESP /\ sclk_n = 1 /\ sclk_n' = 0 /\ falls' = falls + 1
      BY <2>1, <2>4 DEF Drops
    <3>2. LastBit' = falls
      BY <1>1, <3>1 DEF LastBit
    <3> QED
      BY <1>5, <3>1, <3>2
  <2> QED
    BY <2>1, <2>2, <2>3, <2>4, EdgeCases DEF Rests, Begins, Ends
<1>8. irq_q' /\ enadelayed' =>
        /\ state_q' = IDLE /\ cs_n' = 1 /\ falls' = PkgSize
        /\ HoldsUpTo(data_d', PkgSize - 1)
  <2> SUFFICES ASSUME irq_q', enadelayed'
               PROVE  /\ state_q' = IDLE /\ cs_n' = 1 /\ falls' = PkgSize
                      /\ HoldsUpTo(data_d', PkgSize - 1)
    OBVIOUS
  <2>1. Ends
    BY EdgeCases
  <2>2. /\ state_q = RD_RESP /\ iter_q = 2 * PkgSize /\ cs_n = 0 /\ sclk_n = 0
        /\ state_q' = IDLE /\ cs_n' = 1 /\ falls' = falls
    BY <2>1 DEF Ends, FrameEnds
  <2>3. falls = PkgSize
    BY <1>1, <1>2, <2>2 DEF CountsAgree, InFrame, Counting
  <2> QED
    BY <1>5, <2>2, <2>3
<1>9. irq_2q' => HoldsUpTo(data_d', PkgSize)
  <2> SUFFICES ASSUME irq_2q' PROVE HoldsUpTo(data_d', PkgSize)
    OBVIOUS
  <2>1. irq_q /\ enadelayed
    BY SampleCases
  <2>2. /\ state_q = IDLE /\ cs_n = 1 /\ falls = PkgSize
        /\ HoldsUpTo(data_d, PkgSize - 1)
    BY <1>2, <2>1 DEF SamplesHeld
  <2>3. Stays \/ Rests
    BY <2>2, EdgeCases DEF Begins, Rises, Drops, Ends, InFrame, FrameEnds
  <2>4. ~FrameBegins
    BY <2>2, <2>3 DEF Stays, Rests, FrameBegins
  <2> QED
    BY <1>3, <2>1, <2>2, <2>4
<1>10. irq' => HoldsUpTo(data', PkgSize)
  BY <1>2, SampleCases DEF SamplesHeld
<1> QED
  BY <1>6, <1>7, <1>8, <1>9, <1>10 DEF SamplesHeld

LEMMA SpiNextIInv == SpiIInv /\ [Next]_vars => SpiIInv'
<1> SUFFICES ASSUME SpiIInv, [Next]_vars PROVE SpiIInv'
  OBVIOUS
<1>1. CASE PosedgeClk
  BY <1>1, EdgeTypeOK, EdgeCountsAgree, EdgeSamples DEF SpiIInv
<1>2. CASE UNCHANGED vars
  BY <1>2 DEF SpiIInv, TypeOK, CountsAgree, SamplesHeld, InFrame, Counting,
              Stretch, LastBit, HoldsUpTo, vars, registers, ports, machine,
              divider, sampling
<1> QED
  BY <1>1, <1>2 DEF Next

LEMMA SpiInvariance == Spec => []SpiIInv
BY SpiInitIInv, SpiNextIInv, PTL DEF Spec

-----------------------------------------------------------------------------

\* Type correctness: no counter leaves its width, and the ADC never sees more
\* clocks in a frame than the frame has.
THEOREM SpiTypeCorrect == Spec => []TypeOK
<1>1. SpiIInv => TypeOK
  BY DEF SpiIInv
<1> QED
  BY <1>1, SpiInvariance, PTL

\* What irq announces is the end of one whole frame, in order, whatever start
\* and clk_scaler did: for every frame length, data width and scaler.
THEOREM DataIsWhole == Spec => []DataIsOneFrame
<1>1. SpiIInv => DataIsOneFrame
  <2> SUFFICES ASSUME SpiIInv, irq
               PROVE  data = [i \in 1 .. DataBits |-> PkgSize - DataBits + i]
    BY DEF DataIsOneFrame
  <2>1. HoldsUpTo(data, PkgSize) /\ data \in [1 .. DataBits -> 0 .. PkgSize]
    BY DEF SpiIInv, SamplesHeld, TypeOK
  <2>2. \A j \in 1 .. DataBits : data[j] = PkgSize - DataBits + j
    BY <2>1, SpiAssumption DEF HoldsUpTo
  <2> QED
    BY <2>1, <2>2
<1> QED
  BY <1>1, SpiInvariance, PTL

-----------------------------------------------------------------------------
(***************************************************************************)
(*                               SmControl                                 *)
(***************************************************************************)
(***************************************************************************)
(* The inductive invariant: the counter is one behind the packet's age,    *)
(* and rests at zero without a packet.                                     *)
(***************************************************************************)
CountIsAge ==
  /\ age > 0 => adf_out = TRUE /\ count = age - 1
  /\ age = 0 => adf_out = FALSE /\ count = 0

SmIInv == SmTypeOK /\ CountIsAge

LEMMA SmInitIInv ==
  ASSUME SmInit PROVE SmIInv
<1> DEFINE top == 2^Width
<1>1. top \in Nat /\ ModCount \in 2 .. top
  BY SmAssumption
<1>2. 0 \in 0 .. top - 1 /\ 0 \in 0 .. ModCount
  <2> HIDE DEF top
  <2> QED BY <1>1
<1>3. SmTypeOK
  BY <1>2 DEF SmInit, SmTypeOK
<1>4. CountIsAge
  BY DEF SmInit, CountIsAge
<1> QED
  BY <1>3, <1>4 DEF SmIInv

\* A packet begins, goes on, ends, or there is none.
LEMMA SmEdgeCases ==
  ASSUME SmIInv, SmPosedgeClk
  PROVE  \/ UNCHANGED <<count, adf_out, age>>
         \/ count' = 0 /\ adf_out' = TRUE /\ age' = 1
         \/ count' = 0 /\ adf_out' = FALSE /\ age' = 0
         \/ /\ age \in 1 .. ModCount - 1
            /\ count' = age /\ adf_out' = TRUE /\ age' = age + 1
<1> DEFINE top == 2^Width
<1>0. top \in Nat /\ ModCount \in 2 .. top
  BY SmAssumption
<1>1. age \in 0 .. ModCount /\ ModCount \in Nat /\ age \in Nat
  BY <1>0 DEF SmIInv, SmTypeOK
<1>2. CASE ~clk_ena
  BY <1>2, Zenon DEF SmPosedgeClk
<1>3. CASE clk_ena /\ first
  <2>1. count' = 0 /\ age' = 1
    BY <1>3, Zenon DEF SmPosedgeClk, windows
  <2>2. adf_out' = TRUE
    BY <1>3, Zenon DEF SmPosedgeClk, adf_in
  <2> QED
    BY <2>1, <2>2
<1>4. CASE clk_ena /\ ~first /\ age = 0
  <2>1. adf_out = FALSE /\ count = 0
    BY <1>4, <1>1 DEF SmIInv, CountIsAge
  <2>2. ~windows /\ ~carry
    BY <1>4, <2>1, <1>0 DEF windows, carry
  <2>3. 0 \notin 1 .. ModCount - 1
    BY <1>1
  <2>4. count' = count /\ adf_out' = adf_out /\ age' = 0
    BY <1>4, <2>2, <2>3, Zenon DEF SmPosedgeClk
  <2> QED
    BY <2>4, <1>4
<1>5. CASE clk_ena /\ ~first /\ age > 0
  <2>1. adf_out = TRUE /\ count = age - 1
    BY <1>5, <1>1 DEF SmIInv, CountIsAge
  <2>2. windows
    BY <2>1, Zenon DEF windows
  <2>3. CASE age = ModCount
    <3>1. carry
      BY <2>1, <2>3 DEF carry
    <3>2. age \notin 1 .. ModCount - 1
      BY <2>3, <1>1
    <3>3. count' = 0 /\ age' = 0
      BY <1>5, <2>2, <3>1, <3>2, Zenon DEF SmPosedgeClk
    <3>4. adf_out' = FALSE
      BY <1>5, <3>1, Zenon DEF SmPosedgeClk, adf_in
    <3> QED
      BY <3>3, <3>4
  <2>4. CASE age < ModCount
    <3>1. ~carry
      BY <2>1, <2>4, <1>1 DEF carry
    <3>2. age \in 1 .. ModCount - 1
      BY <2>4, <1>5, <1>1
    <3>3. (count + 1) % top = age
      <4> HIDE DEF top
      <4> QED BY <2>1, <2>4, <1>0, <1>1
    <3>4. count' = (count + 1) % top /\ adf_out' = adf_out /\ age' = age + 1
      BY <1>5, <2>2, <3>1, <3>2, Zenon DEF SmPosedgeClk
    <3> QED
      BY <2>1, <3>2, <3>3, <3>4
  <2>5. age = ModCount \/ age < ModCount
    BY <1>1
  <2> QED
    BY <2>3, <2>4, <2>5, Zenon
<1>6. age = 0 \/ age > 0
  BY <1>1
<1> QED
  BY <1>2, <1>3, <1>4, <1>5, <1>6, Zenon

LEMMA SmEdgeIInv ==
  ASSUME SmIInv, SmPosedgeClk PROVE SmIInv'
<1> DEFINE top == 2^Width
<1>0. top \in Nat /\ ModCount \in 2 .. top
  BY SmAssumption
<1>1. age \in 0 .. ModCount /\ count \in 0 .. top - 1 /\ adf_out \in BOOLEAN
  BY DEF SmIInv, SmTypeOK
<1>2. first' \in BOOLEAN /\ clk_ena' \in BOOLEAN
  BY DEF SmPosedgeClk
<1> HIDE DEF top
<1>3. CASE UNCHANGED <<count, adf_out, age>>
  BY <1>1, <1>2, <1>3 DEF SmIInv, SmTypeOK, CountIsAge, top
<1>4. CASE count' = 0 /\ adf_out' = TRUE /\ age' = 1
  <2>1. age' \in 0 .. ModCount /\ count' \in 0 .. top - 1
    BY <1>0, <1>4
  <2>2. SmTypeOK'
    BY <1>4, <2>1, <1>2 DEF SmTypeOK, top
  <2> QED
    BY <1>4, <2>2 DEF SmIInv, CountIsAge
<1>5. CASE count' = 0 /\ adf_out' = FALSE /\ age' = 0
  <2>1. age' \in 0 .. ModCount /\ count' \in 0 .. top - 1
    BY <1>0, <1>5
  <2>2. SmTypeOK'
    BY <1>5, <2>1, <1>2 DEF SmTypeOK, top
  <2> QED
    BY <1>5, <2>2 DEF SmIInv, CountIsAge
<1>6. CASE /\ age \in 1 .. ModCount - 1
           /\ count' = age /\ adf_out' = TRUE /\ age' = age + 1
  <2>1. age' \in 0 .. ModCount /\ count' \in 0 .. top - 1
    BY <1>0, <1>6
  <2>2. SmTypeOK'
    BY <1>6, <2>1, <1>2 DEF SmTypeOK, top
  <2> QED
    BY <1>6, <2>2 DEF SmIInv, CountIsAge
<1> QED
  BY <1>3, <1>4, <1>5, <1>6, SmEdgeCases, Zenon

LEMMA SmStepIInv ==
  ASSUME SmIInv, [SmNext]_smVars PROVE SmIInv'
<1>1. CASE SmPosedgeClk
  BY <1>1, SmEdgeIInv
<1>2. CASE Rst
  <2> DEFINE top == 2^Width
  <2>1. 0 \in 0 .. top - 1 /\ 0 \in 0 .. ModCount
    <3>1. top \in Nat /\ ModCount \in 2 .. top
      BY SmAssumption
    <3> HIDE DEF top
    <3> QED BY <3>1
  <2>2. SmTypeOK'
    BY <1>2, <2>1 DEF Rst, SmIInv, SmTypeOK
  <2>3. CountIsAge'
    BY <1>2 DEF Rst, CountIsAge
  <2> QED
    BY <2>2, <2>3 DEF SmIInv
<1>3. CASE UNCHANGED smVars
  BY <1>3 DEF smVars, SmIInv, SmTypeOK, CountIsAge
<1> QED
  BY <1>1, <1>2, <1>3 DEF SmNext

\* The control of a stage keeps its types: the counter never leaves its width.
THEOREM SmTypeCorrect == SmSpec => []SmTypeOK
<1>1. SmInit => SmIInv
  BY SmInitIInv
<1>2. SmIInv /\ [SmNext]_smVars => SmIInv'
  BY SmStepIInv
<1>3. SmIInv => SmTypeOK
  BY DEF SmIInv
<1> QED
  BY <1>1, <1>2, <1>3, PTL DEF SmSpec

\* Whatever the length of packets, last is raised exactly when a packet ends
\* and the window is open exactly as long as there is one.
THEOREM BatonIsPassed == SmSpec => []BatonPassed
<1>1. SmInit => SmIInv
  BY SmInitIInv
<1>2. SmIInv /\ [SmNext]_smVars => SmIInv'
  BY SmStepIInv
<1>3. SmIInv => BatonPassed
  BY SmAssumption
     DEF SmIInv, SmTypeOK, CountIsAge, BatonPassed, last, carry
<1> QED
  BY <1>1, <1>2, <1>3, PTL DEF SmSpec

-----------------------------------------------------------------------------
(***************************************************************************)
(*                               FecClient                                 *)
(***************************************************************************)

\* The sizes are positive numbers, and the addresses the code starts from
\* have the address's width.
LEMMA FecSizes ==
  /\ Columns \in Nat \ {0} /\ Frame \in Nat \ {0} /\ Ids \in Nat \ {0}
  /\ Frame < Ids
  /\ Base \in Address /\ RowMin + 1 \in Address
  /\ \A x \in Address : (x + 1) % 2^AddrBits \in Address
<1> USE FecAssumption
<1>1. \A x, y \in Nat \ {0} : x * y \in Nat \ {0}
  OBVIOUS
<1>2. Columns \in Nat \ {0}
  BY <1>1 DEF Columns
<1>3. Frame \in Nat \ {0}
  BY <1>1, <1>2 DEF Frame
<1>4. Ids \in Nat \ {0} /\ Frame < Ids
  BY <1>3 DEF Ids
<1> DEFINE top == 2^AddrBits
<1>5. top \in Nat /\ Base < top /\ RowMin + 1 < top
  BY <1>2
<1> HIDE DEF top
<1>6. Base \in 0 .. top - 1 /\ RowMin + 1 \in 0 .. top - 1
  BY <1>5
<1>7. \A x \in 0 .. top - 1 : (x + 1) % top \in 0 .. top - 1
  BY <1>5
<1>8. Address = 0 .. top - 1
  BY DEF Address, top
<1>9. \A x \in Address : (x + 1) % 2^AddrBits \in Address
  BY <1>7, <1>8, Zenon DEF top
<1> QED
  BY <1>2, <1>3, <1>4, <1>6, <1>8, <1>9

(***************************************************************************)
(* The types, with those of the RAM, and what keeps the word between two   *)
(* strobes out of it: the strobe and the byte are delayed alike.           *)
(***************************************************************************)
Known == SUBSET (0 .. Ids - 1)

WordsKnown ==
  /\ ram \in [0 .. 1 -> [Address -> Known]] /\ douta \in Known
  /\ strobe_del => ts_parallel_r # NoByte
  /\ strobe_del1 => ts_parallel_r1 # NoByte

FecTypeInv == FecTypeOK /\ WordsKnown

LEMMA FecInitTypes == FecInit => FecTypeInv
<1> SUFFICES ASSUME FecInit PROVE FecTypeInv
  OBVIOUS
<1> USE FecAssumption, FecSizes
<1>1. ram \in [0 .. 1 -> [Address -> Known]] /\ douta \in Known
  BY DEF FecInit, Known
<1>2. \A b \in 0 .. 1, x \in Address : ram[b][x] \subseteq 0 .. Ids - 1
  BY <1>1 DEF Known
<1>3. /\ ts_wr_byte \in Address /\ ts_wr_bank \in 0 .. 1
      /\ clk_ena_divider \in 0 .. Frame - 1 /\ byte \in 0 .. Ids - 1
      /\ ts_parallel_r \in -1 .. Ids - 1 /\ ts_parallel_r1 \in -1 .. Ids - 1
  BY DEF FecInit, NoByte
<1>4. /\ place \in 0 .. PacketLen - 1 /\ gap \in 1 .. MinGap
      /\ skew \in 0 .. MaxSkew /\ whole \in 0 .. 2 /\ owed \in Int
  BY DEF FecInit
<1>5. /\ frame_written \in BOOLEAN /\ strobe_del \in BOOLEAN
      /\ strobe_del1 \in BOOLEAN
  BY Zenon DEF FecInit
<1>6. FecTypeOK
  BY <1>2, <1>3, <1>4, <1>5, Zenon DEF FecTypeOK
<1>7. ~strobe_del /\ ~strobe_del1
  BY DEF FecInit
<1> QED
  BY <1>1, <1>6, <1>7 DEF FecTypeInv, WordsKnown

\* The stream's clock: what is stored, and what it is stored from.
LEMMA StreamEdgeWords ==
  ASSUME FecTypeInv, NEW strobe \in BOOLEAN, StreamEdge(strobe)
  PROVE  WordsKnown' /\ ts_parallel_r' \in -1 .. Ids - 1 /\ ts_parallel_r1' \in -1 .. Ids - 1
<1> USE FecAssumption, FecSizes
<1>1. /\ ts_wr_byte \in Address /\ ts_wr_bank \in 0 .. 1 /\ byte \in 0 .. Ids - 1
      /\ ts_parallel_r \in -1 .. Ids - 1 /\ ts_parallel_r1 \in -1 .. Ids - 1
      /\ ram \in [0 .. 1 -> [Address -> Known]] /\ douta \in Known
      /\ strobe_del => ts_parallel_r # NoByte
      /\ strobe_del1 => ts_parallel_r1 # NoByte
  BY DEF FecTypeInv, FecTypeOK, WordsKnown
<1>2. /\ ts_parallel_r' = IF strobe THEN byte ELSE NoByte
      /\ ts_parallel_r1' = ts_parallel_r
      /\ strobe_del' = strobe /\ strobe_del1' = strobe_del
      /\ ram' = IF strobe_del1
                THEN [ram EXCEPT ![ts_wr_bank][ts_wr_byte] = ParallelIn] ELSE ram
      /\ douta' = ram'[ts_wr_bank][ts_wr_byte]
  BY DEF StreamEdge
<1>3. strobe_del1 => ParallelIn \in Known
  BY <1>1 DEF ParallelIn, Known, NoByte
<1>4. ram' \in [0 .. 1 -> [Address -> Known]]
  BY <1>1, <1>2, <1>3
<1>5. douta' \in Known
  BY <1>1, <1>2, <1>4
<1> QED
  BY <1>1, <1>2, <1>4, <1>5 DEF WordsKnown, NoByte

LEMMA StreamEdgeTypes ==
  ASSUME FecTypeInv, NEW strobe \in BOOLEAN, StreamEdge(strobe)
  PROVE  FecTypeInv'
<1> USE FecAssumption, FecSizes
<1>1. FecTypeOK
  BY DEF FecTypeInv
<1>2. /\ WordsKnown' /\ ts_parallel_r' \in -1 .. Ids - 1
      /\ ts_parallel_r1' \in -1 .. Ids - 1
  BY StreamEdgeWords
<1>3. \A b \in 0 .. 1, x \in Address : ram'[b][x] \subseteq 0 .. Ids - 1
  BY <1>2 DEF WordsKnown, Known
<1>4. NextAddress \in Address
  BY <1>1 DEF NextAddress, FecTypeOK
<1>5. ts_wr_byte' \in Address /\ ts_wr_bank' \in 0 .. 1
  BY <1>1, <1>4 DEF StreamEdge, FecTypeOK
<1>6. clk_ena_divider' \in 0 .. Frame - 1
  <2>1. clk_ena_divider' = IF strobe THEN IF clk_ena_divider = Frame - 1 THEN 0
                                          ELSE clk_ena_divider + 1
                           ELSE clk_ena_divider
    BY DEF StreamEdge, FrameFull
  <2>2. clk_ena_divider \in 0 .. Frame - 1 /\ Frame \in Nat
    BY <1>1 DEF FecTypeOK
  <2> QED
    BY <2>1, <2>2
<1>7. byte' \in 0 .. Ids - 1 /\ place' \in 0 .. PacketLen - 1
  BY <1>1 DEF StreamEdge, FecTypeOK
<1>8. gap' \in 1 .. MinGap /\ skew' \in 0 .. MaxSkew
  BY <1>1 DEF StreamEdge, FecTypeOK
<1>9. whole' \in 0 .. 2 /\ owed' \in Int
  BY <1>1 DEF StreamEdge, FecTypeOK
<1>10. /\ frame_written' \in BOOLEAN /\ strobe_del' \in BOOLEAN
       /\ strobe_del1' \in BOOLEAN
  BY <1>1, Zenon DEF StreamEdge, FecTypeOK
<1> QED
  BY <1>2, <1>3, <1>5, <1>6, <1>7, <1>8, <1>9, <1>10, Zenon
     DEF FecTypeInv, FecTypeOK

\* The other steps leave the words alone.
LEMMA OtherStepTypes ==
  ASSUME FecTypeInv, TransmitterEdge \/ Reset \/ UNCHANGED fecVars
  PROVE  FecTypeInv'
<1> USE FecAssumption, FecSizes
<1>1. UNCHANGED tsVars \/ clk_ena_divider' = 0
  BY DEF TransmitterEdge, Reset, fecVars
<1>2. /\ ts_wr_byte' = ts_wr_byte /\ ts_wr_bank' = ts_wr_bank
      /\ strobe_del' = strobe_del /\ strobe_del1' = strobe_del1
      /\ ts_parallel_r' = ts_parallel_r /\ ts_parallel_r1' = ts_parallel_r1
      /\ ram' = ram /\ douta' = douta /\ byte' = byte /\ place' = place
      /\ gap' = gap
  BY DEF TransmitterEdge, Reset, fecVars, tsVars
<1>3. clk_ena_divider' \in 0 .. Frame - 1
  BY <1>1 DEF FecTypeInv, FecTypeOK, tsVars
<1>4. skew' \in 0 .. MaxSkew /\ whole' \in 0 .. 2 /\ owed' \in Int
  BY DEF FecTypeInv, FecTypeOK, TransmitterEdge, Reset, fecVars
<1>5. frame_written' \in BOOLEAN
  BY DEF FecTypeInv, FecTypeOK, TransmitterEdge, Reset, fecVars
<1> QED
  BY <1>2, <1>3, <1>4, <1>5, Zenon DEF FecTypeInv, FecTypeOK, WordsKnown

LEMMA FecTypeInvariance == FecSpec => []FecTypeInv
<1>1. FecTypeInv /\ [FecNext]_fecVars => FecTypeInv'
  BY StreamEdgeTypes, OtherStepTypes DEF FecNext
<1> QED
  BY <1>1, FecInitTypes, PTL DEF FecSpec

\* Type correctness: addresses and counters keep their widths, and no word
\* that was on the bus between two strobes is ever stored.
THEOREM FecTypeCorrect == FecSpec => []FecTypeOK
<1>1. FecTypeInv => FecTypeOK
  BY DEF FecTypeInv
<1> QED
  BY <1>1, FecTypeInvariance, PTL

-----------------------------------------------------------------------------
(***************************************************************************)
(* The hand-over.  The flag of a frame goes through the stages below, and  *)
(* in each the frame that has begun since is young: a clock of the stream  *)
(* for every clock counted in skew, and MaxSkew more once the transmitter  *)
(* has seen the flag.  A frame outlasts both, so none ends on the way.     *)
(***************************************************************************)
\* The clocks of the stream since the frame began that the counters show.
Age == clk_ena_divider * MinGap + gap - 1

Nothing == ~frame_written /\ ~frame_written_del1 /\ owed = 0

Raised ==
  frame_written /\ ~frame_written_del1 /\ owed = 1 /\ Age <= skew - 1

Seen ==
  /\ frame_written /\ frame_written_del1
  /\ owed = IF frame_written_del2 THEN 0 ELSE 1
  /\ skew = 0 /\ Age <= MaxSkew - 1

Cleared ==
  /\ ~frame_written /\ frame_written_del1
  /\ owed = IF frame_written_del2 THEN 0 ELSE 1
  /\ Age <= MaxSkew - 1 + skew

FecIInv ==
  /\ FecTypeOK
  /\ frame_written_del1 \in BOOLEAN /\ frame_written_del2 \in BOOLEAN
  /\ Nothing \/ Raised \/ Seen \/ Cleared

LEMMA FecInitIInv == FecInit => FecIInv
BY FecInitTypes DEF FecInit, FecIInv, FecTypeInv, Nothing

\* A frame has strobed Frame times, MinGap clocks apart.
LEMMA AgeGrows ==
  ASSUME FecTypeOK, NEW strobe \in BOOLEAN, StreamEdge(strobe)
  PROVE  /\ Age \in Int /\ skew' = skew + 1 /\ skew < MaxSkew
         /\ ~(strobe /\ FrameFull) => Age' \in Int /\ Age' <= Age + 1
         /\ strobe /\ FrameFull => Age = Frame * MinGap - 1 /\ Age' = 0
<1> USE FecAssumption, FecSizes
<1> DEFINE d == clk_ena_divider
<1>1. /\ d \in Nat /\ gap \in 1 .. MinGap /\ skew \in 0 .. MaxSkew
      /\ MinGap \in Nat /\ Frame \in Nat
  BY DEF FecTypeOK
<1>2. /\ skew < MaxSkew /\ skew' = skew + 1
      /\ strobe => gap >= MinGap
      /\ gap' = IF strobe THEN 1 ELSE IF gap < MinGap THEN gap + 1 ELSE gap
      /\ clk_ena_divider' = IF strobe THEN IF FrameFull THEN 0 ELSE d + 1 ELSE d
  BY DEF StreamEdge
<1>3. d * MinGap \in Int /\ (d + 1) * MinGap = d * MinGap + MinGap
  BY <1>1
<1>4. CASE strobe /\ FrameFull
  <2>1. (Frame - 1) * MinGap = Frame * MinGap - MinGap /\ 0 * MinGap = 0
    BY <1>1
  <2>2. d = Frame - 1 /\ gap = MinGap /\ gap' = 1 /\ clk_ena_divider' = 0
    BY <1>1, <1>2, <1>4 DEF FrameFull
  <2> QED
    BY <1>1, <1>2, <1>3, <1>4, <2>1, <2>2 DEF Age
<1>5. CASE strobe /\ ~FrameFull
  BY <1>1, <1>2, <1>3, <1>5 DEF Age
<1>6. CASE ~strobe
  BY <1>1, <1>2, <1>3, <1>6 DEF Age
<1> QED
  BY <1>4, <1>5, <1>6

LEMMA StreamEdgeHandOver ==
  ASSUME FecIInv, NEW strobe \in BOOLEAN, StreamEdge(strobe)
  PROVE  /\ (Nothing \/ Raised \/ Seen \/ Cleared)'
         /\ frame_written_del1' = frame_written_del1
         /\ frame_written_del2' = frame_written_del2
<1> USE FecAssumption, FecSizes
<1>1. /\ FecTypeOK /\ skew \in 0 .. MaxSkew /\ owed \in Int
      /\ frame_written \in BOOLEAN /\ frame_written_del1 \in BOOLEAN
      /\ frame_written_del2 \in BOOLEAN
  BY DEF FecIInv, FecTypeOK
<1>2. /\ Age \in Int /\ skew' = skew + 1 /\ skew < MaxSkew
      /\ ~(strobe /\ FrameFull) => Age' \in Int /\ Age' <= Age + 1
      /\ strobe /\ FrameFull => Age = Frame * MinGap - 1 /\ Age' = 0
  BY <1>1, AgeGrows
<1>3. /\ frame_written' = (~frame_written_del1 /\ (frame_written \/ (strobe /\ FrameFull)))
      /\ owed' = IF strobe /\ FrameFull THEN owed + 1 ELSE owed
      /\ frame_written_del1' = frame_written_del1
      /\ frame_written_del2' = frame_written_del2
  BY DEF StreamEdge, txVars
<1>4. 2 * MaxSkew <= Frame * MinGap /\ Frame * MinGap \in Int
  BY DEF FecTypeOK
<1>5. CASE Nothing
  BY <1>1, <1>2, <1>3, <1>5 DEF Nothing, Raised
<1>6. CASE ~Nothing
  <2>1. ~(strobe /\ FrameFull)
    BY <1>1, <1>2, <1>4, <1>6 DEF FecIInv, Raised, Seen, Cleared
  <2>2. owed' = owed /\ frame_written' = (~frame_written_del1 /\ frame_written)
    BY <1>3, <2>1
  <2>3. CASE Raised
    <3>1. frame_written' /\ ~frame_written_del1'
      BY <1>3, <2>2, <2>3, Zenon DEF Raised
    <3>2. owed' = 1 /\ Age' <= skew' - 1
      BY <1>1, <1>2, <2>1, <2>2, <2>3 DEF Raised
    <3>3. Raised'
      BY <3>1, <3>2, Zenon DEF Raised
    <3> QED
      BY <1>3, <3>3
  <2>4. CASE Seen
    <3>1. ~frame_written' /\ frame_written_del1'
      BY <1>3, <2>2, <2>4, Zenon DEF Seen
    <3>2. owed' = IF frame_written_del2' THEN 0 ELSE 1
      BY <1>3, <2>2, <2>4, Zenon DEF Seen
    <3>3. Age' <= MaxSkew - 1 + skew'
      BY <1>1, <1>2, <2>1, <2>4 DEF Seen
    <3>4. Cleared'
      BY <3>1, <3>2, <3>3, Zenon DEF Cleared
    <3> QED
      BY <1>3, <3>4
  <2>5. CASE Cleared
    BY <1>1, <1>2, <1>3, <2>1, <2>2, <2>5 DEF Cleared
  <2> QED
    BY <1>6, <2>3, <2>4, <2>5 DEF FecIInv
<1> QED
  BY <1>3, <1>5, <1>6

LEMMA TransmitterEdgeHandOver ==
  ASSUME FecIInv, TransmitterEdge
  PROVE  /\ (Nothing \/ Raised \/ Seen \/ Cleared)'
         /\ frame_written_del1' \in BOOLEAN /\ frame_written_del2' \in BOOLEAN
<1> USE FecAssumption, FecSizes
<1>1. /\ skew \in 0 .. MaxSkew /\ owed \in Int
      /\ frame_written \in BOOLEAN /\ frame_written_del1 \in BOOLEAN
      /\ frame_written_del2 \in BOOLEAN
      /\ clk_ena_divider \in Nat /\ gap \in Int
  BY DEF FecIInv, FecTypeOK
<1>2. /\ frame_written_del1' = frame_written
      /\ frame_written_del2' = frame_written_del1
      /\ frame_written' = frame_written /\ skew' = 0
      /\ owed' = IF HandsOver THEN owed - 1 ELSE owed
      /\ clk_ena_divider' = clk_ena_divider /\ gap' = gap
  BY DEF TransmitterEdge, tsVars
<1>3. Age' = Age /\ Age \in Int
  BY <1>1, <1>2 DEF Age
<1>4. CASE Nothing
  BY <1>1, <1>2, <1>4 DEF Nothing, HandsOver
<1>5. CASE Raised
  BY <1>1, <1>2, <1>3, <1>5 DEF Raised, Seen, HandsOver
<1>6. CASE Seen
  BY <1>1, <1>2, <1>3, <1>6 DEF Seen, HandsOver
<1>7. CASE Cleared
  BY <1>1, <1>2, <1>3, <1>7 DEF Cleared, Nothing, HandsOver
<1> QED
  BY <1>1, <1>2, <1>4, <1>5, <1>6, <1>7 DEF FecIInv

LEMMA ResetHandOver ==
  ASSUME FecIInv, Reset
  PROVE  /\ (Nothing \/ Raised \/ Seen \/ Cleared)'
         /\ frame_written_del1' = frame_written_del1
         /\ frame_written_del2' = frame_written_del2
<1> USE FecAssumption, FecSizes
<1>1. /\ skew \in 0 .. MaxSkew /\ owed \in Int
      /\ frame_written \in BOOLEAN /\ frame_written_del1 \in BOOLEAN
      /\ frame_written_del2 \in BOOLEAN
      /\ clk_ena_divider \in Nat /\ gap \in 1 .. MinGap
  BY DEF FecIInv, FecTypeOK
<1>2. /\ clk_ena_divider' = 0 /\ frame_written' = FALSE
      /\ owed' = IF frame_written /\ ~frame_written_del1 THEN 0 ELSE owed
      /\ frame_written_del1' = frame_written_del1
      /\ frame_written_del2' = frame_written_del2
      /\ skew' = skew /\ gap' = gap
  BY DEF Reset, txVars
<1>3. Age' <= Age /\ Age' \in Int /\ Age \in Int
  <2>1. clk_ena_divider * MinGap \in Nat /\ 0 * MinGap = 0
    BY <1>1
  <2> QED
    BY <1>1, <1>2, <2>1 DEF Age
<1>4. CASE Nothing
  BY <1>1, <1>2, <1>4 DEF Nothing
<1>5. CASE Raised
  BY <1>1, <1>2, <1>5 DEF Raised, Nothing
<1>6. CASE Seen
  BY <1>1, <1>2, <1>3, <1>6 DEF Seen, Cleared
<1>7. CASE Cleared
  BY <1>1, <1>2, <1>3, <1>7 DEF Cleared
<1> QED
  BY <1>2, <1>4, <1>5, <1>6, <1>7 DEF FecIInv

LEMMA FecNextIInv ==
  FecIInv /\ FecTypeInv /\ FecTypeInv' /\ [FecNext]_fecVars => FecIInv'
<1> SUFFICES ASSUME FecIInv, FecTypeInv', [FecNext]_fecVars PROVE FecIInv'
  OBVIOUS
<1>1. FecTypeOK'
  BY DEF FecTypeInv
<1>2. ASSUME NEW strobe \in BOOLEAN, StreamEdge(strobe) PROVE FecIInv'
  BY <1>1, <1>2, StreamEdgeHandOver DEF FecIInv
<1>3. CASE TransmitterEdge
  BY <1>1, <1>3, TransmitterEdgeHandOver DEF FecIInv
<1>4. CASE Reset
  BY <1>1, <1>4, ResetHandOver DEF FecIInv
<1>5. CASE UNCHANGED fecVars
  BY <1>1, <1>5 DEF FecIInv, Nothing, Raised, Seen, Cleared, Age, fecVars,
                    tsVars, txVars
<1> QED
  BY <1>2, <1>3, <1>4, <1>5 DEF FecNext

\* Every frame is handed over once and in time, for every length of frames and
\* skew of the clocks that a frame outlasts twice, whenever a reset comes.
THEOREM FramesHandedOver == FecSpec => []HandedOverOnce
<1>1. FecIInv => HandedOverOnce
  BY DEF FecIInv, Nothing, Raised, Seen, Cleared, HandedOverOnce, HandsOver
<1> QED
  BY <1>1, FecInitIInv, FecNextIInv, FecTypeInvariance, PTL DEF FecSpec

-----------------------------------------------------------------------------
(***************************************************************************)
(* The column sums.  The writer's bank holds, in every column that has had *)
(* a byte of the frame, exactly the bytes it has had: the sum is begun by  *)
(* the first and each later one is added.  The byte counted last into a    *)
(* frame is stored when the bank has changed, as the first of the next.    *)
(* From the first row on the address is in step with the packets, and the  *)
(* column of a byte is its place in its row.                               *)
(***************************************************************************)
\* The bytes lo to hi before the last one that belong to a column, when the last
\* one belongs to the column col.
Bytes(newest, col, lo, hi, c) ==
  {(newest - i) % Ids : i \in {j \in lo .. hi : (col - j) % Columns = c}}

\* Every column that has had one of them holds exactly those it has had.
Holds(bank, newest, col, lo, hi) ==
  \A c \in 0 .. Columns - 1 :
    Bytes(newest, col, lo, hi, c) # {} => bank[Base + c] = Bytes(newest, col, lo, hi, c)

Col == ts_wr_byte - Base

\* The last byte is on its way to the RAM.
Unwritten == IF strobe_del \/ strobe_del1 THEN 1 ELSE 0

InFlight ==
  /\ strobe_del => gap = 1 /\ ~strobe_del1 /\ ts_parallel_r = (byte - 1) % Ids
  /\ strobe_del1 => /\ ts_parallel_r1 = (byte - 1) % Ids
                    /\ douta = ram[ts_wr_bank][ts_wr_byte]

\* The address keeps step with the packets.
Aligned ==
  /\ synced => /\ Col \in 0 .. Columns - 1
               /\ \E q \in Int : Col + 1 = q * PacketLen + place
  /\ whole > 0 => synced

SumsGrow ==
  whole > 0 => Holds(ram[ts_wr_bank], byte - 1, Col, Unwritten, clk_ena_divider)

SumsDone ==
  whole = 2 =>
    \E col \in 0 .. Columns - 1 : \A c \in 0 .. Columns - 1 :
      ram[1 - ts_wr_bank][Base + c]
        = Bytes(byte - clk_ena_divider - 2, col, 0, Frame - 1, c)

SumInv == FecTypeInv /\ InFlight /\ Aligned /\ SumsGrow /\ SumsDone

\* The byte on its way, added to its column, is one of those the column has had.
LEMMA WriteHolds ==
  ASSUME NEW r \in [Address -> Known], NEW newest \in Int, NEW col \in 0 .. Columns - 1,
         NEW n \in 0 .. Frame - 1, Holds(r, newest, col, 1, n),
         NEW new, new = newest % Ids, NEW v,
         v = IF n > Columns - 1
             THEN ({new} \ r[Base + col]) \union (r[Base + col] \ {new}) ELSE {new},
         Base + col \in Address
  PROVE  Holds([r EXCEPT ![Base + col] = v], newest, col, 0, n)
<1>1. Columns \in Nat /\ Columns >= 1 /\ Frame \in Nat /\ Ids \in Nat /\ Frame < Ids
  BY FecSizes
<1>2. Base \in Int
  BY FecAssumption
<1>3. (col - 0) % Columns = col
  BY <1>1, ModSmall
<1> DEFINE q == [r EXCEPT ![Base + col] = v]
<1>4. q[Base + col] = v /\ \A c \in 0 .. Columns - 1 : c # col => q[Base + c] = r[Base + c]
  BY <1>1, <1>2
<1> SUFFICES ASSUME NEW c \in 0 .. Columns - 1
             PROVE  q[Base + c] = Bytes(newest, col, 0, n, c) \/ Bytes(newest, col, 0, n, c) = {}
  BY DEF Holds
<1> HIDE DEF q
<1> DEFINE S(lo) == {j \in lo .. n : (col - j) % Columns = c}
<1>5. \A lo : Bytes(newest, col, lo, n, c) = {(newest - i) % Ids : i \in S(lo)}
  BY DEF Bytes
<1>6. CASE c # col
  <2>1. \A j \in 0 .. n : (col - j) % Columns = c => j # 0
    BY <1>3, <1>6
  <2>2. S(0) = S(1)
    BY <2>1
  <2>3. Bytes(newest, col, 0, n, c) = Bytes(newest, col, 1, n, c)
    BY <1>5, <2>2
  <2> QED
    BY <1>4, <1>6, <2>3 DEF Holds
<1>7. CASE c = col
  <2>1. S(0) = {0} \union S(1)
    <3>1. 0 \in S(0)
      BY <1>3, <1>7
    <3> QED
      BY <3>1
  <2> DEFINE old == Bytes(newest, col, 1, n, c)
  <2>2. Bytes(newest, col, 0, n, c) = {new} \union old
    <3>1. (newest - 0) % Ids = new
      OBVIOUS
    <3> HIDE DEF S
    <3>2. {(newest - i) % Ids : i \in S(0)} = {(newest - 0) % Ids} \union {(newest - i) % Ids : i \in S(1)}
      BY <2>1
    <3> QED
      BY <1>5, <3>1, <3>2
  <2>3. CASE ~(n > Columns - 1)
    <3>1. ASSUME NEW j \in 1 .. n PROVE (col - j) % Columns # col
      <4> SUFFICES ASSUME (col - j) % Columns = col PROVE FALSE
        OBVIOUS
      <4> DEFINE u == col - j
      <4>1. u \in Int /\ u % Columns = col % Columns /\ u - col < Columns /\ col - u < Columns
            /\ u # col
        BY <1>1, <1>3, <2>3
      <4> HIDE DEF u
      <4>2. u = col
        BY <1>1, <4>1, ModApart
      <4> QED
        BY <4>1, <4>2
    <3>2. S(1) = {}
      BY <1>7, <3>1
    <3>3. old = {}
      BY <1>5, <3>2
    <3> QED
      BY <1>4, <1>7, <2>2, <2>3, <3>3
  <2>4. CASE n > Columns - 1
    <3>1. (col - Columns) % Columns = col
      <4> DEFINE u == col - Columns
                 k == -1
      <4>1. /\ u \in Int /\ u = col + k * Columns /\ k \in Int
            /\ Columns \in Int /\ Columns >= 1
        BY <1>1
      <4> HIDE DEF u, k
      <4>2. u % Columns = col
        BY <4>1, ModOf, Zenon
      <4> QED
        BY <4>2 DEF u
    <3>2. Columns \in S(1)
      BY <1>1, <1>7, <2>4, <3>1
    <3>3. old # {}
      <4> HIDE DEF S
      <4>1. Bytes(newest, col, 1, n, c) = {(newest - i) % Ids : i \in S(1)}
        BY <1>5, Zenon
      <4>2. (newest - Columns) % Ids \in {(newest - i) % Ids : i \in S(1)}
        BY <3>2, Zenon
      <4> QED
        BY <4>1, <4>2, Zenon
    <3>4. r[Base + col] = old
      <4>1. Bytes(newest, col, 1, n, c) # {} => r[Base + c] = Bytes(newest, col, 1, n, c)
        BY Zenon DEF Holds
      <4> QED
        BY <1>7, <3>3, <4>1, Zenon
    <3>5. new \notin old
      <4> SUFFICES ASSUME NEW i \in 1 .. n, (newest - i) % Ids = newest % Ids PROVE FALSE
        BY <1>5
      <4> DEFINE u == newest - i
      <4>1. u \in Int /\ u % Ids = newest % Ids /\ u - newest < Ids /\ newest - u < Ids /\ u # newest
        BY <1>1
      <4> HIDE DEF u
      <4>2. u = newest
        BY <1>1, <4>1, ModApart
      <4> QED
        BY <4>1, <4>2
    <3>6. v = ({new} \ old) \union (old \ {new})
      BY <2>4, <3>4
    <3>7. v = {new} \union old
      BY <3>5, <3>6
    <3> QED
      BY <1>4, <1>7, <2>2, <3>7
  <2> QED
    BY <2>3, <2>4
<1> QED
  BY <1>6, <1>7

\* A byte more: the same bytes are one further back.
LEMMA StrobeHolds ==
  ASSUME NEW r, NEW newest \in Int, NEW col \in 0 .. Columns - 1, NEW n \in 0 .. Frame - 1,
         Holds(r, newest, col, 0, n), NEW newest2 \in Int, newest2 % Ids = (newest + 1) % Ids,
         NEW col2 \in 0 .. Columns - 1, col2 = (col + 1) % Columns
  PROVE  Holds(r, newest2, col2, 1, n + 1)
<1>1. Columns \in Nat /\ Columns >= 1 /\ Frame \in Nat /\ Ids \in Nat /\ Ids >= 1
  BY FecSizes
<1>2. ASSUME NEW i \in Int PROVE (newest2 - (i + 1)) % Ids = (newest - i) % Ids
  <2> DEFINE x == newest + 1
             y == i + 1
  <2>4. x \in Int /\ y \in Int /\ Ids \in Int
    BY <1>1
  <2> HIDE DEF x, y
  <2>1. ((newest2 % Ids) - y) % Ids = (newest2 - y) % Ids
    BY <1>1, <2>4, ModKeeps, Zenon
  <2>2. ((x % Ids) - y) % Ids = (x - y) % Ids
    BY <1>1, <2>4, ModKeeps, Zenon
  <2>3. (newest + 1) - (i + 1) = newest - i
    OBVIOUS
  <2> QED
    BY <2>1, <2>2, <2>3, Zenon DEF x, y
<1>3. ASSUME NEW i \in Int PROVE (col2 - (i + 1)) % Columns = (col - i) % Columns
  <2> DEFINE x == col + 1
             y == i + 1
  <2>3. x \in Int /\ y \in Int /\ Columns \in Int
    BY <1>1
  <2> HIDE DEF x, y
  <2>1. ((x % Columns) - y) % Columns = (x - y) % Columns
    BY <1>1, <2>3, ModKeeps, Zenon
  <2>2. (col + 1) - (i + 1) = col - i
    BY <1>1
  <2> QED
    BY <2>1, <2>2, Zenon DEF x, y
<1>4. ASSUME NEW c \in 0 .. Columns - 1
      PROVE  Bytes(newest2, col2, 1, n + 1, c) = Bytes(newest, col, 0, n, c)
  <2>1. ASSUME NEW x \in Bytes(newest2, col2, 1, n + 1, c) PROVE x \in Bytes(newest, col, 0, n, c)
    <3>1. PICK i \in 1 .. n + 1 : (col2 - i) % Columns = c /\ x = (newest2 - i) % Ids
      BY DEF Bytes
    <3>2. i - 1 \in 0 .. n /\ i - 1 \in Int /\ (i - 1) + 1 = i
      BY <1>1
    <3> DEFINE k == i - 1
    <3> HIDE DEF k
    <3>3. k \in 0 .. n /\ k \in Int /\ i = k + 1
      BY <3>2 DEF k
    <3>4. (col - k) % Columns = c /\ x = (newest - k) % Ids
      BY <1>2, <1>3, <3>1, <3>3, Zenon
    <3> QED
      BY <3>3, <3>4 DEF Bytes
  <2>2. ASSUME NEW x \in Bytes(newest, col, 0, n, c) PROVE x \in Bytes(newest2, col2, 1, n + 1, c)
    <3>1. PICK i \in 0 .. n : (col - i) % Columns = c /\ x = (newest - i) % Ids
      BY DEF Bytes
    <3>2. i + 1 \in 1 .. n + 1 /\ i \in Int
      BY <1>1
    <3> DEFINE k == i + 1
    <3>3. (col2 - k) % Columns = c /\ x = (newest2 - k) % Ids
      BY <1>2, <1>3, <3>1, <3>2, Zenon
    <3>4. k \in 1 .. n + 1
      BY <3>2
    <3> HIDE DEF k
    <3> QED
      BY <3>3, <3>4 DEF Bytes
  <2> QED
    BY <2>1, <2>2
<1> QED
  BY <1>4 DEF Holds

\* After a whole frame every column has had a byte.
LEMMA FullHolds ==
  ASSUME NEW r, NEW newest \in Int, NEW col \in 0 .. Columns - 1,
         Holds(r, newest, col, 0, Frame - 1), NEW c \in 0 .. Columns - 1
  PROVE  r[Base + c] = Bytes(newest, col, 0, Frame - 1, c)
<1>1. Columns \in Nat /\ Columns >= 1 /\ Frame \in Nat /\ Columns <= Frame
  <2>1. Columns \in Nat /\ Columns >= 1 /\ Frame = Rows * Columns /\ Frame \in Nat
    BY FecSizes DEF Frame
  <2>2. Rows \in Nat /\ Rows >= 1
    BY FecAssumption
  <2>3. Columns <= Rows * Columns
    BY <2>1, <2>2
  <2> QED
    BY <2>1, <2>3
<1> DEFINE i == IF c <= col THEN col - c ELSE col - c + Columns
<1>2. i \in 0 .. Frame - 1
  BY <1>1
<1>3. (col - i) % Columns = c
  <2> DEFINE u == col - i
             k == IF c <= col THEN 0 ELSE -1
  <2>1. u \in Int /\ k \in Int /\ u = c + k * Columns
    <3>1. CASE c <= col
      BY <1>1, <3>1
    <3>2. CASE ~(c <= col)
      BY <1>1, <3>2
    <3> QED
      BY <3>1, <3>2
  <2> HIDE DEF u, k
  <2>2. u % Columns = c
    BY <1>1, <2>1, ModOf
  <2> QED
    BY <2>2 DEF u
<1> HIDE DEF i
<1>4. (newest - i) % Ids \in Bytes(newest, col, 0, Frame - 1, c)
  BY <1>2, <1>3 DEF Bytes
<1> QED
  BY <1>4 DEF Holds

\* Bytes do not depend on how many times the count of bytes has run over.
LEMMA BytesSame ==
  ASSUME NEW newest \in Int, NEW newest2 \in Int, newest % Ids = newest2 % Ids
  PROVE  \A col, c : Bytes(newest, col, 0, Frame - 1, c) = Bytes(newest2, col, 0, Frame - 1, c)
<1>1. Ids \in Int /\ Ids >= 1
  BY FecSizes
<1>2. ASSUME NEW i \in 0 .. Frame - 1 PROVE (newest - i) % Ids = (newest2 - i) % Ids
  <2>1. i \in Int
    OBVIOUS
  <2>2. ((newest % Ids) - i) % Ids = (newest - i) % Ids
    BY <1>1, <2>1, ModKeeps, Zenon
  <2>3. ((newest2 % Ids) - i) % Ids = (newest2 - i) % Ids
    BY <1>1, <2>1, ModKeeps, Zenon
  <2> QED
    BY <2>2, <2>3, Zenon
<1> QED
  BY <1>2 DEF Bytes

\* A row starts at the first column and nowhere else.
LEMMA RowEnds ==
  ASSUME FecTypeInv, Aligned, synced
  PROVE  RowStarts <=> Col = Columns - 1
<1>1. /\ PacketLen \in Nat /\ PacketLen >= 1 /\ RowPackets \in Nat /\ Base \in Nat
      /\ Columns \in Nat /\ RowMin \in Nat
      /\ Base + Columns - PacketLen - 1 <= RowMin /\ RowMin < Base + Columns - 1
  BY FecAssumption, FecSizes
<1>2. place \in 0 .. PacketLen - 1 /\ ts_wr_byte \in Int
  BY FecSizes DEF FecTypeInv, FecTypeOK, Address
<1>3. Col \in 0 .. Columns - 1 /\ ts_wr_byte = Base + Col
  BY <1>1, <1>2 DEF Aligned, Col
<1>4. PICK q \in Int : Col + 1 = q * PacketLen + place
  BY DEF Aligned
<1> DEFINE k == RowPackets - q
<1>5. k \in Int /\ k * PacketLen = Columns - (Col + 1) + place
  <2>1. (RowPackets - q) * PacketLen = RowPackets * PacketLen - q * PacketLen
    BY <1>1
  <2>2. Columns = RowPackets * PacketLen
    BY <1>1 DEF Columns
  <2>3. q * PacketLen \in Int
    BY <1>1
  <2> QED
    BY <1>1, <1>2, <1>3, <1>4, <2>1, <2>2, <2>3
<1> HIDE DEF k
<1>6. ASSUME RowStarts PROVE Col = Columns - 1
  <2>1. place = 0 /\ Base + Col > RowMin
    BY <1>3, <1>6 DEF RowStarts
  <2>2. k * PacketLen < PacketLen /\ -PacketLen < k * PacketLen
    BY <1>1, <1>3, <1>5, <2>1
  <2>3. k = 0
    BY <1>1, <1>5, <2>2, NoMultipleBetween
  <2>4. k * PacketLen = 0
    BY <1>1, <2>3
  <2> QED
    BY <1>1, <1>3, <1>5, <2>1, <2>4
<1>7. ASSUME Col = Columns - 1 PROVE RowStarts
  <2>1. k * PacketLen < PacketLen /\ -PacketLen < k * PacketLen
    BY <1>1, <1>2, <1>5, <1>7
  <2>2. k = 0
    BY <1>1, <1>5, <2>1, NoMultipleBetween
  <2>3. k * PacketLen = 0
    BY <1>1, <2>2
  <2>4. place = 0
    BY <1>1, <1>2, <1>5, <1>7, <2>3
  <2>5. ts_wr_byte > RowMin
    BY <1>1, <1>3, <1>7
  <2> QED
    BY <2>4, <2>5 DEF RowStarts
<1> QED
  BY <1>6, <1>7

\* The address is in step with the packets, and after every byte of a row it is
\* the next column's.
LEMMA StreamEdgeAligned ==
  ASSUME FecTypeInv, Aligned, NEW strobe \in BOOLEAN, StreamEdge(strobe)
  PROVE  /\ Aligned'
         /\ strobe /\ synced => Col' = (Col + 1) % Columns
         /\ ~strobe => Col' = Col
<1>1. /\ PacketLen \in Nat /\ PacketLen >= 1 /\ Base \in Nat
      /\ Columns \in Nat /\ Columns >= 1
      /\ Base + Columns < 2^AddrBits /\ 2^AddrBits \in Nat
  BY FecAssumption, FecSizes
<1>2. place \in 0 .. PacketLen - 1 /\ ts_wr_byte \in Int
  BY FecSizes DEF FecTypeInv, FecTypeOK, Address
<1>3. CASE ~strobe
  <2>1. UNCHANGED <<ts_wr_byte, place, synced, whole>>
    BY <1>3 DEF StreamEdge
  <2> QED
    BY <1>3, <2>1 DEF Aligned, Col
<1>4. CASE strobe
  <2>1. /\ ts_wr_byte' = NextAddress /\ place' = (place + 1) % PacketLen
        /\ synced' = (synced \/ RowStarts)
        /\ whole' = IF FrameFull /\ synced' /\ whole < 2 THEN whole + 1 ELSE whole
    BY <1>4 DEF StreamEdge
  <2>2. whole' > 0 => synced'
    BY <2>1 DEF Aligned
  <2>3. ASSUME NEW x \in Int, NEW q \in Int, x = q * PacketLen + place
        PROVE  \E k \in Int : x + 1 = k * PacketLen + place'
    <3>1. CASE place = PacketLen - 1
      <4>1. PacketLen % PacketLen = 0
        <5>1. PacketLen = 0 + 1 * PacketLen /\ 0 \in 0 .. PacketLen - 1
          BY <1>1
        <5> QED
          BY <1>1, <5>1, ModOf
      <4>2. place' = 0
        BY <1>1, <2>1, <3>1, <4>1
      <4>3. (q + 1) * PacketLen = q * PacketLen + PacketLen /\ q * PacketLen \in Int
        BY <1>1
      <4>4. x + 1 = (q + 1) * PacketLen + place'
        BY <1>1, <2>3, <3>1, <4>2, <4>3
      <4> QED
        BY <4>4
    <3>2. CASE place # PacketLen - 1
      <4>1. place' = place + 1
        BY <1>1, <1>2, <2>1, <3>2, ModSmall
      <4>2. q * PacketLen \in Int
        BY <1>1
      <4>3. x + 1 = q * PacketLen + place'
        BY <1>2, <2>3, <4>1, <4>2
      <4> QED
        BY <4>3
    <3> QED
      BY <3>1, <3>2
  <2>4. CASE RowStarts
    <3>1. place = 0 /\ Col' = 0
      BY <1>1, <2>1, <2>4 DEF RowStarts, NextAddress, Col
    <3>2. 0 = 0 * PacketLen + place
      BY <1>1, <3>1
    <3>3. \E k \in Int : 0 + 1 = k * PacketLen + place'
      BY <2>3, <3>2
    <3>4. synced => (Col + 1) % Columns = 0
      <4> SUFFICES ASSUME synced PROVE (Col + 1) % Columns = 0
        OBVIOUS
      <4>1. Col + 1 = Columns
        BY <1>1, <2>4, RowEnds
      <4>2. Columns = 0 + 1 * Columns /\ 0 \in 0 .. Columns - 1
        BY <1>1
      <4>3. Columns % Columns = 0
        BY <1>1, <4>2, ModOf
      <4> QED
        BY <4>1, <4>3
    <3>5. Col' \in 0 .. Columns - 1
      BY <1>1, <3>1
    <3>6. \E k \in Int : Col' + 1 = k * PacketLen + place'
      BY <3>1, <3>3, Zenon
    <3>7. Aligned'
      BY <2>2, <3>5, <3>6, Zenon DEF Aligned
    <3> QED
      BY <1>4, <3>1, <3>4, <3>7, Zenon
  <2>5. CASE ~RowStarts
    <3>1. synced' => synced
      BY <2>1, <2>5, Zenon
    <3>2. ASSUME synced
          PROVE  /\ Col' = (Col + 1) % Columns /\ Col' \in 0 .. Columns - 1
                 /\ \E k \in Int : Col' + 1 = k * PacketLen + place'
      <4>1. Col # Columns - 1 /\ Col \in 0 .. Columns - 1
        BY <2>5, <3>2, RowEnds DEF Aligned
      <4>2. ts_wr_byte' = (ts_wr_byte + 1) % 2^AddrBits
        BY <2>1, <2>5 DEF NextAddress
      <4>3. ts_wr_byte' = ts_wr_byte + 1
        <5> DEFINE lim == 2^AddrBits
        <5>1. lim \in Int /\ Base + Columns < lim
          BY <1>1
        <5> HIDE DEF lim
        <5>2. ts_wr_byte + 1 \in 0 .. lim - 1
          BY <1>1, <1>2, <4>1, <5>1 DEF Col
        <5>3. (ts_wr_byte + 1) % lim = ts_wr_byte + 1
          BY <5>1, <5>2, ModSmall
        <5> QED
          BY <4>2, <5>3, Zenon DEF lim
      <4>4. Col' = Col + 1
        BY <1>1, <1>2, <4>3 DEF Col
      <4>5. Col + 1 \in 0 .. Columns - 1
        BY <1>1, <4>1
      <4>6. (Col + 1) % Columns = Col + 1
        BY <1>1, <4>5, ModSmall
      <4>7. PICK q \in Int : Col + 1 = q * PacketLen + place
        BY <3>2 DEF Aligned
      <4>8. Col + 1 \in Int
        BY <4>5
      <4>9. \E k \in Int : (Col + 1) + 1 = k * PacketLen + place'
        BY <2>3, <4>7, <4>8
      <4> QED
        BY <4>4, <4>5, <4>6, <4>9
    <3> QED
      BY <1>4, <2>2, <3>1, <3>2 DEF Aligned
  <2> QED
    BY <2>4, <2>5
<1> QED
  BY <1>3, <1>4

\* The delayed byte is the last one, its column's word is on the RAM's output, and
\* it is stored before the next comes.
LEMMA StreamEdgeInFlight ==
  ASSUME FecTypeInv, InFlight, NEW strobe \in BOOLEAN, StreamEdge(strobe)
  PROVE  InFlight' /\ (strobe => ~strobe_del) /\ (byte' - 1) % Ids
           = IF strobe THEN byte ELSE (byte - 1) % Ids
<1>1. /\ byte \in 0 .. Ids - 1 /\ Ids \in Int /\ Ids >= 1 /\ MinGap >= 2 /\ MinGap \in Int
      /\ gap \in Int
  BY FecSizes, FecAssumption DEF FecTypeInv, FecTypeOK
<1>2. /\ strobe_del' = strobe /\ strobe_del1' = strobe_del
      /\ ts_parallel_r' = IF strobe THEN byte ELSE NoByte
      /\ ts_parallel_r1' = ts_parallel_r
      /\ douta' = ram'[ts_wr_bank][ts_wr_byte]
  BY DEF StreamEdge
<1>3. CASE strobe
  <2>1. ~strobe_del
    BY <1>1, <1>3 DEF StreamEdge, InFlight
  <2>2. gap' = 1 /\ byte' = (byte + 1) % Ids
    BY <1>3 DEF StreamEdge
  <2>3. (byte' - 1) % Ids = byte
    <3> DEFINE x == byte + 1
    <3>1. x \in Int /\ 1 \in Int /\ x - 1 = byte
      BY <1>1
    <3> HIDE DEF x
    <3>2. ((x % Ids) - 1) % Ids = (x - 1) % Ids
      BY <1>1, <3>1, ModKeeps, Zenon
    <3>3. byte % Ids = byte
      BY <1>1, ModSmall
    <3> QED
      BY <2>2, <3>1, <3>2, <3>3, Zenon DEF x
  <2> QED
    BY <1>2, <1>3, <2>1, <2>2, <2>3 DEF InFlight
<1>4. CASE ~strobe
  <2>1. UNCHANGED <<ts_wr_byte, ts_wr_bank, byte>>
    BY <1>4 DEF StreamEdge
  <2> QED
    BY <1>2, <1>4, <2>1 DEF InFlight
<1> QED
  BY <1>3, <1>4

\* What an edge of the stream's clock stores: the byte on its way, if it has come
\* to the RAM, and only in the writer's bank.
LEMMA StreamEdgeStores ==
  ASSUME SumInv, NEW strobe \in BOOLEAN, StreamEdge(strobe)
  PROVE  /\ \A x \in Address : ram'[1 - ts_wr_bank][x] = ram[1 - ts_wr_bank][x]
         /\ whole > 0 => Holds(ram'[ts_wr_bank], byte - 1, Col,
                               IF strobe_del THEN 1 ELSE 0, clk_ena_divider)
<1>1. /\ ts_wr_bank \in 0 .. 1 /\ 1 - ts_wr_bank \in 0 .. 1 /\ 1 - ts_wr_bank # ts_wr_bank
      /\ ts_wr_byte \in Address /\ clk_ena_divider \in 0 .. Frame - 1
      /\ ram \in [0 .. 1 -> [Address -> Known]]
      /\ byte - 1 \in Int
  BY FecSizes DEF SumInv, FecTypeInv, FecTypeOK, WordsKnown
<1>2. ram' = IF strobe_del1
             THEN [ram EXCEPT ![ts_wr_bank][ts_wr_byte] = ParallelIn] ELSE ram
  BY DEF StreamEdge
<1>3. \A x \in Address : ram'[1 - ts_wr_bank][x] = ram[1 - ts_wr_bank][x]
  BY <1>1, <1>2
<1>4. ASSUME whole > 0, strobe_del1
      PROVE  Holds(ram'[ts_wr_bank], byte - 1, Col, 0, clk_ena_divider) /\ ~strobe_del
  <2>1. /\ ~strobe_del /\ ts_parallel_r1 = (byte - 1) % Ids
        /\ douta = ram[ts_wr_bank][ts_wr_byte]
    BY <1>4 DEF SumInv, InFlight
  <2>2. Col \in 0 .. Columns - 1 /\ Base + Col = ts_wr_byte
    <3>1. Base \in Int /\ ts_wr_byte \in Int
      BY <1>1, FecAssumption, FecSizes DEF Address
    <3> QED
      BY <1>4, <3>1 DEF SumInv, Aligned, Col
  <2>3. Holds(ram[ts_wr_bank], byte - 1, Col, 1, clk_ena_divider)
    BY <1>4 DEF SumInv, SumsGrow, Unwritten
  <2> DEFINE r == ram[ts_wr_bank]
  <2>4. r \in [Address -> Known]
    BY <1>1
  <2>5. ParallelIn = IF clk_ena_divider > Columns - 1
                     THEN ({ts_parallel_r1} \ r[Base + Col])
                            \union (r[Base + Col] \ {ts_parallel_r1})
                     ELSE {ts_parallel_r1}
    BY <2>1, <2>2 DEF ParallelIn, Adds
  <2>6. ram'[ts_wr_bank] = [r EXCEPT ![Base + Col] = ParallelIn]
    BY <1>1, <1>2, <1>4, <2>2
  <2>7. Base + Col \in Address
    BY <1>1, <2>2
  <2> HIDE DEF r
  <2>8. Holds([r EXCEPT ![Base + Col] = ParallelIn], byte - 1, Col, 0, clk_ena_divider)
    <3>1. Holds(r, byte - 1, Col, 1, clk_ena_divider)
      BY <2>3 DEF r
    <3> QED
      BY <1>1, <2>1, <2>2, <2>4, <2>5, <2>7, <3>1, WriteHolds
  <2> QED
    BY <2>1, <2>6, <2>8
<1>5. ASSUME whole > 0, ~strobe_del1
      PROVE  Holds(ram'[ts_wr_bank], byte - 1, Col, IF strobe_del THEN 1 ELSE 0,
                   clk_ena_divider)
  <2>1. ram' = ram /\ Unwritten = IF strobe_del THEN 1 ELSE 0
    BY <1>2, <1>5 DEF Unwritten
  <2> QED
    BY <1>5, <2>1 DEF SumInv, SumsGrow
<1> QED
  BY <1>3, <1>4, <1>5

\* A byte makes every column one byte longer, and the last one ends the frame: the
\* writer's bank becomes the transmitter's.
LEMMA StreamEdgeSums ==
  ASSUME SumInv, NEW strobe \in BOOLEAN, StreamEdge(strobe)
  PROVE  SumInv'
<1>1. FecTypeInv' /\ InFlight' /\ Aligned'
  BY StreamEdgeTypes, StreamEdgeInFlight, StreamEdgeAligned DEF SumInv
<1>2. /\ ts_wr_bank \in 0 .. 1 /\ clk_ena_divider \in 0 .. Frame - 1 /\ byte \in 0 .. Ids - 1
      /\ whole \in 0 .. 2 /\ Frame \in Nat /\ Ids \in Int /\ Ids >= 1
      /\ Columns \in Nat /\ Base \in Nat
  BY FecSizes, FecAssumption DEF SumInv, FecTypeInv, FecTypeOK
<1>3. /\ \A x \in Address : ram'[1 - ts_wr_bank][x] = ram[1 - ts_wr_bank][x]
      /\ whole > 0 => Holds(ram'[ts_wr_bank], byte - 1, Col,
                            IF strobe_del THEN 1 ELSE 0, clk_ena_divider)
  BY StreamEdgeStores
<1>4. \A c \in 0 .. Columns - 1 : Base + c \in Address
  BY <1>2, FecAssumption DEF Address
<1>5. whole > 0 => Col \in 0 .. Columns - 1
  BY DEF SumInv, Aligned
<1>6. CASE ~strobe
  <2>1. /\ UNCHANGED <<ts_wr_byte, ts_wr_bank, clk_ena_divider, byte, whole>>
        /\ strobe_del' = FALSE /\ strobe_del1' = strobe_del
    BY <1>6 DEF StreamEdge
  <2>2. SumsGrow'
    <3>1. Unwritten' = IF strobe_del THEN 1 ELSE 0
      BY <2>1 DEF Unwritten
    <3> QED
      BY <1>3, <2>1, <3>1 DEF SumsGrow, Col, Holds, Bytes
  <2>3. SumsDone'
    BY <1>3, <1>4, <2>1 DEF SumInv, SumsDone, Bytes
  <2> QED
    BY <1>1, <2>2, <2>3 DEF SumInv
<1>7. CASE strobe
  <2>1. ~strobe_del /\ (byte' - 1) % Ids = byte
    BY <1>7, StreamEdgeInFlight DEF SumInv
  <2>2. /\ strobe_del' = TRUE /\ byte' = (byte + 1) % Ids
        /\ clk_ena_divider' = IF FrameFull THEN 0 ELSE clk_ena_divider + 1
        /\ ts_wr_bank' = IF FrameFull THEN 1 - ts_wr_bank ELSE ts_wr_bank
        /\ whole' = IF FrameFull /\ synced' /\ whole < 2 THEN whole + 1 ELSE whole
    BY <1>7 DEF StreamEdge
  <2>3. whole > 0 => Holds(ram'[ts_wr_bank], byte - 1, Col, 0, clk_ena_divider)
    BY <1>3, <2>1
  <2>4. Unwritten' = 1 /\ byte' \in Int
    BY <1>2, <2>2 DEF Unwritten
  <2>5. \A k \in Int : (byte' - k) % Ids = ((byte + 1) - k) % Ids
    <3> DEFINE x == byte + 1
    <3>1. x \in Int
      BY <1>2
    <3> HIDE DEF x
    <3>2. \A k \in Int : ((x % Ids) - k) % Ids = (x - k) % Ids
      BY <1>2, <3>1, ModKeeps, Zenon
    <3> QED
      BY <2>2, <3>2 DEF x
  <2>6. CASE FrameFull
    <3>1. clk_ena_divider = Frame - 1 /\ clk_ena_divider' = 0 /\ ts_wr_bank' = 1 - ts_wr_bank
      BY <2>2, <2>6 DEF FrameFull
    <3>2. SumsGrow'
      <4>1. \A newest, col, c : Bytes(newest, col, 1, 0, c) = {}
        BY DEF Bytes
      <4>2. \A r, newest, col : Holds(r, newest, col, 1, 0)
        BY <4>1 DEF Holds
      <4> QED
        BY <2>4, <3>1, <4>2 DEF SumsGrow
    <3>3. ASSUME whole' = 2
          PROVE  \A c \in 0 .. Columns - 1 :
                   ram'[ts_wr_bank][Base + c] = Bytes(byte' - 2, Col, 0, Frame - 1, c)
      <4>1. whole > 0
        BY <1>2, <2>2, <3>3
      <4> DEFINE r == ram'[ts_wr_bank]
      <4>2. Holds(r, byte - 1, Col, 0, Frame - 1) /\ Col \in 0 .. Columns - 1
        BY <1>5, <2>3, <3>1, <4>1
      <4> HIDE DEF r
      <4>3. byte - 1 \in Int /\ byte' - 2 \in Int
        BY <1>2, <2>4
      <4>4. (byte' - 2) % Ids = (byte - 1) % Ids
        <5>1. (byte' - 2) % Ids = ((byte + 1) - 2) % Ids
          BY <2>5
        <5>2. (byte + 1) - 2 = byte - 1
          BY <1>2
        <5> QED
          BY <5>1, <5>2
      <4>5. ASSUME NEW c \in 0 .. Columns - 1
            PROVE  r[Base + c] = Bytes(byte' - 2, Col, 0, Frame - 1, c)
        <5>1. r[Base + c] = Bytes(byte - 1, Col, 0, Frame - 1, c)
          BY <4>2, <4>3, FullHolds
        <5> DEFINE x == byte - 1
                   y == byte' - 2
        <5>2. x \in Int /\ y \in Int /\ x % Ids = y % Ids
          BY <4>3, <4>4
        <5> HIDE DEF x, y
        <5>3. \A e, d : Bytes(x, e, 0, Frame - 1, d) = Bytes(y, e, 0, Frame - 1, d)
          BY <5>2, BytesSame, Zenon
        <5>4. Bytes(x, Col, 0, Frame - 1, c) = Bytes(y, Col, 0, Frame - 1, c)
          BY <5>3, Zenon
        <5> QED
          BY <5>1, <5>4 DEF x, y
      <4> QED
        BY <4>5 DEF r
    <3>4. SumsDone'
      <4> SUFFICES ASSUME whole' = 2
                   PROVE  \E col \in 0 .. Columns - 1 : \A c \in 0 .. Columns - 1 :
                            ram'[1 - ts_wr_bank'][Base + c]
                              = Bytes(byte' - clk_ena_divider' - 2, col, 0, Frame - 1, c)
        BY DEF SumsDone, Bytes
      <4>1. 1 - ts_wr_bank' = ts_wr_bank /\ byte' - clk_ena_divider' - 2 = byte' - 2
        BY <1>2, <2>4, <3>1
      <4>2. Col \in 0 .. Columns - 1
        BY <1>2, <1>5, <2>2
      <4> QED
        BY <3>3, <4>1, <4>2
    <3> QED
      BY <1>1, <3>2, <3>4 DEF SumInv
  <2>7. CASE ~FrameFull
    <3>1. /\ clk_ena_divider' = clk_ena_divider + 1 /\ ts_wr_bank' = ts_wr_bank
          /\ whole' = whole
      BY <2>2, <2>7
    <3>2. SumsGrow'
      <4> SUFFICES ASSUME whole > 0
                   PROVE  Holds(ram'[ts_wr_bank], byte' - 1, Col', 1, clk_ena_divider + 1)
        BY <2>4, <3>1 DEF SumsGrow, Holds, Bytes
      <4> DEFINE r == ram'[ts_wr_bank]
      <4>1. Holds(r, byte - 1, Col, 0, clk_ena_divider) /\ Col \in 0 .. Columns - 1
        BY <1>5, <2>3
      <4>2. Col' = (Col + 1) % Columns /\ Col' \in 0 .. Columns - 1
        <5>1. Col' = (Col + 1) % Columns
          BY <1>7, StreamEdgeAligned DEF SumInv, Aligned
        <5>2. Col + 1 \in Int /\ Columns >= 1 /\ Columns \in Int
          BY <1>2, <4>1
        <5>3. (Col + 1) % Columns \in 0 .. Columns - 1
          BY <5>2, ModKeeps
        <5> QED
          BY <5>1, <5>3
      <4>3. byte - 1 \in Int /\ byte' - 1 \in Int /\ (byte - 1) + 1 = byte
        BY <1>2, <2>4
      <4>4. (byte' - 1) % Ids = ((byte - 1) + 1) % Ids
        BY <1>2, <2>1, <4>3, ModSmall
      <4> HIDE DEF r
      <4>5. Holds(r, byte' - 1, Col', 1, clk_ena_divider + 1)
        BY <1>2, <4>1, <4>2, <4>3, <4>4, StrobeHolds
      <4> QED
        BY <4>5 DEF r
    <3>3. SumsDone'
      <4> SUFFICES ASSUME whole = 2
                   PROVE  \E col \in 0 .. Columns - 1 : \A c \in 0 .. Columns - 1 :
                            ram'[1 - ts_wr_bank][Base + c]
                              = Bytes(byte' - (clk_ena_divider + 1) - 2, col, 0, Frame - 1, c)
        BY <3>1 DEF SumsDone, Bytes
      <4>1. PICK col \in 0 .. Columns - 1 : \A c \in 0 .. Columns - 1 :
              ram[1 - ts_wr_bank][Base + c]
                = Bytes(byte - clk_ena_divider - 2, col, 0, Frame - 1, c)
        BY DEF SumInv, SumsDone
      <4> DEFINE x == byte - clk_ena_divider - 2
                 y == byte' - (clk_ena_divider + 1) - 2
      <4>2. x \in Int /\ y \in Int /\ 0 \in Int /\ Frame - 1 \in Int
        BY <1>2, <2>4
      <4>3. x % Ids = y % Ids
        <5> DEFINE k == clk_ena_divider + 3
        <5>1. k \in Int /\ y = byte' - k /\ x = (byte + 1) - k
          BY <1>2, <2>4
        <5> HIDE DEF k, x, y
        <5> QED
          BY <2>5, <5>1
      <4> HIDE DEF x, y
      <4>4. \A e, c : Bytes(x, e, 0, Frame - 1, c) = Bytes(y, e, 0, Frame - 1, c)
        BY <4>2, <4>3, BytesSame, Zenon
      <4>5. \A c \in 0 .. Columns - 1 :
              ram'[1 - ts_wr_bank][Base + c] = Bytes(y, col, 0, Frame - 1, c)
        BY <1>3, <1>4, <4>1, <4>4 DEF x
      <4> QED
        BY <4>5 DEF y
    <3> QED
      BY <1>1, <3>2, <3>3 DEF SumInv
  <2> QED
    BY <2>6, <2>7
<1> QED
  BY <1>6, <1>7

\* The other steps leave the stream alone; a reset gives up the frame.
LEMMA OtherStepSums ==
  ASSUME SumInv, TransmitterEdge \/ Reset \/ UNCHANGED fecVars
  PROVE  SumInv'
<1>1. FecTypeInv'
  BY OtherStepTypes DEF SumInv
<1>2. UNCHANGED <<ts_wr_byte, ts_wr_bank, strobe_del, strobe_del1, ts_parallel_r,
                  ts_parallel_r1, ram, douta, byte, place, gap, synced>>
  BY DEF TransmitterEdge, Reset, fecVars, tsVars
<1>3. (UNCHANGED <<clk_ena_divider, whole>>) \/ whole' = 0
  BY DEF TransmitterEdge, Reset, fecVars, tsVars
<1>4. InFlight'
  BY <1>2 DEF SumInv, InFlight
<1>5. Aligned'
  BY <1>2, <1>3 DEF SumInv, Aligned, Col
<1>6. SumsGrow'
  BY <1>2, <1>3 DEF SumInv, SumsGrow, Holds, Bytes, Unwritten, Col
<1>7. SumsDone'
  <2>1. CASE whole' = 0
    BY <2>1 DEF SumsDone
  <2>2. CASE UNCHANGED <<clk_ena_divider, whole>>
    BY <1>2, <2>2 DEF SumInv, SumsDone, Bytes
  <2> QED
    BY <1>3, <2>1, <2>2
<1> QED
  BY <1>1, <1>4, <1>5, <1>6, <1>7 DEF SumInv

LEMMA FecInitSums == FecInit => SumInv
<1> SUFFICES ASSUME FecInit PROVE SumInv
  OBVIOUS
<1>1. FecTypeInv
  BY FecInitTypes
<1>2. InFlight /\ Aligned /\ SumsGrow /\ SumsDone
  BY DEF FecInit, InFlight, Aligned, SumsGrow, SumsDone
<1> QED
  BY <1>1, <1>2 DEF SumInv

LEMMA SumInvariance == FecSpec => []SumInv
<1>1. SumInv /\ [FecNext]_fecVars => SumInv'
  BY StreamEdgeSums, OtherStepSums DEF FecNext
<1> QED
  BY <1>1, FecInitSums, PTL DEF FecSpec

\* A column's bytes are one of each row, and those of all the columns are the frame's.
LEMMA ColumnIsSum ==
  ASSUME NEW newest \in Int, NEW col \in 0 .. Columns - 1, NEW c \in 0 .. Columns - 1
  PROVE  /\ Cardinality(Bytes(newest, col, 0, Frame - 1, c)) = Rows
         /\ \A x, y \in Bytes(newest, col, 0, Frame - 1, c) : (x - y) % Columns = 0
<1>1. /\ Columns \in Nat /\ Columns >= 1 /\ Frame \in Nat /\ Ids \in Nat /\ Ids >= 1
      /\ Frame < Ids /\ Rows \in Nat /\ Frame = Rows * Columns
  BY FecSizes, FecAssumption DEF Frame
<1> DEFINE B == Bytes(newest, col, 0, Frame - 1, c)
           lead == IF c <= col THEN col - c ELSE col - c + Columns
<1>2. lead \in 0 .. Columns - 1
  BY <1>1
<1>3. \E k \in Int : col - c = lead + k * Columns
  <2>1. CASE c <= col
    <3>1. 0 * Columns = 0
      BY <1>1
    <3>2. col - c = lead + 0 * Columns
      BY <1>1, <2>1, <3>1
    <3> QED
      BY <3>2
  <2>2. CASE ~(c <= col)
    <3>1. -1 * Columns = -Columns /\ -1 \in Int
      BY <1>1
    <3>2. col - c = lead + (-1) * Columns
      BY <1>1, <2>2, <3>1
    <3> QED
      BY <3>1, <3>2
  <2> QED
    BY <2>1, <2>2
<1> HIDE DEF lead
\* the rows' places in the frame, counted from its last byte
<1> DEFINE at == [o \in 0 .. Rows - 1 |-> lead + o * Columns]
<1>4. ASSUME NEW o \in 0 .. Rows - 1
      PROVE  at[o] \in 0 .. Frame - 1 /\ (col - at[o]) % Columns = c
  <2>1. at[o] = lead + o * Columns /\ o * Columns \in Nat
    BY <1>1
  <2>2. (Rows - 1 - o) * Columns = Rows * Columns - Columns - o * Columns
    BY <1>1
  <2>3. (Rows - 1 - o) * Columns >= 0
    BY <1>1
  <2>4. o * Columns <= Frame - Columns
    <3> DEFINE u == o * Columns
               w == (Rows - 1 - o) * Columns
               v == Rows * Columns
    <3>1. u \in Nat /\ w >= 0 /\ w = v - Columns - u /\ v = Frame
      BY <1>1, <2>1, <2>2, <2>3
    <3> HIDE DEF u, w, v
    <3>2. u <= Frame - Columns
      BY <1>1, <3>1
    <3> QED
      BY <3>2 DEF u
  <2>5. at[o] \in 0 .. Frame - 1
    <3> DEFINE u == o * Columns
    <3>1. u \in Nat /\ u <= Frame - Columns /\ at[o] = lead + u
      BY <2>1, <2>4
    <3> HIDE DEF u, at
    <3> QED
      BY <1>1, <1>2, <3>1
  <2>6. PICK k \in Int : col - c = lead + k * Columns
    BY <1>3
  <2>7. (k - o) * Columns = k * Columns - o * Columns /\ k * Columns \in Int
    BY <1>1
  <2> DEFINE u == o * Columns
             v == k * Columns
             w == (k - o) * Columns
             x == col - at[o]
             n == k - o
  <2>8. x = c + w /\ x \in Int /\ n \in Int
    <3>1. at[o] = lead + u /\ u \in Int /\ v \in Int /\ w = v - u /\ col - c = lead + v
      BY <2>1, <2>6, <2>7
    <3> HIDE DEF u, v, w, at
    <3> QED
      BY <1>1, <1>2, <3>1
  <2>9. x = c + n * Columns
    BY <2>8
  <2> HIDE DEF x, n
  <2>10. x % Columns = c
    BY <1>1, <2>8, <2>9, ModOf
  <2> QED
    BY <2>5, <2>10 DEF x
<1>5. ASSUME NEW i \in 0 .. Frame - 1, (col - i) % Columns = c
      PROVE  \E o \in 0 .. Rows - 1 : i = at[o]
  <2> DEFINE o == i \div Columns
             e == i % Columns
  <2>1. o \in Int /\ e \in 0 .. Columns - 1 /\ i = Columns * o + e
    BY <1>1, Divides
  <2> HIDE DEF o, e
  <2>2. Columns * o = o * Columns /\ o * Columns \in Int
    BY <1>1, <2>1
  <2>3. e = lead
    <3>1. PICK k \in Int : col - c = lead + k * Columns
      BY <1>3
    <3>2. c % Columns = c
      BY <1>1, ModSmall
    <3> DEFINE x == col - i
    <3>3. x % Columns = c % Columns
      BY <1>5, <3>2
    <3>4. x \in Int /\ c \in Int /\ Columns \in Int /\ Columns >= 1
      BY <1>1
    <3> HIDE DEF x
    <3>5. PICK n \in Int : x - c = n * Columns
      BY <3>3, <3>4, ModDiffers, Zenon
    <3>6. (k - n - o) * Columns = k * Columns - n * Columns - o * Columns
          /\ k * Columns \in Int /\ n * Columns \in Int
      BY <1>1, <2>1
    <3> DEFINE z == k - n - o
               zc == z * Columns
               kc == k * Columns
               nc == n * Columns
               mc == o * Columns
    <3>7. /\ zc = kc - nc - mc /\ kc \in Int /\ nc \in Int /\ mc \in Int
          /\ col - c = lead + kc /\ x - c = nc /\ i = mc + e
      BY <2>1, <2>2, <3>1, <3>5, <3>6
    <3>8. z \in Int
      BY <2>1
    <3> HIDE DEF z, zc, kc, nc, mc
    <3>9. zc = e - lead
      BY <1>2, <2>1, <3>7 DEF x
    <3>10. zc < Columns /\ -Columns < zc
      BY <1>1, <1>2, <2>1, <3>9
    <3>11. z = 0
      BY <1>1, <3>8, <3>10, NoMultipleBetween DEF zc
    <3>12. zc = 0
      BY <1>1, <3>11 DEF zc
    <3> QED
      BY <1>2, <2>1, <3>9, <3>12
  <2>4. o >= 0
    <3> SUFFICES ASSUME o <= -1 PROVE FALSE
      BY <2>1
    <3>1. o * Columns <= -Columns
      BY <1>1, <2>1
    <3> QED
      BY <1>1, <2>1, <2>2, <3>1
  <2>5. o <= Rows - 1
    <3> SUFFICES ASSUME o >= Rows PROVE FALSE
      BY <1>1, <2>1
    <3>1. o * Columns >= Rows * Columns
      BY <1>1, <2>1
    <3> QED
      BY <1>1, <2>1, <2>2, <3>1
  <2>6. o \in 0 .. Rows - 1
    BY <1>1, <2>1, <2>4, <2>5
  <2>7. i = at[o]
    BY <2>1, <2>2, <2>3, <2>6
  <2> HIDE DEF at
  <2> QED
    BY <2>6, <2>7
<1> HIDE DEF at
<1> DEFINE of == [o \in 0 .. Rows - 1 |-> (newest - at[o]) % Ids]
<1>6. B = {of[o] : o \in 0 .. Rows - 1}
  <2>1. ASSUME NEW x \in B PROVE \E o \in 0 .. Rows - 1 : x = of[o]
    <3>1. PICK i \in 0 .. Frame - 1 : (col - i) % Columns = c /\ x = (newest - i) % Ids
      BY <2>1 DEF Bytes
    <3>2. PICK o \in 0 .. Rows - 1 : i = at[o]
      BY <1>5, <3>1
    <3> QED
      BY <3>1, <3>2
  <2>2. ASSUME NEW o \in 0 .. Rows - 1 PROVE of[o] \in B
    BY <1>4 DEF Bytes
  <2> QED
    BY <2>1, <2>2
<1>7. ASSUME NEW o \in 0 .. Rows - 1, NEW n \in 0 .. Rows - 1, of[o] = of[n]
      PROVE  o = n
  <2> DEFINE x == newest - at[o]
             y == newest - at[n]
  <2>1. at[o] \in 0 .. Frame - 1 /\ at[n] \in 0 .. Frame - 1
    BY <1>4
  <2>2. x \in Int /\ y \in Int /\ x - y < Ids /\ y - x < Ids
    <3> HIDE DEF at
    <3> QED
      BY <1>1, <2>1
  <2>3. x % Ids = y % Ids
    BY <1>7
  <2> HIDE DEF x, y
  <2>4. x = y
    <3>1. Ids \in Int /\ Ids >= 1
      BY <1>1
    <3> QED
      BY <2>2, <2>3, <3>1, ModApart, Zenon
  <2>5. at[o] = at[n]
    BY <1>1, <2>1, <2>4 DEF x, y
  <2>6. (o - n) * Columns = o * Columns - n * Columns
        /\ o * Columns \in Int /\ n * Columns \in Int
    BY <1>1
  <2>7. (o - n) * Columns = 0
    <3>1. lead + o * Columns = lead + n * Columns
      BY <2>5 DEF at
    <3> DEFINE u == o * Columns
               v == n * Columns
               w == (o - n) * Columns
    <3>2. w = u - v /\ u \in Int /\ v \in Int /\ lead + u = lead + v
      BY <2>6, <3>1
    <3>3. lead \in Int
      BY <1>2
    <3> HIDE DEF u, v, w
    <3>4. w = 0
      BY <3>2, <3>3
    <3> QED
      BY <3>4 DEF w
  <2>8. o - n = 0
    <3> DEFINE z == o - n
    <3>1. z \in Int /\ z * Columns < Columns /\ -Columns < z * Columns
      BY <1>1, <2>7
    <3> HIDE DEF z
    <3>2. z = 0
      BY <1>1, <3>1, NoMultipleBetween
    <3> QED
      BY <3>2 DEF z
  <2> QED
    BY <2>8
<1>8. Cardinality(B) = Rows
  <2> HIDE DEF of, B
  <2>1. of \in [0 .. Rows - 1 -> B]
    BY <1>6 DEF of
  <2>2. of \in Injection(0 .. Rows - 1, B)
    BY <1>7, <2>1 DEF Injection, IsInjective
  <2>3. of \in Surjection(0 .. Rows - 1, B)
    BY <1>6, <2>1 DEF Surjection
  <2>4. IsFiniteSet(0 .. Rows - 1) /\ Cardinality(0 .. Rows - 1) = Rows
    <3>1. 0 \in Int /\ Rows - 1 \in Int /\ Rows >= 1
      BY <1>1, FecAssumption
    <3>2. /\ IsFiniteSet(0 .. Rows - 1)
          /\ Cardinality(0 .. Rows - 1) = IF 0 > Rows - 1 THEN 0 ELSE (Rows - 1) - 0 + 1
      BY <3>1, FS_Interval
    <3> QED
      BY <1>1, <3>1, <3>2
  <2>5. ExistsBijection(0 .. Rows - 1, B)
    BY <2>2, <2>3 DEF ExistsBijection, Bijection
  <2> QED
    BY <2>4, <2>5, FS_Bijection
<1>9. ASSUME NEW x \in B, NEW y \in B PROVE (x - y) % Columns = 0
  <2>1. PICK o \in 0 .. Rows - 1, n \in 0 .. Rows - 1 : x = of[o] /\ y = of[n]
    BY <1>6
  <2> DEFINE u == newest - at[o]
             v == newest - at[n]
             d == u \div Ids
             f == v \div Ids
  <2>2. at[o] = lead + o * Columns /\ at[n] = lead + n * Columns
        /\ at[o] \in Int /\ at[n] \in Int
    BY <1>4 DEF at
  <2>3. u \in Int /\ v \in Int /\ x = u % Ids /\ y = v % Ids
    BY <2>1, <2>2
  <2> HIDE DEF u, v
  <2>4. d \in Int /\ u = Ids * d + x /\ x \in Int
    BY <1>1, <2>3, Divides
  <2>5. f \in Int /\ v = Ids * f + y /\ y \in Int
    BY <1>1, <2>3, Divides
  <2> HIDE DEF d, f
  <2> DEFINE k == n - o - 3 * Rows * (d - f)
  <2>6. k \in Int
    BY <1>1, <2>4, <2>5
  <2>7. /\ Ids * d - Ids * f = (3 * Rows * (d - f)) * Columns
        /\ Ids * d \in Int /\ Ids * f \in Int
    <3>1. Ids = 3 * (Rows * Columns)
      BY <1>1 DEF Ids
    <3>2. Ids * d - Ids * f = Ids * (d - f) /\ Ids * d \in Int /\ Ids * f \in Int
      BY <1>1, <2>4, <2>5
    <3> DEFINE df == d - f
    <3>3. df \in Int
      BY <2>4, <2>5
    <3> HIDE DEF df
    <3>4. (3 * (Rows * Columns)) * df = (3 * Rows * df) * Columns
      BY <1>1, <3>3
    <3> QED
      BY <3>1, <3>2, <3>4 DEF df
  <2>8. x - y = k * Columns
    <3> DEFINE q == 3 * Rows * (d - f)
               p == n - o
               qc == q * Columns
               kc == k * Columns
               nc == n * Columns
               mc == o * Columns
               id == Ids * d
               jf == Ids * f
    <3>1. q \in Int /\ p \in Int /\ k = p - q
      BY <1>1, <2>4, <2>5
    <3>2. p * Columns = nc - mc /\ nc \in Int /\ mc \in Int
      BY <1>1
    <3>3. kc = p * Columns - qc /\ qc \in Int /\ p * Columns \in Int
      <4> HIDE DEF q, p, k
      <4>1. (p - q) * Columns = p * Columns - q * Columns
            /\ p * Columns \in Int /\ q * Columns \in Int
        BY <1>1, <3>1
      <4> QED
        BY <3>1, <4>1
    <3>4. id - jf = qc /\ id \in Int /\ jf \in Int
      BY <2>7
    <3>5. u - v = nc - mc
      BY <1>2, <2>2, <3>2 DEF u, v
    <3>6. u = id + x /\ v = jf + y
      BY <2>4, <2>5
    <3> DEFINE pc == p * Columns
    <3>7. pc = nc - mc /\ kc = pc - qc /\ pc \in Int
      BY <3>2, <3>3
    <3> HIDE DEF q, p, qc, kc, nc, mc, id, jf, pc, k
    <3>8. x - y = kc
      BY <2>3, <2>4, <2>5, <3>2, <3>3, <3>4, <3>5, <3>6, <3>7
    <3> QED
      BY <3>8 DEF kc
  <2> HIDE DEF k
  <2> DEFINE z == x - y
  <2>9. z = 0 + k * Columns /\ z \in Int /\ 0 \in 0 .. Columns - 1
    BY <1>1, <2>4, <2>5, <2>6, <2>8
  <2> HIDE DEF z
  <2>10. z % Columns = 0
    BY <1>1, <2>6, <2>9, ModOf
  <2> QED
    BY <2>10 DEF z
<1> QED
  BY <1>8, <1>9

\* ColumnsSummed, for every size of a packet, a row and a frame: the bank the
\* transmitter reads holds in each column one byte from each row of one frame.
THEOREM ColumnsAreSummed == FecSpec => []ColumnsSummed
<1>1. ASSUME SumInv PROVE ColumnsSummed
  <2> SUFFICES ASSUME whole = 2
               PROVE  LET column == [c \in Base .. Base + Columns - 1
                                       |-> ram[1 - ts_wr_bank][c]]
                      IN  /\ UNION {column[c] : c \in DOMAIN column} = FrameInBank
                          /\ \A c \in DOMAIN column :
                               /\ Cardinality(column[c]) = Rows
                               /\ \A i, j \in column[c] : (i - j) % Columns = 0
    BY DEF ColumnsSummed
  <2>1. /\ Columns \in Nat /\ Columns >= 1 /\ Base \in Nat /\ Frame \in Nat
        /\ byte \in Int /\ clk_ena_divider \in Int
    BY <1>1, FecSizes, FecAssumption DEF SumInv, FecTypeInv, FecTypeOK
  <2> DEFINE newest == byte - clk_ena_divider - 2
             r == ram[1 - ts_wr_bank]
             column == [c \in Base .. Base + Columns - 1 |-> r[c]]
  <2>2. PICK col \in 0 .. Columns - 1 : \A c \in 0 .. Columns - 1 :
          r[Base + c] = Bytes(newest, col, 0, Frame - 1, c)
    BY <1>1 DEF SumInv, SumsDone
  <2>3. newest \in Int /\ FrameInBank = {(newest - i) % Ids : i \in 0 .. Frame - 1}
    BY <2>1 DEF FrameInBank
  <2> HIDE DEF newest, r
  <2>4. \A x \in Base .. Base + Columns - 1 : \E c \in 0 .. Columns - 1 : x = Base + c
    <3> SUFFICES ASSUME NEW x \in Base .. Base + Columns - 1
                 PROVE  \E c \in 0 .. Columns - 1 : x = Base + c
      OBVIOUS
    <3>1. x - Base \in 0 .. Columns - 1 /\ x = Base + (x - Base)
      BY <2>1
    <3> QED
      BY <3>1
  <2>5. ASSUME NEW x \in Base .. Base + Columns - 1
        PROVE  \E c \in 0 .. Columns - 1 : column[x] = Bytes(newest, col, 0, Frame - 1, c)
    BY <2>2, <2>4
  <2>6. ASSUME NEW c \in 0 .. Columns - 1
        PROVE  \E x \in Base .. Base + Columns - 1 :
                 column[x] = Bytes(newest, col, 0, Frame - 1, c)
    <3>1. Base + c \in Base .. Base + Columns - 1
      BY <2>1
    <3> QED
      BY <2>2, <3>1
  <2>7. DOMAIN column = Base .. Base + Columns - 1
    OBVIOUS
  <2> HIDE DEF column
  <2>8. UNION {column[x] : x \in DOMAIN column} = FrameInBank
    <3>1. ASSUME NEW x \in Base .. Base + Columns - 1, NEW e \in column[x]
          PROVE  e \in FrameInBank
      BY <2>3, <2>5 DEF Bytes
    <3>2. ASSUME NEW e \in FrameInBank
          PROVE  \E x \in Base .. Base + Columns - 1 : e \in column[x]
      <4>1. PICK i \in 0 .. Frame - 1 : e = (newest - i) % Ids
        BY <2>3
      <4> DEFINE c == (col - i) % Columns
      <4>2. c \in 0 .. Columns - 1
        <5>1. col - i \in Int
          OBVIOUS
        <5> QED
          BY <2>1, <5>1, ModKeeps
      <4>3. e \in Bytes(newest, col, 0, Frame - 1, c)
        BY <4>1 DEF Bytes
      <4> HIDE DEF c
      <4> QED
        BY <2>6, <4>2, <4>3
    <3> QED
      BY <2>7, <3>1, <3>2
  <2>9. ASSUME NEW x \in DOMAIN column
        PROVE  /\ Cardinality(column[x]) = Rows
               /\ \A i, j \in column[x] : (i - j) % Columns = 0
    <3>1. PICK c \in 0 .. Columns - 1 : column[x] = Bytes(newest, col, 0, Frame - 1, c)
      BY <2>5, <2>7
    <3> QED
      BY <2>3, <3>1, ColumnIsSum
  <2> QED
    BY <2>8, <2>9 DEF column, r
<1> QED
  BY <1>1, SumInvariance, PTL

-----------------------------------------------------------------------------
(***************************************************************************)
(*                               SerialMult                                *)
(***************************************************************************)
(***************************************************************************)
(* The inductive invariant: after k bits of B, the most significant first, *)
(* the product is what those bits make of A, short of it by what the       *)
(* shifts of A have lost, and modulo the word.                             *)
(***************************************************************************)
\* How many words there are.
Weight == 2^MultBits

\* Powers of two, and that a word holds the number of its bits, by induction.
LEMMA MultPowers ==
  /\ MultBits \in Nat /\ MultBits >= 1 /\ MultBits <= 31 /\ Weight \in Nat /\ Top \in Nat
  /\ Weight = 2 * Top /\ Top >= 1 /\ MultBits <= Weight
  /\ \A n \in 0 .. MultBits : 2^n \in Nat /\ 2^n >= 1
<1>1. MultBits \in 1 .. 31 /\ 2^0 = 1
  BY MultAssumption
<1> DEFINE S == {n \in Nat : n <= MultBits => 2^n \in Nat /\ n + 1 <= 2^n}
<1>2. 0 \in S
  BY <1>1
<1>3. ASSUME NEW n \in Nat, n \in S PROVE n + 1 \in S
  <2> SUFFICES ASSUME n + 1 <= MultBits
               PROVE  2^(n + 1) \in Nat /\ n + 2 <= 2^(n + 1)
    OBVIOUS
  <2>1. 2^(n + 1) = 2 * 2^n
    BY <1>1, MultAssumption
  <2>2. 2^n \in Nat /\ n + 1 <= 2^n
    BY <1>1, <1>3
  <2> DEFINE p == 2^n
             q == 2^(n + 1)
  <2>3. p \in Nat /\ n + 1 <= p /\ q = 2 * p
    BY <2>1, <2>2
  <2> HIDE DEF p, q
  <2>4. q \in Nat /\ n + 2 <= q
    BY <2>3
  <2> QED
    BY <2>4 DEF q
<1>4. Nat \subseteq S
  <2> HIDE DEF S
  <2> QED
    BY <1>2, <1>3, SetInduction
<1>5. \A n \in 0 .. MultBits : 2^n \in Nat /\ n + 1 <= 2^n
  BY <1>1, <1>4
<1>6. \A n \in 0 .. MultBits : 2^n \in Nat /\ 2^n >= 1
  BY <1>5
<1>7. Weight \in Nat /\ MultBits + 1 <= Weight
  BY <1>1, <1>5 DEF Weight
<1>8. Top \in Nat /\ Top >= 1
  BY <1>1, <1>6 DEF Top
<1>9. Weight = 2 * Top
  <2>1. MultBits - 1 \in 0 .. MultBits - 1
    BY <1>1
  <2>2. 2^((MultBits - 1) + 1) = 2 * 2^(MultBits - 1)
    BY <2>1, MultAssumption
  <2>3. (MultBits - 1) + 1 = MultBits
    BY <1>1
  <2> QED
    BY <2>2, <2>3 DEF Weight, Top
<1> QED
  BY <1>1, <1>6, <1>7, <1>8, <1>9

\* What the first k bits of B have made of the registers: they are the number
\* n; what was lost of A is r, and of the product E; z words ran over.
Rounded(A, B, k, a, b, P, n, r, E, z) ==
  /\ B * 2^k = n * Weight + b
  /\ SignedWord(A) = SignedWord(a) * 2^k + r /\ 0 <= r /\ r < 2^k
  /\ 2 * (SignedWord(A) * n) = 2^k * (P + z * Weight) + E
  /\ 0 <= E /\ E <= k * (2^k - 1)

Underway(A, B, k, a, b, P) ==
  \E n, r, E, z \in Int : Rounded(A, B, k, a, b, P, n, r, E, z)

MultInv ==
  /\ MultTypeOK /\ multcounter <= MultBits
  /\ SerialProduct
  /\ operands # <<>> /\ ~done =>
       Underway(operands[1], operands[2], multcounter, shiftA, shiftB, product)

\* The counter stops at the bit it is read by.
LEMMA DoneIs ==
  ASSUME multcounter \in 0 .. MultBits
  PROVE  done <=> multcounter = MultBits
<1>1. MultBits \in Nat /\ MultBits >= 1
  BY MultPowers
<1> DEFINE x == multcounter \div MultBits
<1>2. CASE multcounter = MultBits
  <2>1. x = 1
    BY <1>1, <1>2
  <2> HIDE DEF x
  <2>2. x % 2 = 1
    BY <2>1
  <2> QED
    BY <1>2, <2>2 DEF done, x
<1>3. CASE multcounter < MultBits
  <2>1. x = 0
    BY <1>1, <1>3
  <2> HIDE DEF x
  <2>2. x % 2 = 0
    BY <2>1
  <2> QED
    BY <1>3, <2>2 DEF done, x
<1> QED
  BY <1>1, <1>2, <1>3

\* A word and what it means with its sign differ by a word or nothing.
LEMMA SignedWordIs ==
  ASSUME NEW a \in Word
  PROVE  SignedWord(a) \in Int /\ a \in Nat /\ \E c \in 0 .. 1 : a = SignedWord(a) + c * Weight
BY MultPowers DEF SignedWord, Word, Weight

\* The shift of A halves it, sign and all.
LEMMA Halves ==
  ASSUME NEW a \in Word
  PROVE  /\ Half(a) \in Word
         /\ \E e \in 0 .. 1 : SignedWord(a) = 2 * SignedWord(Half(a)) + e
<1>1. Weight = 2 * Top /\ Top \in Nat /\ Top >= 1 /\ Weight \in Nat
  BY MultPowers
<1>2. a \in Nat /\ a < 2 * Top
  BY <1>1 DEF Word, Weight
<1> DEFINE h == a \div 2
           e == a % 2
<1>3. h \in Nat /\ e \in 0 .. 1 /\ a = 2 * h + e
  BY <1>2
<1> HIDE DEF h, e
<1>4. h < Top
  BY <1>1, <1>2, <1>3
<1>5. CASE a >= Top
  <2>1. Half(a) = h + Top
    BY <1>5 DEF Half, h
  <2>2. SignedWord(a) = a - Weight /\ SignedWord(Half(a)) = h + Top - Weight
    BY <1>1, <1>3, <1>5, <2>1 DEF SignedWord, Weight
  <2> QED
    BY <1>1, <1>3, <1>4, <2>1, <2>2 DEF Word, Weight
<1>6. CASE ~(a >= Top)
  <2>1. Half(a) = h
    BY <1>3, <1>6 DEF Half, h
  <2>2. SignedWord(a) = a /\ SignedWord(Half(a)) = h
    BY <1>1, <1>3, <1>4, <1>6, <2>1 DEF SignedWord
  <2> QED
    BY <1>1, <1>3, <1>4, <2>1, <2>2 DEF Word, Weight
<1> QED
  BY <1>5, <1>6

\* One bit: c is the bit of B, e the bit of A that is lost, y the words by which
\* the product runs over.
LEMMA ShiftKeepsRounded ==
  ASSUME MultTypeOK, multcounter < MultBits, Shift,
         NEW A \in Word, NEW B \in Word,
         Underway(A, B, multcounter, shiftA, shiftB, product)
  PROVE  Underway(A, B, multcounter + 1, shiftA', shiftB', product')
<1>1. /\ multcounter \in Nat /\ multcounter \in 0 .. MultBits - 1 /\ ~done
      /\ shiftA \in Word /\ shiftB \in Word /\ product \in Word
  BY MultPowers, DoneIs DEF MultTypeOK
<1> DEFINE p == 2^multcounter
           q == 2^(multcounter + 1)
           a == SignedWord(A)
           sa == SignedWord(shiftA)
           sn == SignedWord(shiftA')
<1>2. p \in Int /\ p >= 1 /\ q = 2 * p
  BY <1>1, MultPowers, MultAssumption
<1>3. PICK c \in 0 .. 1 : /\ 2 * shiftB = shiftB' + c * Weight
                          /\ c = IF shiftB >= Top THEN 1 ELSE 0
  <2>1. /\ shiftB \in Nat /\ shiftB < Weight /\ Weight = 2 * Top /\ Top \in Nat
        /\ Weight \in Nat /\ Weight >= 1
    BY <1>1, MultPowers DEF Word, Weight
  <2>2. shiftB' = (2 * shiftB) % Weight
    BY DEF Shift, Weight
  <2>3. CASE shiftB >= Top
    <3>1. (2 * shiftB) % Weight = 2 * shiftB - Weight
      BY <2>1, <2>3
    <3> QED
      BY <2>1, <2>2, <2>3, <3>1
  <2>4. CASE ~(shiftB >= Top)
    <3>1. (2 * shiftB) % Weight = 2 * shiftB
      BY <2>1, <2>4
    <3> QED
      BY <2>1, <2>2, <2>4, <3>1
  <2> QED
    BY <2>3, <2>4
<1>4. PICK e \in 0 .. 1 : sa = 2 * sn + e
  BY <1>1, Halves DEF Shift
<1>5. sa \in Int /\ sn \in Int /\ a \in Int /\ A \in Int /\ B \in Int
  BY <1>1, Halves, SignedWordIs DEF Shift
<1>6. PICK y \in Int : product + c * sa = product' + y * Weight
  <2>1. product \in Nat /\ Weight \in Nat /\ Weight >= 1
    BY <1>1, MultPowers DEF Word
  <2>2. CASE ~(shiftB >= Top)
    <3>1. product' = product /\ c = 0
      BY <1>3, <2>2 DEF Shift, adden
    <3> HIDE DEF sa
    <3>2. product + c * sa = product' + 0 * Weight
      BY <1>5, <2>1, <3>1
    <3> QED
      BY <3>2
  <2>3. CASE shiftB >= Top
    <3>1. product' = (product + shiftA) % Weight
      BY <1>1, <2>3 DEF Shift, adden, Weight
    <3>2. PICK d \in 0 .. 1 : shiftA = sa + d * Weight
      BY <1>1, SignedWordIs
    <3>3. shiftA \in Nat
      BY <1>1, SignedWordIs
    <3> HIDE DEF sa
    <3>4. PICK x \in Int : product + shiftA = product' + x * Weight
      <4> DEFINE w == product + shiftA
      <4>1. w \in Nat
        BY <2>1, <3>3
      <4> HIDE DEF w
      <4>2. w \div Weight \in Int /\ w = Weight * (w \div Weight) + (w % Weight)
        BY <2>1, <4>1, Divides
      <4>3. product' = w % Weight
        BY <3>1 DEF w
      <4> DEFINE x == w \div Weight
      <4>4. x \in Int /\ w = Weight * x + product'
        BY <4>2, <4>3, Zenon
      <4> HIDE DEF x
      <4>5. x * Weight \in Int /\ product' \in Int /\ x * Weight = Weight * x
        BY <2>1, <3>1, <3>3, <4>4
      <4>6. w = product' + x * Weight
        BY <4>4, <4>5
      <4> QED
        BY <4>4, <4>6 DEF w
    <3>5. (x - d) * Weight = x * Weight - d * Weight /\ x * Weight \in Int /\ d * Weight \in Int
      BY <2>1, <3>4
    <3>6. product' \in Int
      BY <2>1, <3>1, <3>3
    <3>7. c = 1
      BY <1>3, <2>3
    <3>8. product + c * sa = product' + (x - d) * Weight
      <4> DEFINE u == x * Weight
                 v == d * Weight
                 xd == (x - d) * Weight
                 n == product'
      <4>1. xd = u - v /\ u \in Int /\ v \in Int
        BY <3>5
      <4>2. product \in Int /\ sa \in Int /\ n \in Int
        BY <1>5, <2>1, <3>6 DEF sa
      <4>3. product + (sa + v) = n + u
        BY <3>2, <3>4, Zenon
      <4>4. product + c * sa = product + sa
        BY <3>7, <4>2
      <4> HIDE DEF u, v, xd, n
      <4>5. product + sa = n + xd
        BY <4>1, <4>2, <4>3
      <4> QED
        BY <4>4, <4>5 DEF xd, n
    <3>9. x - d \in Int
      OBVIOUS
    <3> QED
      BY <3>8, <3>9, Zenon
  <2> QED
    BY <2>2, <2>3
<1>7. product' \in Int /\ shiftB' \in Int /\ Weight \in Int /\ product \in Int /\ shiftB \in Int
  <2>1. product \in Int /\ shiftB \in Int /\ shiftA \in Int /\ Weight \in Nat /\ Weight >= 1
    BY <1>1, MultPowers DEF Word
  <2>2. (product + shiftA) % Weight \in Int /\ (2 * shiftB) % Weight \in Int
    BY <2>1
  <2> QED
    BY <2>1, <2>2 DEF Shift, Weight
<1>8. PICK n, r, E, z \in Int :
        /\ B * p = n * Weight + shiftB
        /\ a = sa * p + r /\ 0 <= r /\ r < p
        /\ 2 * (a * n) = p * (product + z * Weight) + E
        /\ 0 <= E /\ E <= multcounter * (p - 1)
  BY DEF Underway, Rounded
<1>9. 2 * shiftB = shiftB' + c * Weight
  BY <1>3
<1> HIDE DEF p, a, sa, sn
<1> DEFINE nn == 2 * n + c
           rn == e * p + r
           En == 2 * E + 2 * (c * r)
           zn == y + z
           pp == 2 * p
<1>10. B * pp = nn * Weight + shiftB'
  <2>1. B * (2 * p) = 2 * (B * p)
    BY <1>2, <1>5
  <2>2. (2 * n + c) * Weight = 2 * (n * Weight) + c * Weight
    BY <1>7
  <2>3. /\ B * p \in Int /\ n * Weight \in Int /\ c * Weight \in Int
        /\ shiftB \in Int /\ shiftB' \in Int
    BY <1>2, <1>5, <1>7
  <2> QED
    BY <1>8, <1>9, <2>1, <2>2, <2>3
<1>11. a = sn * pp + rn
  <2>1. sa * p = sn * (2 * p) + e * p
    BY <1>2, <1>4, <1>5
  <2>2. sa * p \in Int /\ sn * (2 * p) \in Int /\ e * p \in Int
    BY <1>2, <1>5
  <2> QED
    BY <1>8, <2>1, <2>2
<1>12. 0 <= rn /\ rn < pp
  <2>1. e * p = IF e = 0 THEN 0 ELSE p
    <3>1. e = 0 \/ e = 1
      OBVIOUS
    <3> QED
      BY <1>2, <3>1
  <2> QED
    BY <1>2, <1>8, <2>1
<1>13. c * r \in Int /\ 0 <= c * r /\ c * r <= p - 1 /\ c * a = c * (sa * p) + c * r
  <2>1. c = 0 \/ c = 1
    OBVIOUS
  <2>2. sa * p \in Int
    BY <1>2, <1>5
  <2>3. CASE c = 0
    BY <1>2, <1>5, <1>8, <2>2, <2>3
  <2>4. CASE c = 1
    BY <1>2, <1>5, <1>8, <2>2, <2>4
  <2> QED
    BY <2>1, <2>3, <2>4
<1>14. 2 * (a * nn) = pp * (product' + zn * Weight) + En
  <2> DEFINE x == product + z * Weight
  <2>1. x \in Int
    BY <1>7
  <2>2. product' + zn * Weight = x + c * sa
    <3>1. (y + z) * Weight = y * Weight + z * Weight
      BY <1>7
    <3>2. y * Weight \in Int /\ z * Weight \in Int /\ c * sa \in Int
      BY <1>5, <1>7
    <3> QED
      BY <1>6, <1>7, <3>1, <3>2
  <2>3. 2 * (a * n) = p * x + E
    BY <1>8
  <2> HIDE DEF x
  <2>4. 2 * (a * (2 * n + c)) = 2 * (2 * (a * n)) + 2 * (c * a)
    BY <1>5
  <2>5. (2 * p) * (x + c * sa) = 2 * (p * x) + 2 * (c * (sa * p))
    BY <1>2, <1>5, <2>1
  <2>6. /\ a * n \in Int /\ c * a \in Int /\ p * x \in Int /\ c * (sa * p) \in Int
        /\ c * r \in Int
    BY <1>2, <1>5, <2>1
  <2> QED
    BY <1>13, <2>2, <2>3, <2>4, <2>5, <2>6
<1>15. 0 <= En /\ En <= (multcounter + 1) * (pp - 1)
  <2> DEFINE u == c * r
             v == multcounter * (p - 1)
             w == (multcounter + 1) * (pp - 1)
  <2>1. w = 2 * v + 2 * (p - 1) + (multcounter + 1)
    BY <1>1, <1>2
  <2>2. v \in Int
    BY <1>1, <1>2
  <2>3. u \in Int /\ 0 <= u /\ u <= p - 1 /\ 0 <= E /\ E <= v
    BY <1>8, <1>13
  <2> HIDE DEF u, v, w
  <2>4. 0 <= 2 * E + 2 * u /\ 2 * E + 2 * u <= w
    BY <1>1, <1>2, <2>1, <2>2, <2>3
  <2> QED
    BY <2>4 DEF u, w
<1>16. nn \in Int /\ rn \in Int /\ En \in Int /\ zn \in Int /\ q = pp
  BY <1>2, <1>5
<1> HIDE DEF nn, rn, En, zn, pp
<1>17. /\ B * q = nn * Weight + shiftB'
       /\ a = sn * q + rn /\ 0 <= rn /\ rn < q
       /\ 2 * (a * nn) = q * (product' + zn * Weight) + En
       /\ 0 <= En /\ En <= (multcounter + 1) * (q - 1)
  BY <1>10, <1>11, <1>12, <1>14, <1>15, <1>16, Zenon
<1>18. Rounded(A, B, multcounter + 1, shiftA', shiftB', product', nn, rn, En, zn)
  BY <1>17, Zenon DEF Rounded, a, sn, q
<1> QED
  BY <1>16, <1>18, Zenon DEF Underway

\* The last bit leaves all of B added, and a loss below one unit for each bit.
LEMMA AllBits ==
  ASSUME NEW A \in Word, NEW B \in Word, NEW a, NEW b \in Word, NEW P \in Word,
         Underway(A, B, MultBits, a, b, P)
  PROVE  ((SignedWord(A) * B) \div Top - P) % Weight < MultBits
<1>1. /\ MultBits \in Nat /\ MultBits >= 1 /\ MultBits <= Weight
      /\ Weight \in Nat /\ Top \in Nat /\ Weight = 2 * Top /\ Top >= 1
  BY MultPowers
<1> DEFINE sa == SignedWord(A)
<1>2. sa \in Int /\ B \in Int /\ P \in Int /\ b \in Nat /\ b < Weight
  BY <1>1, SignedWordIs DEF Word, Weight
<1>3. PICK n, r, E, z \in Int :
        /\ B * Weight = n * Weight + b
        /\ 2 * (sa * n) = Weight * (P + z * Weight) + E
        /\ 0 <= E /\ E <= MultBits * (Weight - 1)
  BY DEF Underway, Rounded, Weight
<1>4. n = B
  <2>1. B * Weight - n * Weight = (B - n) * Weight /\ B * Weight \in Int /\ n * Weight \in Int
    BY <1>1, <1>2
  <2>2. (B - n) * Weight = b
    BY <1>2, <1>3, <2>1
  <2>3. B - n = 0
    <3> DEFINE x == B - n
    <3>1. x \in Int /\ x * Weight = b
      BY <1>2, <2>2
    <3> HIDE DEF x
    <3>2. x = 0
      BY <1>1, <1>2, <3>1, NoMultipleBetween
    <3> QED
      BY <3>2 DEF x
  <2> QED
    BY <1>2, <2>3
<1> HIDE DEF sa
<1> DEFINE Q == P + z * Weight
           F == sa * B - Top * Q
<1>5. Q \in Int
  BY <1>1, <1>2
<1>6. F \in Int /\ sa * B = Top * Q + F /\ E = 2 * F
  <2> HIDE DEF Q
  <2>1. Top * Q \in Int /\ sa * B \in Int /\ Weight * Q = 2 * (Top * Q)
    BY <1>1, <1>2, <1>5
  <2>2. 2 * (sa * B) = Weight * Q + E
    BY <1>3, <1>4 DEF Q
  <2> DEFINE x == sa * B
             y == Top * Q
             w == Weight * Q
  <2>3. x \in Int /\ y \in Int /\ w = 2 * y /\ 2 * x = w + E
    BY <2>1, <2>2
  <2>4. F = x - y
    OBVIOUS
  <2> HIDE DEF x, y, w, F
  <2>5. F \in Int /\ x = y + F /\ E = 2 * F
    BY <2>3, <2>4
  <2> QED
    BY <2>5 DEF x, y
<1>7. 0 <= F /\ F < MultBits * Top
  <2> HIDE DEF F
  <2>1. MultBits * (Weight - 1) = 2 * (MultBits * Top) - MultBits
    BY <1>1
  <2>2. MultBits * Top \in Int
    BY <1>1
  <2> QED
    BY <1>1, <1>3, <1>6, <2>1, <2>2
<1> HIDE DEF F, Q
<1> DEFINE q == F \div Top
<1>8. q \in Int /\ 0 <= q /\ q < MultBits /\ F % Top \in 0 .. Top - 1
      /\ F = Top * q + (F % Top)
  <2>1. q \in Int /\ F % Top \in 0 .. Top - 1 /\ F = Top * q + (F % Top)
    BY <1>1, <1>6, Divides
  <2> HIDE DEF q
  <2>2. 0 <= q
    <3> SUFFICES ASSUME q <= -1 PROVE FALSE
      BY <2>1
    <3>1. Top * q <= -Top
      BY <1>1, <2>1
    <3>2. Top * q \in Int
      BY <1>1, <2>1
    <3> QED
      BY <1>1, <1>6, <1>7, <2>1, <3>1, <3>2
  <2>3. q < MultBits
    <3> SUFFICES ASSUME q >= MultBits PROVE FALSE
      BY <1>1, <2>1
    <3>1. Top * q >= MultBits * Top
      BY <1>1, <2>1
    <3>2. Top * q \in Int /\ MultBits * Top \in Int
      BY <1>1, <2>1
    <3> QED
      BY <1>1, <1>6, <1>7, <2>1, <3>1, <3>2
  <2> QED
    BY <2>1, <2>2, <2>3
<1> HIDE DEF q
<1>9. (sa * B) \div Top = Q + q
  <2> DEFINE x == Q + q
             e == F % Top
  <2>1. x \in Int /\ e \in 0 .. Top - 1
    BY <1>5, <1>8
  <2>2. sa * B = Top * x + e
    <3>1. Top * (Q + q) = Top * Q + Top * q
      BY <1>1, <1>5, <1>8
    <3>2. Top * Q \in Int /\ Top * q \in Int
      BY <1>1, <1>5, <1>8
    <3> DEFINE u == Top * Q
               v == Top * q
               w == Top * (Q + q)
    <3>3. u \in Int /\ v \in Int /\ w = u + v /\ sa * B = u + F /\ F = v + e
      BY <1>6, <1>8, <3>1, <3>2
    <3> HIDE DEF u, v, w, e
    <3>4. sa * B = w + e
      BY <1>6, <2>1, <3>3
    <3> QED
      BY <3>4 DEF w
  <2> HIDE DEF x, e
  <2>3. (Top * x + e) \div Top = x
    BY <1>1, <2>1, DividesOnce
  <2> QED
    BY <2>2, <2>3 DEF x
<1>10. ((Q + q) - P) % Weight = q
  <2>1. (Q + q) - P = Weight * z + q
    <3>1. z * Weight \in Int /\ z * Weight = Weight * z
      BY <1>1
    <3> QED
      BY <1>2, <1>8, <3>1 DEF Q
  <2>2. q \in 0 .. Weight - 1 /\ Weight \in Int /\ Weight >= 1
    BY <1>1, <1>8
  <2>3. (Weight * z + q) % Weight = q
    BY ONLY <2>2, z \in Int, DividesOnce
  <2> QED
    BY <2>1, <2>3
<1>11. q < MultBits
  BY <1>8
<1> QED
  BY <1>9, <1>10, <1>11, Zenon DEF sa

LEMMA MultInitInv == MultInit => MultInv
<1> SUFFICES ASSUME MultInit PROVE MultInv
  OBVIOUS
<1>1. MultBits \in 1 .. 31 /\ As \subseteq Word /\ Bs \subseteq Word /\ 0 \in Word
  BY MultAssumption, MultPowers DEF Word, Weight
<1> QED
  BY <1>1 DEF MultInit, MultInv, MultTypeOK, SerialProduct

LEMMA MultNextInv == MultInv /\ [MultNext]_multVars => MultInv'
<1> SUFFICES ASSUME MultInv, [MultNext]_multVars PROVE MultInv'
  OBVIOUS
<1>1. /\ MultBits \in 1 .. 31 /\ As \subseteq Word /\ Bs \subseteq Word /\ 0 \in Word
      /\ Weight \in Nat /\ Weight >= 1 /\ Word = 0 .. Weight - 1
  BY MultAssumption, MultPowers DEF Word, Weight
<1>2. /\ multcounter \in 0 .. MultBits /\ shiftA \in Word /\ shiftB \in Word
      /\ product \in Word /\ operands \in {<<>>} \union As \X Bs
  BY <1>1 DEF MultInv, MultTypeOK
<1>3. ASSUME NEW A \in As, NEW B \in Bs, Load(A, B) PROVE MultInv'
  <2>1. MultTypeOK' /\ multcounter' = 0
    BY <1>1, <1>3 DEF Load, MultTypeOK
  <2>2. ~done'
    BY <1>1, <2>1 DEF done
  <2>3. Underway(A, B, 0, A, B, 0)
    <3>1. 2^0 = 1 /\ SignedWord(A) \in Int /\ A \in Int /\ B \in Int
      BY <1>1, MultAssumption, SignedWordIs
    <3> DEFINE sa == SignedWord(A)
    <3> HIDE DEF sa
    <3>2. /\ B * 1 = 0 * Weight + B /\ sa = sa * 1 + 0
          /\ 2 * (sa * 0) = 1 * (0 + 0 * Weight) + 0 /\ 0 <= 0 * (1 - 1)
      BY <1>1, <3>1 DEF sa
    <3>3. Rounded(A, B, 0, A, B, 0, 0, 0, 0, 0)
      BY <3>1, <3>2 DEF Rounded, sa
    <3> QED
      BY <3>3 DEF Underway
  <2>4. operands' = <<A, B>> /\ shiftA' = A /\ shiftB' = B /\ product' = 0
    BY <1>3 DEF Load
  <2>5. SerialProduct'
    BY <2>2 DEF SerialProduct
  <2>6. Underway(operands'[1], operands'[2], multcounter', shiftA', shiftB', product')
    BY <2>1, <2>3, <2>4
  <2> QED
    BY <1>1, <2>1, <2>5, <2>6 DEF MultInv
<1>4. ASSUME Shift PROVE MultInv'
  <2>1. shiftA' \in Word
    BY <1>2, <1>4, Halves DEF Shift
  <2>2. shiftB' \in Word /\ product' \in Word
    <3>1. (2 * shiftB) % Weight \in Word /\ (product + shiftA) % Weight \in Word
      BY <1>1, <1>2
    <3> QED
      BY <1>2, <1>4, <3>1 DEF Shift, Weight
  <2>3. operands' = operands
    BY <1>4 DEF Shift
  <2>4. CASE done
    <3>1. multcounter' = multcounter /\ product' = product
      BY <1>4, <2>4 DEF Shift, adden
    <3>2. MultTypeOK' /\ multcounter' <= MultBits /\ done'
      BY <1>1, <1>2, <2>1, <2>2, <2>3, <2>4, <3>1 DEF MultTypeOK, done
    <3>3. SerialProduct'
      BY <2>3, <2>4, <3>1 DEF MultInv, SerialProduct, done, SignedWord, Top
    <3> QED
      BY <3>2, <3>3 DEF MultInv
  <2>5. CASE ~done
    <3>1. multcounter < MultBits
      BY <1>1, <1>2, <2>5, DoneIs
    <3>2. multcounter' = multcounter + 1 /\ multcounter' \in 0 .. MultBits
      BY <1>1, <1>2, <1>4, <2>5, <3>1 DEF Shift
    <3>3. MultTypeOK'
      BY <1>1, <1>2, <2>1, <2>2, <2>3, <3>2 DEF MultTypeOK
    <3>4. ASSUME operands # <<>>
          PROVE  /\ Underway(operands[1], operands[2], multcounter', shiftA', shiftB', product')
                 /\ operands[1] \in Word /\ operands[2] \in Word
      <4>1. operands[1] \in Word /\ operands[2] \in Word
        BY <1>1, <1>2, <3>4
      <4>2. Underway(operands[1], operands[2], multcounter, shiftA, shiftB, product)
        BY <2>5, <3>4 DEF MultInv
      <4>3. MultTypeOK
        BY DEF MultInv
      <4>4. Underway(operands[1], operands[2], multcounter + 1, shiftA', shiftB', product')
        BY <1>4, <3>1, <4>1, <4>2, <4>3, ShiftKeepsRounded
      <4> QED
        BY <3>2, <4>1, <4>4
    <3>5. done' => multcounter' = MultBits
      BY <1>1, <3>2 DEF done
    <3>6. SerialProduct'
      <4> SUFFICES ASSUME operands # <<>>, done'
                   PROVE  ((SignedWord(operands[1]) * operands[2]) \div Top - product')
                             % Weight < MultBits
        BY <2>3 DEF SerialProduct, SignedWord, Top, Weight
      <4>1. Underway(operands[1], operands[2], MultBits, shiftA', shiftB', product')
        BY <3>4, <3>5
      <4> QED
        BY <2>2, <3>4, <4>1, AllBits
    <3> QED
      BY <2>3, <3>2, <3>3, <3>4, <3>6 DEF MultInv
  <2> QED
    BY <2>4, <2>5
<1>5. ASSUME UNCHANGED multVars PROVE MultInv'
  BY <1>5 DEF MultInv, MultTypeOK, SerialProduct, SignedWord, Top, done, multVars
<1> QED
  BY <1>3, <1>4, <1>5 DEF MultNext

LEMMA MultInvariance == MultSpec => []MultInv
BY MultInitInv, MultNextInv, PTL DEF MultSpec

\* Every register keeps its width, for every width.
THEOREM MultTypeCorrect == MultSpec => []MultTypeOK
<1>1. MultInv => MultTypeOK
  BY DEF MultInv
<1> QED
  BY <1>1, MultInvariance, PTL

\* When the multiplier is done its product is the exact one, modulo the word and
\* short of it by less than one unit for each bit: for every width and all
\* operands, whenever a start comes.
THEOREM ProductIsRounded == MultSpec => []SerialProduct
<1>1. MultInv => SerialProduct
  BY DEF MultInv
<1> QED
  BY <1>1, MultInvariance, PTL

-----------------------------------------------------------------------------
(***************************************************************************)
(* The bench.                                                              *)
(***************************************************************************)
LEMMA GrantTypes == Grant!Init /\ [][Grant!Next]_grantVars => []Grant!GrantTypeOK
<1>1. Grant!Init => Grant!GrantTypeOK
  BY DEF Grant!Init, Grant!GrantTypeOK
<1>2. Grant!GrantTypeOK /\ [Grant!Next]_grantVars => Grant!GrantTypeOK'
  <2> SUFFICES ASSUME Grant!GrantTypeOK, [Grant!Next]_grantVars
               PROVE  Grant!GrantTypeOK'
    OBVIOUS
  <2>1. CASE Grant!Next
    <3>1. Grant!next \in {"IDLE", "BBUSY", "BWAIT", "BFREE"}
      BY DEF Grant!next, Grant!GrantTypeOK
    <3> QED
      BY <2>1, <3>1 DEF Grant!Next, Grant!PosedgeClk, Grant!GrantTypeOK
  <2>2. CASE UNCHANGED grantVars
    BY <2>2 DEF grantVars, Grant!GrantTypeOK
  <2> QED
    BY <2>1, <2>2
<1> QED
  BY <1>1, <1>2, PTL

\* Running one core at a time adds no behaviour to any of them: what is proved
\* of each module is true of the bench that TLC checks.
THEOREM BenchRunsCores ==
  RtlSpec => /\ Spec /\ FecSpec /\ SmSpec /\ MultSpec /\ RsSpec
             /\ Grant!Init /\ [][Grant!Next]_grantVars
<1>1. RtlInit => Init /\ FecInit /\ SmInit /\ MultInit /\ RsInit /\ Grant!Init
  BY DEF RtlInit
<1>2. [RtlNext]_rtlVars => [Next]_vars
  BY DEF RtlNext, rtlVars
<1>3. [RtlNext]_rtlVars => [FecNext]_fecVars
  BY DEF RtlNext, rtlVars
<1>4. [RtlNext]_rtlVars => [SmNext]_smVars
  BY DEF RtlNext, rtlVars
<1>5. [RtlNext]_rtlVars => [MultNext]_multVars
  BY DEF RtlNext, rtlVars
<1>6. [RtlNext]_rtlVars => [RsNext]_rsVars
  BY DEF RtlNext, rtlVars
<1>7. [RtlNext]_rtlVars => [Grant!Next]_grantVars
  BY DEF RtlNext, rtlVars
<1> QED
  BY <1>1, <1>2, <1>3, <1>4, <1>5, <1>6, <1>7, PTL
     DEF RtlSpec, Spec, FecSpec, SmSpec, MultSpec, RsSpec

\* Every register of every core, and every variable of the models of the
\* Reed-Solomon core, has its type.
THEOREM RtlTypesCorrect == RtlSpec => []RtlTypeOK
<1>1. TypeOK /\ FecTypeOK /\ SmTypeOK /\ MultTypeOK /\ Grant!GrantTypeOK /\ RsTypeOK => RtlTypeOK
  BY DEF RtlTypeOK
<1> QED
  BY <1>1, BenchRunsCores, SpiTypeCorrect, FecTypeCorrect, SmTypeCorrect, MultTypeCorrect,
     GrantTypes, RsTypeCorrect, PTL
=============================================================================
