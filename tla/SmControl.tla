----------------------------- MODULE SmControl ------------------------------
(***************************************************************************)
(* sm_control_v3: the control of one stage of a pipeline.  A pulse on      *)
(* first covers the first word of a packet; the stage works in a window,   *)
(* and last, latched with the word it covers, is the next stage's first.   *)
(* A step is a rising edge of clk, or the asynchronous rst.                *)
(***************************************************************************)
EXTENDS Integers

CONSTANTS
  Width,     \* WIDTH of the counter
  ModCount   \* MOD_COUNT

\* What the parameters have to be: the counter reaches ModCount - 1.
ASSUME SmAssumption == Width \in Nat /\ 2^Width \in Nat /\ ModCount \in 2 .. 2^Width

VARIABLES
  first, clk_ena,    \* input ports
  count, adf_out,    \* the counter; the window's flip-flop
  age                \* history: clocks enabled since a packet began, 0 when
                     \* there is none

smVars == <<first, clk_ena, count, adf_out, age>>

SmInit ==
  /\ first = FALSE /\ clk_ena = FALSE
  /\ count = 0 /\ adf_out = FALSE
  /\ age = 0

carry == count = ModCount - 1
last == carry
windows == first \/ adf_out

\* Mutant: the end of a packet closes the window whatever begins.
adf_in_closes == ~carry

adf_in == ~carry \/ first

SmPosedgeClk ==
  /\ count' = IF ~(windows /\ clk_ena) THEN count
              ELSE IF first \/ carry THEN 0
              ELSE (count + 1) % 2^Width
  /\ adf_out' = IF clk_ena /\ (first \/ carry) THEN adf_in ELSE adf_out
  /\ age' = IF ~clk_ena THEN age
            ELSE IF first THEN 1
            ELSE IF age \in 1 .. ModCount - 1 THEN age + 1
            ELSE 0
  /\ first' \in BOOLEAN /\ clk_ena' \in BOOLEAN

Rst ==
  /\ count' = 0 /\ adf_out' = FALSE /\ age' = 0
  /\ UNCHANGED <<first, clk_ena>>

SmNext == SmPosedgeClk \/ Rst

SmSpec == SmInit /\ [][SmNext]_smVars

-----------------------------------------------------------------------------
(***************************************************************************)
(* Properties                                                              *)
(***************************************************************************)
\* Every register has its width.
SmTypeOK ==
  /\ first \in BOOLEAN /\ clk_ena \in BOOLEAN
  /\ count \in 0 .. 2^Width - 1 /\ adf_out \in BOOLEAN
  /\ age \in 0 .. ModCount

\* The baton is passed on once for every packet that ran to its end, ModCount
\* enabled clocks after it began, and the window is open until then: when
\* packets follow without a gap, when one cuts another short, and while
\* clk_ena holds the stage.
BatonPassed ==
  /\ adf_out <=> age > 0
  /\ last <=> age = ModCount
=============================================================================
