----------------------------- MODULE SerialMult -----------------------------
(***************************************************************************)
(* mult8_rollup: a product one bit of B at a time, most significant first, *)
(* while A is shifted right.  A step is a rising edge of clk.  There is no *)
(* reset: the registers power up with any value.                           *)
(***************************************************************************)
EXTENDS Integers

CONSTANTS
  MultBits, \* bits of A, B and product; done is the counter's bit of this weight
  As, Bs    \* the values the environment gives A and B

ASSUME MultAssumption ==
  /\ MultBits \in 1 .. 31     \* done is a bit of a counter of five
  \* powers of two, as far as a word goes
  /\ 2^0 = 1 /\ \A n \in 0 .. MultBits - 1 : 2^(n + 1) = 2 * 2^n
  /\ As \subseteq 0 .. 2^MultBits - 1 /\ Bs \subseteq 0 .. 2^MultBits - 1

VARIABLES
  multcounter, shiftA, shiftB, product,
  operands   \* history: A and B at the last start, <<>> before it

multVars == <<multcounter, shiftA, shiftB, product, operands>>

Word == 0 .. 2^MultBits - 1
Top == 2^(MultBits - 1)     \* the weight of a word's highest bit

MultInit ==
  /\ multcounter \in {0, MultBits} /\ shiftA \in As /\ shiftB \in Bs
  /\ product = 0 /\ operands = <<>>

\* multcounter[3]
done == (multcounter \div MultBits) % 2 = 1

adden == shiftB >= Top /\ ~done

\* Mutant: the sign is not kept.
HalfUnsigned(a) == a \div 2

\* { a[7], a[7:1] }
Half(a) == a \div 2 + (IF a >= Top THEN Top ELSE 0)

Load(A, B) ==
  /\ multcounter' = 0 /\ shiftA' = A /\ shiftB' = B /\ product' = 0
  /\ operands' = <<A, B>>

Shift ==
  /\ multcounter' = IF done THEN multcounter ELSE (multcounter + 1) % 32
  /\ shiftB' = (2 * shiftB) % 2^MultBits
  /\ shiftA' = Half(shiftA)
  /\ product' = IF adden THEN (product + shiftA) % 2^MultBits ELSE product
  /\ UNCHANGED operands

MultNext == (\E A \in As, B \in Bs : Load(A, B)) \/ Shift

MultSpec == MultInit /\ [][MultNext]_multVars

-----------------------------------------------------------------------------
(***************************************************************************)
(* Properties                                                              *)
(***************************************************************************)
\* Every register has its width.
MultTypeOK ==
  /\ multcounter \in 0 .. 31
  /\ shiftA \in Word /\ shiftB \in Word /\ product \in Word
  /\ operands \in {<<>>} \union As \X Bs

SignedWord(a) == IF a >= Top THEN a - 2^MultBits ELSE a

\* When the multiplier is done product is A * B / Top, A signed and B not, modulo
\* the word and short of it by less than one unit for each bit, although every
\* term was rounded: for the operands of the last start, for as long as none
\* follows.
SerialProduct ==
  operands # <<>> /\ done =>
    LET exact == (SignedWord(operands[1]) * operands[2]) \div Top
    IN  (exact - product) % 2^MultBits < MultBits
=============================================================================
