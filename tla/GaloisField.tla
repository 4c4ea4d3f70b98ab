----------------------------- MODULE GaloisField -----------------------------
(***************************************************************************)
(* The field arithmetic of the Reed-Solomon models: elements are numbers   *)
(* below GF, sums are exclusive ors, products go by a table of powers and  *)
(* a table of logarithms.  Tables are numbered from 1, as in the source:   *)
(* alpha_to[i] is the power i - 1 of the generator.                        *)
(***************************************************************************)
EXTENDS Integers, Sequences

CONSTANT p_sourse   \* coefficients of the irreducible polynomial, highest first

\* What x, a member of S, has become after f[1], then f[2] .. f[n].  It is
\* run half by half, so that the recursion is not as deep as n.
Loop(n, x, S, f) ==
  LET run[lo \in 1 .. n + 1] ==
        [hi \in 0 .. n |-> [v \in S |->
           LET middle == (lo + hi) \div 2
           IN  IF lo > hi THEN v
               ELSE IF lo = hi THEN f[lo][v]
               ELSE run[middle + 1][hi][run[lo][middle][v]]]]
  IN  run[1][n][x]

\* A for loop: op(x, 1), then op of that and 2, as far as n.
For(n, x, S, op(_, _)) ==
  Loop(n, x, S, [i \in 1 .. n |-> [v \in S |-> op(v, i)]])

\* The sequence backwards.
bitroute(iQ) == [i \in 1 .. Len(iQ) |-> iQ[Len(iQ) - i + 1]]

\* Exclusive or of the iLen lowest bits of two numbers.
myxor[iLen \in Nat] ==
  [iQ \in Nat |-> [iT \in Nat |->
     IF iLen = 0 THEN 0
     ELSE ((iQ + iT) % 2) + 2 * myxor[iLen - 1][iQ \div 2][iT \div 2]]]

ip == For(Len(p_sourse), 0, Nat, LAMBDA n, i : 2 * n + p_sourse[i])
m  == Len(p_sourse) - 1
GF == For(m, 1, Nat, LAMBDA n, i : 2 * n)   \* 2^m
Element == 0 .. GF - 1

\* Doubled, and reduced by the polynomial when it overflows.
doubled(tmp) == IF 2 * tmp >= GF THEN myxor[m][2 * tmp][ip] ELSE 2 * tmp

alpha_to ==
  [i \in 1 .. GF - 1 |-> For(i - 1, 1, Element, LAMBDA tmp, q : doubled(tmp))]

index_of == [a \in 1 .. GF - 1 |-> CHOOSE i \in 1 .. GF - 1 : alpha_to[i] = a]

\* Every element but zero is a power of the generator: else index_of has holes.
\* No word fits a field of two elements.
ASSUME PrimitiveAssumption ==
  /\ p_sourse \in Seq(0 .. 1) /\ Len(p_sourse) > 2 /\ p_sourse[1] = 1
  /\ 1 .. GF - 1 = {alpha_to[i] : i \in 1 .. GF - 1}

sums == [a \in Element |-> [b \in Element |-> myxor[m][a][b]]]

gsum(a, b)  == sums[a][b]
gmult(a, b) ==
  IF a = 0 \/ b = 0 THEN 0
  ELSE alpha_to[((index_of[a] + index_of[b] - 2) % (GF - 1)) + 1]

\* A quotient by zero has no value; the source makes it an error text.
gdiv(a, b) ==
  IF a = 0 THEN 0 ELSE alpha_to[((index_of[a] - index_of[b]) % (GF - 1)) + 1]
ginv(b)    == gdiv(1, b)
gpow(a, n) == alpha_to[(((index_of[a] - 1) * n) % (GF - 1)) + 1]

\* The value at x of the polynomial with these coefficients, highest first.
Horner(coeffs, x) ==
  For(Len(coeffs), 0, Element, LAMBDA v, i : gsum(coeffs[i], gmult(x, v)))
=============================================================================
