----------------------------- MODULE ReedSolomon -----------------------------
(***************************************************************************)
(* The two Matlab models of the Reed-Solomon codec: "xxbm", whose decoder  *)
(* finds the error polynomials by the inversion-free Berlekamp-Massey      *)
(* algorithm (gribm) and is the reference of the hardware, and "gmult",    *)
(* the earlier one, with divisions.  A behaviour encodes the word of       *)
(* main.m, overwrites symbols as main.m does and decodes: the syndromes    *)
(* are one step, every round of the key equation is one, and the search    *)
(* for roots with the correction is one.                                   *)
(***************************************************************************)
EXTENDS GaloisField, FiniteSets

CONSTANTS
  K, t,     \* symbols of the message, errors to correct
  Models,   \* the models that run, of "xxbm" and "gmult"
  Places    \* where symbols may be overwritten

T == 2 * t
N == T + K

\* The number of coefficients of omega that the decoder of xxbm takes.
OmegaTaps == 8

ASSUME RsAssumption ==
  /\ t \in Nat \ {0} /\ K \in Nat /\ K >= T
  /\ N = GF - 1                    \* the root of a place is inside the word
  /\ Models \subseteq {"xxbm", "gmult"} /\ Places \subseteq 1 .. N
  /\ "xxbm" \in Models => t = OmegaTaps   \* else it would take too few

VARIABLES
  model,     \* which of the two
  C,         \* the word, corrected in place
  errors,    \* history: the places that were overwritten with another symbol
  s,         \* the syndromes
  i_round,   \* rounds of the key equation that are done
  reg,       \* the variables of that loop
  outcome,   \* RetArrCells(1,1): a text, or the number of places corrected
  root_tmp,  \* the places that were corrected
  stage      \* how far the decoder is

rsVars == <<model, C, errors, s, i_round, reg, outcome, root_tmp, stage>>

-----------------------------------------------------------------------------
\* The power of the generator that is the first root of the code.
j0 == [xxbm |-> 1, gmult |-> 0]

\* The generator polynomial without its leading coefficient, highest first.
itmpM(j) ==
  LET bracket(M, i) ==
        [q \in 1 .. T |-> gsum(IF q < T THEN M[q + 1] ELSE 0,
                               gmult(M[q], alpha_to[1 + j + i]))]
      begin == [q \in 1 .. T |-> CASE q = T - 1 -> 1
                                   [] q = T     -> alpha_to[1 + j]
                                   [] OTHER     -> 0]
  IN  For(T - 1, begin, [1 .. T -> Element], bracket)

\* Its coefficients in the order of the shift register that divides by it.
g == [md \in Models |-> bitroute(itmpM(j0[md]))]

\* The message and the remainder of its division by the generator.
rs_coder(A, md) ==
  LET clock(Rest, i) ==
        LET ifeedback == gsum(Rest[T], A[i])
        IN  [q \in 1 .. T |-> gsum(IF q = 1 THEN 0 ELSE Rest[q - 1],
                                   gmult(ifeedback, g[md][q]))]
      zeros == [q \in 1 .. T |-> 0]
  IN  A \o bitroute(For(K, zeros, [1 .. T -> Element], clock))

Codeword == [md \in Models |-> rs_coder([i \in 1 .. K |-> i], md)]

Overwritten(E) == [i \in 1 .. N |-> IF i \in E THEN 0 ELSE Codeword[model][i]]

RsInit ==
  /\ model \in Models
  /\ \E E \in SUBSET Places : C = Overwritten(E)
  /\ errors = {i \in Places : C[i] # Codeword[model][i]}
  /\ s = [j \in 1 .. T |-> 0] /\ i_round = 0 /\ reg = <<>>
  /\ outcome = "" /\ root_tmp = {} /\ stage = "received"

-----------------------------------------------------------------------------
\* Mutant: the seed of the locator one place too low.
RibmStartLow(syn) ==
  LET delta == [i \in 0 .. 3 * t + 1 |->
                  CASE i < T -> syn[i + 1] [] i = 3 * t - 1 -> 1 [] OTHER -> 0]
  IN  [delta |-> delta, ttt |-> delta, k |-> 0, gamma |-> 1]

\* The registers of gribm and of the older loop, before their first round.
RibmStart(syn) ==
  LET delta == [i \in 0 .. 3 * t + 1 |->
                  CASE i < T -> syn[i + 1] [] i = 3 * t -> 1 [] OTHER -> 0]
  IN  [delta |-> delta, ttt |-> delta, k |-> 0, gamma |-> 1]

\* Mutant: the locator was last kept at the first round, not before it.
BmStartAtFirst ==
  [lambda |-> [i \in 1 .. T |-> IF i = 1 THEN 1 ELSE 0], lambda_deg |-> 0,
   prev_lambda |-> [i \in 1 .. T |-> IF i = 2 THEN 1 ELSE 0],
   l_er |-> 0, idx_i |-> 0]

BmStart ==
  [lambda |-> [i \in 1 .. T |-> IF i = 1 THEN 1 ELSE 0], lambda_deg |-> 0,
   prev_lambda |-> [i \in 1 .. T |-> IF i = 2 THEN 1 ELSE 0],
   l_er |-> 0, idx_i |-> -1]

Syndromes ==
  /\ stage = "received"
  /\ s' = [j \in 1 .. T |-> Horner(C, alpha_to[j0[model] + j])]
  /\ IF \A j \in 1 .. T : s'[j] = 0
     THEN /\ outcome' = "no errors" /\ stage' = "done" /\ UNCHANGED reg
     ELSE /\ reg' = IF model = "xxbm" THEN RibmStart(s') ELSE BmStart
          /\ stage' = "rounds" /\ UNCHANGED outcome
  /\ UNCHANGED <<model, C, errors, i_round, root_tmp>>

-----------------------------------------------------------------------------
\* Mutant: also when the locator has just been lengthened.
LengthensAgain(d, k) == d # 0

\* A round in which the discrepancy delta[0] lengthens the locator.
Lengthens(d, k) == d # 0 /\ k >= 0

\* gribm: the polynomials move one place down, and no division is needed.
RibmRound ==
  /\ stage = "rounds" /\ model = "xxbm" /\ i_round < T
  /\ LET delta == reg.delta
         shifted == [i \in 0 .. 3 * t + 1 |->
                       IF i <= 3 * t THEN delta[i + 1] ELSE 0]
         combined == [i \in 0 .. 3 * t + 1 |->
                        IF i <= 3 * t
                        THEN gsum(gmult(reg.gamma, delta[i + 1]),
                                  gmult(delta[0], reg.ttt[i]))
                        ELSE 0]
     IN  reg' = IF Lengthens(delta[0], reg.k)
                THEN [delta |-> combined, ttt |-> shifted,
                      k |-> -reg.k - 1, gamma |-> delta[0]]
                ELSE [delta |-> combined, ttt |-> reg.ttt,
                      k |-> reg.k + 1, gamma |-> reg.gamma]
  /\ i_round' = i_round + 1
  /\ UNCHANGED <<model, C, errors, s, outcome, root_tmp, stage>>

\* The sum of term(i) over i in 1 .. n.
GSum(n, term(_)) == For(n, 0, Element, LAMBDA v, i : gsum(v, term(i)))

Degree(poly) == CHOOSE d \in DOMAIN poly :
  poly[d] # 0 /\ \A i \in DOMAIN poly : i > d => poly[i] = 0

\* The older loop: the locator is kept from before it last grew, divided by
\* the discrepancy of that round.
BmRound ==
  /\ stage = "rounds" /\ model = "gmult" /\ i_round < T
  /\ LET round == i_round + 1
         upper_bound == IF reg.lambda_deg < reg.l_er THEN reg.lambda_deg
                                                     ELSE reg.l_er
         discrep == GSum(upper_bound + 1,
                         LAMBDA i : gmult(s[round - i + 1], reg.lambda[i]))
         tau == [q \in 1 .. T |-> gsum(reg.lambda[q],
                                       gmult(discrep, reg.prev_lambda[q]))]
         grows == discrep # 0 /\ reg.l_er < round - reg.idx_i - 1
         kept == IF grows THEN [q \in 1 .. T |-> gdiv(reg.lambda[q], discrep)]
                          ELSE reg.prev_lambda
     IN  reg' = [lambda      |-> IF discrep # 0 THEN tau ELSE reg.lambda,
                 lambda_deg  |-> IF discrep # 0 THEN Degree(tau) - 1
                                                ELSE reg.lambda_deg,
                 prev_lambda |-> <<0>> \o SubSeq(kept, 1, T - 1),
                 l_er  |-> IF grows THEN round - reg.idx_i - 1 ELSE reg.l_er,
                 idx_i |-> IF grows THEN round - reg.l_er - 1 ELSE reg.idx_i]
  /\ i_round' = i_round + 1
  /\ UNCHANGED <<model, C, errors, s, outcome, root_tmp, stage>>

-----------------------------------------------------------------------------
\* What both decoders do with the roots, whose places and error values these
\* are: all of them, or nothing.  deg = 0 leaves lambda_der without a value,
\* and the script stops there.
Correct(deg, places, values) ==
  /\ IF Cardinality(DOMAIN places) # deg
     THEN outcome' = "not decoding" /\ UNCHANGED <<C, root_tmp>>
     ELSE IF deg = 0
     THEN outcome' = "undefined" /\ UNCHANGED <<C, root_tmp>>
     ELSE /\ outcome' = "decoded"
          /\ root_tmp' = {places[r] : r \in DOMAIN places}
          /\ C' = [i \in 1 .. N |->
                     IF i \in root_tmp'
                     THEN gsum(values[CHOOSE r \in DOMAIN places : places[r] = i],
                               C[i])
                     ELSE C[i]]
  /\ stage' = "done"
  /\ UNCHANGED <<model, errors, s, i_round, reg>>

\* xxbm: a root is a power of the generator that is an error's locator.
XxbmCorrect ==
  /\ stage = "rounds" /\ model = "xxbm" /\ i_round = T
  /\ LET lambda == [j \in 1 .. t + 1 |-> reg.delta[t + j - 1]]
         omega  == [j \in 1 .. t |-> reg.delta[j - 1]]
         deg == IF \A j \in 1 .. t + 1 : lambda[j] = 0 THEN -1
                ELSE Degree(lambda) - 1
         root_inv(k) == gpow(alpha_to[2], k)
         roots == {k \in 0 .. GF - 2 :
                     Horner(SubSeq(lambda, 1, deg + 1), root_inv(k)) = 0}
         lambda_der == [j \in 1 .. deg + 1 |->
                          IF j % 2 = 0 THEN lambda[j] ELSE 0]
         value ==
           [k \in roots |->
              LET x == ginv(root_inv(k))
                  numerator   == Horner(SubSeq(bitroute(omega), 1, OmegaTaps), x)
                  denominator == ginv(Horner(bitroute(lambda_der), x))
              IN  gmult(gmult(numerator, gpow(x, 2 * t + 1)), denominator)]
     IN  Correct(deg, [k \in roots |-> N - k], value)

\* gmult: a root is the number in alpha_to of the inverse of a locator.
GmultCorrect ==
  /\ stage = "rounds" /\ model = "gmult" /\ i_round = T
  /\ LET lambda == reg.lambda
         at(n, coeff(_), r) ==
           GSum(n, LAMBDA k : gmult(coeff(k), gpow(alpha_to[r], k - 1)))
         roots == {r \in 1 .. GF - 1 :
                     at(reg.lambda_deg + 1, LAMBDA k : lambda[k], r) = 0}
         omega == [i \in 1 .. T |->
                     GSum(i, LAMBDA j : gmult(s[j], lambda[i - j + 1]))]
         lambda_der(k) == IF k % 2 # 0 THEN lambda[k + 1] ELSE 0
     IN  Correct(reg.lambda_deg,
                 [r \in roots |-> IF r = 1 THEN N ELSE (r - 1) % N],
                 [r \in roots |-> gdiv(at(T, LAMBDA k : omega[k], r),
                                       at(reg.lambda_deg, lambda_der, r))])

\* The script has written its results.
Ended == stage = "done" /\ UNCHANGED rsVars

RsNext ==
  Syndromes \/ RibmRound \/ BmRound \/ XxbmCorrect \/ GmultCorrect \/ Ended

RsSpec == RsInit /\ [][RsNext]_rsVars

-----------------------------------------------------------------------------
(***************************************************************************)
(* Properties                                                              *)
(***************************************************************************)
\* The registers keep their shapes, and every symbol is an element.
RsTypeOK ==
  /\ model \in Models /\ C \in [1 .. N -> Element] /\ errors \subseteq Places
  /\ s \in [1 .. T -> Element] /\ i_round \in 0 .. T
  /\ stage \in {"received", "rounds", "done"}
  /\ stage = "received" => reg = <<>>
  /\ stage = "rounds" /\ model = "xxbm" =>
       /\ reg.delta \in [0 .. 3 * t + 1 -> Element] /\ reg.k \in -T .. T
       /\ reg.ttt \in [0 .. 3 * t + 1 -> Element] /\ reg.gamma \in Element \ {0}
  /\ stage = "rounds" /\ model = "gmult" =>
       /\ reg.lambda \in [1 .. T -> Element] /\ reg.lambda_deg \in 0 .. T - 1
       /\ reg.prev_lambda \in [1 .. T -> Element]
       /\ reg.l_er \in 0 .. T /\ reg.idx_i \in -1 .. T
  /\ root_tmp \subseteq 1 .. N
  /\ outcome \in {"", "no errors", "decoded", "not decoding", "undefined"}

\* Whether the decoder can be held to its promise for this word.
Few == Cardinality(errors) <= t

\* xxbm puts up to t overwritten symbols right wherever they are, in the parity
\* too, and touches nothing else (rs_decoder, whole).
RibmCorrects ==
  model = "xxbm" /\ stage = "done" /\ Few =>
    /\ C = Codeword["xxbm"] /\ root_tmp = errors
    /\ outcome = IF errors = {} THEN "no errors" ELSE "decoded"

\* gribm holds two polynomials in one register that moves down: after every
\* round its low end is the discrepancies, this round's and those to come, of
\* the locator at its high end, so no two ever overlap (gribm, its loop).
RibmDiscrepancy ==
  model = "xxbm" /\ stage = "rounds" /\ Few =>
    \A i \in 0 .. T - 1 - i_round :
      reg.delta[i] =
        GSum(i_round + 1, LAMBDA j : gmult(reg.delta[3 * t - i_round + j - 1],
                                           s[i_round + i - j + 2]))

\* gmult finds the overwritten places, all of them and no others.  That it puts
\* them right is not claimed: its values are those of a code whose first root
\* is the first power of the generator, and its code starts at the power zero.
BmLocates ==
  model = "gmult" /\ stage = "done" /\ Few =>
    /\ root_tmp = errors
    /\ outcome = IF errors = {} THEN "no errors" ELSE "decoded"
=============================================================================
