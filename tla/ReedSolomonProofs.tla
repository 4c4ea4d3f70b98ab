-------------------------- MODULE ReedSolomonProofs --------------------------
(***************************************************************************)
(* Proofs about ReedSolomon, for every field, message length and places    *)
(* that are overwritten: that a codeword has the roots of the code, that   *)
(* the registers of both decoders keep their types, that the decoder of    *)
(* xxbm puts up to t errors right, and that gmult finds their places.      *)
(***************************************************************************)
EXTENDS ReedSolomon, GaloisFieldProofs

LEMMA SizesAre ==
  /\ t \in Nat /\ t >= 1 /\ K \in Nat /\ T \in Nat /\ T = 2 * t /\ T >= 2 /\ K >= T
  /\ N \in Nat /\ N = T + K /\ N = GF - 1 /\ T + 1 <= N /\ GF \in Nat /\ N >= 3
BY RsAssumption, SizeIs DEF T, N

\* A function on 1 .. n is a sequence of that length.
LEMMA LengthIs ==
  ASSUME NEW n \in Nat, NEW S, NEW f \in [1 .. n -> S]
  PROVE  f \in Seq(S) /\ Len(f) = n
OBVIOUS

LEMMA BitrouteIs ==
  ASSUME NEW n \in Nat, NEW S, NEW f \in [1 .. n -> S]
  PROVE  /\ bitroute(f) = [i \in 1 .. n |-> f[n - i + 1]]
         /\ bitroute(f) \in [1 .. n -> S]
BY LengthIs DEF bitroute

\* The roots of a code, from place 0 on.
Root(j, i) == alpha_to[1 + j + i]

LEMMA RootIs ==
  \A j \in 0 .. 1 : \A i \in 0 .. T - 1 :
    Root(j, i) = Exp(j + i) /\ Root(j, i) \in Element /\ Root(j, i) # 0
<1> SUFFICES ASSUME NEW j \in 0 .. 1, NEW i \in 0 .. T - 1
             PROVE  Root(j, i) = Exp(j + i) /\ Root(j, i) \in Element /\ Root(j, i) # 0
  OBVIOUS
<1>1. j + i \in 0 .. GF - 2 /\ j + i \in Int /\ 1 + j + i = j + i + 1
  BY SizesAre
<1>2. Exp(j + i) = alpha_to[j + i + 1]
  BY <1>1, ExpWraps
<1> QED
  BY <1>1, <1>2, ExpIs DEF Root

-----------------------------------------------------------------------------
(***************************************************************************)
(* The encoder.  A polynomial of T coefficients is multiplied by x when it *)
(* moves one place up and what falls out at the top is kept apart.         *)
(***************************************************************************)
Moved(M) == [q \in 1 .. T |-> IF q < T THEN M[q + 1] ELSE 0]

LEMMA MovedValue ==
  ASSUME NEW M, Terms(M, T), NEW x \in Element, x # 0
  PROVE  /\ Terms(Moved(M), T) /\ M[1] \in Element
         /\ gmult(x, Rising(T, M, x)) = gsum(gmult(gpow(x, T), M[1]), Rising(T, Moved(M), x))
<1> DEFINE k == T + 1
           h == [q \in 1 .. k |-> IF q <= T THEN M[q] ELSE 0]
           R == Rising(T, M, x)
<1>1. T \in Nat /\ k \in Nat /\ After(T, k) /\ 0 \in Element
  BY SizesAre, ElementIs DEF After
<1>2. /\ Terms(h, k) /\ h[k] = 0 /\ h[1] = M[1]
      /\ \A q \in 1 .. T : h[q] = M[q]
  BY <1>1, SizesAre DEF Terms
<1>3. Trails(Moved(M), h, 1, T)
  BY <1>1 DEF Trails, Moved
<1>4. R \in Element
  BY <1>1, RisingType
<1> HIDE DEF k, h
<1>5. /\ Terms(Moved(M), T) /\ h[1] \in Element
      /\ Rising(k, h, x) = gsum(gmult(gpow(x, T), h[1]), Rising(T, Moved(M), x))
  BY <1>1, <1>2, <1>3, RisingLeads
<1>6. Rising(k, h, x) = gsum(h[k], gmult(x, Rising(T, h, x)))
  BY <1>1, <1>2, RisingNext
<1>7. Rising(T, h, x) = R
  BY <1>1, <1>2, RisingSame
<1> HIDE DEF R
<1>8. gmult(x, R) \in Element
  BY <1>4, MultType, Zenon
<1>9. gsum(0, gmult(x, R)) = gmult(x, R)
  BY <1>8, ZeroIs, Zenon
<1> QED
  BY <1>2, <1>5, <1>6, <1>7, <1>9 DEF R

\* A factor x + a of the generator more, as the loop of itmpM multiplies it in.
Bracket(M, a) ==
  [q \in 1 .. T |-> gsum(IF q < T THEN M[q + 1] ELSE 0, gmult(M[q], a))]

LEMMA BracketValue ==
  ASSUME NEW M, Terms(M, T), NEW a \in Element, NEW x \in Element, x # 0
  PROVE  /\ Bracket(M, a) \in [1 .. T -> Element] /\ M[1] \in Element
         /\ gsum(Rising(T, Bracket(M, a), x), gmult(gpow(x, T), M[1]))
              = gmult(gsum(x, a), Rising(T, M, x))
<1> DEFINE z == 1
           h == Moved(M)
           B == Bracket(M, a)
           R == Rising(T, M, x)
           H == Rising(T, h, x)
           L == gmult(gpow(x, T), M[1])
<1>1. T \in Nat /\ z \in Element /\ (\A v \in Element : gmult(z, v) = v) /\ T \in Int
  BY SizesAre, ElementIs, MultIs
<1>2. Terms(h, T) /\ M[1] \in Element /\ gmult(x, R) = gsum(L, H)
  BY MovedValue
<1>3. R \in Element /\ H \in Element
  BY <1>1, <1>2, RisingType
<1>4. L \in Element
  <2>1. gpow(x, T) \in Element
    BY <1>1, PowType, Zenon
  <2> QED
    BY <1>2, <2>1, MultType, Zenon
<1> HIDE DEF z
<1>5. Combines(B, T, z, h, a, M)
  <2> SUFFICES ASSUME NEW q \in 1 .. T PROVE B[q] = gsum(gmult(z, h[q]), gmult(a, M[q]))
    BY DEF Combines
  <2>1. h[q] \in Element /\ M[q] \in Element
    BY <1>2 DEF Terms
  <2>2. gmult(z, h[q]) = h[q] /\ gmult(M[q], a) = gmult(a, M[q])
    BY <1>1, <2>1, MultCommutes
  <2>3. B[q] = gsum(h[q], gmult(M[q], a))
    BY DEF Bracket, Moved
  <2> QED
    BY <2>2, <2>3, Zenon
<1>6. Terms(B, T)
  BY <1>1, <1>2, <1>5, CombinedTerms
<1>7. B \in [1 .. T -> Element]
  BY <1>6 DEF Bracket, Terms
<1>8. Rising(T, B, x) = gsum(gmult(z, H), gmult(a, R))
  <2> HIDE DEF B, h
  <2> QED
    BY <1>1, <1>2, <1>5, RisingLinear
<1>9. gmult(z, H) = H
  BY <1>1, <1>3
<1> HIDE DEF h, B, R, H, L
<1>10. gmult(a, R) \in Element /\ gmult(x, R) \in Element
  BY <1>3, MultType, Zenon
<1>11. gsum(gsum(H, gmult(a, R)), L) = gsum(gsum(H, L), gmult(a, R))
  BY <1>3, <1>4, <1>10, SumRight, Zenon
<1>12. gsum(H, L) = gsum(L, H)
  BY <1>3, <1>4, SumCommutes, Zenon
<1>13. Distributes(R, x, a) /\ gmult(gsum(x, a), R) = gsum(gmult(x, R), gmult(a, R))
  BY <1>3, MultDistributes, Zenon DEF Distributes
<1>14. gsum(Rising(T, B, x), L) = gmult(gsum(x, a), R)
  BY <1>2, <1>8, <1>9, <1>11, <1>12, <1>13
<1> QED
  BY <1>2, <1>7, <1>14 DEF B, R, L

\* The polynomial 1, whose first factor makes what the loop begins with.
Unit == [q \in 1 .. T |-> IF q = T THEN 1 ELSE 0]

\* The values the polynomial takes in the loop.
Factors(c, j) ==
  /\ c \in [0 .. T - 1 -> [1 .. T -> Element]]
  /\ c[0] = Bracket(Unit, Root(j, 0))
  /\ \A i \in 1 .. T - 1 : c[i] = Bracket(c[i - 1], Root(j, i))

LEMMA UnitIs ==
  /\ Unit \in [1 .. T -> Element] /\ Terms(Unit, T) /\ Unit[1] = 0
  /\ \A x \in Element : x # 0 => Rising(T, Unit, x) \in Element
<1>1. Unit \in [1 .. T -> Element] /\ Terms(Unit, T) /\ Unit[1] = 0
  BY SizesAre, ElementIs DEF Unit, Terms
<1> QED
  BY <1>1, SizesAre, RisingType

LEMMA FactorsExist ==
  ASSUME NEW j \in 0 .. 1
  PROVE  \E c : Factors(c, j) /\ itmpM(j) = c[T - 1]
<1> DEFINE S == [1 .. T -> Element]
           f == [i \in 1 .. T - 1 |-> [v \in S |-> Bracket(v, Root(j, i))]]
           begin == [q \in 1 .. T |-> CASE q = T - 1 -> 1
                                        [] q = T     -> alpha_to[1 + j]
                                        [] OTHER     -> 0]
<1>1. T - 1 \in Nat /\ T \in Nat
  BY SizesAre
<1>2. itmpM(j) = Loop(T - 1, begin, S, f)
  BY DEF itmpM, For, Bracket, Root
<1>3. \A i \in 0 .. T - 1 : Root(j, i) \in Element /\ Root(j, i) # 0
  BY RootIs
<1>4. \A v \in S : \A i \in 0 .. T - 1 : Bracket(v, Root(j, i)) \in S
  <2> SUFFICES ASSUME NEW v \in S, NEW i \in 0 .. T - 1 PROVE Bracket(v, Root(j, i)) \in S
    OBVIOUS
  <2>1. Terms(v, T) /\ 1 \in Element /\ 1 # 0
    BY ElementIs DEF Terms
  <2> HIDE DEF S
  <2> QED
    BY <1>3, <2>1, BracketValue DEF S
<1>5. begin = Bracket(Unit, Root(j, 0))
  <2>1. 0 \in 0 .. T - 1
    BY SizesAre
  <2> DEFINE a == Root(j, 0)
  <2>2. a \in Element /\ alpha_to[1 + j] = a
    BY <1>3, <2>1 DEF Root
  <2> HIDE DEF a
  <2>3. /\ gmult(0, a) = 0 /\ gmult(1, a) = a /\ gsum(0, 0) = 0 /\ gsum(1, 0) = 1 /\ gsum(0, a) = a
    BY <2>2, MultIs, ZeroIs, SumZero, ElementIs
  <2>4. \A q \in 1 .. T : begin[q] = Bracket(Unit, a)[q]
    BY <2>2, <2>3, SizesAre DEF Bracket, Unit
  <2>5. begin = [q \in 1 .. T |-> begin[q]] /\ Bracket(Unit, a) = [q \in 1 .. T |-> Bracket(Unit, a)[q]]
    BY DEF Bracket
  <2> QED
    BY <2>4, <2>5 DEF a
<1>6. begin \in S
  <2>1. Unit \in S /\ 0 \in 0 .. T - 1
    BY UnitIs, SizesAre
  <2> HIDE DEF S, begin
  <2> QED
    BY <1>4, <1>5, <2>1
<1>7. Body(f, T - 1, S)
  BY <1>4 DEF Body
<1> HIDE DEF f, begin
<1>8. PICK c : Rounds(c, T - 1, begin, S, f) /\ Loop(T - 1, begin, S, f) = c[T - 1]
  <2> HIDE DEF S
  <2> QED
    BY <1>1, <1>6, <1>7, LoopWalks
<1>9. Factors(c, j)
  <2>1. c \in [0 .. T - 1 -> S] /\ c[0] = Bracket(Unit, Root(j, 0))
    BY <1>5, <1>8 DEF Rounds
  <2>2. ASSUME NEW i \in 1 .. T - 1 PROVE c[i] = Bracket(c[i - 1], Root(j, i))
    <3>1. i - 1 \in 0 .. T - 1
      BY <1>1
    <3>2. c[i] = f[i][c[i - 1]] /\ c[i - 1] \in S
      <4> HIDE DEF S
      <4> QED
        BY <1>8, <2>1, <3>1 DEF Rounds
    <3> QED
      BY <3>2 DEF f
  <2> QED
    BY <2>1, <2>2 DEF Factors
<1> QED
  BY <1>2, <1>8, <1>9

\* The highest coefficient is one, and it is at the top in the end.
Leading(M, i) ==
  /\ \A q \in 1 .. T : q < T - i - 1 => M[q] = 0
  /\ i < T - 1 => M[T - i - 1] = 1

LEMMA FactorsLead ==
  ASSUME NEW j \in 0 .. 1, NEW c, Factors(c, j), NEW i \in 0 .. T - 1
  PROVE  Leading(c[i], i)
<1> DEFINE Good(k) == k < T => Leading(c[k], k)
           Z == {k \in Nat : Good(k)}
<1>1. ASSUME NEW M \in [1 .. T -> Element], NEW k \in Nat, k < T, NEW a \in Element,
             \A q \in 1 .. T : q < T - k => M[q] = 0, M[T - k] = 1
      PROVE  Leading(Bracket(M, a), k)
  <2>1. gmult(0, a) = 0 /\ gsum(0, 0) = 0 /\ gsum(1, 0) = 1
    BY ZeroIs, ElementIs
  <2>2. \A q \in 1 .. T : q < T - k - 1 => Bracket(M, a)[q] = 0
    <3> SUFFICES ASSUME NEW q \in 1 .. T, q < T - k - 1 PROVE Bracket(M, a)[q] = 0
      OBVIOUS
    <3>1. q + 1 \in 1 .. T /\ q < T - k /\ q + 1 < T - k /\ q < T
      BY <1>1, SizesAre
    <3>2. M[q] = 0 /\ M[q + 1] = 0
      BY <1>1, <3>1
    <3> QED
      BY <2>1, <3>1, <3>2 DEF Bracket
  <2>3. ASSUME k < T - 1 PROVE Bracket(M, a)[T - k - 1] = 1
    <3> DEFINE q == T - k - 1
    <3>1. q \in 1 .. T /\ q < T - k /\ q + 1 = T - k /\ q < T
      BY <1>1, <2>3, SizesAre
    <3>2. M[q] = 0 /\ M[q + 1] = 1
      BY <1>1, <3>1
    <3> HIDE DEF q
    <3>3. Bracket(M, a)[q] = 1
      BY <2>1, <3>1, <3>2 DEF Bracket
    <3> QED
      BY <3>3 DEF q
  <2> QED
    BY <2>2, <2>3 DEF Leading
<1>2. \A k \in 0 .. T - 1 : Root(j, k) \in Element /\ c[k] \in [1 .. T -> Element]
  BY RootIs DEF Factors
<1>3. Good(0)
  <2>1. /\ c[0] = Bracket(Unit, Root(j, 0)) /\ Root(j, 0) \in Element
        /\ Unit \in [1 .. T -> Element] /\ 0 < T /\ 0 \in Nat
    BY <1>2, UnitIs, SizesAre DEF Factors
  <2>2. (\A q \in 1 .. T : q < T - 0 => Unit[q] = 0) /\ Unit[T - 0] = 1
    BY SizesAre DEF Unit
  <2>3. Leading(Bracket(Unit, Root(j, 0)), 0)
    BY <1>1, <2>1, <2>2
  <2> QED
    BY <2>1, <2>3
<1>4. ASSUME NEW k \in Nat, Good(k) PROVE Good(k + 1)
  <2> SUFFICES ASSUME k + 1 < T PROVE Leading(c[k + 1], k + 1)
    OBVIOUS
  <2> DEFINE l == k + 1
             a == Root(j, l)
  <2>1. /\ l \in Nat /\ l < T /\ k < T /\ k < T - 1 /\ k \in 0 .. T - 1 /\ l \in 1 .. T - 1
        /\ l \in 0 .. T - 1 /\ l - 1 = k /\ T - k - 1 = T - l
    BY SizesAre
  <2>2. Leading(c[k], k) /\ c[k] \in [1 .. T -> Element] /\ a \in Element
    BY <1>2, <1>4, <2>1
  <2>3. c[l] = Bracket(c[k], a)
    BY <2>1 DEF Factors
  <2>4. (\A q \in 1 .. T : q < T - l => c[k][q] = 0) /\ c[k][T - l] = 1
    BY <2>1, <2>2 DEF Leading
  <2> HIDE DEF l, a
  <2>5. Leading(Bracket(c[k], a), l)
    BY <1>1, <2>1, <2>2, <2>4
  <2>6. Leading(c[l], l)
    BY <2>3, <2>5
  <2> QED
    BY <2>6 DEF l
<1> HIDE DEF Good
<1>5. 0 \in Z /\ \A k \in Nat : k \in Z => k + 1 \in Z
  BY <1>3, <1>4
<1>6. Nat \subseteq Z
  <2> HIDE DEF Z
  <2> QED
    BY <1>5, SetInduction
<1>7. Good(i)
  BY <1>6, SizesAre
<1> QED
  BY <1>7, SizesAre DEF Good

\* A factor that is zero, or a polynomial that is, makes the product zero.
LEMMA BracketRoot ==
  ASSUME NEW M, Terms(M, T), NEW a \in Element, NEW x \in Element, x # 0,
         x = a \/ Rising(T, M, x) = 0
  PROVE  gsum(Rising(T, Bracket(M, a), x), gmult(gpow(x, T), M[1])) = 0
<1>1. gsum(Rising(T, Bracket(M, a), x), gmult(gpow(x, T), M[1])) = gmult(gsum(x, a), Rising(T, M, x))
  BY BracketValue
<1> DEFINE R == Rising(T, M, x)
<1>2. R \in Element /\ gsum(x, a) \in Element
  BY SizesAre, RisingType, SumType
<1> HIDE DEF R
<1>3. x = a => gsum(x, a) = 0
  BY SumZero
<1>4. gmult(0, R) = 0 /\ gmult(gsum(x, a), 0) = 0
  BY <1>2, ZeroIs, Zenon
<1> QED
  BY <1>1, <1>3, <1>4 DEF R

\* The generator has all the roots of the code.
LEMMA GeneratorRoots ==
  ASSUME NEW j \in 0 .. 1, NEW l \in 0 .. T - 1, NEW x, x = Root(j, l)
  PROVE  /\ itmpM(j) \in [1 .. T -> Element]
         /\ Rising(T, itmpM(j), x) = gpow(x, T)
<1>1. PICK c : Factors(c, j) /\ itmpM(j) = c[T - 1]
  BY FactorsExist
<1>2. x \in Element /\ x # 0 /\ T \in Int /\ T - 1 \in 0 .. T - 1 /\ T - 2 \in 0 .. T - 1
  BY RootIs, SizesAre
<1>3. \A k \in 0 .. T - 1 :
        /\ c[k] \in [1 .. T -> Element] /\ Terms(c[k], T) /\ Root(j, k) \in Element
        /\ Rising(T, c[k], x) \in Element
  <2> SUFFICES ASSUME NEW k \in 0 .. T - 1
               PROVE  /\ c[k] \in [1 .. T -> Element] /\ Terms(c[k], T) /\ Root(j, k) \in Element
                      /\ Rising(T, c[k], x) \in Element
    OBVIOUS
  <2>1. c[k] \in [1 .. T -> Element] /\ Root(j, k) \in Element
    BY <1>1, RootIs DEF Factors
  <2>2. Terms(c[k], T)
    BY <2>1 DEF Terms
  <2> QED
    BY <1>2, <2>1, <2>2, SizesAre, RisingType
<1> DEFINE p == gpow(x, T)
           Good(k) == k < T - 1 /\ l <= k => Rising(T, c[k], x) = 0
           Z == {k \in Nat : Good(k)}
<1>4. p \in Element
  BY <1>2, PowType, Zenon
<1>5. \A v \in Element : gsum(v, gmult(p, 0)) = v /\ gmult(p, 1) = p
  <2>1. gmult(p, 0) = 0 /\ gmult(p, 1) = p
    BY <1>4, MultIs
  <2> QED
    BY <2>1, ZeroIs
<1>6. Good(0)
  <2> SUFFICES ASSUME 0 < T - 1, l <= 0 PROVE Rising(T, c[0], x) = 0
    OBVIOUS
  <2>1. 0 \in 0 .. T - 1 /\ x = Root(j, 0) /\ c[0] = Bracket(Unit, Root(j, 0))
    BY <1>1, SizesAre DEF Factors
  <2>2. Unit[1] = 0 /\ Terms(Unit, T)
    BY UnitIs
  <2>3. gsum(Rising(T, c[0], x), gmult(p, Unit[1])) = 0
    BY <1>2, <1>3, <2>1, <2>2, BracketRoot
  <2> HIDE DEF p
  <2> QED
    BY <1>3, <1>5, <2>1, <2>2, <2>3
<1>7. ASSUME NEW k \in 1 .. T - 1, Good(k - 1), l <= k
      PROVE  gsum(Rising(T, c[k], x), gmult(p, c[k - 1][1])) = 0
  <2>1. k - 1 \in 0 .. T - 1 /\ k \in 0 .. T - 1 /\ k - 1 < T - 1
    BY SizesAre
  <2>2. c[k] = Bracket(c[k - 1], Root(j, k)) /\ Terms(c[k - 1], T) /\ Root(j, k) \in Element
    BY <1>1, <1>3, <2>1 DEF Factors
  <2>3. l <= k - 1 \/ x = Root(j, k)
    BY <1>7, SizesAre
  <2>4. x = Root(j, k) \/ Rising(T, c[k - 1], x) = 0
    BY <1>7, <2>1, <2>3
  <2> QED
    BY <1>2, <2>2, <2>4, BracketRoot
<1>8. ASSUME NEW k \in Nat, Good(k) PROVE Good(k + 1)
  <2> SUFFICES ASSUME k + 1 < T - 1, l <= k + 1 PROVE Rising(T, c[k + 1], x) = 0
    OBVIOUS
  <2> DEFINE q == k + 1
  <2>1. q \in 1 .. T - 1 /\ q - 1 = k /\ k \in 0 .. T - 1 /\ q \in 0 .. T - 1 /\ 1 \in 1 .. T
        /\ 1 < T - k - 1
    BY SizesAre
  <2>2. gsum(Rising(T, c[q], x), gmult(p, c[k][1])) = 0
    BY <1>7, <1>8, <2>1
  <2>3. c[k][1] = 0
    <3>1. Leading(c[k], k)
      BY <1>1, <2>1, FactorsLead
    <3> QED
      BY <2>1, <3>1 DEF Leading
  <2> HIDE DEF p, q
  <2>4. Rising(T, c[q], x) = 0
    BY <1>3, <1>5, <2>1, <2>2, <2>3
  <2> QED
    BY <2>4 DEF q
<1>9. Nat \subseteq Z
  <2> HIDE DEF Good
  <2>1. 0 \in Z /\ \A k \in Nat : k \in Z => k + 1 \in Z
    BY <1>6, <1>8
  <2> HIDE DEF Z
  <2> QED
    BY <2>1, SetInduction
<1>10. gsum(Rising(T, c[T - 1], x), gmult(p, c[T - 2][1])) = 0
  <2> DEFINE k == T - 1
  <2>1. k \in 1 .. T - 1 /\ k - 1 \in Nat /\ k - 1 = T - 2 /\ l <= k
    BY SizesAre
  <2>2. Good(k - 1)
    <3> HIDE DEF Good, k
    <3> QED
      BY <1>9, <2>1
  <2>3. gsum(Rising(T, c[k], x), gmult(p, c[k - 1][1])) = 0
    <3> HIDE DEF Good, k, p
    <3> QED
      BY <1>7, <2>1, <2>2
  <2> QED
    BY <2>1, <2>3
<1>11. c[T - 2][1] = 1
  <2>1. Leading(c[T - 2], T - 2)
    BY <1>1, <1>2, FactorsLead
  <2>2. T - 2 < T - 1 /\ T - (T - 2) - 1 = 1
    BY SizesAre
  <2> QED
    BY <2>1, <2>2 DEF Leading
<1>12. c[T - 1] \in [1 .. T -> Element] /\ Rising(T, c[T - 1], x) \in Element
  BY <1>2, <1>3
<1> HIDE DEF p
<1>13. gsum(Rising(T, c[T - 1], x), p) = 0
  BY <1>4, <1>5, <1>10, <1>11
<1>14. Rising(T, c[T - 1], x) = p
  BY <1>4, <1>12, <1>13, SumCancels, Zenon
<1> QED
  BY <1>1, <1>12, <1>14 DEF p

\* One clock of the shift register that divides by the generator.
Clock(R, a, G) ==
  LET ifeedback == gsum(R[T], a)
  IN  [q \in 1 .. T |-> gsum(IF q = 1 THEN 0 ELSE R[q - 1], gmult(ifeedback, G[q]))]

LEMMA ClockValue ==
  ASSUME NEW R \in [1 .. T -> Element], NEW a \in Element, NEW M \in [1 .. T -> Element],
         NEW G, G = bitroute(M)
  PROVE  /\ Clock(R, a, G) \in [1 .. T -> Element]
         /\ \A x \in Element : x # 0 /\ Rising(T, M, x) = gpow(x, T) =>
              Rising(T, bitroute(Clock(R, a, G)), x)
                = gsum(gmult(x, Rising(T, bitroute(R), x)), gmult(gpow(x, T), a))
<1> DEFINE z == 1
           D == Clock(R, a, G)
           B == bitroute(R)
           F == bitroute(D)
           h == Moved(B)
           w == gsum(R[T], a)
<1>1. /\ T \in Nat /\ z \in Element /\ (\A v \in Element : gmult(z, v) = v) /\ T \in Int
      /\ 0 \in Element /\ T >= 2
  <2>1. \A v \in Element : gmult(z, v) = v
    BY MultIs
  <2> QED
    BY <2>1, SizesAre, ElementIs
<1>2. /\ B = [i \in 1 .. T |-> R[T - i + 1]] /\ B \in [1 .. T -> Element]
      /\ G = [i \in 1 .. T |-> M[T - i + 1]] /\ G \in [1 .. T -> Element]
  <2>1. T \in Nat
    BY <1>1
  <2>2. B = [i \in 1 .. T |-> R[T - i + 1]] /\ B \in [1 .. T -> Element]
    BY <2>1, BitrouteIs, Zenon
  <2>3. G = [i \in 1 .. T |-> M[T - i + 1]] /\ G \in [1 .. T -> Element]
    BY <2>1, BitrouteIs, Zenon
  <2> QED
    BY <2>2, <2>3
<1>3. B[1] = R[T] /\ R[T] \in Element
  BY <1>1, <1>2
<1>4. w \in Element
  BY <1>3, SumType
<1>5. D \in [1 .. T -> Element]
  <2> SUFFICES ASSUME NEW q \in 1 .. T
               PROVE  gsum(IF q = 1 THEN 0 ELSE R[q - 1], gmult(w, G[q])) \in Element
    BY DEF Clock
  <2> HIDE DEF w
  <2>1. G[q] \in Element /\ (IF q = 1 THEN 0 ELSE R[q - 1]) \in Element
    BY <1>1, <1>2
  <2>2. gmult(w, G[q]) \in Element
    BY <1>4, <2>1, MultType, Zenon
  <2> QED
    BY <2>1, <2>2, SumType, Zenon
<1>6. F = [i \in 1 .. T |-> D[T - i + 1]] /\ F \in [1 .. T -> Element]
  BY <1>1, <1>5, BitrouteIs
<1>7. Terms(B, T) /\ Terms(M, T) /\ Terms(F, T)
  BY <1>2, <1>6 DEF Terms
<1> HIDE DEF z
<1>8. Combines(F, T, z, h, w, M)
  <2> SUFFICES ASSUME NEW q \in 1 .. T PROVE F[q] = gsum(gmult(z, h[q]), gmult(w, M[q]))
    BY DEF Combines
  <2> DEFINE p == T - q + 1
  <2>1. p \in 1 .. T /\ T - p + 1 = q /\ (p = 1 <=> ~(q < T)) /\ T - (q + 1) + 1 = p - 1
    BY <1>1
  <2>2. F[q] = D[p] /\ G[p] = M[q]
    BY <1>2, <1>6, <2>1
  <2>3. h[q] = IF p = 1 THEN 0 ELSE R[p - 1]
    <3>1. h[q] = IF q < T THEN B[q + 1] ELSE 0
      BY DEF Moved
    <3>2. q < T => B[q + 1] = R[p - 1]
      <4>1. q < T => q + 1 \in 1 .. T
        BY <1>1
      <4> QED
        BY <1>2, <2>1, <4>1
    <3> QED
      BY <2>1, <3>1, <3>2
  <2>4. D[p] = gsum(IF p = 1 THEN 0 ELSE R[p - 1], gmult(w, G[p]))
    BY <2>1 DEF Clock
  <2>5. h[q] \in Element
    BY <1>1, <1>2 DEF Moved
  <2> HIDE DEF D, B, F, h, w, p
  <2>6. gmult(z, h[q]) = h[q]
    BY <1>1, <2>5
  <2> QED
    BY <2>2, <2>3, <2>4, <2>6
<1> HIDE DEF D
<1>9. ASSUME NEW x \in Element, x # 0, Rising(T, M, x) = gpow(x, T)
      PROVE  Rising(T, F, x) = gsum(gmult(x, Rising(T, B, x)), gmult(gpow(x, T), a))
  <2> DEFINE P == gpow(x, T)
             H == Rising(T, h, x)
             b == R[T]
  <2>1. /\ Terms(h, T) /\ gmult(x, Rising(T, B, x)) = gsum(gmult(P, B[1]), H)
    BY <1>7, <1>9, MovedValue
  <2>2. P \in Element /\ H \in Element
    BY <1>1, <1>9, <2>1, PowType, RisingType
  <2> HIDE DEF h, w
  <2>3. Rising(T, F, x) = gsum(gmult(z, H), gmult(w, Rising(T, M, x)))
    BY <1>1, <1>4, <1>7, <1>8, <2>1, RisingLinear
  <2>4. gmult(z, H) = H
    BY <1>1, <2>2
  <2>5. Rising(T, F, x) = gsum(H, gmult(w, P))
    BY <1>9, <2>3, <2>4
  <2> HIDE DEF P, H, F, B
  <2>6. gmult(P, b) \in Element /\ gmult(P, a) \in Element
    BY <1>3, <2>2, MultType, Zenon
  <2>7. Distributes(P, b, a)
    BY <1>3, <2>2, MultDistributes, Zenon
  <2>8. gmult(w, P) = gsum(gmult(b, P), gmult(a, P))
    BY <2>7, Zenon DEF Distributes, w
  <2>9. gmult(b, P) = gmult(P, b) /\ gmult(a, P) = gmult(P, a)
    BY <1>3, <2>2, MultCommutes, Zenon
  <2>10. Associates(H, gmult(P, b), gmult(P, a))
    BY <2>2, <2>6, SumOrder, Zenon
  <2>11. gsum(gsum(H, gmult(P, b)), gmult(P, a)) = gsum(H, gsum(gmult(P, b), gmult(P, a)))
    BY <2>10, Zenon DEF Associates
  <2>12. gsum(gmult(P, b), H) = gsum(H, gmult(P, b))
    BY <2>2, <2>6, SumCommutes, Zenon
  <2>13. Rising(T, F, x) = gsum(gmult(x, Rising(T, B, x)), gmult(P, a))
    BY <1>3, <2>1, <2>5, <2>8, <2>9, <2>11, <2>12
  <2> QED
    BY <2>13 DEF P
<1> QED
  BY <1>5, <1>9 DEF D

\* What the register holds after each symbol of the message.
Divided(c, A, G) ==
  /\ c \in [0 .. K -> [1 .. T -> Element]]
  /\ c[0] = [q \in 1 .. T |-> 0]
  /\ \A i \in 1 .. K : c[i] = Clock(c[i - 1], A[i], G)

LEMMA DivisionExists ==
  ASSUME NEW md \in Models, NEW A \in [1 .. K -> Element]
  PROVE  /\ itmpM(j0[md]) \in [1 .. T -> Element] /\ j0[md] \in 0 .. 1
         /\ \E c : /\ Divided(c, A, bitroute(itmpM(j0[md])))
                   /\ rs_coder(A, md) = A \o bitroute(c[K])
<1> DEFINE S == [1 .. T -> Element]
           M == itmpM(j0[md])
           G == bitroute(M)
           f == [i \in 1 .. K |-> [v \in S |-> Clock(v, A[i], G)]]
           zeros == [q \in 1 .. T |-> 0]
<1>1. j0[md] \in 0 .. 1 /\ K \in Nat /\ 0 \in 0 .. T - 1
  BY RsAssumption, SizesAre DEF j0
<1>2. M \in S
  BY <1>1, GeneratorRoots
<1>3. g[md] = G
  BY DEF g
<1>4. rs_coder(A, md) = A \o bitroute(Loop(K, zeros, S, f))
  BY <1>3 DEF rs_coder, For, Clock
<1>5. zeros \in S
  BY ElementIs
<1>6. \A v \in S : \A i \in 1 .. K : Clock(v, A[i], G) \in S
  <2> SUFFICES ASSUME NEW v \in S, NEW i \in 1 .. K PROVE Clock(v, A[i], G) \in S
    OBVIOUS
  <2>1. A[i] \in Element
    OBVIOUS
  <2> HIDE DEF M
  <2> QED
    BY <1>2, <2>1, ClockValue
<1>7. Body(f, K, S)
  <2> HIDE DEF G
  <2> QED
    BY <1>6 DEF Body
<1> HIDE DEF f, zeros, G
<1>8. PICK c : Rounds(c, K, zeros, S, f) /\ Loop(K, zeros, S, f) = c[K]
  <2> HIDE DEF S
  <2> QED
    BY <1>1, <1>5, <1>7, LoopWalks
<1>9. Divided(c, A, G)
  <2>1. c \in [0 .. K -> S] /\ c[0] = zeros
    BY <1>8 DEF Rounds
  <2>2. ASSUME NEW i \in 1 .. K PROVE c[i] = Clock(c[i - 1], A[i], G)
    <3>1. i - 1 \in 0 .. K
      BY <1>1
    <3>2. c[i] = f[i][c[i - 1]] /\ c[i - 1] \in S
      <4> HIDE DEF S
      <4> QED
        BY <1>8, <2>1, <3>1 DEF Rounds
    <3> QED
      BY <3>2 DEF f
  <2> QED
    BY <2>1, <2>2 DEF Divided, zeros
<1> QED
  BY <1>1, <1>2, <1>4, <1>8, <1>9 DEF G

\* The remainder's value at a root is that of the message, moved to its place.
LEMMA RemainderValue ==
  ASSUME NEW A \in [1 .. K -> Element], NEW M \in [1 .. T -> Element],
         NEW c, Divided(c, A, bitroute(M)), NEW x \in Element, x # 0,
         Rising(T, M, x) = gpow(x, T)
  PROVE  Rising(T, bitroute(c[K]), x) = gmult(gpow(x, T), Rising(K, A, x))
<1> DEFINE P == gpow(x, T)
           Good(k) == k <= K => Rising(T, bitroute(c[k]), x) = gmult(P, Rising(k, A, x))
           Z == {k \in Nat : Good(k)}
<1>1. K \in Nat /\ T \in Nat /\ Terms(A, K) /\ T \in Int
  BY SizesAre DEF Terms
<1>2. P \in Element
  BY <1>1, PowType, Zenon
<1>3. Good(0)
  <2> DEFINE B == bitroute(c[0])
             z == 0
  <2>1. c[0] = [q \in 1 .. T |-> 0] /\ c[0] \in [1 .. T -> Element]
    BY <1>1 DEF Divided
  <2>2. \A q \in 1 .. T : B[q] = 0
    <3>1. B = [i \in 1 .. T |-> c[0][T - i + 1]]
      <4> DEFINE R == c[0]
      <4>1. R \in [1 .. T -> Element]
        BY <2>1
      <4> HIDE DEF R
      <4>2. bitroute(R) = [i \in 1 .. T |-> R[T - i + 1]]
        BY <1>1, <4>1, BitrouteIs
      <4> QED
        BY <4>2 DEF R
    <3>2. \A q \in 1 .. T : T - q + 1 \in 1 .. T
      BY <1>1
    <3> QED
      BY <2>1, <3>1, <3>2
  <2>3. Terms(B, T) /\ \A q \in z + 1 .. T : B[q] = 0
    BY <1>1, <2>2, ElementIs DEF Terms
  <2>4. Together(z, T, T) /\ z \in Nat
    BY <1>1 DEF Together
  <2>5. Rising(z, B, x) = 0 /\ Rising(0, A, x) = 0
    BY RisingNone
  <2>6. gmult(P, 0) = 0
    BY <1>2, ZeroIs
  <2> HIDE DEF B, z
  <2>7. Rising(T, B, x) = gmult(P, Rising(z, B, x))
    BY <1>1, <2>3, <2>4, RisingPads
  <2> QED
    BY <2>5, <2>6, <2>7 DEF B
<1>4. ASSUME NEW i \in Nat, NEW k \in Nat, After(i, k), Good(i), k <= K PROVE Good(k)
  <2> DEFINE V == Rising(i, A, x)
             a == A[k]
  <2>1. /\ k \in 1 .. K /\ k - 1 = i /\ i \in 0 .. K /\ i <= K /\ Terms(A, k) /\ Terms(A, i)
        /\ a \in Element
    BY <1>1, <1>4 DEF After, Terms
  <2>2. c[k] = Clock(c[i], a, bitroute(M)) /\ c[i] \in [1 .. T -> Element]
    BY <2>1 DEF Divided
  <2>3. Rising(T, bitroute(c[k]), x) = gsum(gmult(x, Rising(T, bitroute(c[i]), x)), gmult(P, a))
    <3> HIDE DEF a
    <3> QED
      BY <2>1, <2>2, ClockValue
  <2>4. Rising(T, bitroute(c[i]), x) = gmult(P, V)
    BY <1>4, <2>1
  <2>5. Rising(k, A, x) = gsum(a, gmult(x, V))
    BY <1>4, <2>1, RisingNext
  <2>6. V \in Element
    BY <2>1, RisingType
  <2> HIDE DEF P, V, a
  <2>7. gmult(x, V) \in Element /\ gmult(P, a) \in Element
    BY <1>2, <2>1, <2>6, MultType, Zenon
  <2>8. gmult(P, gmult(x, V)) \in Element
    BY <1>2, <2>7, MultType, Zenon
  <2>9. MultLefts(x, P, V) /\ Distributes(P, a, gmult(x, V))
    BY <1>2, <2>1, <2>6, <2>7, MultLeft, MultDistributes, Zenon
  <2>10. gmult(x, gmult(P, V)) = gmult(P, gmult(x, V))
    BY <2>9, Zenon DEF MultLefts
  <2>11. gmult(P, gsum(a, gmult(x, V))) = gsum(gmult(P, a), gmult(P, gmult(x, V)))
    BY <2>9, Zenon DEF Distributes
  <2>12. gsum(gmult(P, a), gmult(P, gmult(x, V))) = gsum(gmult(P, gmult(x, V)), gmult(P, a))
    BY <2>7, <2>8, SumCommutes, Zenon
  <2> QED
    BY <2>3, <2>4, <2>5, <2>10, <2>11, <2>12
<1>5. Nat \subseteq Z
  <2> HIDE DEF Good
  <2>1. 0 \in Z
    BY <1>3
  <2>2. ASSUME NEW i \in Nat, Good(i) PROVE Good(i + 1)
    <3>1. i + 1 \in Nat /\ After(i, i + 1)
      BY DEF After
    <3>2. CASE i + 1 <= K
      BY <1>4, <2>2, <3>1, <3>2, Zenon
    <3>3. CASE ~(i + 1 <= K)
      BY <3>3 DEF Good
    <3> QED
      BY <3>2, <3>3
  <2>3. \A i \in Nat : i \in Z => i + 1 \in Z
    BY <2>2
  <2> HIDE DEF Z
  <2> QED
    BY <2>1, <2>3, SetInduction
<1>6. Good(K)
  <2> HIDE DEF Good
  <2> QED
    BY <1>1, <1>5
<1> QED
  BY <1>1, <1>6

\* What the encoder makes of any message is a word of N symbols that has all
\* the roots of the code: it is divided by the generator without a remainder,
\* and its syndromes are all zero (rs_coder, rs_decoder's first loop).
THEOREM CodewordChecks ==
  \A md \in Models : \A A \in [1 .. K -> Element] :
    /\ rs_coder(A, md) \in [1 .. N -> Element]
    /\ \A j \in 1 .. T : Horner(rs_coder(A, md), alpha_to[j0[md] + j]) = 0
<1> SUFFICES ASSUME NEW md \in Models, NEW A \in [1 .. K -> Element]
             PROVE  /\ rs_coder(A, md) \in [1 .. N -> Element]
                    /\ \A j \in 1 .. T : Horner(rs_coder(A, md), alpha_to[j0[md] + j]) = 0
  OBVIOUS
<1> DEFINE M == itmpM(j0[md])
           w == rs_coder(A, md)
<1>1. M \in [1 .. T -> Element] /\ j0[md] \in 0 .. 1
  BY DivisionExists
<1>2. PICK c : Divided(c, A, bitroute(M)) /\ w = A \o bitroute(c[K])
  BY DivisionExists
<1>3. T \in Nat /\ K \in Nat /\ N \in Nat /\ N = T + K /\ Together(K, T, N)
  BY SizesAre DEF Together
<1> DEFINE B == bitroute(c[K])
<1>4. B \in [1 .. T -> Element]
  <2>1. c[K] \in [1 .. T -> Element]
    BY <1>2, <1>3 DEF Divided
  <2> QED
    BY <1>3, <2>1, BitrouteIs
<1> HIDE DEF B
<1>5. /\ Len(A) = K /\ Len(B) = T /\ A \in Seq(Element) /\ B \in Seq(Element)
  BY <1>3, <1>4, LengthIs
<1>6. /\ w \in [1 .. N -> Element] /\ (\A i \in 1 .. K : w[i] = A[i])
      /\ \A i \in 1 .. T : B[i] = w[K + i]
  <2>1. w = A \o B
    BY <1>2 DEF B
  <2> HIDE DEF w
  <2>2. Len(w) = N /\ w \in Seq(Element)
    BY <1>3, <1>5, <2>1
  <2>3. w \in [1 .. N -> Element]
    BY <2>2
  <2>4. \A i \in 1 .. K : w[i] = A[i]
    BY <1>3, <1>5, <2>1
  <2>5. \A i \in 1 .. T : w[K + i] = B[i]
    BY <1>3, <1>5, <2>1
  <2> QED
    BY <2>3, <2>4, <2>5
<1>7. Terms(w, N) /\ Trails(B, w, K, T)
  BY <1>6 DEF Terms, Trails
<1> HIDE DEF w, M
<1>8. ASSUME NEW j \in 1 .. T PROVE Horner(w, alpha_to[j0[md] + j]) = 0
  <2> DEFINE x == alpha_to[j0[md] + j]
             l == j - 1
  <2>1. l \in 0 .. T - 1 /\ j0[md] + j = 1 + j0[md] + l
    BY <1>1, <1>3
  <2>2. x = Root(j0[md], l) /\ x \in Element /\ x # 0
    BY <1>1, <2>1, RootIs DEF Root
  <2> HIDE DEF x, l
  <2>3. Rising(T, M, x) = gpow(x, T)
    BY <1>1, <2>1, <2>2, GeneratorRoots DEF M
  <2>4. Rising(T, B, x) = gmult(gpow(x, T), Rising(K, A, x))
    BY <1>1, <1>2, <2>2, <2>3, RemainderValue DEF B
  <2>5. /\ Terms(w, K)
        /\ Rising(N, w, x) = gsum(gmult(gpow(x, T), Rising(K, w, x)), Rising(T, B, x))
    BY <1>3, <1>7, <2>2, RisingJoins
  <2>6. Rising(K, w, x) = Rising(K, A, x)
    BY <1>3, <1>6, RisingSame
  <2>7. gmult(gpow(x, T), Rising(K, w, x)) \in Element
    <3>1. Rising(K, w, x) \in Element /\ gpow(x, T) \in Element
      BY <1>3, <2>2, <2>5, RisingType, PowType
    <3> QED
      BY <3>1, MultType, Zenon
  <2>8. Rising(N, w, x) = 0
    BY <2>4, <2>5, <2>6, <2>7, SumZero
  <2>9. Horner(w, x) = Rising(Len(w), w, x) /\ Len(w) = N
    BY <1>3, <1>6, HornerIs, LengthIs
  <2> QED
    BY <2>8, <2>9 DEF x
<1> QED
  BY <1>6, <1>8 DEF w

-----------------------------------------------------------------------------
(***************************************************************************)
(* Convolutions.  The syndromes are extended to every place: there are two *)
(* ones, before the first syndrome and where the register holds its seed,  *)
(* and zeros elsewhere.  A polynomial of at most T + 1 coefficients, the   *)
(* lowest first, is multiplied with them.                                  *)
(***************************************************************************)
Extended(syn, n) ==
  IF n \in 0 .. T - 1 THEN syn[n + 1] ELSE IF n = 3 * t \/ n = -1 THEN 1 ELSE 0

Pairs(p, syn, n) == [j \in 1 .. T + 1 |-> gmult(p[j], Extended(syn, n - j + 1))]

Conv(p, syn, n) == Summed(T + 1, Pairs(p, syn, n))

Syn(syn) == syn \in [1 .. T -> Element]

Poly(p) == Terms(p, T + 1)

LEMMA ExtendedType == \A syn : Syn(syn) => \A n \in Int : Extended(syn, n) \in Element
BY SizesAre, ElementIs DEF Syn, Extended

LEMMA PairsTerms ==
  ASSUME NEW syn, Syn(syn), NEW p, Poly(p), NEW n \in Int
  PROVE  Terms(Pairs(p, syn, n), T + 1) /\ Conv(p, syn, n) \in Element /\ T + 1 \in Nat
<1>1. Terms(Pairs(p, syn, n), T + 1)
  <2> SUFFICES ASSUME NEW j \in 1 .. T + 1 PROVE Pairs(p, syn, n)[j] \in Element
    BY DEF Terms
  <2>1. p[j] \in Element /\ n - j + 1 \in Int
    BY SizesAre DEF Poly, Terms
  <2>2. Extended(syn, n - j + 1) \in Element
    BY <2>1, ExtendedType
  <2>3. gmult(p[j], Extended(syn, n - j + 1)) \in Element
    BY <2>1, <2>2, MultType, Zenon
  <2> QED
    BY <2>3 DEF Pairs
<1>2. T + 1 \in Nat
  BY SizesAre
<1> QED
  BY <1>1, <1>2, SummedType DEF Conv

\* The polynomial times x.
TimesX(p) == [j \in 1 .. T + 1 |-> IF j = 1 THEN 0 ELSE p[j - 1]]

LEMMA RaisedPoly == \A p : Poly(p) => Poly(TimesX(p))
BY ElementIs, SizesAre DEF Poly, TimesX, Terms

LEMMA ConvRaised ==
  ASSUME NEW syn, Syn(syn), NEW p, Poly(p), p[T + 1] = 0, NEW n \in Int
  PROVE  Conv(TimesX(p), syn, n + 1) = Conv(p, syn, n)
<1> DEFINE k == T + 1
           f == Pairs(TimesX(p), syn, n + 1)
           g1 == Pairs(p, syn, n)
<1>1. k \in Nat /\ T \in Nat /\ After(T, k) /\ T <= k /\ k \in 1 .. k /\ 1 \in 1 .. k
      /\ n - k + 1 \in Int /\ n + 1 \in Int /\ n + 1 - 1 + 1 \in Int
  BY SizesAre DEF After
<1>2. Terms(f, k) /\ Terms(g1, k)
  BY <1>1, PairsTerms, RaisedPoly
<1>3. f[1] = 0
  <2>1. f[1] = gmult(0, Extended(syn, n + 1 - 1 + 1))
    BY <1>1 DEF Pairs, TimesX
  <2>2. Extended(syn, n + 1 - 1 + 1) \in Element
    BY <1>1, ExtendedType
  <2>3. gmult(0, Extended(syn, n + 1 - 1 + 1)) = 0
    BY <2>2, ZeroIs, Zenon
  <2> QED
    BY <2>1, <2>3
<1>4. ASSUME NEW i \in 1 .. T PROVE g1[i] = f[i + 1]
  <2>1. /\ i + 1 \in 1 .. T + 1 /\ i + 1 # 1 /\ i \in 1 .. T + 1 /\ (i + 1) - 1 = i
        /\ (n + 1) - (i + 1) + 1 = n - i + 1
    BY SizesAre
  <2>2. f[i + 1] = gmult(TimesX(p)[i + 1], Extended(syn, (n + 1) - (i + 1) + 1))
    BY <2>1 DEF Pairs
  <2>3. TimesX(p)[i + 1] = p[i]
    BY <2>1 DEF TimesX
  <2>4. g1[i] = gmult(p[i], Extended(syn, n - i + 1))
    BY <2>1 DEF Pairs
  <2> QED
    BY <2>1, <2>2, <2>3, <2>4
<1>5. g1[k] = 0
  <2>1. Extended(syn, n - k + 1) \in Element
    BY <1>1, ExtendedType
  <2>2. gmult(0, Extended(syn, n - k + 1)) = 0
    BY <2>1, ZeroIs, Zenon
  <2> QED
    BY <1>1, <2>2 DEF Pairs
<1>6. \A i \in T + 1 .. k : g1[i] = 0
  BY <1>1, <1>5
<1> HIDE DEF k, f, g1
<1>7. Terms(g1, T) /\ Summed(k, f) = gsum(f[1], Summed(T, g1))
  BY <1>1, <1>2, <1>4, SummedFirst
<1>8. Summed(k, g1) = Summed(T, g1)
  BY <1>1, <1>2, <1>6, SummedShort
<1>9. Summed(T, g1) \in Element
  BY <1>1, <1>7, SummedType
<1>10. Summed(k, f) = Summed(k, g1)
  BY <1>3, <1>7, <1>8, <1>9, ZeroIs
<1> QED
  BY <1>10 DEF Conv, f, g1, k

\* A multiple of one polynomial and a multiple of another.
Mixed(a, p, b, q) == [j \in 1 .. T + 1 |-> gsum(gmult(a, p[j]), gmult(b, q[j]))]

LEMMA MixedPoly ==
  ASSUME NEW a \in Element, NEW p, Poly(p), NEW b \in Element, NEW q, Poly(q)
  PROVE  Poly(Mixed(a, p, b, q))
<1> SUFFICES ASSUME NEW j \in 1 .. T + 1
             PROVE  Mixed(a, p, b, q)[j] \in Element
  BY DEF Poly, Terms
<1>1. p[j] \in Element /\ q[j] \in Element
  BY DEF Poly, Terms
<1>2. gmult(a, p[j]) \in Element /\ gmult(b, q[j]) \in Element
  BY <1>1, MultType, Zenon
<1>3. gsum(gmult(a, p[j]), gmult(b, q[j])) \in Element
  BY <1>2, SumType, Zenon
<1> QED
  BY <1>3 DEF Mixed

LEMMA ConvMixed ==
  ASSUME NEW syn, Syn(syn), NEW a \in Element, NEW p, Poly(p),
         NEW b \in Element, NEW q, Poly(q), NEW n \in Int
  PROVE  Conv(Mixed(a, p, b, q), syn, n) = gsum(gmult(a, Conv(p, syn, n)), gmult(b, Conv(q, syn, n)))
<1> DEFINE k == T + 1
           f == Pairs(p, syn, n)
           g1 == Pairs(q, syn, n)
           h == Pairs(Mixed(a, p, b, q), syn, n)
<1>1. k \in Nat /\ Terms(f, k) /\ Terms(g1, k)
  BY PairsTerms
<1>2. Combines(h, k, a, f, b, g1)
  <2> SUFFICES ASSUME NEW j \in 1 .. k PROVE h[j] = gsum(gmult(a, f[j]), gmult(b, g1[j]))
    BY DEF Combines
  <2> DEFINE x == p[j]
             y == q[j]
             e == Extended(syn, n - j + 1)
  <2>1. x \in Element /\ y \in Element /\ n - j + 1 \in Int
    BY SizesAre DEF Poly, Terms
  <2>2. e \in Element
    BY <2>1, ExtendedType
  <2>3. f[j] = gmult(x, e) /\ g1[j] = gmult(y, e)
        /\ h[j] = gmult(gsum(gmult(a, x), gmult(b, y)), e)
    BY DEF Pairs, Mixed
  <2> HIDE DEF k, f, g1, h, x, y, e
  <2>4. gmult(a, x) \in Element /\ gmult(b, y) \in Element
    BY <2>1, MultType, Zenon
  <2>5. Distributes(e, gmult(a, x), gmult(b, y)) /\ Multiplies(a, x, e) /\ Multiplies(b, y, e)
    BY <2>1, <2>2, <2>4, MultDistributes, MultOrder, Zenon
  <2>6. gmult(gsum(gmult(a, x), gmult(b, y)), e) = gsum(gmult(gmult(a, x), e), gmult(gmult(b, y), e))
    BY <2>5, Zenon DEF Distributes
  <2>7. gmult(gmult(a, x), e) = gmult(a, gmult(x, e)) /\ gmult(gmult(b, y), e) = gmult(b, gmult(y, e))
    BY <2>5, Zenon DEF Multiplies
  <2> QED
    BY <2>3, <2>6, <2>7
<1> HIDE DEF k, f, g1, h
<1>3. Summed(k, h) = gsum(gmult(a, Summed(k, f)), gmult(b, Summed(k, g1)))
  BY <1>1, <1>2, SummedLinear
<1> QED
  BY <1>3 DEF Conv, k, f, g1, h

\* All coefficients from place d on are zero.
Short(p, d) == \A j \in 1 .. T + 1 : j > d => p[j] = 0

LEMMA RaisedShort == \A p : \A d \in Int : Short(p, d) /\ d <= T => Short(TimesX(p), d + 1)
<1> SUFFICES ASSUME NEW p, NEW d \in Int, Short(p, d), d <= T, NEW j \in 1 .. T + 1, j > d + 1
             PROVE  TimesX(p)[j] = 0
  BY DEF Short
<1>1. CASE j = 1
  BY <1>1 DEF TimesX
<1>2. CASE j # 1
  <2>1. j - 1 \in 1 .. T + 1 /\ j - 1 > d
    BY <1>2, SizesAre
  <2>2. p[j - 1] = 0
    BY <2>1 DEF Short
  <2> QED
    BY <1>2, <2>2 DEF TimesX
<1> QED
  BY <1>1, <1>2

LEMMA MixedShort ==
  ASSUME NEW a \in Element, NEW p, NEW b \in Element, NEW q, NEW d \in Int,
         Poly(q), Short(p, d), b = 0 \/ Short(q, d)
  PROVE  Short(Mixed(a, p, b, q), d)
<1> SUFFICES ASSUME NEW j \in 1 .. T + 1, j > d PROVE Mixed(a, p, b, q)[j] = 0
  BY DEF Short
<1>1. p[j] = 0 /\ (b = 0 \/ q[j] = 0) /\ q[j] \in Element
  BY DEF Short, Poly, Terms
<1>2. gmult(a, 0) = 0 /\ gmult(b, 0) = 0 /\ gsum(0, 0) = 0 /\ gmult(0, q[j]) = 0
  BY <1>1, ZeroIs, ElementIs
<1> QED
  BY <1>1, <1>2 DEF Mixed

\* Where every term has a factor of zero.
LEMMA ConvZero ==
  ASSUME NEW syn, Syn(syn), NEW p, Poly(p), NEW n \in Int,
         \A j \in 1 .. T + 1 : p[j] = 0 \/ Extended(syn, n - j + 1) = 0
  PROVE  Conv(p, syn, n) = 0
<1>1. ASSUME NEW j \in 1 .. T + 1 PROVE Pairs(p, syn, n)[j] = 0
  <2>1. p[j] \in Element /\ n - j + 1 \in Int
    BY SizesAre DEF Poly, Terms
  <2> DEFINE e == Extended(syn, n - j + 1)
  <2>2. e \in Element
    BY <2>1, ExtendedType
  <2>3. p[j] = 0 \/ e = 0
    OBVIOUS
  <2> HIDE DEF e
  <2>4. gmult(0, e) = 0 /\ gmult(p[j], 0) = 0
    BY <2>1, <2>2, ZeroIs, Zenon
  <2>5. gmult(p[j], e) = 0
    BY <2>3, <2>4
  <2> QED
    BY <2>5 DEF Pairs, e
<1>2. T + 1 \in Nat
  BY SizesAre
<1> QED
  BY <1>1, <1>2, SummedZero DEF Conv

LEMMA ConvHigh ==
  ASSUME NEW syn, Syn(syn), NEW p, Poly(p), NEW d \in Int, Short(p, d),
         NEW n \in Int, n > 3 * t + d - 1
  PROVE  Conv(p, syn, n) = 0
<1>1. ASSUME NEW j \in 1 .. T + 1 PROVE p[j] = 0 \/ Extended(syn, n - j + 1) = 0
  <2>1. CASE j > d
    BY <2>1 DEF Short
  <2>2. CASE ~(j > d)
    <3>1. n - j + 1 > 3 * t /\ 3 * t >= T /\ T >= 2
      BY <2>2, SizesAre
    <3> QED
      BY <3>1, SizesAre DEF Extended
  <2> QED
    BY <2>1, <2>2
<1> QED
  BY <1>1, ConvZero

\* What gribm's registers hold after r rounds: the discrepancies of a locator
\* lam of degree L at most and those of an earlier one, b, which has been
\* multiplied with a power of x.  All places below r that the locator reaches
\* have no discrepancy; b has one, gamma, just before r.
KeyEquation(lam, b, L, r, R, syn) ==
  /\ Poly(lam) /\ Poly(b) /\ L \in 0 .. r /\ R.k = r - 2 * L
  /\ R.gamma \in Element /\ R.gamma # 0 /\ lam[1] # 0
  /\ Short(lam, L + 1) /\ Short(b, r - L + 1)
  /\ \A i \in 0 .. 3 * t + 1 :
       R.delta[i] = Conv(lam, syn, r + i) /\ R.ttt[i] = Conv(b, syn, r + i)
  /\ \A n \in L .. r - 1 : Conv(lam, syn, n) = 0
  /\ \A n \in r - L .. r - 2 : Conv(b, syn, n) = 0
  /\ Conv(b, syn, r - 1) = R.gamma

Registers ==
  [delta : [0 .. 3 * t + 1 -> Element], ttt : [0 .. 3 * t + 1 -> Element],
   k : Int, gamma : Element]

\* The polynomial one.
One == [j \in 1 .. T + 1 |-> IF j = 1 THEN 1 ELSE 0]

LEMMA OneIs == Poly(One) /\ Short(One, 1) /\ One[1] = 1
BY SizesAre, ElementIs DEF One, Poly, Terms, Short

LEMMA ConvOne ==
  ASSUME NEW syn, Syn(syn), NEW n \in Int
  PROVE  Conv(One, syn, n) = Extended(syn, n)
<1> DEFINE k == T + 1
           f == Pairs(One, syn, n)
           o == 1
<1>1. k \in Nat /\ Terms(f, k) /\ o \in 1 .. k
  BY OneIs, PairsTerms, SizesAre
<1>2. \A j \in 1 .. k : j # o => f[j] = 0
  <2> SUFFICES ASSUME NEW j \in 1 .. k, j # o PROVE f[j] = 0
    OBVIOUS
  <2>1. n - j + 1 \in Int
    BY SizesAre
  <2>2. Extended(syn, n - j + 1) \in Element
    BY <2>1, ExtendedType
  <2>3. gmult(0, Extended(syn, n - j + 1)) = 0
    BY <2>2, ZeroIs, Zenon
  <2> QED
    BY <2>3 DEF Pairs, One
<1>3. f[o] = Extended(syn, n)
  <2>1. n - 1 + 1 = n /\ 1 \in 1 .. T + 1 /\ Extended(syn, n) \in Element
    BY SizesAre, ExtendedType
  <2>2. gmult(1, Extended(syn, n)) = Extended(syn, n)
    BY <2>1, MultIs, Zenon
  <2> QED
    BY <2>1, <2>2, OneIs DEF Pairs
<1> HIDE DEF k, f, o
<1>4. Summed(k, f) = f[o]
  BY <1>1, <1>2, SummedOne
<1> QED
  BY <1>3, <1>4 DEF Conv, k, f

LEMMA RibmStarts ==
  ASSUME NEW syn, Syn(syn)
  PROVE  RibmStart(syn) \in Registers /\ KeyEquation(One, One, 0, 0, RibmStart(syn), syn)
<1> DEFINE delta == [i \in 0 .. 3 * t + 1 |->
                       CASE i < T -> syn[i + 1] [] i = 3 * t -> 1 [] OTHER -> 0]
<1>1. RibmStart(syn) = [delta |-> delta, ttt |-> delta, k |-> 0, gamma |-> 1]
  BY DEF RibmStart
<1>2. \A i \in 0 .. 3 * t + 1 : delta[i] = Extended(syn, i) /\ delta[i] \in Element
  <2> SUFFICES ASSUME NEW i \in 0 .. 3 * t + 1
               PROVE  delta[i] = Extended(syn, i) /\ delta[i] \in Element
    OBVIOUS
  <2>1. i \in Int /\ i >= 0 /\ 3 * t >= T
    BY SizesAre
  <2>2. delta[i] = CASE i < T -> syn[i + 1] [] i = 3 * t -> 1 [] OTHER -> 0
    OBVIOUS
  <2>3. delta[i] = Extended(syn, i)
    BY <2>1, <2>2, SizesAre DEF Extended
  <2> HIDE DEF delta
  <2> QED
    BY <2>1, <2>3, ExtendedType
<1>3. delta \in [0 .. 3 * t + 1 -> Element]
  BY <1>2
<1> HIDE DEF delta
<1>4. RibmStart(syn) \in Registers
  BY <1>1, <1>3, ElementIs DEF Registers
<1>5. \A i \in 0 .. 3 * t + 1 : 0 + i \in Int /\ Conv(One, syn, 0 + i) = Extended(syn, i)
  BY ConvOne
<1>6. 0 - 1 \in Int /\ Conv(One, syn, 0 - 1) = 1
  <2>1. Extended(syn, 0 - 1) = 1
    BY SizesAre DEF Extended
  <2> QED
    BY <2>1, ConvOne
<1>7. /\ 0 \in 0 .. 0 /\ 0 = 0 - 2 * 0 /\ 1 # 0 /\ 1 \in Element
      /\ Short(One, 0 + 1) /\ Short(One, 0 - 0 + 1)
  BY OneIs, ElementIs
<1> QED
  BY <1>1, <1>2, <1>4, <1>5, <1>6, <1>7, OneIs DEF KeyEquation

\* What a round makes of the registers.
Stepped(R) ==
  LET shifted == [i \in 0 .. 3 * t + 1 |->
                    IF i <= 3 * t THEN R.delta[i + 1] ELSE 0]
      combined == [i \in 0 .. 3 * t + 1 |->
                     IF i <= 3 * t
                     THEN gsum(gmult(R.gamma, R.delta[i + 1]),
                               gmult(R.delta[0], R.ttt[i]))
                     ELSE 0]
  IN  IF Lengthens(R.delta[0], R.k)
      THEN [delta |-> combined, ttt |-> shifted, k |-> -R.k - 1, gamma |-> R.delta[0]]
      ELSE [delta |-> combined, ttt |-> R.ttt, k |-> R.k + 1, gamma |-> R.gamma]

\* The two registers after a round, and the polynomials they belong to.
LEMMA RegistersMove ==
  ASSUME NEW syn, Syn(syn), NEW R \in Registers, NEW lam, NEW b, NEW L, NEW r \in 0 .. T - 1,
         KeyEquation(lam, b, L, r, R, syn), NEW lam1, lam1 = Mixed(R.gamma, lam, R.delta[0], TimesX(b))
  PROVE  /\ Stepped(R) \in Registers /\ Poly(lam1)
         /\ R.delta[0] = Conv(lam, syn, r) /\ R.delta[0] \in Element
         /\ \A n \in Int : Conv(lam1, syn, n) = gsum(gmult(R.gamma, Conv(lam, syn, n)),
                                                     gmult(R.delta[0], Conv(b, syn, n - 1)))
         /\ \A i \in 0 .. 3 * t + 1 : Stepped(R).delta[i] = Conv(lam1, syn, r + 1 + i)
         /\ Lengthens(R.delta[0], R.k) =>
              /\ \A i \in 0 .. 3 * t + 1 : Stepped(R).ttt[i] = Conv(lam, syn, r + 1 + i)
              /\ Stepped(R).k = -R.k - 1 /\ Stepped(R).gamma = R.delta[0]
         /\ ~Lengthens(R.delta[0], R.k) =>
              /\ \A i \in 0 .. 3 * t + 1 : Stepped(R).ttt[i] = Conv(TimesX(b), syn, r + 1 + i)
              /\ Stepped(R).k = R.k + 1 /\ Stepped(R).gamma = R.gamma
<1> DEFINE d == R.delta[0]
           c == R.gamma
           shifted == [i \in 0 .. 3 * t + 1 |->
                         IF i <= 3 * t THEN R.delta[i + 1] ELSE 0]
           combined == [i \in 0 .. 3 * t + 1 |->
                          IF i <= 3 * t
                          THEN gsum(gmult(c, R.delta[i + 1]), gmult(d, R.ttt[i]))
                          ELSE 0]
<1>1. /\ r \in Int /\ r >= 0 /\ r <= T - 1 /\ t \in Nat /\ T = 2 * t /\ 0 \in 0 .. 3 * t + 1 /\ r + 0 = r
      /\ 0 \in Element
  BY SizesAre, ElementIs
<1>2. /\ Poly(lam) /\ Poly(b) /\ L \in Int /\ L >= 0 /\ L <= r
      /\ c \in Element /\ Short(lam, L + 1) /\ Short(b, r - L + 1)
      /\ \A i \in 0 .. 3 * t + 1 : R.delta[i] = Conv(lam, syn, r + i) /\ R.ttt[i] = Conv(b, syn, r + i)
  BY DEF KeyEquation
<1>3. /\ R.delta \in [0 .. 3 * t + 1 -> Element] /\ R.ttt \in [0 .. 3 * t + 1 -> Element] /\ R.k \in Int
      /\ R = [delta |-> R.delta, ttt |-> R.ttt, k |-> R.k, gamma |-> c]
  BY DEF Registers
<1>4. d \in Element /\ d = Conv(lam, syn, r)
  BY <1>1, <1>2, <1>3
<1>5. Poly(TimesX(b)) /\ b[T + 1] = 0
  <2>1. T + 1 \in 1 .. T + 1 /\ T + 1 > r - L + 1
    BY <1>1, <1>2
  <2> QED
    BY <1>2, <2>1, RaisedPoly DEF Short
<1>6. shifted \in [0 .. 3 * t + 1 -> Element]
  BY <1>1, <1>3
<1>7. combined \in [0 .. 3 * t + 1 -> Element]
  <2> SUFFICES ASSUME NEW i \in 0 .. 3 * t + 1, i <= 3 * t
               PROVE  gsum(gmult(c, R.delta[i + 1]), gmult(d, R.ttt[i])) \in Element
    BY <1>1
  <2>1. R.delta[i + 1] \in Element /\ R.ttt[i] \in Element
    BY <1>1, <1>3
  <2> HIDE DEF c, d
  <2>2. gmult(c, R.delta[i + 1]) \in Element /\ gmult(d, R.ttt[i]) \in Element
    BY <1>2, <1>4, <2>1, MultType, Zenon
  <2> QED
    BY <2>2, SumType, Zenon
<1>8. Stepped(R) = IF Lengthens(d, R.k)
                   THEN [delta |-> combined, ttt |-> shifted, k |-> -R.k - 1, gamma |-> d]
                   ELSE [delta |-> combined, ttt |-> R.ttt, k |-> R.k + 1, gamma |-> c]
  BY DEF Stepped
<1>9. Poly(lam1)
  BY <1>2, <1>4, <1>5, MixedPoly
<1>10. ASSUME NEW n \in Int
       PROVE  Conv(lam1, syn, n) = gsum(gmult(c, Conv(lam, syn, n)), gmult(d, Conv(b, syn, n - 1)))
  <2> HIDE DEF c, d
  <2>1. Conv(lam1, syn, n) = gsum(gmult(c, Conv(lam, syn, n)), gmult(d, Conv(TimesX(b), syn, n)))
    BY <1>2, <1>4, <1>5, ConvMixed DEF c, d
  <2>2. n - 1 \in Int /\ (n - 1) + 1 = n
    OBVIOUS
  <2>3. Conv(TimesX(b), syn, (n - 1) + 1) = Conv(b, syn, n - 1)
    BY <1>2, <1>5, <2>2, ConvRaised
  <2> QED
    BY <2>1, <2>2, <2>3
<1>11. ASSUME NEW i \in 0 .. 3 * t + 1 PROVE combined[i] = Conv(lam1, syn, r + 1 + i)
  <2>1. CASE i <= 3 * t
    <3>1. i + 1 \in 0 .. 3 * t + 1 /\ r + (i + 1) = r + 1 + i /\ r + 1 + i - 1 = r + i /\ r + 1 + i \in Int
      BY <1>1, <2>1
    <3>2. R.delta[i + 1] = Conv(lam, syn, r + 1 + i) /\ R.ttt[i] = Conv(b, syn, r + i)
      BY <1>2, <3>1
    <3>3. combined[i] = gsum(gmult(c, R.delta[i + 1]), gmult(d, R.ttt[i]))
      BY <2>1
    <3>4. Conv(lam1, syn, r + 1 + i)
            = gsum(gmult(c, Conv(lam, syn, r + 1 + i)), gmult(d, Conv(b, syn, r + i)))
      BY <1>10, <3>1
    <3> QED
      BY <3>2, <3>3, <3>4
  <2>2. CASE ~(i <= 3 * t)
    <3>1. /\ r + 1 + i \in Int /\ r + 2 \in Int /\ r + 1 + i > 3 * t + (r + 2) - 1
          /\ r - L + 1 \in Int /\ r - L + 1 <= T
      BY <1>1, <1>2, <2>2
    <3>2. Short(lam, r + 2)
      BY <1>1, <1>2 DEF Short
    <3>3. Short(TimesX(b), r + 2)
      <4>1. Short(TimesX(b), r - L + 1 + 1)
        BY <1>2, <3>1, RaisedShort
      <4> QED
        BY <1>1, <1>2, <4>1 DEF Short
    <3>4. Short(lam1, r + 2)
      BY <1>2, <1>4, <1>5, <3>1, <3>2, <3>3, MixedShort
    <3>5. Conv(lam1, syn, r + 1 + i) = 0
      BY <1>9, <3>1, <3>4, ConvHigh
    <3> QED
      BY <2>2, <3>5
  <2> QED
    BY <2>1, <2>2
<1>12. ASSUME NEW i \in 0 .. 3 * t + 1 PROVE shifted[i] = Conv(lam, syn, r + 1 + i)
  <2>1. CASE i <= 3 * t
    <3>1. i + 1 \in 0 .. 3 * t + 1 /\ r + (i + 1) = r + 1 + i
      BY <1>1, <2>1
    <3> QED
      BY <1>2, <2>1, <3>1
  <2>2. CASE ~(i <= 3 * t)
    <3>1. r + 1 + i \in Int /\ L + 1 \in Int /\ r + 1 + i > 3 * t + (L + 1) - 1
      BY <1>1, <1>2, <2>2
    <3>2. Conv(lam, syn, r + 1 + i) = 0
      BY <1>2, <3>1, ConvHigh
    <3> QED
      BY <2>2, <3>2
  <2> QED
    BY <2>1, <2>2
<1>13. ASSUME NEW i \in 0 .. 3 * t + 1 PROVE R.ttt[i] = Conv(TimesX(b), syn, r + 1 + i)
  <2>1. r + i \in Int /\ (r + i) + 1 = r + 1 + i
    BY <1>1
  <2>2. Conv(TimesX(b), syn, (r + i) + 1) = Conv(b, syn, r + i)
    BY <1>2, <1>5, <2>1, ConvRaised
  <2> QED
    BY <1>2, <2>1, <2>2
<1> HIDE DEF combined, shifted
<1>14. Stepped(R) \in Registers
  <2>1. -R.k - 1 \in Int /\ R.k + 1 \in Int
    BY <1>3
  <2> HIDE DEF c, d
  <2>2. [delta |-> combined, ttt |-> shifted, k |-> -R.k - 1, gamma |-> d] \in Registers
    BY <1>4, <1>6, <1>7, <2>1 DEF Registers
  <2>3. [delta |-> combined, ttt |-> R.ttt, k |-> R.k + 1, gamma |-> c] \in Registers
    BY <1>2, <1>3, <1>7, <2>1 DEF Registers
  <2> QED
    BY <1>8, <2>2, <2>3
<1>15. Stepped(R).delta = combined
  BY <1>8
<1>16. Lengthens(d, R.k) =>
         Stepped(R).ttt = shifted /\ Stepped(R).k = -R.k - 1 /\ Stepped(R).gamma = d
  BY <1>8
<1>17. ~Lengthens(d, R.k) =>
         Stepped(R).ttt = R.ttt /\ Stepped(R).k = R.k + 1 /\ Stepped(R).gamma = c
  BY <1>8
<1> QED
  BY <1>4, <1>9, <1>10, <1>11, <1>12, <1>13, <1>14, <1>15, <1>16, <1>17

\* The locator after a round, the earlier one that is kept, and the degree.
LambdaNext(R, lam, b) == Mixed(R.gamma, lam, R.delta[0], TimesX(b))

EarlierNext(R, lam, b) == IF Lengthens(R.delta[0], R.k) THEN lam ELSE TimesX(b)

DegreeNext(R, L, r) == IF Lengthens(R.delta[0], R.k) THEN r + 1 - L ELSE L

\* A round keeps the key equation.  It lengthens the locator only when its
\* discrepancy is not zero.
LEMMA RibmSteps ==
  ASSUME NEW syn, Syn(syn), NEW R \in Registers, NEW lam, NEW b, NEW L, NEW r \in 0 .. T - 1,
         KeyEquation(lam, b, L, r, R, syn), NEW L1, L1 = DegreeNext(R, L, r)
  PROVE  /\ Stepped(R) \in Registers
         /\ KeyEquation(LambdaNext(R, lam, b), EarlierNext(R, lam, b), L1, r + 1, Stepped(R), syn)
         /\ (L1 = L \/ (L1 = r + 1 - L /\ Conv(lam, syn, r) # 0))
<1> DEFINE d == R.delta[0]
           c == R.gamma
           lam1 == Mixed(c, lam, d, TimesX(b))
           S == Stepped(R)
           q == r + 1
<1>1. r \in Int /\ r >= 0 /\ r <= T - 1 /\ T \in Nat /\ 0 \in Element
  BY SizesAre, ElementIs
<1>2. /\ Poly(lam) /\ Poly(b) /\ L \in Int /\ L >= 0 /\ L <= r
      /\ c \in Element /\ c # 0 /\ lam[1] # 0 /\ Short(lam, L + 1) /\ Short(b, r - L + 1)
      /\ R.k = r - 2 * L /\ Conv(b, syn, r - 1) = c
      /\ (\A n \in L .. r - 1 : Conv(lam, syn, n) = 0)
      /\ \A n \in r - L .. r - 2 : Conv(b, syn, n) = 0
  BY DEF KeyEquation
<1>3. /\ S \in Registers /\ Poly(lam1) /\ d = Conv(lam, syn, r) /\ d \in Element
      /\ \A n \in Int : Conv(lam1, syn, n) = gsum(gmult(c, Conv(lam, syn, n)),
                                                  gmult(d, Conv(b, syn, n - 1)))
      /\ \A i \in 0 .. 3 * t + 1 : S.delta[i] = Conv(lam1, syn, q + i)
      /\ Lengthens(d, R.k) =>
           /\ \A i \in 0 .. 3 * t + 1 : S.ttt[i] = Conv(lam, syn, q + i)
           /\ S.k = -R.k - 1 /\ S.gamma = d
      /\ ~Lengthens(d, R.k) =>
           /\ \A i \in 0 .. 3 * t + 1 : S.ttt[i] = Conv(TimesX(b), syn, q + i)
           /\ S.k = R.k + 1 /\ S.gamma = c
  BY RegistersMove
<1>4. /\ Poly(TimesX(b)) /\ b[T + 1] = 0 /\ TimesX(b)[1] = 0 /\ 1 \in 1 .. T + 1
      /\ Short(TimesX(b), r - L + 2)
  <2>1. T + 1 \in 1 .. T + 1 /\ T + 1 > r - L + 1 /\ 1 \in 1 .. T + 1
        /\ r - L + 1 \in Int /\ r - L + 1 <= T /\ r - L + 1 + 1 = r - L + 2
    BY <1>1, <1>2
  <2>2. Short(TimesX(b), r - L + 1 + 1)
    BY <1>2, <2>1, RaisedShort
  <2>3. b[T + 1] = 0
    BY <1>2, <2>1 DEF Short
  <2>4. TimesX(b)[1] = 0
    BY <2>1 DEF TimesX
  <2> QED
    BY <1>2, <2>1, <2>2, <2>3, <2>4, RaisedPoly
<1>5. lam1[1] # 0
  <2>1. lam[1] \in Element
    BY <1>2, <1>4 DEF Poly, Terms
  <2>2. lam1[1] = gsum(gmult(c, lam[1]), gmult(d, 0))
    BY <1>4 DEF Mixed
  <2> HIDE DEF c, d, lam1
  <2>3. gmult(c, lam[1]) \in Element /\ gmult(d, 0) = 0
    BY <1>2, <1>3, <2>1, MultType, ZeroIs, Zenon
  <2>4. gmult(c, lam[1]) # 0
    BY <1>2, <2>1, MultIs
  <2> QED
    BY <2>2, <2>3, <2>4, ZeroIs
<1>6. Conv(lam1, syn, r) = 0
  <2>1. Conv(lam1, syn, r) = gsum(gmult(c, d), gmult(d, c))
    BY <1>1, <1>2, <1>3
  <2> HIDE DEF c, d, lam1
  <2>2. gmult(d, c) = gmult(c, d) /\ gmult(c, d) \in Element
    BY <1>2, <1>3, MultCommutes, MultType, Zenon
  <2> QED
    BY <2>1, <2>2, SumZero
<1>7. ASSUME NEW n \in Int, Conv(lam, syn, n) = 0, d = 0 \/ Conv(b, syn, n - 1) = 0
      PROVE  Conv(lam1, syn, n) = 0
  <2> DEFINE v == Conv(b, syn, n - 1)
  <2>1. n - 1 \in Int
    OBVIOUS
  <2>2. v \in Element
    BY <1>2, <2>1, PairsTerms
  <2>3. Conv(lam1, syn, n) = gsum(gmult(c, 0), gmult(d, v)) /\ (d = 0 \/ v = 0)
    BY <1>3, <1>7
  <2> HIDE DEF c, d, v, lam1
  <2>4. gmult(c, 0) = 0 /\ gmult(d, 0) = 0 /\ gmult(0, v) = 0 /\ gsum(0, 0) = 0
    BY <1>1, <1>2, <1>3, <2>2, ZeroIs, Zenon
  <2> QED
    BY <2>3, <2>4
<1>8. CASE Lengthens(d, R.k)
  <2>0. L1 = q - L
    BY <1>1, <1>2, <1>8 DEF DegreeNext
  <2>1. d # 0 /\ r >= 2 * L
    BY <1>1, <1>2, <1>8 DEF Lengthens
  <2>2. /\ L1 \in 0 .. q /\ S.k = q - 2 * L1 /\ L1 + 1 = r - L + 2 /\ q - L1 = L /\ q - 1 = r
        /\ L1 + 1 \in Int
    BY <1>1, <1>2, <1>3, <1>8, <2>0, <2>1
  <2>3. Short(lam1, L1 + 1)
    <3>1. Short(lam, L1 + 1)
      BY <1>1, <1>2, <2>1, <2>2 DEF Short
    <3> HIDE DEF c, d
    <3> QED
      BY <1>2, <1>3, <1>4, <2>2, <3>1, MixedShort
  <2>4. \A n \in L1 .. q - 1 : Conv(lam1, syn, n) = 0
    <3> SUFFICES ASSUME NEW n \in L1 .. q - 1, n # r PROVE Conv(lam1, syn, n) = 0
      BY <1>6
    <3>1. n \in Int /\ n \in L .. r - 1 /\ n - 1 \in r - L .. r - 2
      BY <1>1, <1>2, <2>1, <2>2
    <3>2. Conv(lam, syn, n) = 0 /\ Conv(b, syn, n - 1) = 0
      BY <1>2, <3>1
    <3> QED
      BY <1>7, <3>1, <3>2
  <2>5. (\A n \in q - L1 .. q - 2 : Conv(lam, syn, n) = 0) /\ Conv(lam, syn, q - 1) = S.gamma
    <3>1. q - 2 = r - 1
      BY <1>1
    <3> QED
      BY <1>2, <1>3, <1>8, <2>2, <3>1
  <2>6. KeyEquation(lam1, lam, L1, q, S, syn)
    <3>1. Short(lam, q - L1 + 1) /\ S.gamma \in Element /\ S.gamma # 0
      BY <1>2, <1>3, <1>8, <2>1, <2>2
    <3>2. \A i \in 0 .. 3 * t + 1 : S.delta[i] = Conv(lam1, syn, q + i) /\ S.ttt[i] = Conv(lam, syn, q + i)
      BY <1>3, <1>8
    <3>3. Poly(lam1) /\ Poly(lam) /\ lam1[1] # 0
      BY <1>2, <1>3, <1>5
    <3>4. L1 \in 0 .. q /\ S.k = q - 2 * L1
      BY <2>2
    <3> HIDE DEF q, S, lam1, c, d
    <3> QED
      BY <2>3, <2>4, <2>5, <3>1, <3>2, <3>3, <3>4 DEF KeyEquation
  <2>7. L1 = r + 1 - L /\ Conv(lam, syn, r) # 0
    <3>1. Conv(lam, syn, r) # 0
      BY <1>3, <2>1
    <3> QED
      BY <1>1, <1>2, <2>0, <3>1
  <2>8. LambdaNext(R, lam, b) = lam1 /\ EarlierNext(R, lam, b) = lam
    BY <1>8 DEF LambdaNext, EarlierNext
  <2> HIDE DEF S, lam1
  <2> QED
    BY <1>3, <2>6, <2>7, <2>8 DEF S
<1>9. CASE ~Lengthens(d, R.k)
  <2> DEFINE b1 == TimesX(b)
  <2>1. d = 0 \/ r < 2 * L
    BY <1>1, <1>2, <1>9 DEF Lengthens
  <2>2. /\ L \in 0 .. q /\ S.k = q - 2 * L /\ q - L + 1 = r - L + 2 /\ q - 1 = r /\ L + 1 \in Int
        /\ q - L = r - L + 1 /\ q - 2 = r - 1 /\ r - 1 \in Int /\ (r - 1) + 1 = r
    BY <1>1, <1>2, <1>3, <1>9
  <2>3. Short(lam1, L + 1)
    <3>1. d = 0 \/ Short(b1, L + 1)
      BY <1>1, <1>2, <1>4, <2>1 DEF Short
    <3> HIDE DEF c, d
    <3> QED
      BY <1>2, <1>3, <1>4, <2>2, <3>1, MixedShort
  <2>4. \A n \in L .. q - 1 : Conv(lam1, syn, n) = 0
    <3> SUFFICES ASSUME NEW n \in L .. q - 1, n # r PROVE Conv(lam1, syn, n) = 0
      BY <1>6
    <3>1. n \in Int /\ n \in L .. r - 1 /\ (d = 0 \/ n - 1 \in r - L .. r - 2)
      BY <1>1, <1>2, <2>1, <2>2
    <3>2. Conv(lam, syn, n) = 0 /\ (d = 0 \/ Conv(b, syn, n - 1) = 0)
      BY <1>2, <3>1
    <3> QED
      BY <1>7, <3>1, <3>2
  <2>5. \A n \in Int : Conv(b1, syn, n + 1) = Conv(b, syn, n)
    BY <1>2, <1>4, ConvRaised
  <2>6. \A n \in q - L .. q - 2 : Conv(b1, syn, n) = 0
    <3> SUFFICES ASSUME NEW n \in q - L .. q - 2 PROVE Conv(b1, syn, n) = 0
      OBVIOUS
    <3>1. n - 1 \in Int /\ (n - 1) + 1 = n /\ n - 1 \in r - L .. r - 2
      BY <1>1, <1>2, <2>2
    <3>2. Conv(b1, syn, (n - 1) + 1) = Conv(b, syn, n - 1)
      BY <2>5, <3>1
    <3> QED
      BY <1>2, <3>1, <3>2
  <2>7. Conv(b1, syn, q - 1) = S.gamma
    <3>1. Conv(b1, syn, (r - 1) + 1) = Conv(b, syn, r - 1)
      BY <2>2, <2>5
    <3> QED
      BY <1>2, <1>3, <1>9, <2>2, <3>1
  <2>8. KeyEquation(lam1, b1, L, q, S, syn)
    <3>1. Short(b1, q - L + 1) /\ S.gamma \in Element /\ S.gamma # 0
      BY <1>2, <1>3, <1>4, <1>9, <2>2
    <3>2. \A i \in 0 .. 3 * t + 1 : S.delta[i] = Conv(lam1, syn, q + i) /\ S.ttt[i] = Conv(b1, syn, q + i)
      BY <1>3, <1>9
    <3>3. Poly(b1)
      BY <1>4
    <3> HIDE DEF q, S, lam1, b1, c, d
    <3> QED
      BY <1>2, <1>3, <1>5, <2>2, <2>3, <2>4, <2>6, <2>7, <3>1, <3>2, <3>3 DEF KeyEquation
  <2>9. LambdaNext(R, lam, b) = lam1 /\ EarlierNext(R, lam, b) = b1 /\ L1 = L
    BY <1>9 DEF LambdaNext, EarlierNext, DegreeNext
  <2> HIDE DEF S, lam1, b1
  <2> QED
    BY <1>3, <2>8, <2>9 DEF S
<1> QED
  BY <1>8, <1>9

-----------------------------------------------------------------------------
(***************************************************************************)
(* Errors.  A place of the word is a power of the generator, its locator,  *)
(* and the syndromes are the power sums of the errors.                     *)
(***************************************************************************)
Locator == [i \in 1 .. N |-> Exp(N - i)]

LEMMA LocatorsAre ==
  /\ Locators(Locator, N) /\ N \in Nat
  /\ \A i \in 1 .. N : Locator[i] = Exp(N - i) /\ N - i \in 0 .. GF - 2 /\ N - i \in Int
<1>1. N \in Nat /\ N = GF - 1 /\ GF \in Nat
  BY SizesAre
<1>2. ASSUME NEW i \in 1 .. N
      PROVE  /\ Locator[i] = Exp(N - i) /\ N - i \in 0 .. GF - 2 /\ N - i \in Int
             /\ N - i + 1 \in 1 .. GF - 1 /\ Locator[i] = alpha_to[N - i + 1]
             /\ Locator[i] \in Element /\ Locator[i] # 0
  <2>1. N - i \in 0 .. GF - 2 /\ N - i \in Int /\ N - i + 1 \in 1 .. GF - 1
    BY <1>1
  <2> QED
    BY <2>1, ExpIs, ExpWraps DEF Locator
<1>3. ASSUME NEW i \in 1 .. N, NEW j \in 1 .. N, Locator[i] = Locator[j] PROVE i = j
  <2>1. N - i + 1 = N - j + 1
    BY <1>2, <1>3, PowersDiffer
  <2> QED
    BY <1>1, <2>1
<1> QED
  BY <1>1, <1>2, <1>3 DEF Locators

\* The value of a word at a power of the generator.
LEMMA SyndromeIs ==
  ASSUME NEW c, Terms(c, N), NEW j \in Int
  PROVE  Rising(N, c, Exp(j)) = PowerSum(c, Locator, N, j)
<1> DEFINE x == Exp(j)
           a == gpow(x, N - 1)
           f == [i \in 1 .. N |-> gmult(c[i], gpow(x, 1 - i))]
           h == Powered(c, Locator, N, j)
<1>1. x \in Element /\ x # 0 /\ N \in Nat /\ N - 1 \in Int
  BY ExpIs, SizesAre
<1>2. a \in Element
  BY <1>1, PowType, Zenon
<1>3. \A i \in 1 .. N : f[i] = gmult(c[i], gpow(x, 1 - i))
  OBVIOUS
<1> HIDE DEF f
<1>4. Terms(f, N) /\ Rising(N, c, x) = gmult(a, Summed(N, f))
  <2> HIDE DEF x
  <2> QED
    BY <1>1, <1>3, RisingIs
<1>5. ASSUME NEW i \in 1 .. N PROVE h[i] = gmult(a, f[i])
  <2> DEFINE u == N - i
             ci == c[i]
             w == gpow(x, 1 - i)
  <2>1. u \in Int /\ 1 - i \in Int /\ (N - 1) + (1 - i) = u /\ ci \in Element
    BY <1>1 DEF Terms
  <2>2. w \in Element
    BY <1>1, <2>1, PowType, Zenon
  <2>3. gmult(a, w) = gpow(x, u)
    <3>1. gmult(gpow(x, N - 1), gpow(x, 1 - i)) = gpow(x, (N - 1) + (1 - i))
      BY <1>1, <2>1, PowAdds
    <3> QED
      BY <2>1, <3>1
  <2>4. gpow(x, u) = gpow(Exp(u), j)
    <3>1. gpow(Exp(j), u) = Exp(j * u) /\ gpow(Exp(u), j) = Exp(u * j)
      <4> HIDE DEF u
      <4> QED
        BY <2>1, PowOfExp
    <3>2. j * u = u * j
      <4> HIDE DEF u
      <4> QED
        BY <2>1
    <3> QED
      BY <3>1, <3>2
  <2>5. h[i] = gmult(ci, gpow(Exp(u), j))
    BY LocatorsAre DEF Powered
  <2>6. f[i] = gmult(ci, w)
    BY <1>3
  <2> HIDE DEF ci, w, a, u, x, h
  <2>7. MultLefts(a, ci, w)
    BY <1>2, <2>1, <2>2, MultLeft, Zenon
  <2>8. gmult(a, gmult(ci, w)) = gmult(ci, gmult(a, w))
    BY <2>7, Zenon DEF MultLefts
  <2> QED
    BY <2>3, <2>4, <2>5, <2>6, <2>8
<1> HIDE DEF a, h
<1>6. Summed(N, h) = gmult(a, Summed(N, f))
  BY <1>1, <1>2, <1>4, <1>5, SummedScales
<1> QED
  BY <1>4, <1>6 DEF h, PowerSum

\* What has been added to the word at every place.
Added(c, w) == [i \in 1 .. N |-> gsum(c[i], w[i])]

LEMMA AddedIs ==
  ASSUME NEW c \in [1 .. N -> Element], NEW w \in [1 .. N -> Element]
  PROVE  /\ Terms(Added(c, w), N) /\ Terms(c, N) /\ Terms(w, N)
         /\ \A i \in 1 .. N : (Added(c, w)[i] = 0 <=> c[i] = w[i]) /\ gsum(Added(c, w)[i], c[i]) = w[i]
<1>1. ASSUME NEW i \in 1 .. N
      PROVE  /\ Added(c, w)[i] \in Element /\ (Added(c, w)[i] = 0 <=> c[i] = w[i])
             /\ gsum(Added(c, w)[i], c[i]) = w[i] /\ c[i] \in Element /\ w[i] \in Element
  <2> DEFINE x == c[i]
             y == w[i]
  <2>1. x \in Element /\ y \in Element /\ Added(c, w)[i] = gsum(x, y)
    BY DEF Added
  <2> HIDE DEF x, y
  <2>2. gsum(x, y) \in Element /\ gsum(x, y) = gsum(y, x)
    BY <2>1, SumType, SumCommutes, Zenon
  <2>3. gsum(x, y) = 0 <=> x = y
    BY <2>1, SumCancels, SumZero
  <2>4. gsum(gsum(y, x), x) = y
    BY <2>1, SumCancels
  <2> QED
    BY <2>1, <2>2, <2>3, <2>4 DEF x, y
<1> QED
  BY <1>1 DEF Terms

LEMMA SyndromesAre ==
  ASSUME NEW md \in Models, NEW A \in [1 .. K -> Element],
         NEW c \in [1 .. N -> Element], NEW j \in 1 .. T
  PROVE  Horner(c, alpha_to[j0[md] + j])
           = PowerSum(Added(c, rs_coder(A, md)), Locator, N, j0[md] + j - 1)
<1> DEFINE w == rs_coder(A, md)
           x == alpha_to[j0[md] + j]
           E == Added(c, w)
           l == j0[md] + j - 1
           z == 1
<1>1. w \in [1 .. N -> Element] /\ Horner(w, x) = 0
  BY CodewordChecks
<1> HIDE DEF w
<1>2. Terms(E, N) /\ Terms(c, N) /\ Terms(w, N)
  BY <1>1, AddedIs
<1>3. l \in 0 .. GF - 2 /\ l \in Int /\ l + 1 = j0[md] + j
  BY RsAssumption, SizesAre DEF j0
<1>4. x = Exp(l) /\ x \in Element
  BY <1>3, ExpWraps, ExpIs
<1>5. N \in Nat /\ Horner(c, x) = Rising(N, c, x) /\ Horner(w, x) = Rising(N, w, x)
  BY <1>1, SizesAre, HornerIs, LengthIs
<1>6. z \in Element /\ \A v \in Element : gmult(z, v) = v
  BY ElementIs, MultIs
<1> HIDE DEF z
<1>7. Combines(E, N, z, c, z, w)
  <2> SUFFICES ASSUME NEW i \in 1 .. N PROVE E[i] = gsum(gmult(z, c[i]), gmult(z, w[i]))
    BY DEF Combines
  <2>1. c[i] \in Element /\ w[i] \in Element
    BY <1>1
  <2> QED
    BY <1>6, <2>1 DEF Added
<1> HIDE DEF E, x, l
<1>8. Rising(N, E, x) = gsum(gmult(z, Rising(N, c, x)), gmult(z, Rising(N, w, x)))
  BY <1>2, <1>4, <1>5, <1>6, <1>7, RisingLinear
<1>9. Rising(N, c, x) \in Element /\ Rising(N, w, x) = 0 /\ 0 \in Element
  BY <1>1, <1>2, <1>4, <1>5, RisingType, ElementIs
<1>10. Rising(N, E, x) = Rising(N, c, x)
  BY <1>6, <1>8, <1>9, ZeroIs
<1>11. Rising(N, E, x) = PowerSum(E, Locator, N, l)
  BY <1>2, <1>3, <1>4, SyndromeIs
<1> QED
  BY <1>5, <1>10, <1>11 DEF E, x, l, w

\* No syndrome without an error, and up to T errors have some.
LEMMA SyndromesShow ==
  ASSUME NEW E, Terms(E, N), NEW k \in Int
  PROVE  /\ (\A i \in 1 .. N : E[i] = 0) => \A l \in Int : PowerSum(E, Locator, N, l) = 0
         /\ Cardinality(Support(E, N)) <= T /\ Vanishes(E, Locator, N, k, T) =>
              \A i \in 1 .. N : E[i] = 0
<1>1. ASSUME \A i \in 1 .. N : E[i] = 0, NEW l \in Int PROVE PowerSum(E, Locator, N, l) = 0
  <2>1. \A i \in 1 .. N : Powered(E, Locator, N, l)[i] = 0
    <3> SUFFICES ASSUME NEW i \in 1 .. N PROVE Powered(E, Locator, N, l)[i] = 0
      OBVIOUS
    <3>1. Locator[i] \in Element /\ Locator[i] # 0
      BY LocatorsAre DEF Locators
    <3>2. gpow(Locator[i], l) \in Element
      BY <3>1, PowType, Zenon
    <3>3. gmult(0, gpow(Locator[i], l)) = 0
      BY <3>2, ZeroIs, Zenon
    <3> QED
      BY <1>1, <3>3 DEF Powered
  <2> QED
    BY <2>1, LocatorsAre, SummedZero DEF PowerSum
<1>2. ASSUME Cardinality(Support(E, N)) <= T, Vanishes(E, Locator, N, k, T)
      PROVE  \A i \in 1 .. N : E[i] = 0
  BY <1>2, LocatorsAre, SizesAre, Vandermonde
<1> QED
  BY <1>1, <1>2

-----------------------------------------------------------------------------
(***************************************************************************)
(* The locator.  The convolution of a polynomial with the syndromes of the *)
(* errors E is a power sum of the polynomial's values at the errors.       *)
(***************************************************************************)
SyndromesOf(syn, E) ==
  Syn(syn) /\ Terms(E, N) /\ \A j \in 1 .. T : syn[j] = PowerSum(E, Locator, N, j)

Located(lam, d, E) == [i \in 1 .. N |-> gmult(E[i], Rising(d, lam, Locator[i]))]

LEMMA LocatedIs ==
  ASSUME NEW E, Terms(E, N), NEW d \in Nat, NEW lam, Terms(lam, d)
  PROVE  /\ Terms(Located(lam, d, E), N) /\ Support(Located(lam, d, E), N) \subseteq Support(E, N)
         /\ \A i \in 1 .. N : /\ Locator[i] \in Element /\ Locator[i] # 0 /\ E[i] \in Element
                              /\ Rising(d, lam, Locator[i]) \in Element
                              /\ Located(lam, d, E)[i] = gmult(E[i], Rising(d, lam, Locator[i]))
<1> SUFFICES ASSUME NEW i \in 1 .. N
             PROVE  /\ Locator[i] \in Element /\ Locator[i] # 0 /\ E[i] \in Element
                    /\ Rising(d, lam, Locator[i]) \in Element
                    /\ Located(lam, d, E)[i] = gmult(E[i], Rising(d, lam, Locator[i]))
                    /\ Located(lam, d, E)[i] \in Element
                    /\ Located(lam, d, E)[i] # 0 => E[i] # 0
  BY DEF Terms, Support
<1> DEFINE x == Locator[i]
           v == Rising(d, lam, x)
           c == E[i]
<1>1. x \in Element /\ x # 0
  BY LocatorsAre DEF Locators
<1>2. c \in Element
  BY DEF Terms
<1>3. Located(lam, d, E)[i] = gmult(c, v)
  BY DEF Located
<1> HIDE DEF x, c
<1>4. v \in Element
  BY <1>1, RisingType
<1> HIDE DEF v
<1>5. gmult(c, v) \in Element /\ gmult(0, v) = 0
  BY <1>2, <1>4, MultType, ZeroIs, Zenon
<1> QED
  BY <1>1, <1>2, <1>3, <1>4, <1>5 DEF v, x, c

LEMMA ConvIs ==
  ASSUME NEW syn, NEW E, SyndromesOf(syn, E), NEW lam, Poly(lam),
         NEW L \in Nat, NEW d \in Nat, After(L, d), Short(lam, d), NEW n \in Int, L <= n, n <= T - 1
  PROVE  /\ Terms(lam, d)
         /\ Conv(lam, syn, n) = PowerSum(Located(lam, d, E), Locator, N, n + 1 - L)
<1> DEFINE f == Pairs(lam, syn, n)
           h == Falling(lam, E, Locator, N, n + 1, d)
           u == Valued(lam, E, Locator, N, n + 1, d)
           w == Powered(Located(lam, d, E), Locator, N, n + 1 - L)
           W == n + 1 - L
<1>1. d <= T + 1 /\ d = L + 1 /\ T + 1 \in Nat /\ n + 1 \in Int /\ W \in Int /\ (n + 1) - d + 1 = W
  BY SizesAre DEF After
<1>2. Syn(syn) /\ Terms(E, N)
  BY DEF SyndromesOf
<1>3. Terms(f, T + 1) /\ Terms(lam, d)
  BY <1>1, <1>2, PairsTerms DEF Poly, Terms
<1>4. \A i \in d + 1 .. T + 1 : f[i] = 0
  <2> SUFFICES ASSUME NEW i \in d + 1 .. T + 1 PROVE f[i] = 0
    OBVIOUS
  <2>1. i \in 1 .. T + 1 /\ i > d /\ n - i + 1 \in Int
    BY <1>1
  <2>2. lam[i] = 0
    BY <2>1 DEF Short
  <2>3. Extended(syn, n - i + 1) \in Element
    BY <1>2, <2>1, ExtendedType
  <2>4. gmult(0, Extended(syn, n - i + 1)) = 0
    BY <2>3, ZeroIs, Zenon
  <2> QED
    BY <2>1, <2>2, <2>4 DEF Pairs
<1>5. Conv(lam, syn, n) = Summed(d, f)
  <2> HIDE DEF f
  <2>1. Summed(T + 1, f) = Summed(d, f)
    BY <1>1, <1>3, <1>4, SummedShort
  <2> QED
    BY <2>1 DEF Conv, f
<1>6. \A j \in 1 .. d : f[j] = h[j]
  <2> SUFFICES ASSUME NEW j \in 1 .. d PROVE f[j] = h[j]
    OBVIOUS
  <2>1. n - j + 1 \in 0 .. T - 1 /\ (n - j + 1) + 1 = (n + 1) - j + 1 /\ j \in 1 .. T + 1
        /\ (n - j + 1) + 1 \in 1 .. T
    BY <1>1, SizesAre
  <2>2. Extended(syn, n - j + 1) = PowerSum(E, Locator, N, (n + 1) - j + 1)
    BY <2>1 DEF Extended, SyndromesOf
  <2> QED
    BY <2>1, <2>2 DEF Pairs, Falling
<1> HIDE DEF f, h
<1>7. Summed(d, f) = Summed(d, h)
  BY <1>6, SummedSame
<1>8. Summed(d, h) = Summed(N, u)
  <2>1. N \in Nat /\ Locators(Locator, N) /\ n + 1 \in Int
    BY <1>1, LocatorsAre
  <2> QED
    BY <1>2, <1>3, <2>1, FallingValued DEF h
<1>9. \A i \in 1 .. N : u[i] = w[i]
  <2> SUFFICES ASSUME NEW i \in 1 .. N PROVE u[i] = w[i]
    OBVIOUS
  <2> DEFINE x == Locator[i]
             v == Rising(d, lam, x)
             c == E[i]
             p == gpow(x, W)
  <2>1. x \in Element /\ x # 0 /\ v \in Element /\ c \in Element
        /\ Located(lam, d, E)[i] = gmult(c, v)
    BY <1>2, <1>3, LocatedIs
  <2>2. u[i] = gmult(c, gmult(p, v))
    BY <1>1 DEF Valued
  <2>3. w[i] = gmult(gmult(c, v), p)
    BY <2>1 DEF Powered
  <2> HIDE DEF x, v, c, u, w, W
  <2>4. p \in Element
    BY <1>1, <2>1, PowType, Zenon
  <2> HIDE DEF p
  <2>5. gmult(p, v) = gmult(v, p)
    BY <2>1, <2>4, MultCommutes, Zenon
  <2>6. Multiplies(c, v, p)
    BY <2>1, <2>4, MultOrder, Zenon
  <2>7. gmult(gmult(c, v), p) = gmult(c, gmult(v, p))
    BY <2>6, Zenon DEF Multiplies
  <2> QED
    BY <2>2, <2>3, <2>5, <2>7
<1> HIDE DEF u, w
<1>10. Summed(N, u) = Summed(N, w)
  BY <1>9, LocatorsAre, SummedSame
<1> QED
  BY <1>3, <1>5, <1>7, <1>8, <1>10 DEF w, PowerSum

\* How many places of the word are wrong.
Wrong(E) == Cardinality(Support(E, N))

LEMMA SupportOrder ==
  ASSUME NEW c, NEW E, Support(c, N) \subseteq Support(E, N)
  PROVE  Cardinality(Support(c, N)) <= Wrong(E) /\ Wrong(E) \in Nat /\ Cardinality(Support(c, N)) \in Nat
BY LocatorsAre, SupportFinite, FS_Subset DEF Wrong

\* A locator that has no discrepancy at as many places as there are errors is
\* zero at all of them, and never has a discrepancy again.
LEMMA Annihilates ==
  ASSUME NEW syn, NEW E, SyndromesOf(syn, E), NEW lam, Poly(lam),
         NEW L \in Nat, NEW d \in Nat, After(L, d), Short(lam, d), NEW r \in Nat, L <= r, r <= T,
         \A n \in L .. r - 1 : Conv(lam, syn, n) = 0, Wrong(E) <= r - L
  PROVE  /\ \A i \in 1 .. N : Located(lam, d, E)[i] = 0
         /\ \A n \in L .. T - 1 : Conv(lam, syn, n) = 0
<1> DEFINE c == Located(lam, d, E)
           h == r - L
<1>1. Terms(E, N) /\ N \in Nat /\ Locators(Locator, N) /\ T \in Nat /\ L <= T /\ h \in Nat
      /\ r - 1 <= T - 1
  BY LocatorsAre, SizesAre DEF SyndromesOf
<1>2. CASE L = T
  <2>1. Wrong(E) \in Nat /\ Wrong(E) <= 0
    BY <1>1, <1>2, SizesAre, SupportFinite DEF Wrong
  <2>2. Terms(lam, d)
    BY <1>2, SizesAre DEF Poly, Terms, After
  <2>3. Terms(c, N) /\ Support(c, N) \subseteq Support(E, N)
    BY <1>1, <2>2, LocatedIs
  <2> HIDE DEF c
  <2>4. Cardinality(Support(c, N)) <= 0
    BY <2>1, <2>3, SupportOrder
  <2>5. Vanishes(c, Locator, N, 1, 0)
    BY DEF Vanishes
  <2>6. \A i \in 1 .. N : c[i] = 0
    BY <1>1, <2>3, <2>4, <2>5, Vandermonde
  <2> QED
    BY <1>2, <2>6, SizesAre DEF c
<1>3. CASE L < T
  <2>1. /\ Terms(lam, d)
        /\ \A n \in L .. T - 1 : Conv(lam, syn, n) = PowerSum(c, Locator, N, n + 1 - L)
    <3>1. L \in Int /\ L <= L /\ L <= T - 1
      BY <1>1, <1>3
    <3>2. Terms(lam, d)
      BY <3>1, ConvIs
    <3>3. ASSUME NEW n \in L .. T - 1 PROVE Conv(lam, syn, n) = PowerSum(c, Locator, N, n + 1 - L)
      <4>1. n \in Int /\ L <= n /\ n <= T - 1
        BY <1>1
      <4> QED
        BY <4>1, ConvIs
    <3> QED
      BY <3>2, <3>3
  <2>2. Terms(c, N) /\ Support(c, N) \subseteq Support(E, N)
    BY <1>1, <2>1, LocatedIs
  <2> HIDE DEF c
  <2>3. Cardinality(Support(c, N)) <= h
    BY <1>1, <2>2, SupportOrder
  <2>4. Vanishes(c, Locator, N, 1, h)
    <3> SUFFICES ASSUME NEW l \in 1 .. 1 + h - 1 PROVE PowerSum(c, Locator, N, l) = 0
      BY DEF Vanishes
    <3> DEFINE n == l + L - 1
    <3>1. n \in L .. r - 1 /\ n \in L .. T - 1 /\ n + 1 - L = l
      BY <1>1
    <3> HIDE DEF n
    <3> QED
      BY <2>1, <3>1
  <2> HIDE DEF h
  <2>5. \A i \in 1 .. N : c[i] = 0
    BY <1>1, <2>2, <2>3, <2>4, Vandermonde
  <2>6. \A l \in Int : PowerSum(c, Locator, N, l) = 0
    BY <2>2, <2>5, SyndromesShow
  <2>7. ASSUME NEW n \in L .. T - 1 PROVE Conv(lam, syn, n) = 0
    <3>1. n + 1 - L \in Int
      OBVIOUS
    <3> QED
      BY <2>1, <2>6, <3>1
  <2> QED
    BY <2>5, <2>7 DEF c
<1> QED
  BY <1>1, <1>2, <1>3

\* A round lengthens the locator to the number of errors at most.
LEMMA RibmLengthens ==
  ASSUME NEW syn, NEW E, SyndromesOf(syn, E), NEW R \in Registers, NEW lam, NEW b, NEW L,
         NEW r \in 0 .. T - 1, KeyEquation(lam, b, L, r, R, syn), L <= Wrong(E),
         NEW L1, L1 = DegreeNext(R, L, r)
  PROVE  /\ Stepped(R) \in Registers
         /\ KeyEquation(LambdaNext(R, lam, b), EarlierNext(R, lam, b), L1, r + 1, Stepped(R), syn)
         /\ L1 <= Wrong(E)
<1>1. Syn(syn) /\ Terms(E, N) /\ T \in Nat /\ Wrong(E) \in Nat
  BY LocatorsAre, SizesAre, SupportFinite DEF SyndromesOf, Wrong
<1>2. Stepped(R) \in Registers
  BY <1>1, RibmSteps
<1>3. /\ KeyEquation(LambdaNext(R, lam, b), EarlierNext(R, lam, b), L1, r + 1, Stepped(R), syn)
      /\ (L1 = L \/ (L1 = r + 1 - L /\ Conv(lam, syn, r) # 0))
  BY <1>1, RibmSteps
<1>4. L1 <= Wrong(E)
  <2>1. CASE L1 = L
    BY <2>1
  <2>2. CASE L1 = r + 1 - L /\ Conv(lam, syn, r) # 0
    <3> SUFFICES ASSUME Wrong(E) <= r - L PROVE FALSE
      BY <1>1, <2>2 DEF KeyEquation
    <3> DEFINE d == L + 1
    <3>1. L \in Nat /\ d \in Nat /\ After(L, d) /\ L <= r /\ r \in Nat /\ r <= T
          /\ r \in L .. T - 1
      BY <1>1 DEF KeyEquation, After
    <3>2. Poly(lam) /\ Short(lam, d) /\ \A n \in L .. r - 1 : Conv(lam, syn, n) = 0
      BY DEF KeyEquation
    <3> HIDE DEF d
    <3>3. \A n \in L .. T - 1 : Conv(lam, syn, n) = 0
      BY <3>1, <3>2, Annihilates
    <3> QED
      BY <2>2, <3>1, <3>3
  <2> QED
    BY <1>3, <2>1, <2>2
<1> QED
  BY <1>2, <1>3, <1>4

\* Above the seed the convolution of a short locator is its coefficients.
LEMMA ConvSeed ==
  ASSUME NEW syn, Syn(syn), NEW lam, Poly(lam), Short(lam, t + 1), NEW j \in 1 .. T + 1
  PROVE  Conv(lam, syn, 3 * t + j - 1) = lam[j]
<1> DEFINE n == 3 * t + j - 1
           f == Pairs(lam, syn, n)
<1>1. n \in Int /\ T + 1 \in Nat /\ T = 2 * t /\ t \in Nat /\ t >= 1 /\ lam[j] \in Element
  BY SizesAre DEF Poly, Terms
<1>2. Terms(f, T + 1)
  BY <1>1, PairsTerms
<1>3. ASSUME NEW i \in 1 .. T + 1, i # j PROVE f[i] = 0
  <2>1. lam[i] \in Element /\ Extended(syn, n - i + 1) \in Element
    BY <1>1, ExtendedType DEF Poly, Terms
  <2>2. lam[i] = 0 \/ Extended(syn, n - i + 1) = 0
    <3>1. CASE i > t + 1
      BY <3>1 DEF Short
    <3>2. CASE i <= t + 1
      <4>1. n - i + 1 \notin 0 .. T - 1 /\ n - i + 1 # 3 * t /\ n - i + 1 # -1
        BY <1>1, <1>3, <3>2
      <4> HIDE DEF n
      <4> QED
        BY <4>1 DEF Extended
    <3> QED
      BY <1>1, <3>1, <3>2
  <2>3. gmult(lam[i], Extended(syn, n - i + 1)) = 0
    BY <2>1, <2>2, ZeroIs, Zenon
  <2> QED
    BY <2>3 DEF Pairs
<1>4. f[j] = lam[j]
  <2>1. n - j + 1 = 3 * t /\ 3 * t \notin 0 .. T - 1
    BY <1>1
  <2>2. Extended(syn, n - j + 1) = 1
    BY <2>1 DEF Extended
  <2>3. gmult(lam[j], 1) = lam[j]
    BY <1>1, MultIs, Zenon
  <2> QED
    BY <2>2, <2>3 DEF Pairs
<1> HIDE DEF f
<1>5. Summed(T + 1, f) = f[j]
  BY <1>1, <1>2, <1>3, SummedOne
<1> QED
  BY <1>4, <1>5 DEF f, Conv

\* The high end of the register is the locator, the low end its discrepancies.
LEMMA RegisterHolds ==
  ASSUME NEW syn, Syn(syn), NEW R, NEW lam, NEW b, NEW L, NEW r \in 0 .. T,
         KeyEquation(lam, b, L, r, R, syn), L <= t
  PROVE  /\ Short(lam, t + 1)
         /\ \A j \in 1 .. r + 1 : R.delta[3 * t - r + j - 1] = lam[j]
         /\ \A j \in 1 .. r + 1 : 3 * t - r + j - 1 \in 0 .. 3 * t + 1 /\ j \in 1 .. T + 1
<1>1. T = 2 * t /\ t \in Nat /\ t >= 1 /\ L \in Nat /\ Poly(lam) /\ Short(lam, L + 1)
  BY SizesAre DEF KeyEquation
<1>2. Short(lam, t + 1)
  BY <1>1 DEF Short
<1>3. ASSUME NEW j \in 1 .. r + 1
      PROVE  /\ R.delta[3 * t - r + j - 1] = lam[j] /\ 3 * t - r + j - 1 \in 0 .. 3 * t + 1
             /\ j \in 1 .. T + 1
  <2> DEFINE i == 3 * t - r + j - 1
  <2>1. i \in 0 .. 3 * t + 1 /\ r + i = 3 * t + j - 1 /\ j \in 1 .. T + 1
    BY <1>1
  <2> HIDE DEF i
  <2>2. R.delta[i] = Conv(lam, syn, 3 * t + j - 1)
    BY <2>1 DEF KeyEquation
  <2> QED
    BY <1>1, <1>2, <2>1, <2>2, ConvSeed DEF i
<1> QED
  BY <1>2, <1>3

Tapped(R, syn, r, i) ==
  [j \in 1 .. r + 1 |-> gmult(R.delta[3 * t - r + j - 1], syn[r + i - j + 2])]

LEMMA DiscrepancyIs ==
  ASSUME NEW syn, Syn(syn), NEW R, NEW lam, NEW b, NEW L, NEW r \in 0 .. T,
         KeyEquation(lam, b, L, r, R, syn), L <= t, NEW i \in 0 .. T - 1 - r
  PROVE  R.delta[i] = Summed(r + 1, Tapped(R, syn, r, i))
<1> DEFINE n == r + 1
           f == Pairs(lam, syn, r + i)
           h == Tapped(R, syn, r, i)
<1>1. /\ T = 2 * t /\ t \in Nat /\ t >= 1 /\ L \in 0 .. r /\ Poly(lam) /\ Short(lam, L + 1)
      /\ n \in Nat /\ T + 1 \in Nat /\ n <= T + 1 /\ r + i \in Int /\ i \in 0 .. 3 * t + 1
  BY SizesAre DEF KeyEquation
<1>2. R.delta[i] = Conv(lam, syn, r + i)
  BY <1>1 DEF KeyEquation
<1>3. Terms(f, T + 1)
  BY <1>1, PairsTerms
<1>4. ASSUME NEW j \in n + 1 .. T + 1 PROVE f[j] = 0
  <2>1. j \in 1 .. T + 1 /\ j > L + 1 /\ r + i - j + 1 \in Int
    BY <1>1
  <2>2. lam[j] = 0
    BY <1>1, <2>1 DEF Short
  <2>3. Extended(syn, r + i - j + 1) \in Element
    BY <2>1, ExtendedType
  <2>4. gmult(0, Extended(syn, r + i - j + 1)) = 0
    BY <2>3, ZeroIs, Zenon
  <2> QED
    BY <2>1, <2>2, <2>4 DEF Pairs
<1>5. ASSUME NEW j \in 1 .. n PROVE f[j] = h[j]
  <2>1. r + i - j + 1 \in 0 .. T - 1 /\ (r + i - j + 1) + 1 = r + i - j + 2 /\ j \in 1 .. T + 1
    BY <1>1
  <2>2. Extended(syn, r + i - j + 1) = syn[r + i - j + 2]
    BY <2>1 DEF Extended
  <2>3. R.delta[3 * t - r + j - 1] = lam[j]
    BY RegisterHolds
  <2> QED
    BY <2>1, <2>2, <2>3 DEF Pairs, Tapped
<1> HIDE DEF f, h
<1>6. Summed(n, f) = Summed(n, h)
  BY <1>1, <1>5, SummedSame
<1>7. Summed(T + 1, f) = Summed(n, f)
  BY <1>1, <1>3, <1>4, SummedShort
<1> QED
  BY <1>2, <1>6, <1>7 DEF f, h, Conv

-----------------------------------------------------------------------------
(***************************************************************************)
(* Roots.  Both decoders look for them among the powers of the generator,  *)
(* and go on when there are as many as the locator's degree.               *)
(***************************************************************************)
Powers(k, f) == {i \in 0 .. GF - 2 : Rising(k, f, Exp(i)) = 0}

LEMMA PowersAreRoots ==
  ASSUME NEW n \in Nat, NEW k \in Nat, After(n, k), NEW f, Terms(f, k), f[k] # 0
  PROVE  /\ IsFiniteSet(Powers(k, f)) /\ Cardinality(Powers(k, f)) = Cardinality(Roots(k, f))
         /\ \A i \in Powers(k, f) : i \in Int /\ Exp(i) \in Roots(k, f) /\ Exp(i) \in Element /\ Exp(i) # 0
         /\ \A x \in Roots(k, f) : x # 0
<1> DEFINE P == Powers(k, f)
           R == Roots(k, f)
           M == [i \in P |-> Exp(i)]
<1>1. P \subseteq Int /\ P \subseteq 0 .. GF - 2 /\ IsFiniteSet(P)
  <2>1. IsFiniteSet(0 .. GF - 2)
    BY SizesAre, FS_Interval
  <2>2. P \subseteq 0 .. GF - 2
    BY DEF Powers
  <2> HIDE DEF P
  <2>3. IsFiniteSet(P)
    BY <2>1, <2>2, FS_Subset
  <2>4. 0 .. GF - 2 \subseteq Int
    OBVIOUS
  <2> QED
    BY <2>2, <2>3, <2>4
<1>2. \A i \in P : Exp(i) \in R /\ Exp(i) \in Element /\ Exp(i) # 0
  BY <1>1, ExpIs DEF Powers, Roots
<1>3. \A x \in R : x # 0
  <2> SUFFICES ASSUME 0 \in R PROVE FALSE
    OBVIOUS
  <2> DEFINE z == 0
  <2>1. z \in Element /\ Rising(k, f, z) = 0 /\ z = 0
    BY DEF Roots
  <2> HIDE DEF z
  <2>2. Terms(f, n) /\ f[k] \in Element
    BY TermsFewer
  <2>3. Rising(k, f, z) = gsum(f[k], gmult(z, Rising(n, f, z))) /\ Rising(n, f, z) \in Element
    BY <2>1, <2>2, RisingNext, RisingType
  <2>4. gmult(z, Rising(n, f, z)) = 0 /\ gsum(f[k], 0) = f[k]
    BY <2>1, <2>2, <2>3, ZeroIs, Zenon
  <2> QED
    BY <2>1, <2>3, <2>4
<1>4. \A x \in R : \E i \in P : Exp(i) = x
  <2> SUFFICES ASSUME NEW x \in R PROVE \E i \in P : Exp(i) = x
    OBVIOUS
  <2>1. x \in Element /\ x # 0 /\ Rising(k, f, x) = 0
    BY <1>3 DEF Roots
  <2>2. Log(x) \in 0 .. GF - 2 /\ Exp(Log(x)) = x
    BY <2>1, ElementsAre
  <2>3. Log(x) \in P
    BY <2>1, <2>2 DEF Powers
  <2> QED
    BY <2>2, <2>3
<1>5. \A i, j \in P : Exp(i) = Exp(j) => i = j
  <2> SUFFICES ASSUME NEW i \in P, NEW j \in P, Exp(i) = Exp(j) PROVE i = j
    OBVIOUS
  <2>1. Log(Exp(i)) = i % (GF - 1) /\ Log(Exp(j)) = j % (GF - 1)
    BY <1>1, LogOfExp
  <2>2. i \in 0 .. GF - 2 /\ j \in 0 .. GF - 2 /\ GF \in Nat /\ GF >= 4
    BY <1>1, SizesAre
  <2>3. i % (GF - 1) = i /\ j % (GF - 1) = j
    <3> HIDE DEF P
    <3> QED
      BY <2>2
  <2> QED
    BY <2>1, <2>3
<1> HIDE DEF P, R
<1>6. M \in [P -> R] /\ \A i \in P : M[i] = Exp(i)
  BY <1>2
<1> HIDE DEF M
<1>7. M \in Injection(P, R)
  BY <1>5, <1>6 DEF Injection, IsInjective
<1>8. M \in Surjection(P, R)
  BY <1>4, <1>6 DEF Surjection
<1>9. ExistsBijection(P, R)
  BY <1>7, <1>8 DEF ExistsBijection, Bijection
<1>10. Cardinality(R) = Cardinality(P)
  BY <1>1, <1>9, FS_Bijection
<1> QED
  BY <1>1, <1>2, <1>3, <1>10 DEF P, R

\* Where all roots are there the derivative is zero at none of them.
LEMMA DerivativeSurvives ==
  ASSUME NEW n \in Nat, NEW k \in Nat, After(n, k), NEW f, Terms(f, k), f[k] # 0,
         Cardinality(Roots(k, f)) = n, NEW z \in Roots(k, f), NEW e, EvenTerms(e, f, k)
  PROVE  /\ f[1] # 0 /\ Terms(e, k) /\ Rising(k, e, z) # 0
         /\ \A q : QuotientBy(q, f, k, z) =>
              Rising(n, q, z) # 0 /\ Rising(k, e, z) = gmult(z, Rising(n, q, z))
<1>1. z \in Element /\ z # 0 /\ Rising(k, f, z) = 0
  BY PowersAreRoots DEF Roots
<1>2. f[1] # 0
  BY RootsFull
<1>3. Terms(e, k)
  BY EvenAreTerms
<1>4. ASSUME NEW q, QuotientBy(q, f, k, z)
      PROVE  /\ Rising(n, q, z) # 0 /\ Rising(k, e, z) = gmult(z, Rising(n, q, z))
             /\ Rising(n, q, z) \in Element
  <2>1. q[k] = 0 /\ Terms(q, k) /\ Terms(q, n)
    <3>1. Terms(q, k)
      BY <1>1, <1>4, QuotientTerms
    <3>2. q[k] = 0
      BY <1>1, <1>4 DEF QuotientBy, After
    <3>3. Terms(q, n)
      BY <3>1, TermsFewer
    <3> QED
      BY <3>1, <3>2, <3>3
  <2>2. Rising(k, e, z) = gmult(z, Rising(n, q, z))
    BY <1>1, <1>4, <2>1, DerivativeIs
  <2> QED
    BY <1>1, <1>2, <1>4, <2>1, <2>2, RootsSimple, RisingType
<1>5. Rising(k, e, z) # 0
  <2> DEFINE q == [i \in 1 .. k |-> Rising(i, f, z)]
             w == Rising(n, q, z)
  <2>1. QuotientBy(q, f, k, z)
    BY DEF QuotientBy
  <2> HIDE DEF q
  <2>2. w # 0 /\ Rising(k, e, z) = gmult(z, w) /\ w \in Element
    BY <1>4, <2>1
  <2> HIDE DEF w
  <2>3. gmult(z, w) # 0
    BY <1>1, <2>2, MultIs, Zenon
  <2> QED
    BY <2>2, <2>3
<1> QED
  BY <1>2, <1>3, <1>4, <1>5

Reverses(b, e, k) == \A i \in 1 .. k : b[i] = e[k - i + 1]

\* The value of a polynomial and that of the one with its coefficients the
\* other way round, at the inverse.
LEMMA ReversedValue ==
  ASSUME NEW k \in Nat, NEW e, Terms(e, k), NEW y \in Element, y # 0,
         NEW b, Reverses(b, e, k)
  PROVE  /\ Terms(b, k) /\ ginv(y) \in Element /\ ginv(y) # 0 /\ Rising(k, b, ginv(y)) \in Element
         /\ Rising(k, e, y) = gmult(gpow(y, k - 1), Rising(k, b, ginv(y)))
<1> DEFINE x == ginv(y)
           g1 == [i \in 1 .. k |-> gmult(e[i], gpow(x, i - 1))]
           g2 == [i \in 1 .. k |-> gmult(e[i], gpow(y, 1 - i))]
<1>1. x \in Element /\ x # 0
  BY InverseIs, Zenon
<1>2. Terms(b, k) /\ \A i \in 1 .. k : b[i] = e[k - i + 1]
  BY DEF Terms, Reverses
<1>3. \A i \in 1 .. k : g1[i] = g2[i]
  <2> SUFFICES ASSUME NEW i \in 1 .. k PROVE g1[i] = g2[i]
    OBVIOUS
  <2>1. i - 1 \in Int /\ -(i - 1) = 1 - i
    OBVIOUS
  <2>2. gpow(ginv(y), i - 1) = gpow(y, -(i - 1))
    BY <2>1, PowAdds
  <2> QED
    BY <2>1, <2>2
<1>4. \A i \in 1 .. k : g1[i] = gmult(e[i], gpow(x, i - 1))
  OBVIOUS
<1>5. \A i \in 1 .. k : g2[i] = gmult(e[i], gpow(y, 1 - i))
  OBVIOUS
<1> HIDE DEF x, g1, g2
<1>6. Rising(k, b, x) = Summed(k, g1)
  BY <1>1, <1>2, <1>4, FallingIs
<1>7. Rising(k, e, y) = gmult(gpow(y, k - 1), Summed(k, g2))
  BY <1>5, RisingIs
<1>8. Summed(k, g1) = Summed(k, g2)
  BY <1>3, SummedSame
<1>9. Rising(k, b, x) \in Element
  BY <1>1, <1>2, RisingType
<1> QED
  BY <1>1, <1>2, <1>6, <1>7, <1>8, <1>9 DEF x

\* The number of coefficients up to the last that is not zero.
LEMMA DegreeIs ==
  ASSUME NEW n \in Nat, NEW f, DOMAIN f = 1 .. n, \E i \in 1 .. n : f[i] # 0
  PROVE  Degree(f) \in 1 .. n /\ f[Degree(f)] # 0 /\ \A i \in 1 .. n : i > Degree(f) => f[i] = 0
<1> DEFINE Last(d) == d \in 1 .. n /\ f[d] # 0 /\ \A i \in 1 .. n : i > d => f[i] = 0
           Good(j) == (\E i \in 1 .. n : i >= n - j /\ f[i] # 0) => \E d \in 1 .. n : Last(d)
           Z == {j \in Nat : Good(j)}
<1>1. Good(0)
  <2> SUFFICES ASSUME NEW i \in 1 .. n, i >= n - 0, f[i] # 0 PROVE \E d \in 1 .. n : Last(d)
    OBVIOUS
  <2>1. Last(i)
    OBVIOUS
  <2> QED
    BY <2>1
<1>2. ASSUME NEW j \in Nat, Good(j) PROVE Good(j + 1)
  <2> SUFFICES ASSUME NEW i \in 1 .. n, i >= n - (j + 1), f[i] # 0 PROVE \E d \in 1 .. n : Last(d)
    OBVIOUS
  <2>1. CASE \E h \in 1 .. n : h >= n - j /\ f[h] # 0
    BY <1>2, <2>1
  <2>2. CASE ~ \E h \in 1 .. n : h >= n - j /\ f[h] # 0
    <3>1. Last(i)
      BY <2>2
    <3> QED
      BY <3>1
  <2> QED
    BY <2>1, <2>2
<1> HIDE DEF Good
<1>3. 0 \in Z /\ \A j \in Nat : j \in Z => j + 1 \in Z
  BY <1>1, <1>2
<1>4. Nat \subseteq Z
  <2> HIDE DEF Z
  <2> QED
    BY <1>3, SetInduction
<1>5. \E d \in 1 .. n : Last(d)
  BY <1>4 DEF Good
<1>6. \E d \in DOMAIN f : f[d] # 0 /\ \A i \in DOMAIN f : i > d => f[i] = 0
  BY <1>5
<1> QED
  BY <1>6 DEF Degree

-----------------------------------------------------------------------------
(***************************************************************************)
(* The correction of xxbm: what it makes of a register, by its names there.*)
(***************************************************************************)
Lambda(D) == [j \in 1 .. t + 1 |-> D[t + j - 1]]

Omega(D) == [j \in 1 .. t |-> D[j - 1]]

LambdaDegree(D) == IF \A j \in 1 .. t + 1 : Lambda(D)[j] = 0 THEN -1 ELSE Degree(Lambda(D)) - 1

FoundRoots(D) ==
  {k \in 0 .. GF - 2 : Horner(SubSeq(Lambda(D), 1, LambdaDegree(D) + 1), gpow(alpha_to[2], k)) = 0}

Derived(D) == [j \in 1 .. LambdaDegree(D) + 1 |-> IF j % 2 = 0 THEN Lambda(D)[j] ELSE 0]

Numerator(D, k) == Horner(SubSeq(bitroute(Omega(D)), 1, OmegaTaps), ginv(gpow(alpha_to[2], k)))

Denominator(D, k) == Horner(bitroute(Derived(D)), ginv(gpow(alpha_to[2], k)))

ErrorValue(D, k) ==
  gmult(gmult(Numerator(D, k), gpow(ginv(gpow(alpha_to[2], k)), 2 * t + 1)), ginv(Denominator(D, k)))

ErrorPlaces(D) == [k \in FoundRoots(D) |-> N - k]
ErrorValues(D) == [k \in FoundRoots(D) |-> ErrorValue(D, k)]

Delta(D) == D \in [0 .. 3 * t + 1 -> Element]

LEMMA LambdaIs ==
  ASSUME NEW D, Delta(D)
  PROVE  /\ Lambda(D) \in [1 .. t + 1 -> Element] /\ Omega(D) \in [1 .. t -> Element]
         /\ Terms(Lambda(D), t + 1)
<1>1. t \in Nat /\ t >= 1
  BY SizesAre
<1>2. \A j \in 1 .. t + 1 : t + j - 1 \in 0 .. 3 * t + 1
  BY <1>1
<1>3. \A j \in 1 .. t : j - 1 \in 0 .. 3 * t + 1
  BY <1>1
<1> QED
  BY <1>2, <1>3 DEF Delta, Lambda, Omega, Terms

\* alpha_to[2] is the generator.
LEMMA GeneratorPowers == \A k \in Int : gpow(alpha_to[2], k) = Exp(k)
<1> SUFFICES ASSUME NEW k \in Int PROVE gpow(alpha_to[2], k) = Exp(k)
  OBVIOUS
<1>1. alpha_to[2] = Exp(1)
  BY SizesAre, ExpWraps
<1>2. gpow(Exp(1), k) = Exp(1 * k) /\ 1 * k = k
  BY PowOfExp
<1> QED
  BY <1>1, <1>2

\* The degree of a locator that is not zero, and the powers that are roots.
LEMMA FoundRootsAre ==
  ASSUME NEW D, Delta(D), LambdaDegree(D) # -1
  PROVE  /\ LambdaDegree(D) \in 0 .. t /\ LambdaDegree(D) + 1 \in 1 .. t + 1
         /\ After(LambdaDegree(D), LambdaDegree(D) + 1)
         /\ Terms(Lambda(D), LambdaDegree(D) + 1) /\ Lambda(D)[LambdaDegree(D) + 1] # 0
         /\ \A j \in 1 .. t + 1 : j > LambdaDegree(D) + 1 => Lambda(D)[j] = 0
         /\ FoundRoots(D) = Powers(LambdaDegree(D) + 1, Lambda(D))
<1> DEFINE f == Lambda(D)
           d == Degree(f)
           h == SubSeq(f, 1, d)
<1>1. f \in [1 .. t + 1 -> Element] /\ Terms(f, t + 1) /\ t \in Nat
  BY LambdaIs, SizesAre
<1>2. LambdaDegree(D) = d - 1 /\ \E j \in 1 .. t + 1 : f[j] # 0
  BY DEF LambdaDegree
<1>3. d \in 1 .. t + 1 /\ f[d] # 0 /\ \A j \in 1 .. t + 1 : j > d => f[j] = 0
  <2> HIDE DEF f
  <2> QED
    BY <1>1, <1>2, DegreeIs
<1> HIDE DEF f, d
<1>4. (d - 1) + 1 = d /\ d - 1 \in 0 .. t /\ After(d - 1, d) /\ d \in Nat
  BY <1>1, <1>3 DEF After
<1>5. Terms(f, d)
  BY <1>1, <1>3 DEF Terms
<1>6. Len(h) = d /\ \A i \in 1 .. d : h[i] = f[i]
  <2>1. f \in Seq(Element) /\ Len(f) = t + 1
    BY <1>1, LengthIs
  <2> QED
    BY <1>1, <1>3, <2>1
<1> HIDE DEF h
<1>7. ASSUME NEW x PROVE Horner(h, x) = Rising(d, f, x)
  <2>1. Rising(d, h, x) = Rising(d, f, x)
    BY <1>4, <1>6, RisingSame
  <2> QED
    BY <1>6, <2>1, HornerIs
<1>8. FoundRoots(D) = Powers(d, f)
  <2>1. FoundRoots(D) = {k \in 0 .. GF - 2 : Horner(h, gpow(alpha_to[2], k)) = 0}
    BY <1>2, <1>4 DEF FoundRoots, h, f
  <2>2. \A k \in 0 .. GF - 2 : gpow(alpha_to[2], k) = Exp(k)
    BY GeneratorPowers
  <2> QED
    BY <1>7, <2>1, <2>2 DEF Powers
<1> QED
  BY <1>2, <1>3, <1>4, <1>5, <1>8 DEF f

\* The decoder divides by nothing that is zero: it stops before unless there
\* are as many roots as the locator's degree.
LEMMA ErrorValueIs ==
  ASSUME NEW D, Delta(D), t = OmegaTaps, Cardinality(FoundRoots(D)) = LambdaDegree(D),
         NEW k \in FoundRoots(D), NEW y, y = Exp(k), NEW d, d = LambdaDegree(D) + 1
  PROVE  /\ LambdaDegree(D) \in 0 .. t /\ After(LambdaDegree(D), d) /\ d \in 1 .. t + 1
         /\ k \in 0 .. GF - 2 /\ k \in Int
         /\ y \in Element /\ y # 0 /\ y \in Roots(d, Lambda(D))
         /\ Terms(Lambda(D), d) /\ Lambda(D)[d] # 0 /\ EvenTerms(Derived(D), Lambda(D), d)
         /\ Cardinality(Roots(d, Lambda(D))) = LambdaDegree(D)
         /\ Numerator(D, k) = Rising(t, bitroute(Omega(D)), ginv(y))
         /\ bitroute(Omega(D)) = [i \in 1 .. t |-> Omega(D)[t - i + 1]]
         /\ Numerator(D, k) \in Element /\ Denominator(D, k) \in Element /\ Denominator(D, k) # 0
         /\ gmult(gpow(y, d - 1), Denominator(D, k)) = Rising(d, Derived(D), y)
         /\ ErrorValue(D, k) = gmult(gmult(Numerator(D, k), gpow(ginv(y), 2 * t + 1)),
                                     ginv(Denominator(D, k)))
         /\ ErrorValue(D, k) \in Element
<1> DEFINE n == LambdaDegree(D)
           f == Lambda(D)
           e == Derived(D)
           x == ginv(y)
           om == bitroute(Omega(D))
<1>1. k \in 0 .. GF - 2 /\ k \in Int /\ t \in Nat /\ t >= 1
  BY SizesAre DEF FoundRoots
<1>2. y \in Element /\ y # 0 /\ gpow(alpha_to[2], k) = y
  BY <1>1, ExpIs, GeneratorPowers
<1>3. n # -1
  <2>1. FoundRoots(D) \in SUBSET (0 .. GF - 2) /\ IsFiniteSet(0 .. GF - 2)
    BY SizesAre, FS_Interval DEF FoundRoots
  <2>2. IsFiniteSet(FoundRoots(D))
    BY <2>1, FS_Subset
  <2>3. Cardinality(FoundRoots(D)) \in Nat
    BY <2>2, FS_CardinalityType
  <2> QED
    BY <2>3
<1>4. /\ n \in 0 .. t /\ d \in 1 .. t + 1 /\ After(n, d) /\ Terms(f, d) /\ f[d] # 0 /\ d = n + 1
      /\ FoundRoots(D) = Powers(d, f)
  BY <1>3, FoundRootsAre
<1>5. EvenTerms(e, f, d)
  BY <1>4 DEF EvenTerms, Derived
<1>6. Cardinality(Roots(d, f)) = n /\ y \in Roots(d, f)
  <2>1. n \in Nat /\ d \in Nat
    BY <1>1, <1>4
  <2> HIDE DEF n, f
  <2>2. Cardinality(Powers(d, f)) = Cardinality(Roots(d, f)) /\ \A i \in Powers(d, f) : Exp(i) \in Roots(d, f)
    BY <1>4, <2>1, PowersAreRoots
  <2> QED
    BY <1>4, <2>2 DEF n
<1>7. Terms(e, d) /\ Rising(d, e, y) # 0
  <2>1. n \in Nat /\ d \in Nat
    BY <1>1, <1>4
  <2> HIDE DEF n, f, e
  <2> QED
    BY <1>4, <1>5, <1>6, <2>1, DerivativeSurvives
<1>8. /\ x \in Element /\ x # 0
      /\ Denominator(D, k) \in Element /\ Denominator(D, k) # 0
      /\ gmult(gpow(y, d - 1), Denominator(D, k)) = Rising(d, e, y)
  <2> DEFINE b == bitroute(e)
             w == Rising(d, b, x)
             a == gpow(y, d - 1)
  <2>1. d \in Nat /\ d - 1 \in Int /\ e \in [1 .. d -> Element]
    BY <1>4, <1>7 DEF Terms, Derived
  <2>2. b = [i \in 1 .. d |-> e[d - i + 1]] /\ b \in [1 .. d -> Element]
    <3> HIDE DEF e
    <3> QED
      BY <2>1, BitrouteIs
  <2>3. Denominator(D, k) = w
    <3>1. Len(b) = d
      <4> HIDE DEF b
      <4> QED
        BY <2>1, <2>2, LengthIs
    <3>2. Denominator(D, k) = Horner(b, x)
      BY <1>2 DEF Denominator
    <3> QED
      BY <3>1, <3>2, HornerIs
  <2> HIDE DEF e
  <2>4. /\ ginv(y) \in Element /\ ginv(y) # 0 /\ Rising(d, b, ginv(y)) \in Element
        /\ Rising(d, e, y) = gmult(gpow(y, d - 1), Rising(d, b, ginv(y)))
    <3>1. Reverses(b, e, d)
      BY <2>2 DEF Reverses
    <3> HIDE DEF b
    <3> QED
      BY <1>2, <1>7, <2>1, <3>1, ReversedValue
  <2>5. a \in Element
    BY <1>2, <2>1, PowType, Zenon
  <2>6. w # 0
    <3> HIDE DEF w, a
    <3>1. gmult(a, 0) = 0
      BY <2>5, ZeroIs, Zenon
    <3> QED
      BY <1>7, <2>4, <3>1 DEF w, a
  <2> QED
    BY <2>3, <2>4, <2>6
<1>9. /\ om = [i \in 1 .. t |-> Omega(D)[t - i + 1]]
      /\ Numerator(D, k) = Rising(t, om, x) /\ Numerator(D, k) \in Element
  <2>1. om = [i \in 1 .. t |-> Omega(D)[t - i + 1]] /\ om \in [1 .. t -> Element]
    BY <1>1, LambdaIs, BitrouteIs
  <2>2. Numerator(D, k) = Horner(SubSeq(om, 1, t), x)
    BY <1>2 DEF Numerator
  <2> HIDE DEF om
  <2>3. om \in Seq(Element) /\ Len(om) = t
    BY <1>1, <2>1, LengthIs
  <2>4. SubSeq(om, 1, t) = om
    BY <1>1, <2>3
  <2>5. Numerator(D, k) = Rising(t, om, x)
    BY <2>2, <2>3, <2>4, HornerIs
  <2>6. Terms(om, t)
    BY <2>1 DEF Terms
  <2>7. Rising(t, om, x) \in Element
    BY <1>1, <1>8, <2>6, RisingType
  <2> QED
    BY <2>1, <2>5, <2>7 DEF om
<1>10. /\ ErrorValue(D, k) = gmult(gmult(Numerator(D, k), gpow(x, 2 * t + 1)), ginv(Denominator(D, k)))
       /\ ErrorValue(D, k) \in Element
  <2> DEFINE p == gpow(x, 2 * t + 1)
             nu == Numerator(D, k)
             de == ginv(Denominator(D, k))
  <2>1. ErrorValue(D, k) = gmult(gmult(nu, p), de)
    BY <1>2 DEF ErrorValue
  <2>2. p \in Element /\ nu \in Element /\ de \in Element
    <3>1. 2 * t + 1 \in Int
      BY <1>1
    <3>2. gpow(x, 2 * t + 1) \in Element
      BY <1>8, <3>1, PowType, Zenon
    <3>3. ginv(Denominator(D, k)) \in Element
      BY <1>8, InverseIs, Zenon
    <3> QED
      BY <1>9, <3>2, <3>3
  <2> HIDE DEF p, nu, de
  <2>3. gmult(nu, p) \in Element
    BY <2>2, MultType, Zenon
  <2>4. gmult(gmult(nu, p), de) \in Element
    BY <2>2, <2>3, MultType, Zenon
  <2> QED
    BY <2>1, <2>4 DEF p, nu, de
<1> QED
  BY <1>1, <1>2, <1>4, <1>5, <1>6, <1>8, <1>9, <1>10

-----------------------------------------------------------------------------
(***************************************************************************)
(* The older loop and its correction.                                      *)
(***************************************************************************)
\* The value at y of the polynomial with coefficients c, lowest first.
At(n, c, y) == Summed(n, [k \in 1 .. n |-> gmult(c[k], gpow(y, k - 1))])

BmRoots(f, n) == {r \in 1 .. GF - 1 : At(n + 1, f, alpha_to[r]) = 0}

BmDerived(f, n) == [k \in 1 .. n |-> IF k % 2 # 0 THEN f[k + 1] ELSE 0]

LEMMA AtType ==
  ASSUME NEW n \in Nat, NEW c, Terms(c, n), NEW y \in Element, y # 0
  PROVE  /\ Terms([k \in 1 .. n |-> gmult(c[k], gpow(y, k - 1))], n) /\ At(n, c, y) \in Element
<1> DEFINE g1 == [k \in 1 .. n |-> gmult(c[k], gpow(y, k - 1))]
<1>1. Terms(g1, n)
  <2> SUFFICES ASSUME NEW k \in 1 .. n PROVE gmult(c[k], gpow(y, k - 1)) \in Element
    BY DEF Terms
  <2>1. c[k] \in Element /\ k - 1 \in Int
    BY DEF Terms
  <2>2. gpow(y, k - 1) \in Element
    BY <2>1, PowType, Zenon
  <2> QED
    BY <2>1, <2>2, MultType, Zenon
<1> HIDE DEF g1
<1>2. Summed(n, g1) \in Element
  BY <1>1, SummedType
<1> QED
  BY <1>1, <1>2 DEF g1, At

\* The same value by the polynomial's reverse, at the inverse.
LEMMA AtIs ==
  ASSUME NEW n \in Nat, NEW c, Terms(c, n), NEW z \in Element, z # 0, NEW y \in Element, y # 0,
         \A i \in Int : gpow(y, i) = gpow(z, -i)
  PROVE  At(n, c, y) \in Element /\ Rising(n, c, z) = gmult(gpow(z, n - 1), At(n, c, y))
<1> DEFINE g1 == [k \in 1 .. n |-> gmult(c[k], gpow(y, k - 1))]
           g2 == [k \in 1 .. n |-> gmult(c[k], gpow(z, 1 - k))]
<1>1. \A k \in 1 .. n : g1[k] = g2[k]
  <2> SUFFICES ASSUME NEW k \in 1 .. n PROVE g1[k] = g2[k]
    OBVIOUS
  <2>1. k - 1 \in Int /\ -(k - 1) = 1 - k
    OBVIOUS
  <2>2. gpow(y, k - 1) = gpow(z, -(k - 1))
    BY <2>1
  <2> QED
    BY <2>1, <2>2
<1>2. \A k \in 1 .. n : g2[k] = gmult(c[k], gpow(z, 1 - k))
  OBVIOUS
<1>3. At(n, c, y) = Summed(n, g1)
  BY DEF At
<1> HIDE DEF g1, g2
<1>4. Rising(n, c, z) = gmult(gpow(z, n - 1), Summed(n, g2))
  BY <1>2, RisingIs
<1>5. Summed(n, g1) = Summed(n, g2)
  BY <1>1, SummedSame
<1>6. At(n, c, y) \in Element
  BY AtType
<1> QED
  BY <1>3, <1>4, <1>5, <1>6

\* A number in alpha_to and the power whose inverse is there.
LEMMA PlaceIs ==
  \A r \in 1 .. GF - 1 :
    /\ alpha_to[r] \in Element /\ alpha_to[r] # 0 /\ Exp(1 - r) \in Element /\ Exp(1 - r) # 0
    /\ \A i \in Int : gpow(alpha_to[r], i) = gpow(Exp(1 - r), -i)
<1> SUFFICES ASSUME NEW r \in 1 .. GF - 1
             PROVE  /\ alpha_to[r] \in Element /\ alpha_to[r] # 0
                    /\ Exp(1 - r) \in Element /\ Exp(1 - r) # 0
                    /\ \A i \in Int : gpow(alpha_to[r], i) = gpow(Exp(1 - r), -i)
  OBVIOUS
<1>1. r - 1 \in 0 .. GF - 2 /\ r - 1 \in Int /\ 1 - r \in Int /\ (r - 1) + 1 = r
  BY SizesAre
<1>2. alpha_to[r] = Exp(r - 1)
  BY <1>1, ExpWraps
<1>3. ASSUME NEW i \in Int PROVE gpow(Exp(r - 1), i) = gpow(Exp(1 - r), -i)
  <2> DEFINE u == r - 1
             v == 1 - r
             w == -i
  <2>1. u \in Int /\ v \in Int /\ w \in Int /\ u = -v /\ i = -w
    BY <1>1
  <2>2. u * i = v * w
    <3> HIDE DEF u, v, w
    <3>1. (-v) * (-w) = v * w
      BY <2>1
    <3> QED
      BY <2>1, <3>1
  <2> HIDE DEF u, v, w
  <2>3. gpow(Exp(u), i) = Exp(u * i) /\ gpow(Exp(v), w) = Exp(v * w)
    BY <2>1, PowOfExp
  <2> QED
    BY <2>2, <2>3 DEF u, v, w
<1> QED
  BY <1>1, <1>2, <1>3, ExpIs

LEMMA BmRootsAre ==
  ASSUME NEW n \in Nat, NEW k \in Nat, After(n, k), NEW f, Terms(f, k), f[k] # 0
  PROVE  /\ Cardinality(BmRoots(f, n)) = Cardinality(Roots(k, f))
         /\ BmRoots(f, n) \subseteq 1 .. GF - 1
         /\ \A r \in BmRoots(f, n) : Exp(1 - r) \in Roots(k, f)
<1> DEFINE P == BmRoots(f, n)
           R == Roots(k, f)
           M == [r \in P |-> Exp(1 - r)]
<1>1. P \subseteq 1 .. GF - 1 /\ GF \in Nat /\ GF >= 4 /\ k = n + 1
  BY SizesAre DEF BmRoots, After
<1>2. IsFiniteSet(P)
  <2>1. IsFiniteSet(1 .. GF - 1)
    BY <1>1, FS_Interval
  <2> HIDE DEF P
  <2> QED
    BY <1>1, <2>1, FS_Subset
<1>3. ASSUME NEW r \in 1 .. GF - 1
      PROVE  /\ Exp(1 - r) \in Element /\ Exp(1 - r) # 0
             /\ (At(k, f, alpha_to[r]) = 0 <=> Rising(k, f, Exp(1 - r)) = 0)
  <2> DEFINE z == Exp(1 - r)
             y == alpha_to[r]
             v == At(k, f, y)
             p == gpow(z, k - 1)
  <2>1. z \in Element /\ z # 0 /\ y \in Element /\ y # 0 /\ \A i \in Int : gpow(y, i) = gpow(z, -i)
    BY PlaceIs
  <2> HIDE DEF z, y
  <2>2. v \in Element /\ Rising(k, f, z) = gmult(p, v)
    BY <2>1, AtIs
  <2>3. k - 1 \in Int
    OBVIOUS
  <2>4. p \in Element /\ p # 0
    BY <2>1, <2>3, PowType, Zenon
  <2> HIDE DEF v, p
  <2>5. gmult(p, v) = 0 => v = 0
    BY <2>2, <2>4, MultIs, Zenon
  <2>6. gmult(p, 0) = 0
    BY <2>4, ZeroIs, Zenon
  <2> QED
    BY <2>1, <2>2, <2>5, <2>6 DEF v, y, z
<1>4. \A r \in P : Exp(1 - r) \in R
  BY <1>1, <1>3 DEF BmRoots, Roots
<1>5. \A x \in R : \E r \in P : Exp(1 - r) = x
  <2> SUFFICES ASSUME NEW x \in R PROVE \E r \in P : Exp(1 - r) = x
    OBVIOUS
  <2>1. x \in Element /\ Rising(k, f, x) = 0 /\ x # 0
    BY PowersAreRoots DEF Roots
  <2> DEFINE l == Log(x)
             r == IF l = 0 THEN 1 ELSE GF - l
  <2>2. l \in 0 .. GF - 2 /\ Exp(l) = x
    BY <2>1, ElementsAre
  <2> HIDE DEF l
  <2>3. r \in 1 .. GF - 1 /\ 1 - r \in Int /\ (l = 0 => 1 - r = 0) /\ (l # 0 => 1 - r = l + (-1) * (GF - 1))
    BY <1>1, <2>2
  <2>4. Exp(1 - r) = x
    <3>1. (1 - r) % (GF - 1) = l % (GF - 1)
      <4>1. CASE l = 0
        BY <2>3, <4>1
      <4>2. CASE l # 0
        <5> DEFINE h == GF - 1
        <5>1. h \in Int /\ h >= 1 /\ l \in Int /\ -1 \in Int
          BY <1>1, <2>2
        <5> HIDE DEF h
        <5>2. (l + (-1) * h) % h = l % h
          BY <5>1, ModSame
        <5> QED
          BY <2>3, <4>2, <5>2 DEF h
      <4> QED
        BY <4>1, <4>2
    <3> QED
      BY <2>2, <3>1 DEF Exp
  <2> HIDE DEF r
  <2>5. r \in P
    BY <1>1, <1>3, <2>1, <2>3, <2>4 DEF BmRoots
  <2> QED
    BY <2>4, <2>5
<1>6. \A i, j \in P : Exp(1 - i) = Exp(1 - j) => i = j
  <2> SUFFICES ASSUME NEW i \in 1 .. GF - 1, NEW j \in 1 .. GF - 1, Exp(1 - i) = Exp(1 - j)
               PROVE  i = j
    BY <1>1
  <2> DEFINE h == GF - 1
             u == 1 - i
             v == 1 - j
  <2>1. Log(Exp(1 - i)) = (1 - i) % (GF - 1) /\ Log(Exp(1 - j)) = (1 - j) % (GF - 1)
    BY <1>1, LogOfExp
  <2>2. u \in Int /\ v \in Int /\ h \in Int /\ h >= 1 /\ u - v < h /\ v - u < h
    BY <1>1
  <2>3. u % h = v % h
    BY <2>1
  <2> HIDE DEF h, u, v
  <2>4. u = v
    BY <2>2, <2>3, ModApart
  <2> QED
    BY <2>4 DEF u, v
<1> HIDE DEF P, R
<1>7. M \in [P -> R] /\ \A r \in P : M[r] = Exp(1 - r)
  BY <1>4
<1> HIDE DEF M
<1>8. M \in Injection(P, R)
  BY <1>6, <1>7 DEF Injection, IsInjective
<1>9. M \in Surjection(P, R)
  BY <1>5, <1>7 DEF Surjection
<1>10. ExistsBijection(P, R)
  BY <1>8, <1>9 DEF ExistsBijection, Bijection
<1>11. Cardinality(R) = Cardinality(P)
  BY <1>2, <1>10, FS_Bijection
<1> QED
  BY <1>1, <1>4, <1>11 DEF P, R

\* gmult divides by nothing that is zero either.
LEMMA BmDerivativeSurvives ==
  ASSUME NEW n \in Nat, NEW k \in Nat, After(n, k), NEW f, Terms(f, k), f[k] # 0,
         Cardinality(BmRoots(f, n)) = n, NEW r \in BmRoots(f, n)
  PROVE  /\ Terms(BmDerived(f, n), n)
         /\ At(n, BmDerived(f, n), alpha_to[r]) \in Element
         /\ At(n, BmDerived(f, n), alpha_to[r]) # 0
<1> DEFINE z == Exp(1 - r)
           y == alpha_to[r]
           e == [i \in 1 .. k |-> IF i % 2 = 0 THEN f[i] ELSE 0]
           c == BmDerived(f, n)
           u == [i \in 1 .. k |-> gmult(e[i], gpow(y, i - 1))]
           v == [i \in 1 .. n |-> gmult(c[i], gpow(y, i - 1))]
           w == [i \in 1 .. n |-> u[i + 1]]
<1>1. k = n + 1
  BY DEF After
<1>2. r \in 1 .. GF - 1 /\ z \in Roots(k, f) /\ Cardinality(Roots(k, f)) = n
  BY BmRootsAre
<1>3. z \in Element /\ z # 0 /\ y \in Element /\ y # 0 /\ \A i \in Int : gpow(y, i) = gpow(z, -i)
  BY <1>2, PlaceIs
<1>4. EvenTerms(e, f, k)
  BY DEF EvenTerms
<1> HIDE DEF z, y
<1>5. Terms(e, k) /\ Rising(k, e, z) # 0
  <2> HIDE DEF e
  <2> QED
    BY <1>2, <1>4, DerivativeSurvives
<1>6. Terms(c, n)
  <2> SUFFICES ASSUME NEW i \in 1 .. n PROVE c[i] \in Element
    BY DEF Terms
  <2>1. i + 1 \in 1 .. k
    BY <1>1
  <2>2. f[i + 1] \in Element /\ 0 \in Element
    BY <2>1, ElementIs DEF Terms
  <2> QED
    BY <2>2 DEF BmDerived
<1>7. ASSUME NEW i \in 1 .. n PROVE w[i] = gmult(y, v[i])
  <2> DEFINE a == c[i]
             p == gpow(y, i - 1)
  <2>1. i \in Int /\ i - 1 \in Int /\ (i - 1) + 1 = i /\ i + 1 \in 1 .. k /\ (i + 1) - 1 = i
        /\ ((i + 1) % 2 = 0 <=> i % 2 # 0)
    BY <1>1
  <2>2. e[i + 1] = a
    BY <2>1 DEF BmDerived
  <2>3. gpow(y, (i - 1) + 1) = gmult(y, gpow(y, i - 1))
    BY <1>3, <2>1, PowIs
  <2>4. w[i] = gmult(a, gmult(y, p))
    BY <2>1, <2>2, <2>3
  <2>5. v[i] = gmult(a, p)
    OBVIOUS
  <2>6. a \in Element
    BY <1>6 DEF Terms
  <2> HIDE DEF a, v, w
  <2>7. p \in Element
    BY <1>3, <2>1, PowType, Zenon
  <2> HIDE DEF p
  <2>8. MultLefts(a, y, p)
    BY <1>3, <2>6, <2>7, MultLeft, Zenon
  <2>9. gmult(a, gmult(y, p)) = gmult(y, gmult(a, p))
    BY <2>8, Zenon DEF MultLefts
  <2> QED
    BY <2>4, <2>5, <2>9
<1>8. u[1] = 0
  <2>1. 1 \in 1 .. k /\ 1 % 2 # 0
    BY <1>1
  <2>2. u[1] = gmult(0, gpow(y, 1 - 1))
    BY <2>1
  <2>3. gpow(y, 1 - 1) \in Element
    <3>1. 1 - 1 \in Int
      OBVIOUS
    <3> QED
      BY <1>3, <3>1, PowType, Zenon
  <2> QED
    BY <2>2, <2>3, ZeroIs
<1>9. Terms(u, k) /\ At(k, e, y) = Summed(k, u)
  <2> HIDE DEF e
  <2> QED
    BY <1>3, <1>5, AtType DEF At
<1>10. Terms(v, n) /\ At(n, c, y) = Summed(n, v)
  <2> HIDE DEF c
  <2> QED
    BY <1>3, <1>6, AtType DEF At
<1>11. \A i \in 1 .. n : w[i] = u[i + 1]
  OBVIOUS
<1>12. /\ At(k, e, y) \in Element /\ Rising(k, e, z) = gmult(gpow(z, k - 1), At(k, e, y))
       /\ At(n, c, y) \in Element
  <2> HIDE DEF e, c
  <2> QED
    BY <1>3, <1>5, <1>6, AtIs, AtType
<1> HIDE DEF e, c, u, v, w
<1>13. Terms(w, n) /\ u[1] \in Element /\ Summed(k, u) = gsum(u[1], Summed(n, w))
  BY <1>9, <1>11, SummedFirst
<1>14. Summed(n, w) = gmult(y, Summed(n, v)) /\ Summed(n, w) \in Element
  <2>1. Summed(n, w) = gmult(y, Summed(n, v))
    BY <1>3, <1>7, <1>10, SummedScales
  <2>2. Summed(n, w) \in Element
    BY <1>13, SummedType
  <2> QED
    BY <2>1, <2>2
<1>15. At(k, e, y) = gmult(y, At(n, c, y))
  <2>1. gsum(0, Summed(n, w)) = Summed(n, w)
    BY <1>14, ZeroIs, Zenon
  <2> QED
    BY <1>8, <1>9, <1>10, <1>13, <1>14, <2>1
<1>16. At(n, c, y) # 0
  <2> SUFFICES ASSUME At(n, c, y) = 0 PROVE FALSE
    OBVIOUS
  <2>1. gmult(y, 0) = 0
    BY <1>3, ZeroIs, Zenon
  <2>2. gpow(z, k - 1) \in Element
    <3>1. k - 1 \in Int
      OBVIOUS
    <3> QED
      BY <1>3, <3>1, PowType, Zenon
  <2>3. gmult(gpow(z, k - 1), 0) = 0
    BY <2>2, ZeroIs, Zenon
  <2> QED
    BY <1>5, <1>12, <1>15, <2>1, <2>3
<1> QED
  BY <1>6, <1>12, <1>16 DEF c, y

\* The registers of the older loop after r rounds.  The locator begins with a
\* one, what is kept of an earlier one is moved by a place at least, and
\* neither l_er nor idx_i runs ahead of the rounds.
BmRegisters(r) ==
  [lambda : [1 .. T -> Element], lambda_deg : 0 .. T - 1,
   prev_lambda : [1 .. T -> Element], l_er : 0 .. r, idx_i : -1 .. r]

\* The polynomial f, lowest coefficient first, has the degree n.
EndsAt(f, n) == f[n + 1] # 0 /\ \A j \in 1 .. T : j > n + 1 => f[j] = 0

BmKept(R, r) ==
  /\ R \in BmRegisters(r) /\ R.lambda[1] = 1 /\ R.prev_lambda[1] = 0
  /\ EndsAt(R.lambda, R.lambda_deg)

LEMMA BmStarts == BmKept(BmStart, 0)
<1>1. T \in Nat /\ T >= 2 /\ 0 \in Element /\ 1 \in Element
  BY SizesAre, ElementIs
<1> QED
  BY <1>1 DEF BmKept, BmStart, BmRegisters, EndsAt

\* What a round makes of them when the discrepancy is d.
BmTau(R, d) == [q \in 1 .. T |-> gsum(R.lambda[q], gmult(d, R.prev_lambda[q]))]

BmGrows(R, r, d) == d # 0 /\ R.l_er < (r + 1) - R.idx_i - 1

BmKeeps(R, r, d) ==
  IF BmGrows(R, r, d) THEN [q \in 1 .. T |-> gdiv(R.lambda[q], d)] ELSE R.prev_lambda

BmStepped(R, r, d) ==
  [lambda      |-> IF d # 0 THEN BmTau(R, d) ELSE R.lambda,
   lambda_deg  |-> IF d # 0 THEN Degree(BmTau(R, d)) - 1 ELSE R.lambda_deg,
   prev_lambda |-> <<0>> \o SubSeq(BmKeeps(R, r, d), 1, T - 1),
   l_er  |-> IF BmGrows(R, r, d) THEN (r + 1) - R.idx_i - 1 ELSE R.l_er,
   idx_i |-> IF BmGrows(R, r, d) THEN (r + 1) - R.l_er - 1 ELSE R.idx_i]

LEMMA BmSteps ==
  ASSUME NEW r \in 0 .. T - 1, NEW R, BmKept(R, r), NEW d \in Element
  PROVE  BmKept(BmStepped(R, r, d), r + 1)
<1> DEFINE tau == BmTau(R, d)
           keeps == BmKeeps(R, r, d)
           S == BmStepped(R, r, d)
<1>1. /\ R.lambda \in [1 .. T -> Element] /\ R.lambda_deg \in 0 .. T - 1
      /\ R.prev_lambda \in [1 .. T -> Element] /\ R.l_er \in 0 .. r /\ R.idx_i \in -1 .. r
      /\ R.lambda[1] = 1 /\ R.prev_lambda[1] = 0 /\ EndsAt(R.lambda, R.lambda_deg)
  BY DEF BmKept, BmRegisters
<1>2. T \in Nat /\ T >= 2 /\ 0 \in Element /\ 1 \in Element
  BY SizesAre, ElementIs
<1>3. tau \in [1 .. T -> Element]
  <2> SUFFICES ASSUME NEW q \in 1 .. T
               PROVE gsum(R.lambda[q], gmult(d, R.prev_lambda[q])) \in Element
    BY DEF BmTau
  <2>1. R.lambda[q] \in Element /\ R.prev_lambda[q] \in Element
    BY <1>1
  <2>2. gmult(d, R.prev_lambda[q]) \in Element
    BY <2>1, MultType, Zenon
  <2> QED
    BY <2>1, <2>2, SumType, Zenon
<1>4. tau[1] = 1
  <2>1. gmult(d, 0) = 0 /\ gsum(1, 0) = 1
    BY <1>2, ZeroIs, Zenon
  <2>2. 1 \in 1 .. T
    BY <1>2
  <2> QED
    BY <1>1, <2>1, <2>2 DEF BmTau
<1>5. keeps \in [1 .. T -> Element]
  <2>1. CASE BmGrows(R, r, d)
    <3>1. d # 0
      BY <2>1 DEF BmGrows
    <3>2. \A q \in 1 .. T : gdiv(R.lambda[q], d) \in Element
      BY <1>1, <3>1, DivIs
    <3> QED
      BY <2>1, <3>2 DEF BmKeeps
  <2>2. CASE ~BmGrows(R, r, d)
    BY <1>1, <2>2 DEF BmKeeps
  <2> QED
    BY <2>1, <2>2
<1>6. /\ Degree(tau) \in 1 .. T /\ tau[Degree(tau)] # 0
      /\ \A i \in 1 .. T : i > Degree(tau) => tau[i] = 0
  <2>1. DOMAIN tau = 1 .. T /\ \E i \in 1 .. T : tau[i] # 0
    BY <1>2, <1>3, <1>4
  <2> HIDE DEF tau
  <2> QED
    BY <1>2, <2>1, DegreeIs
<1>7. S.lambda \in [1 .. T -> Element] /\ S.lambda[1] = 1
      /\ S.lambda_deg \in 0 .. T - 1 /\ EndsAt(S.lambda, S.lambda_deg)
  <2>1. S.lambda = (IF d # 0 THEN tau ELSE R.lambda)
        /\ S.lambda_deg = (IF d # 0 THEN Degree(tau) - 1 ELSE R.lambda_deg)
    BY DEF BmStepped
  <2> HIDE DEF tau, S
  <2>2. CASE d # 0
    <3>1. S.lambda = tau /\ S.lambda_deg = Degree(tau) - 1
      BY <2>1, <2>2
    <3>2. (Degree(tau) - 1) + 1 = Degree(tau) /\ Degree(tau) - 1 \in 0 .. T - 1
      BY <1>2, <1>6
    <3>3. EndsAt(S.lambda, S.lambda_deg)
      BY <1>6, <3>1, <3>2 DEF EndsAt
    <3>4. S.lambda \in [1 .. T -> Element] /\ S.lambda[1] = 1
      BY <1>3, <1>4, <3>1
    <3> QED
      BY <3>1, <3>2, <3>3, <3>4
  <2>3. CASE d = 0
    BY <1>1, <2>1, <2>3
  <2> QED
    BY <2>2, <2>3
<1>8. S.prev_lambda \in [1 .. T -> Element] /\ S.prev_lambda[1] = 0
  <2> DEFINE h == SubSeq(keeps, 1, T - 1)
  <2>1. S.prev_lambda = <<0>> \o h
    BY DEF BmStepped
  <2> HIDE DEF keeps, S
  <2>2. keeps \in Seq(Element) /\ Len(keeps) = T
    BY <1>2, <1>5, LengthIs
  <2>3. h \in Seq(Element) /\ Len(h) = T - 1
    BY <1>2, <2>2
  <2> HIDE DEF h
  <2>4. <<0>> \in Seq(Element) /\ Len(<<0>>) = 1 /\ <<0>>[1] = 0
    BY <1>2
  <2>5. <<0>> \o h \in Seq(Element) /\ Len(<<0>> \o h) = T /\ (<<0>> \o h)[1] = 0
    BY <1>2, <2>3, <2>4
  <2>6. \A u : u \in Seq(Element) /\ Len(u) = T => u \in [1 .. T -> Element]
    OBVIOUS
  <2>7. <<0>> \o h \in [1 .. T -> Element]
    BY <2>5, <2>6
  <2> QED
    BY <2>1, <2>5, <2>7
<1>9. S.l_er \in 0 .. r + 1 /\ S.idx_i \in -1 .. r + 1
  <2>1. /\ S.l_er = (IF BmGrows(R, r, d) THEN (r + 1) - R.idx_i - 1 ELSE R.l_er)
        /\ S.idx_i = (IF BmGrows(R, r, d) THEN (r + 1) - R.l_er - 1 ELSE R.idx_i)
    BY DEF BmStepped
  <2> DEFINE a == R.l_er
             b == R.idx_i
  <2>2. a \in 0 .. r /\ b \in -1 .. r
    BY <1>1
  <2> HIDE DEF S, a, b
  <2>3. CASE BmGrows(R, r, d)
    <3>1. S.l_er = (r + 1) - b - 1 /\ S.idx_i = (r + 1) - a - 1
      BY <2>1, <2>3 DEF a, b
    <3> QED
      BY <2>2, <3>1
  <2>4. CASE ~BmGrows(R, r, d)
    <3>1. S.l_er = a /\ S.idx_i = b
      BY <2>1, <2>4 DEF a, b
    <3> QED
      BY <2>2, <3>1
  <2> QED
    BY <2>3, <2>4
<1>10. S = [lambda |-> S.lambda, lambda_deg |-> S.lambda_deg, prev_lambda |-> S.prev_lambda,
            l_er |-> S.l_er, idx_i |-> S.idx_i]
  BY DEF BmStepped
<1> HIDE DEF S
<1>11. S \in BmRegisters(r + 1)
  BY <1>7, <1>8, <1>9, <1>10 DEF BmRegisters
<1> QED
  BY <1>7, <1>8, <1>11 DEF BmKept, S

-----------------------------------------------------------------------------
(***************************************************************************)
(* The inductive invariant.  Until the word is corrected its errors are    *)
(* where it is not the codeword, and in the rounds the syndromes are       *)
(* theirs; the registers of gribm are those of the key equation, with a    *)
(* locator that is no longer than the errors are many.                     *)
(***************************************************************************)
Errors == Added(C, Codeword[model])

ShapesOK ==
  /\ model \in Models /\ C \in [1 .. N -> Element] /\ errors \subseteq Places
  /\ s \in [1 .. T -> Element] /\ i_round \in 0 .. T
  /\ stage \in {"received", "rounds", "done"}

ResultsOK ==
  /\ root_tmp \subseteq 1 .. N
  /\ outcome \in {"", "no errors", "decoded", "not decoding", "undefined"}

NotDone == stage # "done" => errors = Support(Errors, N) /\ outcome = "" /\ root_tmp = {}

NotStarted == stage = "received" => reg = <<>> /\ i_round = 0

SyndromesKnown ==
  stage = "rounds" =>
    /\ \A j \in 1 .. T : s[j] = PowerSum(Errors, Locator, N, j0[model] + j - 1)
    /\ \E j \in 1 .. T : s[j] # 0

RibmKnown ==
  stage = "rounds" /\ model = "xxbm" =>
    /\ reg \in Registers
    /\ \E lam, b, L : KeyEquation(lam, b, L, i_round, reg, s) /\ L <= Wrong(Errors)

BmKnown == stage = "rounds" /\ model = "gmult" => BmKept(reg, i_round)

RsInv ==
  /\ ShapesOK /\ ResultsOK /\ NotDone /\ NotStarted /\ SyndromesKnown
  /\ RibmKnown /\ BmKnown

LEMMA CodewordIs ==
  \A md \in Models : /\ [i \in 1 .. K |-> i] \in [1 .. K -> Element]
                     /\ Codeword[md] = rs_coder([i \in 1 .. K |-> i], md)
                     /\ Codeword[md] \in [1 .. N -> Element]
<1> SUFFICES ASSUME NEW md \in Models
             PROVE  /\ [i \in 1 .. K |-> i] \in [1 .. K -> Element]
                    /\ Codeword[md] = rs_coder([i \in 1 .. K |-> i], md)
                    /\ Codeword[md] \in [1 .. N -> Element]
  OBVIOUS
<1> DEFINE A == [i \in 1 .. K |-> i]
<1>1. A \in [1 .. K -> Element]
  BY SizesAre DEF Element
<1>2. Codeword[md] = rs_coder(A, md)
  BY DEF Codeword
<1> HIDE DEF A
<1>3. rs_coder(A, md) \in [1 .. N -> Element]
  BY <1>1, CodewordChecks
<1> QED
  BY <1>1, <1>2, <1>3 DEF A

\* The errors of a word, and where they are.
LEMMA ErrorsAre ==
  ASSUME model \in Models, C \in [1 .. N -> Element]
  PROVE  /\ Terms(Errors, N) /\ Support(Errors, N) = {i \in 1 .. N : C[i] # Codeword[model][i]}
         /\ \A i \in 1 .. N : gsum(Errors[i], C[i]) = Codeword[model][i]
         /\ \A j \in 1 .. T : Horner(C, alpha_to[j0[model] + j])
                                = PowerSum(Errors, Locator, N, j0[model] + j - 1)
<1>1. Codeword[model] \in [1 .. N -> Element] /\ Codeword[model] = rs_coder([i \in 1 .. K |-> i], model)
      /\ [i \in 1 .. K |-> i] \in [1 .. K -> Element]
  BY CodewordIs
<1>2. \A j \in 1 .. T : Horner(C, alpha_to[j0[model] + j])
                          = PowerSum(Errors, Locator, N, j0[model] + j - 1)
  <2> DEFINE A == [i \in 1 .. K |-> i]
  <2>1. A \in [1 .. K -> Element] /\ Errors = Added(C, rs_coder(A, model))
    BY <1>1 DEF Errors
  <2> HIDE DEF A
  <2> SUFFICES ASSUME NEW j \in 1 .. T
               PROVE  Horner(C, alpha_to[j0[model] + j])
                        = PowerSum(Errors, Locator, N, j0[model] + j - 1)
    OBVIOUS
  <2>2. Horner(C, alpha_to[j0[model] + j])
          = PowerSum(Added(C, rs_coder(A, model)), Locator, N, j0[model] + j - 1)
    BY <2>1, SyndromesAre
  <2> QED
    BY <2>1, <2>2
<1>3. /\ Terms(Added(C, Codeword[model]), N)
      /\ \A i \in 1 .. N : /\ (Added(C, Codeword[model])[i] = 0 <=> C[i] = Codeword[model][i])
                           /\ gsum(Added(C, Codeword[model])[i], C[i]) = Codeword[model][i]
  BY <1>1, AddedIs
<1> QED
  BY <1>2, <1>3 DEF Errors, Support

LEMMA RsStarts == RsInit => RsInv
<1> SUFFICES ASSUME RsInit PROVE RsInv
  OBVIOUS
<1>1. PICK E \in SUBSET Places : C = Overwritten(E)
  BY DEF RsInit
<1>2. Places \subseteq 1 .. N /\ model \in Models /\ Codeword[model] \in [1 .. N -> Element] /\ 0 \in Element
  BY RsAssumption, CodewordIs, ElementIs DEF RsInit
<1>3. C \in [1 .. N -> Element] /\ \A i \in 1 .. N : i \notin E => C[i] = Codeword[model][i]
  BY <1>1, <1>2 DEF Overwritten
<1>4. errors = {i \in 1 .. N : C[i] # Codeword[model][i]}
  BY <1>1, <1>2, <1>3 DEF RsInit
<1>5. ShapesOK /\ ResultsOK /\ NotStarted /\ SyndromesKnown /\ RibmKnown /\ BmKnown
  <2>1. s = [j \in 1 .. T |-> 0] /\ i_round = 0 /\ errors = {i \in Places : C[i] # Codeword[model][i]}
    BY Zenon DEF RsInit
  <2>2. s \in [1 .. T -> Element] /\ i_round \in 0 .. T /\ errors \subseteq Places
    BY <1>2, <2>1, SizesAre
  <2> QED
    BY <1>2, <1>3, <2>2
    DEF RsInit, ShapesOK, ResultsOK, NotStarted, SyndromesKnown, RibmKnown, BmKnown
<1>6. NotDone
  BY <1>2, <1>3, <1>4, ErrorsAre DEF NotDone, RsInit
<1> QED
  BY <1>5, <1>6 DEF RsInv

\* What a correction leaves, if all that is added to the word are elements.
LEMMA CorrectTypes ==
  ASSUME C \in [1 .. N -> Element], root_tmp = {}, NEW deg, NEW places, NEW values,
         Correct(deg, places, values),
         Cardinality(DOMAIN places) = deg /\ deg # 0 =>
           \A r \in DOMAIN places : places[r] \in 1 .. N /\ values[r] \in Element
  PROVE  /\ C' \in [1 .. N -> Element] /\ root_tmp' \subseteq 1 .. N /\ stage' = "done"
         /\ outcome' \in {"", "no errors", "decoded", "not decoding", "undefined"}
         /\ UNCHANGED <<model, errors, s, i_round, reg>>
<1>1. stage' = "done" /\ UNCHANGED <<model, errors, s, i_round, reg>>
  BY DEF Correct
<1>2. CASE Cardinality(DOMAIN places) # deg \/ deg = 0
  BY <1>1, <1>2 DEF Correct
<1>3. CASE Cardinality(DOMAIN places) = deg /\ deg # 0
  <2>1. /\ outcome' = "decoded" /\ root_tmp' = {places[r] : r \in DOMAIN places}
        /\ C' = [i \in 1 .. N |->
                   IF i \in root_tmp'
                   THEN gsum(values[CHOOSE r \in DOMAIN places : places[r] = i], C[i])
                   ELSE C[i]]
    BY <1>3 DEF Correct
  <2>2. \A r \in DOMAIN places : places[r] \in 1 .. N /\ values[r] \in Element
    BY <1>3
  <2>3. ASSUME NEW i \in 1 .. N PROVE C'[i] \in Element
    <3>1. CASE i \in root_tmp'
      <4> DEFINE h == CHOOSE r \in DOMAIN places : places[r] = i
      <4>1. h \in DOMAIN places
        BY <2>1, <3>1
      <4>2. C'[i] = gsum(values[h], C[i])
        BY <2>1, <3>1
      <4> HIDE DEF h
      <4>3. values[h] \in Element /\ C[i] \in Element
        BY <2>2, <4>1
      <4>4. gsum(values[h], C[i]) \in Element
        BY <4>3, SumType, Zenon
      <4> QED
        BY <4>2, <4>4
    <3>2. CASE i \notin root_tmp'
      BY <2>1, <3>2
    <3> QED
      BY <3>1, <3>2
  <2>4. C' \in [1 .. N -> Element]
    <3>1. C' = [i \in 1 .. N |-> C'[i]]
      BY <2>1
    <3> QED
      BY <2>3, <3>1
  <2> QED
    BY <1>1, <2>1, <2>2, <2>4
<1> QED
  BY <1>2, <1>3

\* The steps, by the names of this module.
LEMMA RibmRoundSteps ==
  RibmRound => /\ stage = "rounds" /\ model = "xxbm" /\ i_round < T /\ reg' = Stepped(reg)
               /\ i_round' = i_round + 1
               /\ UNCHANGED <<model, C, errors, s, outcome, root_tmp, stage>>
BY Zenon DEF RibmRound, Stepped

LEMMA XxbmCorrects ==
  XxbmCorrect =>
    /\ stage = "rounds" /\ model = "xxbm" /\ i_round = T
    /\ Correct(LambdaDegree(reg.delta), ErrorPlaces(reg.delta), ErrorValues(reg.delta))
BY Zenon DEF XxbmCorrect, LambdaDegree, ErrorPlaces, ErrorValues, FoundRoots, Lambda, Omega,
             Derived, Numerator, Denominator, ErrorValue

\* The discrepancy of the older loop.
BmBound == IF reg.lambda_deg < reg.l_er THEN reg.lambda_deg ELSE reg.l_er

BmTerms == [i \in 1 .. BmBound + 1 |-> gmult(s[(i_round + 1) - i + 1], reg.lambda[i])]

BmDiscrep == Summed(BmBound + 1, BmTerms)

LEMMA BmRoundSteps ==
  BmRound => /\ stage = "rounds" /\ model = "gmult" /\ i_round < T
             /\ reg' = BmStepped(reg, i_round, BmDiscrep) /\ i_round' = i_round + 1
             /\ UNCHANGED <<model, C, errors, s, outcome, root_tmp, stage>>
<1> SUFFICES ASSUME BmRound
             PROVE  /\ stage = "rounds" /\ model = "gmult" /\ i_round < T
                    /\ reg' = BmStepped(reg, i_round, BmDiscrep) /\ i_round' = i_round + 1
                    /\ UNCHANGED <<model, C, errors, s, outcome, root_tmp, stage>>
  OBVIOUS
<1> DEFINE d == GSum(BmBound + 1, LAMBDA i : gmult(s[(i_round + 1) - i + 1], reg.lambda[i]))
<1>1. d = BmDiscrep
  <2>1. Adder(BmTerms, BmBound + 1)
          = [i \in 1 .. BmBound + 1 |-> [v \in Element |->
               gsum(v, gmult(s[(i_round + 1) - i + 1], reg.lambda[i]))]]
    BY DEF Adder, BmTerms
  <2> QED
    BY <2>1 DEF BmDiscrep, Summed, GSum, For
<1>2. reg' = BmStepped(reg, i_round, d)
  BY Zenon DEF BmRound, BmStepped, BmGrows, BmKeeps, BmTau, BmBound, GSum, For
<1>3. /\ stage = "rounds" /\ model = "gmult" /\ i_round < T /\ i_round' = i_round + 1
      /\ UNCHANGED <<model, C, errors, s, outcome, root_tmp, stage>>
  BY DEF BmRound
<1> HIDE DEF d
<1> QED
  BY <1>1, <1>2, <1>3

BmOmega ==
  [i \in 1 .. T |-> Summed(i, [j \in 1 .. i |-> gmult(s[j], reg.lambda[i - j + 1])])]

BmPlaces ==
  [r \in BmRoots(reg.lambda, reg.lambda_deg) |-> IF r = 1 THEN N ELSE (r - 1) % N]

BmValues ==
  [r \in BmRoots(reg.lambda, reg.lambda_deg) |->
     gdiv(At(T, BmOmega, alpha_to[r]),
          At(reg.lambda_deg, BmDerived(reg.lambda, reg.lambda_deg), alpha_to[r]))]

LEMMA GmultCorrects ==
  GmultCorrect =>
    /\ stage = "rounds" /\ model = "gmult" /\ i_round = T
    /\ Correct(reg.lambda_deg, BmPlaces, BmValues)
<1> SUFFICES ASSUME GmultCorrect
             PROVE  /\ stage = "rounds" /\ model = "gmult" /\ i_round = T
                    /\ Correct(reg.lambda_deg, BmPlaces, BmValues)
  OBVIOUS
<1> DEFINE om == [i \in 1 .. T |-> GSum(i, LAMBDA j : gmult(s[j], reg.lambda[i - j + 1]))]
           f == reg.lambda
           n == reg.lambda_deg
           root(r) == GSum(n + 1, LAMBDA k : gmult(f[k], gpow(alpha_to[r], k - 1)))
           num(r) == GSum(T, LAMBDA k : gmult(om[k], gpow(alpha_to[r], k - 1)))
           den(r) == GSum(n, LAMBDA k : gmult((IF k % 2 # 0 THEN f[k + 1] ELSE 0),
                                              gpow(alpha_to[r], k - 1)))
           roots == {r \in 1 .. GF - 1 : root(r) = 0}
<1>1. /\ stage = "rounds" /\ model = "gmult" /\ i_round = T
      /\ Correct(n, [r \in roots |-> IF r = 1 THEN N ELSE (r - 1) % N],
                    [r \in roots |-> gdiv(num(r), den(r))])
  BY Zenon DEF GmultCorrect, GSum, For
<1>2. ASSUME NEW r PROVE root(r) = At(n + 1, f, alpha_to[r])
  <2> DEFINE h == [k \in 1 .. n + 1 |-> gmult(f[k], gpow(alpha_to[r], k - 1))]
  <2>1. Adder(h, n + 1) = [k \in 1 .. n + 1 |-> [v \in Element |->
                             gsum(v, gmult(f[k], gpow(alpha_to[r], k - 1)))]]
    BY DEF Adder
  <2> QED
    BY <2>1 DEF At, Summed, GSum, For
<1>3. ASSUME NEW i \in 1 .. T PROVE om[i] = BmOmega[i]
  <2> DEFINE h == [j \in 1 .. i |-> gmult(s[j], f[i - j + 1])]
             o == GSum(i, LAMBDA j : gmult(s[j], f[i - j + 1]))
  <2>1. Adder(h, i) = [j \in 1 .. i |-> [v \in Element |-> gsum(v, gmult(s[j], f[i - j + 1]))]]
    BY DEF Adder
  <2>2. o = Summed(i, h)
    BY <2>1 DEF Summed, GSum, For
  <2>3. om[i] = o
    <3> HIDE DEF o
    <3>1. om = [l \in 1 .. T |-> GSum(l, LAMBDA j : gmult(s[j], reg.lambda[l - j + 1]))]
      BY Zenon
    <3> QED
      BY Zenon DEF o
  <2>4. BmOmega[i] = Summed(i, h)
    BY DEF BmOmega
  <2> QED
    BY <2>2, <2>3, <2>4, Zenon
<1> HIDE DEF om
<1>4. ASSUME NEW r PROVE num(r) = At(T, BmOmega, alpha_to[r])
  <2> DEFINE h == [k \in 1 .. T |-> gmult(BmOmega[k], gpow(alpha_to[r], k - 1))]
  <2>1. Adder(h, T) = [k \in 1 .. T |-> [v \in Element |->
                         gsum(v, gmult(om[k], gpow(alpha_to[r], k - 1)))]]
    BY <1>3 DEF Adder
  <2> QED
    BY <2>1 DEF At, Summed, GSum, For
<1>5. ASSUME NEW r PROVE den(r) = At(n, BmDerived(f, n), alpha_to[r])
  <2> DEFINE h == [k \in 1 .. n |-> gmult(BmDerived(f, n)[k], gpow(alpha_to[r], k - 1))]
  <2>1. Adder(h, n) = [k \in 1 .. n |-> [v \in Element |->
                         gsum(v, gmult((IF k % 2 # 0 THEN f[k + 1] ELSE 0), gpow(alpha_to[r], k - 1)))]]
    BY DEF Adder, BmDerived
  <2> QED
    BY <2>1 DEF At, Summed, GSum, For
<1> HIDE DEF root, num, den
<1>6. roots = BmRoots(f, n)
  BY <1>2 DEF BmRoots
<1> HIDE DEF roots
<1>7. [r \in roots |-> gdiv(num(r), den(r))] = BmValues
  BY <1>4, <1>5, <1>6 DEF BmValues
<1>8. [r \in roots |-> IF r = 1 THEN N ELSE (r - 1) % N] = BmPlaces
  BY <1>6 DEF BmPlaces
<1> QED
  BY <1>1, <1>7, <1>8, Zenon

LEMMA SyndromesKeep == RsInv /\ Syndromes => RsInv'
<1> SUFFICES ASSUME RsInv, Syndromes PROVE RsInv'
  OBVIOUS
<1>1. /\ model \in Models /\ C \in [1 .. N -> Element] /\ errors \subseteq Places
      /\ i_round = 0 /\ root_tmp = {} /\ outcome = "" /\ reg = <<>> /\ errors = Support(Errors, N)
  BY DEF RsInv, ShapesOK, NotDone, NotStarted, Syndromes
<1>2. /\ s' = [j \in 1 .. T |-> Horner(C, alpha_to[j0[model] + j])]
      /\ UNCHANGED <<model, C, errors, i_round, root_tmp>>
  BY Zenon DEF Syndromes
<1>3. Errors' = Errors /\ 0 \in 0 .. T /\ T \in Nat
  BY <1>2, SizesAre DEF Errors
<1>4. \A j \in 1 .. T : s'[j] = PowerSum(Errors, Locator, N, j0[model] + j - 1)
  BY <1>1, <1>2, ErrorsAre
<1>5. s' \in [1 .. T -> Element]
  <2> SUFFICES ASSUME NEW j \in 1 .. T PROVE Horner(C, alpha_to[j0[model] + j]) \in Element
    BY <1>2
  <2>1. j0[model] + j - 1 \in Int
    <3>1. model \in {"xxbm", "gmult"}
      BY <1>1, RsAssumption
    <3>2. j0["xxbm"] = 1 /\ j0["gmult"] = 0
      BY DEF j0
    <3>3. j0[model] \in Int
      BY <3>1, <3>2
    <3> QED
      BY <3>3
  <2>2. Terms(Errors, N) /\ Locators(Locator, N) /\ N \in Nat
    BY <1>1, ErrorsAre, LocatorsAre
  <2>3. PowerSum(Errors, Locator, N, j0[model] + j - 1) \in Element
    BY <2>1, <2>2, PoweredTerms
  <2> QED
    BY <1>1, <2>3, ErrorsAre
<1>6. CASE \A j \in 1 .. T : s'[j] = 0
  <2>1. outcome' = "no errors" /\ stage' = "done" /\ reg' = reg
    BY <1>6 DEF Syndromes
  <2> QED
    BY <1>1, <1>2, <1>3, <1>5, <2>1
    DEF RsInv, ShapesOK, ResultsOK, NotDone, NotStarted, SyndromesKnown, RibmKnown, BmKnown
<1>7. CASE ~ \A j \in 1 .. T : s'[j] = 0
  <2>1. /\ reg' = IF model = "xxbm" THEN RibmStart(s') ELSE BmStart
        /\ stage' = "rounds" /\ outcome' = outcome
    BY <1>7 DEF Syndromes
  <2>2. ShapesOK' /\ ResultsOK' /\ NotStarted'
    BY <1>1, <1>2, <1>3, <1>5, <2>1 DEF ShapesOK, ResultsOK, NotStarted
  <2>3. NotDone'
    BY <1>1, <1>2, <1>3, <2>1 DEF NotDone
  <2>4. SyndromesKnown'
    BY <1>2, <1>3, <1>4, <1>7 DEF SyndromesKnown
  <2>5. BmKnown'
    <3>1. model = "gmult" => BmKept(reg', i_round')
      BY <1>1, <1>2, <2>1, BmStarts
    <3> QED
      BY <1>2, <3>1 DEF BmKnown
  <2>6. RibmKnown'
    <3> SUFFICES ASSUME model = "xxbm"
                 PROVE  /\ reg' \in Registers
                        /\ \E lam, b, L : KeyEquation(lam, b, L, i_round', reg', s')
                                          /\ L <= Wrong(Errors')
      BY <1>2 DEF RibmKnown
    <3>1. RibmStart(s') \in Registers /\ KeyEquation(One, One, 0, 0, RibmStart(s'), s')
      BY <1>5, RibmStarts DEF Syn
    <3>2. reg' = RibmStart(s') /\ i_round' = 0
      BY <1>1, <1>2, <2>1
    <3>3. 0 <= Wrong(Errors)
      BY SizesAre, SupportFinite DEF Wrong
    <3> QED
      BY <1>3, <3>1, <3>2, <3>3, Zenon
  <2> QED
    BY <2>2, <2>3, <2>4, <2>5, <2>6 DEF RsInv
<1> QED
  BY <1>6, <1>7

\* While gribm runs its syndromes are those of the errors.
LEMMA RibmSyndromes ==
  RsInv /\ stage = "rounds" /\ model = "xxbm" => SyndromesOf(s, Errors) /\ Terms(Errors, N)
<1> SUFFICES ASSUME RsInv, stage = "rounds", model = "xxbm" PROVE SyndromesOf(s, Errors) /\ Terms(Errors, N)
  OBVIOUS
<1>1. model \in Models /\ C \in [1 .. N -> Element] /\ s \in [1 .. T -> Element]
  BY DEF RsInv, ShapesOK
<1>2. Terms(Errors, N)
  BY <1>1, ErrorsAre
<1>3. ASSUME NEW j \in 1 .. T PROVE s[j] = PowerSum(Errors, Locator, N, j)
  <2>1. s[j] = PowerSum(Errors, Locator, N, j0[model] + j - 1)
    BY DEF RsInv, SyndromesKnown
  <2>2. j0[model] + j - 1 = j
    BY DEF j0
  <2> QED
    BY <2>1, <2>2
<1> QED
  BY <1>1, <1>2, <1>3 DEF SyndromesOf, Syn

LEMMA RibmRoundKeeps == RsInv /\ RibmRound => RsInv'
<1> SUFFICES ASSUME RsInv, RibmRound PROVE RsInv'
  OBVIOUS
<1>1. /\ stage = "rounds" /\ model = "xxbm" /\ i_round < T /\ reg' = Stepped(reg)
      /\ i_round' = i_round + 1 /\ UNCHANGED <<model, C, errors, s, outcome, root_tmp, stage>>
  BY RibmRoundSteps
<1>2. i_round \in 0 .. T - 1 /\ i_round + 1 \in 0 .. T /\ T \in Nat
  BY <1>1, SizesAre DEF RsInv, ShapesOK
<1>3. SyndromesOf(s, Errors)
  BY <1>1, RibmSyndromes
<1>4. Errors' = Errors
  BY <1>1 DEF Errors
<1>5. reg \in Registers
  BY <1>1 DEF RsInv, RibmKnown
<1>6. PICK lam, b, L : KeyEquation(lam, b, L, i_round, reg, s) /\ L <= Wrong(Errors)
  BY <1>1 DEF RsInv, RibmKnown
<1>7. /\ Stepped(reg) \in Registers
      /\ \E lam1, b1, L1 : KeyEquation(lam1, b1, L1, i_round + 1, Stepped(reg), s) /\ L1 <= Wrong(Errors)
  <2> DEFINE L1 == DegreeNext(reg, L, i_round)
  <2>1. L1 = DegreeNext(reg, L, i_round)
    OBVIOUS
  <2> HIDE DEF L1
  <2>2. /\ Stepped(reg) \in Registers /\ L1 <= Wrong(Errors)
        /\ KeyEquation(LambdaNext(reg, lam, b), EarlierNext(reg, lam, b), L1, i_round + 1, Stepped(reg), s)
    BY <1>2, <1>3, <1>5, <1>6, <2>1, RibmLengthens
  <2> QED
    BY <2>2, Zenon
<1>8. RibmKnown'
  BY <1>1, <1>4, <1>7, Zenon DEF RibmKnown
<1>9. ShapesOK' /\ ResultsOK' /\ NotDone' /\ NotStarted' /\ SyndromesKnown' /\ BmKnown'
  BY <1>1, <1>2, <1>4
  DEF RsInv, ShapesOK, ResultsOK, NotDone, NotStarted, SyndromesKnown, BmKnown
<1> QED
  BY <1>8, <1>9 DEF RsInv

\* The discrepancy of the older loop is an element.
LEMMA BmDiscrepType ==
  RsInv /\ stage = "rounds" /\ model = "gmult" /\ i_round < T => BmDiscrep \in Element
<1> SUFFICES ASSUME RsInv, stage = "rounds", model = "gmult", i_round < T PROVE BmDiscrep \in Element
  OBVIOUS
<1> DEFINE a == reg.lambda_deg
           b == reg.l_er
           f == reg.lambda
<1>1. /\ a \in 0 .. T - 1 /\ b \in 0 .. i_round /\ f \in [1 .. T -> Element]
      /\ i_round \in 0 .. T - 1 /\ T \in Nat /\ s \in [1 .. T -> Element]
  BY SizesAre DEF RsInv, ShapesOK, BmKnown, BmKept, BmRegisters
<1> HIDE DEF a, b, f
<1>2. BmBound \in Nat /\ BmBound <= T - 1 /\ BmBound <= i_round
  BY <1>1 DEF BmBound, a, b
<1>3. Terms(BmTerms, BmBound + 1)
  <2> SUFFICES ASSUME NEW i \in 1 .. BmBound + 1 PROVE BmTerms[i] \in Element
    BY DEF Terms
  <2>1. i \in 1 .. T /\ (i_round + 1) - i + 1 \in 1 .. T
    BY <1>1, <1>2
  <2>2. s[(i_round + 1) - i + 1] \in Element /\ f[i] \in Element
    BY <1>1, <2>1
  <2>3. gmult(s[(i_round + 1) - i + 1], f[i]) \in Element
    BY <2>2, MultType, Zenon
  <2> QED
    BY <2>3 DEF BmTerms, f
<1>4. BmBound + 1 \in Nat
  BY <1>2
<1> QED
  BY <1>3, <1>4, SummedType DEF BmDiscrep

LEMMA BmRoundKeeps == RsInv /\ BmRound => RsInv'
<1> SUFFICES ASSUME RsInv, BmRound PROVE RsInv'
  OBVIOUS
<1>1. /\ stage = "rounds" /\ model = "gmult" /\ i_round < T
      /\ reg' = BmStepped(reg, i_round, BmDiscrep) /\ i_round' = i_round + 1
      /\ UNCHANGED <<model, C, errors, s, outcome, root_tmp, stage>>
  BY BmRoundSteps
<1>2. i_round \in 0 .. T - 1 /\ i_round + 1 \in 0 .. T /\ T \in Nat
  BY <1>1, SizesAre DEF RsInv, ShapesOK
<1>3. BmDiscrep \in Element
  BY <1>1, BmDiscrepType
<1>4. Errors' = Errors
  BY <1>1 DEF Errors
<1>5. BmKept(reg, i_round)
  BY <1>1 DEF RsInv, BmKnown
<1>6. BmKept(BmStepped(reg, i_round, BmDiscrep), i_round + 1)
  BY <1>2, <1>3, <1>5, BmSteps
<1>7. BmKnown'
  BY <1>1, <1>6 DEF BmKnown
<1>8. ShapesOK' /\ ResultsOK' /\ NotDone' /\ NotStarted' /\ SyndromesKnown' /\ RibmKnown'
  BY <1>1, <1>2, <1>4
  DEF RsInv, ShapesOK, ResultsOK, NotDone, NotStarted, SyndromesKnown, RibmKnown
<1> QED
  BY <1>7, <1>8 DEF RsInv

LEMMA XxbmCorrectKeeps == RsInv /\ XxbmCorrect => RsInv'
<1> SUFFICES ASSUME RsInv, XxbmCorrect PROVE RsInv'
  OBVIOUS
<1> DEFINE D == reg.delta
<1>1. stage = "rounds" /\ model = "xxbm" /\ Correct(LambdaDegree(D), ErrorPlaces(D), ErrorValues(D))
  BY XxbmCorrects
<1>2. /\ C \in [1 .. N -> Element] /\ root_tmp = {} /\ "xxbm" \in Models
      /\ D \in [0 .. 3 * t + 1 -> Element]
  BY <1>1 DEF RsInv, ShapesOK, NotDone, RibmKnown, Registers
<1>3. Delta(D) /\ t = OmegaTaps
  BY <1>2, RsAssumption DEF Delta
<1> HIDE DEF D
<1>4. DOMAIN ErrorPlaces(D) = FoundRoots(D)
  BY DEF ErrorPlaces
<1>5. ASSUME Cardinality(FoundRoots(D)) = LambdaDegree(D), NEW r \in FoundRoots(D)
      PROVE  ErrorPlaces(D)[r] \in 1 .. N /\ ErrorValues(D)[r] \in Element
  <2>1. ErrorValue(D, r) \in Element /\ r \in 0 .. GF - 2
    <3> DEFINE y == Exp(r)
               d == LambdaDegree(D) + 1
    <3>1. y = Exp(r) /\ d = LambdaDegree(D) + 1
      OBVIOUS
    <3> HIDE DEF y, d
    <3> QED
      BY <1>3, <1>5, <3>1, ErrorValueIs
  <2>2. N - r \in 1 .. N
    BY <2>1, SizesAre
  <2> QED
    BY <2>1, <2>2 DEF ErrorPlaces, ErrorValues
<1>6. /\ C' \in [1 .. N -> Element] /\ root_tmp' \subseteq 1 .. N /\ stage' = "done"
      /\ outcome' \in {"", "no errors", "decoded", "not decoding", "undefined"}
      /\ UNCHANGED <<model, errors, s, i_round, reg>>
  BY <1>1, <1>2, <1>4, <1>5, CorrectTypes
<1> QED
  BY <1>6
  DEF RsInv, ShapesOK, ResultsOK, NotDone, NotStarted, SyndromesKnown, RibmKnown, BmKnown

LEMMA GmultCorrectKeeps == RsInv /\ GmultCorrect => RsInv'
<1> SUFFICES ASSUME RsInv, GmultCorrect PROVE RsInv'
  OBVIOUS
<1> DEFINE f == reg.lambda
           n == reg.lambda_deg
           k == n + 1
<1>1. stage = "rounds" /\ model = "gmult" /\ Correct(n, BmPlaces, BmValues)
  BY GmultCorrects
<1>2. /\ C \in [1 .. N -> Element] /\ root_tmp = {} /\ s \in [1 .. T -> Element]
      /\ f \in [1 .. T -> Element] /\ n \in 0 .. T - 1 /\ f[n + 1] # 0
  BY <1>1 DEF RsInv, ShapesOK, NotDone, BmKnown, BmKept, BmRegisters, EndsAt
<1>3. n \in Nat /\ k \in Nat /\ After(n, k) /\ Terms(f, k) /\ T \in Nat /\ f[k] # 0 /\ N = GF - 1
      /\ N \in Nat /\ N >= 3
  BY <1>2, SizesAre DEF After, Terms
<1>4. DOMAIN BmPlaces = BmRoots(f, n)
  BY DEF BmPlaces
<1>5. Terms(BmOmega, T)
  <2> SUFFICES ASSUME NEW i \in 1 .. T PROVE BmOmega[i] \in Element
    BY DEF Terms
  <2> DEFINE h == [j \in 1 .. i |-> gmult(s[j], f[i - j + 1])]
  <2>1. Terms(h, i)
    <3> SUFFICES ASSUME NEW j \in 1 .. i PROVE gmult(s[j], f[i - j + 1]) \in Element
      BY DEF Terms
    <3>1. j \in 1 .. T /\ i - j + 1 \in 1 .. T
      BY <1>3
    <3>2. s[j] \in Element /\ f[i - j + 1] \in Element
      BY <1>2, <3>1
    <3> QED
      BY <3>2, MultType, Zenon
  <2>2. BmOmega[i] = Summed(i, h) /\ i \in Nat
    BY <1>3 DEF BmOmega
  <2> HIDE DEF h
  <2> QED
    BY <2>1, <2>2, SummedType
<1>6. ASSUME Cardinality(BmRoots(f, n)) = n, NEW r \in BmRoots(f, n)
      PROVE  BmPlaces[r] \in 1 .. N /\ BmValues[r] \in Element
  <2> DEFINE a == At(T, BmOmega, alpha_to[r])
             b == At(n, BmDerived(f, n), alpha_to[r])
  <2>1. r \in 1 .. GF - 1
    BY DEF BmRoots
  <2>2. alpha_to[r] \in Element /\ alpha_to[r] # 0
    BY <2>1, PlaceIs
  <2>3. a \in Element
    BY <1>3, <1>5, <2>2, AtType
  <2>4. b \in Element /\ b # 0
    <3> HIDE DEF f, n, k
    <3> QED
      BY <1>3, <1>6, BmDerivativeSurvives
  <2>5. BmValues[r] = gdiv(a, b)
    BY <1>6 DEF BmValues
  <2> HIDE DEF a, b
  <2>6. gdiv(a, b) \in Element
    BY <2>3, <2>4, DivIs, Zenon
  <2>7. BmPlaces[r] \in 1 .. N
    <3>1. BmPlaces[r] = IF r = 1 THEN N ELSE (r - 1) % N
      BY <1>6 DEF BmPlaces
    <3>2. CASE r = 1
      BY <1>3, <3>1, <3>2
    <3>3. CASE r # 1
      <4>1. r - 1 \in 0 .. N - 1 /\ r - 1 \in 1 .. N /\ N \in Int /\ N >= 1
        BY <1>3, <2>1, <3>3
      <4>2. (r - 1) % N = r - 1
        BY <4>1, ModSmall
      <4> QED
        BY <3>1, <3>3, <4>1, <4>2
    <3> QED
      BY <3>2, <3>3
  <2> QED
    BY <2>5, <2>6, <2>7
<1> HIDE DEF f, n
<1>7. /\ C' \in [1 .. N -> Element] /\ root_tmp' \subseteq 1 .. N /\ stage' = "done"
      /\ outcome' \in {"", "no errors", "decoded", "not decoding", "undefined"}
      /\ UNCHANGED <<model, errors, s, i_round, reg>>
  BY <1>1, <1>2, <1>4, <1>6, CorrectTypes
<1> QED
  BY <1>7
  DEF RsInv, ShapesOK, ResultsOK, NotDone, NotStarted, SyndromesKnown, RibmKnown, BmKnown

LEMMA RsSteps == RsInv /\ [RsNext]_rsVars => RsInv'
<1> SUFFICES ASSUME RsInv, [RsNext]_rsVars PROVE RsInv'
  OBVIOUS
<1>1. CASE Syndromes
  BY <1>1, SyndromesKeep
<1>2. CASE RibmRound
  BY <1>2, RibmRoundKeeps
<1>3. CASE BmRound
  BY <1>3, BmRoundKeeps
<1>4. CASE XxbmCorrect
  BY <1>4, XxbmCorrectKeeps
<1>5. CASE GmultCorrect
  BY <1>5, GmultCorrectKeeps
<1>6. CASE UNCHANGED rsVars
  BY <1>6 DEF rsVars, RsInv, ShapesOK, ResultsOK, NotDone, NotStarted, SyndromesKnown,
              RibmKnown, BmKnown, Errors
<1> QED
  BY <1>1, <1>2, <1>3, <1>4, <1>5, <1>6 DEF RsNext, Ended

\* The invariant holds in every behaviour.
LEMMA RsInvariance == RsSpec => []RsInv
BY RsStarts, RsSteps, PTL DEF RsSpec

\* The registers of both decoders keep their shapes and every symbol and value
\* in them is an element, for every field, length of message and set of
\* places that are overwritten: no table is read where it has no entry, and
\* neither decoder divides by zero (rs_decoder of both models, whole).
THEOREM RsTypeCorrect == RsSpec => []RsTypeOK
<1>1. RsInv => RsTypeOK
  <2> SUFFICES ASSUME RsInv PROVE RsTypeOK
    OBVIOUS
  <2>1. ASSUME stage = "rounds", model = "xxbm"
        PROVE  /\ reg.delta \in [0 .. 3 * t + 1 -> Element] /\ reg.k \in -T .. T
               /\ reg.ttt \in [0 .. 3 * t + 1 -> Element] /\ reg.gamma \in Element \ {0}
    <3>1. reg \in Registers
      BY <2>1 DEF RsInv, RibmKnown
    <3>2. PICK lam, b, L : KeyEquation(lam, b, L, i_round, reg, s)
      BY <2>1 DEF RsInv, RibmKnown
    <3>3. reg.k = i_round - 2 * L /\ L \in 0 .. i_round /\ reg.gamma \in Element /\ reg.gamma # 0
      BY <3>2 DEF KeyEquation
    <3>4. i_round \in 0 .. T /\ T \in Nat
      BY SizesAre DEF RsInv, ShapesOK
    <3>5. reg.k \in -T .. T
      BY <3>3, <3>4
    <3> QED
      BY <3>1, <3>3, <3>5 DEF Registers
  <2>2. ASSUME stage = "rounds", model = "gmult"
        PROVE  /\ reg.lambda \in [1 .. T -> Element] /\ reg.lambda_deg \in 0 .. T - 1
               /\ reg.prev_lambda \in [1 .. T -> Element]
               /\ reg.l_er \in 0 .. T /\ reg.idx_i \in -1 .. T
    <3>1. reg \in BmRegisters(i_round) /\ i_round \in 0 .. T /\ T \in Nat
      BY <2>2, SizesAre DEF RsInv, ShapesOK, BmKnown, BmKept
    <3> QED
      BY <3>1 DEF BmRegisters
  <2> QED
    BY <2>1, <2>2 DEF RsInv, ShapesOK, ResultsOK, NotStarted, RsTypeOK
<1> QED
  BY <1>1, RsInvariance, PTL

\* After every round of gribm the low end of the register holds the
\* discrepancies of the locator at the high end, for words with up to t
\* errors: the two polynomials in the register never run into each other
\* (gribm, its loop).
THEOREM DiscrepanciesHold == RsSpec => []RibmDiscrepancy
<1>1. RsInv => RibmDiscrepancy
  <2> SUFFICES ASSUME RsInv, model = "xxbm", stage = "rounds", Few, NEW i \in 0 .. T - 1 - i_round
               PROVE  reg.delta[i] =
                        GSum(i_round + 1, LAMBDA j : gmult(reg.delta[3 * t - i_round + j - 1],
                                                           s[i_round + i - j + 2]))
    BY DEF RibmDiscrepancy
  <2>1. PICK lam, b, L : KeyEquation(lam, b, L, i_round, reg, s) /\ L <= Wrong(Errors)
    BY DEF RsInv, RibmKnown
  <2>2. Wrong(Errors) <= t /\ Wrong(Errors) \in Nat
    BY LocatorsAre, SupportFinite DEF RsInv, NotDone, Few, Wrong
  <2>3. L <= t /\ i_round \in 0 .. T /\ Syn(s)
    BY <2>1, <2>2, SizesAre DEF KeyEquation, RsInv, ShapesOK, Syn
  <2>4. reg.delta[i] = Summed(i_round + 1, Tapped(reg, s, i_round, i))
    BY <2>1, <2>3, DiscrepancyIs
  <2>5. Adder(Tapped(reg, s, i_round, i), i_round + 1)
          = [j \in 1 .. i_round + 1 |-> [v \in Element |->
               gsum(v, gmult(reg.delta[3 * t - i_round + j - 1], s[i_round + i - j + 2]))]]
    BY DEF Adder, Tapped
  <2> QED
    BY <2>4, <2>5 DEF Summed, GSum, For
<1> QED
  BY <1>1, RsInvariance, PTL

-----------------------------------------------------------------------------
(***************************************************************************)
(* The correction.  After the last round the locator has the errors, and   *)
(* nothing else, as its roots.                                             *)
(***************************************************************************)
Solved(lam, L, syn, E) ==
  /\ SyndromesOf(syn, E) /\ Poly(lam) /\ L \in Nat /\ L <= Wrong(E) /\ Wrong(E) <= t
  /\ lam[1] # 0 /\ Short(lam, L + 1)
  /\ \A n \in L .. T - 1 : Conv(lam, syn, n) = 0

LEMMA RootsAreErrors ==
  ASSUME NEW syn, NEW E, NEW lam, NEW L, Solved(lam, L, syn, E), NEW d, d = L + 1
  PROVE  /\ L = Wrong(E) /\ L \in 0 .. t /\ L \in Nat /\ d \in Nat /\ After(L, d) /\ d \in 1 .. t + 1
         /\ Terms(E, N) /\ Terms(lam, d) /\ lam[d] # 0 /\ Cardinality(Roots(d, lam)) = L
         /\ \A i \in 1 .. N : E[i] # 0 <=> Rising(d, lam, Locator[i]) = 0
<1> DEFINE S == Support(E, N)
           Q == Roots(d, lam)
           M == [i \in S |-> Locator[i]]
<1>1. /\ SyndromesOf(syn, E) /\ Terms(E, N) /\ Poly(lam) /\ L \in Nat /\ L <= Wrong(E) /\ Wrong(E) <= t
      /\ lam[1] # 0 /\ Short(lam, d) /\ \A n \in L .. T - 1 : Conv(lam, syn, n) = 0
  BY DEF Solved, SyndromesOf
<1>2. T \in Nat /\ T = 2 * t /\ t \in Nat /\ L <= t /\ d \in Nat /\ After(L, d) /\ L <= T
      /\ d \in 1 .. t + 1
  <2>1. Wrong(E) \in Nat
    BY LocatorsAre, SupportFinite DEF Wrong
  <2> QED
    BY <1>1, <2>1, SizesAre DEF After
<1>3. Terms(lam, d)
  BY <1>1, <1>2 DEF Poly, Terms
<1>4. \A i \in 1 .. N : Located(lam, d, E)[i] = 0
  <2>1. Wrong(E) <= T - L
    <3>1. Wrong(E) \in Nat
      BY LocatorsAre, SupportFinite DEF Wrong
    <3> QED
      BY <1>1, <1>2, <3>1
  <2>2. \A n \in L .. T - 1 : Conv(lam, syn, n) = 0
    BY <1>1
  <2> QED
    BY <1>1, <1>2, <2>1, <2>2, Annihilates
<1>5. \A i \in 1 .. N : /\ Locator[i] \in Element /\ Locator[i] # 0 /\ E[i] \in Element
                        /\ Rising(d, lam, Locator[i]) \in Element
                        /\ (E[i] # 0 => Rising(d, lam, Locator[i]) = 0)
  <2> SUFFICES ASSUME NEW i \in 1 .. N
               PROVE  /\ Locator[i] \in Element /\ Locator[i] # 0 /\ E[i] \in Element
                      /\ Rising(d, lam, Locator[i]) \in Element
                      /\ (E[i] # 0 => Rising(d, lam, Locator[i]) = 0)
    OBVIOUS
  <2> DEFINE v == Rising(d, lam, Locator[i])
             e == E[i]
  <2>1. Locator[i] \in Element /\ Locator[i] # 0 /\ e \in Element /\ v \in Element
        /\ Located(lam, d, E)[i] = gmult(e, v)
    BY <1>1, <1>2, <1>3, LocatedIs
  <2>2. gmult(e, v) = 0
    BY <1>4, <2>1
  <2> HIDE DEF v, e
  <2>3. e # 0 => v = 0
    BY <2>1, <2>2, MultIs, Zenon
  <2> QED
    BY <2>1, <2>3 DEF v, e
<1>6. IsFiniteSet(S) /\ Cardinality(S) = Wrong(E) /\ IsFiniteSet(Q)
      /\ Cardinality(Q) \in Nat /\ Cardinality(Q) <= L /\ Cardinality(S) \in Nat
  BY <1>1, <1>2, <1>3, LocatorsAre, SupportFinite, RootsFinite, RootsFew DEF Wrong
<1>7. M \in [S -> Q] /\ \A i \in S : M[i] = Locator[i]
  BY <1>5 DEF Support, Roots
<1>8. \A i, j \in 1 .. N : Locator[i] = Locator[j] => i = j
  BY LocatorsAre DEF Locators
<1>9. \A i \in S : i \in 1 .. N /\ E[i] # 0
  BY DEF Support
<1> HIDE DEF M, S, Q
<1>10. M \in Injection(S, Q)
  BY <1>7, <1>8, <1>9 DEF Injection, IsInjective
<1>11. Cardinality(S) <= Cardinality(Q) /\ (Cardinality(S) = Cardinality(Q) <=> M \in Surjection(S, Q))
  BY <1>6, <1>10, FS_Injection
<1>12. L = Wrong(E) /\ Cardinality(Q) = L /\ M \in Surjection(S, Q)
  BY <1>1, <1>6, <1>11
<1>13. \A y \in Q : \E i \in S : Locator[i] = y
  BY <1>7, <1>12 DEF Surjection
<1>14. ASSUME NEW i \in 1 .. N, Rising(d, lam, Locator[i]) = 0 PROVE E[i] # 0
  <2>1. Locator[i] \in Q
    BY <1>5, <1>14 DEF Q, Roots
  <2> QED
    BY <1>8, <1>9, <1>13, <2>1
<1>15. lam[d] # 0
  <2> SUFFICES ASSUME lam[d] = 0 PROVE FALSE
    OBVIOUS
  <2> DEFINE z == 0
  <2>1. z \in Element /\ z = 0
    BY ElementIs
  <2> HIDE DEF z
  <2>2. Terms(lam, L) /\ lam[d] \in Element
    BY <1>1, <1>2, <1>3, TermsFewer
  <2>3. Rising(d, lam, z) = gsum(lam[d], gmult(z, Rising(L, lam, z))) /\ Rising(L, lam, z) \in Element
    BY <1>1, <1>2, <1>3, <2>1, <2>2, RisingNext, RisingType
  <2>4. gmult(z, Rising(L, lam, z)) = 0 /\ gsum(z, z) = z
    BY <2>1, <2>3, ZeroIs
  <2>5. z \in Q
    BY <2>1, <2>3, <2>4 DEF Q, Roots
  <2> QED
    BY <1>5, <1>9, <1>13, <2>1, <2>5
<1> QED
  BY <1>1, <1>2, <1>3, <1>5, <1>12, <1>14, <1>15 DEF Q

\* What the low end of the register holds in the end: the omega of the errors.
LEMMA OmegaIs ==
  ASSUME NEW syn, NEW E, NEW lam, NEW L, Solved(lam, L, syn, E), NEW j \in 1 .. t
  PROVE  /\ Terms(lam, j)
         /\ Conv(lam, syn, T + j - 1) = Summed(N, Valued(lam, E, Locator, N, T + j, j))
<1> DEFINE n == T + 1
           k == T + j
           d == L + 1
           f == Falling(lam, E, Locator, N, k, n)
           p == Pairs(lam, syn, T + j - 1)
           w == [i \in 1 .. n |-> IF i <= j THEN f[i] ELSE 0]
           u == Valued(lam, E, Locator, N, k, d)
<1>1. d = L + 1
  OBVIOUS
<1>2. /\ L = Wrong(E) /\ L \in 0 .. t /\ d \in Nat /\ After(L, d) /\ d \in 1 .. t + 1
      /\ Terms(E, N) /\ Terms(lam, d)
      /\ \A i \in 1 .. N : E[i] # 0 <=> Rising(d, lam, Locator[i]) = 0
  <2> HIDE DEF d
  <2> QED
    BY <1>1, RootsAreErrors
<1>3. /\ T = 2 * t /\ t \in Nat /\ t >= 1 /\ n \in Nat /\ k \in Int /\ d <= n /\ j \in Nat /\ j <= n
      /\ N \in Nat /\ Locators(Locator, N) /\ T + j - 1 \in Int
  BY <1>2, SizesAre, LocatorsAre
<1>4. Poly(lam) /\ Terms(lam, n) /\ Terms(lam, j) /\ Short(lam, d) /\ SyndromesOf(syn, E) /\ Syn(syn)
  BY <1>3 DEF Solved, Poly, Terms, SyndromesOf
<1>5. Terms(f, n) /\ Terms(p, n)
  BY <1>2, <1>3, <1>4, FallingTerms, PairsTerms
<1>6. ASSUME NEW i \in 1 .. n PROVE f[i] = gmult(lam[i], PowerSum(E, Locator, N, k - i + 1))
  BY DEF Falling
<1>7. Summed(n, f) = 0
  <2> DEFINE h == Falling(lam, E, Locator, N, k, d)
  <2>1. \A i \in d + 1 .. n : f[i] = 0
    <3> SUFFICES ASSUME NEW i \in d + 1 .. n PROVE f[i] = 0
      OBVIOUS
    <3>1. i \in 1 .. n /\ i \in 1 .. T + 1 /\ i > d /\ k - i + 1 \in Int
      <4>1. n = T + 1 /\ i \in d + 1 .. n
        OBVIOUS
      <4> HIDE DEF d, n, k, f, p, w, u, h
      <4>2. d \in 1 .. t + 1 /\ t \in Nat /\ n \in Nat /\ k \in Int
        BY <1>2, <1>3
      <4>3. d >= 1
        BY <4>2
      <4> QED
        BY <4>1, <4>2, <4>3
    <3>2. lam[i] = 0
      BY <1>4, <3>1 DEF Short
    <3>3. PowerSum(E, Locator, N, k - i + 1) \in Element
      BY <1>2, <1>3, <3>1, PoweredTerms
    <3>4. gmult(0, PowerSum(E, Locator, N, k - i + 1)) = 0
      BY <3>3, ZeroIs, Zenon
    <3> QED
      BY <1>6, <3>1, <3>2, <3>4
  <2>2. \A i \in 1 .. d : f[i] = h[i]
    <3> SUFFICES ASSUME NEW i \in 1 .. d PROVE f[i] = h[i]
      OBVIOUS
    <3>1. h[i] = gmult(lam[i], PowerSum(E, Locator, N, k - i + 1))
      BY DEF Falling
    <3>2. n \in Nat /\ d \in Nat /\ d <= n /\ i \in 1 .. d
      BY <1>2, <1>3, Zenon
    <3> HIDE DEF d, n, k, f, p, w, u, h
    <3>3. i \in 1 .. n
      BY <3>2
    <3> QED
      BY <1>6, <3>1, <3>3
  <2>3. Summed(d, h) = Summed(N, u)
    BY <1>2, <1>3, FallingValued
  <2>4. \A i \in 1 .. N : u[i] = 0
    <3> SUFFICES ASSUME NEW i \in 1 .. N PROVE u[i] = 0
      OBVIOUS
    <3> DEFINE x == Locator[i]
               a == gpow(x, k - d + 1)
               v == Rising(d, lam, x)
               e == E[i]
    <3>1. x \in Element /\ x # 0 /\ e \in Element /\ v \in Element
      BY <1>2, LocatedIs
    <3>2. u[i] = gmult(e, gmult(a, v))
      BY DEF Valued
    <3>3. k - d + 1 \in Int
      BY <1>2, <1>3
    <3>4. e # 0 => v = 0
      BY <1>2
    <3> HIDE DEF x, u, v, e
    <3>5. a \in Element
      BY <3>1, <3>3, PowType, Zenon
    <3> HIDE DEF a
    <3>6. gmult(a, 0) = 0 /\ gmult(e, 0) = 0 /\ gmult(a, v) \in Element
      BY <3>1, <3>5, ZeroIs, MultType, Zenon
    <3>7. gmult(0, gmult(a, v)) = 0
      BY <3>6, ZeroIs, Zenon
    <3> QED
      BY <3>2, <3>4, <3>6, <3>7
  <2> HIDE DEF f, h, u, n
  <2>5. Summed(n, f) = Summed(d, f)
    BY <1>2, <1>3, <1>5, <2>1, SummedShort
  <2>6. Summed(d, f) = Summed(d, h)
    BY <1>2, <2>2, SummedSame
  <2>7. Summed(N, u) = 0
    BY <1>3, <2>4, SummedZero
  <2> QED
    BY <2>3, <2>5, <2>6, <2>7
<1>8. ASSUME NEW i \in 1 .. n
      PROVE  (i <= j => p[i] = 0) /\ (i > j => p[i] = f[i])
  <2> DEFINE l == (T + j - 1) - i + 1
             e == Extended(syn, l)
  <2>1. p[i] = gmult(lam[i], e)
    BY DEF Pairs
  <2>2. lam[i] \in Element
    BY <1>4 DEF Terms
  <2>3. CASE i <= j
    <3>1. l \notin 0 .. T - 1 /\ l # 3 * t /\ l # -1
      BY <1>3, <2>3
    <3>2. e = 0
      <4> HIDE DEF l
      <4> QED
        BY <3>1 DEF Extended
    <3>3. gmult(lam[i], 0) = 0
      BY <2>2, ZeroIs, Zenon
    <3> QED
      BY <2>1, <2>3, <3>2, <3>3
  <2>4. CASE i > j
    <3>1. l \in 0 .. T - 1 /\ l + 1 = k - i + 1 /\ l + 1 \in 1 .. T
      BY <1>3, <2>4
    <3>2. e = syn[l + 1]
      <4> HIDE DEF l
      <4> QED
        BY <3>1 DEF Extended
    <3>3. syn[l + 1] = PowerSum(E, Locator, N, l + 1)
      <4> HIDE DEF l
      <4> QED
        BY <1>4, <3>1 DEF SyndromesOf
    <3>4. e = PowerSum(E, Locator, N, k - i + 1)
      BY <3>1, <3>2, <3>3
    <3> QED
      BY <1>6, <2>1, <2>4, <3>4
  <2> QED
    BY <1>3, <2>3, <2>4
<1>9. \A i \in 1 .. n : f[i] = gsum(w[i], p[i])
  <2> SUFFICES ASSUME NEW i \in 1 .. n PROVE f[i] = gsum(w[i], p[i])
    OBVIOUS
  <2> DEFINE v == f[i]
  <2>1. v \in Element
    BY <1>5 DEF Terms
  <2>2. w[i] = IF i <= j THEN v ELSE 0
    OBVIOUS
  <2>3. i <= j \/ i > j
    BY <1>3
  <2>4. (i <= j => p[i] = 0) /\ (i > j => p[i] = v)
    BY <1>8
  <2> HIDE DEF v, w, p, n
  <2>5. gsum(v, 0) = v /\ gsum(0, v) = v
    BY <2>1, ZeroIs, Zenon
  <2>6. v = gsum(w[i], p[i])
    BY <1>3, <2>2, <2>3, <2>4, <2>5
  <2> QED
    BY <2>6 DEF v
<1>10. Terms(w, n)
  <2>1. \A i \in 1 .. n : f[i] \in Element
    BY <1>5 DEF Terms
  <2>2. \A i \in 1 .. n : w[i] = IF i <= j THEN f[i] ELSE 0
    OBVIOUS
  <2>3. 0 \in Element
    BY ElementIs
  <2> HIDE DEF f, w, n
  <2>4. \A i \in 1 .. n : w[i] \in Element
    BY <2>1, <2>2, <2>3, Zenon
  <2> QED
    BY <2>4 DEF Terms
<1>11. \A i \in j + 1 .. n : w[i] = 0
  BY <1>3
<1>12. \A i \in 1 .. j : w[i] = f[i]
  BY <1>3
<1>13. \A i \in 1 .. j : f[i] = Falling(lam, E, Locator, N, k, j)[i]
  BY <1>3 DEF Falling
<1> HIDE DEF f, p, w, u, n
<1>14. Summed(n, f) = gsum(Summed(n, w), Summed(n, p)) /\ Summed(n, w) \in Element /\ Summed(n, p) \in Element
  BY <1>3, <1>5, <1>9, <1>10, SummedAdds, SummedType
<1>15. Summed(n, w) = Summed(j, w)
  BY <1>3, <1>10, <1>11, SummedShort
<1>16. Summed(j, w) = Summed(j, f)
  BY <1>3, <1>12, SummedSame
<1>17. Summed(j, f) = Summed(j, Falling(lam, E, Locator, N, k, j))
  BY <1>3, <1>13, SummedSame
<1>18. Summed(j, Falling(lam, E, Locator, N, k, j)) = Summed(N, Valued(lam, E, Locator, N, k, j))
  BY <1>2, <1>3, <1>4, FallingValued
<1>19. Summed(n, p) = Summed(n, w)
  <2> DEFINE a == Summed(n, w)
             c == Summed(n, p)
  <2>1. gsum(a, c) = 0 /\ a \in Element /\ c \in Element
    BY <1>7, <1>14
  <2> HIDE DEF a, c
  <2>2. a = c
    BY <2>1, SumCancels
  <2> QED
    BY <2>2 DEF a, c
<1> QED
  BY <1>4, <1>15, <1>16, <1>17, <1>18, <1>19 DEF Conv, p, n

\* What the locator's coefficients make of x, each with a power of y.
Slices(lam, x, y) == [j \in 1 .. t |-> gmult(gpow(y, 1 - j), Rising(j, lam, x))]

LEMMA SlicesAre ==
  ASSUME NEW L \in Nat, NEW d \in Nat, After(L, d), L <= t, NEW lam, Poly(lam), Short(lam, d),
         NEW x \in Element, x # 0, NEW y \in Element, y # 0, Rising(d, lam, x) = 0,
         NEW q, QuotientBy(q, lam, d, x)
  PROVE  /\ Terms(Slices(lam, x, y), t) /\ Summed(t, Slices(lam, x, y)) \in Element
         /\ Terms(q, L)
         /\ Rising(L, q, y) = gmult(gpow(y, L - 1), Summed(t, Slices(lam, x, y)))
<1> DEFINE f == Slices(lam, x, y)
           h == [i \in 1 .. L |-> gmult(q[i], gpow(y, 1 - i))]
<1>1. /\ T = 2 * t /\ t \in Nat /\ T \in Nat /\ T + 1 \in Nat /\ d = L + 1 /\ d <= T + 1
  BY SizesAre DEF After
<1>2. \A j \in 0 .. T + 1 : Terms(lam, j)
  BY <1>1 DEF Poly, Terms
<1>3. \A j \in 1 .. t : Rising(j, lam, x) \in Element /\ gpow(y, 1 - j) \in Element
  <2> SUFFICES ASSUME NEW j \in 1 .. t
               PROVE  Rising(j, lam, x) \in Element /\ gpow(y, 1 - j) \in Element
    OBVIOUS
  <2>1. j \in Nat /\ j \in 0 .. T + 1 /\ 1 - j \in Int
    BY <1>1
  <2>2. Rising(j, lam, x) \in Element
    BY <1>2, <2>1, RisingType
  <2>3. gpow(y, 1 - j) \in Element
    BY <2>1, PowType, Zenon
  <2> QED
    BY <2>2, <2>3
<1>4. \A j \in 1 .. t : f[j] = gmult(gpow(y, 1 - j), Rising(j, lam, x))
  BY DEF Slices
<1>5. Terms(f, t)
  <2> SUFFICES ASSUME NEW j \in 1 .. t PROVE f[j] \in Element
    BY DEF Terms
  <2>1. gmult(gpow(y, 1 - j), Rising(j, lam, x)) \in Element
    BY <1>3, MultType, Zenon
  <2> QED
    BY <1>4, <2>1
<1>6. \A j \in L + 1 .. t : f[j] = 0
  <2> SUFFICES ASSUME NEW j \in L + 1 .. t PROVE f[j] = 0
    OBVIOUS
  <2> DEFINE n == j - d
  <2>1. n \in Nat /\ j \in Nat /\ Together(d, n, j) /\ j \in 0 .. T + 1 /\ j \in 1 .. t /\ n \in Int
    BY <1>1 DEF Together
  <2>2. \A i \in d + 1 .. j : lam[i] = 0
    BY <1>1, <2>1 DEF Short
  <2>3. Terms(lam, j)
    BY <1>2, <2>1
  <2> HIDE DEF n, f
  <2>4. Rising(j, lam, x) = gmult(gpow(x, n), Rising(d, lam, x))
    BY <2>1, <2>2, <2>3, RisingPads
  <2>5. gpow(x, n) \in Element
    BY <2>1, PowType, Zenon
  <2>6. gmult(gpow(x, n), 0) = 0
    BY <2>5, ZeroIs, Zenon
  <2>7. gmult(gpow(y, 1 - j), 0) = 0
    BY <1>3, <2>1, ZeroIs, Zenon
  <2> QED
    BY <1>4, <2>1, <2>4, <2>6, <2>7
<1>7. Summed(t, f) = Summed(L, f) /\ Summed(t, f) \in Element
  <2> HIDE DEF f
  <2> QED
    BY <1>1, <1>5, <1>6, SummedShort, SummedType
<1>8. Terms(q, L)
  <2>1. Terms(lam, d)
    BY <1>1, <1>2
  <2>2. Terms(q, d)
    BY <2>1, QuotientTerms
  <2> QED
    BY <1>1, <2>2 DEF Terms
<1>9. \A i \in 1 .. L : h[i] = f[i]
  <2> SUFFICES ASSUME NEW i \in 1 .. L PROVE h[i] = f[i]
    OBVIOUS
  <2> DEFINE u == gpow(y, 1 - i)
             v == Rising(i, lam, x)
  <2>1. h[i] = gmult(q[i], u)
    OBVIOUS
  <2>2. q[i] = v
    BY <1>1 DEF QuotientBy
  <2>3. f[i] = gmult(u, v) /\ u \in Element /\ v \in Element
    BY <1>1, <1>3, <1>4
  <2> HIDE DEF h, f, u, v
  <2>4. gmult(u, v) = gmult(v, u)
    BY <2>3, MultCommutes, Zenon
  <2> QED
    BY <2>1, <2>2, <2>3, <2>4
<1>10. Rising(L, q, y) = gmult(gpow(y, L - 1), Summed(L, h))
  <2>1. \A i \in 1 .. L : h[i] = gmult(q[i], gpow(y, 1 - i))
    OBVIOUS
  <2> HIDE DEF h
  <2> QED
    BY <1>8, <2>1, RisingIs
<1>11. Summed(L, h) = Summed(L, f)
  <2> HIDE DEF f, h
  <2> QED
    BY <1>9, SummedSame
<1> QED
  BY <1>5, <1>7, <1>8, <1>10, <1>11

\* A root's own slices are its quotient, and those of every other vanish.
LEMMA SlicesVanish ==
  ASSUME NEW L \in Nat, NEW d \in Nat, After(L, d), L <= t, NEW lam, Poly(lam), Short(lam, d),
         NEW x \in Element, x # 0, NEW y \in Element, y # 0, x # y,
         Rising(d, lam, x) = 0, Rising(d, lam, y) = 0
  PROVE  Summed(t, Slices(lam, x, y)) = 0
<1> DEFINE q == [i \in 1 .. d |-> Rising(i, lam, x)]
           v == Summed(t, Slices(lam, x, y))
           a == gpow(y, L - 1)
           u == Rising(L, q, y)
           b == gsum(y, x)
<1>1. QuotientBy(q, lam, d, x)
  BY DEF QuotientBy
<1>2. /\ T = 2 * t /\ t \in Nat /\ d = L + 1 /\ d <= T + 1 /\ L - 1 \in Int /\ d \in 1 .. d
  BY SizesAre DEF After
<1>3. Terms(lam, d)
  BY <1>2 DEF Poly, Terms
<1>4. q[d] = 0
  BY <1>2
<1> HIDE DEF q
<1>5. v \in Element /\ Terms(q, L) /\ u = gmult(a, v)
  BY <1>1, SlicesAre
<1>6. Rising(d, lam, y) = gsum(gmult(b, u), q[d])
  BY <1>1, <1>3, RisingQuotient
<1>7. u \in Element
  BY <1>5, RisingType
<1>8. a \in Element /\ a # 0
  BY <1>2, PowType, Zenon
<1>9. b \in Element /\ b # 0
  BY SumType, SumCancels, Zenon
<1> HIDE DEF a, b, u, v
<1>10. gmult(b, u) \in Element
  BY <1>7, <1>9, MultType, Zenon
<1>11. gsum(gmult(b, u), 0) = gmult(b, u)
  BY <1>10, ZeroIs, Zenon
<1>12. gmult(b, u) = 0
  BY <1>4, <1>6, <1>11
<1>13. u = 0
  BY <1>7, <1>9, <1>12, MultIs
<1>14. v = 0
  <2>1. v \in Element /\ a \in Element /\ a # 0 /\ gmult(a, v) = 0
    BY <1>5, <1>8, <1>13
  <2> QED
    BY <2>1, MultIs, Zenon
<1> QED
  BY <1>14 DEF v

\* One error's share of the power sums the numerator is made of.
Shared(c, E) == \A i \in 1 .. N : c[i] = gmult(E[i], gpow(Locator[i], T + 1))

ValuesAt(w, j, lam) == \A i \in 1 .. N : w[i] = Rising(j, lam, Locator[i])

LEMMA OmegaShares ==
  ASSUME NEW syn, NEW E, NEW lam, NEW L, Solved(lam, L, syn, E), NEW j \in 1 .. t,
         NEW c, Shared(c, E), NEW w, ValuesAt(w, j, lam)
  PROVE  /\ Terms(c, N) /\ Terms(w, N) /\ Conv(lam, syn, T + j - 1) \in Element
         /\ Conv(lam, syn, T + j - 1) = Summed(N, [i \in 1 .. N |-> gmult(c[i], w[i])])
<1> DEFINE u == Valued(lam, E, Locator, N, T + j, j)
           v == [i \in 1 .. N |-> gmult(c[i], w[i])]
<1>1. Terms(lam, j) /\ Conv(lam, syn, T + j - 1) = Summed(N, u)
  BY OmegaIs
<1>2. /\ T \in Nat /\ T + 1 \in Int /\ j \in Nat /\ N \in Nat /\ T + j - j + 1 = T + 1
      /\ T + j - 1 \in Int /\ t \in Nat
  BY SizesAre
<1>3. Terms(E, N) /\ Syn(syn) /\ Poly(lam)
  BY DEF Solved, SyndromesOf
<1>4. ASSUME NEW i \in 1 .. N
      PROVE  /\ c[i] \in Element /\ w[i] \in Element /\ u[i] = v[i]
  <2> DEFINE x == Locator[i]
             a == gpow(x, T + 1)
             r == Rising(j, lam, x)
             e == E[i]
  <2>1. x \in Element /\ x # 0 /\ e \in Element /\ r \in Element
    BY <1>1, <1>2, <1>3, LocatedIs
  <2>2. u[i] = gmult(e, gmult(a, r))
    BY <1>2 DEF Valued
  <2>3. c[i] = gmult(e, a) /\ w[i] = r /\ v[i] = gmult(c[i], w[i])
    BY DEF Shared, ValuesAt
  <2> HIDE DEF x, r, e, u, v
  <2>4. a \in Element
    BY <1>2, <2>1, PowType, Zenon
  <2> HIDE DEF a
  <2>5. gmult(e, a) \in Element
    BY <2>1, <2>4, MultType, Zenon
  <2>6. Multiplies(e, a, r)
    BY <2>1, <2>4, MultOrder, Zenon
  <2>7. gmult(gmult(e, a), r) = gmult(e, gmult(a, r))
    BY <2>6 DEF Multiplies
  <2> QED
    BY <2>1, <2>2, <2>3, <2>5, <2>7
<1>5. Terms(c, N) /\ Terms(w, N)
  BY <1>4 DEF Terms
<1>6. \A i \in 1 .. N : u[i] = v[i]
  BY <1>4
<1> HIDE DEF u, v
<1>7. Summed(N, u) = Summed(N, v)
  BY <1>2, <1>6, SummedSame
<1>8. Conv(lam, syn, T + j - 1) \in Element
  BY <1>2, <1>3, PairsTerms
<1> QED
  BY <1>1, <1>5, <1>7, <1>8 DEF v

\* The value of omega at an error's locator: only that error is in it.
LEMMA OmegaValue ==
  ASSUME NEW syn, NEW E, NEW lam, NEW L, Solved(lam, L, syn, E),
         NEW p \in 1 .. N, E[p] # 0, NEW y, y = Locator[p],
         NEW om, \A j \in 1 .. t : om[j] = Conv(lam, syn, T + j - 1)
  PROVE  /\ Terms(om, t)
         /\ Rising(t, om, y) = gmult(gpow(y, t - 1),
              gmult(gmult(E[p], gpow(y, T + 1)), Summed(t, Slices(lam, y, y))))
<1> DEFINE d == L + 1
           a == [j \in 1 .. t |-> gpow(y, 1 - j)]
           c == [i \in 1 .. N |-> gmult(E[i], gpow(Locator[i], T + 1))]
           M == [j \in 1 .. t |-> [i \in 1 .. N |-> Rising(j, lam, Locator[i])]]
           f == [j \in 1 .. t |-> gmult(om[j], gpow(y, 1 - j))]
           h == [i \in 1 .. N |-> gmult(c[i], Summed(t, Weighed(a, M, t, i)))]
<1>1. d = L + 1
  OBVIOUS
<1>2. /\ L \in 0 .. t /\ L \in Nat /\ d \in Nat /\ After(L, d) /\ Terms(E, N) /\ Terms(lam, d)
      /\ \A i \in 1 .. N : E[i] # 0 <=> Rising(d, lam, Locator[i]) = 0
  <2> HIDE DEF d
  <2> QED
    BY <1>1, RootsAreErrors
<1>3. Poly(lam) /\ Short(lam, d)
  BY DEF Solved
<1>4. /\ t \in Nat /\ N \in Nat /\ L <= t /\ T + 1 \in Int /\ T \in Nat
      /\ \A j \in 1 .. t : 1 - j \in Int
  BY <1>2, SizesAre
<1> HIDE DEF d
<1>5. \A i \in 1 .. N : /\ Locator[i] \in Element /\ Locator[i] # 0 /\ E[i] \in Element
                        /\ Rising(d, lam, Locator[i]) \in Element
  BY <1>2, LocatedIs
<1>6. \A i \in 1 .. N : Locator[i] = Locator[p] => i = p
  BY LocatorsAre DEF Locators
<1>7. y \in Element /\ y # 0 /\ Rising(d, lam, y) = 0
  BY <1>2, <1>5
<1>8. ASSUME NEW j \in 1 .. t
      PROVE  /\ Terms(c, N) /\ Terms(M[j], N) /\ om[j] \in Element
             /\ om[j] = Summed(N, [i \in 1 .. N |-> gmult(c[i], M[j][i])])
  <2> DEFINE w == [i \in 1 .. N |-> Rising(j, lam, Locator[i])]
  <2>1. M[j] = w
    OBVIOUS
  <2>2. ValuesAt(w, j, lam) /\ Shared(c, E)
    BY DEF ValuesAt, Shared
  <2> HIDE DEF w, c, M
  <2>3. /\ Terms(c, N) /\ Terms(w, N) /\ Conv(lam, syn, T + j - 1) \in Element
        /\ Conv(lam, syn, T + j - 1) = Summed(N, [i \in 1 .. N |-> gmult(c[i], w[i])])
    BY <2>2, OmegaShares
  <2> QED
    BY <2>1, <2>3
<1>9. Terms(c, N)
  <2>1. 1 \in 1 .. t
    BY SizesAre
  <2> QED
    BY <2>1, <1>8
<1>10. Terms(a, t) /\ \A j \in 1 .. t : a[j] = gpow(y, 1 - j) /\ a[j] \in Element
  <2>1. \A j \in 1 .. t : gpow(y, 1 - j) \in Element
    BY <1>4, <1>7, PowType, Zenon
  <2> QED
    BY <2>1 DEF Terms
<1>11. \A j \in 1 .. t : f[j] = gmult(a[j], Summed(N, [i \in 1 .. N |-> gmult(c[i], M[j][i])]))
  <2> SUFFICES ASSUME NEW j \in 1 .. t
               PROVE  f[j] = gmult(a[j], Summed(N, [i \in 1 .. N |-> gmult(c[i], M[j][i])]))
    OBVIOUS
  <2>1. f[j] = gmult(om[j], a[j])
    OBVIOUS
  <2> HIDE DEF f, a, c, M
  <2>2. gmult(om[j], a[j]) = gmult(a[j], om[j])
    BY <1>8, <1>10, MultCommutes, Zenon
  <2>3. om[j] = Summed(N, [i \in 1 .. N |-> gmult(c[i], M[j][i])])
    BY <1>8, Zenon
  <2> QED
    BY <2>1, <2>2, <2>3, Zenon
<1>12. \A i \in 1 .. N : h[i] = gmult(c[i], Summed(t, Weighed(a, M, t, i)))
  OBVIOUS
<1>13. ASSUME NEW i \in 1 .. N
       PROVE  Summed(t, Weighed(a, M, t, i)) = Summed(t, Slices(lam, Locator[i], y))
  <2>1. \A j \in 1 .. t : Weighed(a, M, t, i)[j] = Slices(lam, Locator[i], y)[j]
    BY DEF Weighed, Slices
  <2> HIDE DEF a, M
  <2> QED
    BY <1>4, <2>1, SummedSame
<1>14. \A j \in 1 .. t : Terms(M[j], N)
  BY <1>8
<1>15. \A j \in 1 .. t : f[j] = gmult(om[j], gpow(y, 1 - j))
  OBVIOUS
<1>16. \A i \in 1 .. N : c[i] = gmult(E[i], gpow(Locator[i], T + 1))
  OBVIOUS
<1> HIDE DEF a, c, M, f, h
<1>17. Terms(f, t) /\ Terms(h, N) /\ Summed(t, f) = Summed(N, h)
  <2>1. RowTerms(M, t, N)
    BY <1>14 DEF RowTerms
  <2>2. ByRows(f, a, c, M, t, N)
    BY <1>11, Zenon DEF ByRows
  <2>3. ByColumns(h, a, c, M, t, N)
    BY <1>12, Zenon DEF ByColumns
  <2> QED
    BY <1>4, <1>9, <1>10, <2>1, <2>2, <2>3, SumsSwap
<1>18. \A i \in 1 .. N : i # p => h[i] = 0
  <2> SUFFICES ASSUME NEW i \in 1 .. N, i # p PROVE h[i] = 0
    OBVIOUS
  <2> DEFINE x == Locator[i]
             v == Summed(t, Slices(lam, x, y))
  <2>1. h[i] = gmult(c[i], v)
    BY <1>12, <1>13
  <2>2. x \in Element /\ x # 0 /\ x # y
    BY <1>5, <1>6
  <2>3. c[i] \in Element
    BY <1>9 DEF Terms
  <2>4. CASE E[i] = 0
    <3>1. gpow(x, T + 1) \in Element
      <4> HIDE DEF x
      <4> QED
        BY <1>4, <2>2, PowType, Zenon
    <3>2. gmult(0, gpow(x, T + 1)) = 0
      BY <3>1, ZeroIs, Zenon
    <3>3. c[i] = 0
      BY <1>16, <2>4, <3>2
    <3>4. h[i] \in Element
      BY <1>17 DEF Terms
    <3>5. v \in Element
      <4>1. Terms(Weighed(a, M, t, i), t)
        <5> SUFFICES ASSUME NEW j \in 1 .. t PROVE Weighed(a, M, t, i)[j] \in Element
          BY DEF Terms
        <5>1. Weighed(a, M, t, i)[j] = gmult(a[j], M[j][i])
          BY DEF Weighed
        <5>2. M[j][i] \in Element
          BY <1>14 DEF Terms
        <5>3. gmult(a[j], M[j][i]) \in Element
          BY <5>2, <1>10, MultType, Zenon
        <5> QED
          BY <5>1, <5>3
      <4>2. Summed(t, Weighed(a, M, t, i)) \in Element
        BY <1>4, <4>1, SummedType
      <4> QED
        BY <4>2, <1>13
    <3> HIDE DEF v
    <3>6. gmult(0, v) = 0
      BY <3>5, ZeroIs, Zenon
    <3> QED
      BY <2>1, <3>3, <3>6
  <2>5. CASE E[i] # 0
    <3>1. Rising(d, lam, x) = 0
      BY <1>2, <2>5
    <3> HIDE DEF x
    <3>2. v = 0
      BY <1>2, <1>3, <1>4, <1>7, <2>2, <3>1, SlicesVanish
    <3> HIDE DEF v
    <3>3. gmult(c[i], 0) = 0
      BY <2>3, ZeroIs, Zenon
    <3> QED
      BY <2>1, <3>2, <3>3
  <2> QED
    BY <2>4, <2>5
<1>19. Summed(N, h) = h[p]
  BY <1>4, <1>17, <1>18, SummedOne
<1>20. h[p] = gmult(gmult(E[p], gpow(y, T + 1)), Summed(t, Slices(lam, y, y)))
  BY <1>12, <1>13, <1>16
<1>21. Terms(om, t)
  BY <1>8 DEF Terms
<1>22. Rising(t, om, y) = gmult(gpow(y, t - 1), Summed(t, f))
  BY <1>4, <1>7, <1>15, <1>21, RisingIs
<1> QED
  BY <1>17, <1>19, <1>20, <1>21, <1>22

LEMMA MultCancels ==
  \A a, b, c \in Element : a # 0 /\ gmult(a, b) = gmult(a, c) => b = c
<1> SUFFICES ASSUME NEW a \in Element, NEW b \in Element, NEW c \in Element,
                    a # 0, gmult(a, b) = gmult(a, c)
             PROVE  b = c
  OBVIOUS
<1> DEFINE i == ginv(a)
<1>1. i \in Element /\ gmult(i, a) = 1
  BY InverseIs
<1> HIDE DEF i
<1>2. Multiplies(i, a, b) /\ Multiplies(i, a, c)
  BY <1>1, MultOrder, Zenon
<1>3. gmult(gmult(i, a), b) = gmult(i, gmult(a, b)) /\ gmult(gmult(i, a), c) = gmult(i, gmult(a, c))
  BY <1>2, Zenon DEF Multiplies
<1>4. gmult(1, b) = b /\ gmult(1, c) = c
  BY MultIs, Zenon
<1> QED
  BY <1>1, <1>3, <1>4

\* What the decoder makes of the numerator: the factor and its inverse, and the
\* denominator, go away.
LEMMA ValueCancels ==
  \A a, u, v, w \in Element : gmult(u, v) = 1 /\ w # 0 =>
    gmult(gmult(gmult(gmult(a, u), w), v), ginv(w)) = a
<1> SUFFICES ASSUME NEW a \in Element, NEW u \in Element, NEW v \in Element, NEW w \in Element,
                    gmult(u, v) = 1, w # 0
             PROVE  gmult(gmult(gmult(gmult(a, u), w), v), ginv(w)) = a
  OBVIOUS
<1> DEFINE i == ginv(w)
           b == gmult(a, u)
<1>1. i \in Element /\ gmult(w, i) = 1
  BY InverseIs
<1>2. b \in Element
  BY MultType, Zenon
<1>3. Multiplies(a, u, v)
  BY MultOrder, Zenon
<1>4. gmult(b, v) = gmult(a, gmult(u, v))
  BY <1>3, Zenon DEF Multiplies
<1>5. gmult(a, 1) = a
  BY MultIs, Zenon
<1> HIDE DEF i, b
<1>6. gmult(b, w) \in Element
  BY <1>2, MultType, Zenon
<1>7. Multiplies(gmult(b, w), v, i)
  BY <1>1, <1>6, MultOrder, Zenon
<1>8. gmult(gmult(gmult(b, w), v), i) = gmult(gmult(b, w), gmult(v, i))
  BY <1>7, Zenon DEF Multiplies
<1>9. MultAcross(b, w, v, i)
  BY <1>1, <1>2, MultSwaps, Zenon
<1>10. gmult(gmult(b, w), gmult(v, i)) = gmult(gmult(b, v), gmult(w, i))
  BY <1>9, Zenon DEF MultAcross
<1>11. gmult(gmult(gmult(b, w), v), i) = a
  BY <1>1, <1>4, <1>5, <1>8, <1>10
<1> QED
  BY <1>11 DEF b, i

\* The register after the last round, for the locator lam.
HoldsFor(D, lam, syn) ==
  /\ Delta(D)
  /\ \A j \in 1 .. t + 1 : D[t + j - 1] = lam[j]
  /\ \A j \in 1 .. t : D[j - 1] = Conv(lam, syn, T + j - 1)

\* The decoder finds the places of the errors and no others.
LEMMA ErrorsFound ==
  ASSUME NEW syn, NEW E, NEW lam, NEW L, Solved(lam, L, syn, E), NEW D, HoldsFor(D, lam, syn)
  PROVE  /\ LambdaDegree(D) = L /\ Cardinality(FoundRoots(D)) = L
         /\ \A k \in FoundRoots(D) :
              /\ N - k \in 1 .. N /\ E[N - k] # 0 /\ Locator[N - k] = Exp(k) /\ k \in Int
         /\ \A i \in 1 .. N : E[i] # 0 => N - i \in FoundRoots(D)
<1> DEFINE d == L + 1
           l == LambdaDegree(D)
<1>1. d = L + 1
  OBVIOUS
<1>2. /\ L \in 0 .. t /\ L \in Nat /\ d \in Nat /\ After(L, d) /\ d \in 1 .. t + 1
      /\ Terms(lam, d) /\ lam[d] # 0 /\ Cardinality(Roots(d, lam)) = L
      /\ \A i \in 1 .. N : E[i] # 0 <=> Rising(d, lam, Locator[i]) = 0
  <2> HIDE DEF d
  <2> QED
    BY <1>1, RootsAreErrors
<1>3. Delta(D) /\ lam[1] # 0 /\ Short(lam, d) /\ t \in Nat /\ T = 2 * t
  BY SizesAre DEF HoldsFor, Solved
<1>4. \A j \in 1 .. t + 1 : Lambda(D)[j] = lam[j]
  BY DEF Lambda, HoldsFor
<1>5. l # -1
  <2>1. 1 \in 1 .. t + 1
    BY <1>3
  <2>2. ~ \A j \in 1 .. t + 1 : Lambda(D)[j] = 0
    BY <1>3, <1>4, <2>1
  <2>3. LambdaDegree(D) = Degree(Lambda(D)) - 1
    BY <2>2 DEF LambdaDegree
  <2>4. Lambda(D) \in [1 .. t + 1 -> Element] /\ t + 1 \in Nat
    BY <1>3, LambdaIs
  <2>5. Degree(Lambda(D)) \in 1 .. t + 1
    <3> DEFINE n == t + 1
               f == Lambda(D)
    <3>1. DOMAIN f = 1 .. n /\ n \in Nat
      BY <2>4
    <3>2. \E j \in 1 .. n : f[j] # 0
      BY <2>2
    <3> HIDE DEF n, f
    <3>3. Degree(f) \in 1 .. n
      BY <3>1, <3>2, DegreeIs
    <3> QED
      BY <3>3 DEF n, f
  <2> QED
    BY <1>3, <2>3, <2>5
<1> HIDE DEF d
<1>6. /\ l \in 0 .. t /\ l + 1 \in 1 .. t + 1 /\ Lambda(D)[l + 1] # 0
      /\ \A j \in 1 .. t + 1 : j > l + 1 => Lambda(D)[j] = 0
      /\ FoundRoots(D) = Powers(l + 1, Lambda(D))
  BY <1>3, <1>5, FoundRootsAre
<1>7. l = L
  <2> HIDE DEF l
  <2>1. Lambda(D)[d] # 0
    BY <1>2, <1>4
  <2>2. l + 1 >= d
    BY <1>2, <1>6, <2>1
  <2>3. lam[l + 1] # 0 /\ l + 1 \in 1 .. T + 1
    BY <1>3, <1>4, <1>6
  <2>4. l + 1 <= d
    BY <1>1, <1>2, <1>3, <1>6, <2>3 DEF Short
  <2> QED
    BY <1>1, <1>2, <1>6, <2>2, <2>4
<1>8. FoundRoots(D) = Powers(d, lam)
  <2>1. \A x : Rising(d, Lambda(D), x) = Rising(d, lam, x)
    <3> SUFFICES ASSUME NEW x PROVE Rising(d, Lambda(D), x) = Rising(d, lam, x)
      OBVIOUS
    <3>1. \A j \in 1 .. d : Lambda(D)[j] = lam[j]
      BY <1>2, <1>3, <1>4
    <3> QED
      BY <1>2, <3>1, RisingSame
  <2>2. FoundRoots(D) = Powers(d, Lambda(D))
    BY <1>1, <1>6, <1>7
  <2> QED
    BY <2>1, <2>2 DEF Powers
<1>9. Cardinality(FoundRoots(D)) = L
  BY <1>2, <1>8, PowersAreRoots
<1>10. N = GF - 1 /\ N \in Nat /\ GF \in Nat
  BY SizesAre
<1>11. ASSUME NEW k \in FoundRoots(D)
       PROVE  /\ N - k \in 1 .. N /\ E[N - k] # 0 /\ Locator[N - k] = Exp(k) /\ k \in Int
  <2>1. k \in 0 .. GF - 2 /\ Rising(d, lam, Exp(k)) = 0
    BY <1>8 DEF Powers
  <2>2. N - k \in 1 .. N /\ N - (N - k) = k
    BY <1>10, <2>1
  <2>3. Locator[N - k] = Exp(k)
    BY <2>2 DEF Locator
  <2> QED
    BY <1>2, <2>1, <2>2, <2>3
<1>12. ASSUME NEW i \in 1 .. N, E[i] # 0 PROVE N - i \in FoundRoots(D)
  <2>1. N - i \in 0 .. GF - 2
    BY <1>10
  <2>2. Rising(d, lam, Exp(N - i)) = 0
    BY <1>2, <1>12, LocatorsAre
  <2> QED
    BY <1>8, <2>1, <2>2 DEF Powers
<1> QED
  BY <1>7, <1>9, <1>11, <1>12

\* The decoder adds each error to its place.
LEMMA ErrorsMeasured ==
  ASSUME NEW syn, NEW E, NEW lam, NEW L, Solved(lam, L, syn, E), NEW D, HoldsFor(D, lam, syn),
         t = OmegaTaps, NEW k \in FoundRoots(D)
  PROVE  ErrorValue(D, k) = E[N - k]
<1> DEFINE d == L + 1
           y == Exp(k)
           p == N - k
           f == Lambda(D)
           e == Derived(D)
           q == [i \in 1 .. d |-> Rising(i, lam, y)]
           o == Omega(D)
           num == Numerator(D, k)
           W == Denominator(D, k)
           S == Summed(t, Slices(lam, y, y))
           u == gpow(y, T + 1)
           v == gpow(ginv(y), 2 * t + 1)
           a == E[p]
<1>1. /\ LambdaDegree(D) = L /\ Cardinality(FoundRoots(D)) = LambdaDegree(D)
      /\ p \in 1 .. N /\ a # 0 /\ Locator[p] = y /\ k \in Int
  BY ErrorsFound
<1>2. d = L + 1 /\ Delta(D) /\ d = LambdaDegree(D) + 1
  BY <1>1 DEF HoldsFor
<1>3. /\ L \in 0 .. t /\ L \in Nat /\ d \in Nat /\ After(L, d) /\ d \in 1 .. t + 1
      /\ Terms(E, N) /\ Terms(lam, d) /\ lam[d] # 0
      /\ Rising(d, lam, y) = 0
  <2> HIDE DEF d, a
  <2>1. /\ L \in 0 .. t /\ L \in Nat /\ d \in Nat /\ After(L, d) /\ d \in 1 .. t + 1
        /\ Terms(E, N) /\ Terms(lam, d) /\ lam[d] # 0
        /\ \A i \in 1 .. N : E[i] # 0 <=> Rising(d, lam, Locator[i]) = 0
    BY <1>2, RootsAreErrors
  <2>2. E[p] # 0
    BY <1>1 DEF a
  <2>3. Rising(d, lam, Locator[p]) = 0
    BY <1>1, <2>1, <2>2
  <2> QED
    BY <1>1, <2>1, <2>3
<1> HIDE DEF d
<1>4. /\ y \in Element /\ y # 0 /\ y \in Roots(d, f)
      /\ Terms(f, d) /\ f[d] # 0 /\ EvenTerms(e, f, d)
      /\ Cardinality(Roots(d, f)) = L
      /\ num = Rising(t, bitroute(o), ginv(y)) /\ bitroute(o) = [i \in 1 .. t |-> o[t - i + 1]]
      /\ num \in Element /\ W \in Element /\ W # 0
      /\ gmult(gpow(y, d - 1), W) = Rising(d, e, y)
      /\ ErrorValue(D, k) = gmult(gmult(num, v), ginv(W))
  <2> HIDE DEF f, e, o, num, W, v
  <2>1. /\ y \in Element /\ y # 0 /\ y \in Roots(d, Lambda(D))
        /\ Terms(Lambda(D), d) /\ Lambda(D)[d] # 0 /\ EvenTerms(Derived(D), Lambda(D), d)
        /\ Cardinality(Roots(d, Lambda(D))) = LambdaDegree(D)
        /\ Numerator(D, k) = Rising(t, bitroute(Omega(D)), ginv(y))
        /\ bitroute(Omega(D)) = [i \in 1 .. t |-> Omega(D)[t - i + 1]]
        /\ Numerator(D, k) \in Element /\ Denominator(D, k) \in Element /\ Denominator(D, k) # 0
        /\ gmult(gpow(y, d - 1), Denominator(D, k)) = Rising(d, Derived(D), y)
        /\ ErrorValue(D, k) = gmult(gmult(Numerator(D, k), gpow(ginv(y), 2 * t + 1)),
                                    ginv(Denominator(D, k)))
    BY <1>1, <1>2, ErrorValueIs
  <2> QED
    BY <1>1, <2>1 DEF f, e, o, num, W, v
<1>5. /\ T = 2 * t /\ t \in Nat /\ T \in Nat /\ T + 1 \in Int /\ t - 1 \in Int /\ L - 1 \in Int
      /\ d - 1 = L /\ L <= t /\ L \in Int /\ 2 * t + 1 = T + 1 /\ -(T + 1) \in Int
  BY <1>3, SizesAre DEF After
<1>6. QuotientBy(q, lam, d, y)
  BY DEF QuotientBy
<1>7. QuotientBy(q, f, d, y)
  <2> SUFFICES ASSUME NEW i \in 1 .. d PROVE q[i] = Rising(i, f, y)
    BY DEF QuotientBy
  <2>1. i \in Nat /\ \A j \in 1 .. i : f[j] = lam[j]
    BY <1>3, <1>5 DEF Lambda, HoldsFor
  <2> HIDE DEF f, y
  <2>2. Rising(i, f, y) = Rising(i, lam, y)
    BY <2>1, RisingSame
  <2> QED
    BY <2>2
<1>8. Poly(lam) /\ Short(lam, d)
  BY <1>2 DEF Solved
<1> HIDE DEF q, f, e, y
<1>9. S \in Element /\ Rising(L, q, y) = gmult(gpow(y, L - 1), S)
  BY <1>3, <1>4, <1>5, <1>6, <1>8, SlicesAre
<1>10. Rising(d, e, y) = gmult(y, Rising(L, q, y))
  BY <1>3, <1>4, <1>7, DerivativeSurvives
<1>11. Terms(o, t) /\ Rising(t, o, y) = gmult(gpow(y, t - 1), gmult(gmult(a, u), S))
  <2>1. \A j \in 1 .. t : o[j] = Conv(lam, syn, T + j - 1)
    BY DEF Omega, HoldsFor
  <2>2. E[p] # 0 /\ y = Locator[p] /\ p \in 1 .. N
    BY <1>1
  <2> HIDE DEF o, p
  <2> QED
    BY <2>1, <2>2, OmegaValue
<1>12. Rising(t, o, y) = gmult(gpow(y, t - 1), num)
  <2>1. Reverses(bitroute(o), o, t)
    BY <1>4 DEF Reverses
  <2> HIDE DEF o, num
  <2> QED
    BY <1>4, <1>5, <1>11, <2>1, ReversedValue
<1>13. a \in Element
  BY <1>1, <1>3 DEF Terms
<1>14. u \in Element /\ v \in Element /\ gmult(u, v) = 1
  <2>1. \A i, j \in Int : gmult(gpow(y, i), gpow(y, j)) = gpow(y, i + j)
    BY <1>4, PowAdds
  <2>2. gpow(ginv(y), T + 1) = gpow(y, -(T + 1))
    BY <1>4, <1>5, PowAdds, Zenon
  <2>3. gmult(gpow(y, T + 1), gpow(y, -(T + 1))) = gpow(y, (T + 1) + -(T + 1))
    BY <1>5, <2>1, Zenon
  <2>4. (T + 1) + -(T + 1) = 0
    BY <1>5
  <2>5. gpow(y, 0) = 1
    BY <1>4, PowIs, Zenon
  <2>6. gpow(y, T + 1) \in Element /\ gpow(y, -(T + 1)) \in Element
    BY <1>4, <1>5, PowType, Zenon
  <2> QED
    BY <1>5, <2>2, <2>3, <2>4, <2>5, <2>6
<1> HIDE DEF S, u, v, num, W, o, a, p
<1>15. num = gmult(gmult(a, u), S)
  <2> DEFINE b == gpow(y, t - 1)
             c == gmult(gmult(a, u), S)
  <2>1. gmult(a, u) \in Element
    BY <1>13, <1>14, MultType, Zenon
  <2>2. c \in Element
    BY <1>9, <2>1, MultType, Zenon
  <2>3. b \in Element /\ b # 0
    BY <1>4, <1>5, PowType, Zenon
  <2>4. gmult(b, num) = gmult(b, c)
    BY <1>11, <1>12
  <2> HIDE DEF b, c
  <2>5. num = c
    BY <1>4, <2>2, <2>3, <2>4, MultCancels, Zenon
  <2> QED
    BY <2>5 DEF c
<1>16. W = S
  <2> DEFINE b == gpow(y, L - 1)
             c == gpow(y, L)
  <2>1. b \in Element /\ c \in Element /\ c # 0
    BY <1>4, <1>5, PowType, Zenon
  <2>2. c = gmult(y, b)
    <3>1. (L - 1) + 1 = L
      BY <1>5
    <3>2. gpow(y, (L - 1) + 1) = gmult(y, gpow(y, L - 1))
      BY <1>4, <1>5, PowIs, Zenon
    <3> QED
      BY <3>1, <3>2
  <2>3. gmult(c, W) = gmult(y, gmult(b, S))
    BY <1>4, <1>5, <1>9, <1>10
  <2> HIDE DEF b, c
  <2>4. Multiplies(y, b, S)
    BY <1>4, <1>9, <2>1, MultOrder, Zenon
  <2>5. gmult(gmult(y, b), S) = gmult(y, gmult(b, S))
    BY <2>4, Zenon DEF Multiplies
  <2>6. gmult(c, W) = gmult(c, S)
    BY <2>2, <2>3, <2>5
  <2> QED
    BY <1>4, <1>9, <2>1, <2>6, MultCancels, Zenon
<1>17. gmult(gmult(gmult(gmult(a, u), S), v), ginv(S)) = a
  <2>1. S # 0
    BY <1>4, <1>16
  <2>2. S \in Element
    BY <1>9
  <2>3. a \in Element /\ u \in Element /\ v \in Element
    BY <1>13, <1>14
  <2>4. gmult(u, v) = 1
    BY <1>14
  <2> QED
    BY <2>1, <2>2, <2>3, <2>4, ValueCancels, SMT
<1> QED
  BY <1>4, <1>15, <1>16, <1>17 DEF a, p

\* A word whose syndromes are all zero has no errors.
LEMMA SyndromesCorrect == RsInv /\ Syndromes => RibmCorrects'
<1> SUFFICES ASSUME RsInv, Syndromes, model' = "xxbm", stage' = "done", Few'
             PROVE  /\ C' = Codeword["xxbm"] /\ root_tmp' = errors'
                    /\ outcome' = IF errors' = {} THEN "no errors" ELSE "decoded"
  BY DEF RibmCorrects
<1>1. /\ s' = [j \in 1 .. T |-> Horner(C, alpha_to[j0[model] + j])]
      /\ UNCHANGED <<model, C, errors, i_round, root_tmp>>
      /\ (\A j \in 1 .. T : s'[j] = 0) /\ outcome' = "no errors"
  BY Zenon DEF Syndromes
<1>2. /\ model = "xxbm" /\ model \in Models /\ C \in [1 .. N -> Element] /\ root_tmp = {}
      /\ errors = Support(Errors, N) /\ Cardinality(errors) <= t
  BY <1>1 DEF RsInv, ShapesOK, NotDone, Syndromes, Few
<1>3. /\ Terms(Errors, N) /\ Support(Errors, N) = {i \in 1 .. N : C[i] # Codeword[model][i]}
      /\ \A j \in 1 .. T : Horner(C, alpha_to[j0[model] + j])
                             = PowerSum(Errors, Locator, N, j0[model] + j - 1)
  BY <1>2, ErrorsAre
<1>4. T \in Nat /\ t \in Nat /\ T = 2 * t /\ N \in Nat
  BY SizesAre
<1>5. Vanishes(Errors, Locator, N, 1, T)
  <2> SUFFICES ASSUME NEW l \in 1 .. T PROVE PowerSum(Errors, Locator, N, l) = 0
    BY <1>4 DEF Vanishes
  <2>1. j0[model] + l - 1 = l
    BY <1>2 DEF j0
  <2> QED
    BY <1>1, <1>3, <2>1
<1>6. \A i \in 1 .. N : Errors[i] = 0
  <2>1. Cardinality(Support(Errors, N)) <= T
    BY <1>2, <1>4, SupportFinite
  <2>2. 1 \in Int
    OBVIOUS
  <2> QED
    BY <1>3, <1>5, <2>1, <2>2, SyndromesShow
<1>7. Support(Errors, N) = {}
  BY <1>6 DEF Support
<1>8. C = Codeword["xxbm"]
  <2>1. \A i \in 1 .. N : C[i] = Codeword["xxbm"][i]
    BY <1>2, <1>3, <1>7
  <2> DEFINE c == Codeword["xxbm"]
  <2>2. c \in [1 .. N -> Element] /\ \A i \in 1 .. N : C[i] = c[i]
    BY <1>2, <2>1, CodewordIs
  <2>3. C \in [1 .. N -> Element]
    BY <1>2
  <2> HIDE DEF c
  <2>4. C = [i \in 1 .. N |-> C[i]] /\ c = [i \in 1 .. N |-> c[i]]
    BY <2>2, <2>3
  <2>5. C = c
    BY <2>2, <2>4
  <2> QED
    BY <2>5 DEF c
<1> QED
  BY <1>1, <1>2, <1>7, <1>8

\* Each place that is found gets its error, and so what it was.
LEMMA XxbmRight == RsInv /\ XxbmCorrect => RibmCorrects'
<1> SUFFICES ASSUME RsInv, XxbmCorrect, Few'
             PROVE  /\ C' = Codeword["xxbm"] /\ root_tmp' = errors'
                    /\ outcome' = IF errors' = {} THEN "no errors" ELSE "decoded"
  BY DEF RibmCorrects
<1> DEFINE D == reg.delta
           E == Errors
           F == FoundRoots(D)
<1>1. /\ stage = "rounds" /\ model = "xxbm" /\ i_round = T
      /\ Correct(LambdaDegree(D), ErrorPlaces(D), ErrorValues(D)) /\ errors' = errors
  BY XxbmCorrects DEF Correct
<1>2. /\ model \in Models /\ C \in [1 .. N -> Element] /\ Syn(s) /\ reg \in Registers
      /\ errors = Support(E, N) /\ Wrong(E) <= t /\ t = OmegaTaps /\ \E j \in 1 .. T : s[j] # 0
  BY <1>1, RsAssumption
  DEF RsInv, ShapesOK, NotDone, SyndromesKnown, RibmKnown, Few, Syn, Wrong
<1>3. /\ Terms(E, N) /\ errors = {i \in 1 .. N : C[i] # Codeword["xxbm"][i]}
      /\ \A i \in 1 .. N : gsum(E[i], C[i]) = Codeword["xxbm"][i]
  BY <1>1, <1>2, ErrorsAre
<1>4. SyndromesOf(s, E)
  BY <1>1, RibmSyndromes
<1>5. T \in Nat /\ t \in Nat /\ T = 2 * t /\ N \in Nat /\ T \in 0 .. T /\ t >= 1
  BY SizesAre
<1>6. PICK lam, b, L : KeyEquation(lam, b, L, T, reg, s) /\ L <= Wrong(E)
  BY <1>1 DEF RsInv, RibmKnown
<1>7. /\ L \in 0 .. T /\ L \in Nat /\ L <= t /\ Wrong(E) \in Nat
  BY <1>2, <1>5, <1>6, SupportFinite DEF KeyEquation, Wrong
<1>8. Solved(lam, L, s, E)
  BY <1>2, <1>4, <1>6, <1>7 DEF Solved, KeyEquation
<1>9. HoldsFor(D, lam, s)
  <2>1. \A j \in 1 .. T + 1 : D[3 * t - T + j - 1] = lam[j]
    BY <1>2, <1>5, <1>6, <1>7, RegisterHolds
  <2>2. \A j \in 1 .. t + 1 : D[t + j - 1] = lam[j]
    <3> SUFFICES ASSUME NEW j \in 1 .. t + 1 PROVE D[t + j - 1] = lam[j]
      OBVIOUS
    <3>1. j \in 1 .. T + 1 /\ 3 * t - T + j - 1 = t + j - 1
      BY <1>5
    <3> QED
      BY <2>1, <3>1
  <2>3. \A j \in 1 .. t : D[j - 1] = Conv(lam, s, T + j - 1)
    <3> SUFFICES ASSUME NEW j \in 1 .. t PROVE D[j - 1] = Conv(lam, s, T + j - 1)
      OBVIOUS
    <3>1. j - 1 \in 0 .. 3 * t + 1 /\ T + (j - 1) = T + j - 1
      BY <1>5
    <3>2. D[j - 1] = Conv(lam, s, T + (j - 1))
      BY <1>6, <3>1 DEF KeyEquation
    <3> QED
      BY <3>1, <3>2
  <2>4. Delta(D)
    BY <1>2 DEF Registers, Delta
  <2> HIDE DEF D
  <2> QED
    BY <2>2, <2>3, <2>4 DEF HoldsFor
<1> HIDE DEF D, E
<1>10. /\ LambdaDegree(D) = L /\ Cardinality(F) = L
       /\ \A k \in F : N - k \in 1 .. N /\ E[N - k] # 0 /\ k \in Int
       /\ \A i \in 1 .. N : E[i] # 0 => N - i \in F
  BY <1>8, <1>9, ErrorsFound
<1>11. \A k \in F : ErrorValue(D, k) = E[N - k]
  BY <1>2, <1>8, <1>9, ErrorsMeasured
<1>12. errors # {} /\ L # 0
  <2>1. L = Wrong(E)
    <3> DEFINE d == L + 1
    <3>1. d = L + 1
      OBVIOUS
    <3> HIDE DEF d
    <3> QED
      BY <1>8, <3>1, RootsAreErrors
  <2>2. \E i \in 1 .. N : E[i] # 0
    <3> SUFFICES ASSUME \A i \in 1 .. N : E[i] = 0 PROVE FALSE
      OBVIOUS
    <3>1. \A l \in Int : PowerSum(E, Locator, N, l) = 0
      <4>1. 1 \in Int
        OBVIOUS
      <4> QED
        BY <1>3, <4>1, SyndromesShow
    <3>2. \A j \in 1 .. T : s[j] = 0
      BY <1>4, <3>1 DEF SyndromesOf
    <3> QED
      BY <1>2, <3>2
  <2>3. Support(E, N) # {}
    BY <2>2 DEF Support
  <2>4. Cardinality(Support(E, N)) # 0
    BY <1>5, <2>3, SupportFinite, FS_EmptySet
  <2> QED
    BY <1>2, <2>1, <2>3, <2>4 DEF Wrong
<1>13. /\ DOMAIN ErrorPlaces(D) = F
       /\ \A k \in F : ErrorPlaces(D)[k] = N - k /\ ErrorValues(D)[k] = E[N - k]
  BY <1>11 DEF ErrorPlaces, ErrorValues
<1> DEFINE places == ErrorPlaces(D)
           values == ErrorValues(D)
<1>14. /\ outcome' = "decoded" /\ root_tmp' = {places[r] : r \in DOMAIN places}
       /\ C' = [i \in 1 .. N |->
                  IF i \in root_tmp'
                  THEN gsum(values[CHOOSE r \in DOMAIN places : places[r] = i], C[i])
                  ELSE C[i]]
  BY <1>1, <1>10, <1>12, <1>13 DEF Correct
<1> HIDE DEF F, places, values
<1>15. DOMAIN places = F /\ \A k \in F : places[k] = N - k /\ values[k] = E[N - k]
  BY <1>13 DEF places, values
<1>16. root_tmp' = errors
  <2>1. root_tmp' = {N - k : k \in F}
    BY <1>14, <1>15
  <2>2. errors = {i \in 1 .. N : E[i] # 0}
    BY <1>2 DEF Support
  <2>3. \A i \in 1 .. N : N - (N - i) = i
    BY <1>5
  <2> QED
    BY <1>10, <2>1, <2>2, <2>3
<1>17. ASSUME NEW i \in 1 .. N PROVE C'[i] = Codeword["xxbm"][i]
  <2>1. CASE i \in errors
    <3> DEFINE r == CHOOSE r \in DOMAIN places : places[r] = i
    <3>1. \E k \in DOMAIN places : places[k] = i
      BY <1>14, <1>16, <2>1
    <3>2. r \in DOMAIN places /\ places[r] = i
      BY <3>1
    <3>3. C'[i] = gsum(values[r], C[i])
      BY <1>14, <1>16, <2>1
    <3> HIDE DEF r
    <3>4. N - r = i /\ values[r] = E[N - r]
      BY <1>15, <3>2
    <3> QED
      BY <1>3, <3>3, <3>4
  <2>2. CASE i \notin errors
    BY <1>3, <1>14, <1>16, <2>2
  <2> QED
    BY <2>1, <2>2
<1>18. C' = Codeword["xxbm"]
  <2>1. Codeword["xxbm"] \in [1 .. N -> Element]
    BY <1>1, <1>2, CodewordIs
  <2>2. C' = [i \in 1 .. N |-> C'[i]]
    BY <1>14
  <2> QED
    BY <1>17, <2>1, <2>2
<1> QED
  BY <1>1, <1>12, <1>14, <1>16, <1>18

\* The decoder of xxbm puts up to t overwritten symbols of main.m's codeword
\* right, wherever they are, and changes no other, for every field and length
\* of message it fits, and for the t its literal eight is right for
\* (RsAssumption; rs_decoder, whole).
THEOREM ErrorsAreCorrected == RsSpec => []RibmCorrects
<1>1. RsInit => RibmCorrects
  BY DEF RsInit, RibmCorrects
<1>2. RsInv /\ RibmCorrects /\ [RsNext]_rsVars => RibmCorrects'
  <2> SUFFICES ASSUME RsInv, RibmCorrects, [RsNext]_rsVars PROVE RibmCorrects'
    OBVIOUS
  <2>1. CASE Syndromes
    BY <2>1, SyndromesCorrect
  <2>2. CASE RibmRound
    <3>1. stage' = "rounds"
      BY <2>2, RibmRoundSteps
    <3> QED
      BY <3>1 DEF RibmCorrects
  <2>3. CASE BmRound
    <3>1. stage' = "rounds"
      BY <2>3, BmRoundSteps
    <3> QED
      BY <3>1 DEF RibmCorrects
  <2>4. CASE XxbmCorrect
    BY <2>4, XxbmRight
  <2>5. CASE GmultCorrect
    <3>1. model' = "gmult"
      BY <2>5, GmultCorrects DEF Correct
    <3> QED
      BY <3>1 DEF RibmCorrects
  <2>6. CASE UNCHANGED rsVars
    BY <2>6 DEF rsVars, RibmCorrects, Few
  <2> QED
    BY <2>1, <2>2, <2>3, <2>4, <2>5, <2>6 DEF RsNext, Ended
<1> QED
  BY <1>1, <1>2, RsInvariance, PTL DEF RsSpec

-----------------------------------------------------------------------------
(***************************************************************************)
(* The older loop.  It divides where gribm multiplies: its polynomials are *)
(* multiples of those of gribm, round by round, and have the same roots.   *)
(***************************************************************************)
LEMMA ScaleKeeps ==
  \A c, e, l \in Element : e # 0 => gmult(gmult(c, ginv(e)), gmult(e, l)) = gmult(c, l)
<1> SUFFICES ASSUME NEW c \in Element, NEW e \in Element, NEW l \in Element, e # 0
             PROVE  gmult(gmult(c, ginv(e)), gmult(e, l)) = gmult(c, l)
  OBVIOUS
<1> DEFINE i == ginv(e)
           el == gmult(e, l)
<1>1. i \in Element /\ gmult(i, e) = 1
  BY InverseIs
<1>2. el \in Element
  BY MultType, Zenon
<1> HIDE DEF i
<1>3. Multiplies(i, e, l)
  BY <1>1, MultOrder, Zenon
<1>4. gmult(1, l) = l
  BY MultIs, Zenon
<1>5. gmult(i, el) = l
  BY <1>1, <1>3, <1>4 DEF Multiplies
<1> HIDE DEF el
<1>6. Multiplies(c, i, el)
  BY <1>1, <1>2, MultOrder, Zenon
<1>7. gmult(gmult(c, i), el) = gmult(c, l)
  BY <1>5, <1>6 DEF Multiplies
<1> QED
  BY <1>7 DEF i, el

LEMMA ScaleDivides ==
  \A c, x, l \in Element : c # 0 /\ x # 0 =>
    /\ gmult(c, x) # 0 /\ gdiv(gmult(c, l), gmult(c, x)) = gmult(ginv(x), l)
<1> SUFFICES ASSUME NEW c \in Element, NEW x \in Element, NEW l \in Element, c # 0, x # 0
             PROVE  gmult(c, x) # 0 /\ gdiv(gmult(c, l), gmult(c, x)) = gmult(ginv(x), l)
  OBVIOUS
<1> DEFINE i == ginv(x)
           d == gmult(c, x)
           w == ginv(d)
           e == gmult(c, l)
<1>1. d \in Element /\ e \in Element /\ i \in Element
  BY MultType, InverseIs, Zenon
<1>2. d # 0
  BY MultIs, Zenon
<1>3. gmult(x, i) = 1
  BY InverseIs, Zenon
<1>4. d = gmult(x, c)
  BY MultCommutes, Zenon
<1>5. Multiplies(x, i, l) /\ Multiplies(x, c, l)
  BY <1>1, MultOrder, Zenon
<1>6. gmult(1, l) = l
  BY MultIs, Zenon
<1>7. gmult(x, gmult(i, l)) = l
  BY <1>3, <1>5, <1>6 DEF Multiplies
<1>8. gmult(x, e) = gmult(d, l)
  BY <1>4, <1>5 DEF Multiplies
<1> HIDE DEF d, e, i
<1>9. w \in Element /\ gmult(d, w) = 1
  BY <1>1, <1>2, InverseIs, Zenon
<1>10. gdiv(e, d) = gmult(e, w)
  BY <1>1, <1>2, DivIs, Zenon
<1> HIDE DEF w
<1>11. Multiplies(x, e, w) /\ MultAcross(d, l, w, 1) /\ gmult(i, l) \in Element
       /\ gmult(e, w) \in Element /\ gmult(w, 1) = w /\ gmult(l, 1) = l
  <2>1. 1 \in Element
    BY ElementIs
  <2>2. Multiplies(x, e, w)
    BY <1>1, <1>9, MultOrder, Zenon
  <2>3. MultAcross(d, l, w, 1)
    BY <1>1, <1>9, <2>1, MultSwaps, Zenon
  <2>4. gmult(i, l) \in Element /\ gmult(e, w) \in Element
    BY <1>1, <1>9, MultType, Zenon
  <2>5. gmult(w, 1) = w /\ gmult(l, 1) = l
    BY <1>9, MultIs, Zenon
  <2> QED
    BY <2>2, <2>3, <2>4, <2>5
<1>12. gmult(gmult(d, l), w) = l
  <2>1. gmult(gmult(d, l), gmult(w, 1)) = gmult(gmult(d, w), gmult(l, 1))
    BY <1>11, Zenon DEF MultAcross
  <2> QED
    BY <1>6, <1>9, <1>11, <2>1
<1>13. gmult(x, gmult(e, w)) = gmult(x, gmult(i, l))
  BY <1>7, <1>8, <1>11, <1>12 DEF Multiplies
<1>14. gmult(e, w) = gmult(i, l)
  BY <1>11, <1>13, MultCancels, Zenon
<1>15. gdiv(e, d) = gmult(i, l)
  BY <1>10, <1>14
<1> QED
  BY <1>2, <1>15 DEF d, e, i

Multiple(f, c, p) == \A j \in 1 .. T : f[j] = gmult(c, p[j])

\* B are registers of the older loop, R those of gribm after as many rounds.
Simulates(B, R, lam, b, L, c, r, syn) ==
  /\ R \in Registers /\ KeyEquation(lam, b, L, r, R, syn)
  /\ c \in Element /\ c # 0 /\ B.l_er = L /\ B.idx_i = L - 1
  /\ Multiple(B.lambda, c, lam) /\ Multiple(B.prev_lambda, ginv(R.gamma), TimesX(b))

LEMMA SimulationStarts ==
  ASSUME NEW syn, Syn(syn)
  PROVE  Simulates(BmStart, RibmStart(syn), One, One, 0, 1, 0, syn)
<1> DEFINE R == RibmStart(syn)
           o == 1
<1>1. R \in Registers /\ KeyEquation(One, One, 0, 0, R, syn) /\ R.gamma = 1
  BY RibmStarts DEF RibmStart
<1>2. T \in Nat /\ T >= 2 /\ o \in Element /\ o # 0
  BY SizesAre, ElementIs
<1>3. \A v \in Element : gmult(o, v) = v
  BY MultIs, Zenon
<1>4. ginv(o) = o
  <2>1. ginv(o) \in Element /\ gmult(o, ginv(o)) = 1
    BY <1>2, InverseIs, Zenon
  <2> QED
    BY <1>3, <2>1
<1>5. ASSUME NEW j \in 1 .. T
      PROVE  /\ BmStart.lambda[j] = One[j] /\ One[j] \in Element
             /\ BmStart.prev_lambda[j] = TimesX(One)[j] /\ TimesX(One)[j] \in Element
  <2>1. j \in 1 .. T + 1 /\ (j # 1 => j - 1 \in 1 .. T + 1 /\ (j - 1 = 1 <=> j = 2))
    BY <1>2
  <2>2. 0 \in Element /\ 1 \in Element
    BY ElementIs
  <2>3. One[j] = IF j = 1 THEN 1 ELSE 0
    BY <2>1 DEF One
  <2>4. TimesX(One)[j] = IF j = 2 THEN 1 ELSE 0
    BY <2>1 DEF TimesX, One
  <2> QED
    BY <2>2, <2>3, <2>4 DEF BmStart
<1>6. BmStart.l_er = 0 /\ BmStart.idx_i = 0 - 1
  BY DEF BmStart
<1>7. Multiple(BmStart.lambda, o, One) /\ Multiple(BmStart.prev_lambda, ginv(o), TimesX(One))
  <2> HIDE DEF o
  <2> QED
    BY <1>3, <1>4, <1>5 DEF Multiple
<1> QED
  BY <1>1, <1>2, <1>6, <1>7 DEF Simulates

\* The discrepancies are multiples of each other.
LEMMA BmDiscrepIs ==
  ASSUME Syn(s), i_round \in 0 .. T - 1, BmKept(reg, i_round), NEW R, NEW lam, NEW b, NEW L,
         NEW c, Simulates(reg, R, lam, b, L, c, i_round, s)
  PROVE  BmDiscrep = gmult(c, Conv(lam, s, i_round))
<1> DEFINE f == reg.lambda
           a == reg.lambda_deg
           p == Pairs(lam, s, i_round)
           h == [i \in 1 .. T + 1 |-> gmult(c, p[i])]
           n == T + 1
           d == BmBound + 1
<1>1. /\ a \in 0 .. T - 1 /\ f \in [1 .. T -> Element] /\ EndsAt(f, a) /\ reg.l_er = L
      /\ Poly(lam) /\ L \in 0 .. i_round /\ Short(lam, L + 1) /\ c \in Element /\ c # 0
      /\ Multiple(f, c, lam)
  BY DEF BmKept, BmRegisters, Simulates, KeyEquation
<1>2. T \in Nat /\ n \in Nat /\ i_round \in Int /\ i_round <= T - 1 /\ i_round >= 0
  BY SizesAre
<1> HIDE DEF f, a
<1>3. d \in 1 .. i_round + 1 /\ d \in Nat /\ d <= n /\ d <= L + 1 /\ (d = L + 1 \/ d = a + 1)
  BY <1>1, <1>2 DEF BmBound, a
<1>4. Terms(p, n) /\ Conv(lam, s, i_round) = Summed(n, p)
  BY <1>1, <1>2, PairsTerms DEF Conv
<1>5. \A i \in 1 .. n : h[i] = gmult(c, p[i])
  OBVIOUS
<1>6. ASSUME NEW i \in 1 .. n
      PROVE  /\ lam[i] \in Element /\ p[i] = gmult(lam[i], Extended(s, i_round - i + 1))
             /\ Extended(s, i_round - i + 1) \in Element
  <2>1. i_round - i + 1 \in Int
    BY <1>2
  <2> QED
    BY <1>1, <2>1, ExtendedType DEF Poly, Terms, Pairs
<1> HIDE DEF h, p, n, d
<1>7. Terms(h, n) /\ Summed(n, h) = gmult(c, Summed(n, p))
  BY <1>1, <1>2, <1>4, <1>5, SummedScales
<1>8. ASSUME NEW i \in 1 .. n, i > d PROVE h[i] = 0
  <2>1. lam[i] = 0
    <3>1. CASE i > L + 1
      BY <1>1, <3>1 DEF Short, n
    <3>2. CASE i <= L + 1
      <4>1. i \in 1 .. T /\ i > a + 1
        BY <1>1, <1>2, <1>3, <1>8, <3>2
      <4>2. f[i] = 0 /\ f[i] = gmult(c, lam[i])
        BY <1>1, <4>1 DEF EndsAt, Multiple
      <4> QED
        BY <1>1, <1>6, <4>2, MultIs, Zenon
    <3> QED
      BY <1>1, <1>2, <3>1, <3>2
  <2>2. gmult(0, Extended(s, i_round - i + 1)) = 0
    BY <1>6, ZeroIs, Zenon
  <2>3. gmult(c, 0) = 0
    BY <1>1, ZeroIs, Zenon
  <2> QED
    BY <1>5, <1>6, <2>1, <2>2, <2>3
<1>9. Summed(n, h) = Summed(d, h)
  <2>1. \A i \in d + 1 .. n : h[i] = 0
    BY <1>2, <1>3, <1>8
  <2> QED
    BY <1>2, <1>3, <1>7, <2>1, SummedShort
<1>10. ASSUME NEW i \in 1 .. d PROVE h[i] = BmTerms[i]
  <2> DEFINE l == i_round - i + 1
             e == Extended(s, l)
             x == lam[i]
  <2>1. l \in 0 .. T - 1 /\ l + 1 = (i_round + 1) - i + 1 /\ i \in 1 .. n /\ i \in 1 .. T
    BY <1>1, <1>2, <1>3 DEF n
  <2>2. e = s[(i_round + 1) - i + 1]
    <3> HIDE DEF l
    <3>1. e = s[l + 1]
      BY <2>1 DEF Extended
    <3> QED
      BY <2>1, <3>1
  <2>3. BmTerms[i] = gmult(e, f[i])
    BY <2>2 DEF BmTerms, d, f
  <2>4. f[i] = gmult(c, x) /\ x \in Element /\ e \in Element /\ h[i] = gmult(c, gmult(x, e))
    BY <1>1, <1>5, <1>6, <2>1 DEF Multiple
  <2> HIDE DEF x, e
  <2>5. Multiplies(c, x, e) /\ gmult(c, x) \in Element
    BY <1>1, <2>4, MultOrder, MultType, Zenon
  <2>6. gmult(e, gmult(c, x)) = gmult(gmult(c, x), e)
    BY <2>4, <2>5, MultCommutes, Zenon
  <2>7. gmult(gmult(c, x), e) = gmult(c, gmult(x, e))
    BY <2>5 DEF Multiplies
  <2> QED
    BY <2>3, <2>4, <2>6, <2>7
<1>11. Summed(d, h) = Summed(d, BmTerms)
  BY <1>3, <1>10, SummedSame
<1> QED
  BY <1>4, <1>7, <1>9, <1>11 DEF BmDiscrep, d

LEMMA TauScales ==
  \A c, x, e, l, v \in Element : e # 0 =>
    gsum(gmult(c, l), gmult(gmult(c, x), gmult(ginv(e), v)))
      = gmult(gmult(c, ginv(e)), gsum(gmult(e, l), gmult(x, v)))
<1> SUFFICES ASSUME NEW c \in Element, NEW x \in Element, NEW e \in Element, NEW l \in Element,
                    NEW v \in Element, e # 0
             PROVE  gsum(gmult(c, l), gmult(gmult(c, x), gmult(ginv(e), v)))
                      = gmult(gmult(c, ginv(e)), gsum(gmult(e, l), gmult(x, v)))
  OBVIOUS
<1> DEFINE i == ginv(e)
           ci == gmult(c, i)
           el == gmult(e, l)
           xv == gmult(x, v)
<1>1. i \in Element
  BY InverseIs, Zenon
<1>2. gmult(ci, el) = gmult(c, l)
  BY ScaleKeeps, Zenon
<1> HIDE DEF i
<1>3. MultAcross(c, x, i, v)
  BY <1>1, MultSwaps, Zenon
<1>4. ci \in Element /\ el \in Element /\ xv \in Element
  BY <1>1, MultType, Zenon
<1>5. gmult(gmult(c, x), gmult(i, v)) = gmult(ci, xv)
  BY <1>3, Zenon DEF MultAcross
<1> HIDE DEF ci, el, xv
<1>6. Distributes(ci, el, xv)
  BY <1>4, MultDistributes, Zenon
<1>7. gmult(ci, gsum(el, xv)) = gsum(gmult(ci, el), gmult(ci, xv))
  BY <1>6, Zenon DEF Distributes
<1>8. gsum(gmult(c, l), gmult(gmult(c, x), gmult(i, v))) = gmult(ci, gsum(el, xv))
  BY <1>2, <1>5, <1>7
<1> QED
  BY <1>8 DEF i, ci, el, xv

\* A sequence after its new head.
LEMMA HeadedIs ==
  ASSUME NEW S, NEW v \in S, NEW h \in Seq(S)
  PROVE  (<<v>> \o h)[1] = v /\ \A j \in 1 .. Len(h) : (<<v>> \o h)[1 + j] = h[j]
<1>1. <<v>> \in Seq(S) /\ Len(<<v>>) = 1 /\ <<v>>[1] = v /\ Len(h) \in Nat
  OBVIOUS
<1>2. \A j \in 1 .. Len(<<v>>) + Len(h) :
        (<<v>> \o h)[j] = IF j <= Len(<<v>>) THEN <<v>>[j] ELSE h[j - Len(<<v>>)]
  BY <1>1
<1>3. (<<v>> \o h)[1] = v
  BY <1>1, <1>2
<1>4. ASSUME NEW j \in 1 .. Len(h) PROVE (<<v>> \o h)[1 + j] = h[j]
  <2>1. 1 + j \in 1 .. Len(<<v>>) + Len(h) /\ ~(1 + j <= Len(<<v>>)) /\ 1 + j - Len(<<v>>) = j
    BY <1>1
  <2> QED
    BY <1>2, <2>1
<1> QED
  BY <1>3, <1>4

\* What is kept of the locator, moved up by a place.
LEMMA KeptMoves ==
  ASSUME NEW r \in 0 .. T - 1, NEW B, BmKept(B, r), NEW d \in Element
  PROVE  /\ BmStepped(B, r, d).prev_lambda[1] = 0
         /\ \A j \in 1 .. T : j # 1 =>
              /\ j - 1 \in 1 .. T
              /\ BmStepped(B, r, d).prev_lambda[j] = BmKeeps(B, r, d)[j - 1]
<1> DEFINE keeps == BmKeeps(B, r, d)
           h == SubSeq(keeps, 1, T - 1)
           p == BmStepped(B, r, d).prev_lambda
<1>1. B.lambda \in [1 .. T -> Element] /\ B.prev_lambda \in [1 .. T -> Element]
  BY DEF BmKept, BmRegisters
<1>2. T \in Nat /\ T >= 2
  BY SizesAre
<1>3. p = <<0>> \o h
  BY DEF BmStepped
<1>4. keeps \in [1 .. T -> Element]
  <2>1. CASE BmGrows(B, r, d)
    <3>1. d # 0
      BY <2>1 DEF BmGrows
    <3>2. \A q \in 1 .. T : gdiv(B.lambda[q], d) \in Element
      BY <1>1, <3>1, DivIs
    <3> QED
      BY <2>1, <3>2 DEF BmKeeps
  <2>2. CASE ~BmGrows(B, r, d)
    BY <1>1, <2>2 DEF BmKeeps
  <2> QED
    BY <2>1, <2>2
<1> HIDE DEF keeps, p
<1>5. keeps \in Seq(Element) /\ Len(keeps) = T
  BY <1>2, <1>4, LengthIs
<1>6. h \in Seq(Element) /\ Len(h) = T - 1 /\ \A i \in 1 .. T - 1 : h[i] = keeps[i]
  BY <1>2, <1>5
<1> HIDE DEF h
<1>7. (<<0>> \o h)[1] = 0 /\ \A j \in 2 .. T : (<<0>> \o h)[j] = h[j - 1]
  <2>1. 0 \in Element /\ h \in Seq(Element) /\ Len(h) = T - 1
    BY <1>6, ElementIs
  <2>2. (<<0>> \o h)[1] = 0 /\ \A j \in 1 .. T - 1 : (<<0>> \o h)[1 + j] = h[j]
    BY <2>1, HeadedIs
  <2> DEFINE w == <<0>> \o h
  <2> HIDE DEF w
  <2>3. ASSUME NEW j \in 2 .. T PROVE w[j] = h[j - 1]
    <3>1. j - 1 \in 1 .. T - 1 /\ 1 + (j - 1) = j
      BY <1>2
    <3>2. w[1 + (j - 1)] = h[j - 1]
      BY <2>2, <3>1 DEF w
    <3> QED
      BY <3>1, <3>2
  <2> QED
    BY <2>2, <2>3 DEF w
<1>8. ASSUME NEW j \in 1 .. T, j # 1 PROVE j - 1 \in 1 .. T /\ p[j] = keeps[j - 1]
  <2>1. j \in 2 .. T /\ j - 1 \in 1 .. T - 1 /\ j - 1 \in 1 .. T
    BY <1>2, <1>8
  <2>2. p[j] = h[j - 1]
    BY <1>3, <1>7, <2>1, Zenon
  <2>3. h[j - 1] = keeps[j - 1]
    BY <1>6, <2>1
  <2> QED
    BY <2>1, <2>2, <2>3
<1> QED
  BY <1>3, <1>7, <1>8 DEF keeps, p

\* A round of the older loop follows one of gribm.
LEMMA BmFollowsRound ==
  ASSUME NEW syn, Syn(syn), NEW r \in 0 .. T - 1, NEW B, BmKept(B, r), NEW R, NEW lam, NEW b,
         NEW L, NEW c, Simulates(B, R, lam, b, L, c, r, syn),
         NEW d, d = gmult(c, Conv(lam, syn, r)), NEW L1, L1 = DegreeNext(R, L, r),
         Stepped(R) \in Registers,
         KeyEquation(LambdaNext(R, lam, b), EarlierNext(R, lam, b), L1, r + 1, Stepped(R), syn)
  PROVE  Simulates(BmStepped(B, r, d), Stepped(R), LambdaNext(R, lam, b), EarlierNext(R, lam, b), L1,
                   gmult(c, ginv(R.gamma)), r + 1, syn)
<1> DEFINE x == R.delta[0]
           e == R.gamma
           S == BmStepped(B, r, d)
           c1 == gmult(c, ginv(e))
           grows == BmGrows(B, r, d)
<1>1. /\ c \in Element /\ c # 0 /\ B.l_er = L /\ B.idx_i = L - 1
      /\ Multiple(B.lambda, c, lam) /\ Multiple(B.prev_lambda, ginv(e), TimesX(b))
      /\ Poly(lam) /\ Poly(b) /\ L \in 0 .. r /\ R.k = r - 2 * L /\ e \in Element /\ e # 0
      /\ R \in Registers /\ KeyEquation(lam, b, L, r, R, syn)
  BY DEF Simulates, KeyEquation
<1>2. x = Conv(lam, syn, r) /\ x \in Element
  BY <1>1, RegistersMove
<1>3. d = gmult(c, x) /\ d \in Element /\ (d = 0 <=> x = 0)
  <2>1. d = gmult(c, x)
    BY <1>2
  <2>2. gmult(c, x) \in Element /\ (gmult(c, x) = 0 => c = 0 \/ x = 0) /\ gmult(c, 0) = 0
    BY <1>1, <1>2, MultIs, Zenon
  <2> QED
    BY <1>1, <2>1, <2>2
<1>4. c1 \in Element /\ c1 # 0
  <2>1. ginv(e) \in Element /\ ginv(e) # 0
    BY <1>1, InverseIs, Zenon
  <2>2. c1 \in Element /\ (c1 = 0 => c = 0 \/ ginv(e) = 0)
    BY <1>1, <2>1, MultIs, Zenon
  <2> QED
    BY <1>1, <2>1, <2>2
<1>5. T \in Nat /\ r \in Int /\ L \in Int
  BY <1>1, SizesAre
<1>6. grows <=> Lengthens(x, R.k)
  <2>1. grows <=> d # 0 /\ L < (r + 1) - (L - 1) - 1
    BY <1>1 DEF BmGrows
  <2>2. L < (r + 1) - (L - 1) - 1 <=> r - 2 * L >= 0
    BY <1>5
  <2> HIDE DEF grows, x
  <2> QED
    BY <1>1, <1>3, <2>1, <2>2 DEF Lengthens
<1>7. S.l_er = L1 /\ S.idx_i = L1 - 1
  <2>1. /\ S.l_er = (IF grows THEN (r + 1) - (L - 1) - 1 ELSE L)
        /\ S.idx_i = (IF grows THEN (r + 1) - L - 1 ELSE L - 1)
    BY <1>1 DEF BmStepped
  <2>2. L1 = IF grows THEN (r + 1) - L ELSE L
    BY <1>5, <1>6 DEF DegreeNext
  <2> HIDE DEF S, grows
  <2> QED
    BY <1>5, <2>1, <2>2
<1>8. ASSUME NEW j \in 1 .. T
      PROVE  /\ lam[j] \in Element /\ TimesX(b)[j] \in Element
             /\ B.lambda[j] = gmult(c, lam[j]) /\ B.prev_lambda[j] = gmult(ginv(e), TimesX(b)[j])
             /\ LambdaNext(R, lam, b)[j] = gsum(gmult(e, lam[j]), gmult(x, TimesX(b)[j]))
  <2>1. j \in 1 .. T + 1
    BY <1>5
  <2>2. Poly(TimesX(b))
    BY <1>1, RaisedPoly
  <2> QED
    BY <1>1, <2>1, <2>2 DEF Poly, Terms, Multiple, LambdaNext, Mixed
<1>9. Multiple(S.lambda, c1, LambdaNext(R, lam, b))
  <2> SUFFICES ASSUME NEW j \in 1 .. T
               PROVE  S.lambda[j] = gmult(c1, LambdaNext(R, lam, b)[j])
    BY DEF Multiple
  <2> DEFINE l == lam[j]
             v == TimesX(b)[j]
  <2>1. l \in Element /\ v \in Element
    BY <1>8
  <2>2. gsum(gmult(c, l), gmult(d, gmult(ginv(e), v))) = gmult(c1, LambdaNext(R, lam, b)[j])
    <3> HIDE DEF l, v, x, e
    <3>1. gsum(gmult(c, l), gmult(gmult(c, x), gmult(ginv(e), v)))
            = gmult(c1, gsum(gmult(e, l), gmult(x, v)))
      BY <1>1, <1>2, <2>1, TauScales
    <3> HIDE DEF c1
    <3> QED
      BY <1>3, <1>8, <3>1 DEF l, v, e, x
  <2>3. CASE d # 0
    <3>1. S.lambda[j] = gsum(B.lambda[j], gmult(d, B.prev_lambda[j]))
      BY <2>3 DEF BmStepped, BmTau
    <3> QED
      BY <1>8, <2>2, <3>1
  <2>4. CASE d = 0
    <3>1. S.lambda[j] = B.lambda[j]
      BY <2>4 DEF BmStepped
    <3>2. gmult(c, l) \in Element /\ gmult(ginv(e), v) \in Element
      <4>1. ginv(e) \in Element
        BY <1>1, InverseIs, Zenon
      <4> QED
        BY <1>1, <2>1, <4>1, MultType, Zenon
    <3>3. gmult(0, gmult(ginv(e), v)) = 0 /\ gsum(gmult(c, l), 0) = gmult(c, l)
      BY <3>2, ZeroIs, Zenon
    <3> QED
      BY <1>8, <2>2, <2>4, <3>1, <3>3
  <2> QED
    BY <2>3, <2>4
<1>10. Multiple(S.prev_lambda, ginv(Stepped(R).gamma), TimesX(EarlierNext(R, lam, b)))
  <2> DEFINE i == ginv(Stepped(R).gamma)
             f == TimesX(EarlierNext(R, lam, b))
  <2>1. i \in Element
    <3>1. Stepped(R).gamma \in Element /\ Stepped(R).gamma # 0
      BY DEF KeyEquation
    <3> QED
      BY <3>1, InverseIs, Zenon
  <2>2. S.prev_lambda[1] = gmult(i, f[1])
    <3>1. 1 \in 1 .. T + 1
      BY <1>5
    <3>2. f[1] = 0
      BY <3>1 DEF TimesX
    <3>3. gmult(i, 0) = 0
      BY <2>1, ZeroIs, Zenon
    <3>4. S.prev_lambda[1] = 0
      BY <1>3, KeptMoves
    <3> QED
      BY <3>2, <3>3, <3>4
  <2>3. ASSUME NEW j \in 1 .. T, j # 1
        PROVE  S.prev_lambda[j] = gmult(i, f[j])
    <3> DEFINE q == j - 1
    <3>1. q \in 1 .. T /\ j \in 1 .. T + 1
      BY <1>5, <2>3
    <3>2. S.prev_lambda[j] = BmKeeps(B, r, d)[q]
      BY <1>3, <2>3, KeptMoves
    <3>3. f[j] = EarlierNext(R, lam, b)[q]
      BY <2>3, <3>1 DEF TimesX
    <3> HIDE DEF q, S, f
    <3>4. CASE grows
      <4>1. x # 0 /\ Stepped(R).gamma = x /\ EarlierNext(R, lam, b) = lam
        BY <1>6, <3>4 DEF Stepped, EarlierNext, Lengthens
      <4>2. BmKeeps(B, r, d)[q] = gdiv(gmult(c, lam[q]), gmult(c, x))
        BY <1>3, <1>8, <3>1, <3>4 DEF BmKeeps
      <4>3. gdiv(gmult(c, lam[q]), gmult(c, x)) = gmult(ginv(x), lam[q])
        <5>1. lam[q] \in Element
          BY <1>8, <3>1
        <5> HIDE DEF x
        <5> QED
          BY <1>1, <1>2, <4>1, <5>1, ScaleDivides
      <4> QED
        BY <3>2, <3>3, <4>1, <4>2, <4>3
    <3>5. CASE ~grows
      <4>1. Stepped(R).gamma = e /\ EarlierNext(R, lam, b) = TimesX(b)
        BY <1>6, <3>5 DEF Stepped, EarlierNext
      <4>2. BmKeeps(B, r, d)[q] = gmult(ginv(e), TimesX(b)[q])
        BY <1>8, <3>1, <3>5 DEF BmKeeps
      <4> QED
        BY <3>2, <3>3, <4>1, <4>2
    <3> QED
      BY <3>4, <3>5
  <2> HIDE DEF S, i, f
  <2>4. Multiple(S.prev_lambda, i, f)
    BY <2>2, <2>3 DEF Multiple
  <2> QED
    BY <2>4 DEF i, f
<1> QED
  BY <1>4, <1>7, <1>9, <1>10 DEF Simulates

\* The first root of the code of gmult is the power zero, so that its syndromes
\* are those that other errors, at the same places, have with the powers from
\* one on.
Lowered(E) == [i \in 1 .. N |-> gmult(E[i], gpow(Locator[i], -1))]

LEMMA LoweredIs ==
  ASSUME NEW E, Terms(E, N)
  PROVE  /\ Terms(Lowered(E), N) /\ \A i \in 1 .. N : Lowered(E)[i] = 0 <=> E[i] = 0
         /\ Support(Lowered(E), N) = Support(E, N)
         /\ \A j \in Int : PowerSum(Lowered(E), Locator, N, j) = PowerSum(E, Locator, N, j - 1)
<1>1. Locators(Locator, N) /\ N \in Nat /\ -1 \in Int
  BY LocatorsAre
<1>2. ASSUME NEW i \in 1 .. N
      PROVE  /\ E[i] \in Element /\ Locator[i] \in Element /\ Locator[i] # 0
             /\ gpow(Locator[i], -1) \in Element /\ gpow(Locator[i], -1) # 0
             /\ Lowered(E)[i] = gmult(E[i], gpow(Locator[i], -1))
  <2>1. E[i] \in Element /\ Locator[i] \in Element /\ Locator[i] # 0
    BY <1>1 DEF Terms, Locators
  <2> DEFINE k == -1
  <2>2. k \in Int
    OBVIOUS
  <2>3. Lowered(E)[i] = gmult(E[i], gpow(Locator[i], k))
    BY DEF Lowered
  <2> HIDE DEF k
  <2>4. gpow(Locator[i], k) \in Element /\ gpow(Locator[i], k) # 0
    BY <2>1, <2>2, PowType, Zenon
  <2> QED
    BY <2>1, <2>3, <2>4 DEF k
<1>3. ASSUME NEW i \in 1 .. N PROVE Lowered(E)[i] \in Element /\ (Lowered(E)[i] = 0 <=> E[i] = 0)
  <2> DEFINE k == gpow(Locator[i], -1)
  <2>1. k \in Element /\ k # 0 /\ E[i] \in Element /\ Lowered(E)[i] = gmult(E[i], k)
    BY <1>2
  <2> HIDE DEF k
  <2>2. gmult(E[i], k) \in Element /\ (gmult(E[i], k) = 0 => E[i] = 0 \/ k = 0) /\ gmult(0, k) = 0
    BY <2>1, MultIs, Zenon
  <2> QED
    BY <2>1, <2>2
<1>4. Terms(Lowered(E), N) /\ Support(Lowered(E), N) = Support(E, N)
  BY <1>3 DEF Terms, Support
<1>5. ASSUME NEW j \in Int
      PROVE  PowerSum(Lowered(E), Locator, N, j) = PowerSum(E, Locator, N, j - 1)
  <2> DEFINE f == Powered(Lowered(E), Locator, N, j)
             h == Powered(E, Locator, N, j - 1)
  <2>1. ASSUME NEW i \in 1 .. N PROVE f[i] = h[i]
    <3> DEFINE e == E[i]
               x == Locator[i]
               k == -1
               q == gpow(x, k)
               w == gpow(x, j)
    <3>1. e \in Element /\ x \in Element /\ x # 0 /\ Lowered(E)[i] = gmult(e, q) /\ q \in Element
      BY <1>2
    <3>2. k \in Int /\ k + j = j - 1
      OBVIOUS
    <3>3. f[i] = gmult(gmult(e, q), w) /\ h[i] = gmult(e, gpow(x, k + j))
      BY <3>1, <3>2 DEF Powered
    <3> HIDE DEF e, x, k, f, h
    <3>4. gmult(q, w) = gpow(x, k + j)
      BY <3>1, <3>2, PowAdds, Zenon
    <3>5. w \in Element
      BY <3>1, PowType, Zenon
    <3> HIDE DEF q, w
    <3>6. Multiplies(e, q, w)
      BY <3>1, <3>5, MultOrder, Zenon
    <3> QED
      BY <3>3, <3>4, <3>6 DEF Multiplies
  <2> HIDE DEF f, h
  <2>2. Summed(N, f) = Summed(N, h)
    BY <1>1, <2>1, SummedSame
  <2> QED
    BY <2>2 DEF PowerSum, f, h
<1> QED
  BY <1>3, <1>4, <1>5

\* While the older loop runs its syndromes are those of the lowered errors.
LEMMA BmSyndromes ==
  RsInv /\ stage = "rounds" /\ model = "gmult" =>
    SyndromesOf(s, Lowered(Errors)) /\ Terms(Errors, N)
<1> SUFFICES ASSUME RsInv, stage = "rounds", model = "gmult"
             PROVE  SyndromesOf(s, Lowered(Errors)) /\ Terms(Errors, N)
  OBVIOUS
<1>1. model \in Models /\ C \in [1 .. N -> Element] /\ s \in [1 .. T -> Element]
  BY DEF RsInv, ShapesOK
<1>2. Terms(Errors, N)
  BY <1>1, ErrorsAre
<1>3. ASSUME NEW j \in 1 .. T PROVE s[j] = PowerSum(Lowered(Errors), Locator, N, j)
  <2>1. s[j] = PowerSum(Errors, Locator, N, j0[model] + j - 1)
    BY DEF RsInv, SyndromesKnown
  <2>2. j0[model] + j - 1 = j - 1 /\ j \in Int
    BY SizesAre DEF j0
  <2>3. PowerSum(Lowered(Errors), Locator, N, j) = PowerSum(Errors, Locator, N, j - 1)
    BY <1>2, <2>2, LoweredIs
  <2> QED
    BY <2>1, <2>2, <2>3
<1> QED
  BY <1>1, <1>2, <1>3, LoweredIs DEF SyndromesOf, Syn

\* The registers of the older loop are those that gribm would have, up to a
\* factor, with a locator that is no longer than the errors are many.
BmFollows ==
  stage = "rounds" /\ model = "gmult" =>
    \E R, lam, b, L, c : Simulates(reg, R, lam, b, L, c, i_round, s) /\ L <= Wrong(Lowered(Errors))

LEMMA BmFollowsStarts == RsInv /\ Syndromes => BmFollows'
<1> SUFFICES ASSUME RsInv, Syndromes, stage' = "rounds", model' = "gmult"
             PROVE  \E R, lam, b, L, c : /\ Simulates(reg', R, lam, b, L, c, i_round', s')
                                         /\ L <= Wrong(Lowered(Errors'))
  BY DEF BmFollows
<1>1. Errors' = Errors /\ model \in Models /\ C \in [1 .. N -> Element] /\ i_round = 0
      /\ stage = "received"
  BY DEF Errors, Syndromes, RsInv, ShapesOK, NotStarted
<1>2. i_round' = 0 /\ model = "gmult"
  BY <1>1 DEF Syndromes
<1>3. reg' = BmStart
  BY <1>2 DEF Syndromes
<1>4. Syn(s')
  <2>1. ShapesOK'
    BY SyndromesKeep DEF RsInv
  <2> QED
    BY <2>1 DEF ShapesOK, Syn
<1>5. Simulates(BmStart, RibmStart(s'), One, One, 0, 1, 0, s')
  BY <1>4, SimulationStarts
<1>6. 0 <= Wrong(Lowered(Errors))
  BY SizesAre, SupportFinite DEF Wrong
<1> QED
  BY <1>1, <1>2, <1>3, <1>5, <1>6, Zenon

LEMMA BmFollowsRounds == RsInv /\ BmFollows /\ BmRound => BmFollows'
<1> SUFFICES ASSUME RsInv, BmFollows, BmRound PROVE BmFollows'
  OBVIOUS
<1> DEFINE E == Lowered(Errors)
           d == BmDiscrep
           r == i_round
<1>1. /\ stage = "rounds" /\ model = "gmult" /\ i_round < T
      /\ reg' = BmStepped(reg, r, d) /\ i_round' = r + 1
      /\ UNCHANGED <<model, C, errors, s, outcome, root_tmp, stage>>
  BY BmRoundSteps
<1>2. r \in 0 .. T - 1 /\ BmKept(reg, r) /\ Syn(s)
  BY <1>1, SizesAre DEF RsInv, ShapesOK, BmKnown, Syn
<1>3. SyndromesOf(s, E)
  BY <1>1, BmSyndromes
<1>4. PICK R, lam, b, L, c : Simulates(reg, R, lam, b, L, c, r, s) /\ L <= Wrong(E)
  BY <1>1 DEF BmFollows
<1>5. d = gmult(c, Conv(lam, s, r))
  BY <1>2, <1>4, BmDiscrepIs
<1> DEFINE L1 == DegreeNext(R, L, r)
<1>6. L1 = DegreeNext(R, L, r)
  OBVIOUS
<1> HIDE DEF L1, d, E, r
<1>7. R \in Registers /\ KeyEquation(lam, b, L, r, R, s)
  BY <1>4 DEF Simulates
<1>8. /\ Stepped(R) \in Registers /\ L1 <= Wrong(E)
      /\ KeyEquation(LambdaNext(R, lam, b), EarlierNext(R, lam, b), L1, r + 1, Stepped(R), s)
  BY <1>2, <1>3, <1>4, <1>6, <1>7, RibmLengthens
<1>9. Simulates(BmStepped(reg, r, d), Stepped(R), LambdaNext(R, lam, b), EarlierNext(R, lam, b),
                L1, gmult(c, ginv(R.gamma)), r + 1, s)
  BY <1>2, <1>4, <1>5, <1>6, <1>8, BmFollowsRound
<1>10. \E R1, lam1, b1, L2, c1 :
         Simulates(BmStepped(reg, r, d), R1, lam1, b1, L2, c1, r + 1, s) /\ L2 <= Wrong(E)
  BY <1>8, <1>9, Zenon
<1>11. Errors' = Errors
  BY <1>1 DEF Errors
<1> QED
  BY <1>1, <1>10, <1>11, Zenon DEF BmFollows, E

\* The place of the word that a number in alpha_to points at.
BmPlace(r) == IF r = 1 THEN N ELSE (r - 1) % N

LEMMA BmPlaceIs ==
  /\ \A r \in 1 .. GF - 1 : BmPlace(r) \in 1 .. N /\ Locator[BmPlace(r)] = Exp(1 - r)
  /\ \A i \in 1 .. N : \E r \in 1 .. GF - 1 : BmPlace(r) = i
<1>1. N \in Nat /\ N = GF - 1 /\ N >= 3 /\ N \in Int
  BY SizesAre
<1>2. ASSUME NEW r \in 1 .. GF - 1, r # 1 PROVE BmPlace(r) = r - 1 /\ r - 1 \in 1 .. N
  <2>1. r - 1 \in 0 .. N - 1 /\ r - 1 \in 1 .. N /\ N >= 1
    BY <1>1, <1>2
  <2>2. (r - 1) % N = r - 1
    BY <1>1, <2>1, ModSmall
  <2> QED
    BY <1>2, <2>1, <2>2 DEF BmPlace
<1>3. BmPlace(1) = N
  BY DEF BmPlace
<1>4. ASSUME NEW r \in 1 .. GF - 1 PROVE BmPlace(r) \in 1 .. N /\ Locator[BmPlace(r)] = Exp(1 - r)
  <2>1. CASE r = 1
    <3>1. N \in 1 .. N /\ N - N = 0 /\ 1 - r = 0
      BY <1>1, <2>1
    <3>2. Locator[N] = Exp(N - N)
      BY <3>1, LocatorsAre
    <3> QED
      BY <1>3, <2>1, <3>1, <3>2
  <2>2. CASE r # 1
    <3> DEFINE x == 1 - r
               e == N - (r - 1)
               k == -1
    <3>1. x \in Int /\ k \in Int /\ N >= 1 /\ e \in 0 .. N - 1 /\ x = e + k * N /\ e \in Int
      BY <1>1, <2>2
    <3>2. BmPlace(r) = r - 1 /\ r - 1 \in 1 .. N
      BY <1>2, <2>2
    <3>3. Locator[r - 1] = Exp(e)
      BY <3>2, LocatorsAre
    <3> HIDE DEF x, e, k
    <3>4. x % N = e
      BY <1>1, <3>1, ModOf
    <3>5. Exp(x % N) = Exp(x)
      BY <1>1, <3>1, ExpWraps
    <3> QED
      BY <3>2, <3>3, <3>4, <3>5 DEF x
  <2> QED
    BY <2>1, <2>2
<1>5. ASSUME NEW i \in 1 .. N PROVE \E r \in 1 .. GF - 1 : BmPlace(r) = i
  <2>1. CASE i = N
    <3>1. 1 \in 1 .. GF - 1
      BY <1>1
    <3> QED
      BY <1>3, <2>1, <3>1
  <2>2. CASE i # N
    <3> DEFINE r == i + 1
    <3>1. r \in 1 .. GF - 1 /\ r # 1 /\ r - 1 = i
      BY <1>1, <2>2
    <3> HIDE DEF r
    <3>2. BmPlace(r) = i
      BY <1>2, <3>1
    <3> QED
      BY <3>1, <3>2
  <2> QED
    BY <2>1, <2>2
<1> QED
  BY <1>4, <1>5

\* A multiple of a polynomial has its roots.
LEMMA MultipleRoots ==
  ASSUME NEW d \in Nat, NEW lam, Terms(lam, d), NEW c \in Element, c # 0,
         NEW f, \A j \in 1 .. d : f[j] = gmult(c, lam[j])
  PROVE  Terms(f, d) /\ Roots(d, f) = Roots(d, lam)
<1>1. ASSUME NEW j \in 1 .. d PROVE lam[j] \in Element /\ f[j] \in Element
                                    /\ f[j] = gsum(gmult(c, lam[j]), gmult(0, lam[j]))
  <2>1. lam[j] \in Element /\ f[j] = gmult(c, lam[j])
    BY DEF Terms
  <2>2. gmult(c, lam[j]) \in Element /\ gmult(0, lam[j]) = 0
    BY <2>1, MultIs, Zenon
  <2>3. gsum(gmult(c, lam[j]), 0) = gmult(c, lam[j])
    BY <2>2, ZeroIs, Zenon
  <2> QED
    BY <2>1, <2>2, <2>3
<1>2. Combines(f, d, c, lam, 0, lam) /\ Terms(f, d) /\ 0 \in Element
  BY <1>1, ElementIs DEF Combines, Terms
<1>3. ASSUME NEW x \in Element PROVE Rising(d, f, x) = 0 <=> Rising(d, lam, x) = 0
  <2> DEFINE v == Rising(d, lam, x)
  <2>1. v \in Element
    BY RisingType
  <2>2. Rising(d, f, x) = gsum(gmult(c, v), gmult(0, v))
    BY <1>2, RisingLinear
  <2> HIDE DEF v
  <2>3. gmult(0, v) = 0 /\ gmult(c, v) \in Element /\ (gmult(c, v) = 0 => c = 0 \/ v = 0) /\ gmult(c, 0) = 0
    BY <2>1, MultIs, Zenon
  <2>4. gsum(gmult(c, v), 0) = gmult(c, v)
    BY <2>3, ZeroIs, Zenon
  <2> QED
    BY <2>2, <2>3, <2>4 DEF v
<1> QED
  BY <1>2, <1>3 DEF Roots

\* Every root among the powers is found.
LEMMA BmRootsAll ==
  ASSUME NEW n \in Nat, NEW k \in Nat, After(n, k), NEW f, Terms(f, k), NEW r \in 1 .. GF - 1,
         Exp(1 - r) \in Roots(k, f)
  PROVE  r \in BmRoots(f, n)
<1> DEFINE z == Exp(1 - r)
           y == alpha_to[r]
           v == At(k, f, y)
           w == k - 1
<1>1. /\ y \in Element /\ y # 0 /\ z \in Element /\ z # 0
      /\ \A i \in Int : gpow(y, i) = gpow(z, -i)
  BY PlaceIs
<1>2. Rising(k, f, z) = 0
  BY DEF Roots
<1> HIDE DEF z, y
<1>3. v \in Element /\ Rising(k, f, z) = gmult(gpow(z, w), v)
  BY <1>1, AtIs
<1>4. w \in Int /\ n + 1 = k
  BY DEF After
<1> HIDE DEF v, w
<1>5. gpow(z, w) \in Element /\ gpow(z, w) # 0
  BY <1>1, <1>4, PowType, Zenon
<1>6. gmult(gpow(z, w), v) = 0 => gpow(z, w) = 0 \/ v = 0
  BY <1>3, <1>5, MultIs, Zenon
<1>7. v = 0
  BY <1>2, <1>3, <1>5, <1>6
<1> QED
  BY <1>4, <1>7 DEF BmRoots, v, y

LEMMA SyndromesLocate == RsInv /\ Syndromes => BmLocates'
<1> SUFFICES ASSUME RsInv, Syndromes, model' = "gmult", stage' = "done", Few'
             PROVE  /\ root_tmp' = errors'
                    /\ outcome' = IF errors' = {} THEN "no errors" ELSE "decoded"
  BY DEF BmLocates
<1>1. /\ s' = [j \in 1 .. T |-> Horner(C, alpha_to[j0[model] + j])]
      /\ UNCHANGED <<model, C, errors, i_round, root_tmp>>
      /\ (\A j \in 1 .. T : s'[j] = 0) /\ outcome' = "no errors"
  BY Zenon DEF Syndromes
<1>2. /\ model = "gmult" /\ model \in Models /\ C \in [1 .. N -> Element] /\ root_tmp = {}
      /\ errors = Support(Errors, N) /\ Cardinality(errors) <= t
  BY <1>1 DEF RsInv, ShapesOK, NotDone, Syndromes, Few
<1>3. /\ Terms(Errors, N)
      /\ \A j \in 1 .. T : Horner(C, alpha_to[j0[model] + j])
                             = PowerSum(Errors, Locator, N, j0[model] + j - 1)
  BY <1>2, ErrorsAre
<1>4. T \in Nat /\ t \in Nat /\ T = 2 * t /\ N \in Nat
  BY SizesAre
<1>5. Vanishes(Errors, Locator, N, 0, T)
  <2> SUFFICES ASSUME NEW l \in 0 .. T - 1 PROVE PowerSum(Errors, Locator, N, l) = 0
    BY <1>4 DEF Vanishes
  <2> DEFINE j == l + 1
  <2>1. j \in 1 .. T /\ j0[model] + j - 1 = l
    BY <1>2, <1>4 DEF j0
  <2> HIDE DEF j
  <2> QED
    BY <1>1, <1>3, <2>1
<1>6. \A i \in 1 .. N : Errors[i] = 0
  <2>1. Cardinality(Support(Errors, N)) <= T
    BY <1>2, <1>4, SupportFinite
  <2>2. 0 \in Int
    OBVIOUS
  <2> QED
    BY <1>3, <1>5, <2>1, <2>2, SyndromesShow
<1>7. Support(Errors, N) = {}
  BY <1>6 DEF Support
<1> QED
  BY <1>1, <1>2, <1>7

\* The roots of the last locator are at the places of the errors.
LEMMA GmultLocates == RsInv /\ BmFollows /\ GmultCorrect => BmLocates'
<1> SUFFICES ASSUME RsInv, BmFollows, GmultCorrect, Few'
             PROVE  /\ root_tmp' = errors'
                    /\ outcome' = IF errors' = {} THEN "no errors" ELSE "decoded"
  BY DEF BmLocates
<1> DEFINE f == reg.lambda
           a == reg.lambda_deg
           E == Lowered(Errors)
           F == BmRoots(f, a)
<1>1. /\ stage = "rounds" /\ model = "gmult" /\ i_round = T
      /\ Correct(a, BmPlaces, BmValues) /\ errors' = errors
  BY GmultCorrects DEF Correct
<1>2. /\ errors = Support(Errors, N) /\ Cardinality(errors) <= t /\ \E j \in 1 .. T : s[j] # 0
      /\ f \in [1 .. T -> Element] /\ a \in 0 .. T - 1 /\ EndsAt(f, a)
  BY <1>1 DEF RsInv, NotDone, SyndromesKnown, BmKnown, BmKept, BmRegisters, Few
<1>3. SyndromesOf(s, E) /\ Terms(Errors, N)
  BY <1>1, BmSyndromes
<1>4. /\ Terms(E, N) /\ Support(E, N) = errors /\ Wrong(E) <= t
      /\ \A j \in Int : PowerSum(E, Locator, N, j) = PowerSum(Errors, Locator, N, j - 1)
  BY <1>2, <1>3, LoweredIs DEF Wrong
<1> HIDE DEF E
<1>5. T \in Nat /\ t \in Nat /\ T = 2 * t /\ N \in Nat /\ t >= 1
  BY SizesAre
<1>6. PICK R, lam, b, L, c : Simulates(reg, R, lam, b, L, c, T, s) /\ L <= Wrong(E)
  BY <1>1 DEF BmFollows, E
<1>7. /\ KeyEquation(lam, b, L, T, R, s) /\ c \in Element /\ c # 0 /\ Multiple(f, c, lam)
  BY <1>6 DEF Simulates
<1>8. Solved(lam, L, s, E)
  <2>1. L \in Nat
    BY <1>5, <1>7 DEF KeyEquation
  <2> QED
    BY <1>3, <1>4, <1>6, <1>7, <2>1 DEF Solved, KeyEquation
<1> DEFINE d == L + 1
<1>9. d = L + 1
  OBVIOUS
<1> HIDE DEF d, f, a
<1>10. /\ L = Wrong(E) /\ L \in 0 .. t /\ L \in Nat /\ d \in Nat /\ After(L, d) /\ d \in 1 .. t + 1
       /\ Terms(lam, d) /\ lam[d] # 0 /\ Poly(lam) /\ Short(lam, d)
       /\ \A i \in 1 .. N : E[i] # 0 <=> Rising(d, lam, Locator[i]) = 0
  <2>1. /\ L = Wrong(E) /\ L \in 0 .. t /\ L \in Nat /\ d \in Nat /\ After(L, d) /\ d \in 1 .. t + 1
        /\ Terms(lam, d) /\ lam[d] # 0
        /\ \A i \in 1 .. N : E[i] # 0 <=> Rising(d, lam, Locator[i]) = 0
    BY <1>8, <1>9, RootsAreErrors
  <2>2. Poly(lam) /\ Short(lam, L + 1)
    BY <1>8 DEF Solved
  <2> QED
    BY <1>9, <2>1, <2>2
<1>11. ASSUME NEW j \in 1 .. T
       PROVE  f[j] = gmult(c, lam[j]) /\ lam[j] \in Element /\ (f[j] = 0 <=> lam[j] = 0)
  <2>1. f[j] = gmult(c, lam[j])
    BY <1>7 DEF Multiple
  <2>2. lam[j] \in Element
    BY <1>5, <1>10 DEF Poly, Terms
  <2>3. (gmult(c, lam[j]) = 0 => c = 0 \/ lam[j] = 0) /\ gmult(c, 0) = 0
    BY <1>7, <2>2, MultIs, Zenon
  <2> QED
    BY <1>7, <2>1, <2>2, <2>3
<1>12. a = L
  <2>1. d \in 1 .. T /\ a + 1 \in 1 .. T
    BY <1>2, <1>5, <1>10
  <2>2. f[d] # 0 /\ f[a + 1] # 0 /\ \A j \in 1 .. T : j > a + 1 => f[j] = 0
    BY <1>2, <1>10, <1>11, <2>1 DEF EndsAt
  <2>3. ~(d > a + 1)
    BY <2>1, <2>2
  <2>4. ~(a + 1 > d)
    <3> SUFFICES ASSUME a + 1 > d PROVE FALSE
      OBVIOUS
    <3>1. a + 1 \in 1 .. T + 1
      BY <2>1, <1>5
    <3>2. lam[a + 1] = 0
      BY <1>10, <3>1 DEF Short
    <3> QED
      BY <1>11, <2>1, <2>2, <3>2
  <2> QED
    BY <1>2, <1>9, <1>10, <2>3, <2>4
<1>13. /\ \A j \in 1 .. d : f[j] = gmult(c, lam[j])
       /\ Terms(f, d) /\ Roots(d, f) = Roots(d, lam) /\ f[d] # 0
  <2>1. \A j \in 1 .. d : j \in 1 .. T
    BY <1>5, <1>10
  <2>2. \A j \in 1 .. d : f[j] = gmult(c, lam[j])
    BY <1>11, <2>1
  <2>3. f[d] # 0
    BY <1>10, <1>11, <2>1
  <2> QED
    BY <1>7, <1>10, <2>2, <2>3, MultipleRoots
<1>14. /\ F \subseteq 1 .. GF - 1 /\ \A r \in F : Exp(1 - r) \in Roots(d, lam)
       /\ Cardinality(F) = Cardinality(Roots(d, f))
  BY <1>10, <1>12, <1>13, BmRootsAre
<1>15. Cardinality(F) = L
  <2>1. Cardinality(Roots(d, lam)) = L
    BY <1>8, <1>9, RootsAreErrors
  <2> QED
    BY <1>13, <1>14, <2>1
<1>16. \A r \in 1 .. GF - 1 : Exp(1 - r) \in Roots(d, lam) => r \in F
  BY <1>10, <1>12, <1>13, BmRootsAll
<1>17. errors # {} /\ L # 0
  <2>1. \E i \in 1 .. N : E[i] # 0
    <3> SUFFICES ASSUME \A i \in 1 .. N : E[i] = 0 PROVE FALSE
      OBVIOUS
    <3>1. \A l \in Int : PowerSum(E, Locator, N, l) = 0
      <4>1. 1 \in Int
        OBVIOUS
      <4> QED
        BY <1>4, <4>1, SyndromesShow
    <3>2. \A j \in 1 .. T : s[j] = 0
      BY <1>3, <1>5, <3>1 DEF SyndromesOf
    <3> QED
      BY <1>2, <3>2
  <2>2. Support(E, N) # {}
    BY <2>1 DEF Support
  <2>3. Cardinality(Support(E, N)) # 0
    BY <1>5, <2>2, SupportFinite, FS_EmptySet
  <2> QED
    BY <1>4, <1>10, <2>2, <2>3 DEF Wrong
<1>18. DOMAIN BmPlaces = F /\ \A r \in F : BmPlaces[r] = BmPlace(r)
  BY DEF BmPlaces, BmPlace, f, a
<1> DEFINE places == BmPlaces
<1>19. outcome' = "decoded" /\ root_tmp' = {places[r] : r \in DOMAIN places}
  <2>1. Cardinality(DOMAIN places) = a /\ a # 0
    BY <1>12, <1>15, <1>17, <1>18
  <2> QED
    BY <1>1, <2>1 DEF Correct
<1> HIDE DEF F, places
<1>20. root_tmp' = {BmPlace(r) : r \in F}
  BY <1>18, <1>19 DEF places
<1>21. ASSUME NEW r \in F PROVE BmPlace(r) \in errors
  <2>1. r \in 1 .. GF - 1 /\ Exp(1 - r) \in Roots(d, lam)
    BY <1>14
  <2>2. BmPlace(r) \in 1 .. N /\ Locator[BmPlace(r)] = Exp(1 - r)
    BY <2>1, BmPlaceIs
  <2>3. Rising(d, lam, Locator[BmPlace(r)]) = 0
    BY <2>1, <2>2 DEF Roots
  <2>4. E[BmPlace(r)] # 0
    BY <1>10, <2>2, <2>3
  <2> QED
    BY <1>4, <2>2, <2>4 DEF Support
<1>22. ASSUME NEW i \in errors PROVE \E r \in F : BmPlace(r) = i
  <2>1. i \in 1 .. N /\ E[i] # 0
    BY <1>4 DEF Support
  <2>2. PICK r \in 1 .. GF - 1 : BmPlace(r) = i
    BY <2>1, BmPlaceIs
  <2>3. Locator[i] = Exp(1 - r) /\ Exp(1 - r) \in Element
    BY <2>2, BmPlaceIs, PlaceIs
  <2>4. Rising(d, lam, Exp(1 - r)) = 0
    BY <1>10, <2>1, <2>3
  <2>5. r \in F
    BY <1>16, <2>3, <2>4 DEF Roots
  <2> QED
    BY <2>2, <2>5
<1>23. root_tmp' = errors
  BY <1>20, <1>21, <1>22, Zenon
<1> QED
  BY <1>1, <1>17, <1>19, <1>23

\* gmult finds the places of up to t wrong symbols, all of them and no other,
\* though it divides the locator it keeps by the discrepancy of the round and
\* never brings two locators to the same scale (rs_decoder of gmult, its loop).
THEOREM OlderLoopLocates == RsSpec => []BmLocates
<1>1. RsInit => BmFollows /\ BmLocates
  BY DEF RsInit, BmFollows, BmLocates
<1>2. RsInv /\ BmFollows /\ BmLocates /\ [RsNext]_rsVars => (BmFollows /\ BmLocates)'
  <2> SUFFICES ASSUME RsInv, BmFollows, BmLocates, [RsNext]_rsVars
               PROVE  BmFollows' /\ BmLocates'
    OBVIOUS
  <2>1. CASE Syndromes
    BY <2>1, BmFollowsStarts, SyndromesLocate
  <2>2. CASE RibmRound
    <3>1. stage' = "rounds" /\ model' = "xxbm"
      BY <2>2, RibmRoundSteps
    <3> QED
      BY <3>1 DEF BmFollows, BmLocates
  <2>3. CASE BmRound
    <3>1. stage' = "rounds"
      BY <2>3, BmRoundSteps
    <3> QED
      BY <2>3, <3>1, BmFollowsRounds DEF BmLocates
  <2>4. CASE XxbmCorrect
    <3>1. model' = "xxbm"
      BY <2>4, XxbmCorrects DEF Correct
    <3> QED
      BY <3>1 DEF BmFollows, BmLocates
  <2>5. CASE GmultCorrect
    <3>1. stage' = "done"
      BY <2>5, GmultCorrects DEF Correct
    <3> QED
      BY <2>5, <3>1, GmultLocates DEF BmFollows
  <2>6. CASE UNCHANGED rsVars
    <3>1. BmLocates'
      BY <2>6 DEF rsVars, BmLocates, Few
    <3>2. Errors' = Errors
      BY <2>6 DEF rsVars, Errors
    <3>3. BmFollows'
      BY <2>6, <3>2 DEF rsVars, BmFollows
    <3> QED
      BY <3>1, <3>3
  <2> QED
    BY <2>1, <2>2, <2>3, <2>4, <2>5, <2>6 DEF RsNext, Ended
<1> QED
  BY <1>1, <1>2, RsInvariance, PTL DEF RsSpec
==============================================================================
