----------------------------- MODULE Induction ------------------------------
(***************************************************************************)
(* Induction over the natural numbers, stated with a set so that it can be *)
(* cited, and two things it is needed for: that a function which follows   *)
(* links exists, and that a sum does not depend on its order; and what the *)
(* proofs need of division.                                                *)
(***************************************************************************)
EXTENDS Integers, FiniteSets, Functions, Folds, FiniteSetTheorems,
        WellFoundedInduction, TLAPS

\* Induction, from the order of the naturals being well founded.
LEMMA SetInduction ==
  ASSUME NEW S, 0 \in S, \A n \in Nat : n \in S => n + 1 \in S
  PROVE  Nat \subseteq S
<1> SUFFICES ASSUME \E n \in Nat : n \notin S PROVE FALSE
  OBVIOUS
<1> DEFINE T == Nat \ S
           R == OpToRel(<, Nat)
<1>1. T \subseteq Nat /\ T # {}
  OBVIOUS
<1>2. IsWellFoundedOn(R, Nat)
  BY NatLessThanWellFounded, Zenon
<1>3. \A m, n \in Nat : m < n => <<m, n>> \in R
  BY DEF OpToRel
<1> HIDE DEF R
<1>4. PICK n \in T : \A m \in T : ~(<<m, n>> \in R)
  <2> HIDE DEF T
  <2> QED
    BY <1>1, <1>2, WFMin
<1>5. n \in Nat /\ n \notin S
  OBVIOUS
<1>6. n # 0
  BY <1>5
<1>7. n - 1 \in Nat /\ n - 1 < n
  BY <1>5, <1>6
<1>8. n - 1 \in S
  BY <1>3, <1>4, <1>5, <1>7
<1> QED
  BY <1>5, <1>7, <1>8

\* g follows the links f from a first entry on, for top steps.
Follows(g, f, first, top) ==
  g = [n \in 0 .. top |-> IF n = 0 THEN first ELSE f[g[n - 1]]]

LEMMA ChainExists ==
  ASSUME NEW f, NEW first, NEW top \in Nat
  PROVE  \E g : Follows(g, f, first, top)
<1> DEFINE Is(g, m) == g = [n \in 0 .. m |-> IF n = 0 THEN first ELSE f[g[n - 1]]]
           S == {m \in Nat : \E g : Is(g, m)}
<1>1. 0 \in S
  <2>1. Is([n \in 0 .. 0 |-> first], 0)
    OBVIOUS
  <2> QED
    BY <2>1
<1>2. ASSUME NEW m \in Nat, m \in S PROVE m + 1 \in S
  <2>1. PICK g : Is(g, m)
    BY <1>2
  <2> DEFINE h == [n \in 0 .. m + 1 |-> IF n = m + 1 THEN f[g[m]] ELSE g[n]]
  <2>2. \A n \in 0 .. m : g[n] = IF n = 0 THEN first ELSE f[g[n - 1]]
    BY <2>1
  <2>3. \A n \in 0 .. m + 1 : h[n] = IF n = 0 THEN first ELSE f[h[n - 1]]
    <3> SUFFICES ASSUME NEW n \in 0 .. m + 1
                 PROVE  h[n] = IF n = 0 THEN first ELSE f[h[n - 1]]
      OBVIOUS
    <3>1. CASE n = 0
      BY <2>2, <3>1
    <3>2. CASE n \in 1 .. m
      <4>1. h[n] = g[n] /\ h[n - 1] = g[n - 1] /\ n # 0 /\ n \in 0 .. m
        BY <3>2
      <4> QED
        BY <2>2, <4>1
    <3>3. CASE n = m + 1
      <4>1. h[n] = f[g[m]] /\ h[n - 1] = g[m] /\ n # 0
        BY <3>3
      <4> QED
        BY <4>1
    <3> QED
      BY <3>1, <3>2, <3>3
  <2>4. h = [n \in 0 .. m + 1 |-> h[n]]
    OBVIOUS
  <2> HIDE DEF h
  <2>5. Is(h, m + 1)
    BY <2>3, <2>4
  <2> HIDE DEF Is
  <2> QED
    BY <2>5
<1> HIDE DEF Is
<1>3. Nat \subseteq S
  <2> HIDE DEF S
  <2> QED
    BY <1>1, <1>2, SetInduction
<1> QED
  BY <1>3 DEF Is, Follows

-----------------------------------------------------------------------------
(***************************************************************************)
(* Sums.  SumFunction adds the values of a function in an order that is    *)
(* chosen and not known.                                                   *)
(***************************************************************************)
Chosen(s) == CHOOSE x \in s : TRUE

\* g gives the sum of f over every subset of S.
Totals(g, f, S) ==
  g = [s \in SUBSET S |-> IF s = {} THEN 0
                          ELSE f[Chosen(s)] + g[s \ {Chosen(s)}]]

LEMMA SumIs ==
  ASSUME NEW f
  PROVE  SumFunction(f) = (CHOOSE g : Totals(g, f, DOMAIN f))[DOMAIN f]
BY Zenon DEF SumFunction, SumFunctionOnSet, FoldFunctionOnSet, MapThenFoldSet, Totals, Chosen

LEMMA TotalsExist ==
  ASSUME NEW f, NEW S, IsFiniteSet(S)
  PROVE  \E g : Totals(g, f, S)
<1> DEFINE Small(n) == {s \in SUBSET S : Cardinality(s) <= n}
           Value(g, s) == IF s = {} THEN 0 ELSE f[Chosen(s)] + g[s \ {Chosen(s)}]
           Is(g, n) == g = [s \in Small(n) |-> Value(g, s)]
           N == {n \in Nat : \E g : Is(g, n)}
<1>1. \A s \in SUBSET S : IsFiniteSet(s) /\ Cardinality(s) \in Nat
  BY FS_Subset, FS_CardinalityType
<1>2. \A s \in SUBSET S : s # {} =>
        /\ Chosen(s) \in s /\ s \ {Chosen(s)} \in SUBSET S
        /\ Cardinality(s \ {Chosen(s)}) = Cardinality(s) - 1
  BY <1>1, FS_RemoveElement DEF Chosen
<1>3. 0 \in N
  <2>1. \A s \in Small(0) : s = {}
    BY <1>1, FS_EmptySet
  <2>2. Is([s \in Small(0) |-> 0], 0)
    BY <2>1
  <2> QED
    BY <2>2
<1>4. ASSUME NEW n \in N PROVE n + 1 \in N
  <2>1. PICK g : Is(g, n)
    OBVIOUS
  <2> DEFINE h == [s \in Small(n + 1) |-> Value(g, s)]
  <2>2. \A s \in Small(n) : s \in Small(n + 1) /\ g[s] = Value(g, s)
    <3>1. Small(n) \subseteq Small(n + 1)
      BY <1>1
    <3> HIDE DEF Small, Value
    <3> QED
      BY <2>1, <3>1
  <2>3. \A s \in Small(n) : h[s] = g[s]
    <3> HIDE DEF Small, Value
    <3> QED
      BY <2>2
  <2>4. \A s \in Small(n + 1) : s # {} => s \ {Chosen(s)} \in Small(n)
    BY <1>1, <1>2
  <2>5. ASSUME NEW s \in Small(n + 1) PROVE Value(g, s) = Value(h, s)
    <3>1. CASE s # {}
      <4>1. s \ {Chosen(s)} \in Small(n)
        BY <2>4, <3>1, Zenon
      <4>2. h[s \ {Chosen(s)}] = g[s \ {Chosen(s)}]
        BY <2>3, <4>1, Zenon
      <4> HIDE DEF h
      <4> QED
        BY <4>2, Zenon
    <3>2. CASE s = {}
      BY <3>2, Zenon
    <3> QED
      BY <3>1, <3>2
  <2>6. Is(h, n + 1)
    <3> HIDE DEF Small, Value
    <3> QED
      BY <2>5
  <2>7. n + 1 \in Nat
    OBVIOUS
  <2> HIDE DEF h, Is
  <2> QED
    BY <2>6, <2>7
<1>5. Nat \subseteq N
  <2> HIDE DEF N
  <2> QED
    BY <1>3, <1>4, SetInduction
<1>6. PICK g : Is(g, Cardinality(S))
  BY <1>1, <1>5
<1>7. Small(Cardinality(S)) = SUBSET S
  BY <1>1, FS_Subset
<1> QED
  BY <1>6, <1>7 DEF Totals

LEMMA TotalsAre ==
  ASSUME NEW f, NEW S, NEW g, Totals(g, f, S)
  PROVE  /\ g[{}] = 0
         /\ \A s \in SUBSET S : s # {} =>
              Chosen(s) \in s /\ g[s] = f[Chosen(s)] + g[s \ {Chosen(s)}]
<1>1. \A s \in SUBSET S :
        g[s] = IF s = {} THEN 0 ELSE f[Chosen(s)] + g[s \ {Chosen(s)}]
  BY DEF Totals
<1>2. \A s \in SUBSET S : s # {} => Chosen(s) \in s
  BY DEF Chosen
<1>3. {} \in SUBSET S
  OBVIOUS
<1> QED
  BY <1>1, <1>2, <1>3

\* Any of them may be the first.
LEMMA TotalsInAnyOrder ==
  ASSUME NEW S, IsFiniteSet(S), NEW f \in [S -> Nat], NEW g, Totals(g, f, S),
         NEW s \in SUBSET S
  PROVE  g[s] \in Nat /\ \A y \in s : g[s] = f[y] + g[s \ {y}]
<1> DEFINE Good(r) == g[r] \in Nat /\ \A y \in r : g[r] = f[y] + g[r \ {y}]
           N == {n \in Nat : \A r \in SUBSET S : Cardinality(r) <= n => Good(r)}
<1>1. \A r \in SUBSET S : IsFiniteSet(r) /\ Cardinality(r) \in Nat
  BY FS_Subset, FS_CardinalityType
<1>2. \A r \in SUBSET S : \A x \in r : Cardinality(r \ {x}) = Cardinality(r) - 1
  BY <1>1, FS_RemoveElement
<1>3. \A r \in SUBSET S : r # {} => \E x \in r : g[r] = f[x] + g[r \ {x}]
  <2> HIDE DEF N, Good
  <2> SUFFICES ASSUME NEW r \in SUBSET S, r # {}
               PROVE  \E x \in r : g[r] = f[x] + g[r \ {x}]
    OBVIOUS
  <2>1. Chosen(r) \in r /\ g[r] = f[Chosen(r)] + g[r \ {Chosen(r)}]
    BY TotalsAre
  <2> QED
    BY <2>1
<1>4. 0 \in N
  <2>1. g[{}] = 0
    BY TotalsAre
  <2>2. Good({})
    BY <2>1
  <2> HIDE DEF Good
  <2> QED
    BY <1>1, <2>2, FS_EmptySet
<1>5. ASSUME NEW n \in N PROVE n + 1 \in N
  <2>1. \A r \in SUBSET S : Cardinality(r) <= n => Good(r)
    OBVIOUS
  <2> SUFFICES ASSUME NEW r \in SUBSET S, Cardinality(r) <= n + 1, r # {}
               PROVE  Good(r)
    <3>1. g[{}] = 0
      BY TotalsAre
    <3>2. Good({})
      BY <3>1
    <3> HIDE DEF Good
    <3> QED
      BY <3>2
  <2>2. PICK x \in r : g[r] = f[x] + g[r \ {x}]
    BY <1>3
  <2>3. \A y \in r : r \ {y} \in SUBSET S /\ Good(r \ {y})
    <3> HIDE DEF Good
    <3> QED
      BY <1>1, <1>2, <2>1
  <2>4. g[r] \in Nat
    <3>1. g[r \ {x}] \in Nat /\ f[x] \in Nat
      BY <2>3
    <3> QED
      BY <2>2, <3>1
  <2>5. ASSUME NEW y \in r, y # x PROVE g[r] = f[y] + g[r \ {y}]
    <3>1. g[r \ {x}] = f[y] + g[(r \ {x}) \ {y}]
      BY <2>3, <2>5
    <3>2. g[r \ {y}] = f[x] + g[(r \ {y}) \ {x}]
      BY <2>3, <2>5
    <3>3. (r \ {x}) \ {y} = (r \ {y}) \ {x}
      OBVIOUS
    <3>4. g[r \ {x}] \in Nat /\ g[r \ {y}] \in Nat /\ f[x] \in Nat /\ f[y] \in Nat
      BY <2>3
    <3>5. g[(r \ {x}) \ {y}] \in Nat
      <4>1. (r \ {x}) \ {y} \in SUBSET S
        OBVIOUS
      <4>2. Cardinality((r \ {x}) \ {y}) <= n
        <5>1. r \ {x} \in SUBSET S /\ y \in r \ {x}
          BY <2>5
        <5>2. Cardinality((r \ {x}) \ {y}) = Cardinality(r \ {x}) - 1
          BY <1>2, <5>1
        <5>3. Cardinality(r \ {x}) = Cardinality(r) - 1
          BY <1>2
        <5>4. Cardinality(r) \in Nat /\ n \in Nat
          BY <1>1
        <5> QED
          BY <5>2, <5>3, <5>4
      <4> QED
        BY <2>1, <4>1, <4>2
    <3> DEFINE u == g[r \ {x}]
               v == g[r \ {y}]
               w == g[(r \ {x}) \ {y}]
    <3>6. u = f[y] + w /\ v = f[x] + w /\ g[r] = f[x] + u
      BY <2>2, <3>1, <3>2, <3>3
    <3>7. /\ u \in Nat /\ v \in Nat /\ w \in Nat /\ f[x] \in Nat /\ f[y] \in Nat
      BY <3>4, <3>5
    <3> HIDE DEF u, v, w
    <3>8. g[r] = f[y] + v
      BY <3>6, <3>7
    <3> QED
      BY <3>8 DEF v
  <2> QED
    BY <2>2, <2>4, <2>5
<1>6. Nat \subseteq N
  <2> HIDE DEF N
  <2> QED
    BY <1>4, <1>5, SetInduction
<1>7. Cardinality(s) \in N
  BY <1>1, <1>6
<1> HIDE DEF Good
<1>8. Good(s)
  BY <1>1, <1>7
<1> QED
  BY <1>8 DEF Good

\* Where two functions agree, so do their sums.
LEMMA TotalsAgree ==
  ASSUME NEW S, NEW R, NEW f, NEW e, NEW g, NEW h, Totals(g, f, S), Totals(h, e, R),
         NEW T, IsFiniteSet(T), T \subseteq S, T \subseteq R,
         \A x \in T : f[x] = e[x]
  PROVE  g[T] = h[T]
<1> DEFINE N == {n \in Nat : \A s \in SUBSET T : Cardinality(s) <= n => g[s] = h[s]}
<1>1. \A s \in SUBSET T : IsFiniteSet(s) /\ Cardinality(s) \in Nat
  BY FS_Subset, FS_CardinalityType
<1>2. \A s \in SUBSET T : \A x \in s : Cardinality(s \ {x}) = Cardinality(s) - 1
  BY <1>1, FS_RemoveElement
<1>3. ASSUME NEW s \in SUBSET T, s = {} PROVE g[s] = h[s]
  <2>1. g[{}] = 0 /\ h[{}] = 0
    BY TotalsAre
  <2> QED
    BY <1>3, <2>1
<1>4. 0 \in N
  BY <1>1, <1>3, FS_EmptySet
<1>5. ASSUME NEW n \in N PROVE n + 1 \in N
  <2> SUFFICES ASSUME NEW s \in SUBSET T, Cardinality(s) <= n + 1, s # {}
               PROVE  g[s] = h[s]
    BY <1>3
  <2>1. s \in SUBSET S /\ s \in SUBSET R
    OBVIOUS
  <2>2. Chosen(s) \in s /\ g[s] = f[Chosen(s)] + g[s \ {Chosen(s)}]
    BY <2>1, TotalsAre
  <2>3. h[s] = e[Chosen(s)] + h[s \ {Chosen(s)}]
    BY <2>1, TotalsAre
  <2>4. g[s \ {Chosen(s)}] = h[s \ {Chosen(s)}]
    <3>1. s \ {Chosen(s)} \in SUBSET T
      OBVIOUS
    <3>2. Cardinality(s \ {Chosen(s)}) = Cardinality(s) - 1
      BY <1>2, <2>2
    <3>3. Cardinality(s \ {Chosen(s)}) <= n
      BY <1>1, <3>1, <3>2
    <3> QED
      BY <3>1, <3>3
  <2>5. f[Chosen(s)] = e[Chosen(s)]
    BY <2>2
  <2> QED
    BY <2>2, <2>3, <2>4, <2>5
<1>6. Nat \subseteq N
  <2> HIDE DEF N
  <2> QED
    BY <1>4, <1>5, SetInduction
<1>7. Cardinality(T) \in N /\ T \in SUBSET T
  BY <1>1, <1>6
<1> QED
  BY <1>1, <1>7

LEMMA SumSplits ==
  ASSUME NEW S, IsFiniteSet(S), NEW f \in [S -> Nat]
  PROVE  \E g : /\ Totals(g, f, S) /\ SumFunction(f) = g[S] /\ g[S] \in Nat
                /\ \A x : /\ g[S \ {x}] \in Nat
                          /\ x \in S => g[S] = f[x] + g[S \ {x}]
                          /\ x \notin S => g[S] = g[S \ {x}]
<1>1. PICK g : g = CHOOSE h : Totals(h, f, S)
  OBVIOUS
<1>2. Totals(g, f, S)
  BY <1>1, TotalsExist, Zenon
<1>3. SumFunction(f) = g[S]
  BY <1>1, SumIs
<1>4. \A s \in SUBSET S : g[s] \in Nat
  BY <1>2, TotalsInAnyOrder
<1>5. \A x \in S : g[S] = f[x] + g[S \ {x}]
  BY <1>2, TotalsInAnyOrder
<1>6. \A x : x \notin S => S \ {x} = S
  OBVIOUS
<1>7. \A x : S \ {x} \in SUBSET S
  OBVIOUS
<1>8. S \in SUBSET S
  OBVIOUS
<1> QED
  BY <1>2, <1>3, <1>4, <1>5, <1>6, <1>7, <1>8

\* A sum of naturals is one, and no less than any of them.
LEMMA SumBounds ==
  ASSUME NEW S, IsFiniteSet(S), NEW f \in [S -> Nat]
  PROVE  /\ SumFunction(f) \in Nat /\ \A x \in S : f[x] <= SumFunction(f)
         /\ S = {} => SumFunction(f) = 0
<1>1. PICK g : /\ Totals(g, f, S) /\ SumFunction(f) = g[S] /\ g[S] \in Nat
               /\ \A x : /\ g[S \ {x}] \in Nat
                         /\ x \in S => g[S] = f[x] + g[S \ {x}]
  BY SumSplits
<1>2. ASSUME NEW x \in S PROVE f[x] <= SumFunction(f)
  <2>1. g[S] = f[x] + g[S \ {x}] /\ g[S \ {x}] \in Nat /\ f[x] \in Nat
    BY <1>1
  <2> QED
    BY <1>1, <2>1
<1>3. S = {} => g[S] = 0
  BY <1>1, TotalsAre
<1> QED
  BY <1>1, <1>2, <1>3

\* Two functions that differ in one place, which one of them may not have.
LEMMA SumsDiffer ==
  ASSUME NEW S, IsFiniteSet(S), NEW f \in [S -> Nat],
         NEW R, IsFiniteSet(R), NEW e \in [R -> Nat],
         NEW x, S \ {x} = R \ {x}, \A y \in S \ {x} : e[y] = f[y]
  PROVE  SumFunction(e) + (IF x \in S THEN f[x] ELSE 0)
           = SumFunction(f) + (IF x \in R THEN e[x] ELSE 0)
<1>1. PICK g : /\ Totals(g, f, S) /\ SumFunction(f) = g[S]
               /\ g[S \ {x}] \in Nat
               /\ x \in S => g[S] = f[x] + g[S \ {x}]
               /\ x \notin S => g[S] = g[S \ {x}]
  BY SumSplits
<1>2. PICK h : /\ Totals(h, e, R) /\ SumFunction(e) = h[R]
               /\ h[R \ {x}] \in Nat
               /\ x \in R => h[R] = e[x] + h[R \ {x}]
               /\ x \notin R => h[R] = h[R \ {x}]
  BY SumSplits
<1>3. IsFiniteSet(S \ {x})
  BY FS_Subset
<1>4. g[S \ {x}] = h[R \ {x}]
  <2>1. S \ {x} \subseteq S /\ S \ {x} \subseteq R
    OBVIOUS
  <2>2. \A y \in S \ {x} : f[y] = e[y]
    OBVIOUS
  <2>3. g[S \ {x}] = h[S \ {x}]
    BY <1>1, <1>2, <1>3, <2>1, <2>2, TotalsAgree
  <2> QED
    BY <2>3
<1>5. (x \in S => f[x] \in Nat) /\ (x \in R => e[x] \in Nat)
  OBVIOUS
<1> QED
  BY <1>1, <1>2, <1>4, <1>5

-----------------------------------------------------------------------------
(***************************************************************************)
(* Division, as far as the provers have to be told.                        *)
(***************************************************************************)
LEMMA Divides ==
  ASSUME NEW x \in Int, NEW y \in Int, y >= 1
  PROVE  x \div y \in Int /\ x % y \in 0 .. y - 1 /\ x = y * (x \div y) + (x % y)
<1>1. x \div y \in Int
  BY SMT
<1>2. x % y \in 0 .. y - 1
  BY SMT
<1>3. x = y * (x \div y) + (x % y)
  BY SMT
<1> QED
  BY <1>1, <1>2, <1>3, Zenon

\* The only multiple of y nearer to zero than y is zero.
LEMMA NoMultipleBetween ==
  ASSUME NEW x \in Int, NEW y \in Int, x * y < y, -y < x * y, y >= 1
  PROVE  x = 0
<1>1. CASE x >= 1
  <2>1. x * y >= y
    BY <1>1
  <2> QED
    BY <2>1
<1>2. CASE x <= -1
  <2> DEFINE z == -x
  <2>1. z \in Int /\ z >= 1 /\ x * y = -(z * y)
    BY <1>2
  <2> HIDE DEF z
  <2>2. z * y >= y
    BY <2>1
  <2>3. z * y \in Int
    BY <2>1
  <2> QED
    BY <2>1, <2>2, <2>3
<1> QED
  BY <1>1, <1>2

\* Quotient and remainder are the only numbers that divide.
LEMMA DividesOnce ==
  ASSUME NEW x \in Int, NEW y \in Int, y >= 1, NEW e \in 0 .. y - 1
  PROVE  (y * x + e) \div y = x /\ (y * x + e) % y = e
<1> DEFINE w == y * x + e
           d == w \div y
           f == w % y
<1>1. w \in Int
  OBVIOUS
<1>2. d \in Int /\ f \in 0 .. y - 1 /\ w = y * d + f
  <2> HIDE DEF w
  <2> QED
    BY <1>1, Divides
<1> HIDE DEF d, f
<1>3. (x - d) * y = f - e
  <2>1. (x - d) * y = y * x - y * d /\ y * x \in Int /\ y * d \in Int
    BY <1>2
  <2> DEFINE u == y * x
             v == y * d
             t == (x - d) * y
  <2>2. t = u - v /\ u \in Int /\ v \in Int /\ u + e = v + f
    BY <1>2, <2>1
  <2> HIDE DEF u, v, t
  <2>3. t = f - e
    BY <1>2, <2>2
  <2> QED
    BY <2>3 DEF t
<1>4. x - d = 0
  <2>1. (x - d) * y < y /\ -y < (x - d) * y
    BY <1>2, <1>3
  <2>2. x - d \in Int
    BY <1>2
  <2> QED
    BY <2>1, <2>2, NoMultipleBetween
<1>5. f = e
  <2>1. (x - d) * y = 0
    BY <1>4
  <2> QED
    BY <1>2, <1>3, <2>1
<1>6. x = d
  BY <1>2, <1>4
<1> QED
  BY <1>5, <1>6 DEF d, f

\* Remainders.
LEMMA ModOf ==
  ASSUME NEW x \in Int, NEW m \in Int, m >= 1, NEW k \in Int, NEW e \in 0 .. m - 1,
         x = e + k * m
  PROVE  x % m = e
<1>1. k * m = m * k /\ m * k \in Int
  OBVIOUS
<1>2. x = m * k + e
  BY <1>1
<1> QED
  BY <1>2, DividesOnce

\* Adding a multiple of m changes no remainder.
LEMMA ModSame ==
  ASSUME NEW y \in Int, NEW m \in Int, m >= 1, NEW k \in Int
  PROVE  (y + k * m) % m = y % m
<1> DEFINE d == y \div m
           e == y % m
           x == y + k * m
<1>1. d \in Int /\ e \in 0 .. m - 1 /\ y = m * d + e
  BY Divides
<1> HIDE DEF d, e
<1>2. (k + d) * m = k * m + m * d /\ k * m \in Int /\ m * d \in Int
  BY <1>1
<1>3. x = e + (k + d) * m /\ x \in Int
  BY <1>1, <1>2
<1> HIDE DEF x
<1>4. x % m = e
  BY <1>1, <1>3, ModOf
<1> QED
  BY <1>4 DEF e, x

\* Numbers with the same remainder are a multiple of m apart.
LEMMA ModDiffers ==
  ASSUME NEW x \in Int, NEW y \in Int, NEW m \in Int, m >= 1, x % m = y % m
  PROVE  \E k \in Int : x - y = k * m
<1> DEFINE d == y \div m
           e == y % m
           f == x \div m
<1>1. d \in Int /\ e \in 0 .. m - 1 /\ y = m * d + e
  BY Divides
<1>2. f \in Int /\ x = m * f + e
  <2>1. f \in Int /\ x = m * f + (x % m)
    BY Divides
  <2> QED
    BY <2>1
<1> HIDE DEF d, e, f
<1>3. (f - d) * m = m * f - m * d /\ m * f \in Int /\ m * d \in Int
  BY <1>1, <1>2
<1>4. x - y = (f - d) * m
  BY <1>1, <1>2, <1>3
<1>5. f - d \in Int
  BY <1>1, <1>2
<1> QED
  BY <1>4, <1>5

\* Numbers less than m apart have remainders of their own.
LEMMA ModApart ==
  ASSUME NEW x \in Int, NEW y \in Int, NEW m \in Int, m >= 1, x % m = y % m,
         x - y < m, y - x < m
  PROVE  x = y
<1>1. PICK k \in Int : x - y = k * m
  BY ModDiffers
<1>2. k * m < m /\ -m < k * m
  BY <1>1
<1>3. k = 0
  BY <1>2, NoMultipleBetween
<1>4. k * m = 0
  BY <1>3
<1> QED
  BY <1>1, <1>4

\* A remainder may be taken before a subtraction as well as after.
LEMMA ModKeeps ==
  ASSUME NEW x \in Int, NEW m \in Int, m >= 1
  PROVE  /\ x % m \in 0 .. m - 1
         /\ \A y \in Int : ((x % m) - y) % m = (x - y) % m
<1>1. x % m \in 0 .. m - 1 /\ x \div m \in Int /\ x = m * (x \div m) + (x % m)
  BY Divides
<1> DEFINE e == x % m
           k == x \div m
<1>2. e \in Int /\ k \in Int /\ x = m * k + e
  BY <1>1
<1> HIDE DEF e, k
<1>3. ASSUME NEW y \in Int PROVE (e - y) % m = (x - y) % m
  <2>1. k * m = m * k /\ k * m \in Int
    BY <1>2
  <2> DEFINE u == x - y
             v == e - y
  <2>2. u = v + k * m /\ u \in Int /\ v \in Int
    BY <1>2, <2>1
  <2> HIDE DEF u, v
  <2>3. (v + k * m) % m = v % m
    BY <1>2, <2>2, ModSame, Zenon
  <2> QED
    BY <2>2, <2>3, Zenon DEF u, v
<1> QED
  BY <1>1, <1>3 DEF e

\* A number below m is its own remainder.
LEMMA ModSmall ==
  ASSUME NEW m \in Int, m >= 1, NEW e \in 0 .. m - 1
  PROVE  e % m = e
BY SMT


\* Nor does it matter to a sum.
LEMMA ModSum ==
  ASSUME NEW x \in Int, NEW y \in Int, NEW m \in Int, m >= 1
  PROVE  ((x % m) + (y % m)) % m = (x + y) % m
<1>1. x % m \in Int /\ y % m \in Int
  BY Divides
<1> DEFINE e == x % m
           f == y % m
           u == -f
           v == -x
<1>2. e \in Int /\ f \in Int /\ u \in Int /\ v \in Int
  BY <1>1
<1>3. e - u = e + f /\ x - u = f - v /\ y - v = x + y
  BY <1>2
<1> HIDE DEF u, v
<1>4. (e - u) % m = (x - u) % m
  BY <1>2, ModKeeps
<1>5. (f - v) % m = (y - v) % m
  BY <1>2, ModKeeps
<1> QED
  BY <1>3, <1>4, <1>5
=============================================================================
