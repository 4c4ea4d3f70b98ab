-------------------------- MODULE GaloisFieldProofs --------------------------
(***************************************************************************)
(* Proofs about GaloisField, for every polynomial whose powers reach every *)
(* element: what a loop computes, and that sums and products of elements   *)
(* obey the laws of a field.                                               *)
(***************************************************************************)
EXTENDS GaloisField, Induction

(***************************************************************************)
(* Loops.  A walk is the values a variable of S takes in the rounds lo to  *)
(* hi of a loop.  Loop gives the last value of the one walk there is.      *)
(***************************************************************************)
Walks(c, lo, hi, S, f) ==
  /\ c \in [lo - 1 .. hi -> S]
  /\ \A i \in lo .. hi : c[i] = f[i][c[i - 1]]

Reaches(v, lo, w, hi, S, f) ==
  \E c : Walks(c, lo, hi, S, f) /\ c[lo - 1] = v /\ c[hi] = w

\* f gives a round of the loop for each of 1 .. n.
Body(f, n, S) == f \in [1 .. n -> [S -> S]]

LEMMA WalkExists ==
  ASSUME NEW n \in Nat, NEW S, NEW f, Body(f, n, S),
         NEW lo \in 1 .. n + 1, NEW v \in S, NEW hi \in lo - 1 .. n
  PROVE  \E w \in S : Reaches(v, lo, w, hi, S, f)
<1> DEFINE Is(c, k) == Walks(c, lo, lo - 1 + k, S, f) /\ c[lo - 1] = v
           Z == {k \in Nat : lo - 1 + k <= n => \E c : Is(c, k)}
<1>1. 0 \in Z
  <2>1. Is([i \in lo - 1 .. lo - 1 |-> v], 0)
    BY DEF Walks
  <2> QED
    BY <2>1
<1>2. ASSUME NEW k \in Nat, k \in Z PROVE k + 1 \in Z
  <2> SUFFICES ASSUME lo - 1 + (k + 1) <= n PROVE \E c : Is(c, k + 1)
    BY DEF Z
  <2>1. PICK c : Is(c, k)
    BY <1>2
  <2> DEFINE h == lo + k
             d == [i \in lo - 1 .. h |-> IF i = h THEN f[h][c[h - 1]] ELSE c[i]]
  <2>2. h \in 1 .. n /\ h - 1 = lo - 1 + k /\ h = lo - 1 + (k + 1)
    OBVIOUS
  <2>3. c \in [lo - 1 .. h - 1 -> S] /\ c[lo - 1] = v
        /\ \A i \in lo .. h - 1 : c[i] = f[i][c[i - 1]]
    BY <2>1, <2>2 DEF Walks
  <2>4. c[h - 1] \in S /\ f[h] \in [S -> S]
    BY <2>2, <2>3 DEF Body
  <2>5. d \in [lo - 1 .. h -> S]
    BY <2>2, <2>3, <2>4
  <2>6. d[lo - 1] = v
    BY <2>2, <2>3
  <2>7. \A i \in lo .. h : d[i] = f[i][d[i - 1]]
    <3> SUFFICES ASSUME NEW i \in lo .. h PROVE d[i] = f[i][d[i - 1]]
      OBVIOUS
    <3>1. d[i - 1] = c[i - 1]
      BY <2>2
    <3>2. i # h => d[i] = c[i] /\ i \in lo .. h - 1
      BY <2>2
    <3>3. i = h => d[i] = f[i][c[i - 1]]
      BY <2>2
    <3> QED
      BY <2>3, <3>1, <3>2, <3>3
  <2> HIDE DEF d, h
  <2>8. Is(d, k + 1)
    BY <2>2, <2>5, <2>6, <2>7 DEF Walks
  <2> QED
    BY <2>8
<1>3. Nat \subseteq Z
  <2> HIDE DEF Z
  <2> QED
    BY <1>1, <1>2, SetInduction
<1>4. PICK c : Is(c, hi - (lo - 1))
  <2>1. hi - (lo - 1) \in Nat /\ lo - 1 + (hi - (lo - 1)) <= n
    OBVIOUS
  <2> QED
    BY <1>3, <2>1
<1>5. Walks(c, lo, hi, S, f) /\ c[lo - 1] = v
  <2>1. lo - 1 + (hi - (lo - 1)) = hi
    OBVIOUS
  <2> QED
    BY <1>4, <2>1
<1>6. c[hi] \in S
  BY <1>5 DEF Walks
<1> QED
  BY <1>5, <1>6 DEF Reaches

LEMMA WalksAgree ==
  ASSUME NEW S, NEW f, NEW lo \in Nat, NEW hi \in Int, NEW c, NEW d,
         Walks(c, lo, hi, S, f), Walks(d, lo, hi, S, f),
         c[lo - 1] = d[lo - 1]
  PROVE  \A i \in lo - 1 .. hi : c[i] = d[i]
<1> DEFINE Z == {k \in Nat : lo - 1 + k <= hi => c[lo - 1 + k] = d[lo - 1 + k]}
<1>1. 0 \in Z
  OBVIOUS
<1>2. ASSUME NEW k \in Nat, k \in Z PROVE k + 1 \in Z
  <2> SUFFICES ASSUME lo + k <= hi PROVE c[lo + k] = d[lo + k]
    <3>1. lo - 1 + (k + 1) = lo + k
      OBVIOUS
    <3> QED
      BY <3>1
  <2>1. c[lo - 1 + k] = d[lo - 1 + k]
    BY <1>2
  <2>2. lo + k \in lo .. hi /\ (lo + k) - 1 = lo - 1 + k
    OBVIOUS
  <2>3. c[lo + k] = f[lo + k][c[(lo + k) - 1]] /\ d[lo + k] = f[lo + k][d[(lo + k) - 1]]
    BY <2>2 DEF Walks
  <2> QED
    BY <2>1, <2>2, <2>3
<1>3. Nat \subseteq Z
  <2> HIDE DEF Z
  <2> QED
    BY <1>1, <1>2, SetInduction
<1> SUFFICES ASSUME NEW i \in lo - 1 .. hi PROVE c[i] = d[i]
  OBVIOUS
<1>4. i - (lo - 1) \in Nat /\ lo - 1 + (i - (lo - 1)) = i
  OBVIOUS
<1> QED
  BY <1>3, <1>4

LEMMA ReachesOne ==
  ASSUME NEW S, NEW f, NEW lo \in Nat, NEW hi \in Int, lo - 1 <= hi,
         NEW v, NEW w, NEW u,
         Reaches(v, lo, w, hi, S, f), Reaches(v, lo, u, hi, S, f)
  PROVE  w = u
<1>1. PICK c : Walks(c, lo, hi, S, f) /\ c[lo - 1] = v /\ c[hi] = w
  BY DEF Reaches
<1>2. PICK d : Walks(d, lo, hi, S, f) /\ d[lo - 1] = v /\ d[hi] = u
  BY DEF Reaches
<1>3. hi \in lo - 1 .. hi /\ hi \in Int
  OBVIOUS
<1> QED
  BY <1>1, <1>2, <1>3, WalksAgree

LEMMA WalksJoin ==
  ASSUME NEW S, NEW f, NEW lo \in Nat, NEW hi \in Int, NEW mid \in lo - 1 .. hi,
         NEW v, NEW u, NEW w,
         Reaches(v, lo, u, mid, S, f), Reaches(u, mid + 1, w, hi, S, f)
  PROVE  Reaches(v, lo, w, hi, S, f)
<1>1. PICK c : Walks(c, lo, mid, S, f) /\ c[lo - 1] = v /\ c[mid] = u
  BY DEF Reaches
<1>2. PICK d : Walks(d, mid + 1, hi, S, f) /\ d[(mid + 1) - 1] = u /\ d[hi] = w
  BY DEF Reaches
<1> DEFINE e == [i \in lo - 1 .. hi |-> IF i <= mid THEN c[i] ELSE d[i]]
<1>3. /\ c \in [lo - 1 .. mid -> S]
      /\ \A i \in lo .. mid : c[i] = f[i][c[i - 1]]
  BY <1>1 DEF Walks
<1>4. /\ d \in [mid .. hi -> S] /\ d[mid] = u
      /\ \A i \in mid + 1 .. hi : d[i] = f[i][d[i - 1]]
  <2>1. (mid + 1) - 1 = mid
    OBVIOUS
  <2> QED
    BY <1>2, <2>1 DEF Walks
<1>5. e \in [lo - 1 .. hi -> S]
  BY <1>3, <1>4
<1>6. \A i \in lo .. hi : e[i] = f[i][e[i - 1]]
  <2> SUFFICES ASSUME NEW i \in lo .. hi PROVE e[i] = f[i][e[i - 1]]
    OBVIOUS
  <2>1. CASE i <= mid
    <3>1. e[i] = c[i] /\ e[i - 1] = c[i - 1] /\ i \in lo .. mid
      BY <2>1
    <3> QED
      BY <1>3, <3>1
  <2>2. CASE i = mid + 1
    <3>1. e[i] = d[i] /\ e[i - 1] = c[mid] /\ i - 1 = mid /\ i \in mid + 1 .. hi
      BY <2>2
    <3> QED
      BY <1>1, <1>4, <3>1
  <2>3. CASE i > mid + 1
    <3>1. e[i] = d[i] /\ e[i - 1] = d[i - 1] /\ i \in mid + 1 .. hi
      BY <2>3
    <3> QED
      BY <1>4, <3>1
  <2> QED
    BY <2>1, <2>2, <2>3
<1>7. e[lo - 1] = v
  BY <1>1
<1>8. e[hi] = w
  BY <1>1, <1>2, <1>4
<1> HIDE DEF e
<1> QED
  BY <1>5, <1>6, <1>7, <1>8 DEF Reaches, Walks

\* What Loop chooses: the value of the rounds lo .. hi, half by half.
HalvesIn(run, n, S, f) ==
  run = [lo \in 1 .. n + 1 |-> [hi \in 0 .. n |-> [v \in S |->
           LET middle == (lo + hi) \div 2
           IN  IF lo > hi THEN v
               ELSE IF lo = hi THEN f[lo][v]
               ELSE run[middle + 1][hi][run[lo][middle][v]]]]]

LEMMA ReachesRound ==
  ASSUME NEW n \in Nat, NEW S, NEW f, Body(f, n, S),
         NEW i \in 1 .. n, NEW v \in S
  PROVE  Reaches(v, i, f[i][v], i, S, f) /\ f[i][v] \in S
<1> DEFINE c == [j \in i - 1 .. i |-> IF j = i THEN f[i][v] ELSE v]
<1>1. f[i][v] \in S
  BY DEF Body
<1>2. c \in [i - 1 .. i -> S] /\ c[i - 1] = v /\ c[i] = f[i][v]
  BY <1>1
<1> HIDE DEF c
<1>3. Walks(c, i, i, S, f)
  BY <1>2 DEF Walks
<1> QED
  BY <1>1, <1>2, <1>3 DEF Reaches

LEMMA HalvesExist ==
  ASSUME NEW n \in Nat, NEW S, NEW f, Body(f, n, S)
  PROVE  \E run : HalvesIn(run, n, S, f)
<1> DEFINE Value(v, lo, hi) ==
             IF lo > hi THEN v ELSE CHOOSE w \in S : Reaches(v, lo, w, hi, S, f)
           run == [lo \in 1 .. n + 1 |-> [hi \in 0 .. n |-> [v \in S |-> Value(v, lo, hi)]]]
           HalfOf(v, lo, hi) ==
             LET middle == (lo + hi) \div 2
             IN  IF lo > hi THEN v
                 ELSE IF lo = hi THEN f[lo][v]
                 ELSE run[middle + 1][hi][run[lo][middle][v]]
<1>1. ASSUME NEW v \in S, NEW lo \in 1 .. n, NEW hi \in lo .. n
      PROVE  Value(v, lo, hi) \in S /\ Reaches(v, lo, Value(v, lo, hi), hi, S, f)
  <2>1. \E w \in S : Reaches(v, lo, w, hi, S, f)
    BY WalkExists
  <2> QED
    BY <2>1
<1>2. ASSUME NEW v \in S, NEW lo \in 1 .. n + 1, NEW hi \in 0 .. n
      PROVE  Value(v, lo, hi) = HalfOf(v, lo, hi)
  <2>1. CASE lo > hi
    BY <2>1
  <2>2. CASE lo = hi
    <3>1. lo \in 1 .. n /\ hi \in lo .. n /\ ~(lo > hi)
      BY <2>2
    <3>2. Reaches(v, lo, f[lo][v], hi, S, f)
      BY <2>2, <3>1, ReachesRound
    <3>3. Reaches(v, lo, Value(v, lo, hi), hi, S, f)
      BY <1>1, <3>1
    <3> HIDE DEF Value
    <3>4. Value(v, lo, hi) = f[lo][v]
      BY <2>2, <3>1, <3>2, <3>3, ReachesOne
    <3> QED
      BY <2>2, <3>1, <3>4
  <2>3. CASE lo < hi
    <3> DEFINE mid == (lo + hi) \div 2
               u == Value(v, lo, mid)
    <3>1. mid \in lo .. hi - 1 /\ mid \in Int
      BY <2>3
    <3> HIDE DEF mid
    <3>2. mid \in lo .. n /\ mid \in 0 .. n /\ lo \in 1 .. n /\ mid + 1 \in 1 .. n
          /\ mid + 1 \in 1 .. n + 1 /\ hi \in mid + 1 .. n /\ hi \in lo .. n
          /\ mid \in lo - 1 .. hi /\ lo \in Nat /\ hi \in Int /\ lo - 1 <= hi
      BY <3>1
    <3>3. u \in S /\ Reaches(v, lo, u, mid, S, f)
      BY <1>1, <3>2
    <3>4. Reaches(u, mid + 1, Value(u, mid + 1, hi), hi, S, f)
      BY <1>1, <3>2, <3>3
    <3>5. Reaches(v, lo, Value(v, lo, hi), hi, S, f)
      BY <1>1, <3>2
    <3>6. run[lo][mid][v] = u
      BY <3>2
    <3>7. run[mid + 1][hi][u] = Value(u, mid + 1, hi)
      <4> HIDE DEF u, Value
      <4> QED
        BY <3>2, <3>3
    <3> HIDE DEF Value, u, run
    <3>8. Reaches(v, lo, Value(u, mid + 1, hi), hi, S, f)
      BY <3>2, <3>3, <3>4, WalksJoin
    <3>9. Value(v, lo, hi) = Value(u, mid + 1, hi)
      BY <3>2, <3>5, <3>8, ReachesOne
    <3> QED
      BY <2>3, <3>6, <3>7, <3>9 DEF mid
  <2> QED
    BY <2>1, <2>2, <2>3
<1>3. run = [lo \in 1 .. n + 1 |-> [hi \in 0 .. n |-> [v \in S |-> HalfOf(v, lo, hi)]]]
  <2> HIDE DEF Value, HalfOf
  <2> QED
    BY <1>2
<1>4. HalvesIn(run, n, S, f)
  BY <1>3, Zenon DEF HalvesIn
<1> HIDE DEF run
<1> QED
  BY <1>4

LEMMA HalvesReach ==
  ASSUME NEW n \in Nat, NEW S, NEW f, Body(f, n, S),
         NEW run, HalvesIn(run, n, S, f)
  PROVE  \A v \in S : \A lo \in 1 .. n + 1 : \A hi \in lo - 1 .. n :
           run[lo][hi][v] \in S /\ Reaches(v, lo, run[lo][hi][v], hi, S, f)
<1> DEFINE Good(v, lo, hi) ==
             run[lo][hi][v] \in S /\ Reaches(v, lo, run[lo][hi][v], hi, S, f)
           Z == {k \in Nat : \A v \in S : \A lo \in 1 .. n + 1 : \A hi \in lo - 1 .. n :
                               hi - lo <= k - 1 => Good(v, lo, hi)}
<1> DEFINE HalfOf(v, lo, hi) ==
             LET middle == (lo + hi) \div 2
             IN  IF lo > hi THEN v
                 ELSE IF lo = hi THEN f[lo][v]
                 ELSE run[middle + 1][hi][run[lo][middle][v]]
<1>0. \A v \in S : \A lo \in 1 .. n + 1 : \A hi \in 0 .. n :
        run[lo][hi][v] = HalfOf(v, lo, hi)
  <2>1. run = [lo \in 1 .. n + 1 |-> [hi \in 0 .. n |-> [v \in S |-> HalfOf(v, lo, hi)]]]
    BY Zenon DEF HalvesIn
  <2> HIDE DEF HalfOf
  <2> QED
    BY <2>1
<1>1. 0 \in Z
  <2> SUFFICES ASSUME NEW v \in S, NEW lo \in 1 .. n + 1, NEW hi \in lo - 1 .. n,
                      hi - lo <= 0 - 1
               PROVE  Good(v, lo, hi)
    OBVIOUS
  <2>1. hi = lo - 1 /\ lo > hi /\ hi \in 0 .. n
    OBVIOUS
  <2>2. run[lo][hi][v] = v
    BY <1>0, <2>1
  <2> DEFINE c == [i \in lo - 1 .. hi |-> v]
  <2>3. Walks(c, lo, hi, S, f) /\ c[lo - 1] = v /\ c[hi] = v
    BY <2>1 DEF Walks
  <2>4. Reaches(v, lo, v, hi, S, f)
    BY <2>3 DEF Reaches
  <2> QED
    BY <2>2, <2>4
<1>2. ASSUME NEW k \in Nat, k \in Z PROVE k + 1 \in Z
  <2> SUFFICES ASSUME NEW v \in S, NEW lo \in 1 .. n + 1, NEW hi \in lo - 1 .. n,
                      hi - lo <= (k + 1) - 1
               PROVE  Good(v, lo, hi)
    OBVIOUS
  <2>0. \A x \in S : \A l \in 1 .. n + 1 : \A r \in l - 1 .. n :
          r - l <= k - 1 => Good(x, l, r)
    BY <1>2
  <2> HIDE DEF Z
  <2>1. CASE hi - lo <= k - 1
    BY <2>0, <2>1
  <2>2. CASE lo = hi
    <3>1. lo \in 1 .. n /\ hi \in 0 .. n /\ ~(lo > hi)
      BY <2>2
    <3>2. run[lo][hi][v] = f[lo][v]
      BY <1>0, <2>2, <3>1
    <3>3. Reaches(v, lo, f[lo][v], hi, S, f) /\ f[lo][v] \in S
      BY <2>2, <3>1, ReachesRound
    <3> QED
      BY <3>2, <3>3
  <2>3. CASE lo < hi
    <3> DEFINE mid == (lo + hi) \div 2
               u == run[lo][mid][v]
    <3>1. mid \in lo .. hi - 1 /\ mid \in Int
      BY <2>3
    <3>2. hi \in 0 .. n /\ ~(lo > hi) /\ lo # hi
      BY <2>3
    <3>3. run[lo][hi][v] = run[mid + 1][hi][u]
      BY <1>0, <3>2
    <3> HIDE DEF mid
    <3>4. /\ mid \in lo - 1 .. n /\ mid - lo <= k - 1 /\ mid \in lo - 1 .. hi
          /\ mid + 1 \in 1 .. n + 1 /\ hi \in (mid + 1) - 1 .. n
          /\ hi - (mid + 1) <= k - 1 /\ lo \in Nat /\ hi \in Int
      BY <2>3, <3>1
    <3>5. Good(v, lo, mid)
      BY <2>0, <3>4
    <3>6. u \in S
      BY <3>5
    <3> HIDE DEF u
    <3>7. Good(u, mid + 1, hi)
      BY <2>0, <3>4, <3>6
    <3>8. Reaches(v, lo, u, mid, S, f)
      BY <3>5 DEF u
    <3>9. Reaches(v, lo, run[mid + 1][hi][u], hi, S, f)
      BY <3>4, <3>7, <3>8, WalksJoin
    <3> QED
      BY <3>3, <3>7, <3>9
  <2> QED
    BY <2>1, <2>2, <2>3
<1>3. Nat \subseteq Z
  <2> HIDE DEF Z
  <2> QED
    BY <1>1, <1>2, SetInduction
<1> SUFFICES ASSUME NEW v \in S, NEW lo \in 1 .. n + 1, NEW hi \in lo - 1 .. n
             PROVE  Good(v, lo, hi)
  OBVIOUS
<1>4. hi - lo + 1 \in Nat /\ hi - lo <= (hi - lo + 1) - 1
  OBVIOUS
<1>5. hi - lo + 1 \in Z
  BY <1>3, <1>4
<1> HIDE DEF Good
<1> QED
  BY <1>4, <1>5

\* The values of the variable of a whole loop, from before the first round.
Rounds(c, n, x, S, f) ==
  /\ c \in [0 .. n -> S] /\ c[0] = x
  /\ \A i \in 1 .. n : c[i] = f[i][c[i - 1]]

\* What a loop computes: the end of a walk from x through all its rounds.
LEMMA LoopWalks ==
  ASSUME NEW n \in Nat, NEW S, NEW x \in S, NEW f, Body(f, n, S)
  PROVE  \E c : Rounds(c, n, x, S, f) /\ Loop(n, x, S, f) = c[n]
<1>1. PICK run : run = CHOOSE r : HalvesIn(r, n, S, f)
  OBVIOUS
<1>2. HalvesIn(run, n, S, f)
  BY <1>1, HalvesExist, Zenon
<1>3. Loop(n, x, S, f) = run[1][n][x]
  BY <1>1, Zenon DEF Loop, HalvesIn
<1>4. 1 \in 1 .. n + 1 /\ n \in 1 - 1 .. n /\ 1 - 1 = 0
  OBVIOUS
<1>5. Reaches(x, 1, run[1][n][x], n, S, f)
  BY <1>2, <1>4, HalvesReach
<1> QED
  BY <1>3, <1>4, <1>5 DEF Reaches, Walks, Rounds

\* The walk is the only one.
LEMMA LoopIs ==
  ASSUME NEW n \in Nat, NEW S, NEW x \in S, NEW f, Body(f, n, S),
         NEW c, Rounds(c, n, x, S, f)
  PROVE  Loop(n, x, S, f) = c[n]
<1>1. PICK d : Rounds(d, n, x, S, f) /\ Loop(n, x, S, f) = d[n]
  BY LoopWalks, Zenon
<1>2. Walks(c, 1, n, S, f) /\ Walks(d, 1, n, S, f) /\ 1 - 1 = 0 /\ c[0] = d[0]
  BY <1>1 DEF Walks, Rounds
<1>3. \A i \in 0 .. n : c[i] = d[i]
  BY <1>2, WalksAgree
<1> QED
  BY <1>1, <1>3

LEMMA LoopType ==
  ASSUME NEW n \in Nat, NEW S, NEW x \in S, NEW f, Body(f, n, S)
  PROVE  Loop(n, x, S, f) \in S
<1>1. PICK c : Rounds(c, n, x, S, f) /\ Loop(n, x, S, f) = c[n]
  BY LoopWalks, Zenon
<1> QED
  BY <1>1 DEF Rounds

LEMMA LoopNone ==
  ASSUME NEW S, NEW x \in S, NEW f, Body(f, 0, S)
  PROVE  Loop(0, x, S, f) = x
<1>0. 0 \in Nat
  OBVIOUS
<1>1. PICK c : Rounds(c, 0, x, S, f) /\ Loop(0, x, S, f) = c[0]
  BY <1>0, LoopWalks, Zenon
<1> QED
  BY <1>1 DEF Rounds

\* k is the number after n; a name, so that n + 1 can be a term like another.
After(n, k) == n \in Nat /\ k \in Nat /\ k = n + 1

\* One round more.
LEMMA LoopNext ==
  ASSUME NEW n \in Nat, NEW k \in Nat, After(n, k), NEW S, NEW x \in S,
         NEW f, Body(f, k, S),
         NEW g, Body(g, n, S), \A i \in 1 .. n : g[i] = f[i]
  PROVE  Loop(k, x, S, f) = f[k][Loop(n, x, S, g)]
<1>0. k = n + 1
  BY DEF After
<1>1. PICK c : Rounds(c, k, x, S, f) /\ Loop(k, x, S, f) = c[k]
  BY LoopWalks, Zenon
<1> DEFINE d == [i \in 0 .. n |-> c[i]]
<1>2. d \in [0 .. n -> S] /\ \A i \in 1 .. n : d[i] = g[i][d[i - 1]]
  <2>1. d \in [0 .. n -> S]
    BY <1>0, <1>1 DEF Rounds
  <2>2. ASSUME NEW i \in 1 .. n PROVE d[i] = g[i][d[i - 1]]
    <3>1. d[i] = c[i] /\ d[i - 1] = c[i - 1] /\ i \in 1 .. k
      BY <1>0
    <3> QED
      BY <1>1, <3>1 DEF Rounds
  <2> QED
    BY <2>1, <2>2
<1>3. d[0] = x /\ d[n] = c[n]
  BY <1>1 DEF Rounds
<1> HIDE DEF d
<1>4. Rounds(d, n, x, S, g)
  BY <1>2, <1>3 DEF Rounds
<1>5. Loop(n, x, S, g) = d[n]
  BY <1>4, LoopIs, Zenon
<1>6. k \in 1 .. k /\ k - 1 = n
  BY <1>0
<1> QED
  BY <1>1, <1>3, <1>5, <1>6 DEF Rounds

\* A loop whose rounds are all the same.
Same(n, h) == [i \in 1 .. n |-> h]

LEMMA LoopSame ==
  ASSUME NEW S, NEW x \in S, NEW h \in [S -> S]
  PROVE  /\ Loop(0, x, S, Same(0, h)) = x
         /\ \A n, k \in Nat : After(n, k) =>
              /\ Loop(n, x, S, Same(n, h)) \in S
              /\ Loop(k, x, S, Same(k, h)) = h[Loop(n, x, S, Same(n, h))]
<1>1. \A n \in Nat : Body(Same(n, h), n, S)
  BY DEF Same, Body
<1>2. Loop(0, x, S, Same(0, h)) = x
  <2>1. Body(Same(0, h), 0, S)
    BY <1>1
  <2> QED
    BY <2>1, LoopNone, Zenon
<1> SUFFICES ASSUME NEW n \in Nat, NEW k \in Nat, After(n, k)
             PROVE  /\ Loop(n, x, S, Same(n, h)) \in S
                    /\ Loop(k, x, S, Same(k, h)) = h[Loop(n, x, S, Same(n, h))]
  BY <1>2
<1> DEFINE f == Same(k, h)
           g == Same(n, h)
<1>3. Body(f, k, S) /\ Body(g, n, S)
  BY <1>1
<1>4. f[k] = h /\ \A i \in 1 .. n : g[i] = f[i]
  BY DEF Same, After
<1> HIDE DEF f, g
<1>5. Loop(n, x, S, g) \in S
  BY <1>3, LoopType, Zenon
<1>6. Loop(k, x, S, f) = f[k][Loop(n, x, S, g)]
  BY <1>3, <1>4, LoopNext
<1> QED
  BY <1>4, <1>5, <1>6 DEF f, g

-----------------------------------------------------------------------------
(***************************************************************************)
(* Powers of two, and exclusive or of n bits, which is a group operation.  *)
(***************************************************************************)
Power(n) == Loop(n, 1, Nat, [i \in 1 .. n |-> [v \in Nat |-> 2 * v]])

LEMMA PowerIs ==
  /\ Power(0) = 1
  /\ \A n \in Nat : Power(n) \in Nat \ {0} /\ Power(n + 1) = 2 * Power(n)
<1> DEFINE h == [v \in Nat |-> 2 * v]
<1>0. \A v \in Nat : h[v] = 2 * v
  OBVIOUS
<1> DEFINE S == Nat
           x == 1
<1>1. x \in S /\ h \in [S -> S]
  OBVIOUS
<1>2. \A n : Power(n) = Loop(n, x, S, Same(n, h))
  BY Zenon DEF Power, Same
<1>3. Power(0) = 1 /\ \A n, k \in Nat : After(n, k) => Power(n) \in Nat /\ Power(k) = h[Power(n)]
  <2> HIDE DEF x, h, S
  <2>1. Loop(0, x, S, Same(0, h)) = x
        /\ \A n, k \in Nat : After(n, k) =>
              /\ Loop(n, x, S, Same(n, h)) \in S
              /\ Loop(k, x, S, Same(k, h)) = h[Loop(n, x, S, Same(n, h))]
    BY <1>1, LoopSame
  <2>2. Power(0) = x /\ \A n, k \in Nat : After(n, k) => Power(n) \in S /\ Power(k) = h[Power(n)]
    BY <1>2, <2>1
  <2> QED
    BY <2>2 DEF x, S
<1> HIDE DEF h
<1>4. Power(0) = 1
  BY <1>3
<1>5. \A n, k \in Nat : After(n, k) => Power(n) \in Nat /\ Power(k) = h[Power(n)]
  BY <1>3
<1> DEFINE Z == {n \in Nat : Power(n) # 0}
<1>6. 0 \in Z /\ \A n \in Nat : n \in Z => n + 1 \in Z
  BY <1>0, <1>4, <1>5 DEF After
<1>7. Nat \subseteq Z
  <2> HIDE DEF Z
  <2> QED
    BY <1>6, SetInduction
<1> QED
  BY <1>0, <1>4, <1>5, <1>7 DEF After

LEMMA MyxorIs ==
  ASSUME NEW n \in Nat, NEW a \in Nat, NEW b \in Nat
  PROVE  /\ myxor[0][a][b] = 0
         /\ myxor[n + 1][a][b] = ((a + b) % 2) + 2 * myxor[n][a \div 2][b \div 2]
<1> DEFINE Bit(x, iLen, iQ, iT) ==
             IF iLen = 0 THEN 0
             ELSE ((iQ + iT) % 2) + 2 * x[iLen - 1][iQ \div 2][iT \div 2]
           Is(x) == x = [iLen \in Nat |-> [iQ \in Nat |-> [iT \in Nat |-> Bit(x, iLen, iQ, iT)]]]
           S == [Nat -> [Nat -> Nat]]
           zero == [iQ \in Nat |-> [iT \in Nat |-> 0]]
           round == [h \in S |-> [iQ \in Nat |-> [iT \in Nat |->
                      ((iQ + iT) % 2) + 2 * h[iQ \div 2][iT \div 2]]]]
           x == [iLen \in Nat |-> Loop(iLen, zero, S, Same(iLen, round))]
<1>1. zero \in S
  OBVIOUS
<1>2. round \in [S -> S]
  <2>1. \A q \in Nat : q \div 2 \in Nat /\ q % 2 \in Nat
    OBVIOUS
  <2>2. ASSUME NEW h \in S, NEW q \in Nat, NEW r \in Nat
        PROVE  ((q + r) % 2) + 2 * h[q \div 2][r \div 2] \in Nat
    <3>1. h[q \div 2][r \div 2] \in Nat
      BY <2>1
    <3>2. (q + r) % 2 \in Nat
      OBVIOUS
    <3> HIDE DEF S
    <3> QED
      BY <3>1, <3>2
  <2> QED
    BY <2>2
<1>3. \A h \in S : \A q, r \in Nat :
        round[h][q][r] = ((q + r) % 2) + 2 * h[q \div 2][r \div 2]
  OBVIOUS
<1> HIDE DEF round, zero
<1>5. x[0] = zero /\ \A k \in Nat : x[k] \in S /\ x[k + 1] = round[x[k]]
  <2>1. x[0] = Loop(0, zero, S, Same(0, round))
        /\ \A k \in Nat : x[k] = Loop(k, zero, S, Same(k, round))
    OBVIOUS
  <2> HIDE DEF x, S
  <2>2. x[0] = zero
    BY <1>1, <1>2, <2>1, LoopSame
  <2>3. \A k \in Nat : \A l \in Nat : After(k, l) => x[k] \in S /\ x[l] = round[x[k]]
    BY <1>1, <1>2, <2>1, LoopSame
  <2>4. \A k \in Nat : k + 1 \in Nat /\ After(k, k + 1)
    BY DEF After
  <2> QED
    BY <2>2, <2>3, <2>4
<1>6. Is(x)
  <2>1. x = [k \in Nat |-> [q \in Nat |-> [r \in Nat |-> x[k][q][r]]]]
    <3>1. x = [k \in Nat |-> x[k]]
      OBVIOUS
    <3>2. \A k \in Nat : x[k] = [q \in Nat |-> [r \in Nat |-> x[k][q][r]]]
      <4> SUFFICES ASSUME NEW k \in Nat
                   PROVE  x[k] = [q \in Nat |-> [r \in Nat |-> x[k][q][r]]]
        OBVIOUS
      <4> DEFINE y == x[k]
      <4>1. y \in [Nat -> [Nat -> Nat]]
        BY <1>5
      <4> HIDE DEF x, y
      <4>2. y = [q \in Nat |-> y[q]] /\ \A q \in Nat : y[q] = [r \in Nat |-> y[q][r]]
        BY <4>1
      <4>3. y = [q \in Nat |-> [r \in Nat |-> y[q][r]]]
        BY <4>2
      <4> QED
        BY <4>3 DEF y
    <3> HIDE DEF x
    <3> QED
      BY <3>1, <3>2
  <2> HIDE DEF x
  <2>2. ASSUME NEW k \in Nat, NEW q \in Nat, NEW r \in Nat
        PROVE  x[k][q][r] = Bit(x, k, q, r)
    <3>1. CASE k = 0
      BY <1>5, <3>1 DEF zero
    <3>2. CASE k # 0
      <4>1. k - 1 \in Nat /\ (k - 1) + 1 = k
        BY <3>2
      <4>2. x[k] = round[x[k - 1]] /\ x[k - 1] \in S
        BY <1>5, <4>1
      <4> HIDE DEF S
      <4>3. round[x[k - 1]][q][r] = ((q + r) % 2) + 2 * x[k - 1][q \div 2][r \div 2]
        BY <1>3, <4>2, Zenon
      <4> QED
        BY <3>2, <4>2, <4>3, Zenon
    <3> QED
      BY <3>1, <3>2
  <2>3. \A k \in Nat : \A q \in Nat :
          [r \in Nat |-> x[k][q][r]] = [r \in Nat |-> Bit(x, k, q, r)]
    <3> HIDE DEF Bit
    <3> QED
      BY <2>2
  <2> HIDE DEF Bit
  <2> QED
    BY <2>1, <2>3
<1> HIDE DEF x
<1>7. Is(myxor)
  BY <1>6, Zenon DEF myxor
<1>8. \A k, q, r \in Nat : myxor[k][q][r] = Bit(myxor, k, q, r)
  <2> HIDE DEF Bit
  <2>1. PICK y : y = myxor
    OBVIOUS
  <2>2. y = [k \in Nat |-> [q \in Nat |-> [r \in Nat |-> Bit(y, k, q, r)]]]
    BY <1>7, <2>1
  <2>3. \A k \in Nat : y[k] = [q \in Nat |-> [r \in Nat |-> Bit(y, k, q, r)]]
    BY <2>2, Zenon
  <2>4. ASSUME NEW k \in Nat, NEW q \in Nat
        PROVE  y[k][q] = [r \in Nat |-> Bit(y, k, q, r)]
    <3>1. y[k] = [l \in Nat |-> [r \in Nat |-> Bit(y, k, l, r)]]
      BY <2>3, Zenon
    <3> DEFINE row(l) == [r \in Nat |-> Bit(y, k, l, r)]
    <3>2. y[k] = [l \in Nat |-> row(l)]
      BY <3>1, Zenon
    <3> HIDE DEF row
    <3>3. y[k][q] = row(q)
      BY <3>2
    <3> QED
      BY <3>3, Zenon DEF row
  <2>5. ASSUME NEW k \in Nat, NEW q \in Nat, NEW r \in Nat
        PROVE  y[k][q][r] = Bit(y, k, q, r)
    <3> DEFINE bit(l) == Bit(y, k, q, l)
    <3>1. y[k][q] = [l \in Nat |-> bit(l)]
      BY <2>4, Zenon
    <3> HIDE DEF bit
    <3>2. y[k][q][r] = bit(r)
      BY <3>1
    <3> QED
      BY <3>2, Zenon DEF bit
  <2> QED
    BY <2>1, <2>5
<1>9. n + 1 \in Nat /\ (n + 1) - 1 = n /\ n + 1 # 0 /\ 0 \in Nat
  OBVIOUS
<1> HIDE DEF Bit
<1>10. myxor[n + 1][a][b] = Bit(myxor, n + 1, a, b) /\ myxor[0][a][b] = Bit(myxor, 0, a, b)
  BY <1>8, <1>9, Zenon
<1> QED
  BY <1>9, <1>10 DEF Bit

\* The parts of a number that a round of myxor takes, by names the provers
\* need not look into.
HalfOf(a) == a \div 2
Odd(a, b) == (a + b) % 2

LEMMA Halving ==
  /\ \A a \in Nat : HalfOf(a) \in Nat
  /\ \A a, b \in Nat : Odd(a, b) \in 0 .. 1 /\ Odd(a, b) = Odd(b, a)
  /\ \A a \in Nat : Odd(a, a) = 0 /\ a = Odd(a, 0) + 2 * HalfOf(a)
  /\ HalfOf(0) = 0
BY DEF HalfOf, Odd

LEMMA HalvingBack ==
  \A q \in Nat, r \in 0 .. 1 : \A a :
    a = r + 2 * q => a \in Nat /\ HalfOf(a) = q /\ Odd(a, 0) = r
BY DEF HalfOf, Odd

LEMMA HalvingOrder ==
  ASSUME NEW a \in Nat, NEW b \in Nat
  PROVE  (a >= 2 * b <=> HalfOf(a) >= b) /\ (a < 2 * b <=> HalfOf(a) < b)
BY DEF HalfOf

LEMMA OddSum ==
  ASSUME NEW a \in Nat, NEW b \in Nat, NEW c \in Nat, NEW x \in Nat,
         Odd(x, 0) = Odd(a, b)
  PROVE  Odd(x, c) = (a + b + c) % 2 /\ Odd(c, x) = (a + b + c) % 2
BY DEF Odd

LEMMA MyxorNone == \A a, b \in Nat : myxor[0][a][b] = 0
BY MyxorIs

LEMMA PowerNone == Power(0) = 1
BY PowerIs

LEMMA MyxorStep ==
  ASSUME NEW n \in Nat, NEW k \in Nat, After(n, k), NEW a \in Nat, NEW b \in Nat
  PROVE  myxor[k][a][b] = Odd(a, b) + 2 * myxor[n][HalfOf(a)][HalfOf(b)]
BY MyxorIs DEF After, Odd, HalfOf

LEMMA PowerStep ==
  ASSUME NEW n \in Nat, NEW k \in Nat, After(n, k)
  PROVE  Power(k) = 2 * Power(n) /\ Power(n) \in Nat \ {0}
BY PowerIs DEF After

LEMMA MyxorType ==
  \A n, a, b \in Nat : myxor[n][a][b] \in Nat /\ myxor[n][a][b] < Power(n)
<1> DEFINE Good(n) == \A a, b \in Nat : myxor[n][a][b] \in Nat /\ myxor[n][a][b] < Power(n)
           Z == {n \in Nat : Good(n)}
<1>1. Good(0)
  <2> SUFFICES ASSUME NEW a \in Nat, NEW b \in Nat
               PROVE  myxor[0][a][b] \in Nat /\ myxor[0][a][b] < Power(0)
    OBVIOUS
  <2>1. myxor[0][a][b] = 0
    BY MyxorNone, Zenon
  <2> QED
    BY <2>1, PowerNone
<1>2. ASSUME NEW n \in Nat, NEW k \in Nat, After(n, k), Good(n) PROVE Good(k)
  <2> SUFFICES ASSUME NEW a \in Nat, NEW b \in Nat
               PROVE  myxor[k][a][b] \in Nat /\ myxor[k][a][b] < Power(k)
    OBVIOUS
  <2> DEFINE q == myxor[n][HalfOf(a)][HalfOf(b)]
  <2>1. q \in Nat /\ q < Power(n)
    BY <1>2, Halving
  <2>2. myxor[k][a][b] = Odd(a, b) + 2 * q
    BY <1>2, MyxorStep
  <2>3. Power(k) = 2 * Power(n) /\ Power(n) \in Nat
    BY <1>2, PowerStep
  <2>4. Odd(a, b) \in 0 .. 1
    BY Halving
  <2> HIDE DEF q, Good
  <2> QED
    BY <2>1, <2>2, <2>3, <2>4
<1> HIDE DEF Good
<1>3. 0 \in Z /\ \A n \in Nat : n \in Z => n + 1 \in Z
  BY <1>1, <1>2 DEF After
<1>4. Nat \subseteq Z
  <2> HIDE DEF Z
  <2> QED
    BY <1>3, SetInduction
<1> QED
  BY <1>4 DEF Good

\* One bit more: the lowest bit, and the others of the halves.
LEMMA MyxorBits ==
  ASSUME NEW n \in Nat, NEW k \in Nat, After(n, k), NEW a \in Nat, NEW b \in Nat
  PROVE  /\ myxor[k][a][b] \in Nat
         /\ Odd(myxor[k][a][b], 0) = Odd(a, b)
         /\ HalfOf(myxor[k][a][b]) = myxor[n][HalfOf(a)][HalfOf(b)]
<1> DEFINE q == myxor[n][HalfOf(a)][HalfOf(b)]
           r == Odd(a, b)
<1>1. r \in 0 .. 1 /\ q \in Nat
  BY Halving, MyxorType
<1> DEFINE x == myxor[k][a][b]
<1>2. x = r + 2 * q
  BY MyxorStep
<1> HIDE DEF q, r, x
<1>3. x \in Nat /\ HalfOf(x) = q /\ Odd(x, 0) = r
  BY <1>1, <1>2, HalvingBack
<1> QED
  BY <1>3, Zenon DEF q, r, x

LEMMA MyxorCommutes ==
  \A n, a, b \in Nat : myxor[n][a][b] = myxor[n][b][a]
<1> DEFINE Good(n) == \A a, b \in Nat : myxor[n][a][b] = myxor[n][b][a]
           Z == {n \in Nat : Good(n)}
<1>1. Good(0)
  BY MyxorNone
<1>2. ASSUME NEW n \in Nat, NEW k \in Nat, After(n, k), Good(n) PROVE Good(k)
  <2> SUFFICES ASSUME NEW a \in Nat, NEW b \in Nat PROVE myxor[k][a][b] = myxor[k][b][a]
    OBVIOUS
  <2>1. HalfOf(a) \in Nat /\ HalfOf(b) \in Nat /\ Odd(a, b) = Odd(b, a)
    BY Halving
  <2>2. myxor[n][HalfOf(a)][HalfOf(b)] = myxor[n][HalfOf(b)][HalfOf(a)]
    BY <1>2, <2>1
  <2>3. myxor[k][a][b] = Odd(a, b) + 2 * myxor[n][HalfOf(a)][HalfOf(b)]
        /\ myxor[k][b][a] = Odd(b, a) + 2 * myxor[n][HalfOf(b)][HalfOf(a)]
    BY <1>2, MyxorStep
  <2> QED
    BY <2>1, <2>2, <2>3
<1> HIDE DEF Good
<1>3. 0 \in Z /\ \A n \in Nat : n \in Z => n + 1 \in Z
  BY <1>1, <1>2 DEF After
<1>4. Nat \subseteq Z
  <2> HIDE DEF Z
  <2> QED
    BY <1>3, SetInduction
<1> QED
  BY <1>4 DEF Good

LEMMA MyxorAssociates ==
  \A n, a, b, c \in Nat :
    myxor[n][myxor[n][a][b]][c] = myxor[n][a][myxor[n][b][c]]
<1> DEFINE Law(n, a, b, c) ==
             myxor[n][myxor[n][a][b]][c] = myxor[n][a][myxor[n][b][c]]
           Good(n) == \A a, b, c \in Nat : Law(n, a, b, c)
           Z == {n \in Nat : Good(n)}
<1>1. Good(0)
  <2>1. 0 \in Nat
    OBVIOUS
  <2> QED
    BY <2>1, MyxorNone
<1>2. ASSUME NEW n \in Nat, NEW k \in Nat, After(n, k), Good(n) PROVE Good(k)
  <2> SUFFICES ASSUME NEW a \in Nat, NEW b \in Nat, NEW c \in Nat
               PROVE  myxor[k][myxor[k][a][b]][c] = myxor[k][a][myxor[k][b][c]]
    OBVIOUS
  <2> DEFINE x == myxor[k][a][b]
             y == myxor[k][b][c]
  <2>1. x \in Nat /\ Odd(x, 0) = Odd(a, b) /\ HalfOf(x) = myxor[n][HalfOf(a)][HalfOf(b)]
    BY <1>2, MyxorBits
  <2>2. y \in Nat /\ Odd(y, 0) = Odd(b, c) /\ HalfOf(y) = myxor[n][HalfOf(b)][HalfOf(c)]
    BY <1>2, MyxorBits
  <2>3. HalfOf(a) \in Nat /\ HalfOf(b) \in Nat /\ HalfOf(c) \in Nat
    BY Halving
  <2> HIDE DEF x, y
  <2>4. Odd(x, c) = (a + b + c) % 2
    BY <2>1, OddSum
  <2>5. Odd(a, y) = (b + c + a) % 2
    BY <2>2, OddSum
  <2>6. a + b + c = b + c + a
    OBVIOUS
  <2>7. myxor[n][HalfOf(x)][HalfOf(c)] = myxor[n][HalfOf(a)][HalfOf(y)]
    <3> HIDE DEF Law
    <3>1. Law(n, HalfOf(a), HalfOf(b), HalfOf(c))
      BY <1>2, <2>3, Zenon
    <3> QED
      BY <2>1, <2>2, <3>1, Zenon DEF Law
  <2>8. myxor[k][x][c] = Odd(x, c) + 2 * myxor[n][HalfOf(x)][HalfOf(c)]
    BY <1>2, <2>1, MyxorStep
  <2>9. myxor[k][a][y] = Odd(a, y) + 2 * myxor[n][HalfOf(a)][HalfOf(y)]
    BY <1>2, <2>2, MyxorStep
  <2>10. myxor[k][x][c] = myxor[k][a][y]
    BY <2>4, <2>5, <2>6, <2>7, <2>8, <2>9
  <2> QED
    BY <2>10 DEF x, y
<1> HIDE DEF Good
<1>3. 0 \in Z /\ \A n \in Nat : n \in Z => n + 1 \in Z
  BY <1>1, <1>2 DEF After
<1>4. Nat \subseteq Z
  <2> HIDE DEF Z
  <2> QED
    BY <1>3, SetInduction
<1> QED
  BY <1>4 DEF Good

\* Zero changes nothing, and a number takes itself away.
LEMMA MyxorZero ==
  \A n, a \in Nat : /\ myxor[n][a][a] = 0
                    /\ a < Power(n) => myxor[n][a][0] = a
<1> DEFINE Law(n, a) == /\ myxor[n][a][a] = 0
                        /\ a < Power(n) => myxor[n][a][0] = a
           Good(n) == \A a \in Nat : Law(n, a)
           Z == {n \in Nat : Good(n)}
<1>1. Good(0)
  <2>1. Power(0) = 1 /\ 0 \in Nat /\ \A a \in Nat : a < 1 => a = 0
    BY PowerNone
  <2> QED
    BY <2>1, MyxorNone, Zenon
<1>2. ASSUME NEW n \in Nat, NEW k \in Nat, After(n, k), Good(n) PROVE Good(k)
  <2> SUFFICES ASSUME NEW a \in Nat
               PROVE  /\ myxor[k][a][a] = 0
                      /\ a < Power(k) => myxor[k][a][0] = a
    OBVIOUS
  <2>1. HalfOf(a) \in Nat /\ HalfOf(0) = 0 /\ Odd(a, a) = 0 /\ a = Odd(a, 0) + 2 * HalfOf(a)
        /\ 0 \in Nat
    BY Halving
  <2>2. Power(k) = 2 * Power(n) /\ Power(n) \in Nat
    BY <1>2, PowerStep
  <2>3. a < Power(k) => HalfOf(a) < Power(n)
    BY <2>2, HalvingOrder
  <2>4. myxor[n][HalfOf(a)][HalfOf(a)] = 0
        /\ (HalfOf(a) < Power(n) => myxor[n][HalfOf(a)][0] = HalfOf(a))
    <3> HIDE DEF Law
    <3>1. Law(n, HalfOf(a))
      BY <1>2, <2>1, Zenon
    <3> QED
      BY <3>1, Zenon DEF Law
  <2>5. myxor[k][a][a] = Odd(a, a) + 2 * myxor[n][HalfOf(a)][HalfOf(a)]
    BY <1>2, MyxorStep
  <2>6. myxor[k][a][0] = Odd(a, 0) + 2 * myxor[n][HalfOf(a)][HalfOf(0)]
    BY <1>2, <2>1, MyxorStep
  <2> QED
    BY <2>1, <2>3, <2>4, <2>5, <2>6
<1> HIDE DEF Good
<1>3. 0 \in Z /\ \A n \in Nat : n \in Z => n + 1 \in Z
  BY <1>1, <1>2 DEF After
<1>4. Nat \subseteq Z
  <2> HIDE DEF Z
  <2> QED
    BY <1>3, SetInduction
<1> QED
  BY <1>4, Zenon DEF Good

\* Bits above the lowest n do not count.
LEMMA MyxorHigh ==
  \A n, k, a, b, c \in Nat : After(n, k) =>
    myxor[n][myxor[k][a][b]][c] = myxor[n][myxor[n][a][b]][c]
<1> DEFINE Law(n, k, a, b, c) ==
             myxor[n][myxor[k][a][b]][c] = myxor[n][myxor[n][a][b]][c]
           Good(n) == \A k, a, b, c \in Nat : After(n, k) => Law(n, k, a, b, c)
           Z == {n \in Nat : Good(n)}
<1>1. Good(0)
  BY MyxorNone, MyxorType
<1>2. ASSUME NEW n \in Nat, NEW k \in Nat, After(n, k), Good(n) PROVE Good(k)
  <2> SUFFICES ASSUME NEW l \in Nat, NEW a \in Nat, NEW b \in Nat, NEW c \in Nat,
                      After(k, l)
               PROVE  myxor[k][myxor[l][a][b]][c] = myxor[k][myxor[k][a][b]][c]
    OBVIOUS
  <2> DEFINE x == myxor[l][a][b]
             y == myxor[k][a][b]
  <2>1. x \in Nat /\ Odd(x, 0) = Odd(a, b) /\ HalfOf(x) = myxor[k][HalfOf(a)][HalfOf(b)]
    BY MyxorBits
  <2>2. y \in Nat /\ Odd(y, 0) = Odd(a, b) /\ HalfOf(y) = myxor[n][HalfOf(a)][HalfOf(b)]
    BY <1>2, MyxorBits
  <2>3. HalfOf(a) \in Nat /\ HalfOf(b) \in Nat /\ HalfOf(c) \in Nat
    BY Halving
  <2> HIDE DEF x, y
  <2>4. Odd(x, c) = Odd(y, c)
    BY <2>1, <2>2, OddSum
  <2>5. myxor[n][HalfOf(x)][HalfOf(c)] = myxor[n][HalfOf(y)][HalfOf(c)]
    <3> HIDE DEF Law
    <3>1. Law(n, k, HalfOf(a), HalfOf(b), HalfOf(c))
      BY <1>2, <2>3, Zenon
    <3> QED
      BY <2>1, <2>2, <3>1, Zenon DEF Law
  <2>0. x \in Nat /\ y \in Nat
    BY <2>1, <2>2
  <2>9. After(n, k)
    BY <1>2
  <2> HIDE DEF Law
  <2>6. myxor[k][x][c] = Odd(x, c) + 2 * myxor[n][HalfOf(x)][HalfOf(c)]
    BY <2>0, <2>9, MyxorStep
  <2>7. myxor[k][y][c] = Odd(y, c) + 2 * myxor[n][HalfOf(y)][HalfOf(c)]
    BY <2>0, <2>9, MyxorStep
  <2>8. myxor[k][x][c] = myxor[k][y][c]
    BY <2>4, <2>5, <2>6, <2>7
  <2> QED
    BY <2>8 DEF x, y
<1> HIDE DEF Good
<1>3. 0 \in Z /\ \A n \in Nat : n \in Z => n + 1 \in Z
  BY <1>1, <1>2 DEF After
<1>4. Nat \subseteq Z
  <2> HIDE DEF Z
  <2> QED
    BY <1>3, SetInduction
<1> QED
  BY <1>4 DEF Good

\* The highest bit is the sum of the highest bits.
LEMMA MyxorTop ==
  \A n, k, a, b \in Nat : After(n, k) /\ a < Power(k) /\ b < Power(k) =>
    (myxor[k][a][b] >= Power(n) <=> ~(a >= Power(n) <=> b >= Power(n)))
<1> DEFINE Good(n) ==
             \A k, a, b \in Nat : After(n, k) /\ a < Power(k) /\ b < Power(k) =>
               (myxor[k][a][b] >= Power(n) <=> ~(a >= Power(n) <=> b >= Power(n)))
           Z == {n \in Nat : Good(n)}
<1>1. Good(0)
  <2> SUFFICES ASSUME NEW k \in Nat, NEW a \in Nat, NEW b \in Nat,
                      After(0, k), a < Power(k), b < Power(k)
               PROVE  myxor[k][a][b] >= Power(0) <=> ~(a >= Power(0) <=> b >= Power(0))
    OBVIOUS
  <2>1. Power(k) = 2 /\ Power(0) = 1
    BY PowerStep, PowerIs
  <2>2. a \in 0 .. 1 /\ b \in 0 .. 1
    BY <2>1
  <2>3. Odd(a, b) = (a + b) % 2
    BY DEF Odd
  <2>5. myxor[k][a][b] = Odd(a, b) + 2 * myxor[0][HalfOf(a)][HalfOf(b)]
    BY MyxorStep
  <2>6. myxor[0][HalfOf(a)][HalfOf(b)] = 0 /\ Odd(a, b) \in 0 .. 1
    BY MyxorNone, Halving, Zenon
  <2>4. myxor[k][a][b] = Odd(a, b)
    BY <2>5, <2>6
  <2> QED
    BY <2>1, <2>2, <2>3, <2>4
<1>2. ASSUME NEW n \in Nat, NEW k \in Nat, After(n, k), Good(n) PROVE Good(k)
  <2> SUFFICES ASSUME NEW l \in Nat, NEW a \in Nat, NEW b \in Nat,
                      After(k, l), a < Power(l), b < Power(l)
               PROVE  myxor[l][a][b] >= Power(k) <=> ~(a >= Power(k) <=> b >= Power(k))
    OBVIOUS
  <2>0. Power(l) = 2 * Power(k) /\ Power(k) = 2 * Power(n) /\ Power(n) \in Nat
        /\ Power(k) \in Nat
    BY <1>2, PowerStep
  <2> DEFINE x == myxor[l][a][b]
             y == myxor[k][HalfOf(a)][HalfOf(b)]
  <2>1. x \in Nat /\ HalfOf(x) = y
    BY MyxorBits
  <2>2. HalfOf(a) \in Nat /\ HalfOf(b) \in Nat
    BY Halving
  <2>3. HalfOf(a) < Power(k) /\ HalfOf(b) < Power(k)
    BY <2>0, HalvingOrder
  <2>4. y >= Power(n) <=> ~(HalfOf(a) >= Power(n) <=> HalfOf(b) >= Power(n))
    BY <1>2, <2>2, <2>3
  <2> HIDE DEF x, y
  <2>5. (a >= Power(k) <=> HalfOf(a) >= Power(n)) /\ (b >= Power(k) <=> HalfOf(b) >= Power(n))
        /\ (x >= Power(k) <=> y >= Power(n))
    BY <2>0, <2>1, HalvingOrder
  <2>6. x >= Power(k) <=> ~(a >= Power(k) <=> b >= Power(k))
    BY <2>4, <2>5
  <2> QED
    BY <2>6 DEF x
<1> HIDE DEF Good
<1>3. 0 \in Z /\ \A n \in Nat : n \in Z => n + 1 \in Z
  BY <1>1, <1>2 DEF After
<1>4. Nat \subseteq Z
  <2> HIDE DEF Z
  <2> QED
    BY <1>3, SetInduction
<1> QED
  BY <1>4 DEF Good

-----------------------------------------------------------------------------
(***************************************************************************)
(* Elements, their sums, and the doubling that makes the table of powers.  *)
(***************************************************************************)
LEMMA SizeIs ==
  /\ m \in Nat /\ m >= 2 /\ m - 1 \in Nat /\ After(m - 1, m) /\ After(m, m + 1)
  /\ GF = Power(m) /\ GF \in Nat /\ GF >= 4
<1>1. m \in Nat /\ m >= 2 /\ Len(p_sourse) = m + 1
  BY PrimitiveAssumption DEF m
<1> HIDE DEF m
<1>2. m - 1 \in Nat /\ m - 2 \in Nat /\ After(m - 1, m) /\ After(m - 2, m - 1)
      /\ After(m, m + 1)
  BY <1>1 DEF After
<1>3. GF = Power(m)
  BY Zenon DEF GF, For, Power
<1>4. Power(m) = 2 * Power(m - 1) /\ Power(m - 1) = 2 * Power(m - 2)
      /\ Power(m - 2) \in Nat \ {0}
  BY <1>1, <1>2, PowerStep
<1> QED
  BY <1>1, <1>2, <1>3, <1>4

LEMMA ElementIs ==
  /\ \A a : a \in Element <=> a \in Nat /\ a < Power(m)
  /\ 0 \in Element /\ 1 \in Element
BY SizeIs DEF Element

LEMMA SumsAre ==
  \A a, b \in Element : gsum(a, b) = myxor[m][a][b] /\ gsum(a, b) \in Element
<1> SUFFICES ASSUME NEW a \in Element, NEW b \in Element
             PROVE  gsum(a, b) = myxor[m][a][b] /\ gsum(a, b) \in Element
  OBVIOUS
<1>1. gsum(a, b) = myxor[m][a][b]
  BY DEF gsum, sums
<1>2. a \in Nat /\ b \in Nat /\ m \in Nat
  BY ElementIs, SizeIs
<1> QED
  BY <1>1, <1>2, MyxorType, ElementIs

LEMMA SumCommutes == \A a, b \in Element : gsum(a, b) = gsum(b, a)
<1> SUFFICES ASSUME NEW a \in Element, NEW b \in Element PROVE gsum(a, b) = gsum(b, a)
  OBVIOUS
<1>1. a \in Nat /\ b \in Nat /\ m \in Nat
  BY ElementIs, SizeIs
<1>2. myxor[m][a][b] = myxor[m][b][a]
  BY <1>1, MyxorCommutes, Zenon
<1>3. gsum(a, b) = myxor[m][a][b] /\ gsum(b, a) = myxor[m][b][a]
  BY SumsAre
<1> QED
  BY <1>2, <1>3

\* The laws of sums by names, for provers that would use them without end.
Associates(a, b, c) == gsum(gsum(a, b), c) = gsum(a, gsum(b, c))

LEMMA SumAssociates ==
  \A a, b, c \in Element : gsum(gsum(a, b), c) = gsum(a, gsum(b, c))
<1> SUFFICES ASSUME NEW a \in Element, NEW b \in Element, NEW c \in Element
             PROVE  gsum(gsum(a, b), c) = gsum(a, gsum(b, c))
  OBVIOUS
<1>1. a \in Nat /\ b \in Nat /\ c \in Nat /\ m \in Nat
  BY ElementIs, SizeIs
<1> DEFINE Law(n, x, y, z) ==
             myxor[n][myxor[n][x][y]][z] = myxor[n][x][myxor[n][y][z]]
<1>5. \A n, x, y, z \in Nat : Law(n, x, y, z)
  BY MyxorAssociates
<1> HIDE DEF Law
<1>6. Law(m, a, b, c)
  BY <1>1, <1>5, Zenon
<1>2. myxor[m][myxor[m][a][b]][c] = myxor[m][a][myxor[m][b][c]]
  BY <1>6, Zenon DEF Law
<1>3. gsum(a, b) \in Element /\ gsum(b, c) \in Element
      /\ gsum(a, b) = myxor[m][a][b] /\ gsum(b, c) = myxor[m][b][c]
  BY SumsAre, Zenon
<1>4. gsum(gsum(a, b), c) = myxor[m][gsum(a, b)][c]
      /\ gsum(a, gsum(b, c)) = myxor[m][a][gsum(b, c)]
  BY <1>3, SumsAre, Zenon
<1> QED
  BY <1>2, <1>3, <1>4, Zenon

LEMMA SumZero ==
  \A a \in Element : gsum(a, 0) = a /\ gsum(0, a) = a /\ gsum(a, a) = 0
<1> SUFFICES ASSUME NEW a \in Element
             PROVE  gsum(a, 0) = a /\ gsum(0, a) = a /\ gsum(a, a) = 0
  OBVIOUS
<1>1. a \in Nat /\ a < Power(m) /\ m \in Nat /\ 0 \in Element
  BY ElementIs, SizeIs
<1>2. myxor[m][a][a] = 0 /\ myxor[m][a][0] = a
  BY <1>1, MyxorZero, Zenon
<1>3. gsum(a, a) = myxor[m][a][a] /\ gsum(a, 0) = myxor[m][a][0]
      /\ gsum(0, a) = gsum(a, 0)
  BY <1>1, SumsAre, SumCommutes, Zenon
<1> QED
  BY <1>2, <1>3, Zenon

LEMMA SumOrder == \A a, b, c \in Element : Associates(a, b, c)
BY SumAssociates, Zenon DEF Associates

\* What a sum keeps of its parts.
LEMMA SumCancels ==
  \A a, b \in Element : /\ gsum(a, b) = 0 => a = b
                        /\ gsum(gsum(a, b), b) = a
<1> SUFFICES ASSUME NEW a \in Element, NEW b \in Element
             PROVE  (gsum(a, b) = 0 => a = b) /\ gsum(gsum(a, b), b) = a
  BY Zenon
<1>1. gsum(gsum(a, b), b) = gsum(a, gsum(b, b))
  BY SumAssociates, Zenon
<1>2. gsum(b, b) = 0 /\ gsum(a, 0) = a /\ gsum(0, b) = b
  BY SumZero, Zenon
<1> QED
  BY <1>1, <1>2, Zenon

\* The first pair and the second, added across.
Swaps(a, b, c, d) ==
  gsum(gsum(a, b), gsum(c, d)) = gsum(gsum(a, c), gsum(b, d))

LEMMA SumSwaps == \A a, b, c, d \in Element : Swaps(a, b, c, d)
<1> SUFFICES ASSUME NEW a \in Element, NEW b \in Element, NEW c \in Element, NEW d \in Element
             PROVE  gsum(gsum(a, b), gsum(c, d)) = gsum(gsum(a, c), gsum(b, d))
  BY Zenon DEF Swaps
<1>0. gsum(c, d) \in Element /\ gsum(b, d) \in Element
  BY SumsAre, Zenon
<1>4. /\ Associates(a, b, gsum(c, d)) /\ Associates(a, c, gsum(b, d))
      /\ Associates(b, c, d) /\ Associates(c, b, d)
  BY <1>0, SumOrder, Zenon
<1>1. gsum(gsum(a, b), gsum(c, d)) = gsum(a, gsum(b, gsum(c, d)))
      /\ gsum(gsum(a, c), gsum(b, d)) = gsum(a, gsum(c, gsum(b, d)))
  BY <1>4, Zenon DEF Associates
<1>2. gsum(b, gsum(c, d)) = gsum(gsum(b, c), d) /\ gsum(c, gsum(b, d)) = gsum(gsum(c, b), d)
  BY <1>4, Zenon DEF Associates
<1>3. gsum(b, c) = gsum(c, b)
  BY SumCommutes, Zenon
<1> QED
  BY <1>1, <1>2, <1>3

LEMMA PolynomialIs == ip \in Nat
<1> DEFINE n == Len(p_sourse)
           S == Nat
           x == 0
           f == [i \in 1 .. n |-> [v \in S |-> 2 * v + p_sourse[i]]]
<1>1. n \in Nat /\ \A i \in 1 .. n : p_sourse[i] \in Nat
  BY PrimitiveAssumption
<1>2. ip = Loop(n, x, S, f)
  BY Zenon DEF ip, For
<1>3. \A i \in 1 .. n : \A v \in S : 2 * v + p_sourse[i] \in S
  BY <1>1
<1> HIDE DEF n
<1>4. Body(f, n, S)
  BY <1>3 DEF Body
<1>5. x \in S
  OBVIOUS
<1> HIDE DEF f, S, x
<1>6. Loop(n, x, S, f) \in S
  BY <1>1, <1>4, <1>5, LoopType
<1> QED
  BY <1>2, <1>6 DEF S

\* What the reduction adds to a doubled number.
Reducer(a) == IF a >= Power(m - 1) THEN ip ELSE 0

LEMMA DoubledIs ==
  \A a \in Element : /\ doubled(a) = myxor[m][2 * a][Reducer(a)]
                     /\ doubled(a) \in Element /\ Reducer(a) \in Nat
<1> SUFFICES ASSUME NEW a \in Element
             PROVE  /\ doubled(a) = myxor[m][2 * a][Reducer(a)]
                    /\ doubled(a) \in Element /\ Reducer(a) \in Nat
  OBVIOUS
<1>1. m \in Nat /\ GF = Power(m) /\ Power(m) = 2 * Power(m - 1) /\ Power(m - 1) \in Nat
  BY SizeIs, PowerStep
<1>2. a \in Nat /\ 2 * a \in Nat
  BY ElementIs
<1>3. 2 * a >= GF <=> a >= Power(m - 1)
  BY <1>1, <1>2
<1>4. Reducer(a) \in Nat
  BY PolynomialIs DEF Reducer
<1> DEFINE x == 2 * a
<1>5. x \in Nat /\ (~ x >= GF => x < Power(m))
  BY <1>1, <1>2
<1>6. doubled(a) = IF x >= GF THEN myxor[m][x][ip] ELSE x
  BY Zenon DEF doubled
<1>7. Reducer(a) = IF x >= GF THEN ip ELSE 0
  BY <1>3, Zenon DEF Reducer
<1> HIDE DEF x
<1>8. x < Power(m) => myxor[m][x][0] = x
  BY <1>1, <1>5, MyxorZero, Zenon
<1>9. doubled(a) = myxor[m][x][Reducer(a)]
  BY <1>5, <1>6, <1>7, <1>8, Zenon
<1>10. myxor[m][x][Reducer(a)] \in Nat /\ myxor[m][x][Reducer(a)] < Power(m)
  BY <1>1, <1>4, <1>5, MyxorType, Zenon
<1> QED
  BY <1>4, <1>9, <1>10, ElementIs, Zenon DEF x

\* Each power is the double of the one before.
LEMMA PowersStep ==
  /\ alpha_to \in [1 .. GF - 1 -> Element] /\ alpha_to[1] = 1
  /\ \A i \in 1 .. GF - 2 : alpha_to[i + 1] = doubled(alpha_to[i])
<1> DEFINE S == Element
           x == 1
           h == [tmp \in S |-> doubled(tmp)]
           value(i) == Loop(i - 1, x, S, Same(i - 1, h))
<1>1. alpha_to = [i \in 1 .. GF - 1 |-> value(i)]
  BY Zenon DEF alpha_to, For, Same
<1>2. x \in S /\ h \in [S -> S] /\ \A v \in S : h[v] = doubled(v)
  BY ElementIs, DoubledIs
<1>3. GF \in Nat /\ GF >= 4
  BY SizeIs
<1> HIDE DEF h, x, S
<1>4. /\ value(1) = x
      /\ \A i \in Nat \ {0} : value(i) \in S /\ value(i + 1) = h[value(i)]
  <2>1. Loop(0, x, S, Same(0, h)) = x
    BY <1>2, LoopSame
  <2>2. \A i \in Nat \ {0} : After(i - 1, i) /\ (i + 1) - 1 = i /\ i - 1 \in Nat
    BY DEF After
  <2>3. \A n, k \in Nat : After(n, k) =>
          /\ Loop(n, x, S, Same(n, h)) \in S
          /\ Loop(k, x, S, Same(k, h)) = h[Loop(n, x, S, Same(n, h))]
    BY <1>2, LoopSame
  <2>4. value(1) = x
    BY <2>1
  <2>5. ASSUME NEW i \in Nat \ {0}
        PROVE  value(i) \in S /\ value(i + 1) = h[value(i)]
    <3> DEFINE n == i - 1
    <3>1. After(n, i) /\ n \in Nat /\ i \in Nat /\ (i + 1) - 1 = i
      BY <2>2
    <3>2. value(i) = Loop(n, x, S, Same(n, h))
      OBVIOUS
    <3>3. value(i + 1) = Loop(i, x, S, Same(i, h))
      BY ONLY <3>1
    <3> HIDE DEF n, value
    <3>4. Loop(n, x, S, Same(n, h)) \in S
          /\ Loop(i, x, S, Same(i, h)) = h[Loop(n, x, S, Same(n, h))]
      BY <2>3, <3>1, Zenon
    <3> QED
      BY <3>2, <3>3, <3>4, Zenon
  <2> HIDE DEF value
  <2> QED
    BY <2>4, <2>5, Zenon
<1> HIDE DEF value
<1> QED
  BY <1>1, <1>2, <1>3, <1>4 DEF S, x

\* Every element but zero is a power, and no power is zero.
LEMMA PowersReach ==
  /\ \A a \in 1 .. GF - 1 : \E i \in 1 .. GF - 1 : alpha_to[i] = a
  /\ \A i \in 1 .. GF - 1 : alpha_to[i] \in 1 .. GF - 1
<1>1. 1 .. GF - 1 = {alpha_to[i] : i \in 1 .. GF - 1}
  BY PrimitiveAssumption
<1> QED
  BY <1>1, Zenon

\* All powers but the first would be even, and three is a power.
LEMMA PolynomialOdd == Odd(ip, 0) = 1
<1>1. SUFFICES ASSUME Odd(ip, 0) # 1 PROVE FALSE
  OBVIOUS
<1>2. m \in Nat /\ m - 1 \in Nat /\ After(m - 1, m) /\ GF \in Nat /\ GF >= 4
  BY SizeIs
<1>3. Odd(ip, 0) = 0
  BY <1>1, PolynomialIs, Halving
<1>4. ASSUME NEW a \in Element PROVE Odd(doubled(a), 0) = 0
  <2>1. a \in Nat
    BY ElementIs
  <2> DEFINE x == 2 * a
             r == Reducer(a)
  <2>2. x \in Nat /\ Odd(x, 0) = 0
    BY <2>1 DEF Odd
  <2>3. r \in Nat /\ Odd(r, 0) = 0
    BY <1>3, PolynomialIs DEF Odd, Reducer
  <2> HIDE DEF x, r
  <2>4. Odd(x, r) = 0
    BY <2>2, <2>3 DEF Odd
  <2>5. Odd(myxor[m][x][r], 0) = Odd(x, r)
    BY <1>2, <2>2, <2>3, MyxorBits
  <2>6. doubled(a) = myxor[m][x][r]
    BY DoubledIs, Zenon DEF x, r
  <2> QED
    BY <2>4, <2>5, <2>6, Zenon
<1>7. PICK i \in 1 .. GF - 1 : alpha_to[i] = 3
  <2>1. 3 \in 1 .. GF - 1
    BY <1>2
  <2> QED
    BY <2>1, PowersReach, Zenon
<1>8. 3 \notin {1} /\ Odd(3, 0) # 0
  BY DEF Odd
<1>9. i # 1
  BY <1>7, PowersStep
<1>10. PICK j \in 1 .. GF - 2 : j + 1 = i
  <2>1. i - 1 \in 1 .. GF - 2 /\ (i - 1) + 1 = i
    BY <1>2, <1>9
  <2> QED
    BY <2>1, Zenon
<1>11. alpha_to[j] \in Element
  BY <1>2, PowersStep
<1>12. alpha_to[i] = doubled(alpha_to[j])
  BY <1>10, PowersStep, Zenon
<1> QED
  BY <1>4, <1>7, <1>8, <1>11, <1>12, Zenon

\* Doubling is linear.
LEMMA DoubledSum ==
  \A a, b \in Element : doubled(gsum(a, b)) = gsum(doubled(a), doubled(b))
<1> SUFFICES ASSUME NEW a \in Element, NEW b \in Element
             PROVE  doubled(gsum(a, b)) = gsum(doubled(a), doubled(b))
  OBVIOUS
<1>1. m \in Nat /\ m - 1 \in Nat /\ m + 1 \in Nat /\ After(m - 1, m) /\ After(m, m + 1)
  BY SizeIs
<1>2. a \in Nat /\ b \in Nat /\ a < Power(m) /\ b < Power(m) /\ 0 \in Nat
  BY ElementIs
<1> DEFINE x == 2 * a
           y == 2 * b
           q == Reducer(a)
           r == Reducer(b)
           c == myxor[m][a][b]
           z == myxor[m][x][y]
<1>3. x \in Nat /\ y \in Nat /\ Odd(x, y) = 0 /\ HalfOf(x) = a /\ HalfOf(y) = b
  BY <1>2 DEF Odd, HalfOf
<1>4. c \in Element /\ gsum(a, b) = c /\ c \in Nat
  BY SumsAre, ElementIs
<1>5. q \in Nat /\ r \in Nat /\ Reducer(c) \in Nat /\ ip \in Nat
  BY <1>4, DoubledIs, PolynomialIs
<1> HIDE DEF x, y, q, r
<1>6. 2 * c = myxor[m + 1][x][y]
  <2>1. myxor[m + 1][x][y] = Odd(x, y) + 2 * myxor[m][HalfOf(x)][HalfOf(y)]
    BY <1>1, <1>3, MyxorStep
  <2> HIDE DEF c
  <2> QED
    BY <2>1, <1>3, <1>4 DEF c
<1>7. z \in Element /\ z \in Nat
  BY <1>1, <1>3, MyxorType, ElementIs, Zenon
\* Which of the two sums overflows.
<1>8. Reducer(c) = IF q = r THEN 0 ELSE ip
  <2>1. c >= Power(m - 1) <=> ~(a >= Power(m - 1) <=> b >= Power(m - 1))
    BY <1>1, <1>2, MyxorTop, Zenon
  <2>2. q = (IF a >= Power(m - 1) THEN ip ELSE 0) /\ r = (IF b >= Power(m - 1) THEN ip ELSE 0)
    BY Zenon DEF q, r, Reducer
  <2>3. Reducer(c) = IF c >= Power(m - 1) THEN ip ELSE 0
    BY Zenon DEF Reducer
  <2>4. ip # 0
    BY PolynomialOdd, Halving
  <2> QED
    BY <2>1, <2>2, <2>3, <2>4, Zenon
<1>9. q \in {0, ip} /\ r \in {0, ip}
  BY DEF q, r, Reducer
<1> HIDE DEF c, z
<1>10. doubled(c) = myxor[m][z][Reducer(c)]
  <2>1. doubled(c) = myxor[m][2 * c][Reducer(c)]
    BY <1>4, DoubledIs, Zenon
  <2> DEFINE Law(n, k, u, v, w) ==
               myxor[n][myxor[k][u][v]][w] = myxor[n][myxor[n][u][v]][w]
  <2>2. \A n, k, u, v, w \in Nat : After(n, k) => Law(n, k, u, v, w)
    BY MyxorHigh, Zenon
  <2> HIDE DEF Law
  <2>3. Law(m, m + 1, x, y, Reducer(c))
    BY <1>1, <1>3, <1>5, <2>2, Zenon
  <2> QED
    BY <1>6, <2>1, <2>3, Zenon DEF Law, z
<1> DEFINE P(u, v) == myxor[m][u][v]
\* The four numbers added across, as sums of lowest bits.
<1>11. P(P(x, q), P(y, r)) = P(z, P(q, r))
  <2> DEFINE Law(u, v, w) == P(P(u, v), w) = P(u, P(v, w))
  <2>1. \A u, v, w \in Nat : Law(u, v, w)
    BY <1>1, MyxorAssociates
  <2>2. \A u, v \in Nat : P(u, v) \in Nat /\ P(u, v) = P(v, u)
    BY <1>1, MyxorType, MyxorCommutes
  <2>3. z = P(x, y)
    BY DEF z
  <2> HIDE DEF Law, P
  <2>4. Law(x, q, P(y, r)) /\ Law(q, y, r) /\ Law(y, q, r) /\ Law(x, y, P(q, r))
    BY <1>3, <1>5, <2>1, <2>2, Zenon
  <2>5. P(P(x, q), P(y, r)) = P(x, P(q, P(y, r)))
    BY <2>4, Zenon DEF Law
  <2>6. P(q, P(y, r)) = P(P(q, y), r) /\ P(P(y, q), r) = P(y, P(q, r))
    BY <2>4, Zenon DEF Law
  <2>7. P(q, y) = P(y, q)
    BY <1>3, <1>5, <2>2, Zenon
  <2>8. P(P(x, y), P(q, r)) = P(x, P(y, P(q, r)))
    BY <2>4, Zenon DEF Law
  <2> QED
    BY <2>3, <2>5, <2>6, <2>7, <2>8
<1>12. P(z, P(q, r)) = P(z, Reducer(c))
  <2>1. \A u \in Nat : P(u, u) = 0
    BY <1>1, MyxorZero
  <2>2. P(z, P(ip, 0)) = P(z, ip)
    <3> DEFINE Law(u, v, w) == P(P(u, v), w) = P(u, P(v, w))
    <3>1. \A u, v, w \in Nat : Law(u, v, w)
      BY <1>1, MyxorAssociates
    <3>2. P(z, ip) \in Nat /\ P(z, ip) < Power(m)
      BY <1>1, <1>5, <1>7, MyxorType
    <3>3. P(P(z, ip), 0) = P(z, ip)
      BY <1>1, <3>2, MyxorZero, Zenon
    <3> HIDE DEF Law, P
    <3>4. Law(z, ip, 0)
      BY <1>2, <1>5, <1>7, <3>1, Zenon
    <3> QED
      BY <3>3, <3>4, Zenon DEF Law
  <2>3. P(0, ip) = P(ip, 0)
    <3>1. 0 \in Nat /\ ip \in Nat
      BY <1>5
    <3> QED
      BY <1>1, <3>1, MyxorCommutes
  <2> HIDE DEF P
  <2> QED
    BY <1>2, <1>5, <1>8, <1>9, <2>1, <2>2, <2>3
<1>13. doubled(a) = P(x, q) /\ doubled(b) = P(y, r)
  BY DoubledIs, Zenon DEF x, y, q, r
<1>14. gsum(doubled(a), doubled(b)) = P(doubled(a), doubled(b))
  BY DoubledIs, SumsAre, Zenon
<1> HIDE DEF P
<1>15. doubled(c) = P(z, Reducer(c))
  BY <1>10, Zenon DEF P
<1> QED
  BY <1>4, <1>11, <1>12, <1>13, <1>14, <1>15

\* A double is zero only of zero: a reduced one is odd.
LEMMA DoubledOnce ==
  /\ doubled(0) = 0
  /\ \A a, b \in Element : doubled(a) = doubled(b) => a = b
<1>1. m \in Nat /\ m - 1 \in Nat /\ After(m - 1, m) /\ GF \in Nat /\ GF >= 4
  BY SizeIs
<1>2. doubled(0) = 0
  BY <1>1 DEF doubled
<1>3. ASSUME NEW a \in Element, doubled(a) = 0 PROVE a = 0
  <2>1. a \in Nat
    BY ElementIs
  <2>2. CASE 2 * a >= GF
    <3> DEFINE x == 2 * a
    <3>1. x \in Nat /\ ip \in Nat /\ Odd(x, ip) = Odd(ip, 0)
      <4>1. ip \in Nat
        BY PolynomialIs
      <4> HIDE DEF ip
      <4> QED
        BY <2>1, <4>1 DEF Odd
    <3>2. doubled(a) = myxor[m][x][ip]
      BY <2>2, Zenon DEF doubled
    <3> HIDE DEF x
    <3>3. Odd(myxor[m][x][ip], 0) = Odd(x, ip)
      BY <1>1, <3>1, MyxorBits
    <3>4. Odd(0, 0) = 0
      BY DEF Odd
    <3> QED
      BY <1>3, <3>1, <3>2, <3>3, <3>4, PolynomialOdd
  <2>3. CASE ~ 2 * a >= GF
    <3>1. doubled(a) = 2 * a
      BY <2>3, Zenon DEF doubled
    <3> QED
      BY <1>3, <2>1, <3>1
  <2> QED
    BY <2>2, <2>3, Zenon
<1>4. ASSUME NEW a \in Element, NEW b \in Element, doubled(a) = doubled(b) PROVE a = b
  <2>1. doubled(gsum(a, b)) = gsum(doubled(a), doubled(b))
    BY DoubledSum, Zenon
  <2>2. gsum(doubled(a), doubled(b)) = 0 /\ gsum(a, b) \in Element
    BY <1>4, DoubledIs, SumZero, SumsAre, Zenon
  <2>3. gsum(a, b) = 0
    BY <1>3, <2>1, <2>2, Zenon
  <2> QED
    BY <2>3, SumCancels, Zenon
<1> QED
  BY <1>2, <1>4, Zenon

-----------------------------------------------------------------------------
(***************************************************************************)
(* Products.  The powers of the generator are all different and come round *)
(* after GF - 1, so products of elements are sums of exponents.            *)
(***************************************************************************)
LEMMA PowersDiffer ==
  \A i, j \in 1 .. GF - 1 : alpha_to[i] = alpha_to[j] => i = j
<1> DEFINE S == 1 .. GF - 1
<1>1. IsFiniteSet(S)
  BY SizeIs, FS_Interval
<1>2. alpha_to \in [S -> S]
  BY PowersStep, PowersReach
<1>3. \A a \in S : \E i \in S : alpha_to[i] = a
  BY PowersReach, Zenon
<1> HIDE DEF S
<1>4. alpha_to \in Surjection(S, S)
  BY <1>2, <1>3 DEF Surjection
<1>5. alpha_to \in Injection(S, S)
  BY <1>1, <1>4, FS_SurjSameCardinalityImpliesInj, Zenon
<1> QED
  BY <1>5 DEF Injection, IsInjective, S

LEMMA PowersWrap == doubled(alpha_to[GF - 1]) = 1
<1>1. GF \in Nat /\ GF >= 4 /\ GF - 1 \in 1 .. GF - 1
  BY SizeIs
<1> DEFINE a == alpha_to[GF - 1]
           b == doubled(a)
<1>2. a \in 1 .. GF - 1 /\ a \in Element /\ 0 \in Element /\ a # 0
  BY <1>1, PowersReach, PowersStep, ElementIs
<1>3. b \in Element /\ b # 0
  BY <1>2, DoubledIs, DoubledOnce, Zenon
<1> HIDE DEF b
<1>4. b \in 1 .. GF - 1
  BY <1>1, <1>3 DEF Element
<1>5. PICK i \in 1 .. GF - 1 : alpha_to[i] = b
  BY <1>4, PowersReach, Zenon
<1>6. CASE i = 1
  BY <1>5, <1>6, PowersStep, Zenon DEF b
<1>7. CASE i # 1
  <2>1. PICK j \in 1 .. GF - 2 : j + 1 = i
    <3>1. i - 1 \in 1 .. GF - 2 /\ (i - 1) + 1 = i
      BY <1>1, <1>7
    <3> QED
      BY <3>1, Zenon
  <2>2. j \in 1 .. GF - 1 /\ j # GF - 1
    BY <1>1
  <2>3. alpha_to[i] = doubled(alpha_to[j]) /\ alpha_to[j] \in Element
    BY <2>1, <2>2, PowersStep
  <2>4. alpha_to[j] = a
    BY <1>2, <1>5, <2>3, DoubledOnce, Zenon DEF b
  <2> QED
    BY <1>1, <2>2, <2>4, PowersDiffer, Zenon
<1> QED
  BY <1>6, <1>7, Zenon

\* The power k of the generator, and the exponent of an element.
Exp(k) == alpha_to[(k % (GF - 1)) + 1]
Log(a) == index_of[a] - 1

LEMMA ExpIs ==
  \A k \in Int : /\ Exp(k) \in 1 .. GF - 1 /\ Exp(k) \in Element /\ Exp(k) # 0
                 /\ Exp(k + 1) = doubled(Exp(k))
<1> DEFINE n == GF - 1
<1>1. n \in Int /\ n >= 3 /\ GF - 2 = n - 1 /\ GF - 1 = n
  BY SizeIs
<1> HIDE DEF n
<1> SUFFICES ASSUME NEW k \in Int
             PROVE  /\ Exp(k) \in 1 .. n /\ Exp(k) \in Element /\ Exp(k) # 0
                    /\ Exp(k + 1) = doubled(Exp(k))
  BY <1>1, Zenon
<1> DEFINE e == k % n
<1>2. e \in 0 .. n - 1
  BY <1>1, SMT
<1>3. (k + 1) % n = (e + 1) % n
  <2>1. 1 % n = 1
    BY <1>1, ModSmall
  <2>2. ((k % n) + (1 % n)) % n = (k + 1) % n
    BY <1>1, ModSum
  <2> QED
    BY <2>1, <2>2
<1>4. Exp(k) = alpha_to[e + 1] /\ Exp(k + 1) = alpha_to[((e + 1) % n) + 1]
  BY <1>1, <1>3, Zenon DEF Exp
<1> HIDE DEF e
<1>5. e + 1 \in 1 .. n
  BY <1>1, <1>2
<1>6. alpha_to[e + 1] \in 1 .. n /\ alpha_to[e + 1] \in Element
  BY <1>1, <1>5, PowersReach, PowersStep, Zenon
<1>7. CASE e + 1 = n
  <2>1. (e + 1) % n = 0
    BY <1>1, <1>7
  <2>2. Exp(k + 1) = 1
    BY <1>4, <2>1, PowersStep
  <2> QED
    BY <1>1, <1>4, <1>6, <1>7, <2>2, PowersWrap
<1>8. CASE e + 1 # n
  <2>1. e + 1 \in 0 .. n - 1 /\ e + 1 \in 1 .. n - 1
    BY <1>1, <1>2, <1>8
  <2>2. (e + 1) % n = e + 1
    BY <1>1, <2>1, ModSmall
  <2>3. \A i \in 1 .. n - 1 : alpha_to[i + 1] = doubled(alpha_to[i])
    BY <1>1, PowersStep, Zenon
  <2>4. alpha_to[(e + 1) + 1] = doubled(alpha_to[e + 1])
    BY <2>1, <2>3, Zenon
  <2>5. alpha_to[e + 1] # 0
    BY <1>1, <1>6
  <2> QED
    BY <1>4, <1>6, <2>2, <2>4, <2>5, Zenon
<1> QED
  BY <1>7, <1>8, Zenon

LEMMA ExpWraps ==
  /\ Exp(0) = 1
  /\ \A k \in 0 .. GF - 2 : Exp(k) = alpha_to[k + 1]
  /\ \A k \in Int : Exp(k % (GF - 1)) = Exp(k)
<1> DEFINE n == GF - 1
<1>1. n \in Int /\ n >= 3 /\ GF - 2 = n - 1 /\ GF - 1 = n
  BY SizeIs
<1> HIDE DEF n
<1>2. ASSUME NEW k \in 0 .. n - 1 PROVE Exp(k) = alpha_to[k + 1]
  <2>1. k % n = k
    BY <1>1, ModSmall
  <2> QED
    BY <1>1, <2>1, Zenon DEF Exp
<1>3. 0 \in 0 .. n - 1 /\ 0 + 1 = 1
  BY <1>1
<1>4. ASSUME NEW k \in Int PROVE Exp(k % n) = Exp(k)
  <2>1. k % n \in 0 .. n - 1
    BY <1>1, SMT
  <2> QED
    BY <1>1, <1>2, <2>1, Zenon DEF Exp
<1> QED
  BY <1>1, <1>2, <1>3, <1>4, PowersStep

LEMMA LogIs ==
  \A a \in 1 .. GF - 1 : /\ index_of[a] \in 1 .. GF - 1 /\ alpha_to[index_of[a]] = a
                         /\ Log(a) \in 0 .. GF - 2 /\ Log(a) \in Int /\ Exp(Log(a)) = a
<1> SUFFICES ASSUME NEW a \in 1 .. GF - 1
             PROVE  /\ index_of[a] \in 1 .. GF - 1 /\ alpha_to[index_of[a]] = a
                    /\ Log(a) \in 0 .. GF - 2 /\ Log(a) \in Int /\ Exp(Log(a)) = a
  OBVIOUS
<1>1. \E i \in 1 .. GF - 1 : alpha_to[i] = a
  BY PowersReach, Zenon
<1>2. index_of[a] = CHOOSE i \in 1 .. GF - 1 : alpha_to[i] = a
  BY DEF index_of
<1>3. index_of[a] \in 1 .. GF - 1 /\ alpha_to[index_of[a]] = a
  BY <1>1, <1>2, Zenon
<1>4. Log(a) \in 0 .. GF - 2 /\ Log(a) \in Int /\ Log(a) + 1 = index_of[a]
  BY <1>3, SizeIs DEF Log
<1>5. Exp(Log(a)) = a
  BY <1>3, <1>4, ExpWraps, Zenon
<1> QED
  BY <1>3, <1>4, <1>5, Zenon

LEMMA LogOfExp == \A k \in Int : Log(Exp(k)) = k % (GF - 1)
<1> SUFFICES ASSUME NEW k \in Int PROVE Log(Exp(k)) = k % (GF - 1)
  OBVIOUS
<1> DEFINE n == GF - 1
           e == k % n
<1>1. n \in Int /\ n >= 3 /\ GF - 2 = n - 1 /\ GF - 1 = n
  BY SizeIs
<1>2. e \in 0 .. n - 1
  BY <1>1, SMT
<1> DEFINE i == index_of[Exp(k)]
<1>3. Exp(k) \in 1 .. GF - 1
  BY ExpIs, Zenon
<1>4. i \in 1 .. GF - 1 /\ alpha_to[i] = Exp(k)
  BY <1>3, LogIs, Zenon
<1>5. Exp(k) = alpha_to[e + 1]
  BY DEF Exp
<1> HIDE DEF n, e, i
<1>6. e + 1 \in 1 .. GF - 1
  BY <1>1, <1>2
<1>7. i = e + 1
  BY <1>4, <1>5, <1>6, PowersDiffer, Zenon
<1>8. i - 1 = e
  BY <1>1, <1>2, <1>7
<1> QED
  BY <1>8, Zenon DEF Log, i, e, n

LEMMA ElementsAre ==
  \A a \in Element : a # 0 => /\ a \in 1 .. GF - 1
                              /\ Log(a) \in 0 .. GF - 2 /\ Log(a) \in Int /\ Exp(Log(a)) = a
<1>1. \A a \in Element : a # 0 => a \in 1 .. GF - 1
  BY SizeIs DEF Element
<1> QED
  BY <1>1, LogIs, Zenon

LEMMA MultOfExp == \A i, j \in Int : gmult(Exp(i), Exp(j)) = Exp(i + j)
<1> SUFFICES ASSUME NEW i \in Int, NEW j \in Int
             PROVE  gmult(Exp(i), Exp(j)) = Exp(i + j)
  OBVIOUS
<1> DEFINE n == GF - 1
           a == Exp(i)
           b == Exp(j)
<1>1. n \in Int /\ n >= 1 /\ GF - 1 = n
  BY SizeIs
<1>2. a # 0 /\ b # 0 /\ a \in 1 .. GF - 1 /\ b \in 1 .. GF - 1
  BY ExpIs, Zenon
<1>3. Log(a) = i % n /\ Log(b) = j % n
  BY LogOfExp, Zenon
<1>4. index_of[a] \in Int /\ index_of[b] \in Int
  BY <1>2, LogIs
<1> HIDE DEF n, a, b
<1>5. index_of[a] + index_of[b] - 2 = (i % n) + (j % n)
  BY <1>3, <1>4 DEF Log
<1>6. gmult(a, b) = alpha_to[((index_of[a] + index_of[b] - 2) % n) + 1]
  BY <1>1, <1>2, Zenon DEF gmult
<1>7. ((i % n) + (j % n)) % n = (i + j) % n
  BY <1>1, ModSum
<1> QED
  BY <1>1, <1>5, <1>6, <1>7, Zenon DEF a, b, Exp

LEMMA MultIs ==
  \A a, b \in Element :
    /\ gmult(a, b) \in Element /\ gmult(a, 0) = 0 /\ gmult(0, a) = 0
    /\ gmult(a, 1) = a /\ gmult(1, a) = a
    /\ gmult(a, b) = 0 => a = 0 \/ b = 0
<1> SUFFICES ASSUME NEW a \in Element, NEW b \in Element
             PROVE  /\ gmult(a, b) \in Element /\ gmult(a, 0) = 0 /\ gmult(0, a) = 0
                    /\ gmult(a, 1) = a /\ gmult(1, a) = a
                    /\ gmult(a, b) = 0 => a = 0 \/ b = 0
  BY Zenon
<1>1. gmult(a, 0) = 0 /\ gmult(0, a) = 0 /\ gmult(0, b) = 0 /\ gmult(0, 1) = 0 /\ gmult(1, 0) = 0
  BY DEF gmult
<1>2. ASSUME a # 0
      PROVE  gmult(a, 1) = a /\ gmult(1, a) = a
  <2> DEFINE i == Log(a)
  <2>1. i \in Int /\ Exp(i) = a /\ i + 0 = i /\ 0 + i = i /\ 0 \in Int /\ Exp(0) = 1
    BY <1>2, ElementsAre, ExpWraps
  <2> HIDE DEF i
  <2>2. gmult(Exp(i), Exp(0)) = Exp(i + 0) /\ gmult(Exp(0), Exp(i)) = Exp(0 + i)
    BY <2>1, MultOfExp, Zenon
  <2> QED
    BY <2>1, <2>2, Zenon
<1>3. ASSUME a # 0, b # 0
      PROVE  gmult(a, b) \in Element /\ gmult(a, b) # 0
  <2> DEFINE i == Log(a)
             j == Log(b)
             k == i + j
  <2>1. i \in Int /\ j \in Int /\ Exp(i) = a /\ Exp(j) = b
    BY <1>3, ElementsAre, Zenon
  <2>2. k \in Int
    BY <2>1
  <2>3. gmult(Exp(i), Exp(j)) = Exp(k)
    BY <2>1, MultOfExp, Zenon
  <2> HIDE DEF i, j, k
  <2> QED
    BY <2>1, <2>2, <2>3, ExpIs, Zenon
<1>4. 0 \in Element
  BY ElementIs
<1> QED
  BY <1>1, <1>2, <1>3, <1>4, Zenon

LEMMA MultType == \A a, b \in Element : gmult(a, b) \in Element
BY MultIs, Zenon

LEMMA SumType == \A a, b \in Element : gsum(a, b) \in Element
BY SumsAre, Zenon

LEMMA ZeroIs ==
  \A a \in Element : gmult(a, 0) = 0 /\ gmult(0, a) = 0 /\ gsum(a, 0) = a /\ gsum(0, a) = a
BY MultIs, SumZero

LEMMA MultCommutes == \A a, b \in Element : gmult(a, b) = gmult(b, a)
<1> SUFFICES ASSUME NEW a \in Element, NEW b \in Element PROVE gmult(a, b) = gmult(b, a)
  OBVIOUS
<1>1. CASE a # 0 /\ b # 0
  <2> DEFINE i == Log(a)
             j == Log(b)
  <2>1. i \in Int /\ j \in Int /\ Exp(i) = a /\ Exp(j) = b
    BY <1>1, ElementsAre, Zenon
  <2> HIDE DEF i, j
  <2>2. i + j = j + i
    BY <2>1
  <2>3. gmult(Exp(i), Exp(j)) = Exp(i + j) /\ gmult(Exp(j), Exp(i)) = Exp(j + i)
    BY <2>1, MultOfExp, Zenon
  <2> QED
    BY <2>1, <2>2, <2>3, Zenon
<1>2. CASE a = 0 \/ b = 0
  <2>1. gmult(a, b) = 0 /\ gmult(b, a) = 0
    BY <1>2, MultIs, Zenon
  <2> QED
    BY <2>1, Zenon
<1> QED
  BY <1>1, <1>2, Zenon

\* The laws of products by names, like that of sums.
Multiplies(a, b, c) == gmult(gmult(a, b), c) = gmult(a, gmult(b, c))
Distributes(c, a, b) ==
  /\ gmult(c, gsum(a, b)) = gsum(gmult(c, a), gmult(c, b))
  /\ gmult(gsum(a, b), c) = gsum(gmult(a, c), gmult(b, c))

LEMMA MultOrder == \A a, b, c \in Element : Multiplies(a, b, c)
<1> SUFFICES ASSUME NEW a \in Element, NEW b \in Element, NEW c \in Element
             PROVE  gmult(gmult(a, b), c) = gmult(a, gmult(b, c))
  BY Zenon DEF Multiplies
<1>1. CASE a # 0 /\ b # 0 /\ c # 0
  <2> DEFINE i == Log(a)
             j == Log(b)
             k == Log(c)
             u == i + j
             v == j + k
  <2>1. i \in Int /\ j \in Int /\ k \in Int /\ Exp(i) = a /\ Exp(j) = b /\ Exp(k) = c
    BY <1>1, ElementsAre, Zenon
  <2>2. u \in Int /\ v \in Int /\ u + k = i + v
    BY <2>1
  <2>3. gmult(a, b) = Exp(u) /\ gmult(b, c) = Exp(v)
    BY <2>1, MultOfExp, Zenon
  <2> HIDE DEF i, j, k, u, v
  <2>4. gmult(Exp(u), Exp(k)) = Exp(u + k) /\ gmult(Exp(i), Exp(v)) = Exp(i + v)
    BY <2>1, <2>2, MultOfExp, Zenon
  <2> QED
    BY <2>1, <2>2, <2>3, <2>4, Zenon
<1>2. CASE ~(a # 0 /\ b # 0 /\ c # 0)
  <2>1. \A x \in Element : gmult(0, x) = 0 /\ gmult(x, 0) = 0
    BY MultIs, Zenon
  <2>2. gmult(a, b) \in Element /\ gmult(b, c) \in Element
    BY MultIs, Zenon
  <2>3. a = 0 => gmult(a, b) = 0 /\ gmult(gmult(a, b), c) = 0 /\ gmult(a, gmult(b, c)) = 0
    BY <2>1, <2>2, Zenon
  <2>4. b = 0 => gmult(gmult(a, b), c) = 0 /\ gmult(a, gmult(b, c)) = 0
    BY <2>1, <2>2, Zenon
  <2>5. c = 0 => gmult(gmult(a, b), c) = 0 /\ gmult(a, gmult(b, c)) = 0
    BY <2>1, <2>2, Zenon
  <2> QED
    BY <1>2, <2>3, <2>4, <2>5, Zenon
<1> QED
  BY <1>1, <1>2, Zenon

\* One more factor of the generator is one more doubling.
LEMMA MultDoubles ==
  \A k \in Int, a \in Element : gmult(Exp(k + 1), a) = doubled(gmult(Exp(k), a))
<1> SUFFICES ASSUME NEW k \in Int, NEW a \in Element
             PROVE  gmult(Exp(k + 1), a) = doubled(gmult(Exp(k), a))
  OBVIOUS
<1>1. k + 1 \in Int
  OBVIOUS
<1>2. CASE a = 0
  <2>1. gmult(Exp(k + 1), a) = 0 /\ gmult(Exp(k), a) = 0
    BY <1>1, <1>2, ExpIs, MultIs, Zenon
  <2> QED
    BY <2>1, DoubledOnce, Zenon
<1>3. CASE a # 0
  <2> DEFINE i == Log(a)
             j == k + i
             l == k + 1
  <2>1. i \in Int /\ Exp(i) = a
    BY <1>3, ElementsAre, Zenon
  <2>2. j \in Int /\ l \in Int /\ l + i = j + 1
    BY <2>1
  <2>3. gmult(Exp(k), Exp(i)) = Exp(j)
    BY <2>1, MultOfExp, Zenon
  <2> HIDE DEF i, j, l
  <2>4. gmult(Exp(l), Exp(i)) = Exp(l + i)
    BY <2>1, <2>2, MultOfExp, Zenon
  <2>5. Exp(j + 1) = doubled(Exp(j))
    BY <2>2, ExpIs, Zenon
  <2> QED
    BY <2>1, <2>2, <2>3, <2>4, <2>5, Zenon DEF l
<1> QED
  BY <1>2, <1>3, Zenon

LEMMA MultDistributes == \A c, a, b \in Element : Distributes(c, a, b)
<1> DEFINE Law(c, a, b) == gmult(c, gsum(a, b)) = gsum(gmult(c, a), gmult(c, b))
<1>1. ASSUME NEW a \in Element, NEW b \in Element, NEW c \in Element PROVE Law(c, a, b)
  <2> DEFINE Z == {k \in Nat : Law(Exp(k), a, b)}
             s == gsum(a, b)
  <2>1. s \in Element
    BY SumsAre, Zenon
  <2>2. 0 \in Z
    <3>3. ASSUME NEW x \in Element PROVE gmult(1, x) = x
      BY MultIs
    <3>1. Law(1, a, b)
      BY <2>1, <3>3
    <3>2. Exp(0) = 1
      BY ExpWraps
    <3> HIDE DEF Law
    <3> QED
      BY <3>1, <3>2
  <2>3. ASSUME NEW k \in Nat, k \in Z PROVE k + 1 \in Z
    <3>1. k \in Int /\ Law(Exp(k), a, b)
      BY <2>3
    <3> DEFINE x == gmult(Exp(k), a)
               y == gmult(Exp(k), b)
    <3>2. x \in Element /\ y \in Element
      BY <3>1, ExpIs, MultIs, Zenon
    <3>3. gmult(Exp(k), s) = gsum(x, y)
      BY <3>1, Zenon
    <3>4. gmult(Exp(k + 1), s) = doubled(gsum(x, y))
      BY <2>1, <3>1, <3>3, MultDoubles, Zenon
    <3>5. gmult(Exp(k + 1), a) = doubled(x) /\ gmult(Exp(k + 1), b) = doubled(y)
      BY <3>1, MultDoubles, Zenon
    <3>6. doubled(gsum(x, y)) = gsum(doubled(x), doubled(y))
      BY <3>2, DoubledSum, Zenon
    <3>7. Law(Exp(k + 1), a, b)
      BY <3>4, <3>5, <3>6, Zenon
    <3> HIDE DEF Law
    <3> QED
      BY <3>7
  <2> HIDE DEF Law
  <2>4. Nat \subseteq Z
    <3> HIDE DEF Z
    <3> QED
      BY <2>2, <2>3, SetInduction
  <2>5. CASE c = 0
    <3>1. 0 \in Element /\ gsum(0, 0) = 0
      BY ElementIs, SumZero
    <3> QED
      BY <2>1, <2>5, <3>1, MultIs, Zenon DEF Law
  <2>6. CASE c # 0
    <3>1. Log(c) \in Nat /\ Exp(Log(c)) = c
      BY <2>6, SizeIs, ElementsAre
    <3> QED
      BY <2>4, <3>1
  <2> QED
    BY <2>5, <2>6, Zenon
<1>2. ASSUME NEW a \in Element, NEW b \in Element, NEW c \in Element PROVE Distributes(c, a, b)
  <2>1. gmult(c, gsum(a, b)) = gsum(gmult(c, a), gmult(c, b))
    BY <1>1, Zenon
  <2>2. gsum(a, b) \in Element
    BY SumsAre, Zenon
  <2>3. /\ gmult(gsum(a, b), c) = gmult(c, gsum(a, b))
        /\ gmult(a, c) = gmult(c, a) /\ gmult(b, c) = gmult(c, b)
    BY <2>2, MultCommutes, Zenon
  <2> QED
    BY <2>1, <2>3 DEF Distributes
<1> QED
  BY <1>2, Zenon

-----------------------------------------------------------------------------
(***************************************************************************)
(* Quotients, inverses and powers.                                         *)
(***************************************************************************)
LEMMA DivOfExp == \A i, j \in Int : gdiv(Exp(i), Exp(j)) = Exp(i - j)
<1> SUFFICES ASSUME NEW i \in Int, NEW j \in Int
             PROVE  gdiv(Exp(i), Exp(j)) = Exp(i - j)
  OBVIOUS
<1> DEFINE n == GF - 1
           a == Exp(i)
           b == Exp(j)
           e == j % n
           k == i - j
<1>1. n \in Int /\ n >= 1 /\ GF - 1 = n /\ k \in Int
  BY SizeIs
<1>2. a # 0 /\ a \in 1 .. GF - 1 /\ b \in 1 .. GF - 1
  BY ExpIs, Zenon
<1>3. Log(a) = i % n /\ Log(b) = e
  BY LogOfExp, Zenon
<1>4. index_of[a] \in Int /\ index_of[b] \in Int
  BY <1>2, LogIs
<1>5. e \in Int /\ e % n = j % n
  <2>1. e \in 0 .. n - 1
    BY <1>1, SMT
  <2> HIDE DEF e
  <2>2. e % n = e
    BY <1>1, <2>1, ModSmall
  <2> QED
    BY <2>1, <2>2 DEF e
<1> HIDE DEF n, a, b, e, k
<1>6. index_of[a] - index_of[b] = (i % n) - e
  BY <1>3, <1>4 DEF Log
<1>7. gdiv(a, b) = alpha_to[((index_of[a] - index_of[b]) % n) + 1]
  BY <1>1, <1>2, Zenon DEF gdiv
<1>8. ((i % n) - e) % n = (i - e) % n
  BY <1>1, <1>5, ModKeeps
<1>9. (i - e) % n = k % n
  <2> DEFINE l == i - e
  <2>1. l \in Int /\ i = k + j /\ l = i - e
    BY <1>5 DEF k
  <2>2. PICK d \in Int : e - j = d * n
    BY <1>1, <1>5, ModDiffers
  <2>3. -d \in Int /\ (-d) * n = -(d * n) /\ d * n \in Int
    BY <1>1
  <2> DEFINE p == d * n
             q == (-d) * n
  <2>4. q = -p /\ p \in Int /\ e - j = p
    BY <2>2, <2>3
  <2> HIDE DEF p, q, l
  <2>5. l = k + q
    BY <1>1, <1>5, <2>1, <2>4
  <2>6. (k + (-d) * n) % n = k % n
    BY <1>1, <2>3, ModSame
  <2> QED
    BY <2>5, <2>6 DEF q, l
<1> QED
  BY <1>1, <1>6, <1>7, <1>8, <1>9, Zenon DEF a, b, Exp, k

\* The inverse, of everything but zero.
LEMMA InverseIs ==
  /\ \A j \in Int : ginv(Exp(j)) = Exp(-j)
  /\ \A a \in Element : a # 0 =>
       ginv(a) \in Element /\ ginv(a) # 0 /\ gmult(a, ginv(a)) = 1 /\ gmult(ginv(a), a) = 1
<1>1. ASSUME NEW j \in Int PROVE ginv(Exp(j)) = Exp(-j)
  <2>1. 0 \in Int /\ 0 - j = -j /\ Exp(0) = 1
    BY ExpWraps
  <2>2. gdiv(Exp(0), Exp(j)) = Exp(0 - j)
    BY <2>1, DivOfExp, Zenon
  <2> QED
    BY <2>1, <2>2, Zenon DEF ginv
<1>2. ASSUME NEW a \in Element, a # 0
      PROVE  ginv(a) \in Element /\ ginv(a) # 0 /\ gmult(a, ginv(a)) = 1 /\ gmult(ginv(a), a) = 1
  <2> DEFINE i == Log(a)
             j == -i
  <2>1. i \in Int /\ Exp(i) = a
    BY <1>2, ElementsAre, Zenon
  <2>2. j \in Int /\ i + j = 0 /\ j + i = 0
    BY <2>1
  <2>3. ginv(a) = Exp(j)
    BY <1>1, <2>1, Zenon
  <2> HIDE DEF i, j
  <2>4. gmult(Exp(i), Exp(j)) = Exp(i + j) /\ gmult(Exp(j), Exp(i)) = Exp(j + i)
    BY <2>1, <2>2, MultOfExp, Zenon
  <2> QED
    BY <2>1, <2>2, <2>3, <2>4, ExpIs, ExpWraps, Zenon
<1> QED
  BY <1>1, <1>2, Zenon

\* A quotient is a product with the inverse.
LEMMA DivIs ==
  \A a, b \in Element : b # 0 => gdiv(a, b) = gmult(a, ginv(b)) /\ gdiv(a, b) \in Element
<1> SUFFICES ASSUME NEW a \in Element, NEW b \in Element, b # 0
             PROVE  gdiv(a, b) = gmult(a, ginv(b)) /\ gdiv(a, b) \in Element
  BY Zenon
<1>0. ginv(b) \in Element
  BY InverseIs, Zenon
<1>1. CASE a = 0
  BY <1>0, <1>1, MultIs, ElementIs, Zenon DEF gdiv
<1>2. CASE a # 0
  <2> DEFINE i == Log(a)
             j == Log(b)
             k == -j
  <2>1. i \in Int /\ j \in Int /\ Exp(i) = a /\ Exp(j) = b
    BY <1>2, ElementsAre, Zenon
  <2>2. k \in Int /\ i - j = i + k /\ i - j \in Int
    BY <2>1
  <2>3. ginv(Exp(j)) = Exp(k)
    BY <2>1, InverseIs, Zenon
  <2> HIDE DEF i, j, k
  <2>4. gdiv(Exp(i), Exp(j)) = Exp(i - j) /\ gmult(Exp(i), Exp(k)) = Exp(i + k)
    BY <2>1, <2>2, DivOfExp, MultOfExp, Zenon
  <2> QED
    BY <2>1, <2>2, <2>3, <2>4, ExpIs, Zenon
<1> QED
  BY <1>1, <1>2, Zenon

LEMMA PowOfExp == \A i \in Int, n \in Int : gpow(Exp(i), n) = Exp(i * n)
<1> SUFFICES ASSUME NEW i \in Int, NEW n \in Int PROVE gpow(Exp(i), n) = Exp(i * n)
  OBVIOUS
<1> DEFINE l == GF - 1
           a == Exp(i)
           e == i % l
<1>1. l \in Int /\ l >= 1 /\ GF - 1 = l
  BY SizeIs
<1>2. Log(a) = e
  BY LogOfExp, Zenon
<1>3. e \in 0 .. l - 1
  BY <1>1, SMT
<1>4. e % l = i % l
  <2> HIDE DEF e, l
  <2>1. e % l = e
    BY <1>1, <1>3, ModSmall
  <2> QED
    BY <2>1 DEF e
<1> HIDE DEF e, l, a
<1>5. PICK d \in Int : e - i = d * l
  <2>1. e \in Int
    BY <1>1, <1>3
  <2> QED
    BY <1>1, <1>4, <2>1, ModDiffers
<1>6. e * n = i * n + (d * n) * l
  <2> DEFINE p == d * l
  <2>1. p \in Int /\ e = i + p
    BY <1>1, <1>3, <1>5
  <2>2. p * n = (d * n) * l
    BY <1>1
  <2> HIDE DEF p
  <2>3. (i + p) * n = i * n + p * n
    BY <2>1
  <2> QED
    BY <2>1, <2>2, <2>3
<1> DEFINE u == i * n
           v == d * n
<1>7. u \in Int /\ v \in Int
  OBVIOUS
<1>8. e * n = u + v * l
  BY <1>6
<1> HIDE DEF u, v
<1>9. (u + v * l) % l = u % l
  BY <1>1, <1>7, ModSame
<1>10. gpow(a, n) = alpha_to[((e * n) % l) + 1]
  BY <1>1, <1>2, Zenon DEF gpow, Log
<1> QED
  BY <1>1, <1>8, <1>9, <1>10, Zenon DEF a, u, Exp

\* One power more is one factor more.
LEMMA PowIs ==
  \A a \in Element : a # 0 =>
    /\ gpow(a, 0) = 1
    /\ \A n \in Int : /\ gpow(a, n) \in Element /\ gpow(a, n) # 0
                      /\ gpow(a, n + 1) = gmult(a, gpow(a, n))
<1> SUFFICES ASSUME NEW a \in Element, a # 0
             PROVE  /\ gpow(a, 0) = 1
                    /\ \A n \in Int : /\ gpow(a, n) \in Element /\ gpow(a, n) # 0
                                      /\ gpow(a, n + 1) = gmult(a, gpow(a, n))
  BY Zenon
<1> DEFINE i == Log(a)
<1>1. i \in Int /\ Exp(i) = a
  BY ElementsAre, Zenon
<1> HIDE DEF i
<1>2. gpow(a, 0) = 1
  <2>1. i * 0 = 0 /\ 0 \in Int
    BY <1>1
  <2>2. gpow(Exp(i), 0) = Exp(i * 0)
    BY <1>1, <2>1, PowOfExp, Zenon
  <2> QED
    BY <1>1, <2>1, <2>2, ExpWraps
<1>3. ASSUME NEW n \in Int
      PROVE  /\ gpow(a, n) \in Element /\ gpow(a, n) # 0
             /\ gpow(a, n + 1) = gmult(a, gpow(a, n))
  <2> DEFINE u == i * n
             l == n + 1
  <2>1. u \in Int /\ l \in Int /\ i * l = i + u
    BY <1>1
  <2>2. gpow(Exp(i), n) = Exp(u) /\ gpow(Exp(i), l) = Exp(i * l)
    BY <1>1, <2>1, PowOfExp, Zenon
  <2> HIDE DEF u
  <2>3. gmult(Exp(i), Exp(u)) = Exp(i + u)
    BY <1>1, <2>1, MultOfExp, Zenon
  <2>4. Exp(u) \in Element /\ Exp(u) # 0
    BY <2>1, ExpIs, Zenon
  <2> HIDE DEF l
  <2> QED
    BY <1>1, <2>1, <2>2, <2>3, <2>4, Zenon DEF l
<1> QED
  BY <1>2, <1>3, Zenon

-----------------------------------------------------------------------------
(***************************************************************************)
(* Sums over places.                                                       *)
(***************************************************************************)
Terms(f, n) == \A i \in 1 .. n : f[i] \in Element

Adder(f, n) == [i \in 1 .. n |-> [v \in Element |-> gsum(v, f[i])]]

\* f[1] and f[2] up to f[n].
Summed(n, f) == Loop(n, 0, Element, Adder(f, n))

LEMMA AdderBody ==
  ASSUME NEW n \in Nat, NEW f, Terms(f, n)
  PROVE  Body(Adder(f, n), n, Element)
<1>1. \A i \in 1 .. n : [v \in Element |-> gsum(v, f[i])] \in [Element -> Element]
  <2> SUFFICES ASSUME NEW i \in 1 .. n
               PROVE  [v \in Element |-> gsum(v, f[i])] \in [Element -> Element]
    OBVIOUS
  <2>1. f[i] \in Element
    BY DEF Terms
  <2>2. \A v \in Element : gsum(v, f[i]) \in Element
    BY <2>1, SumsAre, Zenon
  <2> QED
    BY <2>2
<1> QED
  BY <1>1 DEF Adder, Body

LEMMA SummedType ==
  ASSUME NEW n \in Nat, NEW f, Terms(f, n)
  PROVE  Summed(n, f) \in Element
<1>1. Body(Adder(f, n), n, Element) /\ 0 \in Element
  BY AdderBody, ElementIs
<1> DEFINE x == 0
<1>2. x \in Element
  BY <1>1
<1> HIDE DEF x
<1>3. Loop(n, x, Element, Adder(f, n)) \in Element
  BY <1>1, <1>2, LoopType
<1> QED
  BY <1>3 DEF Summed, x

LEMMA SummedNone == \A f : Summed(0, f) = 0
<1> SUFFICES ASSUME NEW f PROVE Summed(0, f) = 0
  OBVIOUS
<1>1. Terms(f, 0) /\ 0 \in Nat
  BY DEF Terms
<1> DEFINE x == 0
<1>2. x \in Element /\ Body(Adder(f, 0), 0, Element)
  BY <1>1, AdderBody, ElementIs
<1> HIDE DEF x
<1>3. Loop(0, x, Element, Adder(f, 0)) = x
  BY <1>2, LoopNone, Zenon
<1> QED
  BY <1>3 DEF Summed, x

LEMMA TermsFewer ==
  ASSUME NEW n \in Nat, NEW k \in Nat, After(n, k), NEW f, Terms(f, k)
  PROVE  Terms(f, n) /\ f[k] \in Element /\ k \in 1 .. k
BY DEF Terms, After

LEMMA SummedNext ==
  ASSUME NEW n \in Nat, NEW k \in Nat, After(n, k), NEW f, Terms(f, k)
  PROVE  Summed(k, f) = gsum(Summed(n, f), f[k])
<1> DEFINE x == 0
<1>1. x \in Element
  BY ElementIs
<1>2. /\ Terms(f, n) /\ Body(Adder(f, n), n, Element) /\ Body(Adder(f, k), k, Element)
      /\ k \in 1 .. k /\ Summed(n, f) \in Element
  BY TermsFewer, AdderBody, SummedType
<1>3. \A i \in 1 .. n : Adder(f, n)[i] = Adder(f, k)[i]
  BY DEF Adder, After
<1>4. \A v \in Element : Adder(f, k)[k][v] = gsum(v, f[k])
  BY <1>2 DEF Adder
<1> HIDE DEF x
<1>5. Loop(k, x, Element, Adder(f, k)) = Adder(f, k)[k][Loop(n, x, Element, Adder(f, n))]
  BY <1>1, <1>2, <1>3, LoopNext
<1>6. Summed(k, f) = Adder(f, k)[k][Summed(n, f)]
  BY <1>5, Zenon DEF Summed, x
<1> QED
  BY <1>2, <1>4, <1>6, Zenon

\* Only the terms count.
LEMMA SummedSame ==
  ASSUME NEW n \in Nat, NEW f, NEW g, \A i \in 1 .. n : f[i] = g[i]
  PROVE  Summed(n, f) = Summed(n, g)
<1>1. Adder(f, n) = Adder(g, n)
  BY DEF Adder
<1> QED
  BY <1>1, Zenon DEF Summed

\* A sum of multiples of two terms each.
Combines(h, n, a, f, b, g) ==
  \A i \in 1 .. n : h[i] = gsum(gmult(a, f[i]), gmult(b, g[i]))

LEMMA CombinedTerms ==
  ASSUME NEW n \in Nat, NEW f, NEW g, NEW h, NEW a \in Element, NEW b \in Element,
         Terms(f, n), Terms(g, n), Combines(h, n, a, f, b, g)
  PROVE  Terms(h, n)
<1> SUFFICES ASSUME NEW i \in 1 .. n PROVE h[i] \in Element
  BY DEF Terms
<1>1. f[i] \in Element /\ g[i] \in Element
  BY DEF Terms
<1>2. gmult(a, f[i]) \in Element /\ gmult(b, g[i]) \in Element
  BY <1>1, MultIs, Zenon
<1>3. gsum(gmult(a, f[i]), gmult(b, g[i])) \in Element
  BY <1>2, SumsAre, Zenon
<1> QED
  BY <1>3 DEF Combines

LEMMA SummedLinear ==
  ASSUME NEW n \in Nat, NEW f, NEW g, NEW h, NEW a \in Element, NEW b \in Element,
         Terms(f, n), Terms(g, n), Combines(h, n, a, f, b, g)
  PROVE  Summed(n, h) = gsum(gmult(a, Summed(n, f)), gmult(b, Summed(n, g)))
<1> DEFINE Good(k) == Summed(k, h) = gsum(gmult(a, Summed(k, f)), gmult(b, Summed(k, g)))
           Z == {k \in Nat : k <= n => Good(k)}
<1>1. Good(0)
  <2>1. gmult(a, 0) = 0 /\ gmult(b, 0) = 0 /\ gsum(0, 0) = 0
    BY MultIs, SumZero, ElementIs
  <2> QED
    BY <2>1, SummedNone
<1>2. ASSUME NEW j \in Nat, NEW k \in Nat, After(j, k), k <= n, Good(j) PROVE Good(k)
  <2>1. Terms(f, k) /\ Terms(g, k) /\ Combines(h, k, a, f, b, g) /\ k \in 1 .. n
    BY <1>2 DEF Terms, Combines, After
  <2>2. Terms(h, k)
    BY <2>1, CombinedTerms
  <2> DEFINE u == Summed(j, f)
             v == Summed(j, g)
             x == f[k]
             y == g[k]
  <2>3. Terms(f, j) /\ Terms(g, j) /\ x \in Element /\ y \in Element
    BY <1>2, <2>1, TermsFewer
  <2>4. u \in Element /\ v \in Element
    BY <2>3, SummedType
  <2>5. Summed(k, f) = gsum(u, x) /\ Summed(k, g) = gsum(v, y)
        /\ Summed(k, h) = gsum(Summed(j, h), h[k])
    BY <1>2, <2>1, <2>2, SummedNext
  <2>6. h[k] = gsum(gmult(a, x), gmult(b, y)) /\ Summed(j, h) = gsum(gmult(a, u), gmult(b, v))
    BY <1>2, <2>1 DEF Combines
  <2> HIDE DEF u, v, x, y
  <2>7. /\ gmult(a, x) \in Element /\ gmult(b, y) \in Element
        /\ gmult(a, u) \in Element /\ gmult(b, v) \in Element
    BY <2>3, <2>4, MultType, Zenon
  <2>8. gsum(gsum(gmult(a, u), gmult(b, v)), gsum(gmult(a, x), gmult(b, y)))
          = gsum(gsum(gmult(a, u), gmult(a, x)), gsum(gmult(b, v), gmult(b, y)))
    <3>1. Swaps(gmult(a, u), gmult(b, v), gmult(a, x), gmult(b, y))
      BY <2>7, SumSwaps, Zenon
    <3> QED
      BY <3>1, Zenon DEF Swaps
  <2>9. Distributes(a, u, x) /\ Distributes(b, v, y)
    BY <2>3, <2>4, MultDistributes, Zenon
  <2>10. gmult(a, gsum(u, x)) = gsum(gmult(a, u), gmult(a, x))
         /\ gmult(b, gsum(v, y)) = gsum(gmult(b, v), gmult(b, y))
    BY <2>9, Zenon DEF Distributes
  <2> QED
    BY <2>5, <2>6, <2>8, <2>10
<1> HIDE DEF Good
<1>3. 0 \in Z /\ \A j \in Nat : j \in Z => j + 1 \in Z
  BY <1>1, <1>2 DEF After
<1>4. Nat \subseteq Z
  <2> HIDE DEF Z
  <2> QED
    BY <1>3, SetInduction
<1>5. Good(n)
  BY <1>4
<1> QED
  BY <1>5 DEF Good

LEMMA SummedScales ==
  ASSUME NEW n \in Nat, NEW f, NEW h, NEW a \in Element, Terms(f, n),
         \A i \in 1 .. n : h[i] = gmult(a, f[i])
  PROVE  Terms(h, n) /\ Summed(n, h) = gmult(a, Summed(n, f))
<1> DEFINE z == 0
<1>1. z \in Element
  BY ElementIs
<1>2. \A v \in Element : gmult(a, v) \in Element /\ gmult(z, v) = z
                         /\ gsum(gmult(a, v), z) = gmult(a, v)
  <2>1. \A v \in Element : gmult(a, v) \in Element
    BY MultType, Zenon
  <2> QED
    BY <2>1, ZeroIs
<1> HIDE DEF z
<1>3. Combines(h, n, a, f, z, f)
  <2> SUFFICES ASSUME NEW i \in 1 .. n
               PROVE  h[i] = gsum(gmult(a, f[i]), gmult(z, f[i]))
    BY DEF Combines
  <2>1. f[i] \in Element
    BY DEF Terms
  <2> QED
    BY <1>2, <2>1
<1>4. Summed(n, h) = gsum(gmult(a, Summed(n, f)), gmult(z, Summed(n, f)))
  BY <1>1, <1>3, SummedLinear
<1>5. Terms(h, n) /\ Summed(n, f) \in Element
  BY <1>1, <1>3, CombinedTerms, SummedType
<1> QED
  BY <1>2, <1>4, <1>5

LEMMA SummedAdds ==
  ASSUME NEW n \in Nat, NEW f, NEW g, NEW h, Terms(f, n), Terms(g, n),
         \A i \in 1 .. n : h[i] = gsum(f[i], g[i])
  PROVE  Terms(h, n) /\ Summed(n, h) = gsum(Summed(n, f), Summed(n, g))
<1> DEFINE z == 1
<1>1. z \in Element
  BY ElementIs
<1>2. \A v \in Element : gmult(z, v) = v
  BY MultIs
<1> HIDE DEF z
<1>3. Combines(h, n, z, f, z, g)
  <2> SUFFICES ASSUME NEW i \in 1 .. n
               PROVE  h[i] = gsum(gmult(z, f[i]), gmult(z, g[i]))
    BY DEF Combines
  <2>1. f[i] \in Element /\ g[i] \in Element
    BY DEF Terms
  <2> QED
    BY <1>2, <2>1
<1>4. Summed(n, h) = gsum(gmult(z, Summed(n, f)), gmult(z, Summed(n, g)))
  BY <1>1, <1>3, SummedLinear
<1>5. Terms(h, n) /\ Summed(n, f) \in Element /\ Summed(n, g) \in Element
  BY <1>1, <1>3, CombinedTerms, SummedType
<1> QED
  BY <1>2, <1>4, <1>5

\* Terms of zero at the end do not count.
LEMMA SummedShort ==
  ASSUME NEW d \in Nat, NEW n \in Nat, d <= n, NEW f, Terms(f, n),
         \A i \in d + 1 .. n : f[i] = 0
  PROVE  Summed(n, f) = Summed(d, f)
<1> DEFINE Good(k) == Summed(d + k, f) = Summed(d, f)
           Z == {k \in Nat : d + k <= n => Good(k)}
<1>1. Good(0)
  OBVIOUS
<1>2. ASSUME NEW j \in Nat, d + (j + 1) <= n, Good(j) PROVE Good(j + 1)
  <2> DEFINE p == d + j
             q == d + (j + 1)
  <2>1. After(p, q) /\ p \in Nat /\ q \in Nat /\ q \in d + 1 .. n /\ Terms(f, q) /\ Terms(f, d)
    BY <1>2 DEF After, Terms
  <2> HIDE DEF p, q
  <2>2. Summed(q, f) = gsum(Summed(p, f), f[q])
    BY <2>1, SummedNext, Zenon
  <2>3. f[q] = 0 /\ Summed(p, f) = Summed(d, f)
    BY <1>2, <2>1 DEF p
  <2>4. Summed(d, f) \in Element
    BY <2>1, SummedType
  <2> QED
    BY <2>2, <2>3, <2>4, ZeroIs, Zenon DEF q
<1> HIDE DEF Good
<1>3. 0 \in Z /\ \A j \in Nat : j \in Z => j + 1 \in Z
  BY <1>1, <1>2
<1>4. Nat \subseteq Z
  <2> HIDE DEF Z
  <2> QED
    BY <1>3, SetInduction
<1>5. n - d \in Nat /\ d + (n - d) = n
  OBVIOUS
<1>6. Good(n - d)
  BY <1>4, <1>5
<1> QED
  BY <1>5, <1>6 DEF Good

\* The only term that is not zero.
LEMMA SummedOne ==
  ASSUME NEW n \in Nat, NEW f, Terms(f, n), NEW p \in 1 .. n,
         \A i \in 1 .. n : i # p => f[i] = 0
  PROVE  Summed(n, f) = f[p]
<1> DEFINE d == p - 1
           z == 0
<1>1. d \in Nat /\ p \in Nat /\ After(d, p) /\ p <= n /\ z \in Nat /\ z <= d
  BY DEF After
<1>2. Terms(f, p) /\ Terms(f, d) /\ f[p] \in Element
  BY DEF Terms
<1>3. (\A i \in p + 1 .. n : f[i] = 0) /\ \A i \in z + 1 .. d : f[i] = 0
  OBVIOUS
<1>4. Summed(z, f) = 0
  BY SummedNone
<1> HIDE DEF d, z
<1>5. Summed(n, f) = Summed(p, f)
  BY <1>1, <1>3, SummedShort
<1>6. Summed(d, f) = Summed(z, f)
  BY <1>1, <1>2, <1>3, SummedShort
<1>7. Summed(p, f) = gsum(Summed(d, f), f[p])
  BY <1>1, <1>2, SummedNext, Zenon
<1> QED
  BY <1>2, <1>4, <1>5, <1>6, <1>7, ZeroIs

LEMMA SummedZero ==
  ASSUME NEW n \in Nat, NEW f, \A i \in 1 .. n : f[i] = 0
  PROVE  Terms(f, n) /\ Summed(n, f) = 0
<1> DEFINE z == 0
<1>1. z \in Nat /\ z <= n /\ \A i \in z + 1 .. n : f[i] = 0
  OBVIOUS
<1>2. Terms(f, n)
  BY ElementIs DEF Terms
<1>3. Summed(z, f) = 0
  BY SummedNone
<1> HIDE DEF z
<1>4. Summed(n, f) = Summed(z, f)
  BY <1>1, <1>2, SummedShort
<1> QED
  BY <1>2, <1>3, <1>4

\* The first term by itself.
LEMMA SummedFirst ==
  ASSUME NEW n \in Nat, NEW k \in Nat, After(n, k), NEW f, Terms(f, k),
         NEW g, \A i \in 1 .. n : g[i] = f[i + 1]
  PROVE  /\ Terms(g, n) /\ f[1] \in Element
         /\ Summed(k, f) = gsum(f[1], Summed(n, g))
<1> DEFINE Good(j) == Summed(j + 1, f) = gsum(f[1], Summed(j, g))
           Z == {j \in Nat : j <= n => Good(j)}
<1>1. f[1] \in Element /\ Terms(g, n)
  BY DEF Terms, After
<1>2. Good(0)
  <2>1. After(0, 1) /\ Terms(f, 1)
    BY <1>1 DEF After, Terms
  <2>2. Summed(1, f) = gsum(Summed(0, f), f[1])
    BY <2>1, SummedNext
  <2>3. Summed(0, f) = 0 /\ Summed(0, g) = 0
    BY SummedNone, Zenon
  <2> QED
    BY <1>1, <2>2, <2>3, ZeroIs
<1>3. ASSUME NEW j \in Nat, j + 1 <= n, Good(j) PROVE Good(j + 1)
  <2> DEFINE p == j + 1
             q == p + 1
  <2>1. /\ After(j, p) /\ After(p, q) /\ p \in Nat /\ q \in Nat /\ Terms(f, q)
        /\ Terms(g, p) /\ Terms(g, j) /\ g[p] = f[q] /\ f[q] \in Element
    BY <1>1, <1>3 DEF After, Terms
  <2> HIDE DEF p, q
  <2>2. Summed(q, f) = gsum(Summed(p, f), f[q]) /\ Summed(p, g) = gsum(Summed(j, g), g[p])
    BY <2>1, SummedNext, Zenon
  <2>3. Summed(j, g) \in Element
    BY <2>1, SummedType
  <2>4. Associates(f[1], Summed(j, g), f[q])
    BY <1>1, <2>1, <2>3, SumOrder, Zenon
  <2>5. gsum(gsum(f[1], Summed(j, g)), f[q]) = gsum(f[1], gsum(Summed(j, g), f[q]))
    BY <2>4, Zenon DEF Associates
  <2>6. Summed(p, f) = gsum(f[1], Summed(j, g))
    BY <1>3, Zenon DEF p
  <2>7. Summed(q, f) = gsum(f[1], Summed(p, g))
    BY <2>1, <2>2, <2>5, <2>6
  <2> QED
    BY <2>7, Zenon DEF p, q
<1> HIDE DEF Good
<1>4. 0 \in Z /\ \A j \in Nat : j \in Z => j + 1 \in Z
  BY <1>2, <1>3
<1>5. Nat \subseteq Z
  <2> HIDE DEF Z
  <2> QED
    BY <1>4, SetInduction
<1>6. Good(n)
  BY <1>5
<1>7. k = n + 1
  BY DEF After
<1> QED
  BY <1>1, <1>6, <1>7 DEF Good

\* A sum from its end.
LEMMA SummedReversed ==
  ASSUME NEW n \in Nat, NEW f, Terms(f, n),
         NEW g, \A i \in 1 .. n : g[i] = f[n - i + 1]
  PROVE  Terms(g, n) /\ Summed(n, g) = Summed(n, f)
<1> DEFINE Back(d, k) == [i \in 1 .. k |-> d[k - i + 1]]
           Good(k) == \A d : Terms(d, k) => Summed(k, Back(d, k)) = Summed(k, d)
           Z == {k \in Nat : Good(k)}
<1>1. Good(0)
  BY SummedNone, Zenon
<1>2. ASSUME NEW j \in Nat, NEW k \in Nat, After(j, k), Good(j) PROVE Good(k)
  <2> SUFFICES ASSUME NEW d, Terms(d, k) PROVE Summed(k, Back(d, k)) = Summed(k, d)
    OBVIOUS
  <2>1. Terms(d, j) /\ d[k] \in Element
    BY <1>2, TermsFewer
  <2> DEFINE b == Back(d, k)
             c == Back(d, j)
  <2>2. /\ \A i \in 1 .. j : c[i] = b[i + 1]
        /\ b[1] = d[k] /\ \A i \in 1 .. k : b[i] = d[k - i + 1]
    BY <1>2 DEF After
  <2>3. Terms(b, k)
    BY <2>2 DEF Terms
  <2>4. Summed(j, c) = Summed(j, d)
    BY <1>2, <2>1
  <2> HIDE DEF b, c
  <2>5. Summed(k, b) = gsum(b[1], Summed(j, c))
    BY <1>2, <2>2, <2>3, SummedFirst
  <2>6. Summed(k, d) = gsum(Summed(j, d), d[k])
    BY <1>2, SummedNext
  <2>7. Summed(j, d) \in Element
    BY <2>1, SummedType
  <2>8. gsum(d[k], Summed(j, d)) = gsum(Summed(j, d), d[k])
    BY <2>1, <2>7, SumCommutes, Zenon
  <2> QED
    BY <2>2, <2>4, <2>5, <2>6, <2>8 DEF b
<1> HIDE DEF Good
<1>3. 0 \in Z /\ \A j \in Nat : j \in Z => j + 1 \in Z
  BY <1>1, <1>2 DEF After
<1>4. Nat \subseteq Z
  <2> HIDE DEF Z
  <2> QED
    BY <1>3, SetInduction
<1>5. Summed(n, Back(f, n)) = Summed(n, f)
  BY <1>4 DEF Good
<1>6. Summed(n, g) = Summed(n, Back(f, n))
  BY SummedSame
<1>7. Terms(g, n)
  BY DEF Terms
<1> QED
  BY <1>5, <1>6, <1>7, Zenon

-----------------------------------------------------------------------------
(***************************************************************************)
(* Powers and rearrangements that polynomials need.                        *)
(***************************************************************************)
LEMMA PowAdds ==
  \A a \in Element : a # 0 =>
    /\ gpow(a, 1) = a
    /\ \A i, j \in Int : gmult(gpow(a, i), gpow(a, j)) = gpow(a, i + j)
    /\ \A i \in Int : gpow(ginv(a), i) = gpow(a, -i)
<1> SUFFICES ASSUME NEW a \in Element, a # 0
             PROVE  /\ gpow(a, 1) = a
                    /\ \A i, j \in Int : gmult(gpow(a, i), gpow(a, j)) = gpow(a, i + j)
                    /\ \A i \in Int : gpow(ginv(a), i) = gpow(a, -i)
  BY Zenon
<1> DEFINE e == Log(a)
<1>1. e \in Int /\ Exp(e) = a
  BY ElementsAre, Zenon
<1> HIDE DEF e
<1>2. gpow(a, 1) = a
  <2>1. e * 1 = e /\ 1 \in Int
    BY <1>1
  <2>2. gpow(Exp(e), 1) = Exp(e * 1)
    BY <1>1, <2>1, PowOfExp, Zenon
  <2> QED
    BY <1>1, <2>1, <2>2
<1>3. ASSUME NEW i \in Int, NEW j \in Int
      PROVE  gmult(gpow(a, i), gpow(a, j)) = gpow(a, i + j)
  <2> DEFINE k == i + j
             u == e * i
             v == e * j
  <2>1. k \in Int /\ u \in Int /\ v \in Int /\ e * k = u + v
    BY <1>1
  <2>2. gpow(Exp(e), i) = Exp(u) /\ gpow(Exp(e), j) = Exp(v) /\ gpow(Exp(e), k) = Exp(e * k)
    BY <1>1, <2>1, PowOfExp, Zenon
  <2> HIDE DEF k, u, v
  <2>3. gmult(Exp(u), Exp(v)) = Exp(u + v)
    BY <2>1, MultOfExp, Zenon
  <2> QED
    BY <1>1, <2>1, <2>2, <2>3, Zenon DEF k
<1>4. ASSUME NEW i \in Int PROVE gpow(ginv(a), i) = gpow(a, -i)
  <2> DEFINE d == -e
             j == -i
  <2>1. d \in Int /\ j \in Int /\ d * i = e * j
    BY <1>1
  <2>2. ginv(Exp(e)) = Exp(d)
    BY <1>1, InverseIs, Zenon
  <2> HIDE DEF d, j
  <2>3. gpow(Exp(d), i) = Exp(d * i) /\ gpow(Exp(e), j) = Exp(e * j)
    BY <1>1, <2>1, PowOfExp, Zenon
  <2> QED
    BY <1>1, <2>1, <2>2, <2>3, Zenon DEF j
<1> QED
  BY <1>2, <1>3, <1>4, Zenon

LEMMA PowType ==
  \A a \in Element : a # 0 => \A n \in Int : gpow(a, n) \in Element /\ gpow(a, n) # 0
BY PowIs, Zenon

LEMMA SumRight ==
  \A a, b, c \in Element : gsum(gsum(a, b), c) = gsum(gsum(a, c), b)
<1> SUFFICES ASSUME NEW a \in Element, NEW b \in Element, NEW c \in Element
             PROVE  gsum(gsum(a, b), c) = gsum(gsum(a, c), b)
  OBVIOUS
<1>1. Associates(a, b, c) /\ Associates(a, c, b)
  BY SumOrder, Zenon
<1>2. gsum(b, c) = gsum(c, b)
  BY SumCommutes, Zenon
<1> QED
  BY <1>1, <1>2, Zenon DEF Associates

\* What is added twice goes away.
LEMMA SumDrops ==
  \A a, b, c \in Element : gsum(gsum(a, c), gsum(b, c)) = gsum(a, b)
<1> SUFFICES ASSUME NEW a \in Element, NEW b \in Element, NEW c \in Element
             PROVE  gsum(gsum(a, c), gsum(b, c)) = gsum(a, b)
  OBVIOUS
<1>1. Swaps(a, c, b, c)
  BY SumSwaps, Zenon
<1>2. gsum(c, c) = 0 /\ gsum(a, b) \in Element
  BY SumZero, SumType, Zenon
<1>3. gsum(gsum(a, b), 0) = gsum(a, b)
  BY <1>2, ZeroIs, Zenon
<1> QED
  BY <1>1, <1>2, <1>3, Zenon DEF Swaps

MultLefts(a, b, c) == gmult(a, gmult(b, c)) = gmult(b, gmult(a, c))
MultAcross(a, b, c, d) ==
  gmult(gmult(a, b), gmult(c, d)) = gmult(gmult(a, c), gmult(b, d))

LEMMA MultLeft == \A a, b, c \in Element : MultLefts(a, b, c)
<1> SUFFICES ASSUME NEW a \in Element, NEW b \in Element, NEW c \in Element
             PROVE  gmult(a, gmult(b, c)) = gmult(b, gmult(a, c))
  BY Zenon DEF MultLefts
<1>1. Multiplies(a, b, c) /\ Multiplies(b, a, c)
  BY MultOrder, Zenon
<1>2. gmult(a, b) = gmult(b, a)
  BY MultCommutes, Zenon
<1> QED
  BY <1>1, <1>2, Zenon DEF Multiplies

LEMMA MultSwaps == \A a, b, c, d \in Element : MultAcross(a, b, c, d)
<1> SUFFICES ASSUME NEW a \in Element, NEW b \in Element, NEW c \in Element, NEW d \in Element
             PROVE  gmult(gmult(a, b), gmult(c, d)) = gmult(gmult(a, c), gmult(b, d))
  BY Zenon DEF MultAcross
<1>1. gmult(c, d) \in Element /\ gmult(b, d) \in Element
  BY MultType, Zenon
<1>2. Multiplies(a, b, gmult(c, d)) /\ Multiplies(a, c, gmult(b, d)) /\ MultLefts(b, c, d)
  BY <1>1, MultOrder, MultLeft, Zenon
<1> QED
  BY <1>2, Zenon DEF Multiplies, MultLefts

-----------------------------------------------------------------------------
(***************************************************************************)
(* Polynomials.  Rising(n, f, x) is the value at x of the polynomial whose *)
(* coefficients, highest first, are f[1] to f[n]: what Horner computes.    *)
(***************************************************************************)
Raiser(f, n, x) == [i \in 1 .. n |-> [v \in Element |-> gsum(f[i], gmult(x, v))]]

Rising(n, f, x) == Loop(n, 0, Element, Raiser(f, n, x))

LEMMA HornerIs == \A coeffs, x : Horner(coeffs, x) = Rising(Len(coeffs), coeffs, x)
BY Zenon DEF Horner, For, Rising, Raiser

LEMMA RaiserBody ==
  ASSUME NEW n \in Nat, NEW f, NEW x \in Element, Terms(f, n)
  PROVE  Body(Raiser(f, n, x), n, Element)
<1>1. \A i \in 1 .. n : [v \in Element |-> gsum(f[i], gmult(x, v))] \in [Element -> Element]
  <2> SUFFICES ASSUME NEW i \in 1 .. n
               PROVE  [v \in Element |-> gsum(f[i], gmult(x, v))] \in [Element -> Element]
    OBVIOUS
  <2>1. f[i] \in Element
    BY DEF Terms
  <2>2. \A v \in Element : gsum(f[i], gmult(x, v)) \in Element
    BY <2>1, SumType, MultType, Zenon
  <2> QED
    BY <2>2
<1> QED
  BY <1>1 DEF Raiser, Body

LEMMA RisingType ==
  ASSUME NEW n \in Nat, NEW f, NEW x \in Element, Terms(f, n)
  PROVE  Rising(n, f, x) \in Element
<1> DEFINE z == 0
<1>1. z \in Element /\ Body(Raiser(f, n, x), n, Element)
  BY RaiserBody, ElementIs
<1> HIDE DEF z
<1>2. Loop(n, z, Element, Raiser(f, n, x)) \in Element
  BY <1>1, LoopType
<1> QED
  BY <1>2 DEF Rising, z

LEMMA RisingNone == \A f : \A x \in Element : Rising(0, f, x) = 0
<1> SUFFICES ASSUME NEW f, NEW x \in Element PROVE Rising(0, f, x) = 0
  OBVIOUS
<1>1. Terms(f, 0) /\ 0 \in Nat
  BY DEF Terms
<1> DEFINE z == 0
<1>2. z \in Element /\ Body(Raiser(f, 0, x), 0, Element)
  BY <1>1, RaiserBody, ElementIs
<1> HIDE DEF z
<1>3. Loop(0, z, Element, Raiser(f, 0, x)) = z
  BY <1>2, LoopNone, Zenon
<1> QED
  BY <1>3 DEF Rising, z

LEMMA RisingNext ==
  ASSUME NEW n \in Nat, NEW k \in Nat, After(n, k), NEW f, NEW x \in Element, Terms(f, k)
  PROVE  Rising(k, f, x) = gsum(f[k], gmult(x, Rising(n, f, x)))
<1> DEFINE z == 0
<1>1. z \in Element
  BY ElementIs
<1>2. /\ Terms(f, n) /\ Body(Raiser(f, n, x), n, Element) /\ Body(Raiser(f, k, x), k, Element)
      /\ k \in 1 .. k /\ Rising(n, f, x) \in Element
  BY TermsFewer, RaiserBody, RisingType
<1>3. \A i \in 1 .. n : Raiser(f, n, x)[i] = Raiser(f, k, x)[i]
  BY DEF Raiser, After
<1>4. \A v \in Element : Raiser(f, k, x)[k][v] = gsum(f[k], gmult(x, v))
  BY <1>2 DEF Raiser
<1> HIDE DEF z
<1>5. Loop(k, z, Element, Raiser(f, k, x)) = Raiser(f, k, x)[k][Loop(n, z, Element, Raiser(f, n, x))]
  BY <1>1, <1>2, <1>3, LoopNext
<1>6. Rising(k, f, x) = Raiser(f, k, x)[k][Rising(n, f, x)]
  BY <1>5, Zenon DEF Rising, z
<1> QED
  BY <1>2, <1>4, <1>6, Zenon

LEMMA RisingSame ==
  ASSUME NEW n \in Nat, NEW f, NEW g, NEW x, \A i \in 1 .. n : f[i] = g[i]
  PROVE  Rising(n, f, x) = Rising(n, g, x)
<1>1. Raiser(f, n, x) = Raiser(g, n, x)
  BY DEF Raiser
<1> QED
  BY <1>1, Zenon DEF Rising

\* The same value as a sum of powers.
LEMMA RisingIs ==
  ASSUME NEW n \in Nat, NEW f, Terms(f, n), NEW x \in Element, x # 0,
         NEW g, \A i \in 1 .. n : g[i] = gmult(f[i], gpow(x, 1 - i))
  PROVE  Terms(g, n) /\ Rising(n, f, x) = gmult(gpow(x, n - 1), Summed(n, g))
<1> DEFINE Good(k) == Rising(k, f, x) = gmult(gpow(x, k - 1), Summed(k, g))
           Z == {k \in Nat : k <= n => Good(k)}
<1>1. Terms(g, n)
  <2> SUFFICES ASSUME NEW i \in 1 .. n PROVE g[i] \in Element
    BY DEF Terms
  <2>1. f[i] \in Element /\ 1 - i \in Int
    BY DEF Terms
  <2>2. gmult(f[i], gpow(x, 1 - i)) \in Element
    BY <2>1, PowType, MultType, Zenon
  <2> QED
    BY <2>2
<1>2. Good(0)
  <2>1. 0 - 1 \in Int /\ Rising(0, f, x) = 0 /\ Summed(0, g) = 0
    BY RisingNone, SummedNone
  <2>2. gpow(x, 0 - 1) \in Element
    BY <2>1, PowType, Zenon
  <2> QED
    BY <2>1, <2>2, ZeroIs, Zenon
<1>3. ASSUME NEW j \in Nat, NEW k \in Nat, After(j, k), k <= n, Good(j) PROVE Good(k)
  <2> DEFINE a == j - 1
             b == 1 - k
             S == Summed(j, g)
             c == f[k]
  <2>1. /\ Terms(f, k) /\ Terms(f, j) /\ Terms(g, k) /\ Terms(g, j) /\ k \in 1 .. n
        /\ a \in Int /\ b \in Int /\ j \in Int /\ 1 + a = j /\ j + b = 0 /\ k - 1 = j
    BY <1>1, <1>3 DEF After, Terms
  <2>2. S \in Element /\ c \in Element /\ g[k] = gmult(c, gpow(x, b))
    BY <2>1, SummedType DEF Terms
  <2> DEFINE p == gpow(x, a)
             q == gpow(x, b)
             r == gpow(x, j)
  <2>3. p \in Element /\ q \in Element /\ r \in Element
    BY <2>1, PowType, Zenon
  <2>4. gmult(x, p) = r
    <3>1. gpow(x, 1) = x /\ gmult(gpow(x, 1), gpow(x, a)) = gpow(x, 1 + a)
      BY <2>1, PowAdds
    <3> QED
      BY <2>1, <3>1, Zenon
  <2>5. gmult(r, q) = 1
    <3>1. gmult(gpow(x, j), gpow(x, b)) = gpow(x, j + b) /\ gpow(x, 0) = 1
      BY <2>1, PowAdds, PowIs
    <3> QED
      BY <2>1, <3>1, Zenon
  <2>6. Rising(j, f, x) = gmult(p, S)
    BY <1>3, Zenon
  <2>7. Rising(k, f, x) = gsum(c, gmult(x, Rising(j, f, x)))
    BY <1>3, <2>1, RisingNext
  <2>8. Summed(k, g) = gsum(S, gmult(c, q))
    BY <1>3, <2>1, <2>2, SummedNext
  <2> HIDE DEF a, b, S, c, p, q, r
  <2>9. gmult(c, q) \in Element /\ gmult(r, S) \in Element
    BY <2>2, <2>3, MultType, Zenon
  <2>10. Multiplies(x, p, S) /\ Distributes(r, S, gmult(c, q)) /\ MultLefts(r, c, q)
    BY <2>2, <2>3, <2>9, MultOrder, MultDistributes, MultLeft, Zenon
  <2>11. gmult(x, gmult(p, S)) = gmult(r, S)
    BY <2>4, <2>10, Zenon DEF Multiplies
  <2>12. gmult(r, gsum(S, gmult(c, q))) = gsum(gmult(r, S), gmult(r, gmult(c, q)))
    BY <2>10, Zenon DEF Distributes
  <2>13. gmult(r, gmult(c, q)) = gmult(c, 1)
    BY <2>5, <2>10, Zenon DEF MultLefts
  <2>14. gmult(c, 1) = c
    BY <2>2, MultIs
  <2>15. gsum(c, gmult(r, S)) = gsum(gmult(r, S), c)
    BY <2>2, <2>9, SumCommutes, Zenon
  <2>16. Rising(k, f, x) = gmult(r, Summed(k, g))
    BY <2>6, <2>7, <2>8, <2>11, <2>12, <2>13, <2>14, <2>15
  <2> QED
    BY <2>1, <2>16, Zenon DEF r
<1> HIDE DEF Good
<1>4. 0 \in Z /\ \A j \in Nat : j \in Z => j + 1 \in Z
  BY <1>2, <1>3 DEF After
<1>5. Nat \subseteq Z
  <2> HIDE DEF Z
  <2> QED
    BY <1>4, SetInduction
<1>6. Good(n)
  BY <1>5
<1> QED
  BY <1>1, <1>6 DEF Good

\* The value of the polynomial with its coefficients the other way round.
LEMMA FallingIs ==
  ASSUME NEW n \in Nat, NEW f, Terms(f, n), NEW x \in Element, x # 0,
         NEW b, \A i \in 1 .. n : b[i] = f[n - i + 1],
         NEW g, \A i \in 1 .. n : g[i] = gmult(f[i], gpow(x, i - 1))
  PROVE  Terms(g, n) /\ Rising(n, b, x) = Summed(n, g)
<1>1. Terms(g, n) /\ Terms(b, n)
  <2>1. Terms(b, n)
    BY DEF Terms
  <2> SUFFICES ASSUME NEW i \in 1 .. n PROVE g[i] \in Element
    BY <2>1 DEF Terms
  <2>2. f[i] \in Element /\ i - 1 \in Int
    BY DEF Terms
  <2>3. gmult(f[i], gpow(x, i - 1)) \in Element
    BY <2>2, PowType, MultType, Zenon
  <2> QED
    BY <2>3
<1> DEFINE h == [i \in 1 .. n |-> gmult(b[i], gpow(x, 1 - i))]
           r == [i \in 1 .. n |-> g[n - i + 1]]
           a == n - 1
           y == gpow(x, a)
<1>2. a \in Int /\ y \in Element
  <2>1. a \in Int
    OBVIOUS
  <2> QED
    BY <2>1, PowType, Zenon
<1>3. Terms(h, n) /\ Rising(n, b, x) = gmult(y, Summed(n, h))
  <2>1. \A i \in 1 .. n : h[i] = gmult(b[i], gpow(x, 1 - i))
    OBVIOUS
  <2> HIDE DEF h
  <2> QED
    BY <1>1, <2>1, RisingIs
<1>4. Terms(r, n) /\ Summed(n, r) = Summed(n, g)
  <2>1. \A i \in 1 .. n : r[i] = g[n - i + 1]
    OBVIOUS
  <2> HIDE DEF r
  <2> QED
    BY <1>1, <2>1, SummedReversed
<1>5. ASSUME NEW i \in 1 .. n PROVE r[i] = gmult(y, h[i])
  <2> DEFINE c == b[i]
             d == 1 - i
             l == n - i + 1
             e == l - 1
  <2>1. c \in Element /\ d \in Int /\ l \in 1 .. n /\ e \in Int /\ a + d = e /\ c = f[l]
    BY <1>1 DEF Terms
  <2>2. r[i] = gmult(f[l], gpow(x, l - 1)) /\ h[i] = gmult(c, gpow(x, d))
    BY <2>1
  <2> HIDE DEF h, r, a, c, d
  <2>3. gpow(x, d) \in Element
    BY <2>1, PowType, Zenon
  <2>4. gmult(gpow(x, a), gpow(x, d)) = gpow(x, a + d)
    BY <1>2, <2>1, PowAdds, Zenon
  <2>5. MultLefts(y, c, gpow(x, d))
    BY <1>2, <2>1, <2>3, MultLeft, Zenon
  <2> QED
    BY <2>1, <2>2, <2>4, <2>5, Zenon DEF MultLefts
<1> HIDE DEF h, r, y
<1>6. Summed(n, r) = gmult(y, Summed(n, h))
  BY <1>2, <1>3, <1>5, SummedScales
<1> QED
  BY <1>1, <1>3, <1>4, <1>6

\* Division by a linear factor: the quotient's coefficients are the values
\* the polynomial takes on its way, and the last of them is the remainder.
QuotientBy(q, f, n, z) == \A i \in 1 .. n : q[i] = Rising(i, f, z)

LEMMA QuotientTerms ==
  ASSUME NEW n \in Nat, NEW f, NEW z \in Element, Terms(f, n), NEW q, QuotientBy(q, f, n, z)
  PROVE  Terms(q, n)
<1> SUFFICES ASSUME NEW i \in 1 .. n PROVE q[i] \in Element
  BY DEF Terms
<1>1. i \in Nat /\ Terms(f, i)
  BY DEF Terms
<1>2. Rising(i, f, z) \in Element
  BY <1>1, RisingType, Zenon
<1> QED
  BY <1>2 DEF QuotientBy

LEMMA RisingQuotient ==
  ASSUME NEW n \in Nat, NEW k \in Nat, After(n, k), NEW f, Terms(f, k),
         NEW y \in Element, NEW z \in Element, NEW q, QuotientBy(q, f, k, z)
  PROVE  Rising(k, f, y) = gsum(gmult(gsum(y, z), Rising(n, q, y)), q[k])
<1> DEFINE Good(i, l) == Rising(l, f, y) = gsum(gmult(gsum(y, z), Rising(i, q, y)), q[l])
           Z == {i \in Nat : i <= n => Good(i, i + 1)}
           A == gsum(y, z)
<1>0. A \in Element /\ Terms(q, k) /\ k = n + 1
  BY SumType, QuotientTerms DEF After
<1>1. Good(0, 1)
  <2> DEFINE o == 1
  <2>1. After(0, o) /\ Terms(f, o) /\ f[o] \in Element /\ q[o] = Rising(o, f, z) /\ o \in Nat
        /\ 0 \in Nat
    BY <1>0 DEF After, Terms, QuotientBy
  <2> HIDE DEF o
  <2>2. Rising(o, f, z) = gsum(f[o], gmult(z, Rising(0, f, z)))
        /\ Rising(o, f, y) = gsum(f[o], gmult(y, Rising(0, f, y)))
    BY <2>1, RisingNext
  <2>3. Rising(0, f, z) = 0 /\ Rising(0, f, y) = 0 /\ Rising(0, q, y) = 0
    BY RisingNone
  <2>4. gmult(z, 0) = 0 /\ gmult(y, 0) = 0 /\ gmult(A, 0) = 0 /\ gsum(f[o], 0) = f[o]
        /\ gsum(0, f[o]) = f[o]
    BY <1>0, <2>1, ZeroIs, Zenon
  <2> HIDE DEF A
  <2> QED
    BY <2>1, <2>2, <2>3, <2>4 DEF A, o
<1>2. ASSUME NEW h \in Nat, NEW i \in Nat, NEW l \in Nat, After(h, i), After(i, l), i <= n,
             Good(h, i)
      PROVE  Good(i, l)
  <2> DEFINE Q == Rising(h, q, y)
             b == q[i]
             c == f[l]
  <2>1. /\ Terms(f, l) /\ Terms(q, i) /\ Terms(q, h) /\ b \in Element /\ c \in Element
        /\ Terms(f, i) /\ i \in 1 .. k /\ l \in 1 .. k
    BY <1>0, <1>2 DEF After, Terms
  <2>2. Q \in Element
    BY <2>1, RisingType
  <2>3. Rising(l, f, y) = gsum(c, gmult(y, Rising(i, f, y)))
        /\ Rising(l, f, z) = gsum(c, gmult(z, Rising(i, f, z)))
        /\ Rising(i, q, y) = gsum(b, gmult(y, Q))
    BY <1>2, <2>1, RisingNext
  <2>4. q[l] = Rising(l, f, z) /\ b = Rising(i, f, z)
    BY <2>1 DEF QuotientBy
  <2>5. Rising(i, f, y) = gsum(gmult(A, Q), b)
    BY <1>2, Zenon
  <2> HIDE DEF Q, b, c
  <2> DEFINE AQ == gmult(A, Q)
             yQ == gmult(y, Q)
             P == gmult(y, AQ)
             u == gmult(y, b)
             w == gmult(z, b)
  <2>6. AQ \in Element /\ yQ \in Element /\ P \in Element /\ u \in Element /\ w \in Element
    BY <1>0, <2>1, <2>2, MultType, Zenon
  <2>7. gmult(y, gsum(AQ, b)) = gsum(P, u)
    <3>1. Distributes(y, AQ, b)
      BY <2>1, <2>6, MultDistributes, Zenon
    <3> QED
      BY <3>1, Zenon DEF Distributes
  <2>8. gmult(A, gsum(b, yQ)) = gsum(gmult(A, b), gmult(A, yQ))
    <3>1. Distributes(A, b, yQ)
      BY <1>0, <2>1, <2>6, MultDistributes, Zenon
    <3> QED
      BY <3>1, Zenon DEF Distributes
  <2>9. gmult(A, b) = gsum(u, w)
    <3>1. Distributes(b, y, z)
      BY <2>1, MultDistributes, Zenon
    <3> QED
      BY <3>1, Zenon DEF Distributes, A
  <2>10. gmult(A, yQ) = P
    <3>1. MultLefts(A, y, Q)
      BY <1>0, <2>2, MultLeft, Zenon
    <3> QED
      BY <3>1, Zenon DEF MultLefts
  <2> HIDE DEF AQ, yQ, P, u, w, A
  <2>11. gsum(gsum(gsum(u, w), P), gsum(c, w)) = gsum(c, gsum(P, u))
    <3>1. gsum(gsum(u, w), P) = gsum(gsum(u, P), w)
      BY <2>6, SumRight, Zenon
    <3>2. gsum(u, P) \in Element
      BY <2>6, SumType, Zenon
    <3>3. gsum(gsum(gsum(u, P), w), gsum(c, w)) = gsum(gsum(u, P), c)
      BY <2>1, <2>6, <3>2, SumDrops, Zenon
    <3>4. gsum(gsum(u, P), c) = gsum(c, gsum(u, P)) /\ gsum(u, P) = gsum(P, u)
      BY <2>1, <2>6, <3>2, SumCommutes, Zenon
    <3> QED
      BY <3>1, <3>3, <3>4
  <2>12. q[l] = gsum(c, w)
    BY <2>3, <2>4, Zenon DEF w
  <2>13. Rising(l, f, y) = gsum(c, gsum(P, u))
    BY <2>3, <2>5, <2>7, Zenon DEF AQ
  <2>14. gmult(A, Rising(i, q, y)) = gsum(gsum(u, w), P)
    BY <2>3, <2>8, <2>9, <2>10, Zenon DEF yQ
  <2> QED
    BY <2>11, <2>12, <2>13, <2>14 DEF A
<1> HIDE DEF Good
<1>3. 0 \in Z /\ \A j \in Nat : j \in Z => j + 1 \in Z
  BY <1>1, <1>2 DEF After
<1>4. Nat \subseteq Z
  <2> HIDE DEF Z
  <2> QED
    BY <1>3, SetInduction
<1>5. Good(n, n + 1)
  BY <1>4
<1> QED
  BY <1>0, <1>5 DEF Good

\* The roots of a polynomial.
Roots(n, f) == {y \in Element : Rising(n, f, y) = 0}

LEMMA RootsFinite == \A n, f : IsFiniteSet(Roots(n, f))
<1> SUFFICES ASSUME NEW n, NEW f PROVE IsFiniteSet(Roots(n, f))
  OBVIOUS
<1>1. IsFiniteSet(Element)
  BY SizeIs, FS_Interval DEF Element
<1>2. Roots(n, f) \subseteq Element
  BY DEF Roots
<1> HIDE DEF Element
<1> QED
  BY <1>1, <1>2, FS_Subset

\* A root of a polynomial is that of the linear factor or of the quotient.
LEMMA RootsSplit ==
  ASSUME NEW n \in Nat, NEW k \in Nat, After(n, k), NEW f, Terms(f, k),
         NEW z \in Roots(k, f), NEW q, QuotientBy(q, f, k, z)
  PROVE  Roots(k, f) = Roots(n, q) \cup {z}
<1>1. z \in Element /\ Rising(k, f, z) = 0
  BY DEF Roots
<1>2. q[k] = 0 /\ k \in 1 .. k /\ Terms(q, k) /\ Terms(q, n)
  <2>1. k \in 1 .. k
    BY DEF After
  <2>2. Terms(q, k)
    BY <1>1, QuotientTerms
  <2> QED
    BY <1>1, <2>1, <2>2, TermsFewer DEF QuotientBy
<1>3. ASSUME NEW y \in Element
      PROVE  Rising(k, f, y) = 0 <=> Rising(n, q, y) = 0 \/ y = z
  <2> DEFINE A == gsum(y, z)
             Q == Rising(n, q, y)
  <2>1. A \in Element /\ Q \in Element
    BY <1>1, <1>2, SumType, RisingType
  <2>2. A = 0 <=> y = z
    BY <1>1, SumCancels, SumZero, Zenon
  <2>3. Rising(k, f, y) = gsum(gmult(A, Q), q[k])
    BY <1>1, RisingQuotient
  <2> HIDE DEF A, Q
  <2>4. gmult(A, Q) \in Element
    BY <2>1, MultType, Zenon
  <2>5. gsum(gmult(A, Q), 0) = gmult(A, Q)
    BY <2>4, ZeroIs, Zenon
  <2>6. gmult(A, Q) = 0 <=> A = 0 \/ Q = 0
    BY <2>1, MultIs, Zenon
  <2> QED
    BY <1>2, <2>2, <2>3, <2>5, <2>6, Zenon DEF Q
<1> QED
  BY <1>1, <1>3 DEF Roots

\* There are no more roots than the degree.
LEMMA RootsFew ==
  ASSUME NEW n \in Nat, NEW k \in Nat, After(n, k), NEW f, Terms(f, k), f[1] # 0
  PROVE  Cardinality(Roots(k, f)) \in Nat /\ Cardinality(Roots(k, f)) <= n
<1> DEFINE Good(j, l) == \A d : Terms(d, l) /\ d[1] # 0 => Cardinality(Roots(l, d)) <= j
           Z == {j \in Nat : Good(j, j + 1)}
<1>1. Good(0, 1)
  <2> SUFFICES ASSUME NEW d, Terms(d, 1), d[1] # 0 PROVE Cardinality(Roots(1, d)) <= 0
    OBVIOUS
  <2>1. ASSUME NEW y \in Element PROVE Rising(1, d, y) = d[1]
    <3> DEFINE o == 1
    <3>1. After(0, o) /\ o \in Nat /\ 0 \in Nat /\ d[o] \in Element /\ Terms(d, o)
      BY DEF After, Terms
    <3> HIDE DEF o
    <3>2. Rising(o, d, y) = gsum(d[o], gmult(y, Rising(0, d, y)))
      BY <3>1, RisingNext
    <3>3. Rising(0, d, y) = 0 /\ gmult(y, 0) = 0 /\ gsum(d[o], 0) = d[o]
      BY <3>1, RisingNone, ZeroIs, Zenon
    <3> QED
      BY <3>2, <3>3 DEF o
  <2>2. Roots(1, d) = {}
    BY <2>1 DEF Roots
  <2> QED
    BY <2>2, FS_EmptySet
<1>2. ASSUME NEW i \in Nat, NEW j \in Nat, NEW l \in Nat, After(i, j), After(j, l), Good(i, j)
      PROVE  Good(j, l)
  <2> SUFFICES ASSUME NEW d, Terms(d, l), d[1] # 0 PROVE Cardinality(Roots(l, d)) <= j
    OBVIOUS
  <2>1. CASE Roots(l, d) = {}
    BY <2>1, FS_EmptySet
  <2>2. CASE Roots(l, d) # {}
    <3>1. PICK z : z \in Roots(l, d)
      BY <2>2
    <3> DEFINE q == [h \in 1 .. l |-> Rising(h, d, z)]
    <3>2. QuotientBy(q, d, l, z) /\ z \in Element
      BY <3>1 DEF QuotientBy, Roots
    <3> HIDE DEF q
    <3>3. Terms(q, l) /\ Terms(q, j)
      BY <1>2, <3>2, QuotientTerms, TermsFewer
    <3>4. q[1] = d[1]
      <4> DEFINE o == 1
      <4>1. After(0, o) /\ o \in Nat /\ 0 \in Nat /\ d[o] \in Element /\ Terms(d, o)
            /\ o \in 1 .. l
        BY <1>2 DEF After, Terms
      <4> HIDE DEF o
      <4>2. q[o] = Rising(o, d, z)
        BY <3>2, <4>1 DEF QuotientBy
      <4>3. Rising(o, d, z) = gsum(d[o], gmult(z, Rising(0, d, z)))
        BY <3>2, <4>1, RisingNext
      <4>4. Rising(0, d, z) = 0 /\ gmult(z, 0) = 0 /\ gsum(d[o], 0) = d[o]
        BY <3>2, <4>1, RisingNone, ZeroIs, Zenon
      <4> QED
        BY <4>2, <4>3, <4>4 DEF o
    <3>5. Cardinality(Roots(j, q)) <= i
      BY <1>2, <3>3, <3>4
    <3>6. Roots(l, d) = Roots(j, q) \cup {z}
      BY <1>2, <3>1, <3>2, RootsSplit
    <3> DEFINE R == Roots(j, q)
    <3>7. IsFiniteSet(R)
      BY RootsFinite, Zenon
    <3> HIDE DEF R
    <3>8. Cardinality(R \cup {z}) <= Cardinality(R) + 1 /\ Cardinality(R) \in Nat
          /\ Cardinality(R \cup {z}) \in Nat
      BY <3>7, FS_AddElement, FS_CardinalityType
    <3> QED
      BY <1>2, <3>5, <3>6, <3>8 DEF R, After
  <2> QED
    BY <2>1, <2>2
<1> HIDE DEF Good
<1>3. 0 \in Z /\ \A j \in Nat : j \in Z => j + 1 \in Z
  BY <1>1, <1>2 DEF After
<1>4. Nat \subseteq Z
  <2> HIDE DEF Z
  <2> QED
    BY <1>3, SetInduction
<1>5. Good(n, k)
  BY <1>4 DEF After
<1>6. Cardinality(Roots(k, f)) \in Nat
  BY RootsFinite, FS_CardinalityType
<1> QED
  BY <1>5, <1>6 DEF Good

\* A coefficient of zero at the front adds nothing.
LEMMA RisingDrops ==
  ASSUME NEW n \in Nat, NEW k \in Nat, After(n, k), NEW f, Terms(f, k), f[1] = 0,
         NEW g, \A i \in 1 .. n : g[i] = f[i + 1]
  PROVE  Terms(g, n) /\ \A x \in Element : Rising(k, f, x) = Rising(n, g, x)
<1>1. Terms(g, n) /\ k = n + 1
  BY DEF Terms, After
<1> SUFFICES ASSUME NEW x \in Element PROVE Rising(k, f, x) = Rising(n, g, x)
  BY <1>1
<1> DEFINE Good(j) == Rising(j + 1, f, x) = Rising(j, g, x)
           Z == {j \in Nat : j <= n => Good(j)}
<1>2. Good(0)
  <2> DEFINE o == 1
  <2>1. After(0, o) /\ o \in Nat /\ 0 \in Nat /\ f[o] = 0 /\ Terms(f, o) /\ 0 + 1 = o
    BY <1>1 DEF After, Terms
  <2> HIDE DEF o
  <2>2. Rising(o, f, x) = gsum(f[o], gmult(x, Rising(0, f, x)))
    BY <2>1, RisingNext
  <2>3. Rising(0, f, x) = 0 /\ Rising(0, g, x) = 0 /\ gmult(x, 0) = 0 /\ gsum(0, 0) = 0
    BY ElementIs, RisingNone, ZeroIs
  <2> QED
    BY <2>1, <2>2, <2>3
<1>3. ASSUME NEW j \in Nat, j + 1 <= n, Good(j) PROVE Good(j + 1)
  <2> DEFINE p == j + 1
             q == p + 1
  <2>1. /\ After(j, p) /\ After(p, q) /\ p \in Nat /\ q \in Nat /\ Terms(f, q)
        /\ Terms(g, p) /\ g[p] = f[q]
    BY <1>1, <1>3 DEF After, Terms
  <2> HIDE DEF p, q
  <2>2. Rising(q, f, x) = gsum(f[q], gmult(x, Rising(p, f, x)))
        /\ Rising(p, g, x) = gsum(g[p], gmult(x, Rising(j, g, x)))
    BY <2>1, RisingNext
  <2>3. Rising(p, f, x) = Rising(j, g, x)
    BY <1>3, Zenon DEF p
  <2>4. Rising(q, f, x) = Rising(p, g, x)
    BY <2>1, <2>2, <2>3
  <2> QED
    BY <2>4, Zenon DEF p, q
<1> HIDE DEF Good
<1>4. 0 \in Z /\ \A j \in Nat : j \in Z => j + 1 \in Z
  BY <1>2, <1>3
<1>5. Nat \subseteq Z
  <2> HIDE DEF Z
  <2> QED
    BY <1>4, SetInduction
<1>6. Good(n)
  BY <1>5
<1> QED
  BY <1>1, <1>6 DEF Good

\* As many roots as coefficients allow mean that the first is not zero.
LEMMA RootsFull ==
  ASSUME NEW n \in Nat, NEW k \in Nat, After(n, k), NEW f, Terms(f, k), f[k] # 0
  PROVE  /\ Cardinality(Roots(k, f)) \in Nat /\ Cardinality(Roots(k, f)) <= n
         /\ Cardinality(Roots(k, f)) = n => f[1] # 0
<1> DEFINE Good(j, l) == \A d : Terms(d, l) /\ d[l] # 0 =>
             /\ Cardinality(Roots(l, d)) <= j
             /\ Cardinality(Roots(l, d)) = j => d[1] # 0
           Z == {j \in Nat : Good(j, j + 1)}
<1>1. Good(0, 1)
  <2> SUFFICES ASSUME NEW d, Terms(d, 1), d[1] # 0 PROVE Cardinality(Roots(1, d)) <= 0
    OBVIOUS
  <2> DEFINE o == 1
  <2>1. After(0, o) /\ o \in Nat /\ 0 \in Nat /\ Terms(d, o)
    BY DEF After
  <2>2. Cardinality(Roots(o, d)) <= 0
    BY <2>1, RootsFew
  <2> QED
    BY <2>2
<1>2. ASSUME NEW i \in Nat, NEW j \in Nat, NEW l \in Nat, After(i, j), After(j, l), Good(i, j)
      PROVE  Good(j, l)
  <2> SUFFICES ASSUME NEW d, Terms(d, l), d[l] # 0
               PROVE  /\ Cardinality(Roots(l, d)) <= j
                      /\ Cardinality(Roots(l, d)) = j => d[1] # 0
    OBVIOUS
  <2>1. CASE d[1] # 0
    BY <1>2, <2>1, RootsFew
  <2>2. CASE d[1] = 0
    <3> DEFINE b == [h \in 1 .. j |-> d[h + 1]]
    <3>1. (\A h \in 1 .. j : b[h] = d[h + 1]) /\ b[j] = d[l]
      BY <1>2 DEF After
    <3> HIDE DEF b
    <3>2. Terms(b, j) /\ \A x \in Element : Rising(l, d, x) = Rising(j, b, x)
      BY <1>2, <2>2, <3>1, RisingDrops
    <3>3. Roots(l, d) = Roots(j, b)
      BY <3>2 DEF Roots
    <3>4. Cardinality(Roots(j, b)) <= i
      BY <1>2, <3>1, <3>2
    <3>5. Cardinality(Roots(j, b)) \in Nat
      BY RootsFinite, FS_CardinalityType
    <3> QED
      BY <1>2, <3>3, <3>4, <3>5 DEF After
  <2> QED
    BY <2>1, <2>2
<1> HIDE DEF Good
<1>3. 0 \in Z /\ \A j \in Nat : j \in Z => j + 1 \in Z
  BY <1>1, <1>2 DEF After
<1>4. Nat \subseteq Z
  <2> HIDE DEF Z
  <2> QED
    BY <1>3, SetInduction
<1>5. Good(n, k)
  BY <1>4 DEF After
<1>6. Cardinality(Roots(k, f)) \in Nat
  BY RootsFinite, FS_CardinalityType
<1> QED
  BY <1>5, <1>6 DEF Good

LEMMA QuotientFirst ==
  ASSUME NEW k \in Nat, k >= 1, NEW f, Terms(f, k), NEW z \in Element,
         NEW q, QuotientBy(q, f, k, z)
  PROVE  q[1] = f[1] /\ f[1] \in Element
<1> DEFINE o == 1
<1>1. After(0, o) /\ o \in Nat /\ 0 \in Nat /\ f[o] \in Element /\ Terms(f, o) /\ o \in 1 .. k
  BY DEF After, Terms
<1> HIDE DEF o
<1>2. q[o] = Rising(o, f, z)
  BY <1>1 DEF QuotientBy
<1>3. Rising(o, f, z) = gsum(f[o], gmult(z, Rising(0, f, z)))
  BY <1>1, RisingNext
<1>4. Rising(0, f, z) = 0 /\ gmult(z, 0) = 0 /\ gsum(f[o], 0) = f[o]
  BY <1>1, RisingNone, ZeroIs, Zenon
<1> QED
  BY <1>1, <1>2, <1>3, <1>4 DEF o

\* Where there are as many roots as the degree none is a root twice.
LEMMA RootsSimple ==
  ASSUME NEW n \in Nat, NEW k \in Nat, After(n, k), NEW f, Terms(f, k), f[1] # 0,
         Cardinality(Roots(k, f)) = n, NEW z \in Roots(k, f), NEW q, QuotientBy(q, f, k, z)
  PROVE  Rising(n, q, z) # 0
<1>1. SUFFICES ASSUME Rising(n, q, z) = 0 PROVE FALSE
  OBVIOUS
<1>2. z \in Element /\ z \in Roots(n, q)
  BY <1>1 DEF Roots
<1>3. Roots(k, f) = Roots(n, q)
  BY <1>2, RootsSplit
<1>4. n # 0
  <2>1. IsFiniteSet(Roots(k, f))
    BY RootsFinite, Zenon
  <2> QED
    BY <2>1, FS_EmptySet
<1> DEFINE j == n - 1
<1>5. After(j, n) /\ j \in Nat /\ j < n /\ k >= 1
  BY <1>4 DEF After
<1>6. Terms(q, k)
  BY <1>2, QuotientTerms
<1>7. Terms(q, n) /\ q[1] # 0
  BY <1>2, <1>5, <1>6, TermsFewer, QuotientFirst
<1> HIDE DEF j
<1>8. Cardinality(Roots(n, q)) <= j /\ Cardinality(Roots(n, q)) \in Nat
  BY <1>5, <1>7, RootsFew
<1> QED
  BY <1>3, <1>5, <1>8

\* The terms that the derivative keeps, as multiples of the quotient.
EvenTerms(e, f, n) == \A i \in 1 .. n : e[i] = IF i % 2 = 0 THEN f[i] ELSE 0

LEMMA EvenAreTerms ==
  ASSUME NEW n \in Nat, NEW f, Terms(f, n), NEW e, EvenTerms(e, f, n)
  PROVE  Terms(e, n)
BY ElementIs DEF Terms, EvenTerms

LEMMA DerivativeIs ==
  ASSUME NEW n \in Nat, NEW k \in Nat, After(n, k), NEW f, Terms(f, k),
         NEW z \in Element, NEW q, QuotientBy(q, f, k, z), q[k] = 0,
         NEW e, EvenTerms(e, f, k)
  PROVE  Rising(k, e, z) = gmult(z, Rising(n, q, z))
<1> DEFINE Good(j) == Rising(j, e, z) = IF j % 2 = 0 THEN Rising(j, q, z)
                                        ELSE gsum(Rising(j, q, z), Rising(j, f, z))
           Z == {j \in Nat : j <= k => Good(j)}
<1>1. Terms(q, k) /\ Terms(e, k)
  BY QuotientTerms, EvenAreTerms
<1>2. Good(0)
  BY RisingNone
<1>3. ASSUME NEW j \in Nat, NEW l \in Nat, After(j, l), l <= k, Good(j) PROVE Good(l)
  <2> DEFINE a == f[l]
             F == Rising(j, f, z)
             Q == Rising(j, q, z)
             b == gmult(z, F)
             c == gmult(z, Q)
  <2>1. /\ Terms(f, l) /\ Terms(q, l) /\ Terms(e, l) /\ l \in 1 .. k
        /\ Terms(f, j) /\ Terms(q, j) /\ a \in Element
    BY <1>1, <1>3 DEF After, Terms
  <2>2. F \in Element /\ Q \in Element
    BY <2>1, RisingType
  <2>3. /\ Rising(l, f, z) = gsum(a, b) /\ Rising(l, q, z) = gsum(q[l], c)
        /\ Rising(l, e, z) = gsum(e[l], gmult(z, Rising(j, e, z)))
    BY <1>3, <2>1, RisingNext
  <2>4. q[l] = gsum(a, b)
    BY <2>1, <2>3 DEF QuotientBy
  <2>5. b \in Element /\ c \in Element
    BY <2>2, MultType, Zenon
  <2>6. gsum(a, b) \in Element
    BY <2>1, <2>5, SumType, Zenon
  <2>7. CASE j % 2 = 0
    <3>1. l % 2 # 0 /\ e[l] = 0
      BY <1>3, <2>1, <2>7 DEF After, EvenTerms
    <3>2. Rising(j, e, z) = Q
      BY <1>3, <2>7
    <3>3. Rising(l, e, z) = c
      BY <2>3, <2>5, <3>1, <3>2, ZeroIs, Zenon
    <3>4. gsum(gsum(gsum(a, b), c), gsum(a, b)) = c
      <4>1. gsum(gsum(a, b), c) = gsum(c, gsum(a, b))
        BY <2>5, <2>6, SumCommutes, Zenon
      <4> QED
        BY <2>5, <2>6, <4>1, SumCancels, Zenon
    <3> QED
      BY <2>3, <2>4, <3>1, <3>3, <3>4
  <2>8. CASE j % 2 # 0
    <3>1. l % 2 = 0 /\ e[l] = a
      BY <1>3, <2>1, <2>8 DEF After, EvenTerms
    <3>2. Rising(j, e, z) = gsum(Q, F)
      BY <1>3, <2>8
    <3>3. gmult(z, gsum(Q, F)) = gsum(c, b)
      <4>1. Distributes(z, Q, F)
        BY <2>2, MultDistributes, Zenon
      <4> QED
        BY <4>1, Zenon DEF Distributes
    <3>4. gsum(a, gsum(c, b)) = gsum(gsum(a, b), c)
      <4>1. Associates(a, b, c)
        BY <2>1, <2>5, SumOrder, Zenon
      <4>2. gsum(b, c) = gsum(c, b)
        BY <2>5, SumCommutes, Zenon
      <4> QED
        BY <4>1, <4>2, Zenon DEF Associates
    <3> QED
      BY <2>3, <2>4, <3>1, <3>2, <3>3, <3>4
  <2> QED
    BY <2>7, <2>8
<1> HIDE DEF Good
<1>4. 0 \in Z /\ \A j \in Nat : j \in Z => j + 1 \in Z
  BY <1>2, <1>3 DEF After
<1>5. Nat \subseteq Z
  <2> HIDE DEF Z
  <2> QED
    BY <1>4, SetInduction
<1>6. Good(k)
  BY <1>5
<1> DEFINE Q == Rising(n, q, z)
           c == gmult(z, Q)
<1>7. Rising(k, q, z) = gsum(q[k], c)
  BY <1>1, RisingNext
<1>8. Q \in Element /\ c \in Element
  <2>1. Q \in Element
    BY <1>1, TermsFewer, RisingType
  <2> QED
    BY <2>1, MultType, Zenon
<1>9. Rising(k, f, z) = 0
  BY DEF QuotientBy, After
<1> HIDE DEF Q, c
<1>10. gsum(0, c) = c /\ gsum(c, 0) = c
  BY <1>8, ZeroIs, Zenon
<1>11. Rising(k, e, z) = c
  BY <1>6, <1>7, <1>9, <1>10 DEF Good
<1> QED
  BY <1>11 DEF c, Q

-----------------------------------------------------------------------------
(***************************************************************************)
(* Power sums.  A few places that are not zero, each with a locator of its *)
(* own, cannot have as many power sums in a row that are all zero.         *)
(***************************************************************************)
Powered(c, X, n, k) == [i \in 1 .. n |-> gmult(c[i], gpow(X[i], k))]

PowerSum(c, X, n, k) == Summed(n, Powered(c, X, n, k))

Locators(X, n) ==
  /\ \A i \in 1 .. n : X[i] \in Element /\ X[i] # 0
  /\ \A i, j \in 1 .. n : X[i] = X[j] => i = j

Support(c, n) == {i \in 1 .. n : c[i] # 0}

LEMMA SupportFinite ==
  \A c : \A n \in Nat : IsFiniteSet(Support(c, n)) /\ Cardinality(Support(c, n)) \in Nat
<1> SUFFICES ASSUME NEW c, NEW n \in Nat
             PROVE  IsFiniteSet(Support(c, n)) /\ Cardinality(Support(c, n)) \in Nat
  OBVIOUS
<1>1. IsFiniteSet(1 .. n)
  BY FS_Interval
<1>2. Support(c, n) \subseteq 1 .. n
  BY DEF Support
<1>3. IsFiniteSet(Support(c, n))
  BY <1>1, <1>2, FS_Subset, Zenon
<1> QED
  BY <1>3, FS_CardinalityType

LEMMA PoweredTerms ==
  ASSUME NEW n \in Nat, NEW X, Locators(X, n), NEW c, Terms(c, n), NEW k \in Int
  PROVE  /\ Terms(Powered(c, X, n, k), n)
         /\ PowerSum(c, X, n, k) \in Element
<1>1. Terms(Powered(c, X, n, k), n)
  <2> SUFFICES ASSUME NEW i \in 1 .. n PROVE Powered(c, X, n, k)[i] \in Element
    BY DEF Terms
  <2>1. c[i] \in Element /\ X[i] \in Element /\ X[i] # 0
    BY DEF Terms, Locators
  <2>2. gmult(c[i], gpow(X[i], k)) \in Element
    BY <2>1, PowType, MultType, Zenon
  <2> QED
    BY <2>2 DEF Powered
<1> QED
  BY <1>1, SummedType DEF PowerSum

\* One more factor that is the sum of two locators.
LEMMA FactorSplits ==
  ASSUME NEW c \in Element, NEW x \in Element, NEW y \in Element, NEW w \in Element
  PROVE  gmult(gmult(c, gsum(x, y)), w) = gsum(gmult(c, gmult(x, w)), gmult(y, gmult(c, w)))
<1>1. gsum(x, y) \in Element /\ gmult(x, w) \in Element /\ gmult(y, w) \in Element
  BY SumType, MultType, Zenon
<1>2. Multiplies(c, gsum(x, y), w) /\ Distributes(w, x, y)
      /\ Distributes(c, gmult(x, w), gmult(y, w)) /\ MultLefts(c, y, w)
  BY <1>1, MultOrder, MultDistributes, MultLeft, Zenon
<1>3. gmult(gmult(c, gsum(x, y)), w) = gmult(c, gsum(gmult(x, w), gmult(y, w)))
  BY <1>2, Zenon DEF Multiplies, Distributes
<1>4. gmult(c, gsum(gmult(x, w), gmult(y, w))) = gsum(gmult(c, gmult(x, w)), gmult(c, gmult(y, w)))
  BY <1>2, Zenon DEF Distributes
<1> QED
  BY <1>2, <1>3, <1>4, Zenon DEF MultLefts

\* Multiplied with its locator and another's, each place adds two power sums.
LEMMA PowerSumSplits ==
  ASSUME NEW n \in Nat, NEW X, Locators(X, n), NEW c, Terms(c, n), NEW p \in 1 .. n,
         NEW d, \A i \in 1 .. n : d[i] = gmult(c[i], gsum(X[i], X[p])), NEW k \in Int
  PROVE  /\ Terms(d, n)
         /\ PowerSum(d, X, n, k) = gsum(PowerSum(c, X, n, k + 1), gmult(X[p], PowerSum(c, X, n, k)))
<1> DEFINE z == 1
           y == X[p]
           f == Powered(c, X, n, k + 1)
           g == Powered(c, X, n, k)
           h == Powered(d, X, n, k)
<1>1. /\ z \in Element /\ y \in Element /\ k + 1 \in Int
      /\ \A v \in Element : gmult(z, v) = v
  <2>1. \A v \in Element : gmult(z, v) = v
    BY MultIs
  <2>2. z \in Element
    BY ElementIs
  <2>3. y \in Element
    BY DEF Locators
  <2> QED
    BY <2>1, <2>2, <2>3
<1>2. \A i \in 1 .. n : c[i] \in Element /\ X[i] \in Element /\ X[i] # 0
  BY DEF Terms, Locators
<1>3. Terms(d, n)
  <2> SUFFICES ASSUME NEW i \in 1 .. n PROVE d[i] \in Element
    BY DEF Terms
  <2>1. c[i] \in Element /\ X[i] \in Element
    BY <1>2
  <2> HIDE DEF y
  <2>2. gmult(c[i], gsum(X[i], y)) \in Element
    BY <1>1, <2>1, SumType, MultType, Zenon
  <2> QED
    BY <2>2 DEF y
<1>4. Terms(f, n) /\ Terms(g, n)
  BY <1>1, PoweredTerms
<1> HIDE DEF z
<1>5. Combines(h, n, z, f, y, g)
  <2> SUFFICES ASSUME NEW i \in 1 .. n
               PROVE  h[i] = gsum(gmult(z, f[i]), gmult(y, g[i]))
    BY DEF Combines
  <2> DEFINE ci == c[i]
             x == X[i]
             w == gpow(X[i], k)
  <2>1. ci \in Element /\ x \in Element /\ w \in Element
    <3>1. c[i] \in Element /\ X[i] \in Element /\ X[i] # 0
      BY <1>2
    <3> QED
      BY <3>1, PowType, Zenon
  <2>2. gpow(X[i], k + 1) = gmult(X[i], gpow(X[i], k))
    BY <1>2, PowIs
  <2>3. h[i] = gmult(gmult(ci, gsum(x, y)), w) /\ g[i] = gmult(ci, w)
        /\ f[i] = gmult(ci, gmult(x, w))
    BY <2>2 DEF Powered
  <2> HIDE DEF f, g, h, y, ci, x, w
  <2>4. gmult(gmult(ci, gsum(x, y)), w) = gsum(gmult(ci, gmult(x, w)), gmult(y, gmult(ci, w)))
    BY <1>1, <2>1, FactorSplits
  <2>5. gmult(ci, gmult(x, w)) \in Element
    BY <2>1, MultType, Zenon
  <2>6. gmult(z, gmult(ci, gmult(x, w))) = gmult(ci, gmult(x, w))
    BY <1>1, <2>5
  <2> QED
    BY <2>3, <2>4, <2>6, Zenon
<1> HIDE DEF f, g, h, y
<1>6. Summed(n, h) = gsum(gmult(z, Summed(n, f)), gmult(y, Summed(n, g)))
  BY <1>1, <1>4, <1>5, SummedLinear
<1>7. gmult(z, Summed(n, f)) = Summed(n, f)
  BY <1>1, <1>4, SummedType
<1>8. gsum(gmult(z, Summed(n, f)), gmult(y, Summed(n, g))) = gsum(Summed(n, f), gmult(y, Summed(n, g)))
  BY <1>7
<1> QED
  BY <1>3, <1>6, <1>8 DEF f, g, h, y, PowerSum

\* Places whose power sums k to k + d - 1 are all zero.
Vanishes(c, X, n, k, d) == \A l \in k .. k + d - 1 : PowerSum(c, X, n, l) = 0

LEMMA Vandermonde ==
  ASSUME NEW n \in Nat, NEW X, Locators(X, n), NEW c, Terms(c, n), NEW k \in Int,
         NEW d \in Nat, Cardinality(Support(c, n)) <= d, Vanishes(c, X, n, k, d)
  PROVE  \A i \in 1 .. n : c[i] = 0
<1> DEFINE Good(j) ==
             \A e : Terms(e, n) /\ Cardinality(Support(e, n)) <= j /\ Vanishes(e, X, n, k, j)
                      => \A i \in 1 .. n : e[i] = 0
           Z == {j \in Nat : Good(j)}
<1>1. Good(0)
  <2> SUFFICES ASSUME NEW e, Cardinality(Support(e, n)) <= 0
               PROVE  \A i \in 1 .. n : e[i] = 0
    BY Zenon
  <2>1. IsFiniteSet(Support(e, n)) /\ Cardinality(Support(e, n)) \in Nat
    BY SupportFinite
  <2>2. Cardinality(Support(e, n)) = 0
    BY <2>1
  <2>3. Support(e, n) = {}
    BY <2>1, <2>2, FS_EmptySet
  <2> QED
    BY <2>3 DEF Support
<1>2. ASSUME NEW j \in Nat, NEW l \in Nat, After(j, l), Good(j) PROVE Good(l)
  <2> SUFFICES ASSUME NEW e, Terms(e, n), Cardinality(Support(e, n)) <= l,
                      Vanishes(e, X, n, k, l), Support(e, n) # {}
               PROVE  FALSE
    BY DEF Support
  <2>1. PICK p : p \in Support(e, n)
    OBVIOUS
  <2>2. p \in 1 .. n /\ e[p] # 0 /\ e[p] \in Element /\ X[p] \in Element /\ X[p] # 0
    BY <2>1 DEF Support, Terms, Locators
  <2> DEFINE f == [i \in 1 .. n |-> gmult(e[i], gsum(X[i], X[p]))]
  <2>3. Terms(f, n) /\ \A q \in Int :
          PowerSum(f, X, n, q)
            = gsum(PowerSum(e, X, n, q + 1), gmult(X[p], PowerSum(e, X, n, q)))
    <3>1. \A i \in 1 .. n : f[i] = gmult(e[i], gsum(X[i], X[p]))
      OBVIOUS
    <3> HIDE DEF f
    <3> QED
      BY <2>2, <3>1, PowerSumSplits
  <2>4. f[p] = 0
    <3>1. gsum(X[p], X[p]) = 0 /\ gmult(e[p], 0) = 0
      BY <2>2, SumZero, ZeroIs
    <3> QED
      BY <2>2, <3>1
  <2>5. \A i \in 1 .. n : e[i] = 0 => f[i] = 0
    <3> SUFFICES ASSUME NEW i \in 1 .. n, e[i] = 0 PROVE f[i] = 0
      OBVIOUS
    <3>1. gsum(X[i], X[p]) \in Element
      BY <2>2, SumType DEF Locators
    <3>2. gmult(0, gsum(X[i], X[p])) = 0
      BY <3>1, ZeroIs, Zenon
    <3> QED
      BY <3>2
  <2>6. \A i \in 1 .. n : f[i] = 0 => e[i] = 0 \/ i = p
    <3> SUFFICES ASSUME NEW i \in 1 .. n, f[i] = 0 PROVE e[i] = 0 \/ i = p
      OBVIOUS
    <3>1. e[i] \in Element /\ X[i] \in Element
      BY DEF Terms, Locators
    <3>2. gsum(X[i], X[p]) \in Element
      BY <2>2, <3>1, SumType, Zenon
    <3>3. e[i] = 0 \/ gsum(X[i], X[p]) = 0
      BY <3>1, <3>2, MultIs
    <3>4. gsum(X[i], X[p]) = 0 => X[i] = X[p]
      BY <2>2, <3>1, SumCancels
    <3> QED
      BY <2>2, <3>3, <3>4 DEF Locators
  <2> HIDE DEF f
  <2>7. Cardinality(Support(f, n)) <= j
    <3>1. Support(f, n) = Support(e, n) \ {p}
      BY <2>2, <2>4, <2>5, <2>6 DEF Support
    <3>2. IsFiniteSet(Support(e, n)) /\ Cardinality(Support(e, n)) \in Nat
      BY SupportFinite
    <3>3. Cardinality(Support(e, n) \ {p}) = Cardinality(Support(e, n)) - 1
      BY <2>1, <3>2, FS_RemoveElement
    <3> QED
      BY <1>2, <3>1, <3>2, <3>3 DEF After
  <2>8. Vanishes(f, X, n, k, j)
    <3> SUFFICES ASSUME NEW q \in k .. k + j - 1 PROVE PowerSum(f, X, n, q) = 0
      BY DEF Vanishes
    <3>1. q \in Int /\ q \in k .. k + l - 1 /\ q + 1 \in k .. k + l - 1
      BY <1>2 DEF After
    <3>2. PowerSum(e, X, n, q) = 0 /\ PowerSum(e, X, n, q + 1) = 0
      BY <3>1 DEF Vanishes
    <3>3. gmult(X[p], 0) = 0 /\ gsum(0, 0) = 0
      BY <2>2, ZeroIs, SumZero, ElementIs
    <3> QED
      BY <2>3, <3>1, <3>2, <3>3
  <2>9. \A i \in 1 .. n : f[i] = 0
    BY <1>2, <2>3, <2>7, <2>8, Zenon
  <2>10. \A i \in 1 .. n : i # p => e[i] = 0
    BY <2>6, <2>9
  <2>11. PowerSum(e, X, n, k) = gmult(e[p], gpow(X[p], k))
    <3> DEFINE h == Powered(e, X, n, k)
    <3>1. Terms(h, n)
      BY PoweredTerms
    <3>2. \A i \in 1 .. n : i # p => h[i] = 0
      <4> SUFFICES ASSUME NEW i \in 1 .. n, i # p PROVE h[i] = 0
        OBVIOUS
      <4>1. e[i] = 0 /\ X[i] \in Element /\ X[i] # 0
        BY <2>10 DEF Locators
      <4>2. gpow(X[i], k) \in Element
        BY <4>1, PowType, Zenon
      <4>3. gmult(0, gpow(X[i], k)) = 0
        BY <4>2, ZeroIs, Zenon
      <4> QED
        BY <4>1, <4>3 DEF Powered
    <3>3. h[p] = gmult(e[p], gpow(X[p], k))
      BY <2>2 DEF Powered
    <3> HIDE DEF h
    <3>4. Summed(n, h) = h[p]
      BY <2>2, <3>1, <3>2, SummedOne
    <3> QED
      BY <3>3, <3>4 DEF h, PowerSum
  <2>12. PowerSum(e, X, n, k) = 0
    BY <1>2 DEF Vanishes, After
  <2>13. gpow(X[p], k) \in Element /\ gpow(X[p], k) # 0
    BY <2>2, PowType, Zenon
  <2> QED
    BY <2>2, <2>11, <2>12, <2>13, MultIs
<1> HIDE DEF Good
<1>3. 0 \in Z /\ \A j \in Nat : j \in Z => j + 1 \in Z
  BY <1>1, <1>2 DEF After
<1>4. Nat \subseteq Z
  <2> HIDE DEF Z
  <2> QED
    BY <1>3, SetInduction
<1>5. Good(d)
  BY <1>4
<1> QED
  BY <1>5 DEF Good

\* A sum of power sums in falling order, each with a coefficient, is the value
\* of the polynomial of these coefficients at each locator, times its power.
Falling(lam, c, X, n, k, d) == [j \in 1 .. d |-> gmult(lam[j], PowerSum(c, X, n, k - j + 1))]

Valued(lam, c, X, n, k, d) ==
  [i \in 1 .. n |-> gmult(c[i], gmult(gpow(X[i], k - d + 1), Rising(d, lam, X[i])))]

LEMMA FallingTerms ==
  ASSUME NEW n \in Nat, NEW X, Locators(X, n), NEW c, Terms(c, n), NEW k \in Int,
         NEW d \in Nat, NEW lam, Terms(lam, d)
  PROVE  Terms(Falling(lam, c, X, n, k, d), d) /\ Terms(Valued(lam, c, X, n, k, d), n)
<1>1. ASSUME NEW j \in 1 .. d PROVE Falling(lam, c, X, n, k, d)[j] \in Element
  <2>1. lam[j] \in Element /\ k - j + 1 \in Int
    BY DEF Terms
  <2>2. PowerSum(c, X, n, k - j + 1) \in Element
    BY <2>1, PoweredTerms
  <2>3. gmult(lam[j], PowerSum(c, X, n, k - j + 1)) \in Element
    BY <2>1, <2>2, MultType, Zenon
  <2> QED
    BY <2>3 DEF Falling
<1>2. ASSUME NEW i \in 1 .. n PROVE Valued(lam, c, X, n, k, d)[i] \in Element
  <2>1. c[i] \in Element /\ X[i] \in Element /\ X[i] # 0 /\ k - d + 1 \in Int
    BY DEF Terms, Locators
  <2>2. gpow(X[i], k - d + 1) \in Element /\ Rising(d, lam, X[i]) \in Element
    BY <2>1, PowType, RisingType
  <2>3. gmult(c[i], gmult(gpow(X[i], k - d + 1), Rising(d, lam, X[i]))) \in Element
    BY <2>1, <2>2, MultType, Zenon
  <2> QED
    BY <2>3 DEF Valued
<1> QED
  BY <1>1, <1>2 DEF Terms

\* The value of one place, with one coefficient more.
LEMMA ValueSplits ==
  ASSUME NEW c \in Element, NEW x \in Element, NEW v \in Element, NEW b \in Element,
         NEW w \in Element
  PROVE  gmult(c, gmult(w, gsum(b, gmult(x, v))))
           = gsum(gmult(b, gmult(c, w)), gmult(c, gmult(gmult(x, w), v)))
<1>1. /\ gmult(x, v) \in Element /\ gmult(w, b) \in Element
      /\ gmult(w, gmult(x, v)) \in Element /\ gmult(c, w) \in Element
  BY MultType, Zenon
<1>2. /\ Distributes(w, b, gmult(x, v)) /\ Distributes(c, gmult(w, b), gmult(w, gmult(x, v)))
      /\ MultLefts(w, x, v) /\ Multiplies(x, w, v) /\ Multiplies(c, w, b)
  BY <1>1, MultDistributes, MultLeft, MultOrder, Zenon
<1>3. gmult(c, gmult(w, gsum(b, gmult(x, v))))
        = gsum(gmult(c, gmult(w, b)), gmult(c, gmult(w, gmult(x, v))))
  BY <1>2, Zenon DEF Distributes
<1>4. gmult(w, gmult(x, v)) = gmult(gmult(x, w), v)
  BY <1>2, Zenon DEF MultLefts, Multiplies
<1>5. gmult(c, gmult(w, b)) = gmult(gmult(c, w), b)
  BY <1>2, Zenon DEF Multiplies
<1>6. gmult(gmult(c, w), b) = gmult(b, gmult(c, w))
  BY <1>1, MultCommutes, Zenon
<1> QED
  BY <1>3, <1>4, <1>5, <1>6

LEMMA FallingValued ==
  ASSUME NEW n \in Nat, NEW X, Locators(X, n), NEW c, Terms(c, n), NEW k \in Int,
         NEW d \in Nat, NEW lam, Terms(lam, d)
  PROVE  Summed(d, Falling(lam, c, X, n, k, d)) = Summed(n, Valued(lam, c, X, n, k, d))
<1> DEFINE Good(j) == Summed(j, Falling(lam, c, X, n, k, j)) = Summed(n, Valued(lam, c, X, n, k, j))
           Z == {j \in Nat : j <= d => Good(j)}
<1>1. Good(0)
  <2>1. Summed(0, Falling(lam, c, X, n, k, 0)) = 0
    BY SummedNone
  <2>2. \A i \in 1 .. n : Valued(lam, c, X, n, k, 0)[i] = 0
    <3> SUFFICES ASSUME NEW i \in 1 .. n PROVE Valued(lam, c, X, n, k, 0)[i] = 0
      OBVIOUS
    <3>1. c[i] \in Element /\ X[i] \in Element /\ X[i] # 0 /\ k - 0 + 1 \in Int
      BY DEF Terms, Locators
    <3>2. Rising(0, lam, X[i]) = 0 /\ gpow(X[i], k - 0 + 1) \in Element
      BY <3>1, RisingNone, PowType, Zenon
    <3>3. gmult(c[i], gmult(gpow(X[i], k - 0 + 1), 0)) = 0
      BY <3>1, <3>2, ZeroIs, Zenon
    <3> QED
      BY <3>2, <3>3 DEF Valued
  <2>3. Summed(n, Valued(lam, c, X, n, k, 0)) = 0
    BY <2>2, SummedZero
  <2> QED
    BY <2>1, <2>3
<1>2. ASSUME NEW j \in Nat, NEW l \in Nat, After(j, l), l <= d, Good(j) PROVE Good(l)
  <2> DEFINE b == lam[l]
             z == 1
             P == Powered(c, X, n, k - j)
             V == Valued(lam, c, X, n, k, j)
             W == Valued(lam, c, X, n, k, l)
             F == Falling(lam, c, X, n, k, j)
             G == Falling(lam, c, X, n, k, l)
  <2>1. /\ Terms(lam, l) /\ Terms(lam, j) /\ b \in Element /\ l \in 1 .. l
        /\ k - l + 1 = k - j /\ k - j \in Int /\ k - j + 1 \in Int
    BY <1>2 DEF Terms, After
  <2>2. Terms(P, n) /\ Terms(V, n) /\ Terms(G, l)
    BY <2>1, PoweredTerms, FallingTerms
  <2>3. z \in Element /\ \A v \in Element : gmult(z, v) = v
    BY ElementIs, MultIs
  <2> HIDE DEF z
  <2>4. Combines(W, n, b, P, z, V)
    <3> SUFFICES ASSUME NEW i \in 1 .. n
                 PROVE  W[i] = gsum(gmult(b, P[i]), gmult(z, V[i]))
      BY DEF Combines
    <3> DEFINE ci == c[i]
               x == X[i]
               w == gpow(X[i], k - j)
               v == Rising(j, lam, X[i])
    <3>1. c[i] \in Element /\ X[i] \in Element /\ X[i] # 0
      BY DEF Terms, Locators
    <3>2. ci \in Element /\ x \in Element /\ w \in Element /\ v \in Element
      BY <2>1, <3>1, PowType, RisingType
    <3>3. gpow(X[i], k - j + 1) = gmult(x, w)
      BY <2>1, <3>1, PowIs
    <3>4. Rising(l, lam, X[i]) = gsum(b, gmult(x, v))
      BY <1>2, <2>1, <3>1, RisingNext
    <3>5. P[i] = gmult(ci, w) /\ V[i] = gmult(ci, gmult(gmult(x, w), v))
          /\ W[i] = gmult(ci, gmult(w, gsum(b, gmult(x, v))))
      BY <2>1, <3>3, <3>4 DEF Powered, Valued
    <3> HIDE DEF P, V, W, b, ci, x, w, v
    <3>6. gmult(ci, gmult(w, gsum(b, gmult(x, v))))
            = gsum(gmult(b, gmult(ci, w)), gmult(ci, gmult(gmult(x, w), v)))
      BY <2>1, <3>2, ValueSplits
    <3>7. gmult(ci, gmult(gmult(x, w), v)) \in Element
      BY <3>2, MultType, Zenon
    <3>8. gmult(z, gmult(ci, gmult(gmult(x, w), v))) = gmult(ci, gmult(gmult(x, w), v))
      BY <2>3, <3>7
    <3> QED
      BY <3>5, <3>6, <3>8
  <2>5. Summed(l, G) = gsum(Summed(j, F), gmult(b, Summed(n, P)))
    <3>1. Summed(l, G) = gsum(Summed(j, G), G[l])
      BY <1>2, <2>2, SummedNext
    <3>2. \A i \in 1 .. j : G[i] = F[i]
      BY <1>2 DEF Falling, After
    <3>3. Summed(j, G) = Summed(j, F)
      BY <3>2, SummedSame
    <3>4. G[l] = gmult(b, Summed(n, P))
      BY <2>1 DEF Falling, PowerSum
    <3> HIDE DEF F, G, b, P
    <3> QED
      BY <3>1, <3>3, <3>4
  <2>6. Summed(j, F) = Summed(n, V)
    BY <1>2
  <2> HIDE DEF b, P, V, W, F, G
  <2>7. Summed(n, W) = gsum(gmult(b, Summed(n, P)), gmult(z, Summed(n, V)))
    BY <2>1, <2>2, <2>3, <2>4, SummedLinear
  <2>8. Summed(n, P) \in Element /\ Summed(n, V) \in Element
    BY <2>2, SummedType
  <2>9. gmult(z, Summed(n, V)) = Summed(n, V) /\ gmult(b, Summed(n, P)) \in Element
    BY <2>1, <2>3, <2>8, MultType
  <2>10. gsum(Summed(n, V), gmult(b, Summed(n, P))) = gsum(gmult(b, Summed(n, P)), Summed(n, V))
    BY <2>8, <2>9, SumCommutes, Zenon
  <2> QED
    BY <2>5, <2>6, <2>7, <2>9, <2>10 DEF W, G
<1> HIDE DEF Good
<1>3. 0 \in Z /\ \A j \in Nat : j \in Z => j + 1 \in Z
  BY <1>1, <1>2 DEF After
<1>4. Nat \subseteq Z
  <2> HIDE DEF Z
  <2> QED
    BY <1>3, SetInduction
<1>5. Good(d)
  BY <1>4
<1> QED
  BY <1>5 DEF Good

\* Sums of sums, either way round.
Weighed(a, M, n, i) == [j \in 1 .. n |-> gmult(a[j], M[j][i])]

\* The rows of M, and what is summed by rows and by columns.
RowTerms(M, r, n) == \A j \in 1 .. r : Terms(M[j], n)

ByRows(f, a, d, M, r, n) ==
  \A j \in 1 .. r : f[j] = gmult(a[j], Summed(n, [i \in 1 .. n |-> gmult(d[i], M[j][i])]))

ByColumns(h, a, d, M, r, n) ==
  \A i \in 1 .. n : h[i] = gmult(d[i], Summed(r, Weighed(a, M, r, i)))

LEMMA SumsSwap ==
  ASSUME NEW n \in Nat, NEW r \in Nat, NEW a, Terms(a, r), NEW d, Terms(d, n),
         NEW M, RowTerms(M, r, n), NEW f, ByRows(f, a, d, M, r, n),
         NEW h, ByColumns(h, a, d, M, r, n)
  PROVE  Terms(f, r) /\ Terms(h, n) /\ Summed(r, f) = Summed(n, h)
<1> DEFINE Row(j) == [i \in 1 .. n |-> gmult(d[i], M[j][i])]
           Column(j) == [i \in 1 .. n |-> gmult(d[i], Summed(j, Weighed(a, M, j, i)))]
           Good(j) == Terms(Column(j), n) /\ Summed(j, f) = Summed(n, Column(j))
           Z == {j \in Nat : j <= r => Good(j)}
<1>1. ASSUME NEW j \in 1 .. r PROVE Terms(Row(j), n) /\ Summed(n, Row(j)) \in Element
  <2>1. Terms(Row(j), n)
    <3> SUFFICES ASSUME NEW i \in 1 .. n PROVE Row(j)[i] \in Element
      BY DEF Terms
    <3>1. d[i] \in Element /\ M[j][i] \in Element
      BY DEF Terms, RowTerms
    <3>2. gmult(d[i], M[j][i]) \in Element
      BY <3>1, MultType, Zenon
    <3> QED
      BY <3>2
  <2> HIDE DEF Row
  <2> QED
    BY <2>1, SummedType
<1>2. Terms(f, r)
  <2> SUFFICES ASSUME NEW j \in 1 .. r PROVE f[j] \in Element
    BY DEF Terms
  <2>1. a[j] \in Element /\ Summed(n, Row(j)) \in Element /\ f[j] = gmult(a[j], Summed(n, Row(j)))
    BY <1>1 DEF Terms, ByRows
  <2> HIDE DEF Row
  <2>2. gmult(a[j], Summed(n, Row(j))) \in Element
    BY <2>1, MultType, Zenon
  <2> QED
    BY <2>1, <2>2
<1>3. ASSUME NEW j \in Nat, j <= r, NEW i \in 1 .. n
      PROVE  /\ Terms(Weighed(a, M, j, i), j) /\ Summed(j, Weighed(a, M, j, i)) \in Element
             /\ d[i] \in Element
  <2>1. Terms(Weighed(a, M, j, i), j)
    <3> SUFFICES ASSUME NEW q \in 1 .. j PROVE Weighed(a, M, j, i)[q] \in Element
      BY DEF Terms
    <3>1. a[q] \in Element /\ M[q][i] \in Element
      BY <1>3 DEF Terms, RowTerms
    <3>2. gmult(a[q], M[q][i]) \in Element
      BY <3>1, MultType, Zenon
    <3> QED
      BY <3>2 DEF Weighed
  <2> QED
    BY <1>3, <2>1, SummedType DEF Terms
<1>4. Good(0)
  <2>1. \A i \in 1 .. n : Column(0)[i] = 0
    <3> SUFFICES ASSUME NEW i \in 1 .. n PROVE Column(0)[i] = 0
      OBVIOUS
    <3>1. Summed(0, Weighed(a, M, 0, i)) = 0 /\ d[i] \in Element
      BY SummedNone DEF Terms
    <3>2. gmult(d[i], 0) = 0
      BY <3>1, ZeroIs, Zenon
    <3> QED
      BY <3>1, <3>2
  <2> HIDE DEF Column
  <2>2. Terms(Column(0), n) /\ Summed(n, Column(0)) = 0
    BY <2>1, SummedZero
  <2> QED
    BY <2>2, SummedNone
<1>5. ASSUME NEW j \in Nat, NEW l \in Nat, After(j, l), l <= r, Good(j) PROVE Good(l)
  <2> DEFINE z == 1
             b == a[l]
  <2>1. z \in Element /\ \A v \in Element : gmult(z, v) = v
    BY ElementIs, MultIs
  <2>2. b \in Element /\ l \in 1 .. r /\ j <= r /\ l \in 1 .. l
    BY <1>5 DEF Terms, After
  <2>3. Terms(Row(l), n) /\ f[l] = gmult(b, Summed(n, Row(l)))
    BY <1>1, <2>2 DEF ByRows
  <2> HIDE DEF z
  <2>4. Combines(Column(l), n, z, Column(j), b, Row(l))
    <3> SUFFICES ASSUME NEW i \in 1 .. n
                 PROVE  Column(l)[i] = gsum(gmult(z, Column(j)[i]), gmult(b, Row(l)[i]))
      BY DEF Combines
    <3> DEFINE di == d[i]
               u == Summed(j, Weighed(a, M, j, i))
               w == M[l][i]
    <3>1. di \in Element /\ u \in Element /\ w \in Element /\ Terms(Weighed(a, M, l, i), l)
      BY <1>3, <1>5, <2>2 DEF Terms, RowTerms
    <3>2. Summed(l, Weighed(a, M, l, i)) = gsum(u, gmult(b, w))
      <4>1. Summed(l, Weighed(a, M, l, i)) = gsum(Summed(j, Weighed(a, M, l, i)), Weighed(a, M, l, i)[l])
        BY <1>5, <3>1, SummedNext
      <4>2. \A q \in 1 .. j : Weighed(a, M, l, i)[q] = Weighed(a, M, j, i)[q]
        BY <1>5 DEF Weighed, After
      <4>3. Summed(j, Weighed(a, M, l, i)) = u
        BY <4>2, SummedSame
      <4>4. Weighed(a, M, l, i)[l] = gmult(b, w)
        BY <2>2 DEF Weighed
      <4> HIDE DEF u, w, b
      <4> QED
        BY <4>1, <4>3, <4>4
    <3>3. Column(l)[i] = gmult(di, gsum(u, gmult(b, w))) /\ Column(j)[i] = gmult(di, u)
          /\ Row(l)[i] = gmult(di, w)
      BY <3>2
    <3> HIDE DEF di, u, w, b, Row, Column
    <3>4. gmult(b, w) \in Element /\ gmult(di, u) \in Element
      BY <2>2, <3>1, MultType, Zenon
    <3>5. Distributes(di, u, gmult(b, w)) /\ MultLefts(di, b, w)
      BY <2>2, <3>1, <3>4, MultDistributes, MultLeft, Zenon
    <3>6. gmult(di, gsum(u, gmult(b, w))) = gsum(gmult(di, u), gmult(di, gmult(b, w)))
      BY <3>5, Zenon DEF Distributes
    <3>7. gmult(di, gmult(b, w)) = gmult(b, gmult(di, w))
      BY <3>5, Zenon DEF MultLefts
    <3>8. gmult(z, gmult(di, u)) = gmult(di, u)
      BY <2>1, <3>4
    <3> QED
      BY <3>3, <3>6, <3>7, <3>8
  <2> HIDE DEF b, Row, Column
  <2>5. Terms(Column(l), n)
    BY <1>5, <2>1, <2>2, <2>3, <2>4, CombinedTerms
  <2>6. Summed(n, Column(l)) = gsum(gmult(z, Summed(n, Column(j))), gmult(b, Summed(n, Row(l))))
    BY <1>5, <2>1, <2>2, <2>3, <2>4, SummedLinear
  <2>7. gmult(z, Summed(n, Column(j))) = Summed(n, Column(j))
    BY <1>5, <2>1, SummedType
  <2>8. Summed(l, f) = gsum(Summed(j, f), f[l])
    <3>1. Terms(f, l)
      BY <1>2, <1>5 DEF Terms
    <3> QED
      BY <1>5, <3>1, SummedNext
  <2> QED
    BY <1>5, <2>3, <2>5, <2>6, <2>7, <2>8
<1>6. Good(r)
  <2> HIDE DEF Good
  <2>1. 0 \in Z
    BY <1>4
  <2>2. ASSUME NEW j \in Nat, j \in Z PROVE j + 1 \in Z
    <3>1. j + 1 \in Nat /\ After(j, j + 1) /\ (j + 1 <= r => j <= r)
      BY DEF After
    <3>2. j <= r => Good(j)
      BY <2>2
    <3>3. j + 1 <= r => Good(j + 1)
      BY <1>5, <3>1, <3>2, Zenon
    <3> QED
      BY <3>1, <3>3
  <2>3. 0 \in Z /\ \A j \in Nat : j \in Z => j + 1 \in Z
    BY <2>1, <2>2
  <2>4. Nat \subseteq Z
    <3> HIDE DEF Z
    <3> QED
      BY <2>3, SetInduction
  <2> QED
    BY <2>4
<1>7. \A i \in 1 .. n : h[i] = Column(r)[i]
  BY DEF ByColumns
<1> HIDE DEF Column
<1>8. Summed(n, h) = Summed(n, Column(r)) /\ Terms(h, n)
  BY <1>6, <1>7, SummedSame DEF Terms
<1> QED
  BY <1>2, <1>6, <1>8

-----------------------------------------------------------------------------
(***************************************************************************)
(* Values of polynomials that are put together of others.                  *)
(***************************************************************************)
LEMMA SumLeft == \A a, b, c \in Element : gsum(a, gsum(b, c)) = gsum(b, gsum(a, c))
<1> SUFFICES ASSUME NEW a \in Element, NEW b \in Element, NEW c \in Element
             PROVE  gsum(a, gsum(b, c)) = gsum(b, gsum(a, c))
  OBVIOUS
<1>1. Associates(a, b, c) /\ Associates(b, a, c) /\ gsum(a, b) = gsum(b, a)
  BY SumOrder, SumCommutes, Zenon
<1> QED
  BY <1>1, Zenon DEF Associates

\* The value of a sum of multiples is the sum of the multiples of the values.
LEMMA RisingLinear ==
  ASSUME NEW n \in Nat, NEW f, NEW g, NEW h, NEW a \in Element, NEW b \in Element,
         Terms(f, n), Terms(g, n), Combines(h, n, a, f, b, g), NEW x \in Element
  PROVE  Rising(n, h, x) = gsum(gmult(a, Rising(n, f, x)), gmult(b, Rising(n, g, x)))
<1> DEFINE Good(k) == Rising(k, h, x) = gsum(gmult(a, Rising(k, f, x)), gmult(b, Rising(k, g, x)))
           Z == {k \in Nat : k <= n => Good(k)}
<1>1. Good(0)
  <2>1. gmult(a, 0) = 0 /\ gmult(b, 0) = 0 /\ gsum(0, 0) = 0
    BY MultIs, SumZero, ElementIs
  <2> QED
    BY <2>1, RisingNone
<1>2. ASSUME NEW j \in Nat, NEW k \in Nat, After(j, k), k <= n, Good(j) PROVE Good(k)
  <2>1. Terms(f, k) /\ Terms(g, k) /\ Combines(h, k, a, f, b, g) /\ k \in 1 .. n
    BY <1>2 DEF Terms, Combines, After
  <2>2. Terms(h, k)
    BY <2>1, CombinedTerms
  <2> DEFINE u == Rising(j, f, x)
             v == Rising(j, g, x)
             y == f[k]
             z == g[k]
  <2>3. Terms(f, j) /\ Terms(g, j) /\ y \in Element /\ z \in Element
    BY <1>2, <2>1, TermsFewer
  <2>4. u \in Element /\ v \in Element
    BY <2>3, RisingType
  <2>5. /\ Rising(k, f, x) = gsum(y, gmult(x, u)) /\ Rising(k, g, x) = gsum(z, gmult(x, v))
        /\ Rising(k, h, x) = gsum(h[k], gmult(x, Rising(j, h, x)))
    BY <1>2, <2>1, <2>2, RisingNext
  <2>6. h[k] = gsum(gmult(a, y), gmult(b, z)) /\ Rising(j, h, x) = gsum(gmult(a, u), gmult(b, v))
    BY <1>2, <2>1 DEF Combines
  <2> HIDE DEF u, v, y, z
  <2>7. /\ gmult(a, u) \in Element /\ gmult(b, v) \in Element
        /\ gmult(x, u) \in Element /\ gmult(x, v) \in Element
        /\ gmult(a, y) \in Element /\ gmult(b, z) \in Element
    BY <2>3, <2>4, MultType, Zenon
  <2>8. gmult(a, gmult(x, u)) \in Element /\ gmult(b, gmult(x, v)) \in Element
    BY <2>7, MultType, Zenon
  <2>9. /\ Distributes(x, gmult(a, u), gmult(b, v)) /\ MultLefts(x, a, u) /\ MultLefts(x, b, v)
        /\ Distributes(a, y, gmult(x, u)) /\ Distributes(b, z, gmult(x, v))
        /\ Swaps(gmult(a, y), gmult(b, z), gmult(a, gmult(x, u)), gmult(b, gmult(x, v)))
    BY <2>3, <2>4, <2>7, <2>8, MultDistributes, MultLeft, SumSwaps, Zenon
  <2>10. gmult(x, gsum(gmult(a, u), gmult(b, v))) = gsum(gmult(a, gmult(x, u)), gmult(b, gmult(x, v)))
    BY <2>9, Zenon DEF Distributes, MultLefts
  <2>11. gsum(gsum(gmult(a, y), gmult(b, z)), gsum(gmult(a, gmult(x, u)), gmult(b, gmult(x, v))))
           = gsum(gsum(gmult(a, y), gmult(a, gmult(x, u))), gsum(gmult(b, z), gmult(b, gmult(x, v))))
    BY <2>9, Zenon DEF Swaps
  <2>12. gmult(a, gsum(y, gmult(x, u))) = gsum(gmult(a, y), gmult(a, gmult(x, u)))
         /\ gmult(b, gsum(z, gmult(x, v))) = gsum(gmult(b, z), gmult(b, gmult(x, v)))
    BY <2>9, Zenon DEF Distributes
  <2> QED
    BY <2>5, <2>6, <2>10, <2>11, <2>12
<1> HIDE DEF Good
<1>3. 0 \in Z /\ \A j \in Nat : j \in Z => j + 1 \in Z
  BY <1>1, <1>2 DEF After
<1>4. Nat \subseteq Z
  <2> HIDE DEF Z
  <2> QED
    BY <1>3, SetInduction
<1>5. Good(n)
  BY <1>4
<1> QED
  BY <1>5 DEF Good

\* g is f from its place d + 1 on.
Trails(g, f, d, n) == \A i \in 1 .. n : g[i] = f[d + i]

\* l is the sum of d and n; a name, so that it can be a term like another.
Together(d, n, l) == d \in Nat /\ n \in Nat /\ l \in Nat /\ l = d + n

\* The first coefficients with the others after them.
LEMMA RisingJoins ==
  ASSUME NEW d \in Nat, NEW n \in Nat, NEW l \in Nat, Together(d, n, l),
         NEW f, Terms(f, l), NEW x \in Element, x # 0, NEW g, Trails(g, f, d, n)
  PROVE  /\ Terms(g, n) /\ Terms(f, d)
         /\ Rising(l, f, x) = gsum(gmult(gpow(x, n), Rising(d, f, x)), Rising(n, g, x))
<1> DEFINE R == Rising(d, f, x)
           Good(k) == Rising(d + k, f, x) = gsum(gmult(gpow(x, k), R), Rising(k, g, x))
           Z == {k \in Nat : k <= n => Good(k)}
<1>1. Terms(g, n) /\ Terms(f, d) /\ Terms(f, d + n) /\ l = d + n
  BY DEF Terms, Trails, Together
<1>2. R \in Element
  BY <1>1, RisingType
<1>3. Good(0)
  <2>1. gpow(x, 0) = 1 /\ gmult(1, R) = R /\ gsum(R, 0) = R /\ d + 0 = d
    <3> HIDE DEF R
    <3>1. gpow(x, 0) = 1
      BY PowIs, Zenon
    <3>2. gmult(1, R) = R
      BY <1>2, MultIs, Zenon
    <3>3. gsum(R, 0) = R
      BY <1>2, ZeroIs, Zenon
    <3> QED
      BY <3>1, <3>2, <3>3
  <2>2. Rising(0, g, x) = 0
    BY RisingNone
  <2> HIDE DEF R
  <2>3. gsum(gmult(gpow(x, 0), R), Rising(0, g, x)) = R
    BY <2>1, <2>2
  <2> QED
    BY <2>1, <2>3 DEF R
<1>4. ASSUME NEW j \in Nat, NEW k \in Nat, After(j, k), k <= n, Good(j) PROVE Good(k)
  <2> DEFINE p == gpow(x, j)
             G == Rising(j, g, x)
             b == g[k]
  <2>1. /\ After(d + j, d + k) /\ d + j \in Nat /\ d + k \in Nat /\ Terms(f, d + k) /\ k \in 1 .. n
        /\ Terms(g, k) /\ Terms(g, j) /\ j \in Int /\ j + 1 = k
    BY <1>1, <1>4 DEF After, Terms
  <2>2. p \in Element /\ G \in Element /\ b \in Element /\ f[d + k] = b
    BY <2>1, PowType, RisingType DEF Terms, Trails
  <2>3. Rising(d + k, f, x) = gsum(f[d + k], gmult(x, Rising(d + j, f, x)))
    BY <2>1, RisingNext
  <2>4. Rising(k, g, x) = gsum(b, gmult(x, G))
    BY <1>4, <2>1, RisingNext
  <2>5. gpow(x, k) = gmult(x, p)
    BY <2>1, PowIs
  <2>6. Rising(d + j, f, x) = gsum(gmult(p, R), G)
    BY <1>4
  <2> HIDE DEF p, G, b, R
  <2>7. gmult(p, R) \in Element /\ gmult(x, G) \in Element /\ gmult(x, p) \in Element
    BY <1>2, <2>2, MultType, Zenon
  <2>8. gmult(gmult(x, p), R) \in Element
    BY <1>2, <2>7, MultType, Zenon
  <2>9. Distributes(x, gmult(p, R), G) /\ Multiplies(x, p, R)
    BY <1>2, <2>2, <2>7, MultDistributes, MultOrder, Zenon
  <2>10. gmult(x, gsum(gmult(p, R), G)) = gsum(gmult(gmult(x, p), R), gmult(x, G))
    BY <2>9, Zenon DEF Distributes, Multiplies
  <2>11. gsum(b, gsum(gmult(gmult(x, p), R), gmult(x, G)))
           = gsum(gmult(gmult(x, p), R), gsum(b, gmult(x, G)))
    BY <2>2, <2>7, <2>8, SumLeft, Zenon
  <2> QED
    BY <2>2, <2>3, <2>4, <2>5, <2>6, <2>10, <2>11
<1> HIDE DEF Good, R
<1>5. 0 \in Z /\ \A j \in Nat : j \in Z => j + 1 \in Z
  BY <1>3, <1>4 DEF After
<1>6. Nat \subseteq Z
  <2> HIDE DEF Z
  <2> QED
    BY <1>5, SetInduction
<1>7. Good(n)
  BY <1>6
<1> QED
  BY <1>1, <1>7, Zenon DEF Good, R

LEMMA RisingOnce ==
  ASSUME NEW f, f[1] \in Element, NEW x \in Element
  PROVE  Rising(1, f, x) = f[1]
<1> DEFINE o == 1
<1>1. After(0, o) /\ o \in Nat /\ 0 \in Nat /\ f[o] \in Element /\ Terms(f, o)
  BY DEF After, Terms
<1> HIDE DEF o
<1>2. Rising(o, f, x) = gsum(f[o], gmult(x, Rising(0, f, x)))
  BY <1>1, RisingNext
<1>3. Rising(0, f, x) = 0 /\ gmult(x, 0) = 0 /\ gsum(f[o], 0) = f[o]
  BY <1>1, RisingNone, ZeroIs, Zenon
<1> QED
  BY <1>2, <1>3 DEF o

\* The first coefficient by itself.
LEMMA RisingLeads ==
  ASSUME NEW n \in Nat, NEW k \in Nat, After(n, k), NEW f, Terms(f, k),
         NEW x \in Element, x # 0, NEW g, Trails(g, f, 1, n)
  PROVE  /\ Terms(g, n) /\ f[1] \in Element
         /\ Rising(k, f, x) = gsum(gmult(gpow(x, n), f[1]), Rising(n, g, x))
<1> DEFINE o == 1
<1>1. o \in Nat /\ Together(o, n, k) /\ f[o] \in Element
  BY DEF Together, After, Terms
<1>2. Rising(o, f, x) = f[o]
  BY <1>1, RisingOnce
<1>3. Trails(g, f, o, n)
  OBVIOUS
<1> HIDE DEF o
<1>4. /\ Terms(g, n)
      /\ Rising(k, f, x) = gsum(gmult(gpow(x, n), Rising(o, f, x)), Rising(n, g, x))
  BY <1>1, <1>3, RisingJoins
<1> QED
  BY <1>1, <1>2, <1>4 DEF o

\* Coefficients of zero at the end are a factor.
LEMMA RisingPads ==
  ASSUME NEW d \in Nat, NEW n \in Nat, NEW l \in Nat, Together(d, n, l), NEW f, Terms(f, l),
         NEW x \in Element, x # 0, \A i \in d + 1 .. l : f[i] = 0
  PROVE  Terms(f, d) /\ Rising(l, f, x) = gmult(gpow(x, n), Rising(d, f, x))
<1> DEFINE g == [i \in 1 .. n |-> f[d + i]]
<1>1. Trails(g, f, d, n)
  BY DEF Trails
<1>7. \A i \in 1 .. n : g[i] = 0
  BY DEF Together
<1> HIDE DEF g
<1>2. /\ Terms(g, n) /\ Terms(f, d)
      /\ Rising(l, f, x) = gsum(gmult(gpow(x, n), Rising(d, f, x)), Rising(n, g, x))
  BY <1>1, RisingJoins
<1>3. Rising(n, g, x) = 0
  <2> DEFINE Good(k) == Rising(k, g, x) = 0
             Z == {k \in Nat : k <= n => Good(k)}
  <2>1. Good(0)
    BY RisingNone
  <2>2. ASSUME NEW j \in Nat, NEW k \in Nat, After(j, k), k <= n, Good(j) PROVE Good(k)
    <3>1. Terms(g, k) /\ g[k] = 0 /\ Rising(j, g, x) = 0
      BY <1>7, <1>2, <2>2 DEF Terms, After
    <3>2. Rising(k, g, x) = gsum(g[k], gmult(x, Rising(j, g, x)))
      BY <2>2, <3>1, RisingNext
    <3>3. gmult(x, 0) = 0 /\ gsum(0, 0) = 0
      BY ZeroIs, ElementIs, SumZero
    <3> QED
      BY <3>1, <3>2, <3>3
  <2> HIDE DEF Good
  <2>3. 0 \in Z /\ \A j \in Nat : j \in Z => j + 1 \in Z
    BY <2>1, <2>2 DEF After
  <2>4. Nat \subseteq Z
    <3> HIDE DEF Z
    <3> QED
      BY <2>3, SetInduction
  <2>5. Good(n)
    BY <2>4
  <2> QED
    BY <2>5 DEF Good
<1>4. gpow(x, n) \in Element /\ Rising(d, f, x) \in Element
  BY <1>2, PowType, RisingType
<1>5. gmult(gpow(x, n), Rising(d, f, x)) \in Element
  BY <1>4, MultType, Zenon
<1>6. gsum(gmult(gpow(x, n), Rising(d, f, x)), 0) = gmult(gpow(x, n), Rising(d, f, x))
  BY <1>5, ZeroIs, Zenon
<1> QED
  BY <1>2, <1>3, <1>6
=============================================================================
