------------------------------ MODULE Induction ------------------------------
(***************************************************************************)
(* Induction over the natural numbers with a set in the place of the       *)
(* predicate, so that a proof can instantiate it: a property P of numbers  *)
(* is the set {n \in Nat : P(n)}.  It is what the proofs about sums,       *)
(* drained queues, searches and lists rest on.                             *)
(***************************************************************************)
EXTENDS Integers, FiniteSetsExt, WellFoundedInduction, TLAPS

\* A set of numbers that is not empty has a least one.
LEMMA LeastNumber ==
    ASSUME NEW T, T \subseteq Nat, T # {}
    PROVE  \E x \in T : \A y \in T : x <= y
<1> DEFINE R == OpToRel(<, Nat)
<1>1. IsWellFoundedOn(R, Nat)
  BY NatLessThanWellFounded, Zenon
<1>2. PICK x \in T : \A y \in T : ~(<<y, x>> \in R)
  <2> HIDE DEF R
  <2> QED BY <1>1, WFMin
<1>3. \A y \in Nat : y < x => <<y, x>> \in R
  BY Zenon DEF OpToRel
<1>4. \A y \in T : x \in Nat /\ y \in Nat /\ ~(y < x)
  <2> HIDE DEF R
  <2> QED BY <1>2, <1>3
<1> QED BY <1>4

\* It is the one Min chooses.
LEMMA MinIn ==
    ASSUME NEW S, S \subseteq Nat, S # {}
    PROVE  Min(S) \in S /\ \A y \in S : Min(S) <= y
<1>1. \E x \in S : \A y \in S : x <= y
  BY LeastNumber
<1> QED BY <1>1 DEF Min

\* A set that has 0 and, with a number, its successor, has every number: the
\* least number outside it would be the successor of one inside.
LEMMA NatSetInduction ==
    ASSUME NEW S, 0 \in S, \A n \in Nat : n \in S => n + 1 \in S
    PROVE  \A n \in Nat : n \in S
<1> DEFINE T == {n \in Nat : n \notin S}
<1> SUFFICES ASSUME T # {} PROVE FALSE
  OBVIOUS
<1>1. PICK x \in T : \A y \in T : x <= y
  <2>1. T \subseteq Nat
    OBVIOUS
  <2> HIDE DEF T
  <2> QED BY <2>1, LeastNumber
<1>2. x \in Nat /\ x - 1 \in Nat /\ ~(x <= x - 1) /\ (x - 1) + 1 = x
  OBVIOUS
<1>3. x - 1 \notin T
  BY <1>1, <1>2
<1>4. (x - 1) + 1 \in S
  BY <1>2, <1>3
<1> QED BY <1>2, <1>4

-----------------------------------------------------------------------------
(***************************************************************************)
(* Positions on a circle of c places.                                      *)
(***************************************************************************)

\* Positions less than a lap apart are at different places.
LEMMA PlacesDistinct ==
    ASSUME NEW c \in Nat \ {0}, NEW p \in Nat, NEW q \in Nat, p < q, q - p < c
    PROVE  p % c # q % c
<1> SUFFICES ASSUME p % c = q % c PROVE FALSE
  OBVIOUS
<1> DEFINE a == p \div c
           b == q \div c
           r == p % c
<1>1. a \in Int /\ b \in Int /\ r \in Int
  OBVIOUS
<1>2. p = c * a + r
  OBVIOUS
<1>3. q = c * b + r
  OBVIOUS
<1> HIDE DEF a, b, r
<1>4. q - p = c * (b - a)
  BY <1>1, <1>2, <1>3
<1> DEFINE m == b - a
<1>5. m \in Int /\ 0 < c * m /\ c * m < c
  BY <1>1, <1>4
<1> HIDE DEF m
<1>6. CASE m <= 0
  BY <1>5, <1>6
<1>7. CASE m >= 1
  BY <1>5, <1>7
<1> QED BY <1>5, <1>6, <1>7

LEMMA PlaceIn ==
    ASSUME NEW c \in Nat \ {0}, NEW p \in Nat
    PROVE  p % c \in 0 .. c - 1
OBVIOUS

\* Every place comes up within a lap.
LEMMA PlaceFound ==
    ASSUME NEW c \in Nat \ {0}, NEW h \in 0 .. c - 1, NEW i \in 0 .. c - 1
    PROVE  \E n \in 0 .. c - 1 : (h + n) % c = i
<1>1. CASE i >= h
  <2>1. i - h \in 0 .. c - 1 /\ h + (i - h) = i /\ i % c = i
    BY <1>1
  <2> QED BY <2>1
<1>2. CASE i < h
  <2>1. i + c - h \in 0 .. c - 1 /\ h + (i + c - h) = i + c
    BY <1>2
  <2>2. (i + c) % c = i
    OBVIOUS
  <2> QED BY <2>1, <2>2
<1> QED BY <1>1, <1>2

-----------------------------------------------------------------------------
(***************************************************************************)
(* The sum over an array, written as a recursive function of the number of *)
(* places.                                                                 *)
(***************************************************************************)

\* f holds the partial sums of h over its first n places.
PartialSums(h, f, n) ==
    /\ f \in [0 .. n -> Int]
    /\ f[0] = 0
    /\ \A k \in 1 .. n : f[k] = f[k - 1] + h[k]

LEMMA PartialSumsExist ==
    ASSUME NEW N \in Nat, NEW h \in [1 .. N -> Int]
    PROVE  \E f : PartialSums(h, f, N)
<1> DEFINE S == {n \in Nat : n <= N => \E f : PartialSums(h, f, n)}
<1>1. 0 \in S
  <2>1. PartialSums(h, [k \in 0 .. 0 |-> 0], 0)
    BY DEF PartialSums
  <2> QED BY <2>1
<1>2. \A n \in Nat : n \in S => n + 1 \in S
  <2> SUFFICES ASSUME NEW n \in Nat, n \in S, n + 1 <= N
               PROVE  \E f : PartialSums(h, f, n + 1)
    OBVIOUS
  <2>1. PICK f : PartialSums(h, f, n)
    OBVIOUS
  <2> DEFINE g == [k \in 0 .. n + 1 |-> IF k = n + 1 THEN f[n] + h[n + 1] ELSE f[k]]
  <2>2. n + 1 \in 1 .. N
    OBVIOUS
  <2>3. g \in [0 .. n + 1 -> Int] /\ g[0] = 0
    BY <2>1, <2>2 DEF PartialSums
  <2>4. ASSUME NEW k \in 1 .. n + 1 PROVE g[k] = g[k - 1] + h[k]
    <3>1. CASE k = n + 1
      <4>1. g[k] = f[n] + h[k] /\ g[k - 1] = f[n]
        BY <3>1
      <4> QED BY <4>1
    <3>2. CASE k # n + 1
      <4>1. k \in 1 .. n /\ g[k] = f[k] /\ g[k - 1] = f[k - 1]
        BY <3>2
      <4> QED BY <2>1, <4>1 DEF PartialSums
    <3> QED BY <3>1, <3>2
  <2> HIDE DEF g
  <2>5. PartialSums(h, g, n + 1)
    BY <2>3, <2>4 DEF PartialSums
  <2> QED BY <2>5
<1>3. \A n \in Nat : n \in S
  <2> HIDE DEF S
  <2> QED BY <1>1, <1>2, NatSetInduction
<1> QED BY <1>3

\* The recursive definition of a sum yields the partial sums.
LEMMA RecursiveSum ==
    ASSUME NEW N \in Nat, NEW h \in [1 .. N -> Int], NEW sum,
           sum = CHOOSE g : g = [n \in 0 .. N |-> IF n = 0 THEN 0 ELSE g[n - 1] + h[n]]
    PROVE  PartialSums(h, sum, N)
<1> DEFINE body(g) == [n \in 0 .. N |-> IF n = 0 THEN 0 ELSE g[n - 1] + h[n]]
<1>1. PICK f : PartialSums(h, f, N)
  BY PartialSumsExist
<1>2. f = body(f)
  <2>1. \A n \in 0 .. N : f[n] = body(f)[n]
    BY <1>1 DEF PartialSums
  <2> QED BY <1>1, <2>1 DEF PartialSums
<1>3. sum = body(sum)
  <2>1. sum = CHOOSE g : g = body(g)
    OBVIOUS
  <2> HIDE DEF body
  <2> QED BY <1>2, <2>1
<1>4. /\ sum = [n \in 0 .. N |-> IF n = 0 THEN 0 ELSE sum[n - 1] + h[n]]
  BY <1>3
<1>5. /\ sum[0] = 0
      /\ \A n \in 1 .. N : sum[n] = sum[n - 1] + h[n]
  <2> DEFINE D(n) == IF n = 0 THEN 0 ELSE sum[n - 1] + h[n]
  <2>1. sum = [n \in 0 .. N |-> D(n)]
    BY <1>4
  <2>2. D(0) = 0 /\ \A n \in 1 .. N : D(n) = sum[n - 1] + h[n]
    OBVIOUS
  <2> HIDE DEF D
  <2>3. \A n \in 0 .. N : sum[n] = D(n)
    BY <2>1
  <2>4. 0 \in 0 .. N /\ \A n \in 1 .. N : n \in 0 .. N
    OBVIOUS
  <2> QED BY <2>2, <2>3, <2>4
<1> DEFINE S == {n \in Nat : n <= N => sum[n] = f[n]}
<1>6. 0 \in S
  BY <1>1, <1>5 DEF PartialSums
<1>7. \A n \in Nat : n \in S => n + 1 \in S
  <2> SUFFICES ASSUME NEW n \in Nat, n \in S, n + 1 <= N PROVE sum[n + 1] = f[n + 1]
    OBVIOUS
  <2>1. n + 1 \in 1 .. N /\ (n + 1) - 1 = n
    OBVIOUS
  <2>2. sum[n + 1] = sum[n] + h[n + 1] /\ f[n + 1] = f[n] + h[n + 1]
    BY <1>1, <1>5, <2>1 DEF PartialSums
  <2> QED BY <2>2
<1>8. \A n \in Nat : n \in S
  <2> HIDE DEF S
  <2> QED BY <1>6, <1>7, NatSetInduction
<1>9. \A n \in 0 .. N : sum[n] = f[n]
  BY <1>8
<1>10. sum \in [0 .. N -> Int]
  <2>1. \A n \in 0 .. N : f[n] \in Int
    BY <1>1 DEF PartialSums
  <2>2. sum = [n \in 0 .. N |-> f[n]]
    BY <1>4, <1>9
  <2> QED BY <2>1, <2>2
<1> QED BY <1>5, <1>10 DEF PartialSums

\* Two sequences of N integers that differ at place i only.
OneChanged(h, k, N, i) ==
    /\ N \in Nat /\ i \in 1 .. N
    /\ h \in [1 .. N -> Int] /\ k \in [1 .. N -> Int]
    /\ \A j \in 1 .. N : j # i => k[j] = h[j]

\* Changing one place changes the sum by the difference.
LEMMA SumChanged ==
    ASSUME NEW N, NEW h, NEW k, NEW i, OneChanged(h, k, N, i),
           NEW f, NEW g, PartialSums(h, f, N), PartialSums(k, g, N)
    PROVE  /\ f[N] \in Int
           /\ g[N] = f[N] - h[i] + k[i]
<1> USE DEF OneChanged
<1> DEFINE S == {n \in Nat : n <= N => g[n] = IF n < i THEN f[n] ELSE f[n] - h[i] + k[i]}
<1>1. 0 \in S
  BY DEF PartialSums
<1>2. \A n \in Nat : n \in S => n + 1 \in S
  <2> SUFFICES ASSUME NEW n \in Nat, n \in S, n + 1 <= N
               PROVE  n + 1 \in S
    OBVIOUS
  <2>0. n + 1 \in 1 .. N /\ n \in 0 .. N /\ (n + 1) - 1 = n
    OBVIOUS
  <2>1. f[n] \in Int /\ f[n + 1] = f[n] + h[n + 1] /\ g[n + 1] = g[n] + k[n + 1]
    BY <2>0 DEF PartialSums
  <2>2. h[n + 1] \in Int /\ h[i] \in Int /\ k[i] \in Int /\ i \in Nat
    OBVIOUS
  <2>3. k[n + 1] = IF n + 1 = i THEN k[i] ELSE h[n + 1]
    OBVIOUS
  <2>4. g[n] = IF n < i THEN f[n] ELSE f[n] - h[i] + k[i]
    OBVIOUS
  <2>5. g[n + 1] = IF n + 1 < i THEN f[n + 1] ELSE f[n + 1] - h[i] + k[i]
    <3>1. CASE n + 1 < i
      BY ONLY <2>1, <2>2, <2>3, <2>4, <3>1, n \in Nat
    <3>2. CASE n + 1 = i
      BY ONLY <2>1, <2>2, <2>3, <2>4, <3>2, n \in Nat
    <3>3. CASE n + 1 > i
      BY ONLY <2>1, <2>2, <2>3, <2>4, <3>3, n \in Nat
    <3> QED BY <2>2, <3>1, <3>2, <3>3
  <2> QED BY <2>5
<1>3. \A n \in Nat : n \in S
  <2> HIDE DEF S
  <2> QED BY <1>1, <1>2, NatSetInduction
<1>4. N \in S /\ ~(N < i)
  BY <1>3
<1>5. f[N] \in Int
  BY DEF PartialSums
<1> QED BY <1>4, <1>5

\* The sum of nothing but zeros is zero.
LEMMA SumZero ==
    ASSUME NEW N \in Nat, NEW h \in [1 .. N -> Int], \A i \in 1 .. N : h[i] = 0,
           NEW f, PartialSums(h, f, N)
    PROVE  f[N] = 0
<1> DEFINE S == {n \in Nat : n <= N => f[n] = 0}
<1>1. 0 \in S
  BY DEF PartialSums
<1>2. \A n \in Nat : n \in S => n + 1 \in S
  BY DEF PartialSums
<1>3. \A n \in Nat : n \in S
  <2> HIDE DEF S
  <2> QED BY <1>1, <1>2, NatSetInduction
<1> QED BY <1>3

\* A sum of numbers is not below any of them.
LEMMA SumBound ==
    ASSUME NEW N \in Nat, NEW h \in [1 .. N -> Int], \A i \in 1 .. N : h[i] >= 0,
           NEW j \in 1 .. N, NEW f, PartialSums(h, f, N)
    PROVE  f[N] >= h[j]
<1> DEFINE S == {n \in Nat : n <= N => f[n] >= 0 /\ (j <= n => f[n] >= h[j])}
<1>1. 0 \in S
  BY DEF PartialSums
<1>2. \A n \in Nat : n \in S => n + 1 \in S
  <2> SUFFICES ASSUME NEW n \in Nat, n \in S, n + 1 <= N
               PROVE  f[n + 1] >= 0 /\ (j <= n + 1 => f[n + 1] >= h[j])
    OBVIOUS
  <2>1. n + 1 \in 1 .. N /\ n \in 0 .. N /\ (n + 1) - 1 = n
    OBVIOUS
  <2>2. f[n] \in Int /\ f[n + 1] = f[n] + h[n + 1]
    BY <2>1 DEF PartialSums
  <2>3. h[n + 1] \in Int /\ h[n + 1] >= 0 /\ h[j] \in Int /\ j \in Nat
    BY <2>1
  <2>4. f[n] >= 0 /\ (j <= n => f[n] >= h[j])
    OBVIOUS
  <2>5. CASE j = n + 1
    BY <2>2, <2>3, <2>4, <2>5
  <2>6. CASE j # n + 1
    BY <2>2, <2>3, <2>4, <2>6
  <2> QED BY <2>5, <2>6
<1>3. \A n \in Nat : n \in S
  <2> HIDE DEF S
  <2> QED BY <1>1, <1>2, NatSetInduction
<1> QED BY <1>3

-----------------------------------------------------------------------------
(***************************************************************************)
(* The turns of a loop, written as a recursive function of their number.   *)
(***************************************************************************)

\* f holds what n turns of a loop go through from x, the k-th turn being step[k].
Turns(f, step, T, x, n) ==
    /\ f \in [0 .. n -> T]
    /\ f[0] = x
    /\ \A k \in 1 .. n : f[k] = step[k][f[k - 1]]

LEMMA TurnsExist ==
    ASSUME NEW T, NEW N \in Nat, NEW step \in [1 .. N -> [T -> T]], NEW x \in T
    PROVE  \E f : Turns(f, step, T, x, N)
<1> DEFINE S == {n \in Nat : n <= N => \E f : Turns(f, step, T, x, n)}
<1>1. 0 \in S
  <2>1. Turns([k \in 0 .. 0 |-> x], step, T, x, 0)
    BY DEF Turns
  <2> QED BY <2>1
<1>2. \A n \in Nat : n \in S => n + 1 \in S
  <2> SUFFICES ASSUME NEW n \in Nat, n \in S, n + 1 <= N
               PROVE  \E f : Turns(f, step, T, x, n + 1)
    OBVIOUS
  <2>1. PICK f : Turns(f, step, T, x, n)
    OBVIOUS
  <2> DEFINE g == [k \in 0 .. n + 1 |-> IF k = n + 1 THEN step[n + 1][f[n]] ELSE f[k]]
  <2>2. n \in 0 .. n /\ f[n] \in T /\ n + 1 \in 1 .. N
    BY <2>1 DEF Turns
  <2>3. g \in [0 .. n + 1 -> T] /\ g[0] = x
    BY <2>1, <2>2 DEF Turns
  <2>4. ASSUME NEW k \in 1 .. n + 1 PROVE g[k] = step[k][g[k - 1]]
    <3>1. CASE k = n + 1
      <4>1. g[k] = step[k][f[n]] /\ g[k - 1] = f[n]
        BY <3>1
      <4> QED BY <4>1
    <3>2. CASE k # n + 1
      <4>1. k \in 1 .. n /\ g[k] = f[k] /\ g[k - 1] = f[k - 1]
        BY <3>2
      <4> QED BY <2>1, <4>1 DEF Turns
    <3> QED BY <3>1, <3>2
  <2> HIDE DEF g
  <2>5. Turns(g, step, T, x, n + 1)
    BY <2>3, <2>4 DEF Turns
  <2> QED BY <2>5
<1>3. \A n \in Nat : n \in S
  <2> HIDE DEF S
  <2> QED BY <1>1, <1>2, NatSetInduction
<1> QED BY <1>3

\* What every turn of a loop keeps holds behind it.
LEMMA TurnsKeep ==
    ASSUME NEW T, NEW N \in Nat, NEW g, g[0] \in T,
           \A n \in 1 .. N : g[n - 1] \in T => g[n] \in T
    PROVE  g[N] \in T
<1> DEFINE S == {n \in Nat : n <= N => g[n] \in T}
<1>1. 0 \in S
  OBVIOUS
<1>2. \A n \in Nat : n \in S => n + 1 \in S
  <2> SUFFICES ASSUME NEW n \in Nat, n \in S, n + 1 <= N PROVE g[n + 1] \in T
    OBVIOUS
  <2>1. n + 1 \in 1 .. N /\ (n + 1) - 1 = n /\ g[n] \in T
    OBVIOUS
  <2> QED BY <2>1
<1>3. N \in S
  <2> HIDE DEF S
  <2> QED BY <1>1, <1>2, NatSetInduction
<1> QED BY <1>3

\* A loop whose turns are all the same.
Iterates(f, step, T, x, n) ==
    /\ f \in [0 .. n -> T]
    /\ f[0] = x
    /\ \A k \in 1 .. n : f[k] = step[f[k - 1]]

LEMMA IteratesExist ==
    ASSUME NEW T, NEW step \in [T -> T], NEW x \in T, NEW N \in Nat
    PROVE  \E f : Iterates(f, step, T, x, N)
<1> DEFINE steps == [k \in 1 .. N |-> step]
<1>1. PICK f : Turns(f, steps, T, x, N)
  <2>1. steps \in [1 .. N -> [T -> T]]
    OBVIOUS
  <2> HIDE DEF steps
  <2> QED BY <2>1, TurnsExist
<1>2. Iterates(f, step, T, x, N)
  BY <1>1 DEF Turns, Iterates
<1> QED BY <1>2

\* The recursive definition of a loop yields its turns.
LEMMA RecursiveLoop ==
    ASSUME NEW T, NEW step \in [T -> T], NEW x \in T, NEW N \in Nat, NEW loop,
           loop = CHOOSE g : g = [n \in 0 .. N |-> IF n = 0 THEN x ELSE step[g[n - 1]]]
    PROVE  Iterates(loop, step, T, x, N)
<1> DEFINE body(g) == [n \in 0 .. N |-> IF n = 0 THEN x ELSE step[g[n - 1]]]
<1>1. PICK f : Iterates(f, step, T, x, N)
  BY IteratesExist
<1>2. f = body(f)
  <2>1. \A n \in 0 .. N : f[n] = body(f)[n]
    BY <1>1 DEF Iterates
  <2> QED BY <1>1, <2>1 DEF Iterates
<1>3. loop = body(loop)
  <2>1. loop = CHOOSE g : g = body(g)
    OBVIOUS
  <2> HIDE DEF body
  <2> QED BY <1>2, <2>1
<1>4. loop = [n \in 0 .. N |-> IF n = 0 THEN x ELSE step[loop[n - 1]]]
  BY <1>3
<1>5. /\ loop[0] = x
      /\ \A n \in 1 .. N : loop[n] = step[loop[n - 1]]
  <2> DEFINE D(n) == IF n = 0 THEN x ELSE step[loop[n - 1]]
  <2>1. loop = [n \in 0 .. N |-> D(n)]
    BY <1>4
  <2>2. D(0) = x /\ \A n \in 1 .. N : D(n) = step[loop[n - 1]]
    OBVIOUS
  <2> HIDE DEF D
  <2>3. \A n \in 0 .. N : loop[n] = D(n)
    BY <2>1
  <2>4. 0 \in 0 .. N /\ \A n \in 1 .. N : n \in 0 .. N
    OBVIOUS
  <2> QED BY <2>2, <2>3, <2>4
<1> DEFINE S == {n \in Nat : n <= N => loop[n] = f[n]}
<1>6. 0 \in S
  BY <1>1, <1>5 DEF Iterates
<1>7. \A n \in Nat : n \in S => n + 1 \in S
  <2> SUFFICES ASSUME NEW n \in Nat, n \in S, n + 1 <= N PROVE loop[n + 1] = f[n + 1]
    OBVIOUS
  <2>1. n + 1 \in 1 .. N /\ (n + 1) - 1 = n
    OBVIOUS
  <2>2. loop[n + 1] = step[loop[n]] /\ f[n + 1] = step[f[n]]
    BY <1>1, <1>5, <2>1 DEF Iterates
  <2> QED BY <2>2
<1>8. \A n \in Nat : n \in S
  <2> HIDE DEF S
  <2> QED BY <1>6, <1>7, NatSetInduction
<1>9. \A n \in 0 .. N : loop[n] = f[n]
  BY <1>8
<1>10. loop \in [0 .. N -> T]
  <2>1. \A n \in 0 .. N : f[n] \in T
    BY <1>1 DEF Iterates
  <2>2. loop = [n \in 0 .. N |-> f[n]]
    BY <1>4, <1>9
  <2> QED BY <2>1, <2>2
<1> QED BY <1>5, <1>10 DEF Iterates

-----------------------------------------------------------------------------
(***************************************************************************)
(* FoldLeft of the community modules folds over the subsets of the         *)
(* sequence's domain, the largest index last.                              *)
(***************************************************************************)
LEMMA MaxIs ==
    ASSUME NEW s, s \subseteq Nat, NEW n \in s, \A y \in s : y <= n
    PROVE  Max(s) = n
<1>1. \A x \in s : (\A y \in s : x >= y) => x = n
  OBVIOUS
<1>2. n \in s /\ \A y \in s : n >= y
  OBVIOUS
<1> QED BY <1>1, <1>2 DEF Max

LEMMA MaxPrefix ==
    ASSUME NEW n \in Nat \ {0}
    PROVE  Max(1 .. n) = n /\ (1 .. n) \ {n} = 1 .. (n - 1)
<1>1. 1 .. n \subseteq Nat /\ n \in 1 .. n /\ \A y \in 1 .. n : y <= n
  OBVIOUS
<1>2. Max(1 .. n) = n
  BY <1>1, MaxIs
<1> QED BY <1>2

\* f folds the steps over every subset of 1 .. n, from x on.
Folds(f, step, x, T, n) ==
    /\ f \in [SUBSET (1 .. n) -> T]
    /\ \A s \in SUBSET (1 .. n) : f[s] = IF s = {} THEN x ELSE step[Max(s)][f[s \ {Max(s)}]]

LEMMA FoldsExist ==
    ASSUME NEW N \in Nat, NEW T, NEW x \in T, NEW step \in [1 .. N -> [T -> T]]
    PROVE  \E f : Folds(f, step, x, T, N)
<1> DEFINE S == {n \in Nat : n <= N => \E f : Folds(f, step, x, T, n)}
<1>1. 0 \in S
  <2> DEFINE f == [s \in SUBSET (1 .. 0) |-> x]
  <2>1. \A s \in SUBSET (1 .. 0) : s = {}
    OBVIOUS
  <2>2. Folds(f, step, x, T, 0)
    BY <2>1 DEF Folds
  <2> QED BY <2>2
<1>2. ASSUME NEW n \in Nat, n \in S PROVE n + 1 \in S
  <2> SUFFICES ASSUME n + 1 <= N PROVE \E f : Folds(f, step, x, T, n + 1)
    OBVIOUS
  <2>1. PICK f : Folds(f, step, x, T, n)
    BY <1>2
  <2>2. f \in [SUBSET (1 .. n) -> T] /\ step[n + 1] \in [T -> T]
    BY <2>1 DEF Folds
  <2> DEFINE g == [s \in SUBSET (1 .. n + 1) |->
                      IF n + 1 \in s THEN step[n + 1][f[s \ {n + 1}]] ELSE f[s]]
  <2>3. \A s \in SUBSET (1 .. n + 1) : s \ {n + 1} \in SUBSET (1 .. n)
    OBVIOUS
  <2>4. g \in [SUBSET (1 .. n + 1) -> T]
    <3> SUFFICES ASSUME NEW s \in SUBSET (1 .. n + 1)
                 PROVE  (IF n + 1 \in s THEN step[n + 1][f[s \ {n + 1}]] ELSE f[s]) \in T
      OBVIOUS
    <3>1. s \ {n + 1} \in SUBSET (1 .. n) /\ (n + 1 \notin s => s = s \ {n + 1})
      BY <2>3
    <3> QED BY <2>2, <3>1
  <2>5. ASSUME NEW s \in SUBSET (1 .. n + 1)
        PROVE  g[s] = IF s = {} THEN x ELSE step[Max(s)][g[s \ {Max(s)}]]
    <3>1. CASE n + 1 \in s
      <4>1. Max(s) = n + 1
        <5>1. s \subseteq Nat /\ n + 1 \in s /\ \A y \in s : y <= n + 1
          BY <3>1
        <5> QED BY <5>1, MaxIs
      <4>2. g[s] = step[n + 1][f[s \ {n + 1}]] /\ s # {}
        BY <3>1
      <4>3. g[s \ {n + 1}] = f[s \ {n + 1}]
        BY <2>3
      <4> HIDE DEF g
      <4> QED BY <4>1, <4>2, <4>3
    <3>2. CASE n + 1 \notin s
      <4>1. s \in SUBSET (1 .. n) /\ g[s] = f[s]
        BY <2>3, <3>2
      <4>2. f[s] = IF s = {} THEN x ELSE step[Max(s)][f[s \ {Max(s)}]]
        BY <2>1, <4>1 DEF Folds
      <4>3. s \ {Max(s)} \in SUBSET (1 .. n + 1) /\ n + 1 \notin s \ {Max(s)}
        BY <3>2
      <4>4. g[s \ {Max(s)}] = f[s \ {Max(s)}]
        BY <4>3
      <4> HIDE DEF g
      <4> QED BY <4>1, <4>2, <4>4
    <3> QED BY <3>1, <3>2
  <2> HIDE DEF g
  <2>6. Folds(g, step, x, T, n + 1)
    BY <2>4, <2>5 DEF Folds
  <2> QED BY <2>6
<1>3. \A n \in Nat : n \in S
  <2> HIDE DEF S
  <2> QED BY <1>1, <1>2, NatSetInduction
<1>4. N \in S
  BY <1>3
<1> QED BY <1>4

\* The fold reaches n from n - 1 by one step.
LEMMA FoldsStep ==
    ASSUME NEW f, NEW N \in Nat, NEW T, NEW x, NEW step, Folds(f, step, x, T, N)
    PROVE  f[{}] = x /\ f[1 .. 0] = x /\ \A n \in 1 .. N : f[1 .. n] = step[n][f[1 .. (n - 1)]]
<1>1. {} \in SUBSET (1 .. N) /\ 1 .. 0 = {}
  OBVIOUS
<1>2. f[{}] = x
  BY <1>1 DEF Folds
<1>3. ASSUME NEW n \in 1 .. N PROVE f[1 .. n] = step[n][f[1 .. (n - 1)]]
  <2>1. 1 .. n \in SUBSET (1 .. N) /\ 1 .. n # {} /\ n \in Nat \ {0}
    OBVIOUS
  <2>2. f[1 .. n] = step[Max(1 .. n)][f[(1 .. n) \ {Max(1 .. n)}]]
    BY <2>1 DEF Folds
  <2> QED BY <2>1, <2>2, MaxPrefix
<1> QED BY <1>1, <1>2, <1>3

\* A set of numbers with a bound has a largest one.
LEMMA MaxIn ==
    ASSUME NEW N \in Nat, NEW s, s \subseteq 0 .. N, s # {}
    PROVE  Max(s) \in s /\ \A y \in s : y <= Max(s)
<1> DEFINE T == {N - y : y \in s}
<1>1. T \subseteq Nat /\ T # {}
  <2>1. \A y \in s : N - y \in Nat
    OBVIOUS
  <2> QED BY <2>1
<1>2. PICK z \in T : \A y \in T : z <= y
  <2> HIDE DEF T
  <2> QED BY <1>1, LeastNumber
<1>3. PICK n \in s : z = N - n
  OBVIOUS
<1>4. \A y \in s : N - n <= N - y
  BY <1>2, <1>3
<1>5. s \subseteq Nat /\ \A y \in s : y <= n
  BY <1>4
<1> QED BY <1>5, MaxIs
=============================================================================
