------------------------------- MODULE Induction -------------------------------
(***************************************************************************)
(* Induction over the natural numbers stated about sets instead of         *)
(* predicates, and what it says of functions defined by recursion.  The    *)
(* proofs of the components cite these lemmas wherever the code has a loop.*)
(***************************************************************************)
EXTENDS Integers, Functions, FiniteSetTheorems, TLAPS

(* A non-empty set of natural numbers has a least element.                  *)
LEMMA LeastNatural ==
  ASSUME NEW T \in SUBSET Nat, T # {}
  PROVE  \E m \in T : \A k \in T : m <= k
<1> DEFINE Initial == {0..m : m \in T}
<1>1. Initial \subseteq FiniteSubsetsOf(Nat) /\ Initial # {}
  <2>1. \A m \in T : 0..m \in SUBSET Nat /\ IsFiniteSet(0..m)
    BY FS_Interval, SMT
  <2> QED
    BY <2>1 DEF FiniteSubsetsOf
<1> HIDE DEF Initial
<1>2. PICK x \in Initial :
        \A y \in Initial : <<y, x>> \notin StrictSubsetOrdering(Nat)
  BY <1>1, FS_StrictSubsetOrderingWellFounded, WFMin, Zenon
<1>3. PICK m \in T : x = 0..m
  BY <1>2 DEF Initial
<1>4. ASSUME NEW k \in T, ~(m <= k) PROVE FALSE
  <2> DEFINE pair == <<0..k, 0..m>>
  <2>1. 0..k \in Initial
    BY DEF Initial
  <2>2. /\ 0..k \subseteq 0..m /\ 0..k # 0..m
        /\ 0..k \in SUBSET Nat /\ 0..m \in SUBSET Nat
    BY <1>4
  <2>3. pair[1] = 0..k /\ pair[2] = 0..m /\ pair \in (SUBSET Nat) \X (SUBSET Nat)
    BY <2>2
  <2> HIDE DEF pair
  <2>4. pair \in StrictSubsetOrdering(Nat)
    BY <2>2, <2>3 DEF StrictSubsetOrdering
  <2> QED
    BY <1>2, <1>3, <2>1, <2>4 DEF pair
<1> QED
  BY <1>4

(* A non-empty set of natural numbers with a bound has a greatest element.  *)
LEMMA GreatestNatural ==
  ASSUME NEW n \in Nat, NEW T \in SUBSET (0..n), T # {}
  PROVE  \E m \in T : \A k \in T : k <= m
<1> DEFINE Below == {n - k : k \in T}
<1>1. Below \in SUBSET Nat /\ Below # {}
  <2>1. \A k \in T : k \in Nat /\ n - k \in Nat
    OBVIOUS
  <2>2. Below \subseteq Nat
    BY <2>1, Zenon
  <2>3. PICK k \in T : TRUE
    OBVIOUS
  <2>4. n - k \in Below
    OBVIOUS
  <2> HIDE DEF Below
  <2> QED
    BY <2>2, <2>4
<1>2. \A k \in T : n - k \in Below /\ k \in Int
  OBVIOUS
<1>3. \A j \in Below : n - j \in T
  OBVIOUS
<1> HIDE DEF Below
<1>4. PICK m \in Below : \A k \in Below : m <= k
  BY <1>1, LeastNatural
<1>5. n - m \in T /\ \A k \in T : m <= n - k
  BY <1>2, <1>3, <1>4
<1>6. m \in Int
  BY <1>1
<1>7. \A k \in T : k <= n - m
  BY <1>2, <1>5, <1>6
<1> QED
  BY <1>5, <1>7

(* A set of numbers up to n that has 0 and the successor of each of its     *)
(* members below n has them all.                                            *)
LEMMA UpTo ==
  ASSUME NEW n \in Nat, NEW T, 0 \in T,
         \A k \in 1..n : k - 1 \in T => k \in T
  PROVE  \A k \in 0..n : k \in T
<1> SUFFICES ASSUME NEW j \in 0..n, j \notin T PROVE FALSE
  OBVIOUS
<1> DEFINE Missing == {k \in 0..n : k \notin T}
<1>1. PICK m \in Missing : \A k \in Missing : m <= k
  <2>1. Missing \in SUBSET Nat /\ Missing # {}
    OBVIOUS
  <2> HIDE DEF Missing
  <2> QED
    BY <2>1, LeastNatural
<1>2. m \in 1..n /\ m - 1 \in 0..n
  BY <1>1
<1>3. m - 1 \in T
  BY <1>1, <1>2
<1> QED
  BY <1>1, <1>2, <1>3

(* A set that holds a number of 1..n as soon as it holds those below it     *)
(* has them all.                                                            *)
LEMMA FromBelow ==
  ASSUME NEW n \in Nat, NEW T,
         \A k \in 1..n : (\A j \in 1..k - 1 : j \in T) => k \in T
  PROVE  \A k \in 1..n : k \in T
<1> SUFFICES ASSUME NEW j \in 1..n, j \notin T PROVE FALSE
  OBVIOUS
<1> DEFINE Missing == {k \in 1..n : k \notin T}
<1>1. PICK m \in Missing : \A k \in Missing : m <= k
  <2>1. Missing \in SUBSET Nat /\ Missing # {}
    OBVIOUS
  <2> HIDE DEF Missing
  <2> QED
    BY <2>1, LeastNatural
<1>2. \A k \in 1..m - 1 : k \in T
  BY <1>1
<1> QED
  BY <1>1, <1>2

(* A loop of n rounds, whose k-th round takes a state s of S to F[k][s],    *)
(* has a run: the sequence of the states that it passes through.            *)
Loop(F, n, S) == F \in [1..n -> [S -> S]]

Run(g, F, n, S, start) ==
  /\ g \in [0..n -> S]
  /\ g[0] = start
  /\ \A k \in 1..n : g[k] = F[k][g[k - 1]]

LEMMA Rounds ==
  ASSUME NEW n \in Nat, NEW S, NEW start \in S, NEW F, Loop(F, n, S)
  PROVE  \E g : Run(g, F, n, S, start)
<1> DEFINE Reached == {m \in 0..n : \E g : Run(g, F, m, S, start)}
<1>1. 0 \in Reached
  <2> DEFINE g == [k \in 0..0 |-> start]
  <2>1. Run(g, F, 0, S, start)
    BY DEF Run
  <2> HIDE DEF g
  <2> QED
    BY <2>1
<1>2. ASSUME NEW m \in 1..n, m - 1 \in Reached PROVE m \in Reached
  <2>1. PICK g : Run(g, F, m - 1, S, start)
    BY <1>2
  <2> DEFINE h == [k \in 0..m |-> IF k = m THEN F[m][g[m - 1]] ELSE g[k]]
  <2>2. m - 1 \in 0..m - 1 /\ F[m] \in [S -> S] /\ g[m - 1] \in S
    BY <2>1 DEF Run, Loop
  <2>3. h \in [0..m -> S] /\ h[0] = start
    BY <2>1, <2>2 DEF Run
  <2>4. ASSUME NEW k \in 1..m PROVE h[k] = F[k][h[k - 1]]
    <3>1. h[k - 1] = g[k - 1] /\ h[m] = F[m][g[m - 1]]
      OBVIOUS
    <3>2. CASE k = m
      BY <3>1, <3>2
    <3>3. CASE k # m
      <4>1. k \in 1..m - 1 /\ h[k] = g[k]
        BY <3>3
      <4> QED
        BY <2>1, <3>1, <4>1 DEF Run
    <3> QED
      BY <3>2, <3>3
  <2> HIDE DEF h
  <2>5. Run(h, F, m, S, start)
    BY <2>3, <2>4 DEF Run
  <2> QED
    BY <2>5
<1>3. \A k \in 0..n : k \in Reached
  <2> HIDE DEF Reached
  <2> QED
    BY <1>1, <1>2, UpTo
<1> QED
  BY <1>3

(* Sums over finite sets.  The sum of the community modules picks its        *)
(* summands one after another; that it may pick any of them first is what    *)
(* the proofs of the components need.                                        *)
Chosen(s) == CHOOSE x \in s : TRUE
Adds(g, f, S) ==
  g = [s \in SUBSET S |-> IF s = {} THEN 0 ELSE f[Chosen(s)] + g[s \ {Chosen(s)}]]

LEMMA AddsIs ==
  ASSUME NEW S, NEW f, NEW g, Adds(g, f, S)
  PROVE  /\ g[{}] = 0
         /\ \A s \in SUBSET S : s # {} =>
              Chosen(s) \in s /\ g[s] = f[Chosen(s)] + g[s \ {Chosen(s)}]
BY DEF Adds, Chosen

LEMMA SumRuns ==
  ASSUME NEW S, NEW f, \E g : Adds(g, f, S)
  PROVE  \E g : Adds(g, f, S) /\ SumFunctionOnSet(f, S) = g[S]
<1> DEFINE iter[s \in SUBSET S] == IF s = {} THEN 0 ELSE f[Chosen(s)] + iter[s \ {Chosen(s)}]
<1>1. SumFunctionOnSet(f, S) = iter[S]
  BY DEF SumFunctionOnSet, FoldFunctionOnSet, MapThenFoldSet, Chosen
<1>2. Adds(iter, f, S)
  BY Zenon DEF Adds
<1> QED
  BY <1>1, <1>2, Zenon

LEMMA OneLess ==
  ASSUME NEW s, IsFiniteSet(s), NEW x \in s
  PROVE  /\ IsFiniteSet(s \ {x}) /\ Cardinality(s) \in Nat
         /\ Cardinality(s \ {x}) = Cardinality(s) - 1 /\ Cardinality(s) >= 1
<1>1. Cardinality(s) \in Nat
  BY FS_CardinalityType
<1>2. IsFiniteSet(s \ {x}) /\ Cardinality(s \ {x}) = Cardinality(s) - 1
  BY FS_RemoveElement
<1>3. Cardinality(s \ {x}) \in Nat
  BY <1>2, FS_CardinalityType
<1> QED
  BY <1>1, <1>2, <1>3

LEMMA AddsExists ==
  ASSUME NEW S, IsFiniteSet(S), NEW f, \A x \in S : f[x] \in Int
  PROVE  \E g \in [SUBSET S -> Int] : Adds(g, f, S)
<1> DEFINE Small(k) == {s \in SUBSET S : Cardinality(s) <= k}
           Fits(g, k) ==
             /\ g \in [Small(k) -> Int]
             /\ \A s \in Small(k) :
                  g[s] = IF s = {} THEN 0 ELSE f[Chosen(s)] + g[s \ {Chosen(s)}]
           n == Cardinality(S)
           T == {k \in 0..n : \E g : Fits(g, k)}
<1>1. n \in Nat /\ \A s \in SUBSET S : IsFiniteSet(s) /\ Cardinality(s) \in 0..n
  BY FS_CardinalityType, FS_Subset
<1>2. 0 \in T
  <2> DEFINE g == [s \in Small(0) |-> 0]
  <2>1. \A s \in Small(0) : s = {}
    BY <1>1, FS_EmptySet
  <2>2. Fits(g, 0)
    BY <2>1
  <2> HIDE DEF g, Fits
  <2> QED
    BY <1>1, <2>2
<1>3. ASSUME NEW k \in 1..n, k - 1 \in T PROVE k \in T
  <2>1. PICK g : Fits(g, k - 1)
    BY <1>3
  <2> DEFINE h == [s \in Small(k) |-> IF s \in Small(k - 1) THEN g[s]
                                      ELSE f[Chosen(s)] + g[s \ {Chosen(s)}]]
  <2>2. ASSUME NEW s \in Small(k), s # {}
        PROVE  /\ Chosen(s) \in S /\ Chosen(s) \in s /\ s \ {Chosen(s)} \in Small(k - 1)
    <3>1. Chosen(s) \in s
      BY <2>2 DEF Chosen
    <3>2. Cardinality(s \ {Chosen(s)}) <= k - 1
      BY <1>1, <2>2, <3>1, OneLess
    <3> QED
      BY <3>1, <3>2
  <2>3. {} \in Small(k - 1) /\ \A s \in Small(k - 1) : s \in Small(k)
    BY <1>1, FS_EmptySet
  <2>4. h \in [Small(k) -> Int]
    <3>1. ASSUME NEW s \in Small(k) PROVE h[s] \in Int
      <4>1. CASE s \in Small(k - 1)
        <5>1. h[s] = g[s]
          BY <4>1
        <5> HIDE DEF h, Small
        <5> QED
          BY <2>1, <4>1, <5>1
      <4>2. CASE s \notin Small(k - 1)
        <5>1. h[s] = f[Chosen(s)] + g[s \ {Chosen(s)}]
          BY <4>2
        <5>2. s # {}
          BY <2>3, <4>2
        <5>3. Chosen(s) \in S /\ s \ {Chosen(s)} \in Small(k - 1)
          BY <2>2, <5>2
        <5> HIDE DEF h, Small
        <5>4. f[Chosen(s)] \in Int /\ g[s \ {Chosen(s)}] \in Int
          BY <2>1, <5>3
        <5> QED
          BY <5>1, <5>4
      <4> QED
        BY <4>1, <4>2
    <3>2. h = [s \in Small(k) |-> h[s]]
      OBVIOUS
    <3> HIDE DEF h, Small
    <3> QED
      BY <3>1, <3>2
  <2>5. ASSUME NEW s \in Small(k)
        PROVE  h[s] = IF s = {} THEN 0 ELSE f[Chosen(s)] + h[s \ {Chosen(s)}]
    <3> HIDE DEF Small
    <3>1. CASE s = {}
      BY <2>1, <2>3, <3>1
    <3>2. CASE s # {}
      <4>1. s \ {Chosen(s)} \in Small(k - 1) /\ s \ {Chosen(s)} \in Small(k)
        BY <2>2, <2>3, <3>2
      <4>2. h[s \ {Chosen(s)}] = g[s \ {Chosen(s)}]
        BY <4>1
      <4>3. h[s] = f[Chosen(s)] + g[s \ {Chosen(s)}]
        BY <2>1, <3>2
      <4> QED
        BY <3>2, <4>2, <4>3
    <3> QED
      BY <3>1, <3>2
  <2>6. Fits(h, k)
    BY <2>4, <2>5
  <2> HIDE DEF Fits, h
  <2> QED
    BY <2>6
<1>4. PICK g : Fits(g, n)
  <2> HIDE DEF T, Fits
  <2>1. \A k \in 0..n : k \in T
    BY <1>1, <1>2, <1>3, UpTo
  <2> QED
    BY <1>1, <2>1 DEF T
<1>5. Small(n) = SUBSET S
  BY <1>1
<1>6. g = [s \in SUBSET S |-> IF s = {} THEN 0 ELSE f[Chosen(s)] + g[s \ {Chosen(s)}]]
  BY <1>4, <1>5
<1> QED
  BY <1>4, <1>5, <1>6 DEF Adds

LEMMA AddsAgree ==
  ASSUME NEW S, NEW R, NEW f, NEW e, NEW g, NEW h, Adds(g, f, S), Adds(h, e, R),
         NEW U \in SUBSET (S \cap R), IsFiniteSet(U), \A x \in U : f[x] = e[x]
  PROVE  g[U] = h[U]
<1> DEFINE n == Cardinality(U)
           T == {k \in 0..n : \A s \in SUBSET U : Cardinality(s) = k => g[s] = h[s]}
<1>1. n \in Nat /\ \A s \in SUBSET U : IsFiniteSet(s) /\ Cardinality(s) \in 0..n
  BY FS_CardinalityType, FS_Subset
<1>2. 0 \in T
  BY <1>1, AddsIs, FS_EmptySet
<1>3. ASSUME NEW k \in 1..n, k - 1 \in T PROVE k \in T
  <2> SUFFICES ASSUME NEW s \in SUBSET U, Cardinality(s) = k PROVE g[s] = h[s]
    OBVIOUS
  <2>1. s # {} /\ s \in SUBSET S /\ s \in SUBSET R
    BY FS_EmptySet
  <2>5. Chosen(s) \in s /\ g[s] = f[Chosen(s)] + g[s \ {Chosen(s)}]
    BY <2>1 DEF Adds, Chosen
  <2>6. h[s] = e[Chosen(s)] + h[s \ {Chosen(s)}]
    BY <2>1 DEF Adds, Chosen
  <2>2. /\ Chosen(s) \in s /\ g[s] = f[Chosen(s)] + g[s \ {Chosen(s)}]
        /\ h[s] = e[Chosen(s)] + h[s \ {Chosen(s)}]
    BY <2>5, <2>6
  <2>3. Cardinality(s \ {Chosen(s)}) = k - 1
    BY <1>1, <2>2, OneLess
  <2>4. g[s \ {Chosen(s)}] = h[s \ {Chosen(s)}]
    BY <1>3, <2>3
  <2> QED
    BY <2>2, <2>4
<1>4. n \in T
  <2> HIDE DEF T
  <2>1. \A k \in 0..n : k \in T
    BY <1>1, <1>2, <1>3, UpTo
  <2> QED
    BY <1>1, <2>1
<1> QED
  BY <1>4

Splits(g, f, S) == \A x \in S : g[S] = f[x] + g[S \ {x}]

(* Whichever summand is taken out, the rest is the sum of the others.        *)
LEMMA AddsAny ==
  ASSUME NEW S, IsFiniteSet(S), NEW f, \A x \in S : f[x] \in Int,
         NEW g, g \in [SUBSET S -> Int], Adds(g, f, S)
  PROVE  Splits(g, f, S)
<1> USE DEF Splits
<1> DEFINE n == Cardinality(S)
           Free(s) == \A x \in s : g[s] = f[x] + g[s \ {x}]
           T == {k \in 0..n : \A s \in SUBSET S : Cardinality(s) = k => Free(s)}
<1>1. n \in Nat /\ \A s \in SUBSET S : IsFiniteSet(s) /\ Cardinality(s) \in 0..n
  BY FS_CardinalityType, FS_Subset
<1>2. 0 \in T
  BY <1>1, FS_EmptySet
<1>3. ASSUME NEW k \in 1..n, k - 1 \in T PROVE k \in T
  <2> SUFFICES ASSUME NEW s \in SUBSET S, Cardinality(s) = k, NEW x \in s
               PROVE  g[s] = f[x] + g[s \ {x}]
    OBVIOUS
  <2> DEFINE y == Chosen(s)
  <2>0. s \in SUBSET S /\ s # {} /\ Adds(g, f, S)
    OBVIOUS
  <2>1. y \in s /\ g[s] = f[y] + g[s \ {y}]
    BY ONLY <2>0, AddsIs
  <2> HIDE DEF y
  <2>2. CASE x = y
    BY <2>1, <2>2
  <2>3. CASE x # y
    <3> DEFINE both == s \ {x, y}
    <3>1. Cardinality(s \ {x}) = k - 1 /\ Cardinality(s \ {y}) = k - 1
      BY <1>1, <2>1, OneLess
    <3>2. Free(s \ {x}) /\ Free(s \ {y})
      BY <1>3, <3>1
    <3>3. both = (s \ {x}) \ {y} /\ both = (s \ {y}) \ {x} /\ both \in SUBSET S
      OBVIOUS
    <3> HIDE DEF both
    <3>4. g[s \ {x}] = f[y] + g[both] /\ g[s \ {y}] = f[x] + g[both]
      BY <2>1, <2>3, <3>2, <3>3
    <3>5. f[x] \in Int /\ f[y] \in Int /\ g[both] \in Int
      BY <2>1, <3>3
    <3> QED
      BY <2>1, <3>4, <3>5
  <2> QED
    BY <2>2, <2>3
<1>4. n \in T
  <2> HIDE DEF T
  <2>1. \A k \in 0..n : k \in T
    BY <1>1, <1>2, <1>3, UpTo
  <2> QED
    BY <1>1, <2>1
<1> QED
  BY <1>4

LEMMA SumIs ==
  ASSUME NEW S, IsFiniteSet(S), NEW f, \A x \in S : f[x] \in Int
  PROVE  /\ SumFunctionOnSet(f, S) \in Int
         /\ S = {} => SumFunctionOnSet(f, S) = 0
         /\ \A x \in S : SumFunctionOnSet(f, S) = f[x] + SumFunctionOnSet(f, S \ {x})
<1>1. PICK g \in [SUBSET S -> Int] : Adds(g, f, S)
  BY AddsExists
<1>2. ASSUME NEW U \in SUBSET S PROVE SumFunctionOnSet(f, U) = g[U]
  <2>1. IsFiniteSet(U)
    BY FS_Subset
  <2>2. \E h : Adds(h, f, U)
    BY <2>1, AddsExists
  <2>3. PICK h : Adds(h, f, U) /\ SumFunctionOnSet(f, U) = h[U]
    BY <2>2, SumRuns
  <2> QED
    BY <1>1, <2>1, <2>3, AddsAgree
<1>3. \A x \in S : S \ {x} \in SUBSET S
  OBVIOUS
<1>4. g[S] \in Int /\ SumFunctionOnSet(f, S) = g[S]
  BY <1>1, <1>2
<1>5. S = {} => g[S] = 0
  BY <1>1 DEF Adds
<1>6. \A x \in S : g[S] = f[x] + g[S \ {x}]
  <2>1. Splits(g, f, S)
    BY <1>1, AddsAny
  <2> QED
    BY <2>1, Zenon DEF Splits
<1>7. \A x \in S : SumFunctionOnSet(f, S \ {x}) = g[S \ {x}]
  BY <1>2, <1>3
<1> QED
  BY <1>4, <1>5, <1>6, <1>7

LEMMA SumSame ==
  ASSUME NEW S, IsFiniteSet(S), NEW f, NEW e, \A x \in S : f[x] \in Int /\ f[x] = e[x]
  PROVE  SumFunctionOnSet(f, S) = SumFunctionOnSet(e, S)
<1>1. \A x \in S : e[x] \in Int
  OBVIOUS
<1>2. (\E g : Adds(g, f, S)) /\ (\E g : Adds(g, e, S))
  BY <1>1, AddsExists
<1>3. PICK g : Adds(g, f, S) /\ SumFunctionOnSet(f, S) = g[S]
  BY <1>2, SumRuns
<1>4. PICK h : Adds(h, e, S) /\ SumFunctionOnSet(e, S) = h[S]
  BY <1>2, SumRuns
<1> QED
  BY <1>3, <1>4, AddsAgree

(* One summand changes.                                                      *)
LEMMA SumChanged ==
  ASSUME NEW S, IsFiniteSet(S), NEW f \in [S -> Int], NEW e \in [S -> Int], NEW x \in S,
         \A y \in S : y # x => e[y] = f[y]
  PROVE  /\ SumFunction(f) \in Int /\ SumFunction(e) \in Int
         /\ SumFunction(e) = SumFunction(f) - f[x] + e[x]
<1> DEFINE R == S \ {x}
<1>1. DOMAIN f = S /\ DOMAIN e = S /\ IsFiniteSet(R)
  BY FS_Subset
<1>2. /\ SumFunctionOnSet(f, S) = f[x] + SumFunctionOnSet(f, R)
      /\ SumFunctionOnSet(e, S) = e[x] + SumFunctionOnSet(e, R)
  BY SumIs
<1>3. \A y \in R : f[y] \in Int /\ f[y] = e[y] /\ e[y] \in Int
  OBVIOUS
<1>4. SumFunctionOnSet(f, R) = SumFunctionOnSet(e, R)
  BY <1>1, <1>3, SumSame
<1>5. SumFunctionOnSet(f, R) \in Int
  BY <1>1, <1>3, SumIs
<1>6. f[x] \in Int /\ e[x] \in Int
  OBVIOUS
<1> QED
  BY <1>1, <1>2, <1>4, <1>5, <1>6 DEF SumFunction

LEMMA SumIsNat ==
  ASSUME NEW S, IsFiniteSet(S), NEW f, \A x \in S : f[x] \in Nat
  PROVE  SumFunctionOnSet(f, S) \in Nat
<1> DEFINE n == Cardinality(S)
           T == {k \in 0..n : \A U \in SUBSET S : Cardinality(U) = k => SumFunctionOnSet(f, U) \in Nat}
<1>1. n \in Nat /\ \A U \in SUBSET S : IsFiniteSet(U) /\ Cardinality(U) \in 0..n
  BY FS_CardinalityType, FS_Subset
<1>2. ASSUME NEW U \in SUBSET S
      PROVE  /\ U = {} => SumFunctionOnSet(f, U) = 0
             /\ \A x \in U : SumFunctionOnSet(f, U) = f[x] + SumFunctionOnSet(f, U \ {x})
  <2>1. IsFiniteSet(U) /\ \A x \in U : f[x] \in Int
    BY <1>1
  <2> QED
    BY <2>1, SumIs
<1>3. 0 \in T
  BY <1>1, <1>2, FS_EmptySet
<1>4. ASSUME NEW k \in 1..n, k - 1 \in T PROVE k \in T
  <2> SUFFICES ASSUME NEW U \in SUBSET S, Cardinality(U) = k
               PROVE  SumFunctionOnSet(f, U) \in Nat
    BY <1>4
  <2>1. PICK x \in U : TRUE
    BY FS_EmptySet
  <2>2. Cardinality(U \ {x}) = k - 1 /\ U \ {x} \in SUBSET S
    BY <1>1, OneLess
  <2>3. SumFunctionOnSet(f, U \ {x}) \in Nat
    BY <1>4, <2>2
  <2>4. SumFunctionOnSet(f, U) = f[x] + SumFunctionOnSet(f, U \ {x}) /\ f[x] \in Nat
    BY <1>2, <2>1
  <2> QED
    BY <2>3, <2>4
<1> HIDE DEF T
<1>5. \A k \in 0..n : k \in T
  BY <1>1, <1>3, <1>4, UpTo
<1>6. n \in T
  BY <1>1, <1>5
<1> QED
  BY <1>6 DEF T

(* Sums along sequences: nothing, and one summand more.                     *)
LEMMA SumAppended ==
  ASSUME NEW n \in Nat, NEW f \in [1..n + 1 -> Int], NEW e \in [1..n -> Int],
         \A i \in 1..n : e[i] = f[i]
  PROVE  /\ SumFunction(f) \in Int /\ SumFunction(e) \in Int
         /\ SumFunction(f) = SumFunction(e) + f[n + 1]
<1> DEFINE S == 1..n + 1
           R == 1..n
           m == n + 1
<1>1. IsFiniteSet(S) /\ IsFiniteSet(R)
  BY FS_Interval
<1>2. m \in S /\ S \ {m} = R /\ DOMAIN f = S /\ DOMAIN e = R
  OBVIOUS
<1>3. (\A i \in S : f[i] \in Int) /\ \A i \in R : e[i] \in Int /\ e[i] = f[i]
  OBVIOUS
<1>4. SumFunction(f) = SumFunctionOnSet(f, S) /\ SumFunction(e) = SumFunctionOnSet(e, R)
  BY <1>2 DEF SumFunction
<1> HIDE DEF S, R, m
<1>5. /\ SumFunctionOnSet(f, S) = f[m] + SumFunctionOnSet(f, R)
      /\ SumFunctionOnSet(f, S) \in Int /\ f[m] \in Int
  BY <1>1, <1>2, <1>3, SumIs
<1>6. SumFunctionOnSet(e, R) = SumFunctionOnSet(f, R)
  BY <1>1, <1>3, SumSame
<1>7. SumFunctionOnSet(e, R) \in Int
  BY <1>1, <1>3, SumIs
<1>8. /\ SumFunction(f) \in Int /\ SumFunction(e) \in Int
      /\ SumFunction(f) = SumFunction(e) + f[m]
  BY <1>4, <1>5, <1>6, <1>7
<1> QED
  BY <1>8 DEF m
===============================================================================
