------------------------ MODULE TransactionQueueProofs ------------------------
(***************************************************************************)
(* What holds of TransactionQueue for any transactions, prices, limits and *)
(* blocks.  First the heaps: their loops are runs (see Induction), a step  *)
(* of a run keeps the items and the order around the item that moves, and  *)
(* so a push or a pop leaves a heap of the right items.  Then the          *)
(* inductive invariant, one lemma per action, and the theorems.            *)
(***************************************************************************)
EXTENDS TransactionQueue, SequenceTheorems, Induction

(* Arithmetic of the positions of a heap.                                   *)
LEMMA Halves ==
  ASSUME NEW i \in Nat
  PROVE  /\ i \div 2 \in Nat
         /\ 2 * (i \div 2) <= i /\ i <= 2 * (i \div 2) + 1
OBVIOUS

Slots(n) == [heap : [1..n -> Item], at : 1..n]

(* An array of n items is a sequence of length n.                           *)
LEMMA ArrayIsSeq ==
  ASSUME NEW n \in Nat, NEW S, NEW h \in [1..n -> S]
  PROVE  h \in Seq(S) /\ Len(h) = n
OBVIOUS

(* Less is a strict order of the items in which ~Less is transitive.        *)
LEMMA LessOrder ==
  ASSUME NEW x \in Item, NEW y \in Item, NEW z \in Item
  PROVE  /\ Less(x, y) => ~Less(y, x)
         /\ ~Less(x, y) /\ ~Less(y, z) => ~Less(x, z)
BY DEF Less, Item

(* Two items change places.                                                 *)
LEMMA SwappedIs ==
  ASSUME NEW n \in Nat, NEW h \in [1..n -> Item],
         NEW p \in 1..n, NEW q \in 1..n
  PROVE  /\ Swapped(h, p, q) \in [1..n -> Item]
         /\ \A i \in 1..n : Swapped(h, p, q)[i] =
              IF i = q THEN h[p] ELSE IF i = p THEN h[q] ELSE h[i]
BY DEF Swapped

(* A step of either loop leaves a heap of the same size and a position in   *)
(* it.                                                                      *)
LEMMA RiseStepType ==
  ASSUME NEW n \in Nat, NEW r \in Slots(n)
  PROVE  RiseStep(r) \in Slots(n)
BY Halves, SwappedIs DEF RiseStep, Slots

(* The same of a step of Sunk.                                              *)
LEMMA SinkStepType ==
  ASSUME NEW n \in Nat, NEW r \in Slots(n)
  PROVE  SinkStep(r) \in Slots(n)
BY SwappedIs, ArrayIsSeq DEF SinkStep, LesserChild, Slots

(* The loops of Risen and Sunk are runs of their steps.                     *)
Rises(g, r, n) ==
  /\ g \in [0..r.at -> Slots(n)]
  /\ g[0] = r
  /\ \A k \in 1..r.at : g[k] = RiseStep(g[k - 1])

LEMMA RisenRuns ==
  ASSUME NEW n \in Nat, NEW r \in Slots(n)
  PROVE  \E g : Rises(g, r, n) /\ Risen(r) = g[r.at].heap
<1> DEFINE F == [k \in 1..r.at |-> [s \in Slots(n) |-> RiseStep(s)]]
           step[k \in 0..r.at] == IF k = 0 THEN r ELSE RiseStep(step[k - 1])
<1>1. r.at \in Nat
  BY DEF Slots
<1>2. Loop(F, r.at, Slots(n))
  BY RiseStepType DEF Loop
<1>3. PICK g : Run(g, F, r.at, Slots(n), r)
  <2> HIDE DEF F
  <2> QED
    BY <1>1, <1>2, Rounds
<1>4. ASSUME NEW k \in 1..r.at PROVE g[k] = RiseStep(g[k - 1])
  <2>1. \A s \in Slots(n) : F[k][s] = RiseStep(s)
    OBVIOUS
  <2> HIDE DEF F
  <2> QED
    BY <1>1, <1>3, <2>1 DEF Run
<1>5. g = [k \in 0..r.at |-> IF k = 0 THEN r ELSE RiseStep(g[k - 1])]
  BY <1>1, <1>3, <1>4 DEF Run
<1>6. step = [k \in 0..r.at |-> IF k = 0 THEN r ELSE RiseStep(step[k - 1])]
  BY <1>5, Zenon
<1>7. Risen(r) = step[r.at].heap
  BY DEF Risen
<1> HIDE DEF step
<1>8. step[0] = r /\ \A k \in 1..r.at : step[k] = RiseStep(step[k - 1])
  BY <1>1, <1>6
<1>9. \A k \in 0..r.at : step[k] \in Slots(n)
  <2> DEFINE T == {k \in 0..r.at : step[k] \in Slots(n)}
  <2>1. 0 \in T /\ \A k \in 1..r.at : k - 1 \in T => k \in T
    BY <1>1, <1>8, RiseStepType
  <2> HIDE DEF T
  <2>2. \A k \in 0..r.at : k \in T
    BY <1>1, <2>1, UpTo
  <2> QED
    BY <2>2 DEF T
<1>10. Rises(step, r, n)
  BY <1>1, <1>6, <1>8, <1>9 DEF Rises
<1> QED
  BY <1>7, <1>10

Sinks(g, r, n) ==
  /\ g \in [0..n -> Slots(n)]
  /\ g[0] = r
  /\ \A k \in 1..n : g[k] = SinkStep(g[k - 1])

(* The loop of Sunk.                                                        *)
LEMMA SunkRuns ==
  ASSUME NEW n \in Nat, NEW r \in Slots(n)
  PROVE  \E g : Sinks(g, r, n) /\ Sunk(r) = g[n]
<1> DEFINE F == [k \in 1..n |-> [s \in Slots(n) |-> SinkStep(s)]]
           m == Len(r.heap)
           step[k \in 0..m] == IF k = 0 THEN r ELSE SinkStep(step[k - 1])
<1>1. m = n
  BY ArrayIsSeq DEF Slots
<1>2. Loop(F, n, Slots(n))
  BY SinkStepType DEF Loop
<1>3. PICK g : Run(g, F, n, Slots(n), r)
  <2> HIDE DEF F
  <2> QED
    BY <1>2, Rounds
<1>4. ASSUME NEW k \in 1..n PROVE g[k] = SinkStep(g[k - 1])
  <2>1. \A s \in Slots(n) : F[k][s] = SinkStep(s)
    OBVIOUS
  <2> HIDE DEF F
  <2> QED
    BY <1>3, <2>1 DEF Run
<1>5. Sunk(r) = step[m]
  BY DEF Sunk
<1> HIDE DEF m
<1>6. g = [k \in 0..m |-> IF k = 0 THEN r ELSE SinkStep(g[k - 1])]
  BY <1>1, <1>3, <1>4 DEF Run
<1>7. step = [k \in 0..m |-> IF k = 0 THEN r ELSE SinkStep(step[k - 1])]
  BY <1>6, Zenon
<1> HIDE DEF step
<1>8. step[0] = r /\ \A k \in 1..n : step[k] = SinkStep(step[k - 1])
  BY <1>1, <1>7
<1>9. \A k \in 0..n : step[k] \in Slots(n)
  <2> DEFINE T == {k \in 0..n : step[k] \in Slots(n)}
  <2>1. 0 \in T /\ \A k \in 1..n : k - 1 \in T => k \in T
    BY <1>8, SinkStepType
  <2> HIDE DEF T
  <2>2. \A k \in 0..n : k \in T
    BY <2>1, UpTo
  <2> QED
    BY <2>2 DEF T
<1>10. Sinks(step, r, n)
  BY <1>1, <1>7, <1>8, <1>9 DEF Sinks
<1> QED
  BY <1>1, <1>5, <1>10
-------------------------------------------------------------------------------
(* What a step of either loop keeps: the items in the array, and that no    *)
(* two of them are of one transaction.                                      *)
Items(h) == {h[i] : i \in 1..Len(h)}
Distinct(h) == \A i, j \in 1..Len(h) : h[i].tx = h[j].tx => i = j
Keeps(h, g) == Items(g) = Items(h) /\ (Distinct(h) => Distinct(g))

(* Changing places keeps them.                                              *)
LEMMA SwappedKeeps ==
  ASSUME NEW n \in Nat, NEW h \in [1..n -> Item],
         NEW p \in 1..n, NEW q \in 1..n
  PROVE  Keeps(h, Swapped(h, p, q))
<1> DEFINE g == Swapped(h, p, q)
<1>1. /\ g \in [1..n -> Item]
      /\ \A i \in 1..n : g[i] = IF i = q THEN h[p] ELSE IF i = p THEN h[q] ELSE h[i]
  BY SwappedIs
<1>2. Len(h) = n /\ Len(g) = n
  BY <1>1, ArrayIsSeq
<1> HIDE DEF g
<1>3. \A i \in 1..n : \E j \in 1..n : g[i] = h[j]
  BY <1>1
<1>4. \A j \in 1..n : \E i \in 1..n : g[i] = h[j]
  BY <1>1
<1>5. Items(g) = Items(h)
  BY <1>2, <1>3, <1>4 DEF Items
<1>6. Distinct(h) => Distinct(g)
  BY <1>1, <1>2 DEF Distinct
<1> QED
  BY <1>5, <1>6 DEF Keeps, g

(* The order of the heap, broken only at the item that rises: above it, or, *)
(* while the item sinks, around it.                                         *)
HeapOrdered(h) == \A i \in 2..Len(h) : ~Less(h[i], h[i \div 2])

Bridged(r) ==
  \A i \in 2..Len(r.heap) : i \div 2 = r.at /\ r.at > 1 =>
    ~Less(r.heap[i], r.heap[r.at \div 2])
Rising(r) ==
  /\ \A i \in 2..Len(r.heap) : i # r.at => ~Less(r.heap[i], r.heap[i \div 2])
  /\ Bridged(r)
Sinking(r) ==
  /\ \A i \in 2..Len(r.heap) : i # r.at /\ i \div 2 # r.at =>
       ~Less(r.heap[i], r.heap[i \div 2])
  /\ Bridged(r)

Settled(r) == r.at = 1 \/ ~Less(r.heap[r.at], r.heap[r.at \div 2])
Landed(r) == 2 * r.at > Len(r.heap)

(* A rising item moves up until it is settled.                              *)
LEMMA RiseStepKeeps ==
  ASSUME NEW n \in Nat, NEW r \in Slots(n)
  PROVE  /\ Keeps(r.heap, RiseStep(r).heap)
         /\ IF Settled(r) THEN RiseStep(r) = r ELSE RiseStep(r).at < r.at
<1> DEFINE above == r.at \div 2
<1>1. CASE r.at > 1 /\ Less(r.heap[r.at], r.heap[above])
  <2>1. above \in 1..n /\ r.at \in 1..n /\ above < r.at /\ r.heap \in [1..n -> Item]
    BY <1>1, Halves DEF Slots
  <2>2. /\ RiseStep(r) = [heap |-> Swapped(r.heap, r.at, above), at |-> above]
        /\ ~Settled(r)
    BY <1>1 DEF RiseStep, Settled
  <2> QED
    BY <2>1, <2>2, SwappedKeeps
<1>2. CASE ~(r.at > 1 /\ Less(r.heap[r.at], r.heap[above]))
  <2>1. RiseStep(r) = r /\ Settled(r)
    BY <1>2 DEF RiseStep, Slots, Settled
  <2> QED
    BY <2>1 DEF Keeps
<1> QED
  BY <1>1, <1>2

(* While it rises, the order is broken at no other place.                   *)
LEMMA RiseStepOrder ==
  ASSUME NEW n \in Nat, NEW r \in Slots(n), Rising(r)
  PROVE  Rising(RiseStep(r))
<1> DEFINE above == r.at \div 2
<1> SUFFICES ASSUME r.at > 1, Less(r.heap[r.at], r.heap[above])
             PROVE  Rising(RiseStep(r))
  BY DEF RiseStep
<1> DEFINE h == r.heap
           g == Swapped(h, r.at, above)
<1>1. /\ above \in 1..n /\ r.at \in 2..n /\ above < r.at
      /\ h \in [1..n -> Item] /\ Len(h) = n
  BY Halves, ArrayIsSeq DEF Slots
<1>2. /\ g \in [1..n -> Item] /\ Len(g) = n
      /\ \A i \in 1..n : g[i] = IF i = above THEN h[r.at]
                                ELSE IF i = r.at THEN h[above] ELSE h[i]
  <2>1. r.at \in 1..n
    BY <1>1
  <2> HIDE DEF h, above
  <2>2. /\ g \in [1..n -> Item]
        /\ \A i \in 1..n : g[i] = IF i = above THEN h[r.at]
                                ELSE IF i = r.at THEN h[above] ELSE h[i]
    BY <1>1, <2>1, SwappedIs
  <2> HIDE DEF g
  <2> QED
    BY <2>2, ArrayIsSeq
<1>3. RiseStep(r) = [heap |-> g, at |-> above]
  BY DEF RiseStep
<1>4. /\ \A i \in 2..n : i # r.at => ~Less(h[i], h[i \div 2])
      /\ \A i \in 2..n : i \div 2 = r.at => ~Less(h[i], h[above])
      /\ Less(h[r.at], h[above])
  BY <1>1 DEF Rising, Bridged
<1> HIDE DEF h, g
<1>5. ASSUME NEW i \in 2..n, i # above PROVE ~Less(g[i], g[i \div 2])
  <2>0. i \div 2 \in 1..n /\ i \div 2 < i
    BY Halves
  <2>1. CASE i = r.at
    BY <1>1, <1>2, <1>4, <2>0, <2>1, LessOrder
  <2>2. CASE i # r.at /\ i \div 2 = r.at
    BY <1>1, <1>2, <1>4, <1>5, <2>0, <2>2
  <2>3. CASE i # r.at /\ i \div 2 = above
    BY <1>1, <1>2, <1>4, <1>5, <2>0, <2>3, LessOrder
  <2>4. CASE i # r.at /\ i \div 2 # r.at /\ i \div 2 # above
    BY <1>1, <1>2, <1>4, <1>5, <2>0, <2>4
  <2> QED
    BY <2>1, <2>2, <2>3, <2>4
<1>6. ASSUME NEW i \in 2..n, i \div 2 = above, above > 1
      PROVE  ~Less(g[i], g[above \div 2])
  <2>1. above \div 2 \in 1..n /\ above \div 2 < above /\ above \in 2..n
    BY <1>1, <1>6, Halves
  <2>2. i # above
    BY <1>1, <1>6, Halves
  <2>3. ~Less(h[above], h[above \div 2])
    BY <1>1, <1>4, <2>1
  <2>4. CASE i = r.at
    BY <1>1, <1>2, <2>1, <2>3, <2>4
  <2>5. CASE i # r.at
    BY <1>1, <1>2, <1>4, <1>6, <2>1, <2>2, <2>3, <2>5, LessOrder
  <2> QED
    BY <2>4, <2>5
<1> QED
  <2> DEFINE s == RiseStep(r)
  <2>1. s.heap = g /\ s.at = above /\ Len(s.heap) = n
    BY <1>2, <1>3
  <2> HIDE DEF s
  <2>2. Rising(s)
    BY <1>5, <1>6, <2>1 DEF Rising, Bridged
  <2> QED
    BY <2>2 DEF s

(* A sinking item moves down until it is on a leaf.                         *)
LEMMA SinkStepKeeps ==
  ASSUME NEW n \in Nat, NEW r \in Slots(n)
  PROVE  /\ Keeps(r.heap, SinkStep(r).heap)
         /\ IF Landed(r) THEN SinkStep(r) = r ELSE SinkStep(r).at > r.at
<1> DEFINE below == LesserChild(r.heap, r.at)
<1>0. Len(r.heap) = n
  BY ArrayIsSeq DEF Slots
<1>1. CASE 2 * r.at <= n
  <2>1. below \in 1..n /\ r.at \in 1..n /\ below > r.at /\ r.heap \in [1..n -> Item]
    BY <1>0, <1>1 DEF Slots, LesserChild
  <2>2. /\ SinkStep(r) = [heap |-> Swapped(r.heap, r.at, below), at |-> below]
        /\ ~Landed(r)
    BY <1>0, <1>1 DEF SinkStep, Landed, Slots
  <2> HIDE DEF below
  <2> QED
    BY <2>1, <2>2, SwappedKeeps
<1>2. CASE ~(2 * r.at <= n)
  <2>1. SinkStep(r) = r /\ Landed(r)
    BY <1>0, <1>2 DEF SinkStep, Slots, Landed
  <2> QED
    BY <2>1 DEF Keeps
<1> QED
  BY <1>1, <1>2

(* While it sinks, the order is broken only around it.                      *)
LEMMA SinkStepOrder ==
  ASSUME NEW n \in Nat, NEW r \in Slots(n), Sinking(r)
  PROVE  Sinking(SinkStep(r))
<1> DEFINE h == r.heap
           p == r.at
           c == LesserChild(h, p)
           g == Swapped(h, p, c)
<1>0. h \in [1..n -> Item] /\ Len(h) = n /\ p \in 1..n
  BY ArrayIsSeq DEF Slots
<1> SUFFICES ASSUME 2 * p <= n PROVE Sinking(SinkStep(r))
  BY <1>0 DEF SinkStep
<1>1. /\ c \in 2..n /\ c \div 2 = p /\ p < c
      /\ \A i \in 2..n : i \div 2 = p /\ i # c => ~Less(h[i], h[c])
  <2>1. c \in 2..n /\ c \in {2 * p, 2 * p + 1}
    BY <1>0 DEF LesserChild
  <2>2. \A i \in 2..n : i \div 2 = p => i \in {2 * p, 2 * p + 1}
    BY <1>0, Halves
  <2>3. c \div 2 = p /\ p < c
    BY <1>0, <2>1, Halves
  <2>4. ASSUME 2 * p + 1 <= n, c = 2 * p PROVE ~Less(h[2 * p + 1], h[c])
    <3>1. Less(h[2 * p], h[2 * p + 1])
      BY <1>0, <2>4 DEF LesserChild
    <3>2. h[2 * p] \in Item /\ h[2 * p + 1] \in Item
      BY <1>0, <2>4
    <3> QED
      BY <2>4, <3>1, <3>2, LessOrder
  <2>5. ASSUME c = 2 * p + 1 PROVE ~Less(h[2 * p], h[c])
    BY <1>0, <2>5 DEF LesserChild
  <2> HIDE DEF c, h, p
  <2>6. ASSUME NEW i \in 2..n, i \div 2 = p, i # c PROVE ~Less(h[i], h[c])
    <3>1. (i = 2 * p /\ c = 2 * p + 1) \/ (i = 2 * p + 1 /\ c = 2 * p)
      BY <2>1, <2>2, <2>6
    <3> QED
      BY <2>4, <2>5, <3>1
  <2> QED
    BY <2>1, <2>3, <2>6
<1>2. SinkStep(r) = [heap |-> g, at |-> c]
  BY <1>0 DEF SinkStep
<1>3. /\ \A i \in 2..n : i # p /\ i \div 2 # p => ~Less(h[i], h[i \div 2])
      /\ p > 1 => \A i \in 2..n : i \div 2 = p => ~Less(h[i], h[p \div 2])
  BY <1>0 DEF Sinking, Bridged
<1> HIDE DEF h, p, c
<1>4. /\ g \in [1..n -> Item] /\ Len(g) = n
      /\ \A i \in 1..n : g[i] = IF i = c THEN h[p] ELSE IF i = p THEN h[c] ELSE h[i]
  <2>1. /\ g \in [1..n -> Item]
        /\ \A i \in 1..n : g[i] = IF i = c THEN h[p] ELSE IF i = p THEN h[c] ELSE h[i]
    BY <1>0, <1>1, SwappedIs
  <2> HIDE DEF g
  <2> QED
    BY <2>1, ArrayIsSeq
<1> HIDE DEF g
<1>5. ASSUME NEW i \in 2..n, i # c, i \div 2 # c PROVE ~Less(g[i], g[i \div 2])
  <2>0. i \div 2 \in 1..n /\ i \div 2 < i
    BY Halves
  <2>1. CASE i = p
    <3>1. ~Less(h[c], h[p \div 2])
      BY <1>1, <1>3, <2>1
    <3> QED
      BY <1>0, <1>1, <1>4, <1>5, <2>0, <2>1, <3>1
  <2>2. CASE i # p /\ i \div 2 = p
    <3>1. ~Less(h[i], h[c])
      BY <1>1, <1>5, <2>2
    <3> QED
      BY <1>0, <1>1, <1>4, <1>5, <2>0, <2>2, <3>1
  <2>3. CASE i # p /\ i \div 2 # p
    BY <1>0, <1>1, <1>3, <1>4, <1>5, <2>0, <2>3
  <2> QED
    BY <2>1, <2>2, <2>3
<1>6. ASSUME NEW i \in 2..n, i \div 2 = c PROVE ~Less(g[i], g[c \div 2])
  <2>1. i # p /\ i # c /\ i \div 2 # p
    BY <1>0, <1>1, <1>6, Halves
  <2>2. ~Less(h[i], h[c])
    BY <1>3, <1>6, <2>1
  <2> QED
    BY <1>0, <1>1, <1>4, <2>1, <2>2
<1> QED
  <2> DEFINE s == SinkStep(r)
  <2>1. s.heap = g /\ s.at = c /\ Len(s.heap) = n
    BY <1>2, <1>4
  <2> HIDE DEF s
  <2>2. Sinking(s)
    BY <1>5, <1>6, <2>1 DEF Sinking, Bridged
  <2> QED
    BY <2>2 DEF s

(* What each step keeps, the run keeps.                                     *)
LEMMA KeepsOn ==
  ASSUME NEW a, NEW b, NEW c, Keeps(a, b), Keeps(b, c)
  PROVE  Keeps(a, c)
BY DEF Keeps

(* Risen keeps the items and leaves a heap.                                 *)
LEMMA RisenIs ==
  ASSUME NEW n \in Nat, NEW r \in Slots(n)
  PROVE  /\ Risen(r) \in [1..n -> Item] /\ Len(Risen(r)) = n
         /\ Keeps(r.heap, Risen(r))
         /\ Rising(r) => HeapOrdered(Risen(r))
<1>1. PICK g : Rises(g, r, n) /\ Risen(r) = g[r.at].heap
  BY RisenRuns
<1>2. r.at \in 1..n /\ r.at \in Nat /\ r.heap \in [1..n -> Item]
  BY DEF Slots
<1> DEFINE Good(k) == /\ Keeps(r.heap, g[k].heap)
                      /\ Rising(r) => Rising(g[k])
                      /\ g[k].at <= r.at - k \/ Settled(g[k])
           T == {k \in 0..r.at : Good(k)}
<1>3. 0 \in T
  BY <1>1, <1>2 DEF Rises, Keeps
<1>4. ASSUME NEW k \in 1..r.at, k - 1 \in T PROVE k \in T
  <2>1. g[k - 1] \in Slots(n) /\ g[k] \in Slots(n) /\ g[k] = RiseStep(g[k - 1])
    <3> HIDE DEF T, Good
    <3>1. k \in 0..r.at /\ k - 1 \in 0..r.at
      BY <1>2, <1>4
    <3>2. /\ \A i \in 0..r.at : g[i] \in Slots(n)
          /\ \A i \in 1..r.at : g[i] = RiseStep(g[i - 1])
      BY <1>1, Zenon DEF Rises
    <3> QED
      BY <1>4, <3>1, <3>2, Zenon
  <2>2. Good(k - 1)
    BY <1>4
  <2>3. Keeps(r.heap, g[k].heap)
    BY <2>1, <2>2, RiseStepKeeps, KeepsOn
  <2>4. Rising(r) => Rising(g[k])
    BY <2>1, <2>2, RiseStepOrder
  <2>5. g[k].at <= r.at - k \/ Settled(g[k])
    <3>1. g[k].at \in Nat /\ g[k - 1].at \in Nat
      BY <2>1 DEF Slots
    <3>2. IF Settled(g[k - 1]) THEN g[k] = g[k - 1] ELSE g[k].at < g[k - 1].at
      BY <2>1, RiseStepKeeps
    <3> QED
      BY <1>2, <2>2, <3>1, <3>2
  <2> QED
    BY <2>3, <2>4, <2>5
<1>5. Good(r.at)
  <2> HIDE DEF T
  <2>1. \A k \in 0..r.at : k \in T
    BY <1>2, <1>3, <1>4, UpTo
  <2> QED
    BY <1>2, <2>1 DEF T
<1> DEFINE s == g[r.at]
<1>6. s \in Slots(n) /\ s.heap \in [1..n -> Item] /\ s.at \in 1..n
  BY <1>1, <1>2 DEF Rises, Slots
<1>7. Settled(s) /\ Keeps(r.heap, s.heap) /\ (Rising(r) => Rising(s))
  BY <1>2, <1>5, <1>6
<1> HIDE DEF s
<1>8. Len(s.heap) = n
  BY <1>6, ArrayIsSeq
<1>9. Rising(r) => HeapOrdered(s.heap)
  <2> SUFFICES ASSUME Rising(r), NEW i \in 2..n
               PROVE  ~Less(s.heap[i], s.heap[i \div 2])
    BY <1>8 DEF HeapOrdered
  <2>1. CASE i = s.at
    BY <1>7, <2>1 DEF Settled
  <2>2. CASE i # s.at
    BY <1>7, <1>8, <2>2 DEF Rising
  <2> QED
    BY <2>1, <2>2
<1> QED
  BY <1>1, <1>6, <1>7, <1>8, <1>9 DEF s

(* Sunk keeps the items and leaves the order broken only above the item.    *)
LEMMA SunkIs ==
  ASSUME NEW n \in Nat, NEW r \in Slots(n)
  PROVE  /\ Sunk(r) \in Slots(n)
         /\ Keeps(r.heap, Sunk(r).heap)
         /\ Sinking(r) => Rising(Sunk(r))
<1>1. PICK g : Sinks(g, r, n) /\ Sunk(r) = g[n]
  BY SunkRuns
<1>2. r.at \in 1..n /\ r.heap \in [1..n -> Item]
  BY DEF Slots
<1> DEFINE Good(k) == /\ Keeps(r.heap, g[k].heap)
                      /\ Sinking(r) => Sinking(g[k])
                      /\ g[k].at >= k + 1 \/ Landed(g[k])
           T == {k \in 0..n : Good(k)}
<1>3. 0 \in T
  BY <1>1, <1>2 DEF Sinks, Keeps
<1>4. ASSUME NEW k \in 1..n, k - 1 \in T PROVE k \in T
  <2>1. g[k - 1] \in Slots(n) /\ g[k] \in Slots(n) /\ g[k] = SinkStep(g[k - 1])
    BY <1>1 DEF Sinks
  <2>2. Good(k - 1)
    BY <1>4
  <2>3. Keeps(r.heap, g[k].heap)
    BY <2>1, <2>2, SinkStepKeeps, KeepsOn
  <2>4. Sinking(r) => Sinking(g[k])
    BY <2>1, <2>2, SinkStepOrder
  <2>5. g[k].at >= k + 1 \/ Landed(g[k])
    <3>1. g[k].at \in Nat /\ g[k - 1].at \in Nat
      BY <2>1 DEF Slots
    <3>2. IF Landed(g[k - 1]) THEN g[k] = g[k - 1] ELSE g[k].at > g[k - 1].at
      BY <2>1, SinkStepKeeps
    <3> QED
      BY <2>2, <3>1, <3>2
  <2> QED
    BY <2>3, <2>4, <2>5
<1>5. Good(n)
  <2> HIDE DEF T
  <2>1. \A k \in 0..n : k \in T
    BY <1>3, <1>4, UpTo
  <2> QED
    BY <2>1 DEF T
<1> DEFINE s == g[n]
<1>6. s \in Slots(n) /\ s.heap \in [1..n -> Item] /\ s.at \in 1..n
  <2>1. s \in Slots(n)
    BY <1>1 DEF Sinks
  <2> QED
    BY <2>1 DEF Slots
<1>7. Landed(s) /\ Keeps(r.heap, s.heap) /\ (Sinking(r) => Sinking(s))
  BY <1>5, <1>6
<1> HIDE DEF s
<1>8. Len(s.heap) = n
  BY <1>6, ArrayIsSeq
<1>9. \A i \in 2..n : i \div 2 # s.at
  BY <1>6, <1>7, <1>8, Halves DEF Landed
<1>10. Sinking(s) => Rising(s)
  BY <1>8, <1>9 DEF Sinking, Rising
<1> QED
  BY <1>1, <1>6, <1>7, <1>10 DEF s

-------------------------------------------------------------------------------
TxOf(h) == {h[i].tx : i \in 1..Len(h)}

(* heappush adds one item, heappop takes the top one away; both leave a     *)
(* heap if they were given one.                                             *)
LEMMA PushIs ==
  ASSUME NEW h \in Seq(Item), NEW x \in Item
  PROVE  /\ HeapPush(h, x) \in Seq(Item)
         /\ Len(HeapPush(h, x)) = Len(h) + 1
         /\ Items(HeapPush(h, x)) = Items(h) \cup {x}
         /\ Distinct(h) /\ x.tx \notin TxOf(h) => Distinct(HeapPush(h, x))
         /\ HeapOrdered(h) => HeapOrdered(HeapPush(h, x))
<1> DEFINE n == Len(h) + 1
           g == Append(h, x)
           r == [heap |-> g, at |-> n]
           p == HeapPush(h, x)
<1>1. /\ n \in Nat /\ n >= 1 /\ g \in [1..n -> Item] /\ Len(g) = n
      /\ g[n] = x /\ \A i \in 1..n - 1 : g[i] = h[i]
      /\ Len(h) = n - 1
  <2>1. Len(h) \in Nat
    BY LenProperties
  <2>2. /\ g \in Seq(Item) /\ Len(g) = n /\ g[n] = x
        /\ \A i \in 1..Len(h) : g[i] = h[i]
    BY AppendProperties
  <2> HIDE DEF g
  <2>3. g \in [1..Len(g) -> Item]
    BY <2>2, LenProperties
  <2> QED
    BY <2>1, <2>2, <2>3
<1>2. r \in Slots(n) /\ r.heap = g /\ r.at = n
  BY <1>1 DEF Slots
<1>3. p = Risen(r)
  BY DEF HeapPush
<1> HIDE DEF p, r, g, n
<1>4. /\ p \in [1..n -> Item] /\ Len(p) = n /\ Keeps(g, p)
      /\ Rising(r) => HeapOrdered(p)
  BY <1>1, <1>2, <1>3, RisenIs
<1>5. p \in Seq(Item)
  BY <1>1, <1>4, ArrayIsSeq
<1>6. Items(g) = Items(h) \cup {x}
  BY <1>1 DEF Items
<1>7. Distinct(h) /\ x.tx \notin TxOf(h) => Distinct(g)
  BY <1>1 DEF Distinct, TxOf
<1>8. HeapOrdered(h) => Rising(r)
  <2> SUFFICES ASSUME HeapOrdered(h), NEW i \in 2..n
               PROVE  /\ i # n => ~Less(g[i], g[i \div 2])
                      /\ i \div 2 # n
    BY <1>1, <1>2 DEF Rising, Bridged
  <2>1. i \div 2 \in 1..n - 1 /\ i \div 2 # n
    BY <1>1, Halves
  <2>2. ASSUME i # n PROVE ~Less(g[i], g[i \div 2])
    <3>1. i \in 2..Len(h) /\ g[i] = h[i] /\ g[i \div 2] = h[i \div 2]
      BY <1>1, <2>1, <2>2
    <3> QED
      BY <3>1 DEF HeapOrdered
  <2> QED
    BY <2>1, <2>2
<1>9. Len(p) = Len(h) + 1
  BY <1>1, <1>4
<1> QED
  BY <1>4, <1>5, <1>6, <1>7, <1>8, <1>9 DEF Keeps, p

(* HeapPop gives the root and keeps the other items in a heap.              *)
LEMMA PopIs ==
  ASSUME NEW h \in Seq(Item), h # <<>>
  PROVE  /\ HeapPop(h) \in Seq(Item)
         /\ Len(HeapPop(h)) = Len(h) - 1
         /\ Distinct(h) => /\ Items(HeapPop(h)) = Items(h) \ {h[1]}
                           /\ Distinct(HeapPop(h))
         /\ HeapOrdered(h) => HeapOrdered(HeapPop(h))
<1>0. Len(h) \in Nat /\ Len(h) >= 1 /\ h \in [1..Len(h) -> Item]
  BY EmptySeq, LenProperties
<1>1. CASE Len(h) = 1
  <2>1. HeapPop(h) = <<>>
    BY <1>1 DEF HeapPop
  <2> QED
    BY <1>0, <1>1, <2>1 DEF Items, Distinct, HeapOrdered
<1>2. CASE Len(h) # 1
  <2> DEFINE n == Len(h) - 1
             g == Lowered(h)
             r == [heap |-> g, at |-> 1]
             p == HeapPop(h)
  <2>1. /\ n \in Nat /\ n >= 1 /\ Len(h) = n + 1
        /\ g \in [1..n -> Item]
        /\ \A i \in 1..n : g[i] = IF i = 1 THEN h[n + 1] ELSE h[i]
    BY <1>0, <1>2 DEF Lowered
  <2>2. p = Risen(Sunk(r))
    BY <1>2 DEF HeapPop
  <2> HIDE DEF p, g, n
  <2>3. r \in Slots(n) /\ r.heap = g /\ r.at = 1 /\ Len(g) = n
    BY <2>1, ArrayIsSeq DEF Slots
  <2> HIDE DEF r
  <2>4. Sunk(r) \in Slots(n) /\ Keeps(g, Sunk(r).heap) /\ (Sinking(r) => Rising(Sunk(r)))
    BY <2>1, <2>3, SunkIs
  <2>5. /\ p \in [1..n -> Item] /\ Len(p) = n /\ Keeps(g, p)
        /\ Sinking(r) => HeapOrdered(p)
    BY <2>1, <2>2, <2>4, RisenIs, KeepsOn
  <2>6. p \in Seq(Item)
    BY <2>1, <2>5, ArrayIsSeq
  <2>7. Distinct(h) => Items(g) = Items(h) \ {h[1]}
    <3> SUFFICES ASSUME Distinct(h) PROVE Items(g) = Items(h) \ {h[1]}
      OBVIOUS
    <3>1. \A i \in 1..n : \E j \in 2..n + 1 : g[i] = h[j]
      BY <2>1
    <3>2. \A j \in 2..n + 1 : \E i \in 1..n : g[i] = h[j]
      <4> TAKE j \in 2..n + 1
      <4>1. CASE j = n + 1
        BY <2>1, <4>1
      <4>2. CASE j # n + 1
        BY <2>1, <4>2
      <4> QED
        BY <4>1, <4>2
    <3>3. \A j \in 2..n + 1 : h[j] # h[1]
      BY <2>1 DEF Distinct
    <3>4. Items(h) \ {h[1]} = {h[j] : j \in 2..n + 1}
      <4>1. \A j \in 1..n + 1 : j = 1 \/ j \in 2..n + 1
        OBVIOUS
      <4>2. Items(h) = {h[j] : j \in 1..n + 1}
        BY <2>1 DEF Items
      <4> QED
        BY <3>3, <4>1, <4>2
    <3>5. Items(g) = {g[i] : i \in 1..n}
      BY <2>1, <2>3 DEF Items
    <3>6. {g[i] : i \in 1..n} = {h[j] : j \in 2..n + 1}
      <4>1. \A i \in 1..n : g[i] \in {h[j] : j \in 2..n + 1}
        BY <3>1, Zenon
      <4>2. \A j \in 2..n + 1 : h[j] \in {g[i] : i \in 1..n}
        BY <3>2, Zenon
      <4> QED
        BY <4>1, <4>2, Zenon
    <3> QED
      BY <3>4, <3>5, <3>6
  <2>8. Distinct(h) => Distinct(g)
    BY <2>1, <2>3 DEF Distinct
  <2>9. HeapOrdered(h) => Sinking(r)
    <3> SUFFICES ASSUME HeapOrdered(h), NEW i \in 2..n, i \div 2 # 1
                 PROVE  ~Less(g[i], g[i \div 2])
      BY <2>1, <2>3 DEF Sinking, Bridged
    <3>1. i \div 2 \in 1..n
      BY <2>1, Halves
    <3> QED
      BY <2>1, <3>1 DEF HeapOrdered
  <2>10. Len(p) = Len(h) - 1
    BY <2>1, <2>5
  <2> QED
    BY <2>5, <2>6, <2>7, <2>8, <2>9, <2>10 DEF Keeps, p
<1> QED
  BY <1>1, <1>2

(* Nothing in a heap is less than its top.                                  *)
LEMMA TopIsLeast ==
  ASSUME NEW h \in Seq(Item), HeapOrdered(h), NEW i \in 1..Len(h)
  PROVE  ~Less(h[i], h[1])
<1> DEFINE n == Len(h)
           T == {k \in 1..n : ~Less(h[k], h[1])}
<1>1. n \in Nat /\ h \in [1..n -> Item]
  BY LenProperties
<1>2. ASSUME NEW k \in 1..n, \A j \in 1..k - 1 : j \in T PROVE k \in T
  <2>1. CASE k = 1
    <3>1. h[1] \in Item
      BY <1>1
    <3> QED
      BY <2>1, <3>1, LessOrder
  <2>2. CASE k # 1
    <3>1. k \in 2..n /\ k \div 2 \in 1..k - 1
      BY <1>1, <2>2, Halves
    <3>2. ~Less(h[k], h[k \div 2]) /\ ~Less(h[k \div 2], h[1])
      BY <1>2, <3>1 DEF HeapOrdered
    <3>3. h[k] \in Item /\ h[k \div 2] \in Item /\ h[1] \in Item
      BY <1>1, <3>1
    <3> QED
      BY <3>2, <3>3, LessOrder
  <2> QED
    BY <2>1, <2>2
<1>3. \A k \in 1..n : k \in T
  <2> HIDE DEF T
  <2> QED
    BY <1>1, <1>2, FromBelow
<1> QED
  BY <1>3

(* A diff keeps, in their order, the items whose transaction the block does *)
(* not have.                                                                *)
LEMMA KeptIs ==
  ASSUME txs \in Seq(Item), NEW block
  PROVE  /\ Kept(block) \in Seq(Item)
         /\ Items(Kept(block)) = {x \in Items(txs) : x.tx \notin block}
         /\ Distinct(txs) => Distinct(Kept(block))
<1> DEFINE n == Len(txs)
           S == Seq(Item)
           Filtered(k, s) == IF txs[k].tx \in block THEN s ELSE Append(s, txs[k])
           F == [k \in 1..n |-> [s \in S |-> Filtered(k, s)]]
           kept[k \in 0..n] == IF k = 0 THEN <<>>
                               ELSE IF txs[k].tx \in block THEN kept[k - 1]
                               ELSE Append(kept[k - 1], txs[k])
<1>1. n \in Nat /\ txs \in [1..n -> Item]
  BY LenProperties
<1>2. <<>> \in S /\ \A k \in 1..n, s \in S : Filtered(k, s) \in S
  BY <1>1, AppendProperties, EmptySeq
<1>3. Kept(block) = kept[n]
  BY DEF Kept
<1> HIDE DEF n, S
<1>4. PICK g : Run(g, F, n, S, <<>>)
  <2>1. Loop(F, n, S)
    BY <1>2 DEF Loop
  <2> HIDE DEF F
  <2> QED
    BY <1>1, <1>2, <2>1, Rounds
<1>5. ASSUME NEW k \in 1..n PROVE g[k] = Filtered(k, g[k - 1])
  <2>1. \A s \in S : F[k][s] = Filtered(k, s)
    OBVIOUS
  <2> HIDE DEF F, Filtered
  <2> QED
    BY <1>1, <1>4, <2>1 DEF Run
<1>6. g = [k \in 0..n |-> IF k = 0 THEN <<>>
                          ELSE IF txs[k].tx \in block THEN g[k - 1]
                          ELSE Append(g[k - 1], txs[k])]
  <2>1. g[0] = <<>> /\ DOMAIN g = 0..n /\ g = [k \in DOMAIN g |-> g[k]]
    BY <1>4 DEF Run
  <2>2. \A k \in 0..n : g[k] = IF k = 0 THEN <<>>
                                ELSE IF txs[k].tx \in block THEN g[k - 1]
                                ELSE Append(g[k - 1], txs[k])
    <3> TAKE k \in 0..n
    <3>1. CASE k = 0
      BY <2>1, <3>1
    <3>2. CASE k # 0
      <4>1. k \in 1..n
        BY <1>1, <3>2
      <4>2. g[k] = Filtered(k, g[k - 1])
        BY <1>5, <4>1
      <4> QED
        BY <3>2, <4>2
    <3> QED
      BY <3>1, <3>2
  <2> QED
    BY <2>1, <2>2
<1>7. kept = [k \in 0..n |-> IF k = 0 THEN <<>>
                             ELSE IF txs[k].tx \in block THEN kept[k - 1]
                             ELSE Append(kept[k - 1], txs[k])]
  BY <1>6, Zenon
<1> HIDE DEF kept
<1>8. kept[0] = <<>>
  BY <1>1, <1>7
<1>9. ASSUME NEW k \in 1..n PROVE kept[k] = Filtered(k, kept[k - 1])
  <2>1. k \in 0..n /\ k # 0
    BY <1>1
  <2>2. kept[k] = IF k = 0 THEN <<>>
                  ELSE IF txs[k].tx \in block THEN kept[k - 1]
                  ELSE Append(kept[k - 1], txs[k])
    BY <1>7, <2>1, Zenon
  <2> QED
    BY <2>1, <2>2
<1> DEFINE From(k) == {txs[i] : i \in {j \in 1..k : txs[j].tx \notin block}}
           Good(k) == /\ kept[k] \in S
                      /\ Items(kept[k]) = From(k)
                      /\ Distinct(txs) => Distinct(kept[k])
           T == {k \in 0..n : Good(k)}
<1>10. 0 \in T
  <2>1. Items(<<>>) = {} /\ Distinct(<<>>) /\ From(0) = {}
    BY DEF Items, Distinct
  <2>2. Good(0)
    BY <1>2, <1>8, <2>1
  <2> HIDE DEF Good
  <2> QED
    BY <1>1, <2>2
<1>11. ASSUME NEW k \in 1..n, k - 1 \in T PROVE k \in T
  <2> DEFINE s == kept[k - 1]
  <2>1. Good(k - 1) /\ s \in S
    BY <1>11
  <2>2. CASE txs[k].tx \in block
    <3>1. kept[k] = kept[k - 1]
      BY <1>9, <2>2
    <3>2. From(k) = From(k - 1)
      BY <1>1, <2>2
    <3> QED
      BY <2>1, <3>1, <3>2
  <2>3. CASE txs[k].tx \notin block
    <3> DEFINE m == Len(s)
               a == Append(s, txs[k])
    <3>1. kept[k] = a /\ txs[k] \in Item
      BY <1>1, <1>9, <2>3
    <3>2. From(k) = From(k - 1) \cup {txs[k]}
      BY <1>1, <2>3
    <3>3. /\ a \in S /\ Len(a) = m + 1 /\ a[m + 1] = txs[k]
          /\ m \in Nat /\ \A i \in 1..m : a[i] = s[i]
      BY <2>1, <3>1, AppendProperties, LenProperties DEF S
    <3>4. Items(s) = From(k - 1) /\ (Distinct(txs) => Distinct(s))
      BY <2>1
    <3> HIDE DEF s, a, m, From
    <3>5. Items(a) = Items(s) \cup {txs[k]}
      BY <3>3 DEF Items, m
    <3>6. ASSUME Distinct(txs) PROVE Distinct(a)
      <4>1. \A x \in From(k - 1) : x.tx # txs[k].tx
        BY <1>1, <3>6 DEF Distinct, n, From
      <4>2. \A i \in 1..m : s[i].tx # txs[k].tx
        BY <3>4, <4>1 DEF Items, m
      <4> QED
        BY <3>3, <3>4, <3>6, <4>2 DEF Distinct, m
    <3>7. Good(k)
      BY <3>1, <3>2, <3>3, <3>4, <3>5, <3>6
    <3> QED
      BY <3>7
  <2> QED
    BY <2>2, <2>3
<1>12. Good(n)
  <2> HIDE DEF T, Good
  <2>1. \A k \in 0..n : k \in T
    BY <1>1, <1>10, <1>11, UpTo
  <2> QED
    BY <1>1, <2>1 DEF T
<1>13. From(n) = {x \in Items(txs) : x.tx \notin block}
  BY <1>1 DEF Items, n
<1> QED
  BY <1>3, <1>12, <1>13 DEF S

-------------------------------------------------------------------------------
(* The inductive invariant.                                                 *)

(* Where the transactions are.                                              *)
Placed ==
  /\ Distinct(txs) /\ Distinct(aside)
  /\ TxOf(txs) \cap TxOf(aside) = {}
  /\ taken \cap (TxOf(txs) \cup TxOf(aside)) = {}
  /\ TxOf(txs) \cup TxOf(aside) \cup taken \subseteq InsertedTx
  /\ InsertedTx \subseteq taken \cup gone \cup TxOf(txs) \cup TxOf(aside)

(* The round limit never outlives the queue, and while the second loop runs *)
(* nothing that lies aside would fit.                                       *)
Searching ==
  call.phase = "seek" =>
    call.left <= Len(txs) /\ \A x \in Items(aside) : ~Fits(x.tx)

(* Both arrays are heaps, and the counters tell the order of arrival, until *)
(* a diff filters the one and resets the other.                             *)
Numbered ==
  /\ counter = Len(inserted)
  /\ \A x \in Items(txs) \cup Items(aside) :
       x.counter < Len(inserted) /\ inserted[x.counter + 1] = x.tx
Ordered ==
  /\ HeapOrdered(aside)
  /\ ~rebuilt => HeapOrdered(txs) /\ Numbered

IInv == TypeOK /\ Placed /\ Searching /\ Ordered

(* The invariant reads the arrays only through their items.                 *)
LEMMA TxOfItems ==
  \A h : TxOf(h) = {x.tx : x \in Items(h)}
BY DEF TxOf, Items

(* The items of an array of items are items.                                *)
LEMMA ItemsAre ==
  ASSUME NEW h \in Seq(Item)
  PROVE  Items(h) \subseteq Item
BY LenProperties DEF Items

(* TypeOK, by items.                                                        *)
LEMMA TypeOfItems ==
  TypeOK <=>
    /\ txs \in Seq(Item) /\ aside \in Seq(Item)
    /\ \A x \in Items(txs) : x.prio \in {PrioInfinity, -GasPrice[x.tx]}
    /\ \A x \in Items(aside) : x.prio = StartGas[x.tx]
    /\ counter \in Nat
    /\ call \in [phase : {"idle", "restore", "seek"}, gas : MaxGas \cup {0},
                 price : MinGasPrice \cup {0}, left : 0..SeekDepth]
    /\ inserted \in Seq(Tx)
    /\ taken \subseteq Tx /\ gone \subseteq Tx /\ rebuilt \in BOOLEAN
BY DEF TypeOK, Items

(* A heap that is not empty has a top.                                      *)
LEMMA TopOf ==
  ASSUME NEW h \in Seq(Item), h # <<>>
  PROVE  /\ h[1] \in Item /\ h[1] \in Items(h) /\ h[1].tx \in TxOf(h)
         /\ Len(h) \in Nat /\ Len(h) >= 1
<1>1. Len(h) \in Nat /\ Len(h) >= 1 /\ h \in [1..Len(h) -> Item]
  BY EmptySeq, LenProperties
<1> QED
  BY <1>1 DEF Items, TxOf

(* Popping from an array without duplicates takes the transaction of its    *)
(* top away.                                                                *)
LEMMA PopTx ==
  ASSUME NEW h \in Seq(Item), h # <<>>, Distinct(h)
  PROVE  TxOf(HeapPop(h)) = TxOf(h) \ {h[1].tx}
<1>1. Items(HeapPop(h)) = Items(h) \ {h[1]}
  BY PopIs
<1>2. 1 \in 1..Len(h)
  BY TopOf
<1>3. \A x \in Items(h) : x.tx = h[1].tx => x = h[1]
  BY <1>2 DEF Items, Distinct
<1>4. h[1] \in Items(h)
  BY <1>2 DEF Items
<1> QED
  BY <1>1, <1>3, <1>4, TxOfItems

(* Pushing adds the transaction of the item.                                *)
LEMMA PushTx ==
  ASSUME NEW h \in Seq(Item), NEW x \in Item
  PROVE  TxOf(HeapPush(h, x)) = TxOf(h) \cup {x.tx}
<1>1. Items(HeapPush(h, x)) = Items(h) \cup {x}
  BY PushIs
<1> QED
  BY <1>1, TxOfItems

(* The idle call is a call.                                                 *)
LEMMA IdleCall ==
  Idle \in [phase : {"idle", "restore", "seek"}, gas : MaxGas \cup {0},
            price : MinGasPrice \cup {0}, left : 0..SeekDepth]
BY QueueAssumption DEF Idle

(* Each action keeps the invariant.  add_transaction:                       *)
LEMMA AddKeeps ==
  ASSUME IInv, NEW t \in Tx, NEW force \in BOOLEAN, AddTransaction(t, force)
  PROVE  IInv'
<1> DEFINE x == [prio |-> IF force THEN PrioInfinity ELSE -GasPrice[t],
                 counter |-> counter, tx |-> t]
<1>1. /\ TypeOK /\ Placed /\ Ordered
      /\ txs \in Seq(Item) /\ inserted \in Seq(Tx) /\ counter \in Nat
  BY DEF IInv, TypeOK
<1>2. /\ x \in Item /\ x.tx = t /\ x.counter = counter
      /\ x.prio \in {PrioInfinity, -GasPrice[x.tx]}
  BY <1>1, QueueAssumption DEF Item
<1>3. txs' = HeapPush(txs, x)
  BY DEF AddTransaction
<1> HIDE DEF x
<1>4. /\ txs' \in Seq(Item) /\ Items(txs') = Items(txs) \cup {x}
      /\ TxOf(txs') = TxOf(txs) \cup {t}
      /\ Distinct(txs) /\ t \notin TxOf(txs) => Distinct(txs')
      /\ HeapOrdered(txs) => HeapOrdered(txs')
  BY <1>1, <1>2, <1>3, PushIs, PushTx
<1>5. /\ call = Idle /\ call' = Idle /\ t \notin InsertedTx
      /\ counter' = counter + 1 /\ inserted' = Append(inserted, t)
      /\ aside' = aside /\ taken' = taken /\ gone' = gone /\ rebuilt' = rebuilt
  BY DEF AddTransaction
<1>6. /\ inserted' \in Seq(Tx) /\ Len(inserted') = Len(inserted) + 1
      /\ Len(inserted) \in Nat /\ inserted'[Len(inserted) + 1] = t
      /\ \A i \in 1..Len(inserted) : inserted'[i] = inserted[i]
  BY <1>1, <1>5, AppendProperties, LenProperties
<1>7. InsertedTx' = InsertedTx \cup {t}
  BY <1>6 DEF InsertedTx
<1>8. TypeOK'
  <2>1. \A y \in Items(txs') : y.prio \in {PrioInfinity, -GasPrice[y.tx]}
    BY <1>1, <1>2, <1>4, TypeOfItems
  <2> QED
    BY <1>1, <1>4, <1>5, <1>6, <2>1 DEF TypeOK, Items
<1>9. Placed'
  <2>1. t \notin TxOf(txs) \cup TxOf(aside) \cup taken
    BY <1>1, <1>5 DEF Placed
  <2> QED
    BY <1>1, <1>4, <1>5, <1>7, <2>1 DEF Placed
<1>10. Searching'
  BY <1>5 DEF Searching, Idle
<1>11. Ordered'
  <2>1. ASSUME ~rebuilt PROVE Numbered'
    <3>1. Numbered
      BY <1>1, <2>1 DEF Ordered
    <3>2. ASSUME NEW y \in Items(txs) \cup Items(aside)
          PROVE  y.counter < Len(inserted') /\ inserted'[y.counter + 1] = y.tx
      <4>1. y.counter \in Nat
        BY <1>1, ItemsAre DEF Item, TypeOK
      <4>2. y.counter < Len(inserted) /\ inserted[y.counter + 1] = y.tx
        BY <3>1 DEF Numbered
      <4> QED
        BY <1>6, <4>1, <4>2
    <3>3. x.counter < Len(inserted') /\ inserted'[x.counter + 1] = x.tx
      BY <1>2, <1>6, <3>1 DEF Numbered
    <3> QED
      BY <1>4, <1>5, <1>6, <3>1, <3>2, <3>3 DEF Numbered
  <2> QED
    BY <1>1, <1>4, <1>5, <2>1 DEF Ordered
<1> QED
  BY <1>8, <1>9, <1>10, <1>11 DEF IInv

(* The call of pop_transaction.                                             *)
LEMMA PopTransactionKeeps ==
  ASSUME IInv, NEW gas \in MaxGas, NEW price \in MinGasPrice,
         PopTransaction(gas, price)
  PROVE  IInv'
<1>1. /\ UNCHANGED <<txs, aside, counter, inserted, taken, gone, rebuilt>>
      /\ call' = [phase |-> "restore", gas |-> gas, price |-> price, left |-> 0]
  BY DEF PopTransaction
<1>2. TypeOK'
  BY <1>1, QueueAssumption DEF IInv, TypeOK
<1>3. Placed' /\ Searching' /\ Ordered'
  BY <1>1 DEF IInv, Placed, Searching, Ordered, Numbered, InsertedTx
<1> QED
  BY <1>2, <1>3 DEF IInv

(* A round of the first loop.                                               *)
LEMMA RestoreKeeps ==
  ASSUME IInv, Restore
  PROVE  IInv'
<1> DEFINE x == Restored(aside[1])
<1>1. /\ TypeOK /\ Placed /\ Ordered
      /\ txs \in Seq(Item) /\ aside \in Seq(Item) /\ aside # <<>>
      /\ Distinct(txs) /\ Distinct(aside) /\ HeapOrdered(aside)
  BY DEF IInv, TypeOK, Restore, Restorable, Placed, Ordered
<1>2. aside[1] \in Item /\ aside[1] \in Items(aside) /\ aside[1].tx \in TxOf(aside)
  BY <1>1, TopOf
<1>3. /\ x \in Item /\ x.tx = aside[1].tx /\ x.counter = aside[1].counter
      /\ x.prio \in {PrioInfinity, -GasPrice[x.tx]}
  BY <1>2, QueueAssumption DEF Item, Restored
<1>4. aside' = HeapPop(aside) /\ txs' = HeapPush(txs, x)
  BY DEF Restore
<1>5. /\ UNCHANGED <<counter, call, inserted, taken, gone, rebuilt>>
      /\ call.phase = "restore"
  BY DEF Restore
<1> HIDE DEF x
<1>6. x.tx \notin TxOf(txs)
  BY <1>1, <1>2, <1>3 DEF Placed
<1>7. /\ txs' \in Seq(Item) /\ Items(txs') = Items(txs) \cup {x}
      /\ TxOf(txs') = TxOf(txs) \cup {x.tx} /\ Distinct(txs')
      /\ HeapOrdered(txs) => HeapOrdered(txs')
  BY <1>1, <1>3, <1>4, <1>6, PushIs, PushTx
<1>8. /\ aside' \in Seq(Item) /\ Items(aside') = Items(aside) \ {aside[1]}
      /\ TxOf(aside') = TxOf(aside) \ {x.tx} /\ Distinct(aside')
      /\ HeapOrdered(aside')
  BY <1>1, <1>3, <1>4, PopIs, PopTx
<1>9. TypeOK'
  <2>1. /\ \A y \in Items(txs') : y.prio \in {PrioInfinity, -GasPrice[y.tx]}
        /\ \A y \in Items(aside') : y.prio = StartGas[y.tx]
    BY <1>1, <1>3, <1>7, <1>8, TypeOfItems
  <2> QED
    BY <1>1, <1>5, <1>7, <1>8, <2>1 DEF TypeOK, Items
<1>10. Placed'
  <2>1. InsertedTx' = InsertedTx
    BY <1>5 DEF InsertedTx
  <2> QED
    BY <1>1, <1>2, <1>3, <1>5, <1>6, <1>7, <1>8, <2>1 DEF Placed
<1>11. Searching'
  BY <1>5 DEF Searching
<1>12. Ordered'
  <2>1. Numbered => Numbered'
    BY <1>2, <1>3, <1>5, <1>7, <1>8 DEF Numbered
  <2> QED
    BY <1>1, <1>5, <1>7, <1>8, <2>1 DEF Ordered
<1> QED
  BY <1>9, <1>10, <1>11, <1>12 DEF IInv

(* The end of the first loop: whatever is left aside needs more gas.        *)
LEMMA SeekKeeps ==
  ASSUME IInv, Seek
  PROVE  IInv'
<1>1. /\ UNCHANGED <<txs, aside, counter, inserted, taken, gone, rebuilt>>
      /\ call' = [call EXCEPT !.phase = "seek",
                              !.left = IF Len(txs) < SeekDepth THEN Len(txs)
                                                               ELSE SeekDepth]
      /\ ~Restorable
  BY DEF Seek
<1>2. /\ TypeOK /\ Placed /\ Ordered
      /\ aside \in Seq(Item) /\ HeapOrdered(aside) /\ Len(txs) \in Nat
  BY LenProperties DEF IInv, TypeOK, Ordered
<1>3. /\ call'.phase = "seek" /\ call'.left <= Len(txs) /\ call'.left \in 0..SeekDepth
      /\ call'.gas = call.gas /\ call'.price = call.price
      /\ call.gas \in Nat
      /\ call' \in [phase : {"idle", "restore", "seek"}, gas : MaxGas \cup {0},
                    price : MinGasPrice \cup {0}, left : 0..SeekDepth]
  <2> DEFINE m == IF Len(txs) < SeekDepth THEN Len(txs) ELSE SeekDepth
  <2>1. m \in 0..SeekDepth /\ m <= Len(txs)
    BY <1>2, QueueAssumption
  <2>2. /\ call \in [phase : {"idle", "restore", "seek"}, gas : MaxGas \cup {0},
                     price : MinGasPrice \cup {0}, left : 0..SeekDepth]
        /\ call.gas \in Nat
    <3>1. call \in [phase : {"idle", "restore", "seek"}, gas : MaxGas \cup {0},
                    price : MinGasPrice \cup {0}, left : 0..SeekDepth]
      BY <1>2 DEF TypeOK
    <3>2. call.gas \in MaxGas \cup {0}
      BY <3>1
    <3>3. MaxGas \subseteq Nat
      BY QueueAssumption
    <3>4. \A gas \in MaxGas \cup {0} : gas \in Nat
      BY <3>3
    <3> QED
      BY <3>1, <3>2, <3>4
  <2>3. call' = [call EXCEPT !.phase = "seek", !.left = m]
    BY <1>1
  <2> HIDE DEF m
  <2> QED
    BY <2>1, <2>2, <2>3
<1>4. TypeOK'
  BY <1>1, <1>2, <1>3 DEF TypeOK
<1>5. Placed' /\ Ordered'
  BY <1>1, <1>2 DEF Placed, Ordered, Numbered, InsertedTx
<1>6. ASSUME NEW x \in Items(aside) PROVE StartGas[x.tx] > call.gas
  <2>1. PICK i \in 1..Len(aside) : x = aside[i]
    BY <1>6 DEF Items
  <2>2. aside # <<>>
    BY <2>1
  <2>3. ~Less(x, aside[1])
    BY <1>2, <2>1, TopIsLeast
  <2>4. x \in Item /\ aside[1] \in Item /\ aside[1] \in Items(aside)
    BY <1>2, <1>6, <2>2, ItemsAre, TopOf
  <2>5. x.prio >= aside[1].prio /\ x.prio \in Int /\ aside[1].prio \in Int
    BY <2>3, <2>4 DEF Less, Item
  <2>6. x.prio = StartGas[x.tx]
    BY <1>2, <1>6, TypeOfItems
  <2> QED
    BY <1>1, <1>3, <2>2, <2>5, <2>6 DEF Restorable
<1>7. Searching'
  <2>1. \A x \in Items(aside) : ~(StartGas[x.tx] <= call.gas)
    <3> TAKE x \in Items(aside)
    <3>1. StartGas[x.tx] \in Nat
      BY <1>2, ItemsAre, QueueAssumption DEF Item
    <3> QED
      BY <1>3, <1>6, <3>1
  <2> QED
    BY <1>1, <1>3, <2>1 DEF Searching, Fits
<1> QED
  BY <1>4, <1>5, <1>7 DEF IInv

(* What the top is while the second loop runs.                              *)
LEMMA SeekingTop ==
  ASSUME IInv, Seeking
  PROVE  /\ txs \in Seq(Item) /\ txs # <<>> /\ Distinct(txs)
         /\ txs[1] \in Item /\ txs[1] \in Items(txs) /\ txs[1].tx \in TxOf(txs)
         /\ Len(txs) \in Nat /\ call.left \in 1..Len(txs)
<1>1. txs \in Seq(Item) /\ Distinct(txs) /\ Len(txs) \in Nat
  BY LenProperties DEF IInv, TypeOK, Placed
<1>2. call.left \in 1..Len(txs)
  BY <1>1, QueueAssumption DEF IInv, TypeOK, Searching, Seeking
<1>3. txs # <<>>
  BY <1>1, <1>2
<1> QED
  BY <1>1, <1>2, <1>3, TopOf

(* A round of the second loop that lays the top aside.                      *)
LEMMA LayAsideKeeps ==
  ASSUME IInv, LayAside
  PROVE  IInv'
<1> DEFINE x == [txs[1] EXCEPT !.prio = StartGas[txs[1].tx]]
<1>1. /\ TypeOK /\ Placed /\ Ordered /\ Searching
      /\ txs \in Seq(Item) /\ aside \in Seq(Item) /\ txs # <<>>
      /\ Distinct(txs) /\ Distinct(aside) /\ HeapOrdered(aside)
      /\ Len(txs) \in Nat /\ call.left \in 1..Len(txs)
      /\ txs[1] \in Item /\ txs[1] \in Items(txs) /\ txs[1].tx \in TxOf(txs)
  BY SeekingTop DEF IInv, TypeOK, LayAside, Placed, Ordered
<1>2. /\ x \in Item /\ x.tx = txs[1].tx /\ x.counter = txs[1].counter
      /\ x.prio = StartGas[x.tx]
  <2>1. ASSUME NEW y \in Item, NEW p \in Int
        PROVE  LET z == [y EXCEPT !.prio = p]
               IN z \in Item /\ z.tx = y.tx /\ z.counter = y.counter /\ z.prio = p
    BY DEF Item
  <2>2. StartGas[txs[1].tx] \in Int
    BY <1>1, QueueAssumption DEF Item
  <2> QED
    BY <1>1, <2>1, <2>2
<1>3. aside' = HeapPush(aside, x) /\ txs' = HeapPop(txs) /\ ~Fits(x.tx)
  BY <1>2 DEF LayAside, Aside
<1>4. /\ UNCHANGED <<counter, inserted, taken, gone, rebuilt>>
      /\ call.phase = "seek" /\ call' = [call EXCEPT !.left = @ - 1]
  BY DEF LayAside, Seeking
<1> HIDE DEF x
<1>5. x.tx \notin TxOf(aside)
  BY <1>1, <1>2 DEF Placed
<1>6. /\ aside' \in Seq(Item) /\ Items(aside') = Items(aside) \cup {x}
      /\ TxOf(aside') = TxOf(aside) \cup {x.tx} /\ Distinct(aside')
      /\ HeapOrdered(aside')
  BY <1>1, <1>2, <1>3, <1>5, PushIs, PushTx
<1>7. /\ txs' \in Seq(Item) /\ Items(txs') = Items(txs) \ {txs[1]}
      /\ TxOf(txs') = TxOf(txs) \ {x.tx} /\ Distinct(txs')
      /\ Len(txs') = Len(txs) - 1
      /\ HeapOrdered(txs) => HeapOrdered(txs')
  BY <1>1, <1>2, <1>3, PopIs, PopTx
<1>8. /\ call'.phase = "seek" /\ call'.gas = call.gas
      /\ call'.left = call.left - 1
      /\ call' \in [phase : {"idle", "restore", "seek"}, gas : MaxGas \cup {0},
                    price : MinGasPrice \cup {0}, left : 0..SeekDepth]
  <2>1. call.left \in 0..SeekDepth /\ SeekDepth \in Nat
    BY <1>1, QueueAssumption DEF TypeOK
  <2>2. call.left - 1 \in 0..SeekDepth
    BY <1>1, <2>1
  <2> QED
    BY <1>1, <1>4, <2>2 DEF TypeOK
<1>9. TypeOK'
  <2>1. /\ \A y \in Items(txs') : y.prio \in {PrioInfinity, -GasPrice[y.tx]}
        /\ \A y \in Items(aside') : y.prio = StartGas[y.tx]
    BY <1>1, <1>2, <1>6, <1>7, TypeOfItems
  <2> QED
    BY <1>1, <1>4, <1>6, <1>7, <1>8, <2>1 DEF TypeOK, Items
<1>10. Placed'
  <2>1. InsertedTx' = InsertedTx
    BY <1>4 DEF InsertedTx
  <2> QED
    BY <1>1, <1>2, <1>4, <1>5, <1>6, <1>7, <2>1 DEF Placed
<1>11. Searching'
  BY <1>1, <1>3, <1>4, <1>6, <1>7, <1>8 DEF Searching, Fits
<1>12. Ordered'
  <2>1. Numbered => Numbered'
    BY <1>1, <1>2, <1>4, <1>6, <1>7 DEF Numbered
  <2> QED
    BY <1>1, <1>4, <1>6, <1>7, <2>1 DEF Ordered
<1> QED
  BY <1>9, <1>10, <1>11, <1>12 DEF IInv

(* The round that hands the top out.                                        *)
LEMMA TakeKeeps ==
  ASSUME IInv, Take
  PROVE  IInv'
<1>1. /\ TypeOK /\ Placed /\ Ordered
      /\ txs \in Seq(Item) /\ txs # <<>> /\ Distinct(txs)
      /\ txs[1] \in Item /\ txs[1] \in Items(txs) /\ txs[1].tx \in TxOf(txs)
  BY SeekingTop DEF IInv, Take
<1>2. /\ txs' = HeapPop(txs) /\ taken' = taken \cup {txs[1].tx} /\ call' = Idle
      /\ UNCHANGED <<aside, counter, inserted, gone, rebuilt>>
  BY DEF Take
<1>3. /\ txs' \in Seq(Item) /\ Items(txs') = Items(txs) \ {txs[1]}
      /\ TxOf(txs') = TxOf(txs) \ {txs[1].tx} /\ Distinct(txs')
      /\ HeapOrdered(txs) => HeapOrdered(txs')
  BY <1>1, <1>2, PopIs, PopTx
<1>4. TypeOK'
  <2>1. \A y \in Items(txs') : y.prio \in {PrioInfinity, -GasPrice[y.tx]}
    BY <1>1, <1>3, TypeOfItems
  <2>2. txs[1].tx \in Tx
    BY <1>1 DEF Item
  <2> QED
    BY <1>1, <1>2, <1>3, <2>1, <2>2, IdleCall DEF TypeOK, Items
<1>5. Placed'
  <2>1. InsertedTx' = InsertedTx
    BY <1>2 DEF InsertedTx
  <2> QED
    BY <1>1, <1>2, <1>3, <2>1 DEF Placed
<1>6. Searching'
  BY <1>2 DEF Searching, Idle
<1>7. Ordered'
  <2>1. Numbered => Numbered'
    BY <1>2, <1>3 DEF Numbered
  <2> QED
    BY <1>1, <1>2, <1>3, <2>1 DEF Ordered
<1> QED
  BY <1>4, <1>5, <1>6, <1>7 DEF IInv

(* The end of the second loop without a transaction.                        *)
LEMMA GiveUpKeeps ==
  ASSUME IInv, GiveUp
  PROVE  IInv'
<1>1. /\ UNCHANGED <<txs, aside, counter, inserted, taken, gone, rebuilt>>
      /\ call' = Idle
  BY DEF GiveUp
<1>2. TypeOK'
  BY <1>1, IdleCall DEF IInv, TypeOK
<1>3. Placed' /\ Searching' /\ Ordered'
  BY <1>1 DEF IInv, Placed, Searching, Ordered, Numbered, InsertedTx, Idle
<1> QED
  BY <1>2, <1>3 DEF IInv

(* A diff.                                                                  *)
LEMMA DiffKeeps ==
  ASSUME IInv, NEW block \in Blocks, Diff(block)
  PROVE  IInv'
<1>1. TypeOK /\ Placed /\ txs \in Seq(Item) /\ Distinct(txs) /\ aside \in Seq(Item)
  BY DEF IInv, TypeOK, Placed
<1>2. /\ call = Idle /\ call' = Idle /\ txs' = Kept(block) /\ aside' = <<>>
      /\ counter' = 0 /\ rebuilt' = TRUE
      /\ gone' = gone \cup block \cup TxOf(aside)
      /\ UNCHANGED <<inserted, taken>>
  BY DEF Diff, TxOf
<1>3. /\ txs' \in Seq(Item) /\ Distinct(txs')
      /\ Items(txs') = {x \in Items(txs) : x.tx \notin block}
  BY <1>1, <1>2, KeptIs
<1>4. TxOf(txs') = TxOf(txs) \ block
  BY <1>3, TxOfItems
<1>5. /\ aside' \in Seq(Item) /\ Items(aside') = {} /\ TxOf(aside') = {}
      /\ Distinct(aside') /\ HeapOrdered(aside')
  BY <1>2 DEF Items, TxOf, Distinct, HeapOrdered
<1>6. TypeOK'
  <2>1. \A y \in Items(txs') : y.prio \in {PrioInfinity, -GasPrice[y.tx]}
    BY <1>1, <1>3, TypeOfItems
  <2>2. gone' \subseteq Tx
    <3>1. \A x \in Items(aside) : x.tx \in Tx
      BY <1>1, ItemsAre DEF Item
    <3>2. TxOf(aside) \subseteq Tx
      BY <3>1, TxOfItems
    <3>3. block \subseteq Tx /\ gone \subseteq Tx
      BY <1>1, QueueAssumption DEF TypeOK
    <3> QED
      BY <1>2, <3>2, <3>3
  <2> QED
    BY <1>1, <1>2, <1>3, <1>5, <2>1, <2>2, IdleCall DEF TypeOK, Items
<1>7. Placed'
  <2>1. InsertedTx' = InsertedTx
    BY <1>2 DEF InsertedTx
  <2> QED
    BY <1>1, <1>2, <1>3, <1>4, <1>5, <2>1 DEF Placed
<1>8. Searching' /\ Ordered'
  BY <1>2, <1>5 DEF Searching, Ordered, Idle
<1> QED
  BY <1>6, <1>7, <1>8 DEF IInv

(* The invariant holds of an empty queue, is kept by every step, and so     *)
(* always holds.                                                            *)
LEMMA InitHolds == Init => IInv
<1> SUFFICES ASSUME Init PROVE IInv
  OBVIOUS
<1>1. Items(<<>>) = {} /\ TxOf(<<>>) = {} /\ Distinct(<<>>) /\ HeapOrdered(<<>>)
  BY DEF Items, TxOf, Distinct, HeapOrdered
<1>2. TypeOK
  <2>1. <<>> \in Seq(Item) /\ <<>> \in Seq(Tx) /\ Len(<<>>) = 0
    BY EmptySeq
  <2>2. txs = <<>> /\ aside = <<>> /\ inserted = <<>> /\ 1..Len(<<>>) = {}
    BY <2>1 DEF Init
  <2>3. /\ call \in [phase : {"idle", "restore", "seek"}, gas : MaxGas \cup {0},
                     price : MinGasPrice \cup {0}, left : 0..SeekDepth]
        /\ counter \in Nat /\ taken \subseteq Tx /\ gone \subseteq Tx
        /\ rebuilt \in BOOLEAN
    BY IdleCall DEF Init
  <2> QED
    BY <2>1, <2>2, <2>3 DEF TypeOK
<1> QED
  BY <1>1, <1>2 DEF Init, IInv, Placed, Searching, Ordered, Numbered, InsertedTx, Idle

(* Every step keeps it.                                                     *)
LEMMA NextKeeps == IInv /\ [Next]_vars => IInv'
<1> SUFFICES ASSUME IInv, [Next]_vars PROVE IInv'
  OBVIOUS
<1>1. ASSUME NEW t \in Tx, NEW force \in BOOLEAN, AddTransaction(t, force)
      PROVE  IInv'
  BY <1>1, AddKeeps
<1>2. ASSUME NEW gas \in MaxGas, NEW price \in MinGasPrice,
             PopTransaction(gas, price)
      PROVE  IInv'
  BY <1>2, PopTransactionKeeps
<1>3. CASE Restore
  BY <1>3, RestoreKeeps
<1>4. CASE Seek
  BY <1>4, SeekKeeps
<1>5. CASE LayAside
  BY <1>5, LayAsideKeeps
<1>6. CASE Take
  BY <1>6, TakeKeeps
<1>7. CASE GiveUp
  BY <1>7, GiveUpKeeps
<1>8. ASSUME NEW block \in Blocks, Diff(block) PROVE IInv'
  BY <1>8, DiffKeeps
<1>9. CASE UNCHANGED vars
  BY <1>9 DEF vars, IInv, TypeOK, Placed, Searching, Ordered, Numbered,
              InsertedTx, Fits
<1> QED
  BY <1>1, <1>2, <1>3, <1>4, <1>5, <1>6, <1>7, <1>8, <1>9 DEF Next

(* It always holds.                                                         *)
LEMMA Invariance == Spec => []IInv
BY InitHolds, NextKeeps, PTL DEF Spec

-------------------------------------------------------------------------------
(* The theorems.                                                            *)

(* The arrays and the call in progress stay well formed; in particular an   *)
(* item of the price heap carries the priority of its price, or the forced  *)
(* one, however often pop_transaction laid it aside and took it back.       *)
THEOREM TypeCorrect == Spec => []TypeOK
BY Invariance, PTL DEF IInv

(* add_transaction, pop_transaction and diff lose no transaction and keep   *)
(* none twice.                                                              *)
THEOREM NoneLostOrDoubled == Spec => []Accounted
<1>1. IInv => Accounted
  <2> SUFFICES ASSUME TypeOK, Placed, NEW t \in InsertedTx
               PROVE  LET slots == {i \in 1..Len(txs) : txs[i].tx = t}
                          sides == {i \in 1..Len(aside) : aside[i].tx = t}
                      IN \/ t \in taken \cup gone /\ slots = {} /\ sides = {}
                         \/ \E i \in slots : slots = {i} /\ sides = {} /\ t \notin taken
                         \/ \E i \in sides : slots = {} /\ sides = {i} /\ t \notin taken
    BY DEF IInv, Accounted
  <2> DEFINE slots == {i \in 1..Len(txs) : txs[i].tx = t}
             sides == {i \in 1..Len(aside) : aside[i].tx = t}
  <2>1. /\ t \in TxOf(txs) <=> slots # {}
        /\ t \in TxOf(aside) <=> sides # {}
    BY DEF TxOf
  <2>2. /\ \A i \in slots : slots = {i}
        /\ \A i \in sides : sides = {i}
    BY DEF Placed, Distinct
  <2> HIDE DEF slots, sides
  <2>3. \/ t \in taken \cup gone /\ slots = {} /\ sides = {}
        \/ \E i \in slots : slots = {i} /\ sides = {} /\ t \notin taken
        \/ \E i \in sides : slots = {} /\ sides = {i} /\ t \notin taken
    <3>1. CASE t \in TxOf(txs)
      BY <2>1, <2>2, <3>1 DEF Placed
    <3>2. CASE t \in TxOf(aside)
      BY <2>1, <2>2, <3>2 DEF Placed
    <3>3. CASE t \notin TxOf(txs) \cup TxOf(aside)
      BY <2>1, <3>3 DEF Placed
    <3> QED
      BY <3>1, <3>2, <3>3
  <2> QED
    BY <2>3 DEF slots, sides
<1> QED
  BY <1>1, Invariance, PTL

(* Until a diff, the transaction that pop_transaction hands out is the      *)
(* dearest that fits, and the first added of equals.                        *)
THEOREM DearestFirst == Spec => TakesDearest
<1>1. ASSUME IInv, [Next]_vars, ~rebuilt, NEW t \in taken' \ taken,
             NEW item \in Waiting, Fits(item.tx)
      PROVE  \/ item.tx = t
             \/ txs[1].prio = PrioInfinity
             \/ item.prio # PrioInfinity /\ GasPrice[item.tx] < GasPrice[t]
             \/ /\ item.prio # PrioInfinity /\ GasPrice[item.tx] = GasPrice[t]
                /\ AddedBefore(t, item.tx)
  <2>1. Take /\ t = txs[1].tx
    BY <1>1 DEF Next, vars, AddTransaction, PopTransaction, Restore, Seek,
                LayAside, Take, GiveUp, Diff
  <2> DEFINE top == txs[1]
  <2>2. /\ txs \in Seq(Item) /\ top \in Item /\ top \in Items(txs)
        /\ item \in Items(txs) /\ item \in Item
    BY <1>1, <2>1, SeekingTop, ItemsAre DEF Take, Waiting, Items
  <2>3. HeapOrdered(txs) /\ Numbered
    BY <1>1 DEF IInv, Ordered
  <2>4. ~Less(item, top)
    BY <2>2, <2>3, TopIsLeast DEF Items
  <2>5. /\ item.prio \in {PrioInfinity, -GasPrice[item.tx]}
        /\ top.prio \in {PrioInfinity, -GasPrice[top.tx]}
    BY <1>1, <2>2, TypeOfItems DEF IInv
  <2>6. /\ GasPrice[item.tx] \in Nat /\ GasPrice[top.tx] \in Nat
        /\ PrioInfinity < -GasPrice[item.tx] /\ PrioInfinity < -GasPrice[top.tx]
        /\ PrioInfinity \in Int
    BY <2>2, QueueAssumption DEF Item
  <2>7. /\ item.counter \in Nat /\ top.counter \in Nat
        /\ item.counter < Len(inserted) /\ inserted[item.counter + 1] = item.tx
        /\ top.counter < Len(inserted) /\ inserted[top.counter + 1] = top.tx
        /\ Len(inserted) \in Nat
    BY <1>1, <2>2, <2>3, LenProperties DEF IInv, TypeOK, Numbered, Item
  <2> HIDE DEF top
  <2>8. CASE item.counter = top.counter
    BY <2>1, <2>7, <2>8 DEF top
  <2>9. CASE top.counter < item.counter
    <3>1. AddedBefore(top.tx, item.tx)
      <4>1. top.counter + 1 \in 1..Len(inserted) /\ item.counter + 1 \in 1..Len(inserted)
        BY <2>7
      <4> QED
        BY <2>7, <2>9, <4>1 DEF AddedBefore
    <3>2. item.prio >= top.prio
      BY <2>4, <2>5, <2>6 DEF Less
    <3> QED
      BY <2>1, <2>5, <2>6, <3>1, <3>2 DEF top
  <2>10. CASE item.counter < top.counter
    <3>1. item.prio > top.prio
      BY <2>4, <2>5, <2>6, <2>7, <2>10 DEF Less
    <3> QED
      BY <2>1, <2>5, <2>6, <3>1 DEF top
  <2> QED
    BY <2>7, <2>8, <2>9, <2>10
<1>2. IInv /\ [Next]_vars =>
        [~rebuilt => \A t \in taken' \ taken :
           \A item \in Waiting : Fits(item.tx) =>
             \/ item.tx = t
             \/ txs[1].prio = PrioInfinity
             \/ item.prio # PrioInfinity /\ GasPrice[item.tx] < GasPrice[t]
             \/ /\ item.prio # PrioInfinity /\ GasPrice[item.tx] = GasPrice[t]
                /\ AddedBefore(t, item.tx)]_vars
  BY <1>1
<1> QED
  BY <1>2, Invariance, PTL DEF Spec, TakesDearest

(* Until a diff, pop_transaction comes back with nothing only if nothing    *)
(* that waits would do, in either heap, or if it laid aside as many as it   *)
(* may.                                                                     *)
THEOREM NothingOnlyIfNothingFits == Spec => GivesUpRightly
<1>1. ASSUME IInv, [Next]_vars, ~rebuilt, call.phase = "seek", call' = Idle,
             taken' = taken
      PROVE  \/ call.left = 0 /\ txs # <<>>
             \/ /\ \A item \in Waiting : ~(Fits(item.tx) /\ Dear(item))
                /\ \A i \in 1..Len(aside) : ~Fits(aside[i].tx)
  <2>1. GiveUp
    <3>1. ~Take
      BY <1>1, SeekingTop DEF Take, IInv, Placed
    <3>2. call # Idle
      BY <1>1 DEF Idle
    <3> QED
      BY <1>1, <3>1, <3>2 DEF Next, vars, AddTransaction, PopTransaction, Restore,
                              Seek, LayAside, Diff, Idle
  <2>2. \A i \in 1..Len(aside) : ~Fits(aside[i].tx)
    BY <1>1 DEF IInv, Searching, Items
  <2>3. CASE call.left = 0
    BY <2>2, <2>3 DEF Waiting
  <2>4. CASE Seeking /\ Fits(txs[1].tx) /\ ~Dear(txs[1])
    <3> DEFINE top == txs[1]
    <3>1. txs \in Seq(Item) /\ top \in Item /\ top \in Items(txs)
      BY <1>1, <2>4, SeekingTop
    <3>2. /\ top.prio = -GasPrice[top.tx] /\ GasPrice[top.tx] < call.price
          /\ GasPrice[top.tx] \in Nat /\ call.price \in Nat
      <4>1. top.prio \in {PrioInfinity, -GasPrice[top.tx]}
        BY <1>1, <3>1, TypeOfItems DEF IInv
      <4>2. GasPrice[top.tx] \in Nat
        BY <3>1, QueueAssumption DEF Item
      <4>3. call.price \in MinGasPrice \cup {0}
        BY <1>1 DEF IInv, TypeOK
      <4>4. \A price \in MinGasPrice \cup {0} : price \in Nat
        BY QueueAssumption
      <4>5. ~(GasPrice[top.tx] >= call.price) /\ top.prio # PrioInfinity
        BY <2>4 DEF Dear
      <4> QED
        BY <4>1, <4>2, <4>3, <4>4, <4>5
    <3>3. ASSUME NEW item \in Waiting PROVE ~Dear(item)
      <4>1. item \in Items(txs) /\ item \in Item
        BY <3>1, ItemsAre DEF Waiting, Items
      <4>2. HeapOrdered(txs)
        BY <1>1 DEF IInv, Ordered
      <4>3. ~Less(item, top)
        BY <3>1, <4>1, <4>2, TopIsLeast DEF Items
      <4>4. /\ item.prio \in {PrioInfinity, -GasPrice[item.tx]}
            /\ GasPrice[item.tx] \in Nat
            /\ PrioInfinity < -GasPrice[top.tx] /\ PrioInfinity \in Int
        BY <1>1, <3>1, <4>1, TypeOfItems, QueueAssumption DEF IInv, Item
      <4> HIDE DEF top
      <4>5. item.prio >= top.prio
        BY <3>2, <4>3, <4>4 DEF Less
      <4>6. item.prio = -GasPrice[item.tx] /\ GasPrice[item.tx] <= GasPrice[top.tx]
            /\ item.prio # PrioInfinity
        BY <3>2, <4>4, <4>5
      <4> QED
        BY <3>2, <4>4, <4>6 DEF Dear
    <3> QED
      BY <2>2, <3>3
  <2> QED
    BY <2>1, <2>3, <2>4 DEF GiveUp
<1>2. IInv /\ [Next]_vars =>
        [~rebuilt /\ call.phase = "seek" /\ call' = Idle /\ taken' = taken =>
           \/ call.left = 0 /\ txs # <<>>
           \/ /\ \A item \in Waiting : ~(Fits(item.tx) /\ Dear(item))
              /\ \A i \in 1..Len(aside) : ~Fits(aside[i].tx)]_vars
  BY <1>1
<1> QED
  BY <1>2, Invariance, PTL DEF Spec, GivesUpRightly
===============================================================================
