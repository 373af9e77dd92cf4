--------------------------- MODULE CasperChainProofs ---------------------------
(***************************************************************************)
(* The fork choice of CasperChain.  First the tree of the checkpoints and  *)
(* the loop of Descend, then the invariant of the index that Record keeps: *)
(* exact subtree scores, pointers to the best children, and the head       *)
(* checkpoint where the pointers lead.  Last, the head by difficulty above *)
(* it.  The theorems assume that no block is delivered twice: add_block    *)
(* sets the subtree score of a checkpoint to 0 also when it has it already *)
(* (chain.py:292), and the scores may be wrong from then on.               *)
(***************************************************************************)
EXTENDS CasperQueueProofs

(* The multiple of EpochLength below a positive number.                     *)
LEMMA LastMultiple ==
  ASSUME NEW n \in Nat \ {0}, NEW e \in Nat \ {0}
  PROVE  LET m == ((n - 1) \div e) * e IN
         /\ m \in Nat /\ m < n /\ m % e = 0 /\ n <= m + e
         /\ n % e = 0 => n = m + e
         /\ \A k \in Nat : k % e = 0 /\ k < n => k <= m
<1> DEFINE q == (n - 1) \div e
           m == q * e
<1>1. n - 1 \in Nat
  OBVIOUS
<1>2. q \in Nat /\ n - 1 >= m /\ n - 1 < m + e
  <2>1. q \in Nat /\ (n - 1) % e \in 0..e - 1 /\ n - 1 = m + ((n - 1) % e)
    BY <1>1
  <2>2. m \in Nat
    BY <2>1
  <2> HIDE DEF q, m
  <2> QED
    BY <2>1, <2>2
<1> HIDE DEF q
<1>3. m \in Nat /\ m % e = 0
  BY <1>2
<1>4. ASSUME NEW k \in Nat, k % e = 0, k < n PROVE k <= m
  <2> DEFINE j == k \div e
  <2>1. j \in Nat /\ k = j * e
    BY <1>4
  <2> HIDE DEF j
  <2>2. CASE q < j
    <3>1. m + e <= k
      BY <1>2, <2>1, <2>2
    <3> HIDE DEF m
    <3> QED
      BY <1>2, <1>3, <1>4, <3>1
  <2>3. CASE j <= q
    BY <1>2, <2>1, <2>3
  <2> QED
    BY <1>2, <2>1, <2>2, <2>3
<1>5. ASSUME n % e = 0 PROVE n = m + e
  <2> DEFINE j == n \div e
  <2>1. j \in Nat /\ n = j * e
    BY <1>5
  <2> HIDE DEF j
  <2>2. CASE q < j
    <3>1. m + e <= n
      BY <1>2, <2>1, <2>2
    <3> HIDE DEF m
    <3> QED
      BY <1>2, <1>3, <3>1
  <2>3. CASE j <= q
    <3>1. n <= m
      BY <1>2, <2>1, <2>3
    <3> HIDE DEF m
    <3> QED
      BY <1>2, <1>3, <3>1
  <2> QED
    BY <1>2, <2>1, <2>2, <2>3
<1> HIDE DEF m
<1> QED
  BY <1>2, <1>3, <1>4, <1>5 DEF m, q

(* A step of e from a multiple of e leads to one.                           *)
LEMMA NextMultiple ==
  ASSUME NEW m \in Nat, NEW e \in Nat \ {0}, m % e = 0
  PROVE  /\ (m + e) % e = 0 /\ (((m + e) - 1) \div e) * e = m
         /\ \A k \in Nat : k % e = 0 /\ k > m => m + e <= k
<1> DEFINE n == m + e
           l == ((n - 1) \div e) * e
<1>1. n \in Nat \ {0}
  OBVIOUS
<1>2. n % e = 0
  <2> DEFINE q == m \div e
  <2>1. q \in Nat /\ m = q * e
    OBVIOUS
  <2> HIDE DEF q
  <2>2. n = (q + 1) * e
    BY <2>1
  <2> HIDE DEF n
  <2> QED
    BY <2>1, <2>2
<1>3. n = l + e
  <2> HIDE DEF n
  <2> QED
    BY <1>1, <1>2, LastMultiple
<1>4. l \in Nat /\ \A k \in Nat : k % e = 0 /\ k < n => k <= l
  <2> HIDE DEF n
  <2> QED
    BY <1>1, <1>2, LastMultiple
<1>5. l = m
  <2> HIDE DEF l
  <2> QED
    BY <1>3, <1>4
<1>6. ASSUME NEW k \in Nat, k % e = 0, k > m PROVE n <= k
  <2>1. k < n => k <= m
    <3> HIDE DEF l, n
    <3> QED
      BY <1>4, <1>5, <1>6
  <2> QED
    BY <1>6, <2>1
<1> QED
  BY <1>2, <1>5, <1>6

-------------------------------------------------------------------------------
(* The tree: a block is under the blocks of its path.                       *)
LEMMA OnPath ==
  ASSUME NEW b \in AllBlock, NEW n \in 0..Number[b]
  PROVE  /\ Anc[b][n] \in AllBlock /\ Number[Anc[b][n]] = n /\ Under(Anc[b][n], b)
         /\ \A m \in 0..n : Anc[Anc[b][n]][m] = Anc[b][m]
<1>1. Number[b] \in Nat /\ n \in Nat /\ n <= Number[b]
  BY Constants DEF Height
<1>2. Anc[b][n] \in AllBlock /\ Number[Anc[b][n]] = n
  BY BlockTreeAssumption DEF AncestorAssumption
<1>3. \A m \in 0..n : m \in 0..Number[b] /\ m <= n
  BY <1>1
<1>4. \A m \in 0..n : Anc[Anc[b][n]][m] = Anc[b][m]
  BY <1>3, BlockTreeAssumption DEF AncestorAssumption
<1> QED
  BY <1>1, <1>2, <1>4 DEF Under

LEMMA Tree ==
  /\ \A b \in AllBlock : Number[b] \in 0..MaxHeight /\ Under(b, b) /\ Under(Genesis, b)
  /\ \A b \in AllBlock : Number[b] = 0 => b = Genesis
  /\ \A b, c \in AllBlock : Under(c, b) => Number[c] <= Number[b]
  /\ \A b, c \in AllBlock : Under(c, b) /\ Number[b] <= Number[c] => b = c
  /\ \A b, c, d \in AllBlock : Under(c, b) /\ Under(d, c) => Under(d, b)
  /\ \A b, c, d \in AllBlock : Under(c, b) /\ Under(d, b) /\ Number[d] <= Number[c] => Under(d, c)
  /\ \A b \in Block : Under(Parent[b], b)
  /\ \A b \in Block : \A c \in AllBlock : Under(c, b) /\ c # b => Under(c, Parent[b])
<1>1. \A b \in AllBlock : Number[b] \in 0..MaxHeight /\ Anc[b][Number[b]] = b /\ Anc[b][0] = Genesis
  BY Constants, BlockTreeAssumption DEF AncestorAssumption, Height
<1>2. Number[Genesis] = 0 /\ Genesis \in AllBlock /\ Block \subseteq AllBlock /\ MaxHeight \in Nat
  BY Constants
<1>3. \A b \in AllBlock : Under(b, b) /\ Under(Genesis, b)
  BY <1>1, <1>2 DEF Under
<1>4. \A b, c \in AllBlock : Under(c, b) /\ Number[b] <= Number[c] => b = c
  <2> SUFFICES ASSUME NEW b \in AllBlock, NEW c \in AllBlock, Under(c, b),
                      Number[b] <= Number[c]
               PROVE  b = c
    OBVIOUS
  <2>1. Number[b] = Number[c]
    BY <1>1 DEF Under
  <2> QED
    BY <1>1, <2>1 DEF Under
<1>5. \A b, c, d \in AllBlock : Under(c, b) /\ Under(d, c) => Under(d, b)
  <2> SUFFICES ASSUME NEW b \in AllBlock, NEW c \in AllBlock, NEW d \in AllBlock,
                      Under(c, b), Under(d, c)
               PROVE  Under(d, b)
    OBVIOUS
  <2>1. /\ Number[c] \in 0..Number[b] /\ Number[d] \in 0..Number[c]
        /\ Number[d] <= Number[b] /\ Anc[b][Number[c]] = c
    BY <1>1 DEF Under
  <2>2. Anc[Anc[b][Number[c]]][Number[d]] = Anc[b][Number[d]]
    BY <2>1, OnPath
  <2> QED
    BY <2>1, <2>2 DEF Under
<1>6. \A b, c, d \in AllBlock : Under(c, b) /\ Under(d, b) /\ Number[d] <= Number[c] => Under(d, c)
  <2> SUFFICES ASSUME NEW b \in AllBlock, NEW c \in AllBlock, NEW d \in AllBlock,
                      Under(c, b), Under(d, b), Number[d] <= Number[c]
               PROVE  Under(d, c)
    OBVIOUS
  <2>1. /\ Number[c] \in 0..Number[b] /\ Number[d] \in 0..Number[c]
        /\ Anc[b][Number[c]] = c /\ Anc[b][Number[d]] = d
    BY <1>1 DEF Under
  <2>2. Anc[Anc[b][Number[c]]][Number[d]] = Anc[b][Number[d]]
    BY <2>1, OnPath
  <2> QED
    BY <2>1, <2>2 DEF Under
<1>7. \A b \in AllBlock : Number[b] = 0 => b = Genesis
  BY <1>1, <1>2
<1>8. \A b, c \in AllBlock : Under(c, b) => Number[c] <= Number[b]
  BY DEF Under
<1>9. ASSUME NEW b \in Block
      PROVE  /\ Under(Parent[b], b)
             /\ \A c \in AllBlock : Under(c, b) /\ c # b => Under(c, Parent[b])
  <2>1. /\ b \in AllBlock /\ Parent[b] \in AllBlock /\ Number[b] = Number[Parent[b]] + 1
    BY Constants
  <2>2. Number[b] \in 1..Number[b] /\ Number[b] - 1 = Number[Parent[b]]
    BY <1>1, <2>1
  <2>3. Parent[Anc[b][Number[b]]] = Anc[b][Number[b] - 1]
    BY <2>1, <2>2, BlockTreeAssumption DEF AncestorAssumption
  <2>4. Under(Parent[b], b)
    BY <1>1, <2>1, <2>2, <2>3 DEF Under
  <2>5. ASSUME NEW c \in AllBlock, Under(c, b), c # b PROVE Under(c, Parent[b])
    <3>1. Number[c] <= Number[Parent[b]]
      BY <1>1, <1>4, <2>1, <2>5
    <3> QED
      BY <1>6, <2>1, <2>4, <2>5, <3>1
  <2> QED
    BY <2>4, <2>5
<1> QED
  BY <1>1, <1>3, <1>4, <1>5, <1>6, <1>7, <1>8, <1>9

(* The checkpoints on a path; the checkpoint below a block is the last of   *)
(* them.                                                                    *)
LEMMA Checkpoints ==
  /\ Genesis \in Checkpoint /\ Checkpoint \subseteq AllBlock
  /\ \A c \in AllBlock : CpPath(c) = {e \in Checkpoint : Under(e, c)}
<1>1. Genesis \in Checkpoint
  <2>1. 0 % EpochLength = 0
    BY Constants
  <2> QED
    BY <2>1, Constants DEF Checkpoint, IsCheckpoint
<1>2. ASSUME NEW c \in AllBlock PROVE CpPath(c) = {e \in Checkpoint : Under(e, c)}
  <2>1. ASSUME NEW n \in 0..Number[c], n % EpochLength = 0
        PROVE  Anc[c][n] \in Checkpoint /\ Under(Anc[c][n], c)
    BY <2>1, OnPath DEF Checkpoint, IsCheckpoint
  <2>2. ASSUME NEW e \in Checkpoint, Under(e, c) PROVE e \in CpPath(c)
    <3>1. /\ Number[e] \in 0..Number[c] /\ Number[e] % EpochLength = 0
          /\ Anc[c][Number[e]] = e
      BY <2>2, Tree DEF Under, Checkpoint, IsCheckpoint
    <3> QED
      BY <3>1 DEF CpPath
  <2> QED
    BY <2>1, <2>2 DEF CpPath
<1> QED
  BY <1>1, <1>2 DEF Checkpoint

LEMMA PrevCpIs ==
  ASSUME NEW b \in Block
  PROVE  /\ PrevCp(b) \in Checkpoint /\ PrevCp(b) # b
         /\ Under(PrevCp(b), b) /\ Under(PrevCp(b), Parent[b])
         /\ \A e \in Checkpoint : Under(e, b) /\ e # b => Under(e, PrevCp(b))
         /\ b \in Checkpoint => Number[b] = Number[PrevCp(b)] + EpochLength
<1> DEFINE m == ((Number[b] - 1) \div EpochLength) * EpochLength
           c == PrevCp(b)
<1>1. b \in AllBlock /\ Number[b] \in Nat \ {0} /\ EpochLength \in Nat \ {0}
  <2>1. b \in AllBlock /\ Parent[b] \in AllBlock /\ Number[b] = Number[Parent[b]] + 1
    BY Constants
  <2>2. Number[b] \in Nat /\ Number[Parent[b]] \in Nat
    BY <2>1, Tree
  <2> QED
    BY <2>1, <2>2, Constants
<1>2. /\ m \in Nat /\ m < Number[b] /\ m % EpochLength = 0
      /\ Number[b] % EpochLength = 0 => Number[b] = m + EpochLength
      /\ \A k \in Nat : k % EpochLength = 0 /\ k < Number[b] => k <= m
  BY <1>1, LastMultiple
<1>3. c = Anc[b][m]
  BY DEF PrevCp
<1> HIDE DEF m, c
<1>4. m \in 0..Number[b]
  BY <1>1, <1>2
<1>5. c \in AllBlock /\ Number[c] = m /\ Under(c, b)
  BY <1>1, <1>3, <1>4, OnPath
<1>6. c \in Checkpoint
  BY <1>2, <1>5 DEF Checkpoint, IsCheckpoint
<1>7. c # b
  BY <1>1, <1>2, <1>5
<1>8. Under(c, Parent[b])
  BY <1>5, <1>7, Tree
<1>9. ASSUME NEW e \in Checkpoint, Under(e, b), e # b PROVE Under(e, c)
  <2>1. e \in AllBlock /\ Number[e] \in Nat /\ Number[e] % EpochLength = 0
    BY Tree DEF Checkpoint, IsCheckpoint
  <2>2. Number[e] < Number[b]
    BY <1>1, <1>9, <2>1, Tree
  <2>3. Number[e] <= Number[c]
    BY <1>2, <1>5, <2>1, <2>2
  <2> QED
    BY <1>1, <1>5, <1>9, <2>1, <2>3, Tree
<1>10. b \in Checkpoint => Number[b] = Number[c] + EpochLength
  BY <1>2, <1>5 DEF Checkpoint, IsCheckpoint
<1> QED
  BY <1>5, <1>6, <1>7, <1>8, <1>9, <1>10 DEF c

(* The next checkpoint on the way from a checkpoint to one above it.        *)
Toward(e, c) == Anc[c][Number[e] + EpochLength]

LEMMA TowardIs ==
  ASSUME NEW e \in Checkpoint, NEW c \in Checkpoint, Under(e, c), e # c
  PROVE  /\ Toward(e, c) \in Checkpoint \ {Genesis} /\ Toward(e, c) \in Block
         /\ Under(Toward(e, c), c)
         /\ PrevCp(Toward(e, c)) = e /\ Under(e, Toward(e, c)) /\ Toward(e, c) # e
         /\ \A x \in Checkpoint \ {Genesis} : PrevCp(x) = e /\ Under(x, c) => x = Toward(e, c)
<1> DEFINE n == Number[e] + EpochLength
           x == Toward(e, c)
<1>1. /\ e \in AllBlock /\ c \in AllBlock /\ Number[e] \in Nat /\ Number[c] \in Nat
      /\ Number[e] % EpochLength = 0 /\ Number[c] % EpochLength = 0
      /\ EpochLength \in Nat \ {0}
  BY Tree, Constants DEF Checkpoint, IsCheckpoint
<1>2. Number[e] < Number[c]
  BY <1>1, Tree
<1>3. n % EpochLength = 0 /\ n <= Number[c] /\ ((n - 1) \div EpochLength) * EpochLength = Number[e]
  <2>1. /\ (Number[e] + EpochLength) % EpochLength = 0
        /\ (((Number[e] + EpochLength) - 1) \div EpochLength) * EpochLength = Number[e]
        /\ \A k \in Nat : k % EpochLength = 0 /\ k > Number[e] => Number[e] + EpochLength <= k
    BY <1>1, NextMultiple, Zenon
  <2>2. Number[c] > Number[e]
    BY <1>1, <1>2
  <2>3. Number[e] + EpochLength <= Number[c]
    BY <1>1, <2>1, <2>2, Zenon
  <2> QED
    BY <2>1, <2>3, Zenon
<1>4. n \in 0..Number[c] /\ n # 0 /\ Number[e] \in 0..n
  BY <1>1, <1>3
<1>5. x = Anc[c][n]
  BY DEF Toward
<1> HIDE DEF n, x
<1>6. x \in AllBlock /\ Number[x] = n /\ Under(x, c) /\ Anc[x][Number[e]] = Anc[c][Number[e]]
  BY <1>1, <1>4, <1>5, OnPath
<1>7. x \in Checkpoint /\ x # Genesis /\ x \in Block
  BY <1>3, <1>4, <1>6, Constants DEF Checkpoint, IsCheckpoint, AllBlock
<1>8. PrevCp(x) = e
  <2>1. Anc[c][Number[e]] = e
    BY DEF Under
  <2> QED
    BY <1>3, <1>6, <2>1 DEF PrevCp
<1>9. Under(e, x) /\ x # e
  BY <1>7, <1>8, PrevCpIs
<1>10. ASSUME NEW y \in Checkpoint \ {Genesis}, PrevCp(y) = e, Under(y, c) PROVE y = x
  <2>1. y \in AllBlock /\ y \in Block
    BY DEF Checkpoint, AllBlock
  <2>2. Number[y] = n
    BY <1>10, <2>1, PrevCpIs DEF n
  <2> QED
    BY <1>5, <1>10, <2>2 DEF Under
<1> QED
  BY <1>6, <1>7, <1>8, <1>9, <1>10 DEF x

(* Of the checkpoints in a set there is a highest one.                      *)
LEMMA Highest ==
  ASSUME NEW S \in SUBSET Checkpoint, S # {}
  PROVE  \E d \in S : \A e \in S : Number[e] <= Number[d]
<1> DEFINE T == {Number[d] : d \in S}
<1>1. T \in SUBSET (0..MaxHeight) /\ T # {} /\ MaxHeight \in Nat
  <2>1. \A d \in S : Number[d] \in 0..MaxHeight
    BY Tree, Checkpoints
  <2> QED
    BY <2>1, Constants
<1>2. \A d \in S : Number[d] \in T
  OBVIOUS
<1>3. \A m \in T : \E d \in S : Number[d] = m
  OBVIOUS
<1> HIDE DEF T
<1>4. PICK m \in T : \A k \in T : k <= m
  BY <1>1, GreatestNatural
<1>5. PICK d \in S : Number[d] = m
  BY <1>3
<1>6. \A e \in S : Number[e] <= Number[d]
  BY <1>2, <1>4, <1>5
<1> QED
  BY <1>6

(* What Committed and SharedParent choose.                                  *)
LastCommitted(d, c, scores) ==
  /\ d \in Checkpoint /\ Under(d, c)
  /\ d = Genesis \/ scores[d] # 0
  /\ \A e \in Checkpoint : Under(e, c) /\ Number[e] > Number[d] => scores[e] = 0

LEMMA CommittedIs ==
  ASSUME NEW c \in Checkpoint, NEW scores
  PROVE  LastCommitted(Committed(c, scores), c, scores)
<1> DEFINE S == {d \in Checkpoint : Under(d, c) /\ (d = Genesis \/ scores[d] # 0)}
<1>1. c \in AllBlock /\ CpPath(c) = {e \in Checkpoint : Under(e, c)}
  BY Checkpoints
<1>2. S \in SUBSET Checkpoint /\ S # {}
  BY <1>1, Checkpoints, Tree
<1>3. \A d \in Checkpoint : d \in S <=> Under(d, c) /\ (d = Genesis \/ scores[d] # 0)
  OBVIOUS
<1> HIDE DEF S
<1>4. PICK d \in S : \A e \in S : Number[e] <= Number[d]
  BY <1>2, Highest
<1>5. /\ d \in CpPath(c) /\ (d = Genesis \/ scores[d] # 0)
      /\ \A e \in CpPath(c) : Number[e] > Number[d] => scores[e] = 0
  <2>1. d \in Checkpoint /\ \A e \in Checkpoint : Number[e] \in Int
    BY <1>2, Tree, Checkpoints
  <2> QED
    BY <1>1, <1>3, <1>4, <2>1
<1>6. LET x == Committed(c, scores) IN
      /\ x \in CpPath(c) /\ (x = Genesis \/ scores[x] # 0)
      /\ \A e \in CpPath(c) : Number[e] > Number[x] => scores[e] = 0
  BY <1>5, Zenon DEF Committed
<1> QED
  BY <1>1, <1>6 DEF LastCommitted

LEMMA OneCommitted ==
  ASSUME NEW c \in Checkpoint, NEW scores, NEW d, NEW e,
         LastCommitted(d, c, scores), LastCommitted(e, c, scores)
  PROVE  d = e
<1>1. /\ c \in AllBlock /\ d \in Checkpoint /\ e \in Checkpoint
      /\ d \in AllBlock /\ e \in AllBlock /\ Number[d] \in Nat /\ Number[e] \in Nat
      /\ Under(d, c) /\ Under(e, c)
  BY Tree, Checkpoints DEF LastCommitted
<1>2. Number[e] <= Number[d]
  <2>1. Number[e] > Number[d] => e # Genesis /\ scores[e] = 0
    BY <1>1, Constants DEF LastCommitted
  <2> QED
    BY <1>1, <2>1 DEF LastCommitted
<1>3. Number[d] <= Number[e]
  <2>1. Number[d] > Number[e] => d # Genesis /\ scores[d] = 0
    BY <1>1, Constants DEF LastCommitted
  <2> QED
    BY <1>1, <2>1 DEF LastCommitted
<1>4. Under(d, e)
  BY <1>1, <1>3, Tree
<1> QED
  BY <1>1, <1>2, <1>4, Tree

LEMMA SharedParentIs ==
  ASSUME NEW c \in Checkpoint \ {Genesis}, NEW d \in Checkpoint \ {Genesis}
  PROVE  LET e == SharedParent(c, d) IN
         /\ e \in Checkpoint /\ Under(e, c) /\ Under(e, d) /\ e # c /\ e # d
         /\ \A f \in Checkpoint : Under(f, c) /\ Under(f, d) /\ f # c /\ f # d => Under(f, e)
<1> DEFINE S == {e \in CpPath(c) \cap CpPath(d) : e # c /\ e # d}
           e == SharedParent(c, d)
<1>1. /\ c \in AllBlock /\ CpPath(c) = {x \in Checkpoint : Under(x, c)}
      /\ d \in AllBlock /\ CpPath(d) = {x \in Checkpoint : Under(x, d)}
  BY Checkpoints
<1>2. S \in SUBSET Checkpoint /\ Genesis \in S
  BY <1>1, Checkpoints, Tree
<1>3. \A x \in Checkpoint : x \in S <=> Under(x, c) /\ Under(x, d) /\ x # c /\ x # d
  BY <1>1
<1>4. e = CHOOSE x \in S : \A y \in S : Number[y] <= Number[x]
  BY DEF SharedParent
<1> HIDE DEF S, e
<1>5. \E x \in S : \A y \in S : Number[y] <= Number[x]
  BY <1>2, Highest
<1>6. e \in S /\ \A y \in S : Number[y] <= Number[e]
  BY <1>4, <1>5, Zenon
<1>7. \A f \in S : Under(f, e)
  <2>1. \A f \in S : f \in AllBlock /\ Under(f, c)
    BY <1>2, <1>3, Checkpoints
  <2> QED
    BY <1>1, <1>6, <2>1, Tree
<1> QED
  BY <1>2, <1>3, <1>6, <1>7 DEF e

(* Where the child pointers lead from p: the checkpoint without a child     *)
(* that all the pointers on the way to it point to.                         *)
Pointers(child) ==
  child \in [Checkpoint -> Checkpoint \cup {NoBlock}]
    /\ \A p \in Checkpoint : child[p] # NoBlock => child[p] # Genesis /\ PrevCp(child[p]) = p

Leaf(p, child, d) ==
  /\ d \in Checkpoint /\ Under(p, d) /\ child[d] = NoBlock
  /\ \A e \in Checkpoint : Under(p, e) /\ Under(e, d) /\ e # d =>
       child[e] \in Checkpoint /\ Under(child[e], d)

LEMMA OneLeaf ==
  ASSUME NEW child, Pointers(child), NEW p \in Checkpoint, NEW d, NEW e,
         Leaf(p, child, d), Leaf(p, child, e)
  PROVE  d = e
<1> DEFINE S == {f \in Checkpoint : Under(p, f) /\ Under(f, d) /\ Under(f, e)}
<1>1. /\ p \in AllBlock /\ d \in Checkpoint /\ e \in Checkpoint
      /\ d \in AllBlock /\ e \in AllBlock
      /\ Under(p, d) /\ Under(p, e) /\ child[d] = NoBlock /\ child[e] = NoBlock
      /\ NoBlock \notin Checkpoint
  BY Checkpoints, Constants DEF Leaf
<1>2. S \in SUBSET Checkpoint /\ p \in S
  BY <1>1, Tree
<1>3. \A f \in Checkpoint : f \in S <=> Under(p, f) /\ Under(f, d) /\ Under(f, e)
  OBVIOUS
<1> HIDE DEF S
<1>4. PICK f \in S : \A g \in S : Number[g] <= Number[f]
  BY <1>2, Highest
<1>5. f \in Checkpoint /\ f \in AllBlock /\ Under(p, f) /\ Under(f, d) /\ Under(f, e)
  BY <1>2, <1>3, <1>4, Checkpoints
<1>6. ASSUME f # d, f # e PROVE FALSE
  <2> DEFINE g == child[f]
  <2>1. g \in Checkpoint /\ Under(g, d) /\ Under(g, e)
    BY <1>5, <1>6 DEF Leaf
  <2>2. g # Genesis /\ PrevCp(g) = f /\ g \in AllBlock /\ g \in Block
    BY <1>1, <1>5, <2>1, Checkpoints DEF Pointers, AllBlock
  <2> HIDE DEF g
  <2>3. Under(f, g) /\ f # g
    BY <2>2, PrevCpIs
  <2>4. Under(p, g)
    BY <1>1, <1>5, <2>2, <2>3, Tree
  <2>5. Number[g] <= Number[f]
    BY <1>3, <1>4, <2>1, <2>4
  <2> QED
    BY <1>5, <2>2, <2>3, <2>5, Tree
<1> QED
  BY <1>1, <1>5, <1>6 DEF Leaf

(* The loop of Descend ends in the leaf: every round goes at least one      *)
(* block up, and no block is above MaxHeight.                               *)
LEMMA DescendIs ==
  ASSUME NEW child, Pointers(child), NEW p \in Checkpoint
  PROVE  Leaf(p, child, Descend(p, child))
<1> DEFINE n == MaxHeight
           F == [k \in 1..n |-> [s \in Checkpoint |-> IF child[s] = NoBlock THEN s ELSE child[s]]]
           down[k \in 0..MaxHeight] ==
             IF k = 0 THEN p
             ELSE IF child[down[k - 1]] = NoBlock THEN down[k - 1]
             ELSE child[down[k - 1]]
<1>1. /\ n \in Nat /\ NoBlock \notin Checkpoint /\ p \in AllBlock
      /\ \A s \in Checkpoint : s \in AllBlock /\ Number[s] \in 0..n /\ Under(s, s)
  BY Constants, Tree, Checkpoints
<1>2. ASSUME NEW s \in Checkpoint, child[s] # NoBlock
      PROVE  /\ child[s] \in Checkpoint /\ child[s] \in Block /\ PrevCp(child[s]) = s
             /\ Under(s, child[s]) /\ Number[s] < Number[child[s]]
  <2>1. child[s] \in Checkpoint /\ child[s] # Genesis /\ PrevCp(child[s]) = s
    BY <1>2 DEF Pointers
  <2>2. child[s] \in Block
    BY <2>1, Checkpoints DEF AllBlock
  <2>3. Under(s, child[s]) /\ s # child[s]
    BY <2>1, <2>2, PrevCpIs
  <2> QED
    BY <1>1, <2>1, <2>2, <2>3, Tree
<1>3. Loop(F, n, Checkpoint)
  BY <1>2 DEF Loop
<1>4. PICK g : Run(g, F, n, Checkpoint, p)
  <2> HIDE DEF F
  <2> QED
    BY <1>1, <1>3, Rounds
<1>5. \A k \in 1..n : \A s \in Checkpoint : F[k][s] = IF child[s] = NoBlock THEN s ELSE child[s]
  OBVIOUS
<1> HIDE DEF F
<1>6. ASSUME NEW k \in 1..n
      PROVE  g[k] = IF child[g[k - 1]] = NoBlock THEN g[k - 1] ELSE child[g[k - 1]]
  <2>1. k - 1 \in 0..n
    BY <1>1
  <2> QED
    BY <1>4, <1>5, <2>1 DEF Run
<1>7. g = [k \in 0..MaxHeight |-> IF k = 0 THEN p
                                  ELSE IF child[g[k - 1]] = NoBlock THEN g[k - 1]
                                  ELSE child[g[k - 1]]]
  BY <1>1, <1>4, <1>6 DEF Run
<1>8. down = [k \in 0..MaxHeight |-> IF k = 0 THEN p
                                     ELSE IF child[down[k - 1]] = NoBlock THEN down[k - 1]
                                     ELSE child[down[k - 1]]]
  BY <1>7, Zenon
<1>9. Descend(p, child) = down[n]
  BY DEF Descend
<1> HIDE DEF down
<1>10. /\ down[0] = p
       /\ \A k \in 1..n : down[k] = IF child[down[k - 1]] = NoBlock THEN down[k - 1]
                                    ELSE child[down[k - 1]]
  BY <1>1, <1>8
<1> DEFINE Way(d) == /\ d \in Checkpoint /\ Under(p, d)
                     /\ \A e \in Checkpoint : Under(p, e) /\ Under(e, d) /\ e # d =>
                          child[e] \in Checkpoint /\ Under(child[e], d)
           T == {k \in 0..n : Way(down[k]) /\ (child[down[k]] = NoBlock \/ Number[down[k]] >= k)}
<1>11. 0 \in T
  <2>1. \A e \in Checkpoint : Under(p, e) /\ Under(e, p) => e = p
    BY <1>1, Tree
  <2> QED
    BY <1>1, <1>10, <2>1
<1>12. ASSUME NEW k \in 1..n, k - 1 \in T PROVE k \in T
  <2> DEFINE s == down[k - 1]
             d == down[k]
  <2>1. Way(s) /\ s \in Checkpoint /\ (child[s] = NoBlock \/ Number[s] >= k - 1)
    BY <1>12
  <2>2. d = IF child[s] = NoBlock THEN s ELSE child[s]
    BY <1>10
  <2>3. k \in 0..n
    BY <1>1
  <2> HIDE DEF s
  <2>4. CASE child[s] = NoBlock
    <3>1. d = s
      BY <2>2, <2>4
    <3> QED
      BY <2>1, <2>3, <2>4, <3>1
  <2>5. CASE child[s] # NoBlock
    <3>1. /\ d = child[s] /\ d \in Checkpoint /\ d \in Block /\ PrevCp(d) = s
          /\ Under(s, d) /\ Number[s] < Number[d]
      BY <1>2, <2>1, <2>2, <2>5
    <3>2. d \in AllBlock /\ s \in AllBlock /\ Number[s] \in Int /\ Number[d] \in Int
      BY <1>1, <2>1, <3>1
    <3> HIDE DEF d
    <3>3. Number[d] >= k
      BY <2>1, <2>5, <3>1, <3>2
    <3>4. Under(p, d)
      BY <1>1, <2>1, <3>1, <3>2, Tree
    <3>5. ASSUME NEW e \in Checkpoint, Under(p, e), Under(e, d), e # d
          PROVE  child[e] \in Checkpoint /\ Under(child[e], d)
      <4>1. Under(e, s)
        BY <3>1, <3>5, PrevCpIs
      <4>2. CASE e = s
        BY <1>1, <3>1, <4>2
      <4>3. CASE e # s
        <5>1. child[e] \in Checkpoint /\ Under(child[e], s)
          BY <2>1, <3>5, <4>1, <4>3
        <5>2. child[e] \in AllBlock
          BY <1>1, <5>1
        <5> QED
          BY <3>1, <3>2, <5>1, <5>2, Tree
      <4> QED
        BY <4>2, <4>3
    <3>6. Way(d)
      BY <3>1, <3>4, <3>5
    <3> QED
      BY <2>3, <3>3, <3>6 DEF d
  <2> QED
    BY <2>4, <2>5
<1>13. n \in T
  <2>1. \A k \in 1..n : k - 1 \in T => k \in T
    BY <1>12
  <2> HIDE DEF T
  <2>2. \A k \in 0..n : k \in T
    BY <1>1, <1>11, <2>1, UpTo
  <2> QED
    BY <1>1, <2>2
<1>14. Way(down[n]) /\ (child[down[n]] = NoBlock \/ Number[down[n]] >= n)
  BY <1>13
<1>15. child[down[n]] = NoBlock
  <2> SUFFICES ASSUME child[down[n]] # NoBlock PROVE FALSE
    OBVIOUS
  <2> DEFINE d == down[n]
  <2>1. d \in Checkpoint /\ Number[d] >= n
    BY <1>14
  <2> HIDE DEF d
  <2>2. child[d] \in Checkpoint /\ Number[d] < Number[child[d]]
    BY <1>2, <2>1 DEF d
  <2> QED
    BY <1>1, <2>1, <2>2
<1> QED
  BY <1>9, <1>14, <1>15 DEF Leaf

-------------------------------------------------------------------------------
(* The index of the checkpoints: its type, with every path stored whole and *)
(* nothing kept for a checkpoint that is not stored; exact subtree scores;  *)
(* pointers to the best children, which have commits above them; and the    *)
(* head checkpoint where the pointers lead.                                 *)
CpType ==
  /\ store \subseteq AllBlock
  /\ \A b \in store : \A a \in AllBlock : Under(a, b) => a \in store
  /\ cpScore \in [Checkpoint -> Nat]
  /\ subtree \in [Checkpoint -> Nat]
  /\ Pointers(cpChild)
  /\ headCp \in Checkpoint \cap store
  /\ \A d \in Checkpoint \ store : cpScore[d] = 0 /\ subtree[d] = 0 /\ cpChild[d] = NoBlock

Best(s, c, scores, stored) ==
  /\ \E d \in Checkpoint \cap stored : Under(c, d) /\ scores[d] = s
  /\ \A d \in Checkpoint \cap stored : Under(c, d) => scores[d] <= s

Exact == \A c \in (Checkpoint \cap store) \ {Genesis} : Best(subtree[c], c, cpScore, store)

Kids(p, stored) == {c \in (Checkpoint \cap stored) \ {Genesis} : PrevCp(c) = p}

Favourite(p, child, sub, stored) ==
  \/ child[p] = NoBlock /\ \A c \in Kids(p, stored) : sub[c] = 0
  \/ /\ child[p] \in Kids(p, stored) /\ sub[child[p]] > 0
     /\ \A c \in Kids(p, stored) : sub[c] <= sub[child[p]]

Favourites == \A p \in Checkpoint : Favourite(p, cpChild, subtree, store)

CpInv == CpType /\ Exact /\ Favourites /\ Leaf(Genesis, cpChild, headCp)

LEMMA InitCpInv == Init => CpInv
<1> SUFFICES ASSUME Init PROVE CpInv
  OBVIOUS
<1>1. /\ store = {Genesis} /\ headCp = Genesis
      /\ cpScore = [c \in Checkpoint |-> 0] /\ subtree = [c \in Checkpoint |-> 0]
      /\ cpChild = [c \in Checkpoint |-> NoBlock]
      /\ Genesis \in Checkpoint /\ Genesis \in AllBlock
      /\ \A e \in AllBlock : Under(e, Genesis) => e = Genesis
  <2>1. \A e \in AllBlock : Under(e, Genesis) => e = Genesis
    BY Constants, Tree
  <2> QED
    BY <2>1, Constants, Checkpoints DEF Init
<1>2. CpType
  BY <1>1 DEF CpType, Pointers
<1>3. Exact
  BY <1>1 DEF Exact
<1>4. Favourites
  BY <1>1 DEF Favourites, Favourite, Kids
<1>5. Leaf(Genesis, cpChild, headCp)
  BY <1>1, Checkpoints, Tree DEF Leaf
<1> QED
  BY <1>2, <1>3, <1>4, <1>5 DEF CpInv

(* What Record does, in terms of the exact scores: it raises the subtree    *)
(* scores below c that the new score beats, and moves the pointers of the   *)
(* checkpoints whose favourite child it beats.                              *)
Stored(b) == b \in Block /\ b \notin store /\ Parent[b] \in store /\ Record(b)

Lifted(d, b) ==
  d \in Checkpoint \ {Genesis} /\ Under(d, PrevCp(b)) /\ subtree[d] < ScoreAfter(b)

Preferred(x, p, b) ==
  /\ Lifted(x, b) /\ PrevCp(x) = p
  /\ cpChild[p] = NoBlock \/ subtree'[cpChild[p]] < ScoreAfter(b)

LEMMA RecordIs ==
  ASSUME CpInv, NEW b, Stored(b)
  PROVE  LET c == PrevCp(b)
             new == ScoreAfter(b)
         IN /\ c \in Checkpoint \cap store /\ new \in Nat /\ cpScore[c] <= new
            /\ store' = store \cup {b}
            /\ cpScore' = [cpScore EXCEPT ![c] = new]
            /\ subtree' = [d \in Checkpoint |-> IF Lifted(d, b) THEN new ELSE subtree[d]]
            /\ cpChild' \in [Checkpoint -> Checkpoint \cup {NoBlock}]
            /\ \A p \in Checkpoint :
                 \/ Preferred(cpChild'[p], p, b)
                 \/ cpChild'[p] = cpChild[p] /\ \A x : ~Preferred(x, p, b)
            /\ headCp' = RecomputedHead(Committed(c, cpScore'), cpChild')
            /\ \A d \in Checkpoint \cap store' : Under(b, d) => d = b
            /\ \A d \in Checkpoint \cap store : Under(d, b) => Under(d, c)
<1> DEFINE c == PrevCp(b)
           new == ScoreAfter(b)
           path == CpPath(c) \ {Genesis}
           improved == Improved(c, SubtreeWith(b), new)
<1>1. /\ b \in Block /\ b \in AllBlock /\ b \notin store /\ Parent[b] \in store /\ Record(b)
      /\ store' = store \cup {b} /\ Parent[b] \in AllBlock
  BY Constants DEF Stored, Record
<1>2. c \in Checkpoint \cap store /\ c \in AllBlock
  BY <1>1, PrevCpIs, Checkpoints DEF CpInv, CpType
<1>3. new \in Nat /\ cpScore[c] <= new
  <2>1. cpScore[c] \in Nat /\ Frac[b] \in Nat
    BY <1>1, <1>2, Constants DEF CpInv, CpType
  <2> QED
    BY <2>1 DEF ScoreAfter
<1>4. path = {d \in Checkpoint \ {Genesis} : Under(d, c)}
  BY <1>2, Checkpoints
<1>5. \A d \in Checkpoint : Under(d, c) => d \in store /\ d \in AllBlock
  BY <1>2, Checkpoints DEF CpInv, CpType
<1>6. \A d \in Checkpoint : SubtreeWith(b)[d] = subtree[d]
  BY <1>1 DEF CpInv, CpType, SubtreeWith, Checkpoint
<1> HIDE DEF c, new
<1>7. \A d, e \in path : Number[e] >= Number[d] => subtree[e] <= subtree[d]
  <2> SUFFICES ASSUME NEW d \in path, NEW e \in path, Number[e] >= Number[d]
               PROVE  subtree[e] <= subtree[d]
    OBVIOUS
  <2>1. /\ d \in (Checkpoint \cap store) \ {Genesis} /\ e \in (Checkpoint \cap store) \ {Genesis}
        /\ d \in AllBlock /\ e \in AllBlock /\ Under(d, c) /\ Under(e, c)
    BY <1>4, <1>5
  <2>2. Under(d, e)
    <3>1. Number[d] <= Number[e]
      BY <2>1, Tree
    <3> QED
      BY <1>2, <2>1, <3>1, Tree
  <2>3. PICK x \in Checkpoint \cap store : Under(e, x) /\ cpScore[x] = subtree[e]
    BY <2>1 DEF CpInv, Exact, Best
  <2>4. Under(d, x)
    BY <2>1, <2>2, <2>3, Tree, Checkpoints
  <2> QED
    BY <2>1, <2>3, <2>4 DEF CpInv, Exact, Best
<1>8. \A d : d \in improved <=> Lifted(d, b)
  <2>1. \A d : d \in improved <=> d \in path /\ \A e \in path : Number[e] >= Number[d]
                                                  => SubtreeWith(b)[e] < new
    BY DEF Improved
  <2>2. \A d \in path : Number[d] >= Number[d] /\ d \in Checkpoint /\ Number[d] \in Int
    BY <1>4, Tree, Checkpoints
  <2>3. \A d \in path : subtree[d] \in Nat
    BY <2>2 DEF CpInv, CpType
  <2> HIDE DEF path
  <2>4. ASSUME NEW d \in path, subtree[d] < new, NEW e \in path, Number[e] >= Number[d]
        PROVE  SubtreeWith(b)[e] < new
    BY <1>3, <1>6, <1>7, <2>2, <2>3, <2>4
  <2>5. \A d \in path : SubtreeWith(b)[d] = subtree[d]
    BY <1>6, <2>2
  <2>6. \A d : d \in improved <=> d \in path /\ subtree[d] < new
    <3> HIDE DEF improved
    <3> QED
      BY <2>1, <2>2, <2>4, <2>5
  <2>7. \A d : d \in path <=> d \in Checkpoint \ {Genesis} /\ Under(d, c)
    BY <1>4
  <2> HIDE DEF improved
  <2> QED
    BY <2>6, <2>7 DEF Lifted, c, new
<1>9. /\ cpScore' = [cpScore EXCEPT ![c] = new]
      /\ subtree' = [d \in Checkpoint |-> IF d \in improved THEN new ELSE SubtreeWith(b)[d]]
      /\ cpChild' = [p \in Checkpoint |-> Pointer(p, subtree', new, improved)]
      /\ headCp' = RecomputedHead(Committed(c, cpScore'), cpChild')
  BY <1>1 DEF Record, c, new
<1> HIDE DEF improved
<1>10. subtree' = [d \in Checkpoint |-> IF Lifted(d, b) THEN new ELSE subtree[d]]
  BY <1>6, <1>8, <1>9
<1>11. ASSUME NEW p \in Checkpoint
       PROVE  \/ Preferred(cpChild'[p], p, b)
              \/ cpChild'[p] = cpChild[p] /\ \A x : ~Preferred(x, p, b)
  <2> DEFINE better == {x \in improved : PrevCp(x) = p /\
                          (cpChild[p] = NoBlock \/ subtree'[cpChild[p]] < new)}
  <2>1. cpChild'[p] = IF better = {} THEN cpChild[p] ELSE CHOOSE x \in better : TRUE
    BY <1>9 DEF Pointer
  <2>2. \A x : x \in better <=> Preferred(x, p, b)
    BY <1>8 DEF Preferred, new
  <2> HIDE DEF better
  <2>3. CASE better = {}
    BY <2>1, <2>2, <2>3
  <2>4. CASE better # {}
    <3>1. cpChild'[p] \in better
      BY <2>1, <2>4
    <3> QED
      BY <2>2, <3>1
  <2> QED
    BY <2>3, <2>4
<1>12. cpChild' \in [Checkpoint -> Checkpoint \cup {NoBlock}]
  <2>1. \A p \in Checkpoint : cpChild'[p] \in Checkpoint \cup {NoBlock}
    BY <1>11 DEF Preferred, Lifted, CpInv, CpType, Pointers
  <2> QED
    BY <1>9, <2>1
<1>13. ASSUME NEW d \in Checkpoint \cap store', Under(b, d) PROVE d = b
  BY <1>1, <1>13 DEF CpInv, CpType
<1>14. ASSUME NEW d \in Checkpoint \cap store, Under(d, b) PROVE Under(d, c)
  BY <1>1, <1>14, PrevCpIs DEF c
<1> QED
  BY <1>1, <1>2, <1>3, <1>9, <1>10, <1>11, <1>12, <1>13, <1>14 DEF c, new

(* Of two lifted checkpoints with one parent each is the other.             *)
LEMMA OneLifted ==
  ASSUME CpInv, NEW b, Stored(b), NEW x, NEW y, Lifted(x, b), Lifted(y, b),
         PrevCp(x) = PrevCp(y)
  PROVE  x = y
<1> DEFINE c == PrevCp(b)
           e == PrevCp(x)
<1>1. c \in Checkpoint /\ c \in AllBlock
  BY RecordIs, Checkpoints
<1>2. /\ x \in Checkpoint \ {Genesis} /\ y \in Checkpoint \ {Genesis}
      /\ Under(x, c) /\ Under(y, c) /\ x \in AllBlock /\ x \in Block
  BY Checkpoints DEF Lifted, AllBlock
<1>3. e \in Checkpoint /\ Under(e, x) /\ e # x /\ e \in AllBlock
  BY <1>2, PrevCpIs, Checkpoints
<1>4. Under(e, c)
  BY <1>1, <1>2, <1>3, Tree
<1>5. e # c
  <2>1. Number[e] < Number[x] /\ Number[x] <= Number[c]
    BY <1>1, <1>2, <1>3, Tree
  <2>2. Number[e] \in Int /\ Number[x] \in Int
    BY <1>2, <1>3, Tree
  <2> QED
    BY <2>1, <2>2
<1>6. x = Toward(e, c) /\ y = Toward(e, c)
  BY <1>1, <1>2, <1>3, <1>4, <1>5, TowardIs
<1> QED
  BY <1>6

LEMMA RecordType ==
  ASSUME CpInv, NEW b, Stored(b)
  PROVE  /\ store' \subseteq AllBlock
         /\ \A x \in store' : \A a \in AllBlock : Under(a, x) => a \in store'
         /\ cpScore' \in [Checkpoint -> Nat] /\ subtree' \in [Checkpoint -> Nat]
         /\ Pointers(cpChild')
         /\ \A d \in Checkpoint \ store' :
              cpScore'[d] = 0 /\ subtree'[d] = 0 /\ cpChild'[d] = NoBlock
<1> DEFINE c == PrevCp(b)
           new == ScoreAfter(b)
<1>1. /\ b \in Block /\ b \in AllBlock /\ store' = store \cup {b} /\ Parent[b] \in store
      /\ store \subseteq AllBlock
  BY Constants, RecordIs DEF Stored, CpInv, CpType
<1>2. /\ c \in Checkpoint \cap store /\ new \in Nat /\ c \in AllBlock
      /\ cpScore' = [cpScore EXCEPT ![c] = new]
      /\ subtree' = [d \in Checkpoint |-> IF Lifted(d, b) THEN new ELSE subtree[d]]
  BY RecordIs, Checkpoints
<1> HIDE DEF c, new
<1>3. ASSUME NEW x \in store', NEW a \in AllBlock, Under(a, x) PROVE a \in store'
  BY <1>1, <1>3, Tree DEF CpInv, CpType
<1>4. cpScore' \in [Checkpoint -> Nat] /\ subtree' \in [Checkpoint -> Nat]
  BY <1>2 DEF CpInv, CpType
<1>5. Pointers(cpChild')
  <2>1. cpChild' \in [Checkpoint -> Checkpoint \cup {NoBlock}]
    BY RecordIs
  <2>2. ASSUME NEW p \in Checkpoint, cpChild'[p] # NoBlock
        PROVE  cpChild'[p] # Genesis /\ PrevCp(cpChild'[p]) = p
    <3>1. Preferred(cpChild'[p], p, b) \/ cpChild'[p] = cpChild[p]
      BY RecordIs
    <3> QED
      BY <2>2, <3>1 DEF Preferred, Lifted, CpInv, CpType, Pointers
  <2> QED
    BY <2>1, <2>2 DEF Pointers
<1>6. \A d : Lifted(d, b) => d \in store /\ d \in Checkpoint
  BY <1>2, Checkpoints DEF Lifted, CpInv, CpType, c
<1>7. ASSUME NEW d \in Checkpoint \ store'
      PROVE  cpScore'[d] = 0 /\ subtree'[d] = 0 /\ cpChild'[d] = NoBlock
  <2>1. d \notin store /\ d # c /\ ~Lifted(d, b)
    BY <1>1, <1>2, <1>6
  <2>2. cpScore'[d] = 0 /\ subtree'[d] = 0
    BY <1>2, <2>1 DEF CpInv, CpType
  <2>3. ~Preferred(cpChild'[d], d, b)
    <3> SUFFICES ASSUME NEW x, Preferred(x, d, b) PROVE FALSE
      OBVIOUS
    <3>1. x \in store /\ x \in Checkpoint /\ x # Genesis /\ PrevCp(x) = d
      BY <1>6 DEF Preferred, Lifted
    <3>2. x \in Block
      BY <3>1, Checkpoints DEF AllBlock
    <3>3. Under(d, x) /\ d \in AllBlock
      BY <3>1, <3>2, PrevCpIs, Checkpoints
    <3> QED
      BY <2>1, <3>1, <3>3 DEF CpInv, CpType
  <2>4. cpChild'[d] = NoBlock
    BY <2>1, <2>3, RecordIs DEF CpInv, CpType
  <2> QED
    BY <2>2, <2>4
<1> QED
  BY <1>1, <1>3, <1>4, <1>5, <1>7

LEMMA RecordExact ==
  ASSUME CpInv, NEW b, Stored(b)
  PROVE  Exact'
<1> DEFINE c == PrevCp(b)
           new == ScoreAfter(b)
<1>1. /\ b \in Block /\ b \in AllBlock /\ b \notin store /\ store' = store \cup {b}
      /\ store \subseteq AllBlock
  BY Constants, RecordIs DEF Stored, CpInv, CpType
<1>2. /\ c \in Checkpoint \cap store /\ new \in Nat /\ c \in AllBlock
      /\ cpScore[c] <= new
      /\ \A d \in Checkpoint \cap store' : Under(b, d) => d = b
      /\ \A d \in Checkpoint \cap store : Under(d, b) => Under(d, c)
  BY RecordIs, Checkpoints
<1>3. /\ \A d \in Checkpoint : cpScore'[d] = IF d = c THEN new ELSE cpScore[d]
      /\ \A d \in Checkpoint : subtree'[d] = IF Lifted(d, b) THEN new ELSE subtree[d]
      /\ \A d \in Checkpoint : cpScore[d] \in Nat /\ subtree[d] \in Nat
      /\ b \in Checkpoint => cpScore[b] = 0 /\ subtree[b] = 0
  <2>1. cpScore \in [Checkpoint -> Nat] /\ subtree \in [Checkpoint -> Nat]
    BY DEF CpInv, CpType
  <2>2. /\ cpScore' = [cpScore EXCEPT ![c] = new]
        /\ subtree' = [d \in Checkpoint |-> IF Lifted(d, b) THEN new ELSE subtree[d]]
    BY RecordIs
  <2>3. b \in Checkpoint => cpScore[b] = 0 /\ subtree[b] = 0
    BY <1>1 DEF CpInv, CpType
  <2> HIDE DEF c, new
  <2> QED
    BY <2>1, <2>2, <2>3
<1>4. \A d : Lifted(d, b) <=> d \in Checkpoint \ {Genesis} /\ Under(d, c) /\ subtree[d] < new
  BY DEF Lifted
<1> HIDE DEF c, new
<1> SUFFICES ASSUME NEW e \in (Checkpoint \cap store') \ {Genesis}
             PROVE  Best(subtree'[e], e, cpScore', store')
  BY DEF Exact
<1>5. e \in AllBlock /\ e \in Checkpoint /\ e # Genesis
  BY Checkpoints
<1>6. CASE e = b
  <2>1. ~Lifted(b, b) /\ b # c
    BY <1>1, <1>2, <1>4 DEF CpInv, CpType
  <2>2. b \in Checkpoint \cap store' /\ Under(b, b) /\ subtree'[b] = 0 /\ cpScore'[b] = 0
    BY <1>3, <1>5, <1>6, <2>1, Tree
  <2> QED
    BY <1>2, <1>6, <2>2 DEF Best
<1>7. CASE e # b
  <2>1. e \in store /\ Best(subtree[e], e, cpScore, store)
    BY <1>1, <1>5, <1>7 DEF CpInv, Exact
  <2>2. PICK x \in Checkpoint \cap store : Under(e, x) /\ cpScore[x] = subtree[e]
    BY <2>1 DEF Best
  <2>3. \A d \in Checkpoint \cap store : Under(e, d) => cpScore[d] <= subtree[e]
    BY <2>1 DEF Best
  <2>4. \A d \in Checkpoint \cap store' : d \in Checkpoint \cap store \/ (d = b /\ cpScore'[d] = 0)
    BY <1>1, <1>2, <1>3
  <2>5. Under(e, b) => Under(e, c)
    BY <1>2, <1>5, <2>1
  <2>6. CASE Lifted(e, b)
    <3>1. subtree'[e] = new /\ subtree[e] < new /\ Under(e, c)
      BY <1>3, <1>4, <1>5, <2>6
    <3>2. c \in Checkpoint \cap store' /\ cpScore'[c] = new
      BY <1>1, <1>2, <1>3
    <3>3. ASSUME NEW d \in Checkpoint \cap store', Under(e, d) PROVE cpScore'[d] <= new
      <4>1. CASE d \in Checkpoint \cap store
        <5>1. cpScore[d] <= subtree[e] /\ cpScore[d] \in Nat /\ subtree[e] \in Nat
          BY <1>3, <1>5, <2>3, <3>3, <4>1
        <5> QED
          BY <1>2, <1>3, <3>1, <5>1
      <4>2. CASE cpScore'[d] = 0
        BY <1>2, <4>2
      <4> QED
        BY <2>4, <4>1, <4>2
    <3> QED
      BY <3>1, <3>2, <3>3 DEF Best
  <2>7. CASE ~Lifted(e, b)
    <3>1. subtree'[e] = subtree[e] /\ (Under(e, c) => new <= subtree[e])
      BY <1>2, <1>3, <1>4, <1>5, <2>7
    <3>2. x \in Checkpoint \cap store' /\ cpScore'[x] = subtree[e]
      <4>1. CASE x = c
        BY <1>1, <1>2, <1>3, <1>5, <2>2, <3>1, <4>1
      <4>2. CASE x # c
        BY <1>1, <1>3, <2>2, <4>2
      <4> QED
        BY <4>1, <4>2
    <3>3. ASSUME NEW d \in Checkpoint \cap store', Under(e, d) PROVE cpScore'[d] <= subtree[e]
      <4>1. CASE d \in Checkpoint \cap store /\ d # c
        BY <1>3, <2>3, <3>3, <4>1
      <4>2. CASE d = c
        BY <1>2, <1>3, <3>1, <3>3, <4>2
      <4>3. CASE cpScore'[d] = 0
        BY <1>3, <1>5, <4>3
      <4> QED
        BY <2>4, <4>1, <4>2, <4>3
    <3> QED
      BY <2>2, <3>1, <3>2, <3>3 DEF Best
  <2> QED
    BY <2>6, <2>7
<1> QED
  BY <1>6, <1>7

LEMMA RecordFavourites ==
  ASSUME CpInv, NEW b, Stored(b)
  PROVE  Favourites'
<1> DEFINE new == ScoreAfter(b)
<1>1. /\ b \in Block /\ b \notin store /\ store' = store \cup {b}
      /\ store \subseteq AllBlock /\ NoBlock \notin Checkpoint
  BY Constants, RecordIs, Checkpoints DEF Stored, CpInv, CpType
<1>2. /\ new \in Nat
      /\ \A d \in Checkpoint : subtree'[d] = IF Lifted(d, b) THEN new ELSE subtree[d]
      /\ \A d \in Checkpoint : subtree[d] \in Nat
      /\ b \in Checkpoint => subtree[b] = 0
  <2>1. subtree \in [Checkpoint -> Nat]
    BY DEF CpInv, CpType
  <2>2. /\ subtree' = [d \in Checkpoint |-> IF Lifted(d, b) THEN new ELSE subtree[d]]
        /\ new \in Nat
    BY RecordIs
  <2>3. b \in Checkpoint => subtree[b] = 0
    BY <1>1 DEF CpInv, CpType
  <2> HIDE DEF new
  <2> QED
    BY <2>1, <2>2, <2>3
<1>3. \A d : Lifted(d, b) => d \in (Checkpoint \cap store) \ {Genesis} /\ subtree[d] < new
  <2>1. PrevCp(b) \in store
    BY RecordIs
  <2> QED
    BY <2>1, Checkpoints DEF Lifted, CpInv, CpType
<1> HIDE DEF new
<1> SUFFICES ASSUME NEW p \in Checkpoint
             PROVE  Favourite(p, cpChild', subtree', store')
  BY DEF Favourites
<1>4. \A y \in Kids(p, store') : y \in Kids(p, store) \/ (y = b /\ b \in Checkpoint)
  BY <1>1 DEF Kids
<1>5. \A y \in Kids(p, store) : y \in Kids(p, store') /\ y \in Checkpoint /\ PrevCp(y) = p
  BY <1>1 DEF Kids
<1>6. Favourite(p, cpChild, subtree, store)
  BY DEF CpInv, Favourites
<1>7. ASSUME b \in Checkpoint PROVE subtree'[b] = 0
  BY <1>1, <1>2, <1>3, <1>7
<1>8. CASE Preferred(cpChild'[p], p, b)
  <2> DEFINE x == cpChild'[p]
  <2>1. Lifted(x, b) /\ PrevCp(x) = p /\ (cpChild[p] = NoBlock \/ subtree'[cpChild[p]] < new)
    BY <1>8 DEF Preferred, new
  <2> HIDE DEF x
  <2>2. x \in Kids(p, store') /\ subtree'[x] = new /\ new > 0
    <3>1. x \in (Checkpoint \cap store) \ {Genesis} /\ subtree[x] < new
      BY <1>3, <2>1
    <3>2. subtree[x] \in Nat /\ subtree'[x] = new
      BY <1>2, <2>1, <3>1
    <3> QED
      BY <1>1, <1>2, <2>1, <3>1, <3>2 DEF Kids
  <2>3. ASSUME NEW y \in Kids(p, store') PROVE subtree'[y] <= new
    <3>1. CASE y = b /\ b \in Checkpoint
      BY <1>2, <1>7, <3>1
    <3>2. CASE y \in Kids(p, store) /\ Lifted(y, b)
      BY <1>2, <1>5, <3>2
    <3>3. CASE y \in Kids(p, store) /\ ~Lifted(y, b)
      <4>1. subtree'[y] = subtree[y] /\ subtree[y] \in Nat
        BY <1>2, <1>5, <3>3
      <4>2. CASE cpChild[p] = NoBlock
        <5>1. subtree[y] = 0
          BY <1>1, <1>5, <1>6, <3>3, <4>2 DEF Favourite
        <5> QED
          BY <1>2, <4>1, <5>1
      <4>3. CASE cpChild[p] # NoBlock
        <5>1. cpChild[p] \in Kids(p, store) /\ subtree[y] <= subtree[cpChild[p]]
          BY <1>6, <3>3, <4>3 DEF Favourite
        <5>2. /\ subtree[cpChild[p]] \in Nat /\ subtree'[cpChild[p]] \in Nat
              /\ subtree[cpChild[p]] <= subtree'[cpChild[p]]
          <6>1. cpChild[p] \in Checkpoint
            BY <1>5, <5>1
          <6> QED
            BY <1>2, <1>3, <6>1
        <5>3. subtree'[cpChild[p]] < new
          BY <2>1, <4>3
        <5> QED
          BY <1>2, <4>1, <5>1, <5>2, <5>3
      <4> QED
        BY <4>2, <4>3
    <3> QED
      BY <1>4, <3>1, <3>2, <3>3
  <2> QED
    BY <2>2, <2>3 DEF Favourite, x
<1>9. CASE cpChild'[p] = cpChild[p] /\ \A x : ~Preferred(x, p, b)
  <2>1. CASE cpChild[p] = NoBlock
    <3>1. ASSUME NEW y \in Kids(p, store) PROVE ~Lifted(y, b)
      BY <1>5, <1>9, <2>1 DEF Preferred
    <3>2. ASSUME NEW y \in Kids(p, store') PROVE subtree'[y] = 0
      <4>1. CASE y = b /\ b \in Checkpoint
        BY <1>7, <4>1
      <4>2. CASE y \in Kids(p, store)
        BY <1>1, <1>2, <1>5, <1>6, <2>1, <3>1, <4>2 DEF Favourite
      <4> QED
        BY <1>4, <4>1, <4>2
    <3> QED
      BY <1>9, <2>1, <3>2 DEF Favourite
  <2>2. CASE cpChild[p] # NoBlock
    <3> DEFINE x == cpChild[p]
    <3>1. x \in Kids(p, store) /\ subtree[x] > 0 /\ \A y \in Kids(p, store) : subtree[y] <= subtree[x]
      BY <1>6, <2>2 DEF Favourite
    <3>2. /\ x \in Checkpoint /\ subtree[x] \in Nat /\ subtree'[x] \in Nat
          /\ subtree[x] <= subtree'[x]
      <4>1. x \in Checkpoint
        BY <1>5, <3>1
      <4> HIDE DEF x
      <4> QED
        BY <1>2, <1>3, <4>1
    <3>3. \A y : Lifted(y, b) /\ PrevCp(y) = p => ~(subtree'[x] < new)
      BY <1>9, <2>2 DEF Preferred, new
    <3> HIDE DEF x
    <3>4. ASSUME NEW y \in Kids(p, store') PROVE subtree'[y] <= subtree'[x]
      <4>1. CASE y = b /\ b \in Checkpoint
        BY <1>7, <3>2, <4>1
      <4>2. CASE y \in Kids(p, store) /\ Lifted(y, b)
        BY <1>2, <1>5, <3>2, <3>3, <4>2
      <4>3. CASE y \in Kids(p, store) /\ ~Lifted(y, b)
        <5>1. subtree'[y] = subtree[y] /\ subtree[y] \in Nat /\ subtree[y] <= subtree[x]
          BY <1>2, <1>5, <3>1, <4>3
        <5> QED
          BY <3>2, <5>1
      <4> QED
        BY <1>4, <4>1, <4>2, <4>3
    <3>5. x \in Kids(p, store') /\ subtree'[x] > 0 /\ cpChild'[p] = x
      BY <1>5, <1>9, <3>1, <3>2 DEF x
    <3> QED
      BY <3>4, <3>5 DEF Favourite
  <2> QED
    BY <2>1, <2>2
<1> QED
  BY <1>8, <1>9, RecordIs

(* A pointer to a checkpoint under the block's own is not moved: the lifted *)
(* child of its owner is the one it points to.                              *)
LEMMA PointerStays ==
  ASSUME CpInv, NEW b, Stored(b), NEW p \in Checkpoint, cpChild[p] # NoBlock,
         Under(cpChild[p], PrevCp(b))
  PROVE  cpChild'[p] = cpChild[p]
<1> DEFINE c == PrevCp(b)
           y == cpChild[p]
<1>1. /\ c \in Checkpoint /\ c \in AllBlock
      /\ subtree' = [d \in Checkpoint |-> IF Lifted(d, b) THEN ScoreAfter(b) ELSE subtree[d]]
      /\ ScoreAfter(b) \in Nat
  BY RecordIs, Checkpoints
<1>2. /\ y \in Checkpoint \ {Genesis} /\ PrevCp(y) = p /\ subtree[y] \in Nat
      /\ y # NoBlock /\ Under(y, c)
  BY DEF CpInv, CpType, Pointers
<1> HIDE DEF y
<1>3. ASSUME NEW x, Preferred(x, p, b) PROVE FALSE
  <2>1. Lifted(x, b) /\ PrevCp(x) = p /\ subtree'[y] < ScoreAfter(b)
    BY <1>2, <1>3 DEF Preferred, y
  <2>2. CASE Lifted(y, b)
    <3>1. subtree'[y] = ScoreAfter(b)
      BY <1>1, <1>2, <2>2
    <3> QED
      BY <1>1, <2>1, <3>1
  <2>3. CASE ~Lifted(y, b)
    <3>1. subtree'[y] = subtree[y] /\ ~(subtree[y] < ScoreAfter(b))
      BY <1>1, <1>2, <2>3 DEF Lifted
    <3> QED
      BY <2>1, <3>1
  <2> QED
    BY <2>2, <2>3
<1> QED
  BY <1>3, RecordIs

(* recompute_head_checkpoint descends from the last checkpoint that the old *)
(* head checkpoint and the candidate share: below it no pointer has moved.  *)
LEMMA RecordLeaf ==
  ASSUME CpInv, NEW b, Stored(b)
  PROVE  Leaf(Genesis, cpChild', headCp')
<1> DEFINE c == PrevCp(b)
           d == Committed(c, cpScore')
<1>1. /\ c \in Checkpoint /\ c \in AllBlock /\ Genesis \in Checkpoint
      /\ headCp' = RecomputedHead(d, cpChild')
      /\ Checkpoint \subseteq AllBlock /\ NoBlock \notin Checkpoint
  BY RecordIs, Checkpoints, Constants
<1>2. Pointers(cpChild')
  BY RecordType
<1>3. d \in Checkpoint /\ Under(d, c)
  BY <1>1, CommittedIs DEF LastCommitted
<1> HIDE DEF d
<1>4. CASE Genesis \in {headCp, d}
  <2>1. headCp' = Descend(Genesis, cpChild')
    BY <1>1, <1>4 DEF RecomputedHead
  <2> QED
    BY <1>1, <1>2, <2>1, DescendIs
<1>5. CASE Genesis \notin {headCp, d}
  <2> DEFINE r == SharedParent(headCp, d)
             h == headCp'
  <2>1. headCp' = Descend(r, cpChild')
    BY <1>1, <1>5 DEF RecomputedHead
  <2>2. headCp \in Checkpoint /\ headCp # Genesis /\ d \in Checkpoint /\ d # Genesis
    BY <1>3, <1>5 DEF CpInv, CpType
  <2>3. r \in Checkpoint /\ Under(r, headCp) /\ Under(r, d) /\ r # headCp
    BY <2>2, SharedParentIs
  <2> HIDE DEF r, h
  <2>4. Leaf(r, cpChild', h)
    BY <1>2, <2>1, <2>3, DescendIs DEF h
  <2>5. h \in Checkpoint /\ Under(r, h) /\ cpChild'[h] = NoBlock
    BY <2>4 DEF Leaf
  <2>6. ASSUME NEW e \in Checkpoint, Under(e, h), e # h
        PROVE  cpChild'[e] \in Checkpoint /\ Under(cpChild'[e], h)
    <3>1. CASE Under(r, e)
      BY <2>4, <2>6, <3>1 DEF Leaf
    <3>2. CASE ~Under(r, e)
      <4>1. /\ e \in AllBlock /\ h \in AllBlock /\ r \in AllBlock /\ headCp \in AllBlock
            /\ Number[e] \in Int /\ Number[h] \in Int /\ Number[r] \in Int
        BY <1>1, <2>2, <2>3, <2>5, Tree
      <4>2. Under(e, r) /\ e # r
        BY <2>5, <2>6, <3>2, <4>1, Tree
      <4>3. Under(e, headCp) /\ e # headCp
        <5>1. Under(e, headCp)
          BY <2>3, <4>1, <4>2, Tree
        <5> QED
          BY <2>3, <3>2, <5>1
      <4> DEFINE y == cpChild[e]
      <4>4. y \in Checkpoint /\ Under(y, headCp)
        BY <4>3, Checkpoints, Tree, <4>1 DEF CpInv, Leaf
      <4>5. y # NoBlock /\ y # Genesis /\ PrevCp(y) = e /\ y \in Block /\ y \in AllBlock
        <5>1. y # NoBlock
          BY <1>1, <4>4
        <5>2. y # Genesis /\ PrevCp(y) = e
          BY <5>1 DEF CpInv, CpType, Pointers
        <5> QED
          BY <1>1, <4>4, <5>1, <5>2 DEF AllBlock
      <4> HIDE DEF y
      <4>6. Under(y, r)
        <5>1. Toward(e, headCp) = y
          BY <2>2, <4>3, <4>4, <4>5, TowardIs
        <5>2. Toward(e, r) \in Checkpoint /\ Under(Toward(e, r), r) /\ PrevCp(Toward(e, r)) = e
              /\ Toward(e, r) # Genesis
          BY <2>3, <4>2, TowardIs
        <5>3. Under(Toward(e, r), headCp)
          BY <1>1, <2>3, <4>1, <5>2, Tree
        <5>4. Toward(e, r) = y
          BY <2>2, <4>3, <5>1, <5>2, <5>3, TowardIs
        <5> QED
          BY <5>2, <5>4
      <4>7. Under(y, c)
        BY <1>1, <1>3, <2>3, <4>1, <4>5, <4>6, Tree
      <4>8. cpChild'[e] = y
        BY <4>5, <4>7, PointerStays DEF y
      <4>9. Under(y, h)
        BY <2>5, <4>1, <4>5, <4>6, Tree
      <4> QED
        BY <4>4, <4>8, <4>9
    <3> QED
      BY <3>1, <3>2
  <2>7. Under(Genesis, h)
    BY <1>1, <2>5, Tree
  <2> QED
    BY <2>5, <2>6, <2>7 DEF Leaf, h
<1> QED
  BY <1>4, <1>5

(* A head checkpoint other than Genesis is the favourite of its parent.     *)
LEMMA HeadFavoured ==
  ASSUME NEW child, Pointers(child), NEW d \in Checkpoint \ {Genesis},
         Leaf(Genesis, child, d)
  PROVE  /\ PrevCp(d) \in Checkpoint /\ child[PrevCp(d)] = d
         /\ child[Genesis] # NoBlock
<1> DEFINE p == PrevCp(d)
<1>1. d \in Block /\ d \in AllBlock /\ Genesis \in Checkpoint /\ Checkpoint \subseteq AllBlock
      /\ NoBlock \notin Checkpoint
  BY Checkpoints, Constants DEF AllBlock
<1>2. p \in Checkpoint /\ Under(p, d) /\ p # d
  BY <1>1, PrevCpIs
<1> HIDE DEF p
<1>3. Under(Genesis, p) /\ Under(Genesis, d) /\ Under(Genesis, Genesis)
  BY <1>1, <1>2, Tree
<1>4. child[p] \in Checkpoint /\ Under(child[p], d) /\ child[Genesis] \in Checkpoint
  BY <1>1, <1>2, <1>3 DEF Leaf
<1>5. child[p] \in Checkpoint \ {Genesis} /\ PrevCp(child[p]) = p
  BY <1>1, <1>2, <1>4 DEF Pointers
<1>6. child[p] = Toward(p, d) /\ d = Toward(p, d)
  <2>1. Under(d, d)
    BY <1>1, Tree
  <2> QED
    BY <1>2, <1>4, <1>5, <2>1, TowardIs DEF p
<1> QED
  BY <1>1, <1>2, <1>4, <1>6 DEF p

LEMMA RecordCpInv ==
  ASSUME CpInv, NEW b, Stored(b)
  PROVE  CpInv'
<1>1. Exact' /\ Favourites' /\ Leaf(Genesis, cpChild', headCp')
  BY RecordExact, RecordFavourites, RecordLeaf
<1>2. headCp' \in Checkpoint \cap store'
  <2>1. headCp' \in Checkpoint /\ store' = store \cup {b}
    BY <1>1, RecordIs DEF Leaf
  <2>2. CASE headCp' = Genesis
    <3>1. headCp \in store /\ store \subseteq AllBlock /\ headCp \in AllBlock
      BY Checkpoints DEF CpInv, CpType
    <3>2. Under(Genesis, headCp)
      BY <3>1, Tree
    <3>3. Genesis \in store
      BY <3>1, <3>2, Constants DEF CpInv, CpType
    <3> QED
      BY <2>1, <2>2, <3>3
  <2>3. CASE headCp' # Genesis
    <3>1. /\ PrevCp(headCp') \in Checkpoint /\ cpChild'[PrevCp(headCp')] = headCp'
      BY <1>1, <2>1, <2>3, RecordType, HeadFavoured
    <3>2. headCp' # NoBlock
      BY <2>1, Checkpoints, Constants
    <3>3. headCp' \in Kids(PrevCp(headCp'), store')
      BY <1>1, <3>1, <3>2 DEF Favourites, Favourite
    <3> QED
      BY <2>1, <3>3 DEF Kids
  <2> QED
    BY <2>2, <2>3
<1>3. CpType'
  BY <1>2, RecordType DEF CpType
<1> QED
  BY <1>1, <1>3 DEF CpInv

-------------------------------------------------------------------------------
(* The invariant of every step, when no block is delivered twice.           *)
LEMMA StepRecords ==
  ASSUME OnceInv, [Next]_vars
  PROVE  (\E b \in Block : Stored(b)) \/ UNCHANGED blockVars
<1>1. ASSUME NEW b \in Block, AddBlock(b)
      PROVE  (\E x \in Block : Stored(x)) \/ UNCHANGED blockVars
  <2>1. CASE LayAsideEarly(b) \/ LayAsideOrphan(b) \/ RaiseNoState(b) \/ RejectBlock(b)
    BY <2>1 DEF LayAsideEarly, LayAsideOrphan, RaiseNoState, RejectBlock
  <2>2. CASE KeepHead(b) \/ MoveHead(b) \/ SwitchHead(b) \/ RaiseOnSwitch(b) \/ SkipBlock(b)
    <3>1. ShouldAddBlock(b) /\ Record(b)
      BY <2>2 DEF KeepHead, MoveHead, SwitchHead, RaiseOnSwitch, SkipBlock, SameCheckpoint,
                  NewCheckpoint
    <3>2. Calling(AddCall(b)) /\ Parent[b] \in store
      BY <3>1 DEF ShouldAddBlock, Ready
    <3>3. b \notin store
      BY <3>2, CalledIsNew
    <3>4. Stored(b)
      BY <3>1, <3>2, <3>3 DEF Stored
    <3> QED
      BY <3>4
  <2> QED
    BY <1>1, <2>1, <2>2 DEF AddBlock
<1>2. CASE \E b \in Block : Receive(b)
  BY <1>2 DEF Receive
<1>3. CASE \E t \in 0..MaxTime : Tick(t)
  BY <1>3 DEF Tick
<1>4. CASE TickLoop
  BY <1>4 DEF TickLoop
<1>5. CASE \E p \in AllBlock : Forget(p)
  BY <1>5 DEF Forget
<1>6. CASE UNCHANGED vars
  BY <1>6 DEF vars
<1> QED
  BY <1>1, <1>2, <1>3, <1>4, <1>5, <1>6 DEF Next, Step

IndexInv == OnceInv /\ CpInv

LEMMA InitIndexInv == Init => IndexInv
BY InitOnce, InitCpInv DEF IndexInv

LEMMA NextIndexInv ==
  ASSUME IndexInv, MaxCopies <= 1, [Next]_vars
  PROVE  IndexInv'
<1>1. OnceInv'
  BY NextOnce DEF IndexInv
<1>2. CpInv'
  <2>1. ASSUME NEW b \in Block, Stored(b) PROVE CpInv'
    BY <2>1, RecordCpInv DEF IndexInv
  <2>2. CASE UNCHANGED blockVars
    BY <2>2 DEF blockVars, IndexInv, CpInv, CpType, Exact, Favourites, Favourite
  <2> QED
    BY <2>1, <2>2, StepRecords DEF IndexInv
<1> QED
  BY <1>1, <1>2 DEF IndexInv

LEMMA BestInIs ==
  ASSUME NEW s \in Nat, NEW c, NEW scores \in [Checkpoint -> Nat], NEW stored,
         Best(s, c, scores, stored)
  PROVE  BestIn(c, scores, stored) = s
<1> DEFINE under == {scores[d] : d \in {e \in Checkpoint \cap stored : Under(c, e)}}
<1>1. s \in under /\ \A r \in under : r <= s
  BY DEF Best
<1>2. under \subseteq Nat
  OBVIOUS
<1>3. BestIn(c, scores, stored) = CHOOSE x \in under : \A r \in under : r <= x
  BY DEF BestIn
<1> HIDE DEF under
<1>4. \A x \in under : (\A r \in under : r <= x) => x = s
  BY <1>1, <1>2
<1> QED
  BY <1>1, <1>3, <1>4, Zenon

\* The score kept for a subtree is the best score of any checkpoint in it,
\* though update_subtree_scores_and_child_pointers (chain.py) stops its walk
\* at the first ancestor that does not improve, if no block is delivered a
\* second time.
THEOREM ScoresAreExact ==
  ASSUME MaxCopies <= 1
  PROVE  Spec => []SubtreeScoresExact
<1>1. Init => IndexInv
  BY InitIndexInv
<1>2. IndexInv /\ [Next]_vars => IndexInv'
  BY NextIndexInv
<1>3. IndexInv => SubtreeScoresExact
  <2> SUFFICES ASSUME IndexInv, NEW c \in (Checkpoint \cap store) \ {Genesis}
               PROVE  subtree[c] = BestIn(c, cpScore, store)
    BY DEF SubtreeScoresExact
  <2>1. Best(subtree[c], c, cpScore, store) /\ subtree[c] \in Nat /\ cpScore \in [Checkpoint -> Nat]
    BY DEF IndexInv, CpInv, CpType, Exact
  <2> QED
    BY <2>1, BestInIs
<1> QED
  BY <1>1, <1>2, <1>3, PTL DEF Spec

\* A child pointer names a child of the checkpoint whose subtree no other
\* child's beats, and is missing only where no child has commits above it.
THEOREM PointersAreBest ==
  ASSUME MaxCopies <= 1
  PROVE  Spec => []PointersToBest
<1>1. Init => IndexInv
  BY InitIndexInv
<1>2. IndexInv /\ [Next]_vars => IndexInv'
  BY NextIndexInv
<1>3. IndexInv => PointersToBest
  <2> SUFFICES ASSUME IndexInv, NEW p \in Checkpoint \cap store
               PROVE  IF cpChild[p] = NoBlock THEN \A c \in Kids(p, store) : subtree[c] = 0
                      ELSE /\ cpChild[p] \in Kids(p, store)
                           /\ \A c \in Kids(p, store) : subtree[c] <= subtree[cpChild[p]]
    BY DEF PointersToBest, Kids
  <2>1. Favourite(p, cpChild, subtree, store)
    BY DEF IndexInv, CpInv, Favourites
  <2>2. NoBlock \notin Kids(p, store)
    BY Constants, Checkpoints DEF Kids
  <2> QED
    BY <2>1, <2>2 DEF Favourite
<1> QED
  BY <1>1, <1>2, <1>3, PTL DEF Spec

\* recompute_head_checkpoint, which descends from the last checkpoint that the
\* old and the new candidate share, finds the checkpoint that a descent from
\* Genesis would find.
THEOREM HeadCheckpointIsBest ==
  ASSUME MaxCopies <= 1
  PROVE  Spec => []HeadCheckpointBest
<1>1. Init => IndexInv
  BY InitIndexInv
<1>2. IndexInv /\ [Next]_vars => IndexInv'
  BY NextIndexInv
<1>3. IndexInv => HeadCheckpointBest
  <2> SUFFICES ASSUME IndexInv PROVE headCp = Descend(Genesis, cpChild)
    BY DEF HeadCheckpointBest
  <2>1. Pointers(cpChild) /\ Leaf(Genesis, cpChild, headCp) /\ Genesis \in Checkpoint
    BY Checkpoints DEF IndexInv, CpInv, CpType
  <2>2. Leaf(Genesis, cpChild, Descend(Genesis, cpChild))
    BY <2>1, DescendIs
  <2> QED
    BY <2>1, <2>2, OneLeaf
<1> QED
  BY <1>1, <1>2, <1>3, PTL DEF Spec

-------------------------------------------------------------------------------
(* A pointer that is set stays set.                                         *)
LEMMA PointersLast ==
  ASSUME CpInv, NEW b, Stored(b), NEW p \in Checkpoint, cpChild[p] # NoBlock
  PROVE  cpChild'[p] # NoBlock
<1>1. Preferred(cpChild'[p], p, b) \/ cpChild'[p] = cpChild[p]
  BY RecordIs
<1>2. NoBlock \notin Checkpoint
  BY Constants, Checkpoints
<1> QED
  BY <1>1, <1>2 DEF Preferred, Lifted

(* The head checkpoint leaves its branch where a pointer has moved to a     *)
(* child with a better subtree.                                             *)
LEMMA LeavesUpward ==
  ASSUME CpInv, NEW b, Stored(b), ~Under(headCp, headCp')
  PROVE  LET fork == SharedParent(headCp, headCp')
             step == Number[fork] + EpochLength
         IN BestIn(Anc[headCp'][step], cpScore', store')
              > BestIn(Anc[headCp][step], cpScore', store')
<1> DEFINE h == headCp
           k == headCp'
           f == SharedParent(h, k)
           x == Toward(f, h)
           y == Toward(f, k)
<1>1. CpInv' /\ CpType' /\ Exact' /\ Favourites' /\ Leaf(Genesis, cpChild', k)
  BY RecordCpInv DEF CpInv
<1>2. /\ h \in Checkpoint /\ k \in Checkpoint /\ h \in AllBlock /\ k \in AllBlock
      /\ Genesis \in Checkpoint /\ Under(Genesis, h) /\ Under(Genesis, k)
      /\ NoBlock \notin Checkpoint /\ Leaf(Genesis, cpChild, h) /\ ~Under(h, k)
  BY <1>1, Checkpoints, Tree, Constants DEF CpInv, CpType
<1> HIDE DEF h, k
<1>3. h # Genesis
  BY <1>2
<1>4. ~Under(k, h)
  <2> SUFFICES ASSUME Under(k, h) PROVE FALSE
    OBVIOUS
  <2>1. k # h
    BY <1>2, Tree
  <2>2. cpChild[k] \in Checkpoint
    BY <1>2, <2>1 DEF Leaf
  <2>3. cpChild'[k] # NoBlock
    BY <1>2, <2>2, PointersLast
  <2> QED
    BY <1>1, <2>3 DEF Leaf
<1>5. k # Genesis
  BY <1>2, <1>4
<1>6. f \in Checkpoint /\ Under(f, h) /\ Under(f, k) /\ f # h /\ f # k /\ f \in AllBlock
      /\ \A g \in Checkpoint : Under(g, h) /\ Under(g, k) /\ g # h /\ g # k => Under(g, f)
  BY <1>2, <1>3, <1>5, SharedParentIs, Checkpoints
<1> HIDE DEF f
<1>7. /\ x \in Checkpoint \ {Genesis} /\ Under(x, h) /\ PrevCp(x) = f /\ Under(f, x) /\ x # f
      /\ x \in AllBlock
      /\ \A z \in Checkpoint \ {Genesis} : PrevCp(z) = f /\ Under(z, h) => z = x
  BY <1>2, <1>6, TowardIs, Checkpoints
<1>8. /\ y \in Checkpoint \ {Genesis} /\ Under(y, k) /\ PrevCp(y) = f /\ y \in AllBlock
      /\ \A z \in Checkpoint \ {Genesis} : PrevCp(z) = f /\ Under(z, k) => z = y
  BY <1>2, <1>6, TowardIs, Checkpoints
<1>9. x = Anc[h][Number[f] + EpochLength] /\ y = Anc[k][Number[f] + EpochLength]
  BY DEF Toward
<1> HIDE DEF x, y
<1>10. x # y
  <2> SUFFICES ASSUME Under(x, k) PROVE FALSE
    BY <1>8
  <2>1. x # h /\ x # k
    BY <1>2, <1>4, <1>7
  <2>2. Under(x, f)
    BY <1>6, <1>7, <2>1
  <2>3. Number[x] <= Number[f]
    BY <1>6, <1>7, <2>2, Tree
  <2> QED
    BY <1>6, <1>7, <2>3, Tree
<1>11. cpChild[f] = x /\ cpChild'[f] = y
  <2>1. Under(Genesis, f)
    BY <1>6, Tree
  <2>2. /\ cpChild[f] \in Checkpoint /\ Under(cpChild[f], h)
        /\ cpChild'[f] \in Checkpoint /\ Under(cpChild'[f], k)
    BY <1>1, <1>2, <1>6, <2>1 DEF Leaf
  <2>3. /\ cpChild[f] # Genesis /\ PrevCp(cpChild[f]) = f
        /\ cpChild'[f] # Genesis /\ PrevCp(cpChild'[f]) = f
    BY <1>1, <1>2, <1>6, <2>2 DEF CpInv, CpType, Pointers
  <2> QED
    BY <1>7, <1>8, <2>2, <2>3
<1>12. subtree'[x] < subtree'[y]
  <2>1. Preferred(y, f, b)
    BY <1>6, <1>10, <1>11, RecordIs
  <2>2. Lifted(y, b) /\ subtree'[x] < ScoreAfter(b)
    BY <1>2, <1>7, <1>11, <2>1 DEF Preferred
  <2>3. subtree' = [d \in Checkpoint |-> IF Lifted(d, b) THEN ScoreAfter(b) ELSE subtree[d]]
    BY RecordIs
  <2>4. subtree'[y] = ScoreAfter(b)
    BY <1>8, <2>2, <2>3
  <2> QED
    BY <2>2, <2>4
<1>13. ASSUME NEW z \in {x, y} PROVE BestIn(z, cpScore', store') = subtree'[z]
  <2>1. z \in Checkpoint \ {Genesis}
    BY <1>7, <1>8
  <2>2. z \in store'
    <3>1. h \in store' /\ k \in store'
      BY <1>1, RecordIs DEF CpInv, CpType, h, k
    <3> QED
      BY <1>1, <1>7, <1>8, <3>1 DEF CpType
  <2>3. Best(subtree'[z], z, cpScore', store') /\ subtree'[z] \in Nat /\ cpScore' \in [Checkpoint -> Nat]
    BY <1>1, <2>1, <2>2 DEF Exact, CpType
  <2> QED
    BY <2>3, BestInIs
<1> QED
  BY <1>9, <1>12, <1>13 DEF f, h, k

\* "the chain does not change head unless there are more commits on the
\* alternative fork": whatever is delivered in whatever order, the head
\* checkpoint leaves its branch only for one that holds a checkpoint with more
\* commits than any on the branch it leaves.
THEOREM LeavesOnlyForMoreCommits ==
  ASSUME MaxCopies <= 1
  PROVE  Spec => LeavesForMoreCommits
<1> DEFINE Leaves == headCp' # headCp /\ ~Under(headCp, headCp') =>
             LET fork == SharedParent(headCp, headCp')
                 step == Number[fork] + EpochLength
             IN BestIn(Anc[headCp'][step], cpScore', store')
                  > BestIn(Anc[headCp][step], cpScore', store')
<1>1. Init => IndexInv
  BY InitIndexInv
<1>2. IndexInv /\ [Next]_vars => IndexInv'
  BY NextIndexInv
<1>3. IndexInv /\ [Next]_vars => [Leaves]_vars
  <2> SUFFICES ASSUME IndexInv, [Next]_vars PROVE Leaves
    OBVIOUS
  <2>1. CASE \E b \in Block : Stored(b)
    BY <2>1, LeavesUpward DEF IndexInv
  <2>2. CASE UNCHANGED blockVars
    BY <2>2 DEF blockVars
  <2> QED
    BY <2>1, <2>2, StepRecords DEF IndexInv
<1>4. LeavesForMoreCommits <=> [][Leaves]_vars
  BY DEF LeavesForMoreCommits
<1> QED
  BY <1>1, <1>2, <1>3, <1>4, PTL DEF Spec

-------------------------------------------------------------------------------
(* The score that Scored gives a block x: the scores along its path, summed *)
(* from the last block that has one.                                        *)
Total(x, noise) ==
  LET sum[n \in 0..Number[x]] ==
        LET y == Anc[x][n]
        IN IF score[y] # Unscored THEN score[y]
           ELSE sum[n - 1] + Difficulty[y] + noise[y]
  IN sum[Number[x]]

ScoreType == score \in [AllBlock -> Nat \cup {Unscored}] /\ score[Genesis] # Unscored

LEMMA TotalIs ==
  ASSUME ScoreType, NEW x \in AllBlock, NEW noise,
         \A n \in 0..Number[x] : score[Anc[x][n]] = Unscored => noise[Anc[x][n]] \in Nat
  PROVE  Total(x, noise) \in Nat
<1> DEFINE m == Number[x]
           F == [k \in 1..m |-> [s \in Nat |->
                  IF score[Anc[x][k]] # Unscored THEN score[Anc[x][k]]
                  ELSE s + Difficulty[Anc[x][k]] + noise[Anc[x][k]]]]
           sum[n \in 0..Number[x]] ==
             LET y == Anc[x][n]
             IN IF score[y] # Unscored THEN score[y]
                ELSE sum[n - 1] + Difficulty[y] + noise[y]
<1>1. /\ m \in Nat /\ Anc[x][0] = Genesis
      /\ \A n \in 0..m : Anc[x][n] \in AllBlock
      /\ score[Genesis] \in Nat /\ score[Genesis] # Unscored
  <2>1. score[Genesis] \in Nat
    BY Constants DEF ScoreType
  <2>2. Anc[x][0] = Genesis
    BY BlockTreeAssumption DEF AncestorAssumption
  <2> QED
    BY <2>1, <2>2, Tree, OnPath DEF ScoreType
<1>2. ASSUME NEW k \in 1..m
      PROVE  /\ score[Anc[x][k]] # Unscored => score[Anc[x][k]] \in Nat
             /\ Difficulty[Anc[x][k]] \in Nat
             /\ score[Anc[x][k]] = Unscored => noise[Anc[x][k]] \in Nat
  <2>1. k \in 0..m
    BY <1>1
  <2>2. Anc[x][k] \in AllBlock
    BY <1>1, <2>1
  <2> QED
    BY <2>1, <2>2, Constants DEF ScoreType
<1>3. Loop(F, m, Nat)
  <2>1. ASSUME NEW k \in 1..m, NEW s \in Nat
        PROVE  (IF score[Anc[x][k]] # Unscored THEN score[Anc[x][k]]
                ELSE s + Difficulty[Anc[x][k]] + noise[Anc[x][k]]) \in Nat
    BY <1>2
  <2> QED
    BY <2>1 DEF Loop
<1>4. PICK g : Run(g, F, m, Nat, score[Genesis])
  <2> HIDE DEF F
  <2> QED
    BY <1>1, <1>3, Rounds
<1>5. \A k \in 1..m : \A s \in Nat :
        F[k][s] = IF score[Anc[x][k]] # Unscored THEN score[Anc[x][k]]
                  ELSE s + Difficulty[Anc[x][k]] + noise[Anc[x][k]]
  OBVIOUS
<1> HIDE DEF F
<1>6. ASSUME NEW k \in 0..m
      PROVE  g[k] = IF score[Anc[x][k]] # Unscored THEN score[Anc[x][k]]
                    ELSE g[k - 1] + Difficulty[Anc[x][k]] + noise[Anc[x][k]]
  <2>1. CASE k = 0
    BY <1>1, <1>4, <2>1 DEF Run
  <2>2. CASE k # 0
    <3>1. k \in 1..m /\ k - 1 \in 0..m
      BY <1>1, <2>2
    <3> QED
      BY <1>4, <1>5, <3>1 DEF Run
  <2> QED
    BY <2>1, <2>2
<1>7. g = [n \in 0..Number[x] |-> LET y == Anc[x][n]
                                  IN IF score[y] # Unscored THEN score[y]
                                     ELSE g[n - 1] + Difficulty[y] + noise[y]]
  BY <1>1, <1>4, <1>6 DEF Run
<1>8. sum = [n \in 0..Number[x] |-> LET y == Anc[x][n]
                                    IN IF score[y] # Unscored THEN score[y]
                                       ELSE sum[n - 1] + Difficulty[y] + noise[y]]
  BY <1>7, Zenon
<1>9. Total(x, noise) = sum[m]
  BY DEF Total
<1> HIDE DEF sum
<1>10. \A k \in 0..m : sum[k] = IF score[Anc[x][k]] # Unscored THEN score[Anc[x][k]]
                                ELSE sum[k - 1] + Difficulty[Anc[x][k]] + noise[Anc[x][k]]
  BY <1>8
<1>11. \A k \in 0..m : k \in {n \in 0..m : sum[n] \in Nat}
  <2> DEFINE T == {n \in 0..m : sum[n] \in Nat}
  <2>1. 0 \in T
    BY <1>1, <1>10
  <2>2. \A k \in 1..m : k - 1 \in T => k \in T
    <3> SUFFICES ASSUME NEW k \in 1..m, k - 1 \in T PROVE k \in T
      OBVIOUS
    <3>1. k \in 0..m /\ sum[k - 1] \in Nat
      BY <1>1
    <3> QED
      BY <1>2, <1>10, <3>1
  <2> HIDE DEF T
  <2>3. \A k \in 0..m : k \in T
    BY <1>1, <2>1, <2>2, UpTo
  <2> QED
    BY <2>3 DEF T
<1> QED
  BY <1>1, <1>9, <1>11

(* Scored keeps every score there is and leaves no block of S without one.  *)
LEMMA ScoredIs ==
  ASSUME ScoreType, NEW S, S \subseteq AllBlock, Scored(S), store' \subseteq AllBlock,
         \A x \in store' : \A a \in AllBlock : Under(a, x) => a \in store'
  PROVE  /\ ScoreType'
         /\ \A x \in AllBlock : score[x] # Unscored => score'[x] = score[x]
         /\ \A x \in store' \cap S : score'[x] # Unscored
<1> DEFINE fill == {x \in store' : score[x] = Unscored /\ \E y \in S : Under(x, y)}
<1>1. PICK noise \in [fill -> 0..MaxHeight] :
        score' = [x \in AllBlock |-> IF x \in fill THEN Total(x, noise) ELSE score[x]]
  BY Zenon DEF Scored, Total
<1>2. \A x \in AllBlock : x \in fill <=> /\ x \in store' /\ score[x] = Unscored
                                         /\ \E y \in S : Under(x, y)
  OBVIOUS
<1>3. fill \subseteq AllBlock
  OBVIOUS
<1> HIDE DEF fill
<1>4. ASSUME NEW x \in fill PROVE Total(x, noise) \in Nat
  <2>1. x \in AllBlock
    BY <1>3
  <2>2. PICK y \in S : Under(x, y)
    BY <1>2, <2>1
  <2>3. ASSUME NEW n \in 0..Number[x], score[Anc[x][n]] = Unscored
        PROVE  noise[Anc[x][n]] \in Nat
    <3> DEFINE a == Anc[x][n]
    <3>1. a \in AllBlock /\ Under(a, x)
      BY <2>1, OnPath
    <3> HIDE DEF a
    <3>2. a \in store' /\ Under(a, y)
      BY <1>2, <2>1, <2>2, <3>1, Tree
    <3>3. a \in fill
      BY <1>2, <2>3, <3>1, <3>2 DEF a
    <3>4. noise[a] \in 0..MaxHeight
      BY <3>3
    <3> QED
      BY <3>4, Constants DEF a
  <2> QED
    BY <2>1, <2>3, TotalIs
<1>5. \A x \in AllBlock : score'[x] = IF x \in fill THEN Total(x, noise) ELSE score[x]
  BY <1>1
<1>6. score' \in [AllBlock -> Nat \cup {Unscored}]
  BY <1>1, <1>4 DEF ScoreType
<1>7. \A x \in AllBlock : score[x] # Unscored => score'[x] = score[x]
  BY <1>2, <1>5
<1>8. Unscored \notin Nat
  BY DEF Unscored
<1>9. \A x \in store' \cap S : score'[x] # Unscored
  <2> SUFFICES ASSUME NEW x \in store' \cap S PROVE score'[x] # Unscored
    OBVIOUS
  <2>1. x \in AllBlock /\ Under(x, x)
    BY Tree
  <2>2. x \in fill \/ score[x] # Unscored
    BY <1>2, <2>1
  <2> QED
    BY <1>4, <1>5, <1>8, <2>1, <2>2
<1>10. ScoreType'
  BY <1>6, <1>7, Constants DEF ScoreType
<1> QED
  BY <1>7, <1>9, <1>10

(* While nothing has strayed the head is the heaviest block above the head  *)
(* checkpoint.                                                              *)
Heavy(h) ==
  /\ Under(headCp, h)
  /\ \A b \in store : Under(headCp, b) => score[b] # Unscored /\ score[b] <= score[h]

HeavyInv ==
  /\ ScoreType /\ head \in store /\ strayed \in BOOLEAN
  /\ raised = NoBlock /\ ~strayed => Heavy(head)

LEMMA InitHeavyInv == Init => HeavyInv
<1> SUFFICES ASSUME Init PROVE HeavyInv
  OBVIOUS
<1>1. /\ score = [b \in AllBlock |-> IF b = Genesis THEN 0 ELSE Unscored]
      /\ head = Genesis /\ headCp = Genesis /\ store = {Genesis} /\ strayed = FALSE
      /\ Genesis \in AllBlock /\ Under(Genesis, Genesis)
  BY Constants, Tree DEF Init
<1>2. ScoreType /\ score[Genesis] = 0 /\ 0 # Unscored
  BY <1>1 DEF ScoreType, Unscored
<1>3. Heavy(head)
  BY <1>1, <1>2 DEF Heavy
<1>4. head \in store /\ strayed \in BOOLEAN
  BY <1>1
<1> QED
  BY <1>2, <1>3, <1>4 DEF HeavyInv

(* What the steps that store a block have in common.                        *)
LEMMA StoringIs ==
  ASSUME OnceInv, CpInv, NEW b \in Block,
         KeepHead(b) \/ MoveHead(b) \/ SwitchHead(b) \/ RaiseOnSwitch(b) \/ SkipBlock(b)
  PROVE  /\ Stored(b) /\ CpInv' /\ store' = store \cup {b} /\ store' \subseteq AllBlock
         /\ LastCommitted(Candidate(b), PrevCp(b), cpScore')
         /\ PrevCp(b) \in Checkpoint /\ Under(Candidate(b), b)
<1>1. ShouldAddBlock(b) /\ Record(b)
  BY DEF KeepHead, MoveHead, SwitchHead, RaiseOnSwitch, SkipBlock, SameCheckpoint, NewCheckpoint
<1>2. Calling(AddCall(b)) /\ Parent[b] \in store
  BY <1>1 DEF ShouldAddBlock, Ready
<1>3. Stored(b)
  BY <1>1, <1>2, CalledIsNew DEF Stored
<1>4. CpInv' /\ store' = store \cup {b} /\ store' \subseteq AllBlock
  BY <1>3, RecordCpInv, RecordIs, RecordType
<1>5. PrevCp(b) \in Checkpoint /\ Under(PrevCp(b), b)
  BY PrevCpIs
<1>6. LastCommitted(Candidate(b), PrevCp(b), cpScore')
  BY <1>5, CommittedIs DEF Candidate
<1>7. Under(Candidate(b), b)
  <2>1. /\ Candidate(b) \in AllBlock /\ PrevCp(b) \in AllBlock /\ b \in AllBlock
        /\ Under(Candidate(b), PrevCp(b))
    BY <1>5, <1>6, Checkpoints, Constants DEF LastCommitted
  <2> QED
    BY <1>5, <2>1, Tree
<1> QED
  BY <1>3, <1>4, <1>5, <1>6, <1>7

(* CpInv of any stored blocks, scores, pointers and head checkpoint.        *)
Indexed(stored, scores, sub, child, h) ==
  /\ stored \subseteq AllBlock
  /\ \A b \in stored : \A a \in AllBlock : Under(a, b) => a \in stored
  /\ scores \in [Checkpoint -> Nat] /\ sub \in [Checkpoint -> Nat]
  /\ Pointers(child) /\ Leaf(Genesis, child, h) /\ h \in Checkpoint \cap stored
  /\ \A c \in (Checkpoint \cap stored) \ {Genesis} : Best(sub[c], c, scores, stored)
  /\ \A p \in Checkpoint : Favourite(p, child, sub, stored)

(* A block above the head checkpoint has it as its candidate: no checkpoint *)
(* above the head checkpoint has commits, and it has some itself.           *)
LEMMA AboveHeadCheckpoint ==
  ASSUME NEW stored, NEW scores, NEW sub, NEW child, NEW h,
         Indexed(stored, scores, sub, child, h),
         NEW c \in Checkpoint \cap stored, Under(h, c)
  PROVE  LastCommitted(h, c, scores)
<1>1. /\ h \in Checkpoint /\ h \in AllBlock /\ h \in stored /\ c \in AllBlock
      /\ Leaf(Genesis, child, h) /\ child[h] = NoBlock
      /\ scores \in [Checkpoint -> Nat] /\ sub \in [Checkpoint -> Nat]
      /\ stored \subseteq AllBlock
  BY Checkpoints DEF Indexed, Leaf
<1>2. ASSUME NEW e \in Checkpoint \cap stored, Under(h, e), e # h PROVE scores[e] = 0
  <2> DEFINE x == Toward(h, e)
  <2>1. x \in Checkpoint \ {Genesis} /\ Under(x, e) /\ PrevCp(x) = h
    BY <1>1, <1>2, TowardIs
  <2> HIDE DEF x
  <2>2. x \in stored
    BY <1>1, <2>1, Checkpoints DEF Indexed
  <2>3. x \in Kids(h, stored)
    BY <2>1, <2>2 DEF Kids
  <2>4. NoBlock \notin Checkpoint
    BY Constants, Checkpoints
  <2>5. sub[x] = 0
    BY <1>1, <2>3, <2>4 DEF Indexed, Favourite, Kids
  <2>6. scores[e] <= sub[x]
    BY <2>1, <2>2 DEF Indexed, Best
  <2> QED
    BY <1>1, <2>5, <2>6
<1>3. ASSUME NEW e \in Checkpoint, Under(e, c), Number[e] > Number[h] PROVE scores[e] = 0
  <2>1. e \in stored /\ e \in AllBlock /\ Number[e] \in Int /\ Number[h] \in Int
    BY <1>1, <1>3, Checkpoints, Tree DEF Indexed
  <2>2. Under(h, e) /\ e # h
    BY <1>1, <1>3, <2>1, Tree
  <2> QED
    BY <1>2, <2>1, <2>2
<1>4. h # Genesis => scores[h] # 0
  <2> SUFFICES ASSUME h # Genesis PROVE scores[h] # 0
    OBVIOUS
  <2>1. PrevCp(h) \in Checkpoint /\ child[PrevCp(h)] = h
    BY <1>1, HeadFavoured DEF Indexed
  <2>2. sub[h] > 0
    <3>1. h # NoBlock
      BY <1>1, Constants
    <3> QED
      BY <2>1, <3>1 DEF Indexed, Favourite
  <2>3. PICK d \in Checkpoint \cap stored : Under(h, d) /\ scores[d] = sub[h]
    BY <1>1 DEF Indexed, Best
  <2>4. d = h
    BY <1>1, <1>2, <2>2, <2>3
  <2> QED
    BY <1>1, <2>2, <2>3, <2>4
<1> QED
  BY <1>1, <1>3, <1>4 DEF LastCommitted

LEMMA KeepHeavy ==
  ASSUME OnceInv, CpInv, HeavyInv, NEW b \in Block, KeepHead(b) \/ MoveHead(b)
  PROVE  HeavyInv'
<1>1. /\ Scored({head, b}) /\ strayed' = strayed /\ raised' = raised
      /\ headCp' = Candidate(b) /\ headCp' = headCp
      /\ \/ head' = head /\ score'[head] >= score'[b]
         \/ head' = b /\ score'[head] < score'[b]
  BY DEF KeepHead, MoveHead, SameCheckpoint, Continue, headVars, AddBlockToHead, ReorganizeHeadTo
<1>2. /\ CpInv' /\ store' = store \cup {b} /\ store' \subseteq AllBlock /\ Under(Candidate(b), b)
      /\ b \in AllBlock /\ head \in AllBlock
  BY StoringIs, Constants DEF HeavyInv, CpInv, CpType
<1>3. /\ ScoreType /\ ScoreType'
      /\ \A x \in AllBlock : score[x] # Unscored => score'[x] = score[x]
      /\ score'[b] # Unscored /\ score'[head] # Unscored
  <2>1. \A x \in store' : \A a \in AllBlock : Under(a, x) => a \in store'
    BY <1>2 DEF CpInv, CpType
  <2>2. ScoreType /\ head \in store
    BY DEF HeavyInv
  <2> DEFINE S == {head, b}
  <2>3. S \subseteq AllBlock /\ b \in store' \cap S /\ head \in store' \cap S /\ Scored(S)
    BY <1>1, <1>2, <2>2
  <2> HIDE DEF S
  <2> QED
    BY <1>2, <2>1, <2>2, <2>3, ScoredIs
<1>4. head' \in store'
  BY <1>1, <1>2 DEF HeavyInv
<1>5. ASSUME raised' = NoBlock, ~strayed' PROVE Heavy(head)'
  <2>1. /\ Under(headCp, head)
        /\ \A x \in store : Under(headCp, x) => score[x] # Unscored /\ score[x] <= score[head]
    BY <1>1, <1>5 DEF HeavyInv, Heavy
  <2>2. \A x \in AllBlock : score'[x] # Unscored => score'[x] \in Int
    BY <1>3 DEF ScoreType
  <2>3. ASSUME NEW x \in store, Under(headCp, x)
        PROVE  x \in AllBlock /\ score'[x] # Unscored /\ score'[x] <= score'[head]
    <3>1. x \in AllBlock
      BY <1>2
    <3>2. score'[x] = score[x] /\ score'[head] = score[head]
      BY <1>2, <1>3, <2>1, <2>3, <3>1 DEF HeavyInv
    <3> QED
      BY <2>1, <2>3, <3>1, <3>2
  <2>4. ASSUME NEW x \in store', Under(headCp, x)
        PROVE  score'[x] # Unscored /\ score'[x] <= score'[head']
    <3>1. CASE x = b
      BY <1>1, <1>2, <1>3, <2>2, <3>1
    <3>2. CASE x \in store
      <4>1. score'[x] # Unscored /\ score'[x] <= score'[head]
        BY <1>1, <2>3, <2>4, <3>2
      <4>2. score'[x] \in Int /\ score'[head] \in Int /\ score'[b] \in Int
        BY <1>2, <1>3, <2>2, <2>3, <3>2, <4>1
      <4>3. score'[head'] = score'[head] \/ (score'[head'] = score'[b] /\ score'[head] < score'[b])
        BY <1>1
      <4> QED
        BY <4>1, <4>2, <4>3
    <3> QED
      BY <1>2, <3>1, <3>2
  <2>5. Under(headCp', head')
    BY <1>1, <1>2, <2>1
  <2> QED
    BY <1>1, <2>4, <2>5 DEF Heavy
<1> QED
  BY <1>1, <1>3, <1>4, <1>5 DEF HeavyInv

LEMMA SwitchHeavy ==
  ASSUME OnceInv, CpInv, HeavyInv, NEW b \in Block, SwitchHead(b) \/ RaiseOnSwitch(b)
  PROVE  HeavyInv'
<1> DEFINE S == {x \in store' : Under(headCp', x)}
<1>1. /\ Scored(S) /\ strayed' \in BOOLEAN
      /\ \/ raised' = b /\ head' = head
         \/ \E h \in AllBlock : Heaviest(h, headCp') /\ head' = h
  BY DEF SwitchHead, RaiseOnSwitch, NewCheckpoint, AddBlockToHead, ReorganizeHeadTo, HeavyInv,
         headVars
<1>2. CpInv' /\ store' = store \cup {b} /\ store' \subseteq AllBlock /\ b # NoBlock
  BY StoringIs, Constants
<1>3. /\ ScoreType'
      /\ \A x \in store' : Under(headCp', x) => score'[x] # Unscored
  <2>1. \A x \in store' : \A a \in AllBlock : Under(a, x) => a \in store'
    BY <1>2 DEF CpInv, CpType
  <2>2. S \subseteq AllBlock /\ \A x \in store' : Under(headCp', x) => x \in store' \cap S
    BY <1>2
  <2> HIDE DEF S
  <2> QED
    BY <1>1, <1>2, <2>1, <2>2, ScoredIs DEF HeavyInv
<1> HIDE DEF S
<1>4. CASE raised' = b /\ head' = head
  BY <1>1, <1>2, <1>3, <1>4 DEF HeavyInv
<1>5. ASSUME NEW h \in AllBlock, Heaviest(h, headCp'), head' = h PROVE HeavyInv'
  <2>1. /\ h \in store' /\ Under(headCp', h)
        /\ \A y \in store' : Under(headCp', y) =>
             score'[y] < score'[h] \/ score'[y] = score'[h]
    BY <1>5 DEF Heaviest
  <2>2. \A x \in store' : Under(headCp', x) => score'[x] \in Int
    BY <1>2, <1>3 DEF ScoreType
  <2>3. Heavy(head)'
    BY <1>3, <1>5, <2>1, <2>2 DEF Heavy
  <2> QED
    BY <1>1, <1>3, <1>5, <2>1, <2>3 DEF HeavyInv
<1> QED
  BY <1>1, <1>4, <1>5

(* A skipped block is not above the head checkpoint, unless that has moved. *)
LEMMA SkipHeavy ==
  ASSUME OnceInv, CpInv, HeavyInv, NEW b \in Block, SkipBlock(b)
  PROVE  HeavyInv'
<1>1. /\ headCp' # Candidate(b) /\ strayed' = (strayed \/ headCp' # headCp)
      /\ head' = head /\ score' = score /\ raised' = raised
  BY DEF SkipBlock, Continue, headVars
<1>2. /\ Stored(b) /\ CpInv' /\ store' = store \cup {b} /\ store' \subseteq AllBlock
      /\ LastCommitted(Candidate(b), PrevCp(b), cpScore') /\ PrevCp(b) \in Checkpoint
  BY StoringIs
<1>3. ASSUME headCp' = headCp, Under(headCp, b) PROVE FALSE
  <2>1. headCp \in Checkpoint \cap store /\ headCp # b /\ PrevCp(b) \in Checkpoint \cap store
        /\ Under(headCp, PrevCp(b))
    <3>1. headCp \in Checkpoint \cap store /\ headCp # b
      BY <1>2 DEF CpInv, CpType, Stored
    <3> QED
      BY <1>2, <1>3, <3>1, RecordIs
  <2>2. PrevCp(b) \in Checkpoint \cap store' /\ Under(headCp', PrevCp(b))
    BY <1>2, <1>3, <2>1
  <2>3. LastCommitted(headCp', PrevCp(b), cpScore')
    <3>1. Indexed(store', cpScore', subtree', cpChild', headCp')
      BY <1>2 DEF CpInv, CpType, Exact, Favourites, Indexed
    <3> QED
      BY <2>2, <3>1, AboveHeadCheckpoint
  <2> QED
    BY <1>1, <1>2, <2>3, OneCommitted
<1>4. ASSUME raised' = NoBlock, ~strayed' PROVE Heavy(head)'
  <2>1. headCp' = headCp /\ ~strayed /\ raised = NoBlock
    BY <1>1, <1>4
  <2>2. Heavy(head) /\ ~Under(headCp, b)
    BY <1>3, <2>1 DEF HeavyInv
  <2> QED
    BY <1>1, <1>2, <2>1, <2>2 DEF Heavy
<1> QED
  BY <1>1, <1>2, <1>4 DEF HeavyInv, ScoreType

LEMMA NextHeavyInv ==
  ASSUME OnceInv, CpInv, HeavyInv, [Next]_vars
  PROVE  HeavyInv'
<1> DEFINE Same == /\ UNCHANGED <<blockVars, headVars, score, strayed>>
                   /\ raised' = raised \/ raised' # NoBlock
<1>1. ASSUME Same PROVE HeavyInv'
  BY <1>1 DEF blockVars, headVars, HeavyInv, Heavy, ScoreType
<1>2. ASSUME NEW b \in Block, AddBlock(b) PROVE HeavyInv'
  <2>1. CASE LayAsideEarly(b) \/ LayAsideOrphan(b) \/ RejectBlock(b)
    <3>1. Same
      BY <2>1 DEF LayAsideEarly, LayAsideOrphan, RejectBlock
    <3> QED
      BY <1>1, <3>1
  <2>2. CASE RaiseNoState(b)
    <3>1. b # NoBlock
      BY Constants
    <3>2. Same
      BY <2>2, <3>1 DEF RaiseNoState
    <3> QED
      BY <1>1, <3>2
  <2>3. CASE KeepHead(b) \/ MoveHead(b)
    BY <2>3, KeepHeavy
  <2>4. CASE SwitchHead(b) \/ RaiseOnSwitch(b)
    BY <2>4, SwitchHeavy
  <2>5. CASE SkipBlock(b)
    BY <2>5, SkipHeavy
  <2> QED
    BY <1>2, <2>1, <2>2, <2>3, <2>4, <2>5 DEF AddBlock
<1>3. CASE (\E b \in Block : Receive(b)) \/ (\E t \in 0..MaxTime : Tick(t)) \/ TickLoop
             \/ (\E p \in AllBlock : Forget(p)) \/ UNCHANGED vars
  <2>1. Same
    BY <1>3 DEF Receive, Tick, TickLoop, Forget, vars
  <2> QED
    BY <1>1, <2>1
<1> QED
  BY <1>2, <1>3 DEF Next, Step

\* Unless the head checkpoint has moved while a block was skipped, the head is
\* above it, and every stored block above it has a score, none a higher one
\* (add_block, get_pow_difficulty, find_heaviest_pow_block in chain.py).
THEOREM HeadIsHeaviest ==
  ASSUME MaxCopies <= 1
  PROVE  Spec => []HeaviestAbove
<1>1. Init => IndexInv /\ HeavyInv
  BY InitIndexInv, InitHeavyInv
<1>2. IndexInv /\ HeavyInv /\ [Next]_vars => IndexInv' /\ HeavyInv'
  BY NextIndexInv, NextHeavyInv DEF IndexInv
<1>3. IndexInv /\ HeavyInv => HeaviestAbove
  BY DEF HeavyInv, Heavy, HeaviestAbove, Idle
<1> QED
  BY <1>1, <1>2, <1>3, PTL DEF Spec
===============================================================================
