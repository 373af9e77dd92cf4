---------------------------- MODULE PowChainProofs ----------------------------
(***************************************************************************)
(* Theorems about PowChain, for every block tree, state content, history   *)
(* length and clock the assumptions allow: the tree and its heads, the     *)
(* index, the refinement of ForkChoice, and last what pruning keeps.       *)
(***************************************************************************)
EXTENDS PowChain, SequenceTheorems, Induction

(* The assumptions on the constants, as the steps below use them.          *)
LEMMA Constants ==
  /\ Genesis \notin Block /\ NoBlock \notin AllBlock
  /\ Parent \in [Block -> AllBlock]
  /\ Number \in [AllBlock -> Height]
  /\ Timestamp \in [AllBlock -> Nat]
  /\ Difficulty \in [AllBlock -> Nat \ {0}]
  /\ Nodes \in [AllBlock -> SUBSET Node]
  /\ MaxHeight \in Nat /\ MaxHistory \in Nat /\ RandomUnit \in Nat \ {0}
  /\ MaxTime \in Nat /\ MaxCopies \in Nat
BY BlockTreeAssumption, PowChainAssumption
   DEF TreeAssumption, DataAssumption, StateAssumption

(* Reference counts stay natural numbers: pruning is guarded by Has.       *)
LEMMA PutType ==
  ASSUME NEW rf \in [Node -> Nat], NEW nodes
  PROVE  Put(rf, nodes) \in [Node -> Nat]
BY DEF Put

(* Dropping nodes that are there does not take a count below zero.          *)
LEMMA DropType ==
  ASSUME NEW rf \in [Node -> Nat], NEW nodes, Has(rf, nodes)
  PROVE  Drop(rf, nodes) \in [Node -> Nat]
BY DEF Drop, Has

(* The frames pushed for the blocks that waited.                           *)
LEMMA WaitingType ==
  ASSUME NEW b \in AllBlock, parentQueue \in [AllBlock -> Seq(Block)]
  PROVE  Waiting(b) \in Seq(Frame)
<1> DEFINE q == parentQueue[b]
           calls == [i \in 1..Len(q) |-> AddCall(q[i])]
<1>1. q \in Seq(Block) OBVIOUS
<1>2. \A i \in 1..Len(q) : AddCall(q[i]) \in Frame BY <1>1 DEF AddCall, Frame
<1>3. calls \in Seq(Frame) BY <1>1, <1>2
<1>4. <<ForgetCall(b)>> \in Seq(Frame) BY DEF ForgetCall, Frame
<1>5. calls \o <<ForgetCall(b)>> \in Seq(Frame) BY <1>3, <1>4
<1> QED BY <1>5 DEF Waiting

(* A slice of a queue holds what the queue holds.                          *)
LEMMA SliceType ==
  ASSUME NEW q \in Seq(Block), NEW m \in Nat \ {0}, NEW n \in Nat, n <= Len(q)
  PROVE  SubSeq(q, m, n) \in Seq(Block)
<1>1. \A i \in m..n : q[i] \in Block OBVIOUS
<1> QED BY <1>1, SubSeqProperties

(* A transaction position is a height of the index, or none.               *)
LEMMA ReindexedTxType ==
  ASSUME NEW b, NEW t \in Tx, NEW from, NEW to \in SUBSET Height,
         txIndex \in [Tx -> Height \cup {NoHeight}]
  PROVE  ReindexedTx(b, t, from, to) \in Height \cup {NoHeight}
<1> DEFINE del == {i \in from : byNumber[i] # NoBlock /\ t \in Txs[byNumber[i]]}
           put == {i \in to : i <= Number[b] /\ t \in Txs[Anc[b][i]]}
           last == {i \in put : \A j \in del \cup put : j <= i}
<1>1. last \subseteq Height OBVIOUS
<1>2. last # {} => (CHOOSE i \in last : TRUE) \in last OBVIOUS
<1>3. ReindexedTx(b, t, from, to) =
        IF last # {} THEN CHOOSE i \in last : TRUE
        ELSE IF del # {} THEN NoHeight ELSE txIndex[t]
  BY DEF ReindexedTx
<1> HIDE DEF del, put, last
<1> QED BY <1>1, <1>2, <1>3

-------------------------------------------------------------------------------
(* The scores on the way to a stored block: get_score only ever writes a    *)
(* score above a cached one.  With TypeOK and the two invariants it is what *)
(* every step preserves.                                                    *)
ScoredPaths ==
  /\ Genesis \in store
  /\ \A b \in Block : score[b] # Unscored =>
       /\ score[Parent[b]] # Unscored
       /\ score[b] >= score[Parent[b]] + Difficulty[b]

IInv == TypeOK /\ HeadHeaviest /\ StoredTree /\ ScoredPaths

(* What scoring a block below a stored parent does to the scores.           *)
LEMMA ScoredFacts ==
  ASSUME NEW b \in Block, IInv, Scored(b), Parent[b] \in store
  PROVE  /\ score' \in [AllBlock -> Nat \cup {Unscored}]
         /\ \A x \in AllBlock : x # b => score'[x] = score[x]
         /\ score[b] # Unscored => score'[b] = score[b]
         /\ score'[b] # Unscored
         /\ score'[b] >= score[Parent[b]] + Difficulty[b]
<1>1. Parent[b] \in AllBlock /\ Difficulty[b] \in Nat \ {0} /\ b \in AllBlock
  BY Constants DEF AllBlock
<1>2. score[Parent[b]] \in Nat BY <1>1 DEF IInv, TypeOK, HeadHeaviest
<1>3. CASE score[b] # Unscored /\ UNCHANGED score
  BY <1>3 DEF IInv, TypeOK, ScoredPaths
<1>4. ASSUME NEW noise \in 0..(Difficulty[b] \div RandomUnit),
             score[b] = Unscored,
             score' = [score EXCEPT ![b] = score[Parent[b]] + Difficulty[b] + noise]
      PROVE  /\ score' \in [AllBlock -> Nat \cup {Unscored}]
             /\ \A x \in AllBlock : x # b => score'[x] = score[x]
             /\ score'[b] # Unscored
             /\ score'[b] >= score[Parent[b]] + Difficulty[b]
  <2>1. noise \in Nat BY <1>1, Constants
  <2>2. score[Parent[b]] + Difficulty[b] + noise \in Nat BY <1>1, <1>2, <2>1
  <2>3. score'[b] = score[Parent[b]] + Difficulty[b] + noise
    BY <1>1, <1>4 DEF IInv, TypeOK
  <2>4. score'[b] # Unscored BY <2>2, <2>3 DEF Unscored
  <2>5. score' \in [AllBlock -> Nat \cup {Unscored}]
        /\ \A x \in AllBlock : x # b => score'[x] = score[x]
    BY <1>1, <1>4, <2>2 DEF IInv, TypeOK
  <2>6. score'[b] >= score[Parent[b]] + Difficulty[b]
    BY <1>1, <1>2, <2>1, <2>3
  <2> QED BY <2>4, <2>5, <2>6
<1> QED BY <1>3, <1>4 DEF Scored

(* The part of the type invariant that the tail of add_block is about.      *)
LEMMA FinishType ==
  ASSUME TypeOK, NEW b \in Block, NEW rf \in [Node -> Nat], Finish(b, rf),
         head' \in AllBlock, work # <<>>
  PROVE  /\ store' \subseteq AllBlock
         /\ childIndex' \in [AllBlock -> SUBSET Block]
         /\ headKey' \in AllBlock \cup {NoBlock}
         /\ kept' \subseteq Block
         /\ refs' \in [Node -> Nat]
         /\ timeQueue' \in Seq(Block)
         /\ parentQueue' \in [AllBlock -> Seq(Block)]
         /\ localtime' \in 0..MaxTime
         /\ work' \in Seq(Frame)
         /\ raised' \in Block \cup {NoBlock}
         /\ called' \in Block \cup {NoBlock}
         /\ copies' \in [Block -> 0..MaxCopies]
<1>1. b \in AllBlock /\ Parent[b] \in AllBlock BY Constants DEF AllBlock
<1>2. /\ UNCHANGED <<timeQueue, parentQueue, localtime, raised, copies>>
      /\ called' = b /\ headKey' = head' /\ store' = store \cup {b}
      /\ childIndex' = [childIndex EXCEPT ![Parent[b]] = @ \cup {b}]
      /\ work' = Waiting(b) \o Tail(work)
  BY DEF Finish, queueVars
<1>3. work' \in Seq(Frame)
  <2>1. Tail(work) \in Seq(Frame) BY DEF TypeOK
  <2>2. Waiting(b) \in Seq(Frame) BY <1>1, WaitingType DEF TypeOK
  <2> QED BY <1>2, <2>1, <2>2
<1>4. kept' \subseteq Block BY DEF Finish, TypeOK
<1>5. refs' \in [Node -> Nat]
  <2>1. PICK old : refs' = IF old \in kept \cup {b} /\ Has(rf, ReplacedBy(old))
                           THEN Drop(rf, ReplacedBy(old)) ELSE rf
    BY DEF Finish
  <2> QED BY <2>1, DropType
<1>6. childIndex' \in [AllBlock -> SUBSET Block] BY <1>1, <1>2 DEF TypeOK
<1> QED BY <1>1, <1>2, <1>3, <1>4, <1>5, <1>6 DEF TypeOK

(* The counts after opening the parent's state and executing a block.       *)
LEMMA ExecutedType ==
  ASSUME TypeOK, NEW b
  PROVE  /\ Executed(b, refs) \in [Node -> Nat]
         /\ Opened(b) \in [Node -> Nat]
         /\ Executed(b, Opened(b)) \in [Node -> Nat]
<1>1. refs \in [Node -> Nat] BY DEF TypeOK
<1>2. Opened(b) \in [Node -> Nat] BY <1>1, PutType DEF Opened
<1> QED BY <1>1, <1>2, PutType DEF Executed

(* A path has blocks below its own height and nothing above.                *)
LEMMA ReindexedBlockType ==
  ASSUME NEW b \in Block, NEW n \in Height
  PROVE  ReindexedBlock(b, n) \in AllBlock \cup {NoBlock}
BY BlockTreeAssumption DEF AncestorAssumption, ReindexedBlock, AllBlock
-------------------------------------------------------------------------------
(* Storing b as the new head, if it is heavier, or beside the head, if not, *)
(* keeps the head the heaviest and the scores growing.                      *)
LEMMA StoringKeepsOrder ==
  ASSUME IInv, NEW b \in Block, Parent[b] \in store, Scored(b),
         store' = store \cup {b},
         childIndex' = [childIndex EXCEPT ![Parent[b]] = @ \cup {b}],
         \/ head' = b /\ score'[b] > score[head]
         \/ head' = head /\ score'[b] <= score[head]
  PROVE  (HeadHeaviest /\ StoredTree /\ ScoredPaths)'
<1>1. /\ score' \in [AllBlock -> Nat \cup {Unscored}]
      /\ \A x \in AllBlock : x # b => score'[x] = score[x]
      /\ score[b] # Unscored => score'[b] = score[b]
      /\ score'[b] # Unscored
      /\ score'[b] >= score[Parent[b]] + Difficulty[b]
  BY ScoredFacts
<1>2. /\ b \in AllBlock /\ head \in AllBlock /\ Genesis \notin Block
      /\ \A x \in Block : x \in AllBlock /\ Parent[x] \in AllBlock
                          /\ Difficulty[x] \in Nat \ {0}
      /\ store \subseteq AllBlock
  BY Constants DEF AllBlock, IInv, TypeOK
<1>3. \A x \in store : score[x] \in Nat /\ score[x] <= score[head] /\ head \in store
  BY <1>2 DEF IInv, TypeOK, HeadHeaviest
<1>4. \A x \in store : score'[x] = score[x]
  BY <1>1, <1>2, <1>3 DEF IInv, HeadHeaviest
<1>5. Parent[b] # b /\ score'[Parent[b]] = score[Parent[b]]
  <2>1. Number[b] \in Height /\ Number[b] = Number[Parent[b]] + 1
    BY <1>2, Constants, BlockTreeAssumption DEF TreeAssumption
  <2>2. Number[b] # Number[b] + 1 BY <2>1, Constants DEF Height
  <2> QED BY <1>4, <2>1, <2>2
<1>6. score'[b] \in Nat BY <1>1, <1>2
<1>7. HeadHeaviest'
  <2>1. head \in store BY DEF IInv, HeadHeaviest
  <2>2. head' \in store' BY <2>1
  <2>3. score[head] \in Nat /\ score'[head] = score[head] BY <1>3, <1>4, <2>1
  <2>4. \A x \in store : score'[x] \in Nat /\ score'[x] <= score[head]
    BY <1>3, <1>4
  <2>5. score[head] <= score'[head'] /\ score'[b] <= score'[head'] /\ score'[head'] \in Nat
    BY <1>6, <2>3
  <2>6. ASSUME NEW x \in store'
        PROVE  score'[x] # Unscored /\ score'[x] <= score'[head']
    <3>1. CASE x = b BY <3>1, <1>1, <2>5
    <3>2. CASE x \in store
      <4>1. score'[x] \in Nat /\ score'[x] <= score[head] BY <3>2, <2>4
      <4> QED BY <4>1, <2>3, <2>5 DEF Unscored
    <3> QED BY <3>1, <3>2
  <2> QED BY <2>2, <2>6 DEF HeadHeaviest
<1>8. StoredTree'
  <2>1. \A x \in store \ {Genesis} :
          Parent[x] \in store /\ score[x] >= score[Parent[x]] + Difficulty[x]
    BY DEF IInv, StoredTree
  <2>2. \A x \in store' \ {Genesis} :
          Parent[x] \in store' /\ score'[x] >= score'[Parent[x]] + Difficulty[x]
    BY <2>1, <1>1, <1>4, <1>5
  <2>3. \A p \in AllBlock :
          childIndex'[p] = {x \in store' \ {Genesis} : Parent[x] = p}
    <3>1. \A p \in AllBlock :
            childIndex[p] = {x \in store \ {Genesis} : Parent[x] = p}
      BY DEF IInv, StoredTree
    <3>2. childIndex \in [AllBlock -> SUBSET Block] BY DEF IInv, TypeOK
    <3>3. ASSUME NEW p \in AllBlock
          PROVE  childIndex'[p] = {x \in store' \ {Genesis} : Parent[x] = p}
      <4>1. CASE p = Parent[b]
        <5>1. childIndex'[p] = childIndex[p] \cup {b} BY <4>1, <3>2
        <5> QED BY <5>1, <3>1, <4>1, <1>2
      <4>2. CASE p # Parent[b]
        <5>1. childIndex'[p] = childIndex[p] BY <4>2, <3>2
        <5> QED BY <5>1, <3>1, <4>2, <1>2
      <4> QED BY <4>1, <4>2
    <3> QED BY <3>3
  <2> QED BY <2>2, <2>3 DEF StoredTree
<1>9. ScoredPaths'
  <2>1. ASSUME NEW x \in Block, score'[x] # Unscored
        PROVE  /\ score'[Parent[x]] # Unscored
               /\ score'[x] >= score'[Parent[x]] + Difficulty[x]
    <3>1. CASE x = b BY <3>1, <1>1, <1>3, <1>5 DEF IInv, HeadHeaviest
    <3>2. CASE x # b
      <4>1. score'[x] = score[x] BY <3>2, <1>1, <1>2
      <4>2. /\ score[Parent[x]] # Unscored
            /\ score[x] >= score[Parent[x]] + Difficulty[x]
        BY <4>1, <2>1 DEF IInv, ScoredPaths
      <4>3. score'[Parent[x]] = score[Parent[x]]
        BY <4>2, <1>1, <1>2
      <4> QED BY <4>1, <4>2, <4>3
    <3> QED BY <3>1, <3>2
  <2> QED BY <2>1 DEF ScoredPaths, IInv
<1> QED BY <1>7, <1>8, <1>9

(* A step that stores nothing and leaves the scores and the head alone.     *)
LEMMA NothingStored ==
  ASSUME IInv, UNCHANGED <<store, childIndex, score, head>>
  PROVE  (HeadHeaviest /\ StoredTree /\ ScoredPaths)'
BY DEF IInv, HeadHeaviest, StoredTree, ScoredPaths
-------------------------------------------------------------------------------
(* One step of each kind preserves the inductive invariant.                 *)

(* A call from outside changes no block, score or head.                     *)
LEMMA CallsPreserve ==
  ASSUME IInv, (\E b \in Block : Receive(b)) \/ (\E t \in 0..MaxTime : Tick(t))
  PROVE  IInv'
<1>1. ASSUME NEW b \in Block, Receive(b) PROVE IInv'
  <2>1. UNCHANGED <<store, childIndex, score, head>>
    BY <1>1 DEF Receive, dbVars
  <2>2. <<AddCall(b)>> \in Seq(Frame) BY DEF AddCall, Frame
  <2>3. copies' \in [Block -> 0..MaxCopies]
    <3>1. copies \in [Block -> 0..MaxCopies] BY DEF IInv, TypeOK
    <3>2. copies[b] < MaxCopies /\ copies' = [copies EXCEPT ![b] = @ + 1]
      BY <1>1 DEF Receive
    <3>3. copies[b] + 1 \in 0..MaxCopies BY <3>1, <3>2, Constants
    <3> QED BY <3>1, <3>2, <3>3
  <2>4. TypeOK'
    BY <1>1, <2>2, <2>3 DEF Receive, IInv, TypeOK, dbVars, queueVars
  <2> QED BY <2>1, <2>4, NothingStored DEF IInv
<1>2. ASSUME NEW t \in 0..MaxTime, Tick(t) PROVE IInv'
  <2>1. UNCHANGED <<store, childIndex, score, head>>
    BY <1>2 DEF Tick, dbVars
  <2>2. <<TickCall(0, -1)>> \in Seq(Frame) BY DEF TickCall, Frame
  <2>3. TypeOK'
    BY <1>2, <2>2 DEF Tick, IInv, TypeOK, dbVars, historyVars
  <2> QED BY <2>1, <2>3, NothingStored DEF IInv
<1> QED BY <1>1, <1>2

(* One round of process_time_queue moves a block from the queue to a call.  *)
LEMMA TickLoopPreserves ==
  ASSUME IInv, TickLoop
  PROVE  IInv'
<1> DEFINE i == IF Head(work).pre = Len(timeQueue) THEN Head(work).i + 1
                                                   ELSE Head(work).i
<1>1. /\ work \in Seq(Frame) /\ work # <<>> /\ Head(work).op = "tick"
      /\ timeQueue \in Seq(Block)
  BY DEF TickLoop, IInv, TypeOK
<1>2. Head(work) \in Frame /\ Tail(work) \in Seq(Frame) BY <1>1
<1>3. i \in Nat BY <1>1, <1>2 DEF Frame
<1> HIDE DEF i
<1>4. work' \in Seq(Frame) /\ timeQueue' \in Seq(Block)
  <2>1. CASE /\ i < Len(timeQueue)
             /\ timeQueue' = SubSeq(timeQueue, 1, i)
                               \o SubSeq(timeQueue, i + 2, Len(timeQueue))
             /\ work' = <<AddCall(timeQueue[i + 1]), TickCall(i, Len(timeQueue))>>
                          \o Tail(work)
    <3>1. timeQueue[i + 1] \in Block BY <1>1, <1>3, <2>1
    <3>2. AddCall(timeQueue[i + 1]) \in Frame /\ TickCall(i, Len(timeQueue)) \in Frame
      BY <3>1, <1>1, <1>3 DEF AddCall, TickCall, Frame
    <3>3. <<AddCall(timeQueue[i + 1]), TickCall(i, Len(timeQueue))>> \in Seq(Frame)
      BY <3>2
    <3>4. /\ SubSeq(timeQueue, 1, i) \in Seq(Block)
          /\ SubSeq(timeQueue, i + 2, Len(timeQueue)) \in Seq(Block)
      <4>1. i \in Nat /\ i + 2 \in Nat /\ i + 2 >= 1 /\ Len(timeQueue) \in Nat
        BY <1>1, <1>3, <2>1
      <4>2. i <= Len(timeQueue) /\ 1 \in Nat \ {0} /\ i + 2 \in Nat \ {0}
        BY <2>1, <4>1
      <4> QED BY <1>1, <4>1, <4>2, SliceType
    <3>5. work' \in Seq(Frame) BY <2>1, <3>3, <1>2
    <3>6. timeQueue' \in Seq(Block)
      <4>1. \A s, t \in Seq(Block) : s \o t \in Seq(Block) OBVIOUS
      <4> QED BY <2>1, <3>4, <4>1, Zenon
    <3> QED BY <3>5, <3>6
  <2>2. CASE work' = Tail(work) /\ UNCHANGED timeQueue
    BY <2>2, <1>1, <1>2
  <2> QED BY <2>1, <2>2 DEF TickLoop, i
<1>5. UNCHANGED <<dbVars, head, dirty, parentQueue, localtime, historyVars>>
  BY DEF TickLoop
<1>6. TypeOK' BY <1>4, <1>5 DEF IInv, TypeOK, dbVars, historyVars
<1> QED BY <1>5, <1>6, NothingStored DEF dbVars, IInv

(* The steps of a call that leave the stored blocks alone.                  *)
LEMMA LayingAsidePreserves ==
  ASSUME IInv, NEW b \in Block, LayAsideEarly(b) \/ LayAsideOrphan(b)
  PROVE  IInv'
<1>1. /\ timeQueue \in Seq(Block) /\ parentQueue \in [AllBlock -> Seq(Block)]
      /\ work \in Seq(Frame) /\ Parent[b] \in AllBlock
  BY Constants DEF IInv, TypeOK
<1>2. Tail(work) \in Seq(Frame)
  <2>1. work # <<>> BY DEF LayAsideEarly, LayAsideOrphan, Calling
  <2> QED BY <1>1, <2>1
<1>3. CASE LayAsideEarly(b)
  <2>1. PICK i \in 0..Len(timeQueue) :
          timeQueue' = SubSeq(timeQueue, 1, i) \o <<b>>
                         \o SubSeq(timeQueue, i + 1, Len(timeQueue))
    BY <1>3 DEF LayAsideEarly
  <2>2. /\ SubSeq(timeQueue, 1, i) \in Seq(Block)
        /\ SubSeq(timeQueue, i + 1, Len(timeQueue)) \in Seq(Block)
    BY <1>1, SliceType
  <2>3. timeQueue' \in Seq(Block) BY <2>1, <2>2
  <2>4. TypeOK'
    BY <1>2, <1>3, <2>3 DEF LayAsideEarly, IInv, TypeOK, dbVars, historyVars
  <2> QED BY <1>3, <2>4, NothingStored DEF LayAsideEarly, dbVars, IInv
<1>4. CASE LayAsideOrphan(b)
  <2>1. parentQueue' \in [AllBlock -> Seq(Block)]
    BY <1>1, <1>4 DEF LayAsideOrphan
  <2>2. TypeOK'
    BY <1>2, <1>4, <2>1 DEF LayAsideOrphan, IInv, TypeOK, dbVars, historyVars
  <2> QED BY <1>4, <2>2, NothingStored DEF LayAsideOrphan, dbVars, IInv
<1> QED BY <1>3, <1>4

(* The `del' of a parent's queue touches nothing else.                      *)
LEMMA ForgettingPreserves ==
  ASSUME IInv, NEW p \in AllBlock, Forget(p)
  PROVE  IInv'
<1>1. Tail(work) \in Seq(Frame) BY DEF Forget, Calling, IInv, TypeOK
<1>2. parentQueue' \in [AllBlock -> Seq(Block)]
  BY DEF Forget, IInv, TypeOK
<1>3. TypeOK'
  BY <1>1, <1>2 DEF Forget, IInv, TypeOK, dbVars, historyVars
<1> QED BY <1>3, NothingStored DEF Forget, dbVars, IInv

(* A block that add_block refuses leaves the stored blocks as they were.    *)
LEMMA RefusingPreserves ==
  ASSUME IInv, NEW b \in Block,
         RejectOnHead(b) \/ RejectOffHead(b) \/ RaiseNoState(b)
  PROVE  IInv'
<1>1. Tail(work) \in Seq(Frame) /\ <<>> \in Seq(Frame)
  <2>1. work \in Seq(Frame) BY DEF IInv, TypeOK
  <2>2. work # <<>> BY DEF RejectOnHead, RejectOffHead, RaiseNoState, Calling
  <2> QED BY <2>1, <2>2
<1>2. Opened(b) \in [Node -> Nat] BY ExecutedType DEF IInv
<1>3. CASE RejectOnHead(b)
  <2>1. TypeOK'
    BY <1>1, <1>3 DEF RejectOnHead, IInv, TypeOK, dbVars, queueVars, historyVars
  <2> QED BY <1>3, <2>1, NothingStored DEF RejectOnHead, dbVars, IInv
<1>4. CASE RejectOffHead(b)
  <2>1. TypeOK'
    BY <1>1, <1>2, <1>4 DEF RejectOffHead, IInv, TypeOK, queueVars, historyVars
  <2> QED BY <1>4, <2>1, NothingStored DEF RejectOffHead, IInv
<1>5. CASE RaiseNoState(b)
  <2>1. TypeOK'
    BY <1>1, <1>5 DEF RaiseNoState, IInv, TypeOK, dbVars, queueVars
  <2> QED BY <1>5, <2>1, NothingStored DEF RaiseNoState, dbVars, IInv
<1> QED BY <1>3, <1>4, <1>5
-------------------------------------------------------------------------------
(* The steps that store a block.                                            *)

(* First branch of add_block: the new head scores more than its parent.     *)
LEMMA AddToHeadPreserves ==
  ASSUME IInv, NEW b \in Block, AddToHead(b)
  PROVE  IInv' /\ score'[b] > score[head]
<1>1. /\ OnHead(b) /\ Scored(b) /\ head' = b /\ Finish(b, Executed(b, refs))
      /\ byNumber' = [byNumber EXCEPT ![Number[b]] = b] /\ UNCHANGED dirty
      /\ txIndex' = [t \in Tx |-> IF t \in Txs[b] THEN Number[b] ELSE txIndex[t]]
      /\ work # <<>>
  BY DEF AddToHead, Calling
<1>2. /\ b \in AllBlock /\ Number[b] \in Height /\ Difficulty[b] \in Nat \ {0}
      /\ Parent[b] = head /\ head \in store /\ score[head] \in Nat
  BY <1>1, Constants DEF OnHead, AllBlock, IInv, TypeOK, HeadHeaviest
<1>3. /\ score' \in [AllBlock -> Nat \cup {Unscored}]
      /\ score'[b] # Unscored /\ score'[b] >= score[head] + Difficulty[b]
  BY <1>1, <1>2, ScoredFacts
<1>4. score'[b] > score[head] BY <1>2, <1>3
<1>5. (HeadHeaviest /\ StoredTree /\ ScoredPaths)'
  BY <1>1, <1>2, <1>4, StoringKeepsOrder DEF Finish
<1>6. byNumber' \in [Height -> AllBlock \cup {NoBlock}]
  BY <1>1, <1>2 DEF IInv, TypeOK
<1>7. txIndex' \in [Tx -> Height \cup {NoHeight}]
  BY <1>1, <1>2 DEF IInv, TypeOK
<1>8. TypeOK
  BY DEF IInv
<1>9. Executed(b, refs) \in [Node -> Nat] BY <1>8, ExecutedType
<1>10. head' \in AllBlock BY <1>1, <1>2
<1>11. dirty' \in BOOLEAN BY <1>1, <1>8 DEF TypeOK
<1>12. TypeOK'
  BY <1>1, <1>3, <1>6, <1>7, <1>8, <1>9, <1>10, <1>11, FinishType DEF TypeOK
<1> QED BY <1>4, <1>5, <1>12 DEF IInv

(* Second branch, head kept: the new block does not score more than it.     *)
LEMMA AddOffHeadPreserves ==
  ASSUME IInv, NEW b \in Block, AddOffHead(b)
  PROVE  IInv'
<1>1. /\ OffHead(b) /\ Scored(b) /\ ~(score'[b] > score[head])
      /\ UNCHANGED <<byNumber, txIndex, head, dirty>>
      /\ Finish(b, Executed(b, Opened(b))) /\ work # <<>>
  BY DEF AddOffHead, ExecutesOffHead, Calling, Beats
<1>2. Parent[b] \in store /\ b \in AllBlock /\ TypeOK
  BY <1>1 DEF OffHead, AllBlock, IInv
<1>3. /\ score' \in [AllBlock -> Nat \cup {Unscored}]
      /\ score'[b] # Unscored /\ score[head] \in Nat
  BY <1>1, <1>2, ScoredFacts DEF IInv, TypeOK, HeadHeaviest
<1>4. score'[b] <= score[head] BY <1>1, <1>2, <1>3
<1>5. (HeadHeaviest /\ StoredTree /\ ScoredPaths)'
  BY <1>1, <1>2, <1>4, StoringKeepsOrder DEF Finish
<1>6. Executed(b, Opened(b)) \in [Node -> Nat] BY <1>2, ExecutedType
<1>7. head' \in AllBlock BY <1>1, <1>2 DEF TypeOK
<1>8. /\ byNumber' \in [Height -> AllBlock \cup {NoBlock}]
      /\ txIndex' \in [Tx -> Height \cup {NoHeight}] /\ dirty' \in BOOLEAN
  BY <1>1, <1>2 DEF TypeOK
<1>9. TypeOK' BY <1>1, <1>2, <1>3, <1>6, <1>7, <1>8, FinishType DEF TypeOK
<1> QED BY <1>5, <1>9 DEF IInv

(* Second branch, head replaced: the new block scores more than the head.   *)
LEMMA ReorganizePreserves ==
  ASSUME IInv, NEW b \in Block, Reorganize(b)
  PROVE  IInv'
<1>1. /\ OffHead(b) /\ Scored(b) /\ score'[b] > score[head]
      /\ head' = b /\ dirty' = FALSE
      /\ Finish(b, Executed(b, Opened(b))) /\ work # <<>>
  BY DEF Reorganize, ExecutesOffHead, Calling, Beats
<1>2. Parent[b] \in store /\ b \in AllBlock /\ TypeOK
  BY <1>1 DEF OffHead, AllBlock, IInv
<1>3. score' \in [AllBlock -> Nat \cup {Unscored}]
  BY <1>1, <1>2, ScoredFacts
<1>4. (HeadHeaviest /\ StoredTree /\ ScoredPaths)'
  BY <1>1, <1>2, StoringKeepsOrder DEF Finish
<1>5. PICK r \in Height :
        /\ byNumber' = [n \in Height |-> IF n \in Rewritten(b, r)
                                         THEN ReindexedBlock(b, n)
                                         ELSE byNumber[n]]
        /\ txIndex' = [t \in Tx |-> ReindexedTx(b, t, Rewritten(b, r),
                                                      Rewritten(b, r))]
  BY DEF Reorganize
<1>6. byNumber' \in [Height -> AllBlock \cup {NoBlock}]
  BY <1>2, <1>5, ReindexedBlockType DEF TypeOK
<1>7. txIndex' \in [Tx -> Height \cup {NoHeight}]
  <2>1. Rewritten(b, r) \in SUBSET Height
    BY Constants DEF Rewritten, Height
  <2> QED BY <1>2, <1>5, <2>1, ReindexedTxType DEF TypeOK
<1>8. Executed(b, Opened(b)) \in [Node -> Nat] BY <1>2, ExecutedType
<1>9. head' \in AllBlock /\ dirty' \in BOOLEAN BY <1>1, <1>2
<1>10. TypeOK'
  BY <1>1, <1>2, <1>3, <1>6, <1>7, <1>8, <1>9, FinishType DEF TypeOK
<1> QED BY <1>4, <1>10 DEF IInv

(* The aborted reorganisation has cached a score but stored no block.       *)
LEMMA RaiseNoLogPreserves ==
  ASSUME IInv, NEW b \in Block, RaiseNoLog(b)
  PROVE  IInv'
<1>1. /\ OffHead(b) /\ Scored(b) /\ raised' = b /\ work' = <<>>
      /\ refs' = Executed(b, Opened(b))
      /\ UNCHANGED <<store, childIndex, headKey, kept, head, dirty, queueVars,
                     called, copies>>
  BY DEF RaiseNoLog, ExecutesOffHead
<1>2. Parent[b] \in store /\ b \in AllBlock /\ TypeOK
  BY <1>1 DEF OffHead, AllBlock, IInv
<1>3. /\ score' \in [AllBlock -> Nat \cup {Unscored}]
      /\ \A x \in AllBlock : x # b => score'[x] = score[x]
      /\ score[b] # Unscored => score'[b] = score[b]
      /\ score'[b] # Unscored
      /\ score'[b] >= score[Parent[b]] + Difficulty[b]
  BY <1>1, <1>2, ScoredFacts
<1>4. \A x \in store : score'[x] = score[x]
  BY <1>2, <1>3 DEF IInv, TypeOK, HeadHeaviest
<1>5. HeadHeaviest' /\ StoredTree'
  BY <1>1, <1>4 DEF IInv, HeadHeaviest, StoredTree
<1>6. ScoredPaths'
  <2>1. ASSUME NEW x \in Block, score'[x] # Unscored
        PROVE  /\ score'[Parent[x]] # Unscored
               /\ score'[x] >= score'[Parent[x]] + Difficulty[x]
    <3>1. x \in AllBlock /\ Parent[x] \in AllBlock
      BY Constants DEF AllBlock
    <3>2. CASE x = b BY <3>2, <1>2, <1>3, <1>4 DEF IInv, HeadHeaviest
    <3>3. CASE x # b
      <4>1. score'[x] = score[x] BY <3>1, <3>3, <1>3
      <4>2. /\ score[Parent[x]] # Unscored
            /\ score[x] >= score[Parent[x]] + Difficulty[x]
        BY <4>1, <2>1 DEF IInv, ScoredPaths
      <4>3. score'[Parent[x]] = score[Parent[x]] BY <3>1, <4>2, <1>3
      <4> QED BY <4>1, <4>2, <4>3
    <3> QED BY <3>2, <3>3
  <2> QED BY <1>1, <2>1 DEF ScoredPaths, IInv
<1>7. PICK r \in Height, stop \in Height :
        /\ ReplaceFrom(b, r)
        /\ byNumber' = [n \in Height |->
                          IF n \in Rewritten(b, r) /\ n < stop
                          THEN ReindexedBlock(b, n)
                          ELSE IF n = stop THEN NoBlock ELSE byNumber[n]]
        /\ txIndex' = [t \in Tx |-> ReindexedTx(b, t, r..stop, r..(stop - 1))]
  BY DEF RaiseNoLog
<1>8. byNumber' \in [Height -> AllBlock \cup {NoBlock}]
  BY <1>2, <1>7, ReindexedBlockType DEF TypeOK
<1>9. txIndex' \in [Tx -> Height \cup {NoHeight}]
  <2>1. r..(stop - 1) \in SUBSET Height BY Constants DEF Height
  <2> QED BY <1>2, <1>7, <2>1, ReindexedTxType DEF TypeOK
<1>10. refs' \in [Node -> Nat] BY <1>1, <1>2, ExecutedType
<1>11. work' \in Seq(Frame) BY <1>1
<1>12. TypeOK'
  BY <1>1, <1>2, <1>3, <1>8, <1>9, <1>10, <1>11 DEF TypeOK, queueVars
<1> QED BY <1>5, <1>6, <1>12 DEF IInv

-------------------------------------------------------------------------------
(* A new database satisfies the inductive invariant.                        *)
LEMMA InitInductive == Init => IInv
<1> SUFFICES ASSUME Init PROVE IInv
  OBVIOUS
<1>1. TypeOK
  <2>1. /\ Genesis \in AllBlock /\ 0 \in Height
    BY Constants DEF AllBlock, Height
  <2>2. /\ store \subseteq AllBlock /\ kept \subseteq Block /\ head \in AllBlock
        /\ headKey \in AllBlock \cup {NoBlock} /\ dirty \in BOOLEAN
        /\ raised \in Block \cup {NoBlock} /\ called \in Block \cup {NoBlock}
    BY <2>1 DEF Init
  <2>3. /\ childIndex \in [AllBlock -> SUBSET Block]
        /\ byNumber \in [Height -> AllBlock \cup {NoBlock}]
        /\ txIndex \in [Tx -> Height \cup {NoHeight}]
        /\ score \in [AllBlock -> Nat \cup {Unscored}]
        /\ refs \in [Node -> Nat]
    BY <2>1 DEF Init
  <2>4. timeQueue \in Seq(Block) /\ work \in Seq(Frame) BY DEF Init
  <2>5. parentQueue \in [AllBlock -> Seq(Block)]
    <3>1. <<>> \in Seq(Block) OBVIOUS
    <3> QED BY <3>1 DEF Init
  <2>6. localtime \in 0..MaxTime /\ copies \in [Block -> 0..MaxCopies]
    BY Constants DEF Init
  <2> QED BY <2>2, <2>3, <2>4, <2>5, <2>6 DEF TypeOK
<1>2. HeadHeaviest
  BY DEF Init, HeadHeaviest, AllBlock, Unscored
<1>3. StoredTree BY DEF Init, StoredTree
<1>4. ScoredPaths
  BY Constants DEF Init, ScoredPaths, AllBlock
<1> QED BY <1>1, <1>2, <1>3, <1>4 DEF IInv

(* Every step of the Chain, and a step that changes nothing, keeps it.      *)
LEMMA NextInductive == IInv /\ [Next]_vars => IInv'
<1> SUFFICES ASSUME IInv, [Next]_vars PROVE IInv'
  OBVIOUS
<1>1. CASE (\E b \in Block : Receive(b)) \/ (\E t \in 0..MaxTime : Tick(t))
  BY <1>1, CallsPreserve
<1>2. CASE TickLoop BY <1>2, TickLoopPreserves
<1>3. ASSUME NEW p \in AllBlock, Forget(p) PROVE IInv'
  BY <1>3, ForgettingPreserves
<1>4. ASSUME NEW b \in Block, AddBlock(b) PROVE IInv'
  BY <1>4, LayingAsidePreserves, RefusingPreserves, AddToHeadPreserves,
     AddOffHeadPreserves, ReorganizePreserves, RaiseNoLogPreserves DEF AddBlock
<1>5. CASE UNCHANGED vars
  <2>1. TypeOK'
    BY <1>5 DEF vars, dbVars, queueVars, historyVars, IInv, TypeOK
  <2> QED BY <1>5, <2>1, NothingStored DEF vars, dbVars, IInv
<1> QED BY <1>1, <1>2, <1>3, <1>4, <1>5 DEF Next, Step

(* The database and the queues of the Chain keep their types; in particular *)
(* no reference count goes below zero, however blocks and clock interleave. *)
THEOREM TypeCorrect == Spec => []TypeOK
<1>1. IInv => TypeOK BY DEF IInv
<1> QED BY <1>1, InitInductive, NextInductive, PTL DEF Spec

(* The head is a heaviest stored block, although add_block compares scores  *)
(* only in its second branch and a reorganisation may be aborted half-way.  *)
THEOREM HeadIsHeaviest == Spec => []HeadHeaviest
<1>1. IInv => HeadHeaviest BY DEF IInv
<1> QED BY <1>1, InitInductive, NextInductive, PTL DEF Spec

(* The stored blocks are a tree with strictly growing scores, as get_score  *)
(* and get_children need.                                                   *)
THEOREM StoredBlocksFormTree == Spec => []StoredTree
<1>1. IInv => StoredTree BY DEF IInv
<1> QED BY <1>1, InitInductive, NextInductive, PTL DEF Spec
-------------------------------------------------------------------------------
(* The block index.                                                         *)

(* Two paths that meet at height r agree below it.                          *)
LEMMA PathsMeet ==
  ASSUME NEW a \in AllBlock, NEW b \in AllBlock,
         NEW r \in 0..Number[a], r <= Number[b], Anc[a][r] = Anc[b][r],
         NEW n \in 0..r
  PROVE  Anc[a][n] = Anc[b][n]
<1>1. Number[a] \in Nat /\ Number[b] \in Nat
  BY Constants DEF Height
<1>2. r \in 0..Number[b] /\ n \in 0..Number[a] /\ n \in 0..Number[b]
  BY <1>1
<1>3. Anc[Anc[a][r]][n] = Anc[a][n]
  BY <1>1, <1>2, BlockTreeAssumption DEF AncestorAssumption
<1>4. Anc[Anc[b][r]][n] = Anc[b][n]
  BY <1>1, <1>2, BlockTreeAssumption DEF AncestorAssumption
<1> QED BY <1>3, <1>4

(* The path to a block on top of p is the path to p and the block.          *)
LEMMA PathOfChild ==
  ASSUME NEW b \in Block
  PROVE  /\ Number[b] = Number[Parent[b]] + 1 /\ Anc[b][Number[b]] = b
         /\ \A n \in 0..Number[Parent[b]] : Anc[b][n] = Anc[Parent[b]][n]
<1>1. /\ b \in AllBlock /\ Parent[b] \in AllBlock
      /\ Number[b] \in Nat /\ Number[Parent[b]] \in Nat
  BY Constants DEF AllBlock, Height
<1>2. Number[b] = Number[Parent[b]] + 1 /\ Anc[b][Number[b]] = b
  BY <1>1, BlockTreeAssumption DEF TreeAssumption, AncestorAssumption
<1>3. Parent[Anc[b][Number[b]]] = Anc[b][Number[b] - 1]
  BY <1>1, <1>2, BlockTreeAssumption DEF AncestorAssumption
<1>4. Anc[b][Number[Parent[b]]] = Parent[b] BY <1>1, <1>2, <1>3
<1>5. Anc[Parent[b]][Number[Parent[b]]] = Parent[b]
  BY <1>1, BlockTreeAssumption DEF AncestorAssumption
<1>6. ASSUME NEW n \in 0..Number[Parent[b]]
      PROVE  Anc[b][n] = Anc[Parent[b]][n]
  <2>1. Number[Parent[b]] \in 0..Number[b] /\ n \in 0..Number[Parent[b]]
    BY <1>1, <1>2
  <2> QED BY <1>1, <1>2, <1>4, <1>5, <2>1, PathsMeet
<1> QED BY <1>2, <1>6

(* The index of the path to h.                                              *)
IndexOf(h) == [n \in Height |-> IF n <= Number[h] THEN Anc[h][n] ELSE NoBlock]

(* Growing the head by a child extends the index by that child.             *)
LEMMA AddToHeadIndex ==
  ASSUME TypeOK, NEW b \in Block, Parent[b] = head, byNumber = IndexOf(head),
         byNumber' = [byNumber EXCEPT ![Number[b]] = b]
  PROVE  byNumber' = IndexOf(b)
<1>1. /\ Number[b] \in Height /\ Number[head] \in Nat /\ head \in AllBlock
      /\ Number[b] = Number[head] + 1 /\ Anc[b][Number[b]] = b
      /\ \A n \in 0..Number[head] : Anc[b][n] = Anc[head][n]
  <2>1. head \in AllBlock /\ b \in AllBlock BY DEF TypeOK, AllBlock
  <2>2. Number[b] \in Height /\ Number[head] \in Nat
    BY <2>1, Constants DEF Height
  <2> QED BY <2>1, <2>2, PathOfChild
<1>2. ASSUME NEW n \in Height PROVE byNumber'[n] = IndexOf(b)[n]
  <2>1. CASE n = Number[b] BY <1>1, <2>1 DEF IndexOf
  <2>2. CASE n # Number[b]
    <3>1. byNumber'[n] = IndexOf(head)[n] BY <2>2 DEF IndexOf
    <3>2. n \in Nat BY DEF Height
    <3>3. n <= Number[b] <=> n <= Number[head] BY <1>1, <2>2, <3>2
    <3> QED BY <1>1, <3>1, <3>2, <3>3 DEF IndexOf
  <2> QED BY <2>1, <2>2
<1>3. byNumber' = [n \in Height |-> byNumber'[n]] BY DEF IndexOf
<1> QED BY <1>2, <1>3 DEF IndexOf

(* Below the height the loop starts from, the index is on the path to b.    *)
LEMMA BelowFork ==
  ASSUME NEW b \in Block, head \in AllBlock, byNumber = IndexOf(head),
         NEW r \in Height, ReplaceFrom(b, r), NEW n \in 0..(r - 1)
  PROVE  byNumber[n] = Anc[b][n]
<1>1. /\ b \in AllBlock /\ Number[b] \in Nat /\ Number[head] \in Nat
      /\ MaxHeight \in Nat
      /\ Number[b] <= MaxHeight /\ NoBlock \notin AllBlock
  BY Constants DEF AllBlock, Height
<1>2. r \in 1..Number[b] /\ (r = 1 \/ byNumber[r] = Anc[b][r])
  BY DEF ReplaceFrom
<1>3. \A m \in 0..Number[b] : Anc[b][m] \in AllBlock
  BY <1>1, BlockTreeAssumption DEF AncestorAssumption
<1>4. CASE r = 1
  <2>1. n = 0 BY <1>4
  <2> QED BY <1>1, <2>1, BlockTreeAssumption DEF AncestorAssumption, IndexOf, Height
<1>5. CASE byNumber[r] = Anc[b][r]
  <2>1. byNumber[r] # NoBlock BY <1>1, <1>2, <1>3, <1>5
  <2>2. r <= Number[head] /\ byNumber[r] = Anc[head][r]
    BY <2>1 DEF IndexOf
  <2>3. n \in Height /\ n <= Number[head] /\ n \in 0..r /\ r \in 0..Number[head]
    BY <1>1, <1>2, <2>2 DEF Height
  <2>4. byNumber[n] = Anc[head][n] BY <2>3 DEF IndexOf
  <2>5. Anc[head][n] = Anc[b][n]
    <3>1. Anc[head][r] = Anc[b][r] BY <1>5, <2>2
    <3>2. r <= Number[b] BY <1>1, <1>2
    <3> QED BY <1>1, <2>3, <3>1, <3>2, PathsMeet
  <2> QED BY <2>4, <2>5
<1> QED BY <1>2, <1>4, <1>5

(* The rewriting loop turns the index of the old head into that of the new. *)
LEMMA ReorganizedIndex ==
  ASSUME NEW b \in Block, head \in AllBlock, byNumber = IndexOf(head),
         NEW r \in Height, ReplaceFrom(b, r),
         byNumber' = [n \in Height |-> IF n \in Rewritten(b, r)
                                       THEN ReindexedBlock(b, n)
                                       ELSE byNumber[n]]
  PROVE  byNumber' = IndexOf(b)
<1>1. /\ b \in AllBlock /\ Number[b] \in Nat /\ Number[head] \in Nat
      /\ MaxHeight \in Nat
      /\ Number[b] <= MaxHeight /\ NoBlock \notin AllBlock
  BY Constants DEF AllBlock, Height
<1>2. r \in 1..Number[b] /\ (r = 1 \/ byNumber[r] = Anc[b][r])
  BY DEF ReplaceFrom
<1>3. \A n \in 0..Number[b] : Anc[b][n] \in AllBlock
  BY <1>1, BlockTreeAssumption DEF AncestorAssumption
<1>4. \A n \in 0..(r - 1) : byNumber[n] = Anc[b][n]
  BY BelowFork
<1>5. ASSUME NEW n \in Height PROVE byNumber'[n] = IndexOf(b)[n]
  <2>0. n \in 0..MaxHeight BY DEF Height
  <2>1. CASE n < r
    <3>1. n \notin Rewritten(b, r) BY <1>2, <2>0, <2>1 DEF Rewritten
    <3>2. n \in 0..(r - 1) /\ n <= Number[b] BY <1>1, <1>2, <2>0, <2>1
    <3> QED BY <1>4, <3>1, <3>2 DEF IndexOf
  <2>2. CASE n >= r /\ n <= Number[b]
    <3>1. \A j \in r..n : j <= Number[b] BY <1>1, <1>2, <2>0, <2>2
    <3>2. n \in Rewritten(b, r) BY <1>2, <2>0, <2>2, <3>1 DEF Rewritten
    <3> QED BY <2>2, <3>2 DEF ReindexedBlock, IndexOf
  <2>3. CASE n > Number[b] /\ n \in Rewritten(b, r)
    <3>1. ~(n <= Number[b]) BY <1>1, <2>0, <2>3
    <3> QED BY <2>3, <3>1 DEF ReindexedBlock, IndexOf
  <2>4. CASE n > Number[b] /\ n \notin Rewritten(b, r)
    <3>1. PICK j \in r..n : ~(j <= Number[b]) /\ byNumber[j] = NoBlock
      BY <1>1, <1>2, <2>0, <2>4 DEF Rewritten
    <3>2. j \in Height BY <1>1, <1>2, <2>0, <3>1 DEF Height
    <3>3. \A m \in 0..Number[head] : Anc[head][m] \in AllBlock
      BY BlockTreeAssumption DEF AncestorAssumption
    <3>4. ~(j <= Number[head])
      BY <1>1, <1>2, <3>1, <3>2, <3>3 DEF IndexOf
    <3>5. ~(n <= Number[head]) /\ ~(n <= Number[b])
      BY <1>1, <1>2, <2>0, <2>4, <3>1, <3>4
    <3> QED BY <2>4, <3>5 DEF IndexOf
  <2> QED BY <1>1, <1>2, <2>0, <2>1, <2>2, <2>3, <2>4
<1> QED BY <1>5 DEF IndexOf

(* Every step that does not raise keeps the index the path to the head.     *)
LEMMA IndexInductive ==
  ASSUME IInv, CanonicalIndex, [Next]_vars
  PROVE  CanonicalIndex'
<1> SUFFICES ASSUME raised' = NoBlock PROVE byNumber' = IndexOf(head')
  BY DEF CanonicalIndex, IndexOf
<1>1. NoBlock \notin Block /\ TypeOK
  BY Constants DEF AllBlock, IInv
<1>2. CASE UNCHANGED <<byNumber, head, raised>>
  BY <1>2 DEF CanonicalIndex, IndexOf
<1>3. ASSUME NEW b \in Block, AddToHead(b) PROVE byNumber' = IndexOf(head')
  <2>1. /\ Parent[b] = head /\ head' = b /\ raised = NoBlock
        /\ byNumber' = [byNumber EXCEPT ![Number[b]] = b]
    BY <1>3 DEF AddToHead, OnHead, Finish
  <2>2. byNumber = IndexOf(head) BY <2>1 DEF CanonicalIndex, IndexOf
  <2> QED BY <1>1, <2>1, <2>2, AddToHeadIndex
<1>4. ASSUME NEW b \in Block, Reorganize(b) PROVE byNumber' = IndexOf(head')
  <2>1. head' = b /\ raised = NoBlock BY <1>4 DEF Reorganize, Finish
  <2>2. PICK r \in Height :
          /\ ReplaceFrom(b, r)
          /\ byNumber' = [n \in Height |-> IF n \in Rewritten(b, r)
                                           THEN ReindexedBlock(b, n)
                                           ELSE byNumber[n]]
    BY <1>4 DEF Reorganize
  <2>3. byNumber = IndexOf(head) BY <2>1 DEF CanonicalIndex, IndexOf
  <2>4. head \in AllBlock BY <1>1 DEF TypeOK
  <2> QED BY <2>1, <2>2, <2>3, <2>4, ReorganizedIndex
<1>5. ASSUME NEW b \in Block, AddBlock(b) PROVE byNumber' = IndexOf(head')
  <2>1. CASE \/ LayAsideEarly(b) \/ LayAsideOrphan(b)
             \/ RejectOnHead(b) \/ RejectOffHead(b) \/ AddOffHead(b)
    <3>1. UNCHANGED <<byNumber, head, raised>>
      BY <2>1 DEF LayAsideEarly, LayAsideOrphan, RejectOnHead, RejectOffHead,
                  AddOffHead, Finish, dbVars, historyVars
    <3> QED BY <3>1, <1>2
  <2>2. CASE RaiseNoState(b) \/ RaiseNoLog(b)
    BY <1>1, <2>2 DEF RaiseNoState, RaiseNoLog
  <2> QED BY <1>3, <1>4, <1>5, <2>1, <2>2 DEF AddBlock
<1>6. CASE \/ \E b \in Block : Receive(b)
           \/ \E t \in 0..MaxTime : Tick(t)
           \/ TickLoop
           \/ \E p \in AllBlock : Forget(p)
  <2>1. UNCHANGED <<byNumber, head, raised>>
    BY <1>6 DEF Receive, Tick, TickLoop, Forget, dbVars, historyVars
  <2> QED BY <2>1, <1>2
<1>7. CASE UNCHANGED vars
  BY <1>2, <1>7 DEF vars, dbVars, historyVars
<1> QED BY <1>5, <1>6, <1>7 DEF Next, Step

LEMMA InitCanonical == Init => CanonicalIndex
<1> SUFFICES ASSUME Init PROVE byNumber = IndexOf(head)
  BY DEF CanonicalIndex, IndexOf
<1>1. Genesis \in AllBlock /\ Number[Genesis] = 0 /\ Anc[Genesis][0] = Genesis
  BY BlockTreeAssumption DEF TreeAssumption, AncestorAssumption, AllBlock
<1>2. \A n \in Height : n <= 0 <=> n = 0 BY DEF Height
<1> QED BY <1>1, <1>2 DEF Init, IndexOf

(* Whatever was reorganised, laid aside or refused, and unless add_block    *)
(* raised, 'block:' is the path from Genesis to the head and nothing else.  *)
THEOREM IndexIsCanonical == Spec => []CanonicalIndex
<1>1. IInv /\ CanonicalIndex /\ [Next]_vars => CanonicalIndex'
  BY IndexInductive
<1> QED BY <1>1, InitCanonical, InitInductive, NextInductive, PTL DEF Spec

(* Transaction positions.  One that the rewriting leaves alone is below the  *)
(* fork, and one that it writes is on the path to the new head.             *)
PositionOn(h, t, at) == at # NoHeight => at <= Number[h] /\ t \in Txs[Anc[h][at]]

LEMMA AddToHeadPosition ==
  ASSUME TypeOK, NEW b \in Block, Parent[b] = head, NEW t \in Tx,
         PositionOn(head, t, txIndex[t])
  PROVE  PositionOn(b, t, IF t \in Txs[b] THEN Number[b] ELSE txIndex[t])
<1>1. head \in AllBlock /\ b \in AllBlock /\ txIndex[t] \in Height \cup {NoHeight}
  BY DEF TypeOK, AllBlock
<1>2. Number[b] \in Nat /\ Number[head] \in Nat
  BY <1>1, Constants DEF Height
<1>3. CASE t \in Txs[b]
  BY <1>2, <1>3, PathOfChild DEF PositionOn
<1>4. CASE t \notin Txs[b] /\ txIndex[t] # NoHeight
  <2>1. txIndex[t] \in 0..Number[head] /\ t \in Txs[Anc[head][txIndex[t]]]
    BY <1>1, <1>2, <1>4 DEF PositionOn, Height
  <2>2. Anc[b][txIndex[t]] = Anc[head][txIndex[t]] /\ Number[b] = Number[head] + 1
    BY <2>1, PathOfChild
  <2> QED BY <1>2, <1>4, <2>1, <2>2 DEF PositionOn
<1> QED BY <1>3, <1>4 DEF PositionOn

LEMMA ReorganizedPosition ==
  ASSUME TypeOK, NEW b \in Block, byNumber = IndexOf(head),
         NEW r \in Height, ReplaceFrom(b, r), NEW t \in Tx,
         PositionOn(head, t, txIndex[t])
  PROVE  PositionOn(b, t, ReindexedTx(b, t, Rewritten(b, r), Rewritten(b, r)))
<1> DEFINE at == Rewritten(b, r)
           del == {i \in at : byNumber[i] # NoBlock /\ t \in Txs[byNumber[i]]}
           put == {i \in at : i <= Number[b] /\ t \in Txs[Anc[b][i]]}
           last == {i \in put : \A j \in del \cup put : j <= i}
           old == txIndex[t]
<1>1. ReindexedTx(b, t, at, at) =
        IF last # {} THEN CHOOSE i \in last : TRUE
        ELSE IF del # {} THEN NoHeight ELSE old
  BY DEF ReindexedTx
<1>2. CASE last # {}
  <2>1. (CHOOSE i \in last : TRUE) \in put BY <1>2
  <2> HIDE DEF last
  <2> QED BY <1>1, <1>2, <2>1 DEF PositionOn
<1>3. CASE last = {} /\ del # {}
  BY <1>1, <1>3 DEF PositionOn
<1>4. CASE last = {} /\ del = {} /\ old # NoHeight
  <2>0. /\ head \in AllBlock /\ b \in AllBlock /\ NoBlock \notin AllBlock
        /\ old \in Height /\ r \in 1..Number[b]
    <3>1. old \in Height \cup {NoHeight} /\ head \in AllBlock BY DEF TypeOK
    <3>2. old \in Height BY <1>4, <3>1
    <3> HIDE DEF old
    <3> QED BY <3>1, <3>2, Constants DEF AllBlock, ReplaceFrom
  <2>1. /\ head \in AllBlock /\ old \in Height /\ NoBlock \notin AllBlock
        /\ Number[head] \in Nat /\ Number[b] \in Nat /\ MaxHeight \in Nat
        /\ r \in 1..Number[b]
    <3> HIDE DEF old
    <3> QED BY <2>0, Constants DEF Height
  <2>2. old \in 0..Number[head] /\ t \in Txs[Anc[head][old]]
    BY <1>4, <2>1 DEF PositionOn, Height
  <2>3. \A m \in 0..Number[head] : Anc[head][m] \in AllBlock
    BY <2>1, BlockTreeAssumption DEF AncestorAssumption
  <2>4. byNumber[old] = Anc[head][old] /\ byNumber[old] # NoBlock
    BY <2>1, <2>2, <2>3 DEF IndexOf
  <2>5. old \notin at
    BY <1>4, <2>2, <2>4
  <2>6. ASSUME old >= r PROVE FALSE
    <3>1. PICK j \in r..old : ~(j <= Number[b]) /\ byNumber[j] = NoBlock
      BY <2>1, <2>5, <2>6 DEF Rewritten, Height
    <3>2. j \in Height /\ j \in 0..Number[head]
      BY <2>1, <2>2, <3>1 DEF Height
    <3>3. byNumber[j] = Anc[head][j]
      BY <3>2 DEF IndexOf
    <3> QED BY <2>1, <2>3, <3>1, <3>2, <3>3
  <2>7. old \in 0..(r - 1) /\ old <= Number[b]
    BY <2>1, <2>2, <2>6
  <2>8. Anc[b][old] = Anc[head][old]
    BY <2>1, <2>4, <2>7, BelowFork
  <2> HIDE DEF last, del
  <2> QED BY <1>1, <1>4, <2>2, <2>7, <2>8 DEF PositionOn
<1> HIDE DEF last, del
<1> QED BY <1>1, <1>2, <1>3, <1>4 DEF PositionOn

LEMMA PositionsInductive ==
  ASSUME IInv, CanonicalIndex, TxIndexSound, [Next]_vars
  PROVE  TxIndexSound'
<1> SUFFICES ASSUME raised' = NoBlock, NEW t \in Tx
             PROVE  PositionOn(head', t, txIndex'[t])
  BY DEF TxIndexSound, PositionOn
<1>1. NoBlock \notin Block /\ TypeOK
  BY Constants DEF AllBlock, IInv
<1>2. raised = NoBlock => PositionOn(head, t, txIndex[t]) /\ byNumber = IndexOf(head)
  BY DEF TxIndexSound, PositionOn, CanonicalIndex, IndexOf
<1>3. CASE UNCHANGED <<txIndex, head, raised>>
  BY <1>2, <1>3
<1>4. ASSUME NEW b \in Block, AddToHead(b) PROVE PositionOn(head', t, txIndex'[t])
  <2>1. /\ Parent[b] = head /\ head' = b /\ raised = NoBlock
        /\ txIndex'[t] = IF t \in Txs[b] THEN Number[b] ELSE txIndex[t]
    BY <1>4 DEF AddToHead, OnHead, Finish
  <2> QED BY <1>1, <1>2, <2>1, AddToHeadPosition
<1>5. ASSUME NEW b \in Block, Reorganize(b) PROVE PositionOn(head', t, txIndex'[t])
  <2>1. head' = b /\ raised = NoBlock BY <1>5 DEF Reorganize, Finish
  <2>2. PICK r \in Height :
          /\ ReplaceFrom(b, r)
          /\ txIndex' = [u \in Tx |-> ReindexedTx(b, u, Rewritten(b, r),
                                                        Rewritten(b, r))]
    BY <1>5 DEF Reorganize
  <2> QED BY <1>1, <1>2, <2>1, <2>2, ReorganizedPosition
<1>6. ASSUME NEW b \in Block, AddBlock(b) PROVE PositionOn(head', t, txIndex'[t])
  <2>1. CASE \/ LayAsideEarly(b) \/ LayAsideOrphan(b)
             \/ RejectOnHead(b) \/ RejectOffHead(b) \/ AddOffHead(b)
    <3>1. UNCHANGED <<txIndex, head, raised>>
      BY <2>1 DEF LayAsideEarly, LayAsideOrphan, RejectOnHead, RejectOffHead,
                  AddOffHead, Finish, dbVars, historyVars
    <3> QED BY <3>1, <1>3
  <2>2. CASE RaiseNoState(b) \/ RaiseNoLog(b)
    BY <1>1, <2>2 DEF RaiseNoState, RaiseNoLog
  <2> QED BY <1>4, <1>5, <1>6, <2>1, <2>2 DEF AddBlock
<1>7. CASE \/ \E b \in Block : Receive(b)
           \/ \E u \in 0..MaxTime : Tick(u)
           \/ TickLoop
           \/ \E p \in AllBlock : Forget(p)
  <2>1. UNCHANGED <<txIndex, head, raised>>
    BY <1>7 DEF Receive, Tick, TickLoop, Forget, dbVars, historyVars
  <2> QED BY <2>1, <1>3
<1>8. CASE UNCHANGED vars
  BY <1>3, <1>8 DEF vars, dbVars, historyVars
<1> QED BY <1>6, <1>7, <1>8 DEF Next, Step

(* The deletions and insertions of the rewriting loop of add_block: whatever *)
(* was reorganised, a position under 'txindex:' is that of a block on the   *)
(* main chain that holds the transaction, unless add_block raised.          *)
THEOREM PositionsAreSound == Spec => []TxIndexSound
<1>1. Init => CanonicalIndex /\ TxIndexSound
  <2> SUFFICES ASSUME Init PROVE CanonicalIndex /\ TxIndexSound
    OBVIOUS
  <2>1. CanonicalIndex BY InitCanonical
  <2>2. TxIndexSound BY DEF Init, TxIndexSound
  <2> QED BY <2>1, <2>2
<1>2. IInv /\ CanonicalIndex /\ TxIndexSound /\ [Next]_vars
        => CanonicalIndex' /\ TxIndexSound'
  BY IndexInductive, PositionsInductive
<1> QED BY <1>1, <1>2, InitInductive, NextInductive, PTL DEF Spec

-------------------------------------------------------------------------------
(* The chain manager implements the abstract fork choice: storing a block   *)
(* is Accept, and every other step leaves accepted, tip and weight alone.   *)

(* Storing a new block below a stored parent is Accept of ForkChoice.        *)
LEMMA StoringIsAccepting ==
  ASSUME IInv, IInv', NEW b \in Block, b \notin store, Parent[b] \in store,
         store' = store \cup {b}, Scored(b),
         head' = IF score'[b] > score[head] THEN b ELSE head
  PROVE  Choice!Accept(b)
<1>1. /\ b \in AllBlock /\ Parent[b] \in AllBlock /\ head \in store
      /\ store \subseteq AllBlock
  BY Constants DEF AllBlock, IInv, TypeOK, HeadHeaviest
<1>2. /\ \A x \in AllBlock : x # b => score'[x] = score[x]
      /\ score'[b] >= score[Parent[b]] + Difficulty[b]
  BY ScoredFacts
<1>3. /\ StoredScore \in [AllBlock -> Nat \cup {Unscored}]
      /\ StoredScore' = [StoredScore EXCEPT ![b] = score'[b]]
  BY <1>1, <1>2 DEF StoredScore, IInv, TypeOK
<1>4. /\ StoredScore'[b] = score'[b] /\ StoredScore[Parent[b]] = score[Parent[b]]
      /\ StoredScore[head] = score[head]
  BY <1>1 DEF StoredScore
<1> QED BY <1>1, <1>2, <1>3, <1>4 DEF Choice!Accept

(* A block that is stored already changes nothing that ForkChoice sees.     *)
LEMMA StoringAgain ==
  ASSUME IInv, NEW b \in Block, b \in store, store' = store \cup {b}, Scored(b),
         head' = head
  PROVE  UNCHANGED <<store, head, StoredScore>>
<1>1. score[b] # Unscored BY DEF IInv, HeadHeaviest
<1> QED BY <1>1 DEF Scored, StoredScore

(* Every step of the Chain is a step of ForkChoice or a stutter.            *)
LEMMA StepRefines ==
  ASSUME IInv, IInv', [Next]_vars
  PROVE  [Choice!Next]_(Choice!choice)
<1> DEFINE Stutter == UNCHANGED <<store, head, StoredScore>>
<1>1. CASE UNCHANGED <<store, head, score>>
  BY <1>1 DEF StoredScore, Choice!choice
<1>2. ASSUME NEW b \in Block, AddToHead(b)
      PROVE  [Choice!Next]_(Choice!choice)
  <2>1. /\ Parent[b] \in store /\ store' = store \cup {b} /\ Scored(b) /\ head' = b
    BY <1>2 DEF AddToHead, OnHead, Finish, IInv, HeadHeaviest
  <2>2. score'[b] > score[head] BY <1>2, AddToHeadPreserves
  <2>3. b \notin store
    <3>1. SUFFICES ASSUME b \in store PROVE FALSE OBVIOUS
    <3>2. score[b] \in Nat /\ score[head] \in Nat /\ score[b] <= score[head]
      BY <3>1 DEF IInv, TypeOK, HeadHeaviest
    <3>3. score'[b] = score[b] BY <3>1, <3>2, <2>1 DEF Scored, Unscored
    <3> QED BY <2>2, <3>2, <3>3
  <2>4. Choice!Accept(b) BY <2>1, <2>2, <2>3, StoringIsAccepting
  <2> QED BY <2>4 DEF Choice!Next
<1>3. ASSUME NEW b \in Block, AddOffHead(b)
      PROVE  [Choice!Next]_(Choice!choice)
  <2>1. /\ Parent[b] \in store /\ store' = store \cup {b} /\ Scored(b)
        /\ head' = head /\ ~(score'[b] > score[head])
    BY <1>3 DEF AddOffHead, ExecutesOffHead, OffHead, Finish, Beats
  <2>2. CASE b \notin store
    BY <2>1, <2>2, StoringIsAccepting DEF Choice!Next
  <2>3. CASE b \in store
    BY <2>1, <2>3, StoringAgain DEF Choice!choice
  <2> QED BY <2>2, <2>3
<1>4. ASSUME NEW b \in Block, Reorganize(b)
      PROVE  [Choice!Next]_(Choice!choice)
  <2>1. /\ Parent[b] \in store /\ store' = store \cup {b} /\ Scored(b)
        /\ head' = b /\ score'[b] > score[head]
    BY <1>4 DEF Reorganize, ExecutesOffHead, OffHead, Finish, Beats
  <2>2. b \notin store
    <3>1. SUFFICES ASSUME b \in store PROVE FALSE OBVIOUS
    <3>2. score[b] \in Nat /\ score[head] \in Nat /\ score[b] <= score[head]
      BY <3>1 DEF IInv, TypeOK, HeadHeaviest
    <3>3. score'[b] = score[b] BY <3>1, <3>2, <2>1 DEF Scored, Unscored
    <3> QED BY <2>1, <3>2, <3>3
  <2> QED BY <2>1, <2>2, StoringIsAccepting DEF Choice!Next
<1>5. ASSUME NEW b \in Block, RaiseNoLog(b)
      PROVE  [Choice!Next]_(Choice!choice)
  <2>1. /\ Parent[b] \in store /\ UNCHANGED <<store, head>> /\ Scored(b)
    BY <1>5 DEF RaiseNoLog, ExecutesOffHead, OffHead
  <2>2. \A x \in AllBlock : x \in store => score'[x] = score[x]
    BY <2>1, ScoredFacts DEF IInv, HeadHeaviest
  <2>3. StoredScore' = StoredScore BY <2>1, <2>2 DEF StoredScore
  <2> QED BY <2>1, <2>3 DEF Choice!choice
<1>6. ASSUME NEW b \in Block, AddBlock(b)
      PROVE  [Choice!Next]_(Choice!choice)
  <2>1. CASE \/ LayAsideEarly(b) \/ LayAsideOrphan(b) \/ RejectOnHead(b)
             \/ RejectOffHead(b) \/ RaiseNoState(b)
    <3>1. UNCHANGED <<store, head, score>>
      BY <2>1 DEF LayAsideEarly, LayAsideOrphan, RejectOnHead, RejectOffHead,
                  RaiseNoState, dbVars
    <3> QED BY <3>1, <1>1
  <2> QED BY <1>2, <1>3, <1>4, <1>5, <1>6, <2>1 DEF AddBlock
<1>7. CASE \/ \E b \in Block : Receive(b)
           \/ \E t \in 0..MaxTime : Tick(t)
           \/ TickLoop
           \/ \E p \in AllBlock : Forget(p)
           \/ UNCHANGED vars
  <2>1. UNCHANGED <<store, head, score>>
    BY <1>7 DEF Receive, Tick, TickLoop, Forget, vars, dbVars
  <2> QED BY <2>1, <1>1
<1> QED BY <1>6, <1>7 DEF Next, Step

(* Whatever blocks are delivered, however early, late or often, and whatever *)
(* is laid aside, refused, pruned or reorganised, add_block keeps what       *)
(* ForkChoice promises of the head.                                          *)
THEOREM PowChainImplementsForkChoice == Spec => ImplementsForkChoice
<1>1. Init => Choice!Init
  <2> SUFFICES ASSUME Init PROVE Choice!Init
    OBVIOUS
  <2>1. StoredScore = [b \in AllBlock |-> IF b = Genesis THEN 0 ELSE -1]
    BY DEF Init, StoredScore, Unscored
  <2> QED
    BY <2>1 DEF Init, Choice!Init, Choice!Unweighed, AllBlock, Choice!AllBlock
<1>2. IInv /\ IInv' /\ [Next]_vars => [Choice!Next]_(Choice!choice)
  BY StepRefines
<1> QED BY <1>1, <1>2, InitInductive, NextInductive, PTL
        DEF Spec, ImplementsForkChoice, Choice!Spec

-------------------------------------------------------------------------------
(* What reference counting and delayed deletion keep.  A stored block counts *)
(* the nodes that it adds to its parent's state, a pruned one gives up the   *)
(* nodes that it took out; along a path the two add up to the nodes of the   *)
(* state at its end.  The theorems assume Fresh: a block that is stored is   *)
(* not handed to add_block again.  A block stored a second time would be     *)
(* pruned a second time too, and take the nodes that it replaced from the    *)
(* counts of the blocks that share them.                                     *)
Fresh == \A b \in Block : Calling(AddCall(b)) => b \notin store

(* The blocks of s that added n, and those of s without a log, which were   *)
(* pruned, that replaced it.                                                *)
AddedBy(b) == Nodes[b] \ Nodes[Parent[b]]
Adders(s, n) == {b \in s \ {Genesis} : n \in AddedBy(b)}
Removers(s, k, n) == {p \in (s \ {Genesis}) \ k : n \in ReplacedBy(p)}
One(n, A) == IF n \in A THEN 1 ELSE 0

(* The count of a node is at least what the stored blocks added to it, less *)
(* what the pruned ones took.                                               *)
CountedIn(rf, s, k) ==
  \A n \in Node : rf[n] + Cardinality(Removers(s, k, n))
                    >= One(n, Nodes[Genesis]) + Cardinality(Adders(s, n))

(* A block without a log is on the path to h, at a height that block c or   *)
(* another of s had pruned.                                                 *)
PassedBy(h, p) == Number[p] <= Number[h] /\ Anc[h][Number[p]] = p
DeepIn(s, n) == \E c \in s : n <= Number[c] - MaxHistory
PrunedIn(h, s, k) ==
  \A p \in (s \ {Genesis}) \ k : PassedBy(h, p) /\ DeepIn(s, Number[p])

(* After an exception that leaves the Chain no call is in progress.         *)
Stopped == raised # NoBlock => work = <<>>

CountInv ==
  /\ IInv /\ CanonicalIndex /\ Stopped
  /\ IsFiniteSet(store)
  /\ kept \subseteq store
  /\ CountedIn(refs, store, kept)
  /\ PrunedIn(head, store, kept)
-------------------------------------------------------------------------------
(* Counting.                                                                *)

LEMMA AddOne ==
  ASSUME NEW T, IsFiniteSet(T), NEW x, x \notin T, NEW n, NEW A,
         NEW U, U = IF n \in A THEN T \cup {x} ELSE T
  PROVE  /\ IsFiniteSet(U) /\ Cardinality(U) \in Nat
         /\ Cardinality(U) = Cardinality(T) + One(n, A)
<1>1. IsFiniteSet(T \cup {x}) /\ Cardinality(T \cup {x}) = Cardinality(T) + 1
  BY FS_AddElement, Zenon
<1>2. Cardinality(T) \in Nat
  BY FS_CardinalityType
<1> QED
  BY <1>1, <1>2 DEF One

(* A block that was not there adds its nodes.                               *)
LEMMA AddersOf ==
  ASSUME NEW s, IsFiniteSet(s), NEW b \in Block, b \notin s, NEW n
  PROVE  /\ IsFiniteSet(Adders(s, n)) /\ Cardinality(Adders(s, n)) \in Nat
         /\ IsFiniteSet(Adders(s \cup {b}, n))
         /\ Cardinality(Adders(s \cup {b}, n))
              = Cardinality(Adders(s, n)) + One(n, AddedBy(b))
<1>1. IsFiniteSet(Adders(s, n)) /\ Cardinality(Adders(s, n)) \in Nat
  <2>1. Adders(s, n) \in SUBSET s
    BY DEF Adders
  <2> QED
    BY <2>1, FS_Subset, FS_CardinalityType
<1>2. b # Genesis /\ b \notin Adders(s, n)
  BY Constants DEF Adders
<1>3. Adders(s \cup {b}, n) = IF n \in AddedBy(b) THEN Adders(s, n) \cup {b}
                                                  ELSE Adders(s, n)
  BY <1>2, Zenon DEF Adders
<1> QED
  BY <1>1, <1>2, <1>3, AddOne

(* A block whose log goes, or that comes without one, takes its nodes.      *)
LEMMA RemoversOf ==
  ASSUME NEW s0, NEW k0, NEW s, NEW k, NEW n, NEW b \in Block,
         IsFiniteSet(s), s0 \subseteq s,
         s \ k = (s0 \ k0) \cup {b}, b \notin s0 \ k0
  PROVE  /\ IsFiniteSet(Removers(s0, k0, n))
         /\ Cardinality(Removers(s0, k0, n)) \in Nat
         /\ IsFiniteSet(Removers(s, k, n))
         /\ Cardinality(Removers(s, k, n))
              = Cardinality(Removers(s0, k0, n)) + One(n, ReplacedBy(b))
<1>1. IsFiniteSet(Removers(s0, k0, n)) /\ Cardinality(Removers(s0, k0, n)) \in Nat
  <2>1. Removers(s0, k0, n) \in SUBSET s
    BY DEF Removers
  <2> QED
    BY <2>1, FS_Subset, FS_CardinalityType
<1>2. b # Genesis /\ b \notin Removers(s0, k0, n)
  BY Constants DEF Removers
<1>3. Removers(s, k, n) = IF n \in ReplacedBy(b) THEN Removers(s0, k0, n) \cup {b}
                                                 ELSE Removers(s0, k0, n)
  <2>1. \A p : p \in s \ k <=> p = b \/ p \in s0 \ k0
    OBVIOUS
  <2>2. \A p : p \in (s \ {Genesis}) \ k <=> p = b \/ p \in (s0 \ {Genesis}) \ k0
    BY <1>2, <2>1
  <2> QED
    BY <2>2, Zenon DEF Removers
<1> QED
  BY <1>1, <1>2, <1>3, AddOne

LEMMA LogRemoved ==
  ASSUME NEW s, NEW k, NEW n, NEW b \in Block, IsFiniteSet(s), b \in s, b \in k
  PROVE  /\ Cardinality(Removers(s, k, n)) \in Nat
         /\ Cardinality(Removers(s, k \ {b}, n))
              = Cardinality(Removers(s, k, n)) + One(n, ReplacedBy(b))
<1> DEFINE k1 == k \ {b}
<1>1. s \ k1 = (s \ k) \cup {b} /\ b \notin s \ k /\ s \subseteq s
  OBVIOUS
<1> HIDE DEF k1
<1>2. /\ Cardinality(Removers(s, k, n)) \in Nat
      /\ Cardinality(Removers(s, k1, n))
           = Cardinality(Removers(s, k, n)) + One(n, ReplacedBy(b))
  BY <1>1, RemoversOf
<1> QED
  BY <1>2 DEF k1
-------------------------------------------------------------------------------
(* Paths.                                                                   *)

PathTo(h, k) == {Anc[h][i] : i \in 1..k}

LEMMA PathFacts ==
  ASSUME NEW h \in AllBlock
  PROVE  /\ Number[h] \in Nat /\ Number[h] \in Height
         /\ Anc[h][0] = Genesis /\ Anc[h][Number[h]] = h
         /\ \A i \in 0..Number[h] : Anc[h][i] \in AllBlock /\ Number[Anc[h][i]] = i
         /\ \A i \in 1..Number[h] :
              Anc[h][i] \in Block /\ Parent[Anc[h][i]] = Anc[h][i - 1]
<1>1. Number[h] \in Height /\ Number[h] \in Nat
  BY Constants DEF Height
<1> QED
  BY <1>1, BlockTreeAssumption DEF AncestorAssumption

(* With every stored block its whole path is stored.                        *)
LEMMA PathStored ==
  ASSUME IInv, NEW h \in store
  PROVE  \A i \in 0..Number[h] : Anc[h][i] \in store
<1>1. h \in AllBlock /\ \A b \in store \ {Genesis} : Parent[b] \in store
  BY DEF IInv, TypeOK, StoredTree
<1> DEFINE N == Number[h]
           T == {k \in 0..N : Anc[h][N - k] \in store}
<1>2. N \in Nat /\ Anc[h][N] = h /\ Genesis \notin Block
      /\ \A i \in 1..N : Anc[h][i] \in Block /\ Parent[Anc[h][i]] = Anc[h][i - 1]
  BY <1>1, PathFacts, Constants
<1> HIDE DEF N
<1>3. 0 \in T
  BY <1>2
<1>4. ASSUME NEW k \in 1..N, k - 1 \in T PROVE k \in T
  <2>1. N - (k - 1) \in 1..N /\ (N - (k - 1)) - 1 = N - k /\ k \in 0..N
    BY <1>2
  <2>2. Anc[h][N - (k - 1)] \in store \ {Genesis}
    BY <1>2, <1>4, <2>1
  <2>3. Anc[h][N - k] \in store
    BY <1>1, <1>2, <2>1, <2>2
  <2> QED
    BY <2>1, <2>3
<1> HIDE DEF T
<1>5. \A k \in 0..N : k \in T
  BY <1>2, <1>3, <1>4, UpTo
<1>6. ASSUME NEW i \in 0..N PROVE Anc[h][i] \in store
  <2>1. N - i \in 0..N /\ N - (N - i) = i
    BY <1>2
  <2>2. N - i \in T
    BY <1>5, <2>1
  <2> QED
    BY <2>1, <2>2 DEF T
<1> QED
  BY <1>6 DEF N

(* Along a path what was added to a node and what was replaced add up to    *)
(* the node being in the state of its end.                                  *)
BalancedAt(h, n, k) ==
  /\ IsFiniteSet(PathTo(h, k))
  /\ Cardinality(Adders(PathTo(h, k), n)) \in Nat
  /\ Cardinality(Removers(PathTo(h, k), {}, n)) \in Nat
  /\ One(n, Nodes[Genesis]) + Cardinality(Adders(PathTo(h, k), n))
       = Cardinality(Removers(PathTo(h, k), {}, n)) + One(n, Nodes[Anc[h][k]])

LEMMA PathBalance ==
  ASSUME NEW h \in AllBlock, NEW n
  PROVE  BalancedAt(h, n, Number[h])
<1>1. /\ Number[h] \in Nat /\ Anc[h][0] = Genesis
      /\ \A i \in 0..Number[h] : Number[Anc[h][i]] = i
      /\ \A i \in 1..Number[h] :
           Anc[h][i] \in Block /\ Parent[Anc[h][i]] = Anc[h][i - 1]
  BY PathFacts
<1> DEFINE T == {k \in 0..Number[h] : BalancedAt(h, n, k)}
<1>2. 0 \in T
  <2>1. PathTo(h, 0) = {}
    BY DEF PathTo
  <2>2. Adders({}, n) = {} /\ Removers({}, {}, n) = {}
    BY DEF Adders, Removers
  <2>3. Cardinality({}) = 0 /\ IsFiniteSet({})
    BY FS_EmptySet
  <2>4. /\ IsFiniteSet(PathTo(h, 0))
        /\ Cardinality(Adders(PathTo(h, 0), n)) = 0
        /\ Cardinality(Removers(PathTo(h, 0), {}, n)) = 0
    BY <2>1, <2>2, <2>3
  <2>5. BalancedAt(h, n, 0)
    BY <1>1, <2>4 DEF BalancedAt, One
  <2> QED
    BY <1>1, <2>5
<1>3. ASSUME NEW k \in 1..Number[h], k - 1 \in T PROVE k \in T
  <2> DEFINE s == PathTo(h, k - 1)
             b == Anc[h][k]
             p == Anc[h][k - 1]
  <2>1. PathTo(h, k) = s \cup {b} /\ b \notin s /\ b \in Block /\ Parent[b] = p
    <3>1. \A i : i \in 1..k <=> i = k \/ i \in 1..k - 1
      BY <1>1
    <3>2. PathTo(h, k) = s \cup {b}
      BY <3>1, Zenon DEF PathTo
    <3>3. \A i \in 1..k - 1 : i \in 0..Number[h] /\ k \in 0..Number[h] /\ i # k
      BY <1>1
    <3>4. \A i \in 1..k - 1 : Anc[h][i] # Anc[h][k]
      BY <1>1, <3>3, Zenon
    <3>5. b \notin s
      BY <3>4 DEF PathTo
    <3> QED
      BY <1>1, <3>2, <3>5
  <2>2. BalancedAt(h, n, k - 1) /\ k \in 0..Number[h]
    BY <1>1, <1>3
  <2>3. IsFiniteSet(s) /\ IsFiniteSet(s \cup {b})
    BY <2>2, FS_AddElement DEF BalancedAt
  <2> DEFINE add == Cardinality(Adders(s, n))
             rem == Cardinality(Removers(s, {}, n))
             add1 == Cardinality(Adders(s \cup {b}, n))
             rem1 == Cardinality(Removers(s \cup {b}, {}, n))
  <2>4. add1 = add + One(n, AddedBy(b))
    BY <2>1, <2>3, AddersOf
  <2>5. rem1 = rem + One(n, ReplacedBy(b))
    <3> HIDE DEF s, b
    <3>1. /\ (s \cup {b}) \ {} = (s \ {}) \cup {b} /\ b \notin s \ {}
          /\ s \subseteq s \cup {b}
      BY <2>1
    <3> QED
      BY <2>1, <2>3, <3>1, RemoversOf
  <2>6. /\ add \in Nat /\ rem \in Nat
        /\ One(n, Nodes[Genesis]) + add = rem + One(n, Nodes[p])
    BY <2>2 DEF BalancedAt
  <2>7. /\ n \in AddedBy(b) <=> n \in Nodes[b] /\ n \notin Nodes[p]
        /\ n \in ReplacedBy(b) <=> n \in Nodes[p] /\ n \notin Nodes[b]
    BY <2>1 DEF AddedBy, ReplacedBy
  <2> HIDE DEF s, b, p
  <2>8. BalancedAt(h, n, k) <=>
          /\ IsFiniteSet(s \cup {b}) /\ add1 \in Nat /\ rem1 \in Nat
          /\ One(n, Nodes[Genesis]) + add1 = rem1 + One(n, Nodes[b])
    BY <2>1 DEF BalancedAt, b
  <2> HIDE DEF add, rem, add1, rem1
  <2>9. /\ add1 \in Nat /\ rem1 \in Nat
        /\ One(n, Nodes[Genesis]) + add1 = rem1 + One(n, Nodes[b])
    BY <2>4, <2>5, <2>6, <2>7 DEF One
  <2> QED
    BY <2>2, <2>3, <2>8, <2>9
<1> HIDE DEF T
<1>4. \A k \in 0..Number[h] : k \in T
  BY <1>1, <1>2, <1>3, UpTo
<1> QED
  BY <1>1, <1>4 DEF T

(* The count of a node on a path that passes by every pruned block: at      *)
(* least one if the node is in the state at its end, or if a block of the   *)
(* path replaced it that has a log still.                                   *)
LEMMA CountOnPath ==
  ASSUME CountInv, NEW h \in store, NEW n \in Node,
         \A p \in (store \ {Genesis}) \ kept : PassedBy(h, p),
         \/ n \in Nodes[h]
         \/ \E q \in kept : PassedBy(h, q) /\ n \in ReplacedBy(q)
  PROVE  refs[n] > 0
<1>1. /\ h \in AllBlock /\ store \subseteq AllBlock /\ kept \subseteq Block
      /\ kept \subseteq store /\ refs[n] \in Nat /\ IsFiniteSet(store) /\ IInv
      /\ Genesis \notin Block
  BY Constants DEF CountInv, IInv, TypeOK
<1>2. /\ Number[h] \in Nat /\ Anc[h][Number[h]] = h
      /\ \A i \in 1..Number[h] : Anc[h][i] \in Block
  BY <1>1, PathFacts
<1> DEFINE P == PathTo(h, Number[h])
           add == Cardinality(Adders(P, n))
           rem == Cardinality(Removers(P, {}, n))
           allAdd == Cardinality(Adders(store, n))
           allRem == Cardinality(Removers(store, kept, n))
<1>3. /\ IsFiniteSet(P) /\ add \in Nat /\ rem \in Nat
      /\ One(n, Nodes[Genesis]) + add = rem + One(n, Nodes[h])
  BY <1>1, <1>2, PathBalance DEF BalancedAt
<1>4. P \subseteq store
  <2>1. \A i \in 1..Number[h] : Anc[h][i] \in store
    BY <1>1, <1>2, PathStored
  <2> QED
    BY <2>1, Zenon DEF PathTo
<1>5. \A p \in Block : p \in store /\ PassedBy(h, p) => p \in P
  <2> SUFFICES ASSUME NEW p \in Block, p \in store, PassedBy(h, p) PROVE p \in P
    OBVIOUS
  <2>1. Number[p] \in Nat /\ Number[p] # 0
    <3>1. p \in AllBlock /\ Parent[p] \in AllBlock /\ Number \in [AllBlock -> Height]
      BY Constants, Zenon DEF AllBlock
    <3>2. Number[p] = Number[Parent[p]] + 1
      BY BlockTreeAssumption, Zenon DEF TreeAssumption
    <3> QED
      BY <3>1, <3>2 DEF Height
  <2>2. Number[p] \in 1..Number[h] /\ p = Anc[h][Number[p]]
    BY <1>2, <2>1 DEF PassedBy
  <2> QED
    BY <2>2 DEF PathTo
<1> HIDE DEF P
<1>6. allAdd \in Nat /\ add <= allAdd
  <2>1. Adders(store, n) \in SUBSET store /\ Adders(P, n) \in SUBSET Adders(store, n)
    BY <1>4 DEF Adders
  <2> QED
    BY <1>1, <2>1, FS_Subset, FS_CardinalityType
<1>7. /\ allRem \in Nat /\ allRem <= rem
      /\ (\E q \in kept : PassedBy(h, q) /\ n \in ReplacedBy(q)) => allRem < rem
  <2>1. Removers(store, kept, n) \subseteq Removers(P, {}, n)
    BY <1>1, <1>5 DEF Removers, AllBlock
  <2>2. IsFiniteSet(Removers(P, {}, n))
    <3>1. Removers(P, {}, n) \in SUBSET P
      BY DEF Removers
    <3> QED
      BY <1>3, <3>1, FS_Subset
  <2>3. /\ allRem \in Nat /\ allRem <= rem
        /\ (allRem = rem => Removers(store, kept, n) = Removers(P, {}, n))
    BY <2>1, <2>2, FS_Subset, FS_CardinalityType
  <2>4. ASSUME NEW q \in kept, PassedBy(h, q), n \in ReplacedBy(q)
        PROVE  allRem < rem
    <3>1. q \in P /\ q # Genesis
      BY <1>1, <1>5, <2>4
    <3>2. q \in Removers(P, {}, n) /\ q \notin Removers(store, kept, n)
      BY <2>4, <3>1 DEF Removers
    <3>3. allRem # rem
      BY <2>3, <3>2
    <3> HIDE DEF allRem, rem
    <3> QED
      BY <1>3, <2>3, <3>3
  <2> QED
    BY <2>3, <2>4
<1>8. refs[n] + allRem >= One(n, Nodes[Genesis]) + allAdd
  BY DEF CountInv, CountedIn
<1> HIDE DEF add, rem, allAdd, allRem
<1>9. One(n, Nodes[Genesis]) \in {0, 1} /\ One(n, Nodes[h]) \in {0, 1}
      /\ (n \in Nodes[h] => One(n, Nodes[h]) = 1)
  BY DEF One
<1> DEFINE g == One(n, Nodes[Genesis])
           e == One(n, Nodes[h])
<1>10. g + add = rem + e /\ refs[n] + allRem >= g + allAdd
       /\ g \in {0, 1} /\ e \in {0, 1} /\ (n \in Nodes[h] => e = 1)
  BY <1>3, <1>8, <1>9
<1> HIDE DEF g, e
<1>11. CASE n \in Nodes[h]
  <2>1. e = 1
    BY <1>10, <1>11
  <2>2. allRem <= rem
    BY <1>7
  <2>3. refs[n] \in Nat /\ add \in Nat /\ rem \in Nat /\ allAdd \in Nat
        /\ allRem \in Nat /\ add <= allAdd
    BY <1>1, <1>3, <1>6, <1>7
  <2> QED
    BY <1>10, <2>1, <2>2, <2>3
<1>12. CASE \E q \in kept : PassedBy(h, q) /\ n \in ReplacedBy(q)
  <2>1. allRem < rem
    BY <1>7, <1>12, Zenon
  <2>2. refs[n] \in Nat /\ add \in Nat /\ rem \in Nat /\ allAdd \in Nat
        /\ allRem \in Nat /\ add <= allAdd
    BY <1>1, <1>3, <1>6, <1>7
  <2> QED
    BY <1>10, <2>1, <2>2
<1> QED
  BY <1>11, <1>12
-------------------------------------------------------------------------------
(* The steps.                                                               *)

(* Storing a block with the nodes that it adds, and pruning a canonical one.*)
LEMMA FinishCounts ==
  ASSUME CountInv, NEW b \in Block, b \notin store,
         NEW rf \in [Node -> Nat],
         \A n \in Node : rf[n] >= refs[n] + One(n, AddedBy(b)),
         Finish(b, rf), head' \in AllBlock, byNumber' = IndexOf(head'),
         \A p \in (store \ {Genesis}) \ kept : PassedBy(head', p)
  PROVE  /\ IsFiniteSet(store') /\ kept' \subseteq store'
         /\ CountedIn(refs', store', kept')
         /\ PrunedIn(head', store', kept')
<1> DEFINE n0 == PruneHeight(b)
           old == IF n0 >= 0 THEN byNumber'[n0] ELSE NoBlock
           logs == kept \cup {b}
           s == store \cup {b}
           prunes == old \in logs /\ Has(rf, ReplacedBy(old))
<1>1. /\ store' = s
      /\ refs' = IF prunes THEN Drop(rf, ReplacedBy(old)) ELSE rf
      /\ kept' = IF prunes THEN logs \ {old} ELSE logs
  BY DEF Finish
<1>2. /\ kept \subseteq Block /\ kept \subseteq store /\ IsFiniteSet(store)
      /\ refs \in [Node -> Nat] /\ Genesis \notin Block /\ NoBlock \notin AllBlock
      /\ Number[b] \in Nat /\ MaxHistory \in Nat /\ MaxHeight \in Nat
      /\ Number[b] <= MaxHeight /\ store \subseteq AllBlock
  <2>1. /\ Genesis \notin Block /\ NoBlock \notin AllBlock
        /\ MaxHistory \in Nat /\ MaxHeight \in Nat /\ Number[b] \in 0..MaxHeight
    BY Constants DEF AllBlock, Height
  <2>2. /\ kept \subseteq Block /\ kept \subseteq store /\ IsFiniteSet(store)
        /\ refs \in [Node -> Nat] /\ store \subseteq AllBlock
    BY DEF CountInv, IInv, TypeOK
  <2> QED
    BY <2>1, <2>2
<1>3. IsFiniteSet(s)
  BY <1>2, FS_AddElement
<1>4. s \ logs = store \ kept /\ store \subseteq s
  BY <1>2
<1>5. \A n : Removers(s, logs, n) = Removers(store, kept, n)
  BY <1>4, Zenon DEF Removers
<1>6. CountedIn(rf, s, logs)
  <2>1. ASSUME NEW n \in Node
        PROVE  rf[n] + Cardinality(Removers(s, logs, n))
                 >= One(n, Nodes[Genesis]) + Cardinality(Adders(s, n))
    <3> DEFINE rem == Cardinality(Removers(store, kept, n))
               add == Cardinality(Adders(store, n))
               add1 == Cardinality(Adders(s, n))
    <3>1. rem \in Nat
      <4>1. Removers(store, kept, n) \in SUBSET store
        BY DEF Removers
      <4> QED
        BY <1>2, <4>1, FS_Subset, FS_CardinalityType
    <3>2. add \in Nat /\ add1 = add + One(n, AddedBy(b))
      BY <1>2, AddersOf
    <3>3. refs[n] + rem >= One(n, Nodes[Genesis]) + add
      BY DEF CountInv, CountedIn
    <3>4. Cardinality(Removers(s, logs, n)) = rem
      BY <1>5
    <3>5. /\ One(n, Nodes[Genesis]) \in Nat /\ One(n, AddedBy(b)) \in Nat
          /\ refs[n] \in Nat /\ rf[n] \in Nat
          /\ rf[n] >= refs[n] + One(n, AddedBy(b))
      BY <1>2 DEF One
    <3> HIDE DEF rem, add, add1, s, logs
    <3>6. rf[n] + rem >= One(n, Nodes[Genesis]) + add1
      BY <3>1, <3>2, <3>3, <3>5
    <3> QED
      BY <3>4, <3>6 DEF add1
  <2> QED
    BY <2>1 DEF CountedIn
<1>7. ASSUME NEW p \in (s \ {Genesis}) \ logs
      PROVE  PassedBy(head', p) /\ DeepIn(s, Number[p])
  <2>1. p \in (store \ {Genesis}) \ kept
    BY <1>4
  <2> QED
    BY <1>4, <2>1 DEF CountInv, PrunedIn, DeepIn
<1>8. CASE ~prunes
  BY <1>1, <1>2, <1>3, <1>6, <1>7, <1>8 DEF PrunedIn
<1>9. CASE prunes
  <2>1. /\ old \in Block /\ old # NoBlock /\ old # Genesis
        /\ n0 >= 0 /\ n0 \in Height /\ old = IndexOf(head')[n0]
    <3>1. old \in Block /\ old # NoBlock /\ old # Genesis
      BY <1>2, <1>9 DEF AllBlock
    <3>2. n0 >= 0 /\ old = byNumber'[n0]
      BY <3>1
    <3>3. n0 \in Height
      BY <1>2, <3>2 DEF PruneHeight, Height
    <3> QED
      BY <3>1, <3>2, <3>3
  <2>2. n0 <= Number[head'] /\ old = Anc[head'][n0]
    BY <2>1 DEF IndexOf
  <2>3. Number[old] = n0
    <3>1. n0 \in 0..Number[head']
      BY <2>1, <2>2, PathFacts DEF Height
    <3> QED
      BY <2>2, <3>1, PathFacts
  <2>4. PassedBy(head', old) /\ DeepIn(s, Number[old])
    <3>1. b \in s /\ n0 <= Number[b] - MaxHistory
      BY <1>2 DEF PruneHeight
    <3> HIDE DEF old, n0, s
    <3> QED
      BY <2>2, <2>3, <3>1 DEF PassedBy, DeepIn
  <2> HIDE DEF old, n0
  <2>5. old \in logs /\ old \in s /\ Has(rf, ReplacedBy(old))
    BY <1>2, <1>9
  <2>6. PrunedIn(head', s, logs \ {old})
    BY <1>7, <2>4 DEF PrunedIn
  <2>7. CountedIn(Drop(rf, ReplacedBy(old)), s, logs \ {old})
    <3>1. ASSUME NEW n \in Node
          PROVE  Drop(rf, ReplacedBy(old))[n] + Cardinality(Removers(s, logs \ {old}, n))
                   >= One(n, Nodes[Genesis]) + Cardinality(Adders(s, n))
      <4> DEFINE rem == Cardinality(Removers(s, logs, n))
                 rem1 == Cardinality(Removers(s, logs \ {old}, n))
                 need == One(n, Nodes[Genesis]) + Cardinality(Adders(s, n))
      <4>1. rem \in Nat /\ rem1 = rem + One(n, ReplacedBy(old))
        <5>1. old \in Block /\ old \in s /\ old \in logs /\ IsFiniteSet(s)
          BY <1>3, <2>1, <2>5
        <5> HIDE DEF s, logs
        <5>2. \A x \in Block : x \in s /\ x \in logs =>
                /\ Cardinality(Removers(s, logs, n)) \in Nat
                /\ Cardinality(Removers(s, logs \ {x}, n))
                     = Cardinality(Removers(s, logs, n)) + One(n, ReplacedBy(x))
          BY <5>1, LogRemoved
        <5> QED
          BY <5>1, <5>2, Zenon
      <4>2. rf[n] + rem >= need /\ need \in Int
        <5>1. Cardinality(Adders(s, n)) \in Nat /\ One(n, Nodes[Genesis]) \in Nat
          <6>1. Adders(s, n) \in SUBSET s
            BY DEF Adders
          <6> QED
            BY <1>3, <6>1, FS_Subset, FS_CardinalityType DEF One
        <5>2. rf[n] + rem >= need
          BY <1>6, Zenon DEF CountedIn
        <5> QED
          BY <5>1, <5>2
      <4>3. Drop(rf, ReplacedBy(old))[n] = rf[n] - One(n, ReplacedBy(old))
        BY DEF Drop, One
      <4>4. rf[n] \in Nat /\ One(n, ReplacedBy(old)) \in Nat
        BY DEF One
      <4> HIDE DEF rem, rem1, need, s, logs
      <4>5. Drop(rf, ReplacedBy(old))[n] + rem1 >= need
        BY <4>1, <4>2, <4>3, <4>4
      <4> QED
        BY <4>5 DEF rem1, need
    <3> QED
      BY <3>1 DEF CountedIn
  <2>8. logs \ {old} \subseteq s
    BY <1>2
  <2> HIDE DEF logs, s
  <2>9. store' = s /\ kept' = logs \ {old} /\ refs' = Drop(rf, ReplacedBy(old))
    BY <1>1, <1>9
  <2> QED
    BY <1>3, <2>6, <2>7, <2>8, <2>9
<1> QED
  BY <1>8, <1>9

(* Opening a state and executing a block add to the counts.                 *)
LEMMA ExecutedCounts ==
  ASSUME TypeOK, NEW b \in Block
  PROVE  /\ \A n \in Node : Opened(b)[n] >= refs[n]
         /\ \A n \in Node : Executed(b, refs)[n] >= refs[n] + One(n, AddedBy(b))
         /\ \A n \in Node :
              Executed(b, Opened(b))[n] >= refs[n] + One(n, AddedBy(b))
<1>1. refs \in [Node -> Nat] /\ Opened(b) \in [Node -> Nat]
  BY ExecutedType DEF TypeOK
<1>2. \A n \in Node : Opened(b)[n] >= refs[n]
  BY <1>1 DEF Opened, Put
<1>3. ASSUME NEW rf \in [Node -> Nat], NEW n \in Node
      PROVE  Executed(b, rf)[n] = rf[n] + One(n, AddedBy(b))
  BY DEF Executed, Put, One, AddedBy
<1>4. \A n \in Node : One(n, AddedBy(b)) \in Nat
  BY DEF One
<1> QED
  BY <1>1, <1>2, <1>3, <1>4

(* A step that stores and prunes nothing and takes nothing from the counts. *)
LEMMA NothingPruned ==
  ASSUME CountInv, UNCHANGED <<store, kept, head>>,
         refs' \in [Node -> Nat], \A n \in Node : refs'[n] >= refs[n]
  PROVE  /\ IsFiniteSet(store') /\ kept' \subseteq store'
         /\ CountedIn(refs', store', kept')
         /\ PrunedIn(head', store', kept')
<1>1. ASSUME NEW n \in Node
      PROVE  refs'[n] + Cardinality(Removers(store, kept, n))
               >= One(n, Nodes[Genesis]) + Cardinality(Adders(store, n))
  <2> DEFINE rem == Cardinality(Removers(store, kept, n))
             add == Cardinality(Adders(store, n))
  <2>1. rem \in Nat /\ add \in Nat
    <3>1. Removers(store, kept, n) \in SUBSET store /\ Adders(store, n) \in SUBSET store
      BY DEF Removers, Adders
    <3> QED
      BY <3>1, FS_Subset, FS_CardinalityType DEF CountInv
  <2>2. refs[n] + rem >= One(n, Nodes[Genesis]) + add
    BY DEF CountInv, CountedIn
  <2>3. /\ refs[n] \in Nat /\ refs'[n] \in Nat /\ refs'[n] >= refs[n]
        /\ One(n, Nodes[Genesis]) \in Nat
    BY DEF CountInv, IInv, TypeOK, One
  <2> HIDE DEF rem, add
  <2>4. refs'[n] + rem >= One(n, Nodes[Genesis]) + add
    BY <2>1, <2>2, <2>3
  <2> QED
    BY <2>4 DEF rem, add
<1> QED
  BY <1>1 DEF CountInv, CountedIn, PrunedIn

(* What the counting needs to know of a step beside what is proved of every *)
(* step already.                                                            *)
Kept(s, k, rf, h) ==
  IsFiniteSet(s) /\ k \subseteq s /\ CountedIn(rf, s, k) /\ PrunedIn(h, s, k)

(* The path to a child goes where the path to its parent goes.              *)
LEMMA PassedByChild ==
  ASSUME NEW b \in Block, NEW p \in AllBlock, PassedBy(Parent[b], p)
  PROVE  PassedBy(b, p)
<1>1. /\ Number[p] \in Nat /\ Number[Parent[b]] \in Nat
      /\ Number[b] = Number[Parent[b]] + 1
      /\ \A n \in 0..Number[Parent[b]] : Anc[b][n] = Anc[Parent[b]][n]
  <2>1. Number[p] \in Nat /\ Number[Parent[b]] \in Nat
    BY Constants DEF Height
  <2> QED
    BY <2>1, PathOfChild
<1>2. Number[p] \in 0..Number[Parent[b]] /\ Number[p] <= Number[b]
  BY <1>1 DEF PassedBy
<1> QED
  BY <1>1, <1>2 DEF PassedBy

LEMMA StoringCounts ==
  ASSUME CountInv, Fresh, IInv', CanonicalIndex', NEW b \in Block,
         AddToHead(b) \/ AddOffHead(b) \/ Reorganize(b)
  PROVE  Kept(store', kept', refs', head') /\ raised' = NoBlock
<1>1. TypeOK /\ head' \in AllBlock
  BY DEF CountInv, IInv, TypeOK
<1>2. Calling(AddCall(b)) /\ raised = NoBlock /\ raised' = raised /\ b \notin store
  <2>1. Calling(AddCall(b)) /\ raised' = raised
    BY DEF AddToHead, AddOffHead, Reorganize, ExecutesOffHead, Finish
  <2>2. raised = NoBlock
    BY <2>1 DEF Calling, CountInv, Stopped
  <2> QED
    BY <2>1, <2>2 DEF Fresh
<1>3. byNumber = IndexOf(head) /\ byNumber' = IndexOf(head')
  BY <1>2 DEF CountInv, CanonicalIndex, IndexOf
<1>4. \A p \in (store \ {Genesis}) \ kept : PassedBy(head, p) /\ p \in AllBlock
  BY <1>1 DEF CountInv, PrunedIn, TypeOK
<1>5. /\ Executed(b, refs) \in [Node -> Nat]
      /\ Executed(b, Opened(b)) \in [Node -> Nat]
      /\ \A n \in Node : Executed(b, refs)[n] >= refs[n] + One(n, AddedBy(b))
      /\ \A n \in Node : Executed(b, Opened(b))[n] >= refs[n] + One(n, AddedBy(b))
  BY <1>1, ExecutedType, ExecutedCounts
<1>6. CASE AddToHead(b)
  <2>1. head' = b /\ Parent[b] = head /\ Finish(b, Executed(b, refs))
    BY <1>6 DEF AddToHead, OnHead
  <2>2. \A p \in (store \ {Genesis}) \ kept : PassedBy(head', p)
    BY <1>4, <2>1, PassedByChild
  <2> QED
    BY <1>1, <1>2, <1>3, <1>5, <2>1, <2>2, FinishCounts DEF Kept
<1>7. CASE AddOffHead(b)
  <2>1. head' = head /\ Finish(b, Executed(b, Opened(b)))
    BY <1>7 DEF AddOffHead
  <2>2. \A p \in (store \ {Genesis}) \ kept : PassedBy(head', p)
    BY <1>4, <2>1
  <2> QED
    BY <1>1, <1>2, <1>3, <1>5, <2>1, <2>2, FinishCounts DEF Kept
<1>8. CASE Reorganize(b)
  <2>1. head' = b /\ Finish(b, Executed(b, Opened(b)))
    BY <1>8 DEF Reorganize
  <2>2. PICK r \in Height :
          /\ Unlogged(b, r) = {}
          /\ byNumber' = [n \in Height |-> IF n \in Rewritten(b, r)
                                           THEN ReindexedBlock(b, n)
                                           ELSE byNumber[n]]
    BY <1>8 DEF Reorganize
  <2>3. ASSUME NEW p \in (store \ {Genesis}) \ kept PROVE PassedBy(head', p)
    <3>1. /\ PassedBy(head, p) /\ p \in AllBlock /\ p # NoBlock
          /\ Number[p] \in Height
      BY <1>4, Constants
    <3>2. byNumber[Number[p]] = p
      BY <1>3, <3>1 DEF PassedBy, IndexOf
    <3>3. Number[p] \notin Rewritten(b, r)
      <4>1. Number[p] \in Rewritten(b, r) => Number[p] \in Unlogged(b, r)
        BY <3>1, <3>2 DEF Unlogged
      <4> QED
        BY <2>2, <4>1
    <3>4. IndexOf(head')[Number[p]] = p
      BY <1>3, <2>2, <3>1, <3>2, <3>3
    <3> QED
      BY <3>1, <3>4 DEF IndexOf, PassedBy
  <2> QED
    BY <1>1, <1>2, <1>3, <1>5, <2>1, <2>3, FinishCounts DEF Kept
<1> QED
  BY <1>6, <1>7, <1>8

LEMMA KeptAlone ==
  ASSUME CountInv, UNCHANGED <<store, kept, head>>,
         refs' \in [Node -> Nat], \A n \in Node : refs'[n] >= refs[n]
  PROVE  Kept(store', kept', refs', head')
BY NothingPruned DEF Kept

LEMMA CountInductive ==
  ASSUME CountInv, Fresh, [Next]_vars
  PROVE  CountInv'
<1>1. IInv' /\ CanonicalIndex'
  BY NextInductive, IndexInductive DEF CountInv
<1>2. TypeOK /\ refs' \in [Node -> Nat]
  BY <1>1 DEF CountInv, IInv, TypeOK
<1> SUFFICES Kept(store', kept', refs', head') /\ Stopped'
  BY <1>1 DEF CountInv, Kept
<1>3. CASE UNCHANGED <<store, kept, head, refs, raised, work>>
  <2>1. refs' \in [Node -> Nat] /\ \A n \in Node : refs'[n] >= refs[n]
    BY <1>2, <1>3 DEF TypeOK
  <2>2. Kept(store', kept', refs', head')
    BY <1>3, <2>1, KeptAlone
  <2> QED
    BY <1>3, <2>2 DEF CountInv, Stopped
<1>4. CASE \/ \E b \in Block : Receive(b)
           \/ \E t \in 0..MaxTime : Tick(t)
           \/ TickLoop
           \/ \E p \in AllBlock : Forget(p)
  <2>1. UNCHANGED <<store, kept, head, refs, raised>> /\ raised = NoBlock
    <3>1. UNCHANGED <<store, kept, head, refs, raised>>
      BY <1>4 DEF Receive, Tick, TickLoop, Forget, dbVars, historyVars
    <3>2. raised = NoBlock
      BY <1>4 DEF Receive, Tick, Idle, TickLoop, Forget, Calling, CountInv, Stopped
    <3> QED
      BY <3>1, <3>2
  <2>2. \A n \in Node : refs'[n] >= refs[n]
    BY <1>2, <2>1 DEF TypeOK
  <2>3. Kept(store', kept', refs', head')
    BY <1>2, <2>1, <2>2, KeptAlone
  <2> QED
    BY <2>1, <2>3 DEF Stopped
<1>5. ASSUME NEW b \in Block, AddBlock(b)
      PROVE  Kept(store', kept', refs', head') /\ Stopped'
  <2>1. CASE AddToHead(b) \/ AddOffHead(b) \/ Reorganize(b)
    BY <1>1, <2>1, StoringCounts DEF Stopped
  <2>2. CASE \/ LayAsideEarly(b) \/ LayAsideOrphan(b)
             \/ RejectOnHead(b) \/ RejectOffHead(b)
    <3>1. /\ UNCHANGED <<store, kept, head, raised>> /\ work # <<>>
          /\ refs' = refs \/ refs' = Opened(b)
      BY <2>2 DEF LayAsideEarly, LayAsideOrphan, RejectOnHead, RejectOffHead,
                  Calling, dbVars, historyVars
    <3>2. \A n \in Node : refs'[n] >= refs[n]
      BY <1>2, <3>1, ExecutedCounts DEF TypeOK
    <3>3. Kept(store', kept', refs', head')
      BY <1>2, <3>1, <3>2, KeptAlone
    <3>4. raised' = NoBlock
      BY <3>1 DEF CountInv, Stopped
    <3> QED
      BY <3>3, <3>4 DEF Stopped
  <2>3. CASE RaiseNoState(b) \/ RaiseNoLog(b)
    <3>1. /\ UNCHANGED <<store, kept, head>> /\ work' = <<>>
          /\ refs' = refs \/ refs' = Executed(b, Opened(b))
      BY <2>3 DEF RaiseNoState, RaiseNoLog, dbVars
    <3>2. \A n \in Node : refs'[n] >= refs[n]
      <4>1. \A n \in Node : One(n, AddedBy(b)) \in Nat
        BY DEF One
      <4>2. Executed(b, Opened(b)) \in [Node -> Nat] /\ refs \in [Node -> Nat]
        BY <1>2, ExecutedType DEF TypeOK
      <4> QED
        BY <1>2, <3>1, <4>1, <4>2, ExecutedCounts
    <3>3. Kept(store', kept', refs', head')
      BY <1>2, <3>1, <3>2, KeptAlone
    <3> QED
      BY <3>1, <3>3 DEF Stopped
  <2> QED
    BY <1>5, <2>1, <2>2, <2>3 DEF AddBlock
<1>6. CASE UNCHANGED vars
  BY <1>3, <1>6 DEF vars, dbVars, historyVars
<1> QED
  BY <1>4, <1>5, <1>6 DEF Next, Step

LEMMA InitCounts == Init => CountInv
<1> SUFFICES ASSUME Init PROVE CountInv
  OBVIOUS
<1>1. IInv /\ CanonicalIndex
  BY InitInductive, InitCanonical
<1>2. IsFiniteSet(store) /\ kept \subseteq store /\ Stopped
  BY FS_Singleton DEF Init, Stopped
<1>3. CountedIn(refs, store, kept)
  <2>1. \A n : Adders(store, n) = {} /\ Removers(store, kept, n) = {}
    BY DEF Init, Adders, Removers
  <2>2. Cardinality({}) = 0
    BY FS_EmptySet
  <2>3. \A n \in Node : refs[n] = One(n, Nodes[Genesis]) /\ refs[n] \in Nat
    BY DEF Init, One
  <2> QED
    BY <2>1, <2>2, <2>3 DEF CountedIn
<1>4. PrunedIn(head, store, kept)
  BY DEF Init, PrunedIn
<1> QED
  BY <1>1, <1>2, <1>3, <1>4 DEF CountInv
-------------------------------------------------------------------------------
(* What the counts are for.                                                 *)

LEMMA CountAlways == Spec /\ []Fresh => []CountInv
BY InitCounts, CountInductive, PTL DEF Spec

(* The pruned blocks are all on the path to a block that leaves the main    *)
(* chain above the heights that may have been pruned.                       *)
LEMMA Undisturbed ==
  ASSUME CountInv, NEW b \in store,
         \A n \in 1..Number[head] :
           Deep(n) => n <= Number[b] /\ Anc[b][n] = Anc[head][n]
  PROVE  \A n \in Nodes[b] : refs[n] > 0
<1>1. /\ b \in AllBlock /\ store \subseteq AllBlock /\ Nodes[b] \subseteq Node
      /\ head \in AllBlock /\ Genesis \notin Block
  <2>1. store \subseteq AllBlock /\ head \in AllBlock
    BY DEF CountInv, IInv, TypeOK
  <2> QED
    BY <2>1, Constants
<1>2. ASSUME NEW p \in (store \ {Genesis}) \ kept PROVE PassedBy(b, p)
  <2>1. /\ PassedBy(head, p) /\ Deep(Number[p]) /\ p \in Block
    BY <1>1 DEF CountInv, PrunedIn, DeepIn, Deep, AllBlock
  <2>2. Number[p] \in Nat /\ Number[p] # 0 /\ Number[head] \in Nat
    BY <1>1, <2>1, Constants, BlockTreeAssumption
       DEF TreeAssumption, AllBlock, Height
  <2>3. Number[p] \in 1..Number[head]
    BY <2>1, <2>2 DEF PassedBy
  <2> QED
    BY <2>1, <2>3 DEF PassedBy
<1> QED
  BY <1>1, <1>2, CountOnPath

(* However blocks arrive, fork and reorganise, the state of every stored    *)
(* block that leaves the main chain above what may have been pruned is in   *)
(* the database with all its nodes, those that it shares with other         *)
(* branches included.                                                       *)
THEOREM StatesAreRetained == Spec /\ []Fresh => []RetainedStates
<1>1. CountInv => RetainedStates
  BY Undisturbed DEF RetainedStates, Has
<1> QED
  BY <1>1, CountAlways, PTL

(* The state of the head is in the database: only what blocks of its own    *)
(* path replaced was ever taken away.                                       *)
THEOREM HeadStateIsRetained == Spec /\ []Fresh => []HeadStateRetained
<1>1. ASSUME CountInv PROVE HeadStateRetained
  <2>1. head \in store /\ Number[head] \in Nat
    BY <1>1, Constants DEF CountInv, IInv, HeadHeaviest, TypeOK, Height
  <2>2. \A n \in 1..Number[head] : n <= Number[head]
    BY <2>1
  <2>3. \A n \in Nodes[head] : refs[n] > 0
    BY <1>1, <2>1, <2>2, Undisturbed
  <2> QED
    BY <2>3 DEF HeadStateRetained, Has
<1> QED
  BY <1>1, CountAlways, PTL

(* If no block is stored twice, the pruning loop finds every node that a    *)
(* canonical block replaced, so none of them raises the KeyError that it    *)
(* swallows.                                                                *)
THEOREM PruningIsSafe == Spec /\ []Fresh => []PruneSafe
<1>1. ASSUME CountInv, raised = NoBlock,
             NEW n0 \in Height, byNumber[n0] \in kept,
             NEW n \in ReplacedBy(byNumber[n0])
      PROVE  refs[n] > 0
  <2> DEFINE q == byNumber[n0]
  <2>1. /\ head \in store /\ head \in AllBlock /\ kept \subseteq Block
        /\ NoBlock \notin Block /\ q \in Block
    BY <1>1, Constants DEF CountInv, IInv, HeadHeaviest, TypeOK, AllBlock
  <2>2. n \in Node
    BY <1>1, <2>1, Constants DEF ReplacedBy
  <2>3. n0 <= Number[head] /\ Anc[head][n0] = q
    BY <1>1, <2>1 DEF CountInv, CanonicalIndex
  <2>4. Number[q] = n0
    <3>1. n0 \in 0..Number[head]
      BY <2>1, <2>3, PathFacts DEF Height
    <3> QED
      BY <2>1, <2>3, <3>1, PathFacts
  <2>5. PassedBy(head, q)
    BY <2>3, <2>4 DEF PassedBy
  <2>6. \A p \in (store \ {Genesis}) \ kept : PassedBy(head, p)
    BY <1>1 DEF CountInv, PrunedIn
  <2> QED
    BY <1>1, <2>1, <2>2, <2>5, <2>6, CountOnPath
<1>2. CountInv => PruneSafe
  BY <1>1 DEF PruneSafe, Has
<1> QED
  BY <1>2, CountAlways, PTL
-------------------------------------------------------------------------------
(* When add_block raises.                                                   *)

(* The state of the parent was lost to a pruned block of the main chain     *)
(* that the parent's path does not pass by: b leaves the main chain below.  *)
LEMMA NoStateOnlyWhenDeep ==
  ASSUME CountInv, Fresh, NEW b \in Block, RaiseNoState(b),
         NEW m \in 0..Number[b], m <= Number[head], Anc[head][m] = Anc[b][m]
  PROVE  Deep(m)
<1> DEFINE parent == Parent[b]
           top == Root[parent]
<1>1. /\ parent \in store /\ parent \in AllBlock /\ head \in AllBlock
      /\ ~(refs[top] > 0) /\ b \notin store /\ IInv
      /\ head \in store
  <2>1. parent \in store /\ ~(refs[top] > 0) /\ Calling(AddCall(b))
    BY DEF RaiseNoState, OffHead, StateFound
  <2>2. store \subseteq AllBlock /\ head \in AllBlock /\ IInv /\ head \in store
    BY DEF CountInv, IInv, TypeOK, HeadHeaviest
  <2> QED
    BY <2>1, <2>2 DEF Fresh
<1>2. top \in Nodes[parent]
  BY <1>1, PowChainAssumption DEF StateAssumption
<1>3. PICK n \in 1..Number[head] :
        Deep(n) /\ ~(n <= Number[parent] /\ Anc[parent][n] = Anc[head][n])
  BY <1>1, <1>2, Undisturbed
<1> HIDE DEF parent, top
<1>4. /\ Number[head] \in Nat /\ Number[parent] \in Nat
      /\ Number[b] = Number[parent] + 1 /\ Anc[b][Number[b]] = b
      /\ \A i \in 0..Number[parent] : Anc[b][i] = Anc[parent][i]
      /\ b \in AllBlock
  <2>1. Number[head] \in Nat /\ Number[parent] \in Nat
    BY <1>1, Constants DEF Height
  <2> QED
    BY <2>1, PathOfChild DEF parent, AllBlock
<1>5. m < n
  <2> SUFFICES ASSUME n <= m PROVE FALSE
    BY <1>4
  <2>1. Anc[head][n] = Anc[b][n]
    <3>1. m \in 0..Number[head] /\ m <= Number[b] /\ n \in 0..m
      BY <1>4
    <3> QED
      BY <1>1, <1>4, <3>1, PathsMeet
  <2>2. CASE n <= Number[parent]
    <3>1. n \in 0..Number[parent]
      BY <1>4, <2>2
    <3> QED
      BY <1>3, <1>4, <2>1, <2>2, <3>1
  <2>3. CASE ~(n <= Number[parent])
    <3>1. n = Number[b] /\ n \in 0..Number[head]
      BY <1>4, <2>3
    <3>2. Anc[head][n] = b
      BY <1>4, <2>1, <3>1
    <3> QED
      BY <1>1, <3>1, <3>2, PathStored
  <2> QED
    BY <2>2, <2>3
<1>6. PICK c \in store : n <= Number[c] - MaxHistory
  BY <1>3 DEF Deep
<1>7. Number[c] \in Nat /\ MaxHistory \in Nat /\ m \in Nat /\ n \in Nat
  BY <1>4, Constants DEF CountInv, IInv, TypeOK, Height
<1>8. m <= Number[c] - MaxHistory
  BY <1>5, <1>6, <1>7
<1> QED
  BY <1>8 DEF Deep

(* The block whose log is missing was pruned, and the fork is not above it. *)
LEMMA NoLogOnlyWhenDeep ==
  ASSUME CountInv, NEW b \in Block, RaiseNoLog(b),
         NEW m \in 0..Number[b], m <= Number[head], Anc[head][m] = Anc[b][m]
  PROVE  Deep(m)
<1>1. PICK r \in Height, stop \in Height :
        ReplaceFrom(b, r) /\ stop \in Unlogged(b, r)
  BY DEF RaiseNoLog
<1>2. /\ raised = NoBlock /\ head \in AllBlock /\ head \in store
      /\ Number[head] \in Nat /\ Number[b] \in Nat /\ MaxHistory \in Nat
      /\ IInv
  <2>1. work # <<>>
    BY DEF RaiseNoLog, ExecutesOffHead, Calling
  <2>2. raised = NoBlock /\ head \in AllBlock /\ head \in store /\ IInv
    BY <2>1 DEF CountInv, Stopped, IInv, TypeOK, HeadHeaviest
  <2> QED
    BY <2>2, Constants DEF AllBlock, Height
<1>3. byNumber = IndexOf(head)
  BY <1>2 DEF CountInv, CanonicalIndex, IndexOf
<1> DEFINE p == byNumber[stop]
<1>4. /\ stop \in r..MaxHeight /\ p \notin kept /\ p # NoBlock
      /\ r \in 1..Number[b] /\ \A n \in r + 1..Number[b] : byNumber[n] # Anc[b][n]
  BY <1>1 DEF Unlogged, Rewritten, ReplaceFrom
<1>5. stop \in 1..Number[head] /\ p = Anc[head][stop]
  <2>1. stop <= Number[head] /\ p = Anc[head][stop]
    BY <1>3, <1>4 DEF IndexOf
  <2> QED
    BY <1>2, <1>4, <2>1, Constants
<1>6. p \in store \ {Genesis} /\ Number[p] = stop
  <2>1. p \in Block /\ Number[p] = stop
    BY <1>2, <1>5, PathFacts
  <2>2. p \in store
    BY <1>2, <1>5, PathStored
  <2> QED
    BY <2>1, <2>2, Constants
<1> HIDE DEF p
<1>7. PICK c \in store : stop <= Number[c] - MaxHistory
  BY <1>4, <1>6 DEF CountInv, PrunedIn, DeepIn
<1>8. m <= r
  <2> SUFFICES ASSUME ~(m <= r) PROVE FALSE
    OBVIOUS
  <2>1. m \in r + 1..Number[b] /\ m \in Height
    BY <1>2, <1>4, Constants DEF Height, AllBlock
  <2>2. byNumber[m] = Anc[b][m]
    BY <1>3, <2>1 DEF IndexOf
  <2> QED
    BY <1>4, <2>1, <2>2
<1>9. Number[c] \in Nat
  BY Constants DEF CountInv, IInv, TypeOK, Height
<1>10. m <= Number[c] - MaxHistory
  BY <1>2, <1>4, <1>7, <1>8, <1>9, Constants
<1> QED
  BY <1>10 DEF Deep

(* add_block raises only for a block that leaves the main chain where it    *)
(* may have been pruned, max_history or more below some stored block.       *)
THEOREM RaisesOnlyWhenDeep == Spec /\ []Fresh => []RaisedOnlyWhenDeep
<1>1. Init => RaisedOnlyWhenDeep
  BY DEF Init, RaisedOnlyWhenDeep
<1>2. ASSUME CountInv, Fresh, RaisedOnlyWhenDeep, [Next]_vars
      PROVE  RaisedOnlyWhenDeep'
  <2>1. CASE UNCHANGED vars
    BY <1>2, <2>1 DEF vars, dbVars, historyVars, RaisedOnlyWhenDeep, Deep
  <2>2. ASSUME NEW b \in Block, RaiseNoState(b) \/ RaiseNoLog(b)
        PROVE  RaisedOnlyWhenDeep'
    <3>1. raised' = b /\ head' = head /\ store' = store
      BY <2>2 DEF RaiseNoState, RaiseNoLog, dbVars
    <3>2. \A m \in 0..Number[b] :
            m <= Number[head] /\ Anc[head][m] = Anc[b][m] => Deep(m)
      BY <1>2, <2>2, NoStateOnlyWhenDeep, NoLogOnlyWhenDeep
    <3> QED
      BY <3>1, <3>2 DEF RaisedOnlyWhenDeep, Deep
  <2>3. CASE raised' = NoBlock
    BY <2>3 DEF RaisedOnlyWhenDeep
  <2>4. CASE Next /\ ~(\E b \in Block : RaiseNoState(b) \/ RaiseNoLog(b))
    <3>1. raised' = raised /\ raised = NoBlock
      <4>1. CASE (\E b \in Block : Receive(b)) \/ (\E t \in 0..MaxTime : Tick(t))
        BY <4>1 DEF Receive, Tick, Idle, historyVars
      <4>2. CASE TickLoop \/ \E p \in AllBlock : Forget(p)
        BY <1>2, <4>2 DEF TickLoop, Forget, Calling, historyVars, CountInv, Stopped
      <4>3. ASSUME NEW b \in Block, AddBlock(b)
            PROVE  raised' = raised /\ raised = NoBlock
        <5>1. CASE \/ LayAsideEarly(b) \/ LayAsideOrphan(b)
                   \/ RejectOnHead(b) \/ RejectOffHead(b)
          BY <1>2, <5>1 DEF LayAsideEarly, LayAsideOrphan, RejectOnHead,
             RejectOffHead, Calling, historyVars, CountInv, Stopped
        <5>2. CASE AddToHead(b) \/ AddOffHead(b) \/ Reorganize(b)
          BY <1>2, <5>2 DEF AddToHead, AddOffHead, Reorganize, ExecutesOffHead,
             Finish, Calling, CountInv, Stopped
        <5> QED
          BY <2>4, <4>3, <5>1, <5>2 DEF AddBlock
      <4> QED
        BY <2>4, <4>1, <4>2, <4>3 DEF Next, Step
    <3> QED
      BY <2>3, <3>1
  <2> QED
    BY <1>2, <2>1, <2>2, <2>4
<1> QED
  BY <1>1, <1>2, CountAlways, PTL DEF Spec
===============================================================================
