------------------------------- MODULE PowChain -------------------------------
(***************************************************************************)
(* The proof-of-work chain manager, class Chain of ethereum/pow/chain.py:  *)
(* accepting blocks on and off the head, scoring, reorganising the block   *)
(* and transaction indices, laying blocks aside that came before their     *)
(* time or before their parent, and pruning old trie nodes.                *)
(*                                                                         *)
(* add_block calls itself for the blocks that waited for the one it just   *)
(* stored, and process_time_queue calls it in a loop; `work' is the stack  *)
(* of the calls in progress, one frame per pending call, and every action  *)
(* but Receive and Tick runs the frame on top of it.                       *)
(***************************************************************************)
EXTENDS BlockTree, Sequences

CONSTANTS
  Node,         \* trie nodes (keyed by their hash, so equal content is equal)
  Nodes,        \* Nodes[b]: the nodes of the post-state trie of b
  Root,         \* Root[b]: the state root of b
  Reads,        \* Reads[b]: the nodes of the parent's state that b touches
  Verdict,      \* what apply_block makes of b on the intact parent state
  MaxHistory,   \* max_history
  RandomUnit,   \* 10**6 in get_score
  MaxTime,      \* bound on the clock
  MaxCopies     \* bound on the deliveries of one block

(* "ok" is a valid block.  "reverted" fails a check with ValueError or      *)
(* AssertionError, for which apply_block reverts the state; "unreverted"    *)
(* fails with InvalidTransaction, VerificationFailed or KeyError after a    *)
(* state change, which add_block catches but apply_block does not undo.     *)
Verdicts == {"ok", "reverted", "unreverted"}

(* The nodes that executing b takes out of the state (State.deletes).       *)
(* Wrong: the nodes that stay are taken out as well.                        *)
ReplacedAll(b) == Nodes[Parent[b]]
ReplacedBy(b) == Nodes[Parent[b]] \ Nodes[b]

StateAssumption ==
  /\ Nodes \in [AllBlock -> SUBSET Node]
  /\ Root \in [AllBlock -> Node]
  /\ \A b \in AllBlock : Root[b] \in Nodes[b]
  /\ Reads \in [Block -> SUBSET Node]
  /\ \A b \in Block : /\ ReplacedBy(b) \subseteq Reads[b]
                      /\ Reads[b] \subseteq Nodes[Parent[b]]
                      /\ Root[Parent[b]] \in ReplacedBy(b)
  /\ Verdict \in [Block -> Verdicts]

ASSUME PowChainAssumption ==
  /\ StateAssumption
  /\ MaxHistory \in Nat
  /\ RandomUnit \in Nat \ {0}
  /\ MaxTime \in Nat
  /\ MaxCopies \in Nat

VARIABLES
  \* the database
  store,        \* blocks stored under their hash
  childIndex,   \* 'child:'
  byNumber,     \* 'block:'
  txIndex,      \* 'txindex:', the height part
  score,        \* 'score:'
  headKey,      \* 'head_hash'
  kept,         \* blocks whose 'deletes:' and 'changed:' logs exist
  refs,         \* reference count of each trie node (RefcountDB)
  \* the Chain object
  head,         \* head_hash
  dirty,        \* self.state carries writes of a block that failed
  timeQueue,    \* time_queue
  parentQueue,  \* parent_queue
  localtime,    \* localtime
  work,         \* calls in progress, innermost first
  \* history
  raised,       \* the block whose add_block raised out of the Chain
  called,       \* the last block handed to new_head_cb
  copies        \* how often a block was delivered

dbVars == <<store, childIndex, byNumber, txIndex, score, headKey, kept, refs>>
queueVars == <<timeQueue, parentQueue, localtime>>
historyVars == <<raised, called, copies>>
vars == <<dbVars, head, dirty, queueVars, work, historyVars>>

Unscored == -1

AddCall(b) == [op |-> "add", block |-> b]
ForgetCall(b) == [op |-> "forget", block |-> b]
TickCall(i, pre) == [op |-> "tick", i |-> i, pre |-> pre]

Frame == [op : {"add"}, block : Block] \cup [op : {"forget"}, block : AllBlock]
           \cup [op : {"tick"}, i : Nat, pre : Int]

TypeOK ==
  /\ store \subseteq AllBlock
  /\ childIndex \in [AllBlock -> SUBSET Block]
  /\ byNumber \in [Height -> AllBlock \cup {NoBlock}]
  /\ txIndex \in [Tx -> Height \cup {NoHeight}]
  /\ score \in [AllBlock -> Nat \cup {Unscored}]
  /\ headKey \in AllBlock \cup {NoBlock}
  /\ kept \subseteq Block
  /\ refs \in [Node -> Nat]
  /\ head \in AllBlock
  /\ dirty \in BOOLEAN
  /\ timeQueue \in Seq(Block)
  /\ parentQueue \in [AllBlock -> Seq(Block)]
  /\ localtime \in 0..MaxTime
  /\ work \in Seq(Frame)
  /\ raised \in Block \cup {NoBlock}
  /\ called \in Block \cup {NoBlock}
  /\ copies \in [Block -> 0..MaxCopies]

(* Chain.__init__ on a new database, with initialize_genesis_keys.          *)
Init ==
  /\ store = {Genesis}
  /\ childIndex = [b \in AllBlock |-> {}]
  /\ byNumber = [n \in Height |-> IF n = 0 THEN Genesis ELSE NoBlock]
  /\ txIndex = [t \in Tx |-> NoHeight]
  /\ score = [b \in AllBlock |-> IF b = Genesis THEN 0 ELSE Unscored]
  /\ headKey = NoBlock
  /\ kept = {}
  /\ refs = [n \in Node |-> IF n \in Nodes[Genesis] THEN 1 ELSE 0]
  /\ head = Genesis
  /\ dirty = FALSE
  /\ timeQueue = <<>>
  /\ parentQueue = [b \in AllBlock |-> <<>>]
  /\ localtime = 0
  /\ work = <<>>
  /\ raised = NoBlock
  /\ called = NoBlock
  /\ copies = [b \in Block |-> 0]

-------------------------------------------------------------------------------
(* Calls into the Chain.  The Chain runs one call at a time; after an       *)
(* exception that leaves it, the model stops.                               *)

Idle == work = <<>> /\ raised = NoBlock

Receive(b) ==
  /\ Idle
  /\ copies[b] < MaxCopies
  /\ copies' = [copies EXCEPT ![b] = @ + 1]
  /\ work' = <<AddCall(b)>>
  /\ UNCHANGED <<dbVars, head, dirty, queueVars, raised, called>>

(* process_time_queue(t): the clock has advanced to t.  Wrong: the clock is *)
(* taken one too far.                                                       *)
TickFar(t) ==
  /\ Idle
  /\ t >= localtime
  /\ localtime' = t + 1
  /\ work' = <<TickCall(0, -1)>>
  /\ UNCHANGED <<dbVars, head, dirty, timeQueue, parentQueue, historyVars>>
Tick(t) ==
  /\ Idle
  /\ t >= localtime
  /\ localtime' = t
  /\ work' = <<TickCall(0, -1)>>
  /\ UNCHANGED <<dbVars, head, dirty, timeQueue, parentQueue, historyVars>>

Calling(frame) == work # <<>> /\ Head(work) = frame

(* One test of the loop of process_time_queue.  A block that came back to   *)
(* the queue, so that its length is what it was, is skipped.                *)
TickLoop ==
  /\ work # <<>> /\ Head(work).op = "tick"
  /\ LET i == IF Head(work).pre = Len(timeQueue) THEN Head(work).i + 1
                                                 ELSE Head(work).i
         due == i < Len(timeQueue) /\ Timestamp[timeQueue[i + 1]] <= localtime
     IN \/ /\ due
           /\ timeQueue' = SubSeq(timeQueue, 1, i)
                             \o SubSeq(timeQueue, i + 2, Len(timeQueue))
           /\ work' = <<AddCall(timeQueue[i + 1]), TickCall(i, Len(timeQueue))>>
                        \o Tail(work)
        \/ ~due /\ work' = Tail(work) /\ UNCHANGED timeQueue
  /\ UNCHANGED <<dbVars, head, dirty, parentQueue, localtime, historyVars>>

-------------------------------------------------------------------------------
(* add_block: the two ways of laying a block aside.                         *)

InTime(b) == Timestamp[b] <= localtime
OnHead(b) == InTime(b) /\ Parent[b] = head
OffHead(b) == InTime(b) /\ Parent[b] # head /\ Parent[b] \in store

LayAsideEarly(b) ==
  /\ Calling(AddCall(b))
  /\ ~InTime(b)
  /\ \E i \in 0..Len(timeQueue) :
       /\ \A j \in 1..i : Timestamp[timeQueue[j]] < Timestamp[b]
       /\ i < Len(timeQueue) => Timestamp[timeQueue[i + 1]] >= Timestamp[b]
       /\ timeQueue' = SubSeq(timeQueue, 1, i) \o <<b>>
                         \o SubSeq(timeQueue, i + 1, Len(timeQueue))
  /\ work' = Tail(work)
  /\ UNCHANGED <<dbVars, head, dirty, parentQueue, localtime, historyVars>>

LayAsideOrphan(b) ==
  /\ Calling(AddCall(b))
  /\ InTime(b) /\ ~OnHead(b) /\ ~OffHead(b)
  /\ parentQueue' = [parentQueue EXCEPT ![Parent[b]] = Append(@, b)]
  /\ work' = Tail(work)
  /\ UNCHANGED <<dbVars, head, dirty, timeQueue, localtime, historyVars>>

-------------------------------------------------------------------------------
(* Executing a block.                                                       *)

Put(rf, nodes) == [n \in Node |-> IF n \in nodes THEN rf[n] + 1 ELSE rf[n]]
Drop(rf, nodes) == [n \in Node |-> IF n \in nodes THEN rf[n] - 1 ELSE rf[n]]
Has(rf, nodes) == \A n \in nodes : rf[n] > 0

(* What apply_block does with b on the parent's state, found in a database  *)
(* with the reference counts rf; on a state that carries writes of another  *)
(* block the execution results of a valid block do not verify.              *)
Outcome(b, rf, clean) ==
  IF Verdict[b] = "reverted" THEN "reverted"
  ELSE IF ~Has(rf, Reads[b]) THEN "unreverted"
  ELSE IF Verdict[b] = "ok" /\ ~clean THEN "reverted"
  ELSE Verdict[b]

(* The counts once apply_block has written the post-state of b.  Wrong: a   *)
(* node that is there already is not counted again.                         *)
ExecutedUncounted(b, rf) ==
  [n \in Node |-> IF n \in Nodes[b] \ Nodes[Parent[b]] THEN 1 ELSE rf[n]]
Executed(b, rf) == Put(rf, Nodes[b] \ Nodes[Parent[b]])

(* get_score: the total difficulty up to b with a random tie-breaker, drawn *)
(* once and cached in the database.  Wrong: the parent's score is left out. *)
ScoredAlone(b) ==
  \/ score[b] # Unscored /\ UNCHANGED score
  \/ score[b] = Unscored /\ score' = [score EXCEPT ![b] = Difficulty[b]]
Scored(b) ==
  \/ score[b] # Unscored /\ UNCHANGED score
  \/ /\ score[b] = Unscored
     /\ \E noise \in 0..(Difficulty[b] \div RandomUnit) :
          score' = [score EXCEPT ![b] = score[Parent[b]] + Difficulty[b] + noise]

(* The fork choice of add_block.  Wrong forms: the longest chain wins; a    *)
(* tie moves the head.                                                      *)
BeatsByLength(b) == Number[b] > Number[head]
BeatsOnTie(b) == score'[b] >= score[head]
Beats(b) == score'[b] > score[head]

(* The calls for the blocks that waited for b, then the `del'.  Wrong: the  *)
(* waiting blocks are dropped.                                              *)
WaitingDropped(b) == IF parentQueue[b] = <<>> THEN <<>> ELSE <<ForgetCall(b)>>
Waiting(b) ==
  IF parentQueue[b] = <<>> THEN <<>>
  ELSE [i \in 1..Len(parentQueue[b]) |-> AddCall(parentQueue[b][i])]
         \o <<ForgetCall(b)>>

(* The height whose block is pruned when b is stored.  Wrong: off by one.   *)
PruneHeightHigh(b) == Number[b] - MaxHistory + 1
PruneHeight(b) == Number[b] - MaxHistory

(* The tail of add_block, shared by the accepting paths: store the block    *)
(* and its logs, prune the canonical block max_history below it, call the   *)
(* callback, and turn to the blocks that waited.  Pruning a block whose log *)
(* is gone is a KeyError that the code swallows.                            *)
Finish(b, rf) ==
  /\ childIndex' = [childIndex EXCEPT ![Parent[b]] = @ \cup {b}]
  /\ headKey' = head'
  /\ store' = store \cup {b}
  /\ LET n == PruneHeight(b)
         old == IF n >= 0 THEN byNumber'[n] ELSE NoBlock
         logs == kept \cup {b}
         prunes == old \in logs /\ Has(rf, ReplacedBy(old))
     IN /\ refs' = IF prunes THEN Drop(rf, ReplacedBy(old)) ELSE rf
        /\ kept' = IF prunes THEN logs \ {old} ELSE logs
  /\ called' = b
  /\ work' = Waiting(b) \o Tail(work)
  /\ UNCHANGED <<queueVars, raised, copies>>

(* The end of the loop over the waiting blocks: del parent_queue[p].        *)
Forget(p) ==
  /\ Calling(ForgetCall(p))
  /\ parentQueue' = [parentQueue EXCEPT ![p] = <<>>]
  /\ work' = Tail(work)
  /\ UNCHANGED <<dbVars, head, dirty, timeQueue, localtime, historyVars>>

-------------------------------------------------------------------------------
(* add_block, first branch: the parent is the head.                         *)

AddToHead(b) ==
  /\ Calling(AddCall(b)) /\ OnHead(b)
  /\ Outcome(b, refs, ~dirty) = "ok"
  /\ byNumber' = [byNumber EXCEPT ![Number[b]] = b]
  /\ Scored(b)
  /\ head' = b
  /\ txIndex' = [t \in Tx |-> IF t \in Txs[b] THEN Number[b] ELSE txIndex[t]]
  /\ Finish(b, Executed(b, refs))
  /\ UNCHANGED dirty

RejectOnHead(b) ==
  /\ Calling(AddCall(b)) /\ OnHead(b)
  /\ Outcome(b, refs, ~dirty) # "ok"
  /\ dirty' = (dirty \/ Outcome(b, refs, ~dirty) = "unreverted")
  /\ work' = Tail(work)
  /\ UNCHANGED <<dbVars, head, queueVars, historyVars>>

-------------------------------------------------------------------------------
(* add_block, second branch: the parent is stored but is not the head.      *)

(* mk_poststate_of_blockhash: the state of Genesis is built again from its  *)
(* allocation, any other is opened at its root, outside the try.            *)
StateFound(b) == Parent[b] = Genesis \/ refs[Root[Parent[b]]] > 0
Opened(b) ==
  IF Parent[b] = Genesis THEN Put(refs, Nodes[Genesis]) ELSE refs

ExecutesOffHead(b) ==
  /\ Calling(AddCall(b)) /\ OffHead(b) /\ StateFound(b)
  /\ Outcome(b, Opened(b), TRUE) = "ok"

RaiseNoState(b) ==
  /\ Calling(AddCall(b)) /\ OffHead(b) /\ ~StateFound(b)
  /\ raised' = b
  /\ work' = <<>>
  /\ UNCHANGED <<dbVars, head, dirty, queueVars, called, copies>>

RejectOffHead(b) ==
  /\ Calling(AddCall(b)) /\ OffHead(b) /\ StateFound(b)
  /\ Outcome(b, Opened(b), TRUE) # "ok"
  /\ refs' = Opened(b)
  /\ work' = Tail(work)
  /\ UNCHANGED <<store, childIndex, byNumber, txIndex, score, headKey, kept,
                 head, dirty, queueVars, historyVars>>

AddOffHead(b) ==
  /\ ExecutesOffHead(b)
  /\ Scored(b)
  /\ ~Beats(b)
  /\ UNCHANGED <<byNumber, txIndex, head, dirty>>
  /\ Finish(b, Executed(b, Opened(b)))

(* The common ancestor, as the loop finds it: the highest block on the path *)
(* to b that is in the index, else the child of Genesis.  Wrong: the search *)
(* stops at the new head.                                                   *)
ReplaceHeadOnly(b, r) == r = Number[b]
ReplaceFrom(b, r) ==
  /\ r \in 1..Number[b]
  /\ r = 1 \/ byNumber[r] = Anc[b][r]
  /\ \A n \in r + 1..Number[b] : byNumber[n] # Anc[b][n]

(* The heights rewritten from r up: the loop stops above the new chain at   *)
(* the first height that the index has no block for.                        *)
Rewritten(b, r) ==
  {i \in r..MaxHeight : \A j \in r..i : j <= Number[b] \/ byNumber[j] # NoBlock}

(* Where txIndex has t after old blocks were removed at the heights `from'  *)
(* and blocks of the path to b put in at `to'; at one height the old block  *)
(* is removed first.  Wrong: nothing is removed.                            *)
ReindexedNoDelete(b, t, from, to) ==
  LET put == {i \in to : i <= Number[b] /\ t \in Txs[Anc[b][i]]}
  IN IF put # {} THEN CHOOSE i \in put : \A j \in put : j <= i
     ELSE txIndex[t]
ReindexedTx(b, t, from, to) ==
  LET del == {i \in from : byNumber[i] # NoBlock /\ t \in Txs[byNumber[i]]}
      put == {i \in to : i <= Number[b] /\ t \in Txs[Anc[b][i]]}
      last == {i \in put : \A j \in del \cup put : j <= i}
  IN IF last # {} THEN CHOOSE i \in last : TRUE
     ELSE IF del # {} THEN NoHeight
     ELSE txIndex[t]

(* The removed blocks whose 'changed:' log is gone.                         *)
Unlogged(b, r) ==
  {i \in Rewritten(b, r) : byNumber[i] \notin kept \cup {NoBlock}}

ReindexedBlock(b, n) == IF n <= Number[b] THEN Anc[b][n] ELSE NoBlock

Reorganize(b) ==
  /\ ExecutesOffHead(b)
  /\ Scored(b)
  /\ Beats(b)
  /\ \E r \in Height :
       /\ ReplaceFrom(b, r)
       /\ Unlogged(b, r) = {}
       /\ byNumber' = [n \in Height |-> IF n \in Rewritten(b, r)
                                        THEN ReindexedBlock(b, n)
                                        ELSE byNumber[n]]
       /\ txIndex' = [t \in Tx |-> ReindexedTx(b, t, Rewritten(b, r),
                                                     Rewritten(b, r))]
  /\ head' = b
  /\ dirty' = FALSE
  /\ Finish(b, Executed(b, Opened(b)))

(* Reading a missing log raises out of the rewriting loop: the heights      *)
(* below `stop' are rewritten, and at `stop' the old block is removed.      *)
RaiseNoLog(b) ==
  /\ ExecutesOffHead(b)
  /\ Scored(b)
  /\ Beats(b)
  /\ \E r, stop \in Height :
       /\ ReplaceFrom(b, r)
       /\ stop \in Unlogged(b, r)
       /\ \A i \in Unlogged(b, r) : stop <= i
       /\ byNumber' = [n \in Height |->
                         IF n \in Rewritten(b, r) /\ n < stop
                         THEN ReindexedBlock(b, n)
                         ELSE IF n = stop THEN NoBlock ELSE byNumber[n]]
       /\ txIndex' = [t \in Tx |-> ReindexedTx(b, t, r..stop, r..(stop - 1))]
  /\ refs' = Executed(b, Opened(b))
  /\ raised' = b
  /\ work' = <<>>
  /\ UNCHANGED <<store, childIndex, headKey, kept, head, dirty, queueVars,
                 called, copies>>

-------------------------------------------------------------------------------
AddBlock(b) ==
  \/ LayAsideEarly(b) \/ LayAsideOrphan(b)
  \/ AddToHead(b) \/ RejectOnHead(b)
  \/ RaiseNoState(b) \/ RejectOffHead(b) \/ AddOffHead(b)
  \/ Reorganize(b) \/ RaiseNoLog(b)

(* The Chain running the call it is in.                                     *)
Step ==
  \/ TickLoop
  \/ \E p \in AllBlock : Forget(p)
  \/ \E b \in Block : AddBlock(b)

Next ==
  \/ \E b \in Block : Receive(b)
  \/ \E t \in 0..MaxTime : Tick(t)
  \/ Step

Spec == Init /\ [][Next]_vars

(* A call runs to its end, and process_time_queue is called periodically    *)
(* (comment above it) with a clock that goes on.                            *)
FairSpec == Spec /\ WF_vars(Step) /\ SF_vars(Tick(MaxTime))

-------------------------------------------------------------------------------
(* Properties.                                                              *)

(* Fork choice: no stored block has a larger total difficulty than the     *)
(* head, whichever of the two branches of add_block stored it.             *)
HeadHeaviest ==
  /\ head \in store
  /\ \A b \in store : score[b] # Unscored /\ score[b] <= score[head]

(* The stored blocks form a tree whose scores grow along every branch, so   *)
(* that get_score never needs more than the parent's cached score, and      *)
(* 'child:' lists exactly the stored children.                              *)
StoredTree ==
  /\ \A b \in store \ {Genesis} :
       Parent[b] \in store /\ score[b] >= score[Parent[b]] + Difficulty[b]
  /\ \A p \in AllBlock :
       childIndex[p] = {b \in store \ {Genesis} : Parent[b] = p}

(* After any reorganisation the block index is the path from Genesis to the *)
(* head and has nothing above it (get_chain, get_block_by_number).          *)
CanonicalIndex ==
  raised = NoBlock =>
    byNumber = [n \in Height |-> IF n <= Number[head] THEN Anc[head][n]
                                                     ELSE NoBlock]

(* get_tx_position never points to a block off the main chain or to a block *)
(* that does not hold the transaction.                                      *)
TxIndexSound ==
  raised = NoBlock =>
    \A t \in Tx : txIndex[t] # NoHeight =>
      /\ txIndex[t] <= Number[head]
      /\ t \in Txs[Anc[head][txIndex[t]]]

(* The heights at which the canonical block may have been pruned: those     *)
(* max_history or more below some stored block, on whatever branch, as the  *)
(* height to prune is counted from the block that arrives.                  *)
Deep(n) == \E c \in store : n <= Number[c] - MaxHistory

(* Reference counting with delayed deletion keeps the state of every stored *)
(* block whose branch leaves the main chain above the heights that may have *)
(* been pruned, unless a block is stored twice and so pruned twice          *)
(* (PowChainProofs!Fresh).                                                  *)
RetainedStates ==
  \A b \in store :
    (\A n \in 1..Number[head] : Deep(n) => n <= Number[b] /\ Anc[b][n] = Anc[head][n])
    => Has(refs, Nodes[b])

(* The state of the head itself is there whatever else was pruned, unless   *)
(* a block is stored twice and so pruned twice (PowChainProofs!Fresh).      *)
HeadStateRetained == Has(refs, Nodes[head])

(* The swallowed KeyError of the pruning loop, which would leave a log half *)
(* applied, cannot happen: what a logged canonical block replaced is there, *)
(* unless a block is stored twice (PowChainProofs!Fresh).  Of a log that    *)
(* names other nodes as well, as Trie's can, this says nothing.             *)
PruneSafe ==
  raised = NoBlock =>
    \A n \in Height : byNumber[n] \in kept => Has(refs, ReplacedBy(byNumber[n]))

(* Only a block that forks off the main chain at a height that may have     *)
(* been pruned can make add_block raise, in the rewriting loop or on a      *)
(* pruned parent state, unless a block is stored twice                      *)
(* (PowChainProofs!Fresh).                                                  *)
RaisedOnlyWhenDeep ==
  raised # NoBlock =>
    \A n \in 0..Number[raised] :
      n <= Number[head] /\ Anc[head][n] = Anc[raised][n] => Deep(n)

(* README.md:37 of `state': the state at the head of the chain, with no     *)
(* effect of a block that was refused.                                      *)
HeadState == ~dirty

(* The chain implements ForkChoice, with the stored blocks for the accepted *)
(* ones and their cached scores for the weights.                            *)
StoredScore ==
  [b \in AllBlock |-> IF b \in store THEN score[b] ELSE Unscored]
Choice == INSTANCE ForkChoice
            WITH accepted <- store, tip <- head, weight <- StoredScore
ImplementsForkChoice == Choice!Spec

(* A valid block whose path of valid blocks has all been delivered is       *)
(* stored in the end, in whatever order and however early they came.        *)
Delivered(b) ==
  \A n \in 1..Number[b] : copies[Anc[b][n]] > 0 /\ Verdict[Anc[b][n]] = "ok"
EventuallyStored ==
  \A b \in Block : Delivered(b) ~> (b \in store \/ raised # NoBlock)
===============================================================================
