----------------------------- MODULE CasperChain -----------------------------
(***************************************************************************)
(* The chain manager of hybrid Casper, ethereum/hybrid_casper/chain.py.    *)
(* Every EpochLength-th block is a checkpoint.  A block carries in its     *)
(* state what fraction of the deposits has committed to the checkpoint     *)
(* below it; the chain keeps for each checkpoint the best such score seen  *)
(* anywhere above it and a pointer to its best child, follows the pointers *)
(* to a head checkpoint, and chooses its head by difficulty above that.    *)
(*                                                                         *)
(* As in PowChain, `work' is the stack of the calls in progress.           *)
(***************************************************************************)
EXTENDS BlockTree, Sequences, FiniteSets

CONSTANTS
  EpochLength,  \* config EPOCH_LENGTH
  Frac,         \* Frac[b]: what get_main_hash_committed_frac of the Casper
                \* contract returns on the state after b (0 if it fails)
  Valid,        \* the blocks that apply_block accepts
  RandomUnit,   \* 10**6 in get_pow_difficulty
  MaxTime,      \* bound on the clock
  MaxCopies     \* bound on the deliveries of one block

ASSUME CasperAssumption ==
  /\ EpochLength \in Nat \ {0}
  /\ Frac \in [Block -> Nat]
  /\ Valid \subseteq Block
  /\ RandomUnit \in Nat \ {0}
  /\ MaxTime \in Nat
  /\ MaxCopies \in Nat

VARIABLES
  \* the database
  store,        \* blocks stored under their hash
  childIndex,   \* 'child:', in the order of arrival
  byNumber,     \* 'block:'
  txIndex,      \* 'txindex:', the height part
  score,        \* 'score:'
  saved,        \* blocks whose 'state:' root has its trie in the database
  cpScore,      \* 'cp_score:', 0 if there is none
  subtree,      \* 'cp_subtree_score'
  cpChild,      \* 'cp_child'
  \* the Chain object
  head,         \* head_hash
  headCp,       \* checkpoint_head_hash (Genesis for the zero hash)
  timeQueue,    \* time_queue
  parentQueue,  \* parent_queue
  localtime,    \* localtime
  work,         \* calls in progress, innermost first
  \* history
  strayed,      \* the head checkpoint has moved and the head has not
  raised,       \* the block whose add_block raised out of the Chain
  copies        \* how often a block was delivered

blockVars == <<store, childIndex, cpScore, subtree, cpChild, headCp>>
headVars == <<head, byNumber, txIndex>>
queueVars == <<timeQueue, parentQueue, localtime>>
vars == <<blockVars, headVars, score, saved, queueVars, work, strayed, raised,
          copies>>

Unscored == -1

(* is_checkpoint; the checkpoint below a block; the checkpoints from one up *)
(* to Genesis; the blocks above one.                                        *)
IsCheckpoint(b) == Number[b] % EpochLength = 0
Checkpoint == {b \in AllBlock : IsCheckpoint(b)}
PrevCp(b) == Anc[b][((Number[b] - 1) \div EpochLength) * EpochLength]
CpPath(c) == {Anc[c][n] : n \in {m \in 0..Number[c] : m % EpochLength = 0}}
Under(c, b) == Number[c] <= Number[b] /\ Anc[b][Number[c]] = c

AddCall(b) == [op |-> "add", block |-> b]
ForgetCall(b) == [op |-> "forget", block |-> b]
TickCall(i, pre) == [op |-> "tick", i |-> i, pre |-> pre]

(* Chain.__init__ on a new database.  The subtree score of Genesis is only  *)
(* ever written here.                                                       *)
Init ==
  /\ store = {Genesis}
  /\ childIndex = [b \in AllBlock |-> <<>>]
  /\ byNumber = [n \in Height |-> IF n = 0 THEN Genesis ELSE NoBlock]
  /\ txIndex = [t \in Tx |-> NoHeight]
  /\ score = [b \in AllBlock |-> IF b = Genesis THEN 0 ELSE Unscored]
  /\ saved = {Genesis}
  /\ cpScore = [c \in Checkpoint |-> 0]
  /\ subtree = [c \in Checkpoint |-> 0]
  /\ cpChild = [c \in Checkpoint |-> NoBlock]
  /\ head = Genesis
  /\ headCp = Genesis
  /\ timeQueue = <<>>
  /\ parentQueue = [b \in AllBlock |-> <<>>]
  /\ localtime = 0
  /\ work = <<>>
  /\ strayed = FALSE
  /\ raised = NoBlock
  /\ copies = [b \in Block |-> 0]

-------------------------------------------------------------------------------
(* Calls into the Chain, as in PowChain.                                    *)

Idle == work = <<>> /\ raised = NoBlock

Receive(b) ==
  /\ Idle
  /\ copies[b] < MaxCopies
  /\ copies' = [copies EXCEPT ![b] = @ + 1]
  /\ work' = <<AddCall(b)>>
  /\ UNCHANGED <<blockVars, headVars, score, saved, queueVars, strayed, raised>>

(* process_time_queue(t).                                                   *)
Tick(t) ==
  /\ Idle
  /\ t >= localtime
  /\ localtime' = t
  /\ work' = <<TickCall(0, -1)>>
  /\ UNCHANGED <<blockVars, headVars, score, saved, timeQueue, parentQueue,
                 strayed, raised, copies>>

Calling(frame) == work # <<>> /\ Head(work) = frame

TickLoop ==
  /\ work # <<>> /\ Head(work).op = "tick"
  /\ LET i == IF Head(work).pre = Len(timeQueue) THEN Head(work).i + 1
                                                 ELSE Head(work).i
         due == i < Len(timeQueue) /\ Timestamp[timeQueue[i + 1]] <= localtime
     IN \/ /\ due
           /\ timeQueue' = SubSeq(timeQueue, 1, i)
                             \o SubSeq(timeQueue, i + 2, Len(timeQueue))
           /\ work' = <<AddCall(timeQueue[i + 1]), TickCall(i, Len(timeQueue))>>
                        \o Tail(work)
        \/ ~due /\ work' = Tail(work) /\ UNCHANGED timeQueue
  /\ UNCHANGED <<blockVars, headVars, score, saved, parentQueue, localtime,
                 strayed, raised, copies>>

Forget(p) ==
  /\ Calling(ForgetCall(p))
  /\ parentQueue' = [parentQueue EXCEPT ![p] = <<>>]
  /\ work' = Tail(work)
  /\ UNCHANGED <<blockVars, headVars, score, saved, timeQueue, localtime,
                 strayed, raised, copies>>

-------------------------------------------------------------------------------
(* should_add_block.                                                        *)

InTime(b) == Timestamp[b] <= localtime
Ready(b) == InTime(b) /\ Parent[b] \in store

LayAsideEarly(b) ==
  /\ Calling(AddCall(b))
  /\ ~InTime(b)
  /\ \E i \in 0..Len(timeQueue) :
       /\ \A j \in 1..i : Timestamp[timeQueue[j]] < Timestamp[b]
       /\ i < Len(timeQueue) => Timestamp[timeQueue[i + 1]] >= Timestamp[b]
       /\ timeQueue' = SubSeq(timeQueue, 1, i) \o <<b>>
                         \o SubSeq(timeQueue, i + 1, Len(timeQueue))
  /\ work' = Tail(work)
  /\ UNCHANGED <<blockVars, headVars, score, saved, parentQueue, localtime,
                 strayed, raised, copies>>

LayAsideOrphan(b) ==
  /\ Calling(AddCall(b))
  /\ InTime(b) /\ Parent[b] \notin store
  /\ parentQueue' = [parentQueue EXCEPT ![Parent[b]] = Append(@, b)]
  /\ work' = Tail(work)
  /\ UNCHANGED <<blockVars, headVars, score, saved, timeQueue, localtime,
                 strayed, raised, copies>>

(* On the head a block is executed on an ephemeral clone, whose writes stay *)
(* in an overlay; elsewhere on the database, where the parent's trie must   *)
(* be found (that of Genesis is built from its snapshot).                   *)
StateFound(b) == Parent[b] \in saved \cup {head, Genesis}

RaiseNoState(b) ==
  /\ Calling(AddCall(b)) /\ Ready(b) /\ ~StateFound(b)
  /\ raised' = b
  /\ work' = <<>>
  /\ UNCHANGED <<blockVars, headVars, score, saved, queueVars, strayed, copies>>

RejectBlock(b) ==
  /\ Calling(AddCall(b)) /\ Ready(b) /\ StateFound(b)
  /\ b \notin Valid
  /\ work' = Tail(work)
  /\ UNCHANGED <<blockVars, headVars, score, saved, queueVars, strayed, raised,
                 copies>>

ShouldAddBlock(b) ==
  Calling(AddCall(b)) /\ Ready(b) /\ StateFound(b) /\ b \in Valid

SavedWith(b) == IF Parent[b] = head THEN saved ELSE saved \cup {b}

-------------------------------------------------------------------------------
(* add_block: storing the block and what its state says of the checkpoint.  *)

(* The score of the checkpoint below b only grows.  Wrong: the last block   *)
(* decides.                                                                 *)
ScoreAfterLast(b) == Frac[b]
ScoreAfter(b) ==
  LET c == PrevCp(b)
  IN IF cpScore[c] < Frac[b] \/ cpScore[c] = 0 THEN Frac[b] ELSE cpScore[c]

(* A checkpoint starts with a subtree score of 0, also one that is stored   *)
(* already.                                                                 *)
SubtreeWith(b) == IF IsCheckpoint(b) THEN [subtree EXCEPT ![b] = 0] ELSE subtree

(* update_subtree_scores_and_child_pointers: the checkpoints on the way     *)
(* from c to Genesis, as far as the new score is an improvement.            *)
Improved(c, old, new) ==
  {d \in CpPath(c) \ {Genesis} :
     \A e \in CpPath(c) \ {Genesis} : Number[e] >= Number[d] => old[e] < new}

(* The child pointer of p: c replaces another child that is worse.  Wrong   *)
(* forms: it also replaces an equal one; it replaces none.                  *)
PointerOnTie(p, sub, new, improved) ==
  LET better == {c \in improved : PrevCp(c) = p /\
                   (cpChild[p] = NoBlock \/ sub[cpChild[p]] <= new)}
  IN IF better = {} THEN cpChild[p] ELSE CHOOSE c \in better : TRUE
PointerFirst(p, sub, new, improved) ==
  LET better == {c \in improved : PrevCp(c) = p /\ cpChild[p] = NoBlock}
  IN IF better = {} THEN cpChild[p] ELSE CHOOSE c \in better : TRUE
Pointer(p, sub, new, improved) ==
  LET better == {c \in improved : PrevCp(c) = p /\
                   (cpChild[p] = NoBlock \/ sub[cpChild[p]] < new)}
  IN IF better = {} THEN cpChild[p] ELSE CHOOSE c \in better : TRUE

(* The last checkpoint at or below c that has commits.                      *)
Committed(c, scores) ==
  CHOOSE d \in CpPath(c) :
    /\ d = Genesis \/ scores[d] # 0
    /\ \A e \in CpPath(c) : Number[e] > Number[d] => scores[e] = 0

(* get_shared_parent_cp: the last checkpoint strictly below both.           *)
SharedParent(c, d) ==
  LET shared == {e \in CpPath(c) \cap CpPath(d) : e # c /\ e # d}
  IN CHOOSE e \in shared : \A f \in shared : Number[f] <= Number[e]

(* choose_head_checkpoint: along the child pointers from the root.          *)
Descend(root, child) ==
  LET down[k \in 0..MaxHeight] ==
        IF k = 0 THEN root
        ELSE IF child[down[k - 1]] = NoBlock THEN down[k - 1]
        ELSE child[down[k - 1]]
  IN down[MaxHeight]

(* recompute_head_checkpoint.  Wrong: from the old head checkpoint up.      *)
RecomputedFromOld(candidate, child) == Descend(headCp, child)
RecomputedHead(candidate, child) ==
  IF Genesis \in {headCp, candidate} THEN Descend(Genesis, child)
  ELSE Descend(SharedParent(headCp, candidate), child)

Record(b) ==
  LET c == PrevCp(b)
      new == ScoreAfter(b)
      improved == Improved(c, SubtreeWith(b), new)
      scores == [cpScore EXCEPT ![c] = new]
  IN /\ store' = store \cup {b}
     /\ childIndex' = [childIndex EXCEPT ![Parent[b]] =
                         IF \E i \in 1..Len(@) : @[i] = b THEN @ ELSE Append(@, b)]
     /\ cpScore' = scores
     /\ subtree' = [d \in Checkpoint |-> IF d \in improved THEN new
                                         ELSE SubtreeWith(b)[d]]
     /\ cpChild' = [p \in Checkpoint |-> Pointer(p, subtree', new, improved)]
     /\ headCp' = RecomputedHead(Committed(c, scores), cpChild')

Candidate(b) == Committed(PrevCp(b), cpScore')

(* The calls for the blocks that waited for b.                              *)
WaitingDropped(b) == IF parentQueue[b] = <<>> THEN <<>> ELSE <<ForgetCall(b)>>
Waiting(b) ==
  IF parentQueue[b] = <<>> THEN <<>>
  ELSE [i \in 1..Len(parentQueue[b]) |-> AddCall(parentQueue[b][i])]
         \o <<ForgetCall(b)>>

-------------------------------------------------------------------------------
(* get_pow_difficulty of every block in S: the blocks on their paths that   *)
(* have no cached score get one, each with a random tie-breaker.            *)
Scored(S) ==
  LET fill == {x \in store' : score[x] = Unscored /\ \E y \in S : Under(x, y)}
      MaxNoise == 0..MaxHeight
  IN \E noise \in [fill -> MaxNoise] :
       /\ \A x \in fill : noise[x] <= Difficulty[x] \div RandomUnit
       /\ LET total(x) ==
                LET sum[n \in 0..Number[x]] ==
                      LET y == Anc[x][n]
                      IN IF score[y] # Unscored THEN score[y]
                         ELSE sum[n - 1] + Difficulty[y] + noise[y]
                IN sum[Number[x]]
          IN score' = [x \in AllBlock |-> IF x \in fill THEN total(x) ELSE score[x]]

(* find_heaviest_pow_block: among equals the one that a walk through the    *)
(* children in the order of arrival meets first.                            *)
MetBefore(x, y) ==
  \/ Under(x, y)
  \/ \E n \in 0..MaxHeight - 1 :
       /\ n < Number[x] /\ n < Number[y]
       /\ Anc[x][n] = Anc[y][n] /\ Anc[x][n + 1] # Anc[y][n + 1]
       /\ LET children == childIndex'[Anc[x][n]]
          IN \E i, j \in 1..Len(children) :
               i < j /\ children[i] = Anc[x][n + 1] /\ children[j] = Anc[y][n + 1]

(* Wrong: the checkpoint itself.                                            *)
HeaviestRoot(h, c) == h = c
Heaviest(h, c) ==
  /\ h \in store' /\ Under(c, h)
  /\ \A y \in store' : Under(c, y) =>
       score'[y] < score'[h] \/ (score'[y] = score'[h] /\ MetBefore(h, y))

-------------------------------------------------------------------------------
(* set_head.                                                                *)

(* The common ancestor, as in PowChain: the highest block on the path to b  *)
(* that is in the index, else the child of Genesis.                         *)
ReplaceFrom(b, r) ==
  /\ r \in 1..Number[b]
  /\ r = 1 \/ byNumber[r] = Anc[b][r]
  /\ \A n \in r + 1..Number[b] : byNumber[n] # Anc[b][n]

(* The rewriting loop ends after a height that had no block and is not in   *)
(* the new chain; but if the new block there has transactions, the loop     *)
(* over them has left the number of the last one in the loop's variable.    *)
Ends(b, r, i) ==
  /\ byNumber[i] = NoBlock
  /\ LET txs == IF i <= Number[b] THEN Cardinality(Txs[Anc[b][i]]) ELSE 0
         asked == IF txs = 0 THEN i ELSE txs - 1
     IN asked \notin r..Number[b]

Rewritten(b, r) == {i \in r..MaxHeight : \A j \in r..(i - 1) : ~Ends(b, r, j)}

ReindexedBlock(b, n) == IF n <= Number[b] THEN Anc[b][n] ELSE NoBlock

ReindexedTx(b, t, at) ==
  LET del == {i \in at : byNumber[i] # NoBlock /\ t \in Txs[byNumber[i]]}
      put == {i \in at : i <= Number[b] /\ t \in Txs[Anc[b][i]]}
      last == {i \in put : \A j \in del \cup put : j <= i}
  IN IF last # {} THEN CHOOSE i \in last : TRUE
     ELSE IF del # {} THEN NoHeight
     ELSE txIndex[t]

AddBlockToHead(h) ==
  /\ Parent[h] = head
  /\ byNumber' = [byNumber EXCEPT ![Number[h]] = h]
  /\ txIndex' = [t \in Tx |-> IF t \in Txs[h] THEN Number[h] ELSE txIndex[t]]
  /\ head' = h

ReorganizeHeadTo(h) ==
  /\ Parent[h] # head
  /\ \E r \in Height :
       /\ ReplaceFrom(h, r)
       /\ byNumber' = [n \in Height |-> IF n \in Rewritten(h, r)
                                        THEN ReindexedBlock(h, n)
                                        ELSE byNumber[n]]
       /\ txIndex' = [t \in Tx |-> ReindexedTx(h, t, Rewritten(h, r))]
  /\ head' = h

-------------------------------------------------------------------------------
(* add_block: the choice of the head.                                       *)

Continue(b) ==
  /\ work' = Waiting(b) \o Tail(work)
  /\ UNCHANGED <<queueVars, raised, copies>>

(* The head checkpoint stays: difficulty decides.                           *)
SameCheckpoint(b) ==
  /\ ShouldAddBlock(b)
  /\ Record(b)
  /\ headCp' = Candidate(b) /\ headCp' = headCp
  /\ Scored({head, b})

KeepHead(b) ==
  /\ SameCheckpoint(b)
  /\ score'[head] >= score'[b]
  /\ saved' = SavedWith(b)
  /\ UNCHANGED <<headVars, strayed>>
  /\ Continue(b)

MoveHead(b) ==
  /\ SameCheckpoint(b)
  /\ score'[head] < score'[b]
  /\ saved' = saved \cup {b}
  /\ AddBlockToHead(b) \/ ReorganizeHeadTo(b)
  /\ UNCHANGED strayed
  /\ Continue(b)

(* The head checkpoint moves to that of the block: the heaviest block above *)
(* it becomes the head, and its state is opened.  Wrong: its state is not   *)
(* looked for.                                                              *)
NewCheckpoint(b) ==
  /\ ShouldAddBlock(b)
  /\ Record(b)
  /\ headCp' = Candidate(b) /\ headCp' # headCp
  /\ Scored({x \in store' : Under(headCp', x)})

SwitchHeadUnopened(b) ==
  /\ NewCheckpoint(b)
  /\ \E h \in AllBlock :
       /\ Heaviest(h, headCp')
       /\ \/ AddBlockToHead(h) /\ saved' = SavedWith(b) \cup {h}
          \/ ReorganizeHeadTo(h) /\ saved' = SavedWith(b)
  /\ strayed' = FALSE
  /\ Continue(b)
SwitchHead(b) ==
  /\ NewCheckpoint(b)
  /\ \E h \in AllBlock :
       /\ Heaviest(h, headCp')
       /\ \/ AddBlockToHead(h) /\ saved' = SavedWith(b) \cup {h}
          \/ /\ ReorganizeHeadTo(h)
             /\ h \in SavedWith(b)
             /\ saved' = SavedWith(b)
  /\ strayed' = FALSE
  /\ Continue(b)

RaiseOnSwitch(b) ==
  /\ NewCheckpoint(b)
  /\ \E h \in AllBlock \ SavedWith(b) :
       Heaviest(h, headCp') /\ ReorganizeHeadTo(h)
  /\ saved' = SavedWith(b)
  /\ raised' = b
  /\ work' = <<>>
  /\ UNCHANGED <<queueVars, strayed, copies>>

(* The head checkpoint is another than the block's: the head is left alone, *)
(* whether the head checkpoint has moved or not.                            *)
SkipBlock(b) ==
  /\ ShouldAddBlock(b)
  /\ Record(b)
  /\ headCp' # Candidate(b)
  /\ strayed' = (strayed \/ headCp' # headCp)
  /\ saved' = SavedWith(b)
  /\ UNCHANGED <<headVars, score>>
  /\ Continue(b)

-------------------------------------------------------------------------------
AddBlock(b) ==
  \/ LayAsideEarly(b) \/ LayAsideOrphan(b) \/ RaiseNoState(b) \/ RejectBlock(b)
  \/ KeepHead(b) \/ MoveHead(b) \/ SwitchHead(b) \/ RaiseOnSwitch(b)
  \/ SkipBlock(b)

Step ==
  \/ TickLoop
  \/ \E p \in AllBlock : Forget(p)
  \/ \E b \in Block : AddBlock(b)

Next ==
  \/ \E b \in Block : Receive(b)
  \/ \E t \in 0..MaxTime : Tick(t)
  \/ Step

Spec == Init /\ [][Next]_vars

-------------------------------------------------------------------------------
(* Properties.                                                              *)

(* The best score of a checkpoint in the subtree of c.                      *)
BestIn(c, scores, stored) ==
  LET under == {scores[d] : d \in {e \in Checkpoint \cap stored : Under(c, e)}}
  IN CHOOSE s \in under : \A r \in under : r <= s

(* The score kept for a subtree is the best that any checkpoint in it has:  *)
(* the walk towards Genesis may stop early without missing an ancestor.     *)
SubtreeScoresExact ==
  \A c \in (Checkpoint \cap store) \ {Genesis} :
    subtree[c] = BestIn(c, cpScore, store)

(* A child pointer names a child whose subtree no other child's beats, and  *)
(* is missing only below a checkpoint with no committed descendant.         *)
PointersToBest ==
  \A p \in Checkpoint \cap store :
    LET children == {c \in (Checkpoint \cap store) \ {Genesis} : PrevCp(c) = p}
    IN IF cpChild[p] = NoBlock THEN \A c \in children : subtree[c] = 0
       ELSE /\ cpChild[p] \in children
            /\ \A c \in children : subtree[c] <= subtree[cpChild[p]]

(* Descending from the last shared checkpoint finds the head checkpoint     *)
(* that descending from Genesis would.                                      *)
HeadCheckpointBest == headCp = Descend(Genesis, cpChild)

(* test_head_change_for_more_commits: "the chain does not change head       *)
(* unless there are more commits on the alternative fork".  When the head   *)
(* checkpoint moves to another branch, that branch holds a checkpoint with  *)
(* more commits than any on the branch it leaves.                           *)
LeavesForMoreCommits ==
  [][headCp' # headCp /\ ~Under(headCp, headCp') =>
       LET fork == SharedParent(headCp, headCp')
           step == Number[fork] + EpochLength
       IN BestIn(Anc[headCp'][step], cpScore', store')
            > BestIn(Anc[headCp][step], cpScore', store')]_vars

(* Unless the head checkpoint has moved in a skipped block, the head is     *)
(* above it, and no stored block above it is heavier.                       *)
HeaviestAbove ==
  Idle /\ ~strayed =>
    /\ Under(headCp, head)
    /\ \A b \in store :
         Under(headCp, b) => score[b] # Unscored /\ score[b] <= score[head]

(* chain.py:41, chain.py:378 and validator.py:108: a block that the index   *)
(* names is voted on and executed on, and the head is opened after a        *)
(* restart.  However often the head moves to another branch, also while     *)
(* blocks executed on it in memory are stored without their state, all of   *)
(* these have their trie in the database, unless add_block has raised.      *)
IndexedStateSaved ==
  raised = NoBlock =>
    head \in saved /\ \A n \in Height : byNumber[n] \in saved \cup {NoBlock}

(* Nothing that was delivered is lost: between calls no block waits for a   *)
(* parent that is stored, and a valid block is stored, or laid aside.       *)
NothingLost ==
  Idle =>
    /\ \A p \in store : parentQueue[p] = <<>>
    /\ \A b \in Valid : copies[b] > 0 =>
         \/ b \in store
         \/ \E i \in 1..Len(timeQueue) : timeQueue[i] = b
         \/ \E i \in 1..Len(parentQueue[Parent[b]]) : parentQueue[Parent[b]][i] = b
===============================================================================
