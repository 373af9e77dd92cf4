--------------------------- MODULE ValidatorProofs ---------------------------
(***************************************************************************)
(* What is proved about Validator, for every block tree, every contract    *)
(* and every depth of nesting.                                             *)
(***************************************************************************)
EXTENDS Validator, TLAPS

(* What was broadcast as a prepare is what is noted for its epoch.          *)
PreparesNoted ==
  \A m \in SentPrepares : m.epoch \in DOMAIN prepares /\ prepares[m.epoch] = m

(* A step that leaves the votes alone, and one that adds a commit, keep the *)
(* invariant; so does a prepare for an epoch that has none.                 *)
LEMMA NotedKept ==
  ASSUME PreparesNoted, UNCHANGED prepares, SentPrepares' = SentPrepares
  PROVE  PreparesNoted'
BY DEF PreparesNoted

LEMMA CommitKeeps ==
  ASSUME NEW b \in Block, PreparesNoted, SendCommit(b)
  PROVE  PreparesNoted'
<1>1. SentPrepares' = SentPrepares
  BY DEF SendCommit, SentPrepares, Commit
<1> QED BY <1>1, NotedKept DEF SendCommit

LEMMA PrepareKeeps ==
  ASSUME NEW b \in Block, PreparesNoted, SendPrepare(b)
  PROVE  PreparesNoted'
<1> DEFINE e == Epoch(b)
           p == Prepare(b)
<1>1. /\ e \notin DOMAIN prepares
      /\ prepares' = [f \in DOMAIN prepares \cup {e} |->
                        IF f = e THEN p ELSE prepares[f]]
      /\ sent' = sent \cup {p}
  BY DEF SendPrepare, Prepares
<1>2. p.epoch = e
  BY DEF Prepare
<1>3. SUFFICES ASSUME NEW m \in SentPrepares'
               PROVE  m.epoch \in DOMAIN prepares' /\ prepares'[m.epoch] = m
  BY DEF PreparesNoted
<1> HIDE DEF e, p
<1>4. CASE m = p
  BY <1>1, <1>2, <1>4
<1>5. CASE m # p
  <2>1. m \in SentPrepares
    BY <1>1, <1>5 DEF SentPrepares
  <2>2. m.epoch \in DOMAIN prepares /\ prepares[m.epoch] = m
    BY <2>1 DEF PreparesNoted
  <2> QED BY <1>1, <2>2
<1> QED BY <1>4, <1>5

LEMMA InitNoted == ValidatorInit => PreparesNoted
BY DEF ValidatorInit, PreparesNoted, SentPrepares

LEMMA NextNoted == PreparesNoted /\ [ValidatorNext]_validatorVars => PreparesNoted'
<1> SUFFICES ASSUME PreparesNoted, [ValidatorNext]_validatorVars
             PROVE  PreparesNoted'
  OBVIOUS
<1>1. ASSUME UNCHANGED voteVars
      PROVE  PreparesNoted'
  BY <1>1, NotedKept DEF voteVars, SentPrepares
<1>2. ASSUME NEW b \in Block, NEW t \in 0..MaxTime, AcceptBlock(b, t)
      PROVE  PreparesNoted'
  BY <1>1, <1>2 DEF AcceptBlock
<1>3. CASE ChainStep
  BY <1>1, <1>3 DEF ChainStep
<1>4. ASSUME NEW b \in Block, Vote(b)
      PROVE  PreparesNoted'
  <2>1. CASE SendPrepare(b)
    BY <2>1, PrepareKeeps
  <2>2. CASE SendCommit(b)
    BY <2>2, CommitKeeps
  <2>3. CASE IgnoreBlock(b) \/ NoPrepare(b) \/ NoCommit(b) \/ Return(b)
    BY <1>1, <2>3 DEF IgnoreBlock, NoPrepare, NoCommit, Return
  <2> QED BY <1>4, <2>1, <2>2, <2>3 DEF Vote
<1>5. CASE UNCHANGED validatorVars
  BY <1>1, <1>5 DEF validatorVars
<1> QED BY <1>2, <1>3, <1>4, <1>5 DEF ValidatorNext

LEMMA NotedSuffices == PreparesNoted => NoDoublePrepare
BY DEF PreparesNoted, NoDoublePrepare

(* accept_block and generate_prepare_message: however the calls nest and    *)
(* wherever the head moves, no epoch is prepared twice with another         *)
(* message.                                                                 *)
THEOREM NoEpochPreparedTwice == ValidatorSpec => []NoDoublePrepare
<1>1. ValidatorSpec => []PreparesNoted
  BY InitNoted, NextNoted, PTL DEF ValidatorSpec
<1> QED BY <1>1, NotedSuffices, PTL
-------------------------------------------------------------------------------
(* Whatever has a trie in the database has one for every block below it,    *)
(* and the index and the head name only such blocks.                        *)
PathsSaved ==
  /\ store \subseteq AllBlock /\ saved \subseteq AllBlock
  /\ \A b \in saved : \A n \in 0..Number[b] : Anc[b][n] \in saved
  /\ head \in saved /\ Genesis \in saved
  /\ byNumber \in [Height -> saved \cup {NoBlock}]

(* A block and the path to it, as the steps below use them.                 *)
LEMMA Paths ==
  /\ Number \in [AllBlock -> Height] /\ Genesis \in AllBlock
  /\ NoBlock \notin AllBlock /\ Number[Genesis] = 0
  /\ Anc[Genesis][0] = Genesis
  /\ \A b \in AllBlock : Anc[b][Number[b]] = b
  /\ \A b \in Block :
       /\ Number[b] = Number[Parent[b]] + 1 /\ Parent[b] \in AllBlock
       /\ b \in AllBlock
       /\ \A n \in 0..Number[Parent[b]] : Anc[b][n] = Anc[Parent[b]][n]
<1>1. TreeAssumption /\ AncestorAssumption
  BY BlockTreeAssumption
<1>2. \A b \in AllBlock : Number[b] \in Nat
  BY <1>1 DEF TreeAssumption, Height
<1>3. ASSUME NEW b \in Block, NEW n \in 0..Number[Parent[b]]
      PROVE  Anc[b][n] = Anc[Parent[b]][n]
  <2>1. /\ Parent[b] \in AllBlock /\ b \in AllBlock
        /\ Number[b] = Number[Parent[b]] + 1
    BY <1>1 DEF TreeAssumption, AllBlock
  <2>2. /\ Number[b] \in 1..Number[b] /\ Number[b] - 1 = Number[Parent[b]]
        /\ Number[Parent[b]] \in 0..Number[b] /\ n \in 0..Number[b]
    BY <1>2, <2>1
  <2>3. Anc[b][Number[Parent[b]]] = Parent[b]
    BY <1>1, <2>1, <2>2 DEF AncestorAssumption
  <2> QED BY <1>1, <2>1, <2>2, <2>3 DEF AncestorAssumption
<1> QED BY <1>1, <1>3 DEF TreeAssumption, AncestorAssumption, AllBlock

(* Saving a block on a saved one keeps the paths saved.                     *)
LEMMA SavingKeepsPaths ==
  ASSUME NEW S \in SUBSET AllBlock, NEW b \in Block, Parent[b] \in S,
         \A c \in S : \A n \in 0..Number[c] : Anc[c][n] \in S
  PROVE  \A c \in S \cup {b} : \A n \in 0..Number[c] : Anc[c][n] \in S \cup {b}
<1> SUFFICES ASSUME NEW n \in 0..Number[b]
             PROVE  Anc[b][n] \in S \cup {b}
  OBVIOUS
<1>1. Number[Parent[b]] \in Nat /\ Number[b] = Number[Parent[b]] + 1
  BY Paths DEF Height
<1>2. CASE n = Number[b]
  BY <1>2, Paths
<1>3. CASE n # Number[b]
  <2>1. n \in 0..Number[Parent[b]]
    BY <1>1, <1>3
  <2> QED BY <2>1, Paths
<1> QED BY <1>2, <1>3

(* A step of the chain that leaves the head and the index alone and stores  *)
(* at most a block whose parent's state is found.                           *)
LEMMA StoringKeeps ==
  ASSUME NEW b \in Block, PathsSaved, StateFound(b),
         store' = store \cup {b}, saved' \in {saved, saved \cup {b}},
         UNCHANGED <<head, byNumber>>
  PROVE  PathsSaved'
<1>1. Parent[b] \in saved
  BY DEF StateFound, PathsSaved
<1>2. \A c \in saved' : \A n \in 0..Number[c] : Anc[c][n] \in saved'
  BY <1>1, SavingKeepsPaths DEF PathsSaved
<1>3. byNumber' \in [Height -> saved' \cup {NoBlock}]
  BY DEF PathsSaved
<1> QED BY <1>2, <1>3 DEF PathsSaved, AllBlock

(* The head moves to a saved block.                                         *)
LEMMA MovingKeeps ==
  ASSUME NEW h \in AllBlock, h \in saved', store' \subseteq AllBlock,
         PathsSaved, saved \subseteq saved', saved' \subseteq AllBlock,
         \A c \in saved' : \A n \in 0..Number[c] : Anc[c][n] \in saved',
         AddBlockToHead(h) \/ ReorganizeHeadTo(h)
  PROVE  PathsSaved'
<1>1. head' = h
  BY DEF AddBlockToHead, ReorganizeHeadTo
<1>2. byNumber' \in [Height -> saved' \cup {NoBlock}]
  <2>1. CASE AddBlockToHead(h)
    BY <2>1 DEF AddBlockToHead, PathsSaved
  <2>2. CASE ReorganizeHeadTo(h)
    <3>1. PICK r \in Height :
            byNumber' = [n \in Height |-> IF n \in Rewritten(h, r)
                                         THEN ReindexedBlock(h, n)
                                         ELSE byNumber[n]]
      BY <2>2 DEF ReorganizeHeadTo
    <3>2. ASSUME NEW n \in Height
          PROVE  ReindexedBlock(h, n) \in saved' \cup {NoBlock}
      <4>1. Number[h] \in Nat /\ n \in Nat
        BY Paths DEF Height
      <4> QED BY <4>1 DEF ReindexedBlock
    <3>3. ASSUME NEW n \in Height
          PROVE  byNumber[n] \in saved' \cup {NoBlock}
      BY DEF PathsSaved
    <3> QED BY <3>1, <3>2, <3>3
  <2> QED BY <2>1, <2>2
<1> QED BY <1>1, <1>2 DEF PathsSaved

-------------------------------------------------------------------------------
(* add_block keeps the paths saved.                                         *)
LEMMA AddBlockKeepsPaths ==
  ASSUME NEW b \in Block, PathsSaved, AddBlock(b)
  PROVE  raised' # NoBlock \/ PathsSaved'
<1> USE DEF vars, blockVars, headVars, queueVars
<1>1. ASSUME UNCHANGED <<store, saved, head, byNumber>>
      PROVE  PathsSaved'
  BY <1>1 DEF PathsSaved
<1>2. CASE \/ LayAsideEarly(b) \/ LayAsideOrphan(b) \/ RaiseNoState(b)
           \/ RejectBlock(b)
  BY <1>1, <1>2 DEF LayAsideEarly, LayAsideOrphan, RaiseNoState, RejectBlock
<1>3. ASSUME ShouldAddBlock(b)
      PROVE  /\ StateFound(b) /\ Parent[b] \in saved
             /\ SavedWith(b) \in {saved, saved \cup {b}}
             /\ b \in AllBlock
             /\ \A S \in {SavedWith(b), saved \cup {b}} :
                  /\ S \subseteq AllBlock /\ saved \subseteq S
                  /\ \A c \in S : \A n \in 0..Number[c] : Anc[c][n] \in S
  <2>1. StateFound(b) /\ Parent[b] \in saved
    BY <1>3 DEF ShouldAddBlock, StateFound, PathsSaved
  <2>2. \A c \in saved \cup {b} :
          \A n \in 0..Number[c] : Anc[c][n] \in saved \cup {b}
    BY <2>1, SavingKeepsPaths DEF PathsSaved
  <2> QED BY <2>1, <2>2 DEF SavedWith, PathsSaved, AllBlock
<1>4. ASSUME Record(b)
      PROVE  store' = store \cup {b} /\ store' \subseteq AllBlock
  BY <1>4 DEF Record, PathsSaved, AllBlock
<1>5. CASE KeepHead(b)
  BY <1>3, <1>4, <1>5, StoringKeeps DEF KeepHead, SameCheckpoint
<1>6. CASE MoveHead(b)
  BY <1>3, <1>4, <1>6, MovingKeeps DEF MoveHead, SameCheckpoint
<1>7. CASE SwitchHead(b)
  <2>1. ShouldAddBlock(b) /\ Record(b)
    BY <1>7 DEF SwitchHead, NewCheckpoint
  <2>2. PICK h \in AllBlock :
          \/ AddBlockToHead(h) /\ saved' = SavedWith(b) \cup {h}
          \/ ReorganizeHeadTo(h) /\ h \in SavedWith(b) /\ saved' = SavedWith(b)
    BY <1>7 DEF SwitchHead
  <2>3. CASE ReorganizeHeadTo(h) /\ h \in SavedWith(b) /\ saved' = SavedWith(b)
    BY <1>3, <1>4, <2>1, <2>3, MovingKeeps
  <2>4. CASE AddBlockToHead(h) /\ saved' = SavedWith(b) \cup {h}
    <3>1. h # Genesis => h \in Block /\ Parent[h] \in SavedWith(b)
      BY <1>3, <2>1, <2>4 DEF AddBlockToHead, PathsSaved, AllBlock
    <3>2. Genesis \in SavedWith(b) /\ saved' \subseteq AllBlock
      BY <1>3, <2>1, <2>4 DEF PathsSaved
    <3>3. \A c \in saved' : \A n \in 0..Number[c] : Anc[c][n] \in saved'
      BY <1>3, <2>1, <2>4, <3>1, <3>2, SavingKeepsPaths
    <3> QED BY <1>3, <1>4, <2>1, <2>4, <3>2, <3>3, MovingKeeps
  <2> QED BY <2>2, <2>3, <2>4
<1>8. CASE RaiseOnSwitch(b)
  BY <1>8, Paths DEF RaiseOnSwitch, AllBlock
<1>9. CASE SkipBlock(b)
  BY <1>3, <1>4, <1>9, StoringKeeps DEF SkipBlock
<1> QED BY <1>2, <1>5, <1>6, <1>7, <1>8, <1>9 DEF AddBlock

(* Nothing but add_block writes to the database, and nothing follows once   *)
(* it has raised.                                                           *)
SavedInv == raised = NoBlock => PathsSaved

LEMMA InitSaved == Init => SavedInv
<1> SUFFICES ASSUME Init
             PROVE  PathsSaved
  BY DEF SavedInv
<1>1. \A n \in 0..Number[Genesis] : Anc[Genesis][n] = Genesis
  BY Paths
<1> QED BY <1>1, Paths DEF Init, PathsSaved

LEMMA RaisedStays ==
  ASSUME NEW b \in Block, AddBlock(b)
  PROVE  raised' \in {raised, b}
BY DEF AddBlock, LayAsideEarly, LayAsideOrphan, RaiseNoState, RejectBlock,
       KeepHead, MoveHead, SwitchHead, RaiseOnSwitch, SkipBlock, Continue

LEMMA SavedUntouched ==
  ASSUME SavedInv, UNCHANGED <<store, saved, head, byNumber, raised>>
  PROVE  SavedInv'
BY DEF SavedInv, PathsSaved

LEMMA StepSaved ==
  ASSUME SavedInv, Step
  PROVE  SavedInv'
<1>1. CASE TickLoop
  BY <1>1, SavedUntouched DEF TickLoop, blockVars, headVars
<1>2. ASSUME NEW p \in AllBlock, Forget(p)
      PROVE  SavedInv'
  BY <1>2, SavedUntouched DEF Forget, blockVars, headVars
<1>3. ASSUME NEW b \in Block, AddBlock(b)
      PROVE  SavedInv'
  <2>1. b # NoBlock
    BY Paths DEF AllBlock
  <2> QED BY <1>3, <2>1, RaisedStays, AddBlockKeepsPaths DEF SavedInv
<1> QED BY <1>1, <1>2, <1>3 DEF Step

(* The chain on its own, and under a validator.                             *)
LEMMA ChainNextSaved == SavedInv /\ [Next]_vars => SavedInv'
<1> SUFFICES ASSUME SavedInv, [Next]_vars
             PROVE  SavedInv'
  OBVIOUS
<1>1. ASSUME NEW b \in Block, Receive(b)
      PROVE  SavedInv'
  BY <1>1, SavedUntouched DEF Receive, blockVars, headVars
<1>2. ASSUME NEW t \in 0..MaxTime, Tick(t)
      PROVE  SavedInv'
  BY <1>2, SavedUntouched DEF Tick, blockVars, headVars
<1>3. CASE UNCHANGED vars
  BY <1>3, SavedUntouched DEF vars, blockVars, headVars
<1> QED BY <1>1, <1>2, <1>3, StepSaved DEF Next

LEMMA NextSaved == SavedInv /\ [ValidatorNext]_validatorVars => SavedInv'
<1> SUFFICES ASSUME SavedInv, [ValidatorNext]_validatorVars
             PROVE  SavedInv'
  OBVIOUS
<1>1. ASSUME UNCHANGED <<store, saved, head, byNumber, raised>>
      PROVE  SavedInv'
  BY <1>1, SavedUntouched
<1>2. ASSUME NEW b \in Block, NEW t \in 0..MaxTime, AcceptBlock(b, t)
      PROVE  SavedInv'
  BY <1>1, <1>2 DEF AcceptBlock, blockVars, headVars
<1>3. CASE ChainStep
  BY <1>3, StepSaved DEF ChainStep
<1>4. ASSUME NEW b \in Block, Vote(b)
      PROVE  SavedInv'
  BY <1>1, <1>4 DEF Vote, IgnoreBlock, NoPrepare, SendPrepare, NoCommit,
                    SendCommit, Return, vars, blockVars, headVars
<1>5. CASE UNCHANGED validatorVars
  BY <1>1, <1>5 DEF validatorVars, vars, blockVars, headVars
<1> QED BY <1>2, <1>3, <1>4, <1>5 DEF ValidatorNext

LEMMA IndexedSuffices == SavedInv => IndexedStateSaved
BY DEF SavedInv, IndexedStateSaved, PathsSaved

LEMMA VotesSuffice == IndexedStateSaved => VotesOnSavedState
<1> SUFFICES ASSUME IndexedStateSaved, Idle, NEW b \in Block, Votes(b)
             PROVE  b \in saved
  BY DEF VotesOnSavedState
<1>1. b # NoBlock /\ Number[b] \in Height /\ byNumber[Number[b]] = b
  BY Paths DEF Votes, AllBlock
<1> QED BY <1>1 DEF IndexedStateSaved, Idle

(* mk_poststate_of_blockhash in set_head, accept_block and __init__: for    *)
(* every block tree, all votes and every order of delivery, the blocks that *)
(* the index and the head name have their states in the database.           *)
THEOREM IndexedStatesSaved == Spec => []IndexedStateSaved
<1>1. Spec => []SavedInv
  BY InitSaved, ChainNextSaved, PTL DEF Spec
<1> QED BY <1>1, IndexedSuffices, PTL

(* accept_block: the same of a chain that a validator drives, also in the   *)
(* calls that nest in its broadcasts; so that a vote is never judged on a   *)
(* state that is missing.                                                   *)
THEOREM VotedStateSaved ==
  ValidatorSpec => [](IndexedStateSaved /\ VotesOnSavedState)
<1>1. ValidatorInit => SavedInv
  BY InitSaved DEF ValidatorInit
<1>2. ValidatorSpec => []SavedInv
  BY <1>1, NextSaved, PTL DEF ValidatorSpec
<1>3. SavedInv => IndexedStateSaved /\ VotesOnSavedState
  BY IndexedSuffices, VotesSuffice
<1> QED BY <1>2, <1>3, PTL
===============================================================================
