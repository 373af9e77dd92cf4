------------------------------ MODULE Validator ------------------------------
(***************************************************************************)
(* A Casper validator on top of its chain, ethereum/hybrid_casper/         *)
(* validator.py.  accept_block hands the block to the chain and, if it is  *)
(* then on the head chain, votes on the state after it.  A broadcast calls *)
(* every node of the network, the sender included, so that while a vote is *)
(* on its way further blocks come in, in calls nested in this one: what    *)
(* the validator mines itself in accept_transaction, and what its peers    *)
(* answer with.  `calls' is the stack of accept_block calls in progress.   *)
(*                                                                         *)
(* The Casper contract is no part of the repository: what it says of a     *)
(* state is given by constants.  The transaction queue, the transactions   *)
(* that wrap the votes, deposits and logouts are left out.                 *)
(***************************************************************************)
EXTENDS CasperChain

CONSTANTS
  TakesPrepare,  \* the blocks after which the contract takes this
                 \* validator's prepare
  Justified,     \* the blocks after which the checkpoint of their epoch is
                 \* justified, so that a commit is taken
  Tipping,       \* those after which this validator's prepare justifies it
  MaxDepth       \* bound on the nesting of accept_block

ASSUME ValidatorAssumption ==
  /\ TakesPrepare \subseteq Block
  /\ Justified \subseteq Block
  /\ Tipping \subseteq Block
  /\ MaxDepth \in Nat

VARIABLES
  prepares,         \* prepares, by epoch
  prevPrepareEpoch, \* prev_prepare_epoch
  prevCommitEpoch,  \* prev_commit_epoch
  calls,            \* accept_block calls in progress, innermost first
  sent              \* history: the votes that were broadcast

voteVars == <<prepares, prevPrepareEpoch, prevCommitEpoch, sent>>
validatorVars == <<vars, voteVars, calls>>

Epoch(b) == Number[b] \div EpochLength
EpochCp(b) == Anc[b][Epoch(b) * EpochLength]

(* get_recommended_source_epoch on the state after b: the last epoch before *)
(* its own that the branch has justified.                                   *)
Source(b) ==
  LET below == {Epoch(a) : a \in {c \in Justified :
                                   Under(c, b) /\ Epoch(c) < Epoch(b)}} \cup {0}
  IN CHOOSE e \in below : \A f \in below : f <= e

Prepare(b) == [vote |-> "prepare", epoch |-> Epoch(b), cp |-> EpochCp(b),
               source |-> Source(b)]
Commit(b) == [vote |-> "commit", epoch |-> Epoch(b), cp |-> EpochCp(b)]

ValidatorInit ==
  /\ Init
  /\ prepares = <<>>
  /\ prevPrepareEpoch = 0
  /\ prevCommitEpoch = 0
  /\ calls = <<>>
  /\ sent = {}

(* The innermost accept_block, between two calls into the chain.            *)
Accepting(b, at) ==
  /\ Idle /\ calls # <<>>
  /\ Head(calls).block = b /\ Head(calls).at = at

Continuing(at, own) ==
  calls' = <<[Head(calls) EXCEPT !.at = at, !.own = own]>> \o Tail(calls)

-------------------------------------------------------------------------------
(* Network.broadcast, on_receive and the start of accept_block: the clock   *)
(* is read, the chain looks at its time queue and then at the block.        *)
AcceptBlock(b, t) ==
  /\ Idle
  /\ calls # <<>> => Head(calls).at \in {"prepared", "committed"}
  /\ Len(calls) < MaxDepth
  /\ copies[b] < MaxCopies
  /\ t >= localtime
  /\ copies' = [copies EXCEPT ![b] = @ + 1]
  /\ localtime' = t
  /\ work' = <<TickCall(0, -1), AddCall(b)>>
  /\ calls' = <<[block |-> b, at |-> "adding", own |-> FALSE]>> \o calls
  /\ UNCHANGED <<blockVars, headVars, score, saved, timeQueue, parentQueue,
                 strayed, raised, voteVars>>

(* The chain at work in add_block.                                          *)
ChainStep == Step /\ UNCHANGED <<voteVars, calls>>

(* add_block has returned True; the index names the block; and it is far    *)
(* enough in its epoch.                                                     *)
Votes(b) ==
  /\ b \in store
  /\ byNumber[Number[b]] = b
  /\ Number[b] % EpochLength >= EpochLength \div 3

IgnoreBlock(b) ==
  /\ Accepting(b, "adding")
  /\ ~Votes(b)
  /\ calls' = Tail(calls)
  /\ UNCHANGED <<vars, voteVars>>

-------------------------------------------------------------------------------
(* generate_prepare_message.                                                *)

(* Wrong: only the highest epoch is remembered.                             *)
PreparesLatest(b) ==
  /\ Epoch(b) # prevPrepareEpoch
  /\ ~(Source(b) < prevCommitEpoch /\ prevCommitEpoch < Epoch(b))
  /\ b \in TakesPrepare
Prepares(b) ==
  /\ Epoch(b) \notin DOMAIN prepares
  /\ ~(Source(b) < prevCommitEpoch /\ prevCommitEpoch < Epoch(b))
  /\ b \in TakesPrepare

NoPrepare(b) ==
  /\ Accepting(b, "adding")
  /\ Votes(b)
  /\ ~Prepares(b)
  /\ Continuing("silent", FALSE)
  /\ UNCHANGED <<vars, voteVars>>

(* The prepare is noted, then broadcast.                                    *)
SendPrepare(b) ==
  /\ Accepting(b, "adding")
  /\ Votes(b)
  /\ Prepares(b)
  /\ prepares' = [e \in DOMAIN prepares \cup {Epoch(b)} |->
                    IF e = Epoch(b) THEN Prepare(b) ELSE prepares[e]]
  /\ prevPrepareEpoch' = IF Epoch(b) > prevPrepareEpoch THEN Epoch(b)
                         ELSE prevPrepareEpoch
  /\ sent' = sent \cup {Prepare(b)}
  /\ Continuing("prepared", TRUE)
  /\ UNCHANGED <<vars, prevCommitEpoch>>

(* generate_commit_message, on the state after the block that the prepare   *)
(* was tried on, with the epochs as the nested calls have left them.        *)
Commits(b) ==
  /\ ~(prevPrepareEpoch < prevCommitEpoch /\ prevCommitEpoch < Epoch(b))
  /\ b \in Justified \/ (Head(calls).own /\ b \in Tipping)

NoCommit(b) ==
  /\ Accepting(b, "silent") \/ Accepting(b, "prepared")
  /\ ~Commits(b)
  /\ calls' = Tail(calls)
  /\ UNCHANGED <<vars, voteVars>>

SendCommit(b) ==
  /\ Accepting(b, "silent") \/ Accepting(b, "prepared")
  /\ Commits(b)
  /\ prevCommitEpoch' = Epoch(b)
  /\ sent' = sent \cup {Commit(b)}
  /\ Continuing("committed", Head(calls).own)
  /\ UNCHANGED <<vars, prepares, prevPrepareEpoch>>

(* The commit has reached every node.                                       *)
Return(b) ==
  /\ Accepting(b, "committed")
  /\ calls' = Tail(calls)
  /\ UNCHANGED <<vars, voteVars>>

Vote(b) ==
  \/ IgnoreBlock(b) \/ NoPrepare(b) \/ SendPrepare(b) \/ NoCommit(b)
  \/ SendCommit(b) \/ Return(b)

ValidatorNext ==
  \/ \E b \in Block, t \in 0..MaxTime : AcceptBlock(b, t)
  \/ ChainStep
  \/ \E b \in Block : Vote(b)

ValidatorSpec == ValidatorInit /\ [][ValidatorNext]_validatorVars

-------------------------------------------------------------------------------
(* Properties.                                                              *)

(* validator.py:108: the state that a vote is judged on has its trie in the *)
(* database, as IndexedStateSaved says of every block that the index names. *)
VotesOnSavedState == Idle => \A b \in Block : Votes(b) => b \in saved

SentPrepares == {m \in sent : m.vote = "prepare"}
SentCommits == {m \in sent : m.vote = "commit"}

(* validator.py:136, "NO_DBL_PREPARE: Don't prepare if we have already":    *)
(* whatever comes in while a prepare is on its way, and to whatever branch  *)
(* the head moves, there are no two prepares for one epoch.                 *)
NoDoublePrepare ==
  \A p, q \in SentPrepares : p.epoch = q.epoch => p = q

(* validator.py:144 and 168, "PREPARE_COMMIT_CONSISTENCY": no prepare       *)
(* reaches over the epoch of a commit, back to a source below it.           *)
PrepareCommitConsistency ==
  \A p \in SentPrepares, c \in SentCommits :
    ~(p.source < c.epoch /\ c.epoch < p.epoch)
===============================================================================
