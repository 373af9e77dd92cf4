# TLA+ verification of the chain core

The repository is a fork of pyethereum: a library that keeps an Ethereum chain,
executes blocks and transactions, and carries a prototype of hybrid Casper (a
proof-of-stake finality gadget on top of proof of work). This directory holds
TLA+ models of its core, the TLC configurations that check them, and proofs that
TLAPS checks. `PROJECT.json` maps every definition to the lines it models.

    tlc -workers 2 -config PowFork.cfg MCPowChain.tla     one run
    tlapm PowChainProofs.tla                              the proofs of a module

## 1. Inventory

| component | state it keeps | operations | hard because |
|---|---|---|---|
| `pow/chain.py` Chain | database keys `block:`, `child:`, `txindex:`, `score:`, `deletes:`, `changed:`, `head_hash`; head, head state, time queue, parent queue, clock | `add_block`, `process_time_queue`, queries | blocks come in any order, early, twice; add_block calls itself; reorganisation, delayed deletion of shared trie nodes, partial failure |
| `hybrid_casper/chain.py` Chain | the same, checkpoint scores, best children, head checkpoint | `add_block`, `reorganize_head_to`, `get_score` | the fork choice follows votes that arrive in side blocks |
| `hybrid_casper/validator.py` | vote history, mempool, network of peers | `on_receive`, `update_mempool`, `generate_*_message` | re-entrant broadcast, slashing conditions, stale state |
| `transaction_queue.py` | two heaps and a counter | add, pop, diff | priorities change while laid aside; diff rebuilds |
| `state.py` State | trie, account cache, undo journal, block variables | snapshot, revert, commit, setters | nested snapshots, reverting across a commit |
| `messages.py` | (State) | `apply_transaction`, `apply_message`, `create_contract` | gas and value conservation over nested failure |
| `common.py`, `meta.py`, `pow/consensus.py` | (State) | header rules, `apply_block`, `make_head_candidate`, uncles | the builder and the verifier must agree; integer boundaries |
| `db.py`, `experimental/refcount_db.py` | reference counts, overlay, death row | put, delete, revert, cleanup | delayed deletion against reorganisation |
| `trie.py`, `securetrie.py` | node graph in a database | update, delete, deletes list | shared and inlined nodes |
| `vm.py`, `fastvm.py` | stack, memory, gas | execution | gas accounting, call depth |
| `pow/ethpow.py`, `ethash*.py` | epoch caches | mining | pure computation |
| `abi`, `utils`, `bloom`, `rlp` helpers, tools | none | conversion | pure computation |

How they interact. `add_block` executes a block with `apply_block`, which drives
the consensus strategy, `messages` and `State`; State writes the trie through
`RefcountDB` into the environment's database, which the chain also uses for its
indices. The chain is driven from outside by `add_block` and
`process_time_queue`; inside one such call it calls itself for blocks that
waited, and calls back `new_head_cb`. `make_head_candidate` takes transactions
out of a `TransactionQueue`. A Casper validator owns a chain and exchanges
blocks and votes with its peers. There are no threads: concurrency is the
order of calls and messages, and re-entrance.

What makes each component correct:

- chain manager: the head is a heaviest stored block; the indices describe
  exactly the path to it; no delivered block is lost; pruning never takes away the
  state of the head, or of a block whose branch leaves the main chain above what
  may have been pruned; a failed block leaves no trace;
- Casper chain: the head descends from the checkpoint with the best score; the
  best-child pointers agree with the subtree scores;
- validator: it never makes two votes that are slashable together, whatever its
  peers send;
- transaction queue: highest price first, first in first out among equals, none
  lost or duplicated;
- state: revert restores what the snapshot saw, whatever happened in between;
- transaction processing: value and gas are conserved, nonces rise by one;
- header rules: every header the builder makes is one the verifier accepts;
- databases: counts equal the references that exist.

The hazards that follow, each at its line, are in `PROJECT.json`.

## 2. Plan

Order of the modules; those marked with * exist.

1. `BlockTree`*, `PowChain`*, `ForkChoice`* (abstract), `PowChainProofs`*: the
   chain manager.
2. `TransactionQueue`*, `TransactionQueueProofs`*: the heaps, `add_transaction`,
   `pop_transaction`, `diff`.
3. `CasperChain`*, `CasperQueueProofs`*, `CasperChainProofs`*: checkpoints, scores,
   best children, head checkpoint and reorganisation of `hybrid_casper/chain.py`.
4. `State`*, `Snapshots`* (abstract), `Messages`*, `MessagesProofs`*: snapshot,
   revert and commit, and the blocks, transactions and messages that nest them.
5. `Validator`*, `ValidatorProofs`*: votes on top of `CasperChain`, with
   re-entrant broadcasts.
6. `HeaderRules`*, `Candidates`*, `CandidatesProofs`*: header arithmetic, the block a
   node makes against the block it accepts, uncles.
7. `TrieNodes`*, `Dictionary`* (abstract), `Trie`*, `PruningTrie`*: both tries and the
   two reference-counting databases below them.
8. `Words`*, `VM`*, `FastVM`*: the three virtual machines.
9. Open: `PowRestart` and `CasperRestart` (the constructors on a saved head),
   the `address:` cache, `Overlay` of `db.py`, splitting and merging of tries,
   receipts and their bloom filters, the composition of `TransactionQueue` with
   `Candidates` (add_transactions).

Theorems that exist are listed with their modules below; they state every
invariant that the runs check of `PowChain`, `TransactionQueue`, `CasperChain`,
`Validator`, `Candidates` and `Messages`, and both refinements.

The proofs share `Induction`. The induction theorems of the library take a
predicate as a parameter, which the provers cannot instantiate. `Induction`
states the same about sets: a set that has 0 and with every number its successor
has all numbers (`UpTo`, `FromBelow`, from the well-foundedness of finite sets),
and from it that a loop of n rounds, each a function on the states, has a run
(`Rounds`). A function that TLA+ defines by recursion is a run of its loop, so
what the model computes by recursive functions (the sift of a heap, the walk up
a branch, the descent along pointers, the undoing of a journal, the burial of
suicides) is proved like any invariant of a loop. `Induction` also has what the
sums of the community modules need: they pick the summands one after another, and
`AddsAny` shows that it does not matter which comes first (`SumIs`, `SumSame`,
`SumChanged`, `SumAppended`).

How the modules compose. `Validator` extends `CasperChain`, which extends
`BlockTree` as `PowChain` does. `CasperChainProofs` extends `CasperQueueProofs`
with the invariant proved there. `Messages` extends `State`. `Trie` and `PruningTrie`
extend `TrieNodes`. `FastVM` extends `VM`, which extends `Words`. `Candidates`
extends `HeaderRules`. A trie is an opaque set of nodes in `PowChain` and a
total function in `State`: `Trie` is where it is checked that deleting what is noted
(the `deletes:` logs of `PowChain`) takes no live node and that the trie
is the function. `Trie` may also note a hash that was never stored ("Known
divergences"), which the sets of `PowChain` do not have. `Messages` leaves the instructions between calls to `VM`, and
`VM` the calls to `Messages`.

## 3. BlockTree, PowChain and ForkChoice

`BlockTree` is the universe: a block is an abstract value, the header and body
fields that the chain branches on are constant functions of it. A block names
its parent by hash, so the parents form a tree and are known even for blocks
that have not been delivered. `Anc[b][n]` is the ancestor of `b` at height `n`;
it is a constant with an assumption rather than a recursive definition, so that
proofs can use it. `NonceAssumption` says that a transaction is on a path at
most once (its nonce is consumed; `validate_transaction`).

`PowChain` models `pow/chain.py`.

| variable | code |
|---|---|
| `store` | blocks stored under their hash |
| `childIndex`, `byNumber`, `txIndex`, `score`, `headKey` | `child:`, `block:`, `txindex:` (height part), `score:`, `head_hash` |
| `kept` | blocks that have their `deletes:` and `changed:` logs |
| `refs` | reference count of every trie node (`RefcountDB`) |
| `head`, `dirty` | `head_hash`; whether `self.state` carries writes of a refused block |
| `timeQueue`, `parentQueue`, `localtime` | the attributes of the same name |
| `work` | stack of the calls in progress |
| `raised`, `called`, `copies` | history: the block whose `add_block` raised, the last callback, deliveries |

`Receive` and `Tick` are the calls from outside; every other action runs the
innermost pending call. `TickLoop` is one test of the loop of
`process_time_queue`. The actions of `add_block` are its paths:
`LayAsideEarly`, `AddToHead`, `RejectOnHead`, `RaiseNoState`, `RejectOffHead`,
`AddOffHead`, `Reorganize`, `RaiseNoLog`, `LayAsideOrphan`; `Finish` is the tail
that the accepting paths share, with the pruning and the callback, and it pushes
the calls for the blocks that waited and a `Forget` frame for the `del` after
them. `Waiting` takes the parent's queue as it is when the loop starts: nothing
can be appended to it meanwhile, since its block is stored.

Abstractions:

- A trie is the set of its nodes, keyed by hash; executing `b` adds a reference
  to the nodes of its state that its parent's state has not, and the `deletes:`
  log is the converse difference (`ReplacedBy`). Nodes that a refused block has
  written are not modelled: they only make counts higher.
- Executing a block is `Outcome`: the verdict on the intact state is a constant
  of the block (`ok`, `reverted` for the checks that raise ValueError or
  AssertionError, `unreverted` for those apply_block does not undo), spoilt by
  missing nodes or by a dirty state.
- `get_score` walks up to the first cached score; `StoredTree` shows that this
  is always the parent's, which is what `Scored` reads.
- The `address:` cache is left out: its only reader is switched off by
  `and False`. The position of a transaction in its block is a function of both
  and is left out of `txIndex`.
- Genesis has number 0 and its keys exist from the start. A restart from a
  saved head is not modelled: the constructor raises on it (line 40 reads
  `'head_hash'` with a str key, line 84 asserts a state one block ahead).
- After an exception leaves `add_block` the model stops (`raised`).
- The clock does not go back (src/README.md:30: "has increased").
- `new_head_cb` is external and does not call back into the chain.

`ForkChoice` is what the chain promises: blocks are accepted once, below an
accepted parent and heavier than it, and the tip moves exactly to a block that
is heaviest when accepted. `ImplementsForkChoice` maps the stored blocks to the
accepted ones and their cached scores to the weights.

### Runs

| run | shows | bounds |
|---|---|---|
| `pow_fork` | indices, scores, retained states, queues; what was delivered with its whole path is stored in the end | two branches of 3 and 4 blocks of equal difficulty with shared trie content; the blocks from height 3 on come from the future; every block delivered up to twice; `MaxHistory` 2, so that heights are pruned and a late branch forks off below them |
| `pow_heavy` | fork choice, refinement, reorganisation to a shorter chain | a heavy block against a long chain, tie-break noise (`RandomUnit` 4), a block that fails without being reverted, `MaxHistory` 1 |
| `pow_head_state` | finding: a refused block's writes stay in the head state | as pow_heavy |

The universes are the smallest in which a branch overtakes another, is
overtaken back, holds a transaction at another height and forks off above,
at and below the pruning horizon; an additional block adds length but no new
order of events, since every pair of (early, orphan, duplicate, side branch,
head) situations occurs. `CHECK_DEADLOCK FALSE` because the model stops at an
exception and at the bound on deliveries.

`add_block` counts the height to prune from the block that arrives
(`block.number - max_history`, line 418), whatever branch it is on, but prunes
the block of the main chain. A long light branch prunes near a heavier, shorter head.
So what may have been pruned are the heights `Deep`: `MaxHistory` or more below
some stored block. `RetainedStates` promises a state to the blocks whose branch
leaves the main chain above all these, and `RaisedOnlyWhenDeep` an exception
only to a block that leaves it at one of them. All four properties of states and
pruning except the case that a block is stored a second time and so pruned a
second time (`Fresh`, below); in the runs blocks do come twice, but their trees
are too short for this to take a node that is needed. There is no finality: a child of
Genesis that is delivered again gets its pruned log back, and a branch off
Genesis can then still replace heights below the horizon.

Fairness (`FairSpec`, in pow_fork): a call runs to its end (weak fairness of
`Step`; the code is sequential), and `process_time_queue` is called again and
again with a clock that goes on, as the comment above it asks (strong fairness
of `Tick(MaxTime)`, since calls in progress disable it). Deliveries are not fair.

### Proofs

`PowChainProofs` proves, for every block tree, delivery order, state content and
bound:

- `TypeCorrect`, `HeadIsHeaviest`, `StoredBlocksFormTree`: the inductive
  invariant is `IInv` = TypeOK, HeadHeaviest, StoredTree and ScoredPaths. That
  no stored block beats the head is not inductive alone: a step compares the new
  block with the head only, so the proof needs that scores grow along branches,
  that every stored block is scored, and that an aborted reorganisation, which
  caches a score and stores nothing, scores only children of stored blocks.
- `IndexIsCanonical`: under `IInv`, every step that does not raise keeps
  `byNumber` the path to the head. The case that matters is the rewriting loop:
  `ReorganizedIndex` shows that below the height it starts from the old and the
  new path agree (`PathsMeet`), and that where it stops nothing is left above.
- `PositionsAreSound`: on top of `CanonicalIndex`, every step keeps `TxIndexSound`. A position
  that the rewriting loop writes is on the new path (`ReorganizedPosition`); one that it leaves
  alone is of a block below the fork, where both paths agree (`BelowFork`), since
  every block above is removed and its transactions with it.
- `PowChainImplementsForkChoice`: initial states map to initial states, storing
  a new block is `Accept`, every other step stutters.

They rest on the named assumptions on the constants only (`NonceAssumption` is not
used).

Its last section proves what reference counting and delayed deletion keep:
`StatesAreRetained`, `HeadStateIsRetained`, `PruningIsSafe` and
`RaisesOnlyWhenDeep`, for every tree, content of the states and `MaxHistory`, under
one hypothesis, `[]Fresh`: no block that is stored is handed to add_block again.
Without it the states may be lost, see "Known divergences". It leaves every
order of arrival, and blocks laid aside any number of times.

The inductive invariant is `CountInv`. It has two parts besides `IInv` and
`CanonicalIndex`. `CountedIn`: the count of a node, together with the number of
pruned blocks that replaced it, is at least the number of stored blocks that
added it (plus one if Genesis has it). `PrunedIn`: a block without a log is on the path to
the head, at a `Deep` height; a reorganisation removes only logged blocks, else it
raises. `PathBalance` then gives the properties: along one path additions and
removals of a node alternate, so the additions exceed the removals by one
exactly if the node is in the state at the end. Pruned blocks that are not on
the path of a block `b` are `Deep`, hence `b` leaves the main chain at a height that may have
been pruned; otherwise all of them are on its path, and the count of every node
of its state stays above zero. For the head, all of them always are. The
invariant bounds counts from below only: a block that arrives at the end of a
light branch adds references, and its log is never applied.

What is left to TLC of this component is liveness, `EventuallyStored`.

## 4. TransactionQueue

`TransactionQueue` models `transaction_queue.py`. `txs` and `aside` are the two
heaps as the arrays Python keeps them in, because `diff` filters an array and
makes it the next queue's heap; `heappush` and `heappop` are external and
modelled by their sift over that array. `counter` is the attribute; `call` is
the `pop_transaction` in progress; `inserted`, `taken`, `gone` and `rebuilt` are history.
`Restore` is the loop that takes transactions back from `aside`, `LayAside`,
`Take` and `GiveUp` are the outcomes of one round of the search.

| run | shows | bounds |
|---|---|---|
| `queue` | no transaction is lost or doubled, a `diff` between any two calls included; until the first `diff`, every pop takes the dearest transaction that fits, in the order of insertion among equals, and gives up only for a stated reason | four transactions with two prices and three sizes, gas limits that shrink and grow again, `SeekDepth` 3 instead of 16, so that it is reached |

Each transaction is added once. What is `aside` when `diff` is called is not in
the new queue; `Accounted` counts it as left out on purpose.

### Proofs

`TransactionQueueProofs` proves all four properties of the run, for any
transactions, prices, limits, blocks, `SeekDepth` and number of calls:
`TypeCorrect`, `NoneLostOrDoubled`, `DearestFirst`, `NothingOnlyIfNothingFits`.

The first half is about the heaps alone. `Risen` (heappush) and `Sunk` (heappop)
are recursive functions over the rounds of their loops; as runs of those loops
(`RisenRuns`, `SunkRuns`) they keep the items and keep the order everywhere but
at the item that moves. Hence a push adds one item, a pop takes out one that no
other is less than, and both leave a heap; the loop of `diff` keeps exactly the
items that are not in the block.

The inductive invariant `IInv` has four parts. `TypeOK`. `Placed`: a transaction is in one
place only. `Searching`: during the second loop nothing that lies aside would
fit, which is what makes giving up right, and the rounds that are left are no more
than the queue has items, which is why the loop never pops from an empty heap.
`Ordered`: `aside` is a heap always, `txs` is one until the first `diff`, and the
counters then tell the order of arrival. That a pop takes the dearest of both
heaps needs the first and the last together: `Restore` brings back everything that fits
before the search starts.

## 5. CasperChain

`CasperChain` models `hybrid_casper/chain.py` on the same universe and with the
same stack of calls as PowChain. What it adds:

| variable | code |
|---|---|
| `cpScore`, `subtree`, `cpChild` | `cp_score:`, `cp_subtree_score`, `cp_child` |
| `headCp` | `checkpoint_head_hash` (Genesis for the zero hash) |
| `saved` | blocks whose `state:` root has its trie in the database |
| `childIndex` | `child:`, a sequence: find_heaviest_pow_block takes the first of equals |
| `strayed` | history: the head checkpoint has moved in a block that was skipped |

`add_block` is one action per path: `LayAsideEarly`, `LayAsideOrphan`,
`RaiseNoState`, `RejectBlock` in should_add_block; then `Record` (storing the
block, the score of its checkpoint, the subtree scores, the child pointers and
the head checkpoint) with one of `KeepHead`, `MoveHead` (same head checkpoint:
difficulty decides), `SwitchHead`, `RaiseOnSwitch` (the head checkpoint moves to
the block's) or `SkipBlock`. `Improved` and `Pointer` are the loop of
update_subtree_scores_and_child_pointers, `RecomputedHead` the descent along the
pointers. `Ends` is the test that ends the loop of reorganize_head_to, with the
variable `i` that the inner loop overwrites.

The contract is not in the repository: `Frac[b]` is what
get_main_hash_committed_frac returns on the state after `b`, an arbitrary natural
number per block. Left out: the callback, the key `head_hash`, the cache
`prev_cp` (a function of the block), and a restart. Nothing in this chain
deletes trie nodes, so `saved` only grows.

The tree of `casper_votes`: epochs of 2 blocks; competing checkpoints a2 and b2
above a1, checkpoints a4, b4 and b6 above them; votes for a2 in a3 and d3, for
b2 in b3 and in the late block c3, for b4 in b5. c3 comes from the future, a5 is
invalid, a2 has a tie-breaker. Each block is delivered once, in every order.

| run | shows | bounds |
|---|---|---|
| `casper_votes` | subtree scores, pointers, head checkpoint and head follow the commits; what the head and the index name has its state in the database; no block that was delivered is lost; the head leaves a checkpoint only for one with more commits | the tree above; the votes tie, overtake and are overtaken, on the same and on another checkpoint's branch |

The tree is the smallest one in which the head checkpoint moves over and back,
a block is skipped that moves it, and a state is missing both for a later block
and for the new head; every action of the module fires. A second vote for the
same pair of checkpoints would repeat these orders. There are no transactions
in it: what they do to the loop of reorganize_head_to is under "Known
divergences".

A block that was executed on the head and skipped leaves its root under `state:`
and its trie in an overlay that is thrown away; a block on it then makes
`add_block` raise (line 245 is outside the try). The actions `RaiseNoState` and
`RaiseOnSwitch` are these cases; after them the model stops. `IndexedStateSaved`
says that it goes no further: while blocks without a trie are stored, and heads move
over them and back, the index never comes to name one. `NothingLost` is
about calls that do not raise. `HeaviestAbove` excludes the time after a block
was skipped that moved the head checkpoint (`strayed`).

### Proofs

`CasperQueueProofs` proves `NothingIsLost` for every tree and any number of
deliveries. The invariant `Waits` says where a delivered block is: stored, in the
time queue, in a pending call, or in the queue of its parent; and that for a
stored parent with a queue there is a pending `del` of that queue, with a pending
call before it on the stack for every block in it. That the `del` throws nothing
away is the case that needs the order of the stack.

`CasperChainProofs` proves five more properties of the run, if every block is
delivered at most once (`MaxCopies <= 1`): add_block resets the subtree score of
a checkpoint that it processes again (line 292), and they are false then. From
`Once` (a block that is not stored yet is in one place at most) every block that is
recorded is new; the block may still come at any time, after any other, and wait
anywhere in between. Then:

- `ScoresAreExact`, `PointersAreBest`, `HeadCheckpointIsBest`: the invariant
  `CpInv` says that subtree scores are the best scores in the subtrees (`Exact`),
  that a pointer leads to a best child and there is none only if no child has
  commits (`Favourites`), and that the head checkpoint is where the pointers lead
  from Genesis (`Leaf`). None of the three is inductive alone. The loop of
  update_subtree_scores_and_child_pointers stops at the first ancestor with a
  better score, which is right because scores grow towards Genesis; the search
  for the new head checkpoint starts at the last common checkpoint, which is right
  because above it no pointer has changed.
- `LeavesOnlyForMoreCommits`: a step of one block changes pointers along its own
  path only, so a head checkpoint that leaves the old one's branch has at least the score of
  that branch, and more if the block is not on it.
- `HeadIsHeaviest`: `HeavyInv`. Cached scores are those of the branch; while nothing
  has strayed the head is above the head checkpoint, and the switch to another
  one searches all blocks above it (find_heaviest_pow_block).

`IndexedStateSaved`, the last one, is proved in `ValidatorProofs`, for a chain on its
own and under a validator, with any number of deliveries.

## 6. Validator

`Validator` extends `CasperChain` with `hybrid_casper/validator.py`.

| variable | code |
|---|---|
| `prepares`, `prevPrepareEpoch`, `prevCommitEpoch` | `prepares`, `prev_prepare_epoch`, `prev_commit_epoch` |
| `calls` | the `accept_block` calls in progress: the block, how far it has come, and whether this call has prepared |
| `sent` | history: the votes that were broadcast |

`AcceptBlock` is on_receive of a block: the time queue, then `add_block`; the
chain then runs by `ChainStep`. When it is idle the innermost call goes on:
`IgnoreBlock`, `NoPrepare` or `SendPrepare`, then `NoCommit` or `SendCommit`,
then `Return`. Network.broadcast is a loop of function calls, so while a vote is
out (`prepared`, `committed`) an `AcceptBlock` may be nested in the call. Any
block of the tree may come: what a peer sends, or what this validator mines in
answer to its own vote.

The contract is given by constants: `TakesPrepare`, `Justified` and `Tipping` say
on which states it takes a vote, as the trial execution in generate_*_message
does. `EpochCp` stands for the checkpoint hash that a vote carries. Left out:
the transaction queue and the transactions that wrap votes, deposits and
logouts, and the choice of the block to mine on.

| run | shows | bounds |
|---|---|---|
| `validator` | no two prepares for one epoch | epochs of 3, so that the checkpoint itself is too early to vote; a chain of seven blocks into epoch 2, a heavy branch that forks off in epoch 0; commits to a3 in a4 and more to b3 in b4, so that the head checkpoint changes branches and blocks are skipped; one call nested in another |
| `validator_votes` | finding: a commit is sent for an epoch that a prepare has reached over | the same tree without commits on the chain, no nesting |

That a vote is judged on a state that is in the database (`VotesOnSavedState`)
follows from `IndexedStateSaved`, which `casper_votes` checks: its tree is the one in
which blocks without a trie are stored. A validator votes only on blocks that the
index names.

Proofs (`ValidatorProofs`), for every tree, contract and depth:

- `NoEpochPreparedTwice`: the inductive invariant `PreparesNoted` says that every
  prepare in `sent` is the one noted for its epoch. The guard looks up
  `prepares` at the moment of the vote, so calls in between do not matter.
- `IndexedStatesSaved`, `VotedStateSaved`: the invariant `PathsSaved` says that whatever has its
  trie in the database has one for every block below it, and that head and index name
  only such blocks (`SavedInv` excepts a chain that has raised). It is needed because the properties name any
  block of the index, while the code opens only states of heads. It rests on `BlockTreeAssumption`.

`PrepareCommitConsistency` does not hold; it is the finding.

## 7. State, Snapshots and Messages

`State` has the operations of `state.py` as operators on one record: the cache and
the trie as total functions of the address, the journal, the auxiliary
variables. Loading an account on demand and `Account.mods` are not told
apart from a full cache. `revert` has the branch that restores the root and its
assertion; an undo that fails is passed over, as the code's handler does.

`Messages` executes blocks, transactions and messages on it. `frames` is the
nesting: the block, then the messages, each with its snapshot, the outer
snapshot of a creation and, as history, the world when it began. `BeginBlock`,
`BeginTransaction`, `FinishTransaction`, `Finalize`, `AcceptBlock`, `RefuseBlock` and
`AbandonBlock` are apply_block and apply_transaction; `Call`, `Create`, `Suicide`,
`SStore`, `Log`, `Return`, `Deposit`, `Revert` and `Fault` are what the innermost message
may do next: code is arbitrary. Each instruction costs one unit of gas, and the
charges that matter (stipend, transfer, new account, code bytes, refunds) have
constants of their own; the extra and the supplemental gas of a call are
charged together. Only what a message can tell apart is kept: an address is a
model value, code is there or not, a slot holds 0, 1 or 2. After an
`AbandonBlock`, which leaves the state as it is, nothing more is executed; what
that does to later blocks is `pow_head_state`. Left out: the precompiles, the
exception for the third address in the journal of touched accounts, receipts
and bloom filters, the DAO, the stores of state roots and block hashes of Metropolis.

`Snapshots` is the promise: a call that fails restores the world as it was when
the call began, a call that succeeds keeps it. `ImplementsSnapshots` maps `world`
to everything that can be read from the state and `saved` to the worlds in the
frames.

| run | shows | bounds |
|---|---|---|
| `messages` | the refinement; no value appears or vanishes but in a suicide; static calls write nothing; gas only shrinks | one block of two transactions (a call with value, or a creation; then a call), depth 2, three starts: before the forks with money on the address of a contract to come, after Spurious Dragon with a blank one, with Metropolis and a contract in the way; gas 3 |

Depth 2 is the shortest nesting in which an inner success is undone by an
outer failure; with gas 3 a message can write, call and write again. A second
transaction is needed for a commit between two snapshots.

### Proofs

`MessagesProofs` proves all four properties for any addresses, codes,
transactions, prices and depth of nesting. The constants are bound by six named
assumptions: addresses are finitely many and none is a mark of the journal or of
a creation; values are natural numbers; a creation pays its intrinsic gas; the
stipend is not more than the transfer that brings it costs; a block starts from
accounts of which none that counts as non-existing has a storage.

- `ValueIsConserved`, `StaticWritesNothing`: `ValueConserved` and `StaticUntouched`.
- `GasNeverGrows`: `GasShrinks`, the action property and the bound.
- `ExecutionNests`: `ImplementsSnapshots`, under `[][Unoccupied]_vars` (below).

First the journal. `UndoneTo` is a function defined by recursion over the length
of the journal, hence a run of its loop (`UndoneRuns`). Two facts about it carry
everything else: a state that only appended to the journal, each entry with what
it replaced, reverts to the same state (`UndoneIs`, the relation `Follows`), and
reverting to a snapshot and then to an older one is reverting to the older one
(`UndoneTwice`, `RevertTwice`). That each setter appends such entries is one
lemma per operation of `State` (`SetBalanceIs`, `TransferIs`, `BuriedIs`, ...).

The inductive invariant is `Inv`. None of the properties is inductive alone,
because a message that fails goes back to a state of which they would say
nothing. So `Reliable` speaks of the present state and of every state that can
still be reverted to, `Origin(st, frames[i])`:

- `Nesting`: the snapshots of the frames lie in the journal, in their order, and
  each `Origin` is the world noted in its frame.
- `Underneath`, `Base`: a block's snapshot is at the bottom of the journal, as
  `revert` asserts when the root has changed, and undoing the whole journal leaves
  what the trie opens to; so the block goes back to what its root opens.
- `Coherent`: what is cached of an account that was not touched is what the trie
  has of it, so a commit, which writes touched accounts only, loses nothing.
- `Quiet`: within a static frame nothing but gas differs from its `Origin`, and
  every frame above is static. No frame is checked against its caller by the
  code; it inherits the flag.
- `Conserved`, `ConservedBelow`: the sum, in every such state, with what it owes.
  A loss needs a suicide that was carried out or is still recorded, so
  `NoSuicides` says that none is recorded between transactions.
- gas: what all frames have left is within `startgas`, since the price of a
  failed call is never less than what it returns.

The refinement needs `Clean` too. A commit does not write an account that counts as
non-existing since Spurious Dragon, so it would drop the storage of one that has
no nonce, balance or code. `Clean` says that there is none, here or in any state that can be
reverted to: whoever executes code has code or a nonce (`Settled`, `Peopled`),
and no account loses both. One operation could break this: `create_contract` on
an address that holds money clears nonce and code of what it finds there, and
not its storage. `Unoccupied` therefore says that in blocks between Spurious
Dragon and Metropolis no contract is created at an address that has a nonce or
code, or at its creator's own. Before, nothing depends on it; since Metropolis `create_contract`
looks. An address is a hash of the creator and its nonce, which the model does
not see: `Unoccupied` is the collision-freedom of that hash and is assumed, not proved. It
is no restriction on the run, whose `Fresh` gives each creator and nonce an
address of its own.

## 8. HeaderRules and Candidates

`HeaderRules` has the arithmetic of `common.py`: gas limit, difficulty in three
eras with the bomb, the checks of a header. Headers contain their parents (a
hash is the content). `Candidates` has what is built on it: `AddToHead`,
`RefuseUncles` and `AddElsewhere` are add_block and apply_block as far as headers
and uncles are concerned, `Make` is what others produce, good or bad.
`recent_uncles` is carried along on the head (`Initialized`, `Finalized`) and
rebuilt from the database elsewhere (`Rebuilt`). Left out: seals, extra data, the
DAO, arrival out of order (`PowChain`). The order of the child index is left
open, so uncle candidates are any two. A block's gas is any up to the limit:
which transactions add_transactions takes is not modelled.

| run | shows | bounds |
|---|---|---|
| `candidates` | the header and the uncles of the block this node would make are ones it accepts; an uncle counts once and has a positive reward; carried and rebuilt uncles agree | five headers beside Genesis, forks at 2 and 3, so that all three difficulty rules and the bomb are used; `MAX_UNCLE_DEPTH` and `RebuiltDepth` 3 for 6, so that uncles grow too old; one uncle a block; delays 0, 1 and 4 around the cutoff |

`MAX_UNCLE_DEPTH` (config) and the literal 6 in chain.py:138 are independent in the code; `RebuiltDepth`
keeps them apart. With other values the carried uncles and the rebuilt ones
differ; `UncleAssumption` states that both are equal, as they are, and what the
rewards need of the other constants.

Proof (`CandidatesProofs`): `CandidateHeadersValid`, for every configuration that
satisfies `GasAssumption` and `DifficultyAssumption`. The invariant says that
every stored header is `Good`: its gas limit is at least the minimum and its gas
within the limit. Then the new limit is within one step of the old
(`AtMostTwice`: the contribution of a full parent is at most twice its decay), and the difficulty that is
computed from `now` equals that of the timestamp, though
the timestamp is pushed to one second after the parent's. This uses that a
cutoff is at least 2.

`UnclesAreSound`, `CarriedAsRebuilt` and `CandidateUnclesAccepted` rest on
`UncleAssumption` too. The walk up the branch (`get_ancestor_list`) is a
recursive function, so the proof first shows that it lists the path (`PathRuns`,
`PathIs`). The invariant `UncleInv` adds to the headers' invariant that the
uncles of a block are lower than it by at most the window (`Windowed`), that no
path counts an uncle twice or an ancestor as uncle (`SoundOn`), and that the uncles
that the state of the head carries are at every height up to the head's those of the path
(`Agreed`). A block that was refused and not reverted leaves its uncles one height
above the head, and the next block that is tried overwrites them; this is why
`dirty` does no harm here, and why the number above the head is excepted.

## 9. TrieNodes, Dictionary, Trie and PruningTrie

`TrieNodes` has what both tries share: nodes, their size (a node is `Hashed` if it
is not smaller than `InlineLimit`, else it is a list inside its parent), reading,
counting, iterating, and the canonical form `Canon` of a content. Keys are
sequences of nibbles; a node's hash is its content. The operators recurse over
nodes, so nothing is proved about them.

`Trie` has `trie.py` on `RefcountDB` of `db.py`. The code copies a node shallowly and
changes branches in place; whether a node counts as replaced depends on
comparing that copy with the result. An operation therefore returns the new
node, the old object and its copy after the operation, and what was put and
noted for deletion. A child that is a list stays a list in the copy even if it has
grown so large that the result refers to it by hash (`Inlined`, `Seen`); the copy
then equals neither the result nor any node that was stored, and a hash is noted
that the database does not have. `Prune` deletes what was noted up to the first such
hash, as `Chain.add_block` does when the block is old; here it happens at any time
between operations, and each log is taken once. `LiveNodesKept` counts what is noted
against what is stored, so it holds however operations are split into blocks and
wherever a log ends early.

`PruningTrie` has the older trie, which counts references itself
(`Inc` and `Dec` in the order of the calls), on the database with a death row and a
journal. `EndEpoch` is commit_refcount_changes and cleanup, in the order in which the
tests call them; `Revert` is revert_refcount_changes of the last epoch, after
which the caller goes back to that epoch's root. `ClearAll` is clear_all on a root
that is large.

`Dictionary` is a map with an update at one key.

| run | shows | bounds |
|---|---|---|
| `trie` | deleting what is noted takes no live node; the shape depends on the content only; next and prev; refinement of `Dictionary` | five keys over two nibbles, among them prefixes of each other; a value that makes a leaf small and one that does not; `InlineLimit` 7, so that branches of small leaves are lists, and change in place within the limit and beyond it; five operations |
| `pruning` | the tree stays readable and canonical; counts equal the places where a node stands, and none goes below zero; nothing leaks | four keys, the two values, four operations, two epochs with `Ttl` 1, one revert |

The keys reach every case of update and delete: a branch with a value, a leaf
split at its end and in the middle, an extension cut at both ends, a branch
that is merged into a leaf, an extension or a branch below. Sixteen nibbles
would only add children that are blank. `split` and `unsafe_merge` of `trie.py` are
not modelled (nothing but a light client uses them), nor `securetrie.py`, which
hashes keys.

## 10. Words, VM and FastVM

`Words` is arithmetic on words of `WordBytes` bytes of `ByteBits` bits. `VM` is vm_execute
of `vm.py` within one message: code is a sequence of bytes with the numbers of
`opcodes.py`, so that the data of a PUSH may look like an instruction, and
`Execute` is one round of the loop, with its checks of stack and gas, and the
charges for memory, copying, storage and logs. Calls and creations are in
`Messages`. What block, accounts and hashing answer is a constant (`Env`).

`FastVM` runs the same message on the two machines that check gas and stack once
per chunk of instructions, each in its own order of tests: `FastRound` for
`fastvm.py`, `OldRound` for `experimental/fastvm.py`, which has only the first rules.
`FastAgrees` compares result, gas left, data and, for a success, storage, refunds
and logs.

| run | shows | bounds |
|---|---|---|
| `vm` | the three machines agree; signed division, remainder, sign extension and powers obey the integers behind the words | words of two bytes of two bits; all pairs of operands for the arithmetic, before and after the forks; all codes of four instructions behind a PUSH over jumps, pushes, GAS, ISZERO, DUP and an invalid byte; stores followed by everything that reads, copies or ends; stack of 4; before and after the forks, static or not; gas that suffices, runs out in the middle, or is short at the last instruction |

`FastAgrees` says nothing of codes that are not `Plain`, of a LOG that was not
paid for, and, for `fastvm.py`, of a message that comes to an EXP, which raises there
(`Raised`); all are under "Known divergences". As there are no calls in it, nothing
is ever returned, and RETURNDATACOPY copies nothing or fails in every machine. Words are narrow, so a shift or mask that
depends on the width 256 itself would not show. Model-checked only.

## Known divergences

Behaviour of the code that the models contain, that no run states as a
property, and that a maintainer should know of:

- `pow/chain.py:353`: the rewriting loop deletes the positions of the old chain's
  transactions after it has written those of the new chain at lower heights. A
  transaction that moves to a lower height has no position then. `TxIndexSound`
  says only that no position is wrong.
- `transaction_queue.py:64`: diff filters the heap's array, which is then no heap,
  and starts the counter at 0, so that later equals may come out before earlier
  ones. `TakesDearest` is about the time until the first diff.
- `hybrid_casper/chain.py:292`: a checkpoint that is delivered twice is processed
  twice and its subtree score reset to its own score. The runs deliver each
  block once, and the theorems on checkpoints assume it.
- `pow/chain.py:298`: a block that is delivered again after it was stored is
  executed again, gets its pruned log back, and the log may be applied a second
  time. With blocks a1 to a4 in a row, `MaxHistory` 1, a3 replacing a node that a4 puts back,
  and a sibling d4: deliver a1 to a4, then a2, a3 and d4. The node loses its
  second count though a4, the head, uses it: `HeadStateRetained` fails. The trees of the runs
  are too short for it; the theorems assume `Fresh`.
- `hybrid_casper/chain.py:372`: the loop variable `i` is used again inside the
  loop, for transactions, and decides where the loop ends; blocks with
  transactions may leave heights of the new chain out of the index. The runs have none.
- `hybrid_casper/chain.py:326`: a block that is skipped may have moved the head
  checkpoint; the head then does not descend from it until a later switch.
- `experimental/refcount_db.py`: the journal of a reverted epoch stays in the
  database and is extended when the epoch runs again. A second revert restores
  both; with `Ttl = 2`, `MaxOps = 3`, `MaxReverts = 3` and the large value only, `ExactCounts`
  fails. The run reverts once.
- `trie.py:314`: a small branch is a list in its parent and is changed in place. If
  it grows over the limit, the parent's copy has the grown list and the new parent
  its hash: they differ, and the hash of the copy is noted, which was never stored,
  while the old parent, which was, is not noted and stays for ever. When the block is
  pruned, `RefcountDB.delete` raises KeyError on that hash; the loop of
  `pow/chain.py:426` ends, and the rest of the log is not deleted. The log is kept,
  and a second block at the same height takes it again from the start, which may take
  live nodes: with that step `LiveNodesKept` fails after three updates and a deletion.
  `Trie` takes each log once. `PruneSafe` is about logs that name only replaced nodes.
- `fastvm.py:326`: EXP calls `ext.post_clearing_hardfork()`, which `VMExt`
  (`messages.py:289`) does not have, so every EXP raises AttributeError. The same name
  stands in the calls without value (line 625) and in SUICIDE of an empty account since
  the anti-DoS fork (line 703), which `FastVM` does not model.
- `fastvm.py:434`: RETURNDATACOPY puts all of the returned data in the place of the
  part that was asked for, so that memory changes its length (`Spliced`). It takes a call
  to show.
- `fastvm.py`, `experimental/fastvm.py`: PC in a chunk of several instructions pushes
  the end of the chunk; instructions of Metropolis are valid before the fork. `Plain` excludes both.
- LOG in all three machines subtracts the gas for its data without comparing it
  with what is left, so that gas may be negative up to the next check.

## Not modelled

Restarts of both chains (the constructors fail or leave the chain without its
lower part, see the hazards at `pow/chain.py:40` and `hybrid_casper/chain.py:84`);
splitting and merging of tries; receipts and their bloom filters; precompiled
contracts; which transactions a new block takes. Ethash, ABI and RLP encoding,
logging, the command-line tools and the compilers' wrappers: pure computation or
I/O. `new_state.py` and `full_casper/` are unfinished and not imported. The
Casper contract is a submodule that is not part of the repository.

Only model-checked: liveness (`EventuallyStored`); everything about `TrieNodes`,
`Trie`, `PruningTrie`, `VM` and `FastVM`, whose recursive operators and bit operations the
provers do not take.
