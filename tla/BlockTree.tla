------------------------------ MODULE BlockTree ------------------------------
(***************************************************************************)
(* The universe of block objects a chain may be handed.  A block is an     *)
(* abstract value; the fields of its header and body that the chain code   *)
(* branches on are constant functions of it (ethereum/block.py).  A block  *)
(* names its parent by hash, so the blocks form a tree below Genesis.      *)
(***************************************************************************)
EXTENDS Integers

CONSTANTS
  Genesis,      \* the genesis block, stored by initialize_genesis_keys
  Block,        \* the blocks that may be delivered to add_block
  NoBlock,      \* stands for a missing database entry
  Parent,       \* header.prevhash, a function from Block
  Number,       \* header.number
  Anc,          \* Anc[b][n]: the ancestor of b (or b itself) at height n
  Timestamp,    \* header.timestamp
  Difficulty,   \* header.difficulty
  Tx,           \* the transactions a block may carry
  Txs,          \* block.transactions
  MaxHeight     \* bound: no block is numbered above it

AllBlock == Block \cup {Genesis}
Height == 0..MaxHeight

(* A transaction that is in no canonical block.                            *)
NoHeight == -1

TreeAssumption ==
  /\ Genesis \notin Block
  /\ NoBlock \notin AllBlock
  /\ MaxHeight \in Nat
  /\ Parent \in [Block -> AllBlock]
  /\ Number \in [AllBlock -> Height]
  /\ Number[Genesis] = 0
  /\ \A b \in Block : Number[b] = Number[Parent[b]] + 1

(* Anc[b] is the path from Genesis to b: it ends in b, every element is    *)
(* the parent of the next, and the path of an element is a prefix of it.   *)
AncestorAssumption ==
  /\ Anc \in [AllBlock -> [Height -> AllBlock \cup {NoBlock}]]
  /\ \A b \in AllBlock :
       /\ Anc[b][0] = Genesis
       /\ Anc[b][Number[b]] = b
       /\ \A n \in 0..Number[b] : /\ Anc[b][n] \in AllBlock
                                  /\ Number[Anc[b][n]] = n
       /\ \A n \in 1..Number[b] : /\ Anc[b][n] \in Block
                                  /\ Parent[Anc[b][n]] = Anc[b][n - 1]
       /\ \A n \in 0..Number[b], m \in 0..Number[b] :
            m <= n => Anc[Anc[b][n]][m] = Anc[b][m]

DataAssumption ==
  /\ Timestamp \in [AllBlock -> Nat]
  /\ Difficulty \in [AllBlock -> Nat \ {0}]
  /\ Txs \in [AllBlock -> SUBSET Tx]
  /\ Txs[Genesis] = {}

(* A transaction consumes a nonce of its sender, so it is valid at most    *)
(* once on a path (validate_transaction in ethereum/messages.py).          *)
NonceAssumption ==
  \A b \in AllBlock : \A m, n \in 0..Number[b] :
    m # n => Txs[Anc[b][m]] \cap Txs[Anc[b][n]] = {}

ASSUME BlockTreeAssumption ==
  TreeAssumption /\ AncestorAssumption /\ DataAssumption /\ NonceAssumption
==============================================================================
