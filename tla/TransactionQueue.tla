--------------------------- MODULE TransactionQueue ---------------------------
(***************************************************************************)
(* The queue of pending transactions, ethereum/transaction_queue.py: two   *)
(* binary heaps, one of the transactions by price and one of those that    *)
(* were laid aside because they need more gas than a caller had left.      *)
(*                                                                         *)
(* pop_transaction is modelled round by round of its two loops; `call' is  *)
(* the call in progress.  The heaps are the arrays that heapq keeps, since *)
(* diff filters the array as it lies.                                      *)
(***************************************************************************)
EXTENDS Integers, Sequences

CONSTANTS
  Tx,           \* transactions
  GasPrice,     \* tx.gasprice
  StartGas,     \* tx.startgas
  PrioInfinity, \* PRIO_INFINITY, below every -gasprice
  MaxGas,       \* the values of max_gas that callers use
  MinGasPrice,  \* the values of min_gasprice that callers use
  SeekDepth,    \* max_seek_depth
  Blocks        \* the transaction sets that diff is called with

ASSUME QueueAssumption ==
  /\ GasPrice \in [Tx -> Nat]
  /\ StartGas \in [Tx -> Nat]
  /\ PrioInfinity \in Int
  /\ \A t \in Tx : PrioInfinity < -GasPrice[t]
  /\ MaxGas \subseteq Nat
  /\ MinGasPrice \subseteq Nat
  /\ SeekDepth \in Nat
  /\ Blocks \subseteq SUBSET Tx

VARIABLES
  txs,       \* the heap by price
  aside,     \* the heap by gas
  counter,   \* counter
  call,      \* the pop_transaction in progress
  inserted,  \* history: the transactions in the order they were added
  taken,     \* history: the transactions handed out
  gone,      \* history: the transactions that a diff left out
  rebuilt    \* history: whether the queue is the result of a diff

vars == <<txs, aside, counter, call, inserted, taken, gone, rebuilt>>

Item == [prio : Int, counter : Nat, tx : Tx]

Idle == [phase |-> "idle", gas |-> 0, price |-> 0, left |-> 0]

TypeOK ==
  /\ txs \in Seq(Item) /\ aside \in Seq(Item)
  /\ \A i \in 1..Len(txs) :
       txs[i].prio \in {PrioInfinity, -GasPrice[txs[i].tx]}
  /\ \A i \in 1..Len(aside) : aside[i].prio = StartGas[aside[i].tx]
  /\ counter \in Nat
  /\ call \in [phase : {"idle", "restore", "seek"}, gas : MaxGas \cup {0},
               price : MinGasPrice \cup {0}, left : 0..SeekDepth]
  /\ inserted \in Seq(Tx)
  /\ taken \subseteq Tx /\ gone \subseteq Tx /\ rebuilt \in BOOLEAN

Init ==
  /\ txs = <<>> /\ aside = <<>> /\ counter = 0
  /\ call = Idle
  /\ inserted = <<>> /\ taken = {} /\ gone = {} /\ rebuilt = FALSE

-------------------------------------------------------------------------------
(* heapq on arrays of items, with the parent of position p at p \div 2;     *)

(* OrderableTx.__lt__.  Wrong: the later of two equal prices comes first.   *)
LessLast(x, y) == x.prio < y.prio \/ (x.prio = y.prio /\ x.counter > y.counter)
Less(x, y) == x.prio < y.prio \/ (x.prio = y.prio /\ x.counter < y.counter)

Swapped(h, p, q) == [h EXCEPT ![p] = h[q], ![q] = h[p]]

(* _siftdown: the item at r.at changes places with its parent, as long as   *)
(* it is less.                                                              *)
RiseStep(r) ==
  LET above == r.at \div 2
  IN IF r.at > 1 /\ Less(r.heap[r.at], r.heap[above])
     THEN [heap |-> Swapped(r.heap, r.at, above), at |-> above] ELSE r

Risen(r) ==
  LET step[k \in 0..r.at] == IF k = 0 THEN r ELSE RiseStep(step[k - 1])
  IN step[r.at].heap

(* _siftup: the item at r.at goes down to a leaf by the lesser children.    *)
LesserChild(h, p) ==
  IF 2 * p + 1 <= Len(h) /\ ~Less(h[2 * p], h[2 * p + 1]) THEN 2 * p + 1
                                                          ELSE 2 * p
SinkStep(r) ==
  LET below == LesserChild(r.heap, r.at)
  IN IF 2 * r.at <= Len(r.heap)
     THEN [heap |-> Swapped(r.heap, r.at, below), at |-> below] ELSE r

Sunk(r) ==
  LET step[k \in 0..Len(r.heap)] == IF k = 0 THEN r ELSE SinkStep(step[k - 1])
  IN step[Len(r.heap)]

HeapPush(h, x) == Risen([heap |-> Append(h, x), at |-> Len(h) + 1])

(* The last element takes the place of the top, goes down to a leaf and     *)
(* rises from there.                                                        *)
Lowered(h) == [i \in 1..Len(h) - 1 |-> IF i = 1 THEN h[Len(h)] ELSE h[i]]

HeapPop(h) ==
  IF Len(h) = 1 THEN <<>> ELSE Risen(Sunk([heap |-> Lowered(h), at |-> 1]))

-------------------------------------------------------------------------------
(* add_transaction.  The same transaction is added once (its nonce and its  *)
(* signature make it unique).                                               *)
InsertedTx == {inserted[i] : i \in 1..Len(inserted)}

AddTransaction(t, force) ==
  /\ call = Idle
  /\ t \notin InsertedTx
  /\ txs' = HeapPush(txs, [prio |-> IF force THEN PrioInfinity ELSE -GasPrice[t],
                           counter |-> counter, tx |-> t])
  /\ counter' = counter + 1
  /\ inserted' = Append(inserted, t)
  /\ UNCHANGED <<aside, call, taken, gone, rebuilt>>

PopTransaction(gas, price) ==
  /\ call = Idle
  /\ call' = [phase |-> "restore", gas |-> gas, price |-> price, left |-> 0]
  /\ UNCHANGED <<txs, aside, counter, inserted, taken, gone, rebuilt>>

(* The first loop takes back what fits.  Wrong: it asks for gas to spare;   *)
(* the price is not restored.                                               *)
RestorableSpare == aside # <<>> /\ call.gas > aside[1].prio
Restorable == aside # <<>> /\ call.gas >= aside[1].prio
RestoredAsIs(item) == item
Restored(item) == [item EXCEPT !.prio = -GasPrice[item.tx]]

Restore ==
  /\ call.phase = "restore" /\ Restorable
  /\ aside' = HeapPop(aside)
  /\ txs' = HeapPush(txs, Restored(aside[1]))
  /\ UNCHANGED <<counter, call, inserted, taken, gone, rebuilt>>

Seek ==
  /\ call.phase = "restore" /\ ~Restorable
  /\ call' = [call EXCEPT !.phase = "seek",
                          !.left = IF Len(txs) < SeekDepth THEN Len(txs)
                                                           ELSE SeekDepth]
  /\ UNCHANGED <<txs, aside, counter, inserted, taken, gone, rebuilt>>

(* The second loop takes the top: it needs too much gas, or is handed out,  *)
(* or is too cheap.  Wrong: what needs too much gas is dropped.             *)
Seeking == call.phase = "seek" /\ call.left > 0
Fits(t) == StartGas[t] <= call.gas
Dear(item) == GasPrice[item.tx] >= call.price \/ item.prio = PrioInfinity

AsideDropped(item) == aside
Aside(item) == HeapPush(aside, [item EXCEPT !.prio = StartGas[item.tx]])

LayAside ==
  /\ Seeking /\ ~Fits(txs[1].tx)
  /\ txs' = HeapPop(txs)
  /\ aside' = Aside(txs[1])
  /\ call' = [call EXCEPT !.left = @ - 1]
  /\ UNCHANGED <<counter, inserted, taken, gone, rebuilt>>

Take ==
  /\ Seeking /\ Fits(txs[1].tx) /\ Dear(txs[1])
  /\ txs' = HeapPop(txs)
  /\ taken' = taken \cup {txs[1].tx}
  /\ call' = Idle
  /\ UNCHANGED <<aside, counter, inserted, gone, rebuilt>>

GiveUp ==
  /\ call.phase = "seek"
  /\ call.left = 0 \/ (Seeking /\ Fits(txs[1].tx) /\ ~Dear(txs[1]))
  /\ call' = Idle
  /\ UNCHANGED <<txs, aside, counter, inserted, taken, gone, rebuilt>>

(* q = q.diff(transactions), as the validator does for a block it adds.     *)
(* Wrong: the new queue keeps what the block has and drops the rest.        *)
KeptInverted(block) == SelectSeq(txs, LAMBDA item : item.tx \in block)
Kept(block) ==
  LET kept[n \in 0..Len(txs)] ==
        IF n = 0 THEN <<>>
        ELSE IF txs[n].tx \in block THEN kept[n - 1]
        ELSE Append(kept[n - 1], txs[n])
  IN kept[Len(txs)]

Diff(block) ==
  /\ call = Idle
  /\ txs' = Kept(block)
  /\ aside' = <<>>
  /\ counter' = 0
  /\ gone' = gone \cup block \cup {aside[i].tx : i \in 1..Len(aside)}
  /\ rebuilt' = TRUE
  /\ UNCHANGED <<call, inserted, taken>>

Next ==
  \/ \E t \in Tx, force \in BOOLEAN : AddTransaction(t, force)
  \/ \E gas \in MaxGas, price \in MinGasPrice : PopTransaction(gas, price)
  \/ Restore \/ Seek \/ LayAside \/ Take \/ GiveUp
  \/ \E block \in Blocks : Diff(block)

Spec == Init /\ [][Next]_vars

-------------------------------------------------------------------------------
(* Properties.                                                              *)

Waiting == {txs[i] : i \in 1..Len(txs)}

(* Every transaction that was added is in exactly one place: in one slot of *)
(* one heap, or handed out, or left out by a diff.                          *)
Accounted ==
  \A t \in InsertedTx :
    LET slots == {i \in 1..Len(txs) : txs[i].tx = t}
        sides == {i \in 1..Len(aside) : aside[i].tx = t}
    IN \/ t \in taken \cup gone /\ slots = {} /\ sides = {}
       \/ \E i \in slots : slots = {i} /\ sides = {} /\ t \notin taken
       \/ \E i \in sides : slots = {} /\ sides = {i} /\ t \notin taken

(* Until a diff, the transaction handed out is the dearest of those that    *)
(* fit, and the first added among equals, however often it was laid aside   *)
(* and taken back; only a forced one comes before a dearer one.             *)
AddedBefore(t, u) == \E i, j \in 1..Len(inserted) :
                       i < j /\ inserted[i] = t /\ inserted[j] = u
TakesDearest ==
  [][~rebuilt => \A t \in taken' \ taken :
       \A item \in Waiting : Fits(item.tx) =>
         \/ item.tx = t
         \/ txs[1].prio = PrioInfinity
         \/ item.prio # PrioInfinity /\ GasPrice[item.tx] < GasPrice[t]
         \/ /\ item.prio # PrioInfinity /\ GasPrice[item.tx] = GasPrice[t]
            /\ AddedBefore(t, item.tx)]_vars

(* Until a diff, pop_transaction returns None only if nothing that waits,   *)
(* in either heap, would do, or if it has laid aside as many as it may.     *)
GivesUpRightly ==
  [][~rebuilt /\ call.phase = "seek" /\ call' = Idle /\ taken' = taken =>
       \/ call.left = 0 /\ txs # <<>>
       \/ /\ \A item \in Waiting : ~(Fits(item.tx) /\ Dear(item))
          /\ \A i \in 1..Len(aside) : ~Fits(aside[i].tx)]_vars

===============================================================================
