------------------------------ MODULE Messages ------------------------------
(***************************************************************************)
(* Blocks, transactions and messages: apply_block of ethereum/meta.py,     *)
(* apply_transaction, _apply_msg and create_contract of                    *)
(* ethereum/messages.py, and the instructions of ethereum/vm.py that write *)
(* state or call.  Code is arbitrary: a running message may try any        *)
(* instruction next.  The instructions in between are in module VM; here   *)
(* every instruction costs one unit of gas.                                *)
(***************************************************************************)
EXTENDS State

CONSTANTS
  Sender, Coinbase,
  NewAddress(_, _),        \* external: mk_contract_address, of a creator and its nonce
  Targets, Beneficiaries,  \* whom code calls, and to whom it leaves what it has
  Transactions,            \* sets of [to, value, gas], of which one comes next; CREATE for a creation
  Values, Wants,           \* value and gas that code asks for
  MaxBlocks, BlockReward,
  MAX_DEPTH, GSTIPEND, GCALLVALUETRANSFER, GCALLNEWACCOUNT, CALL_CHILD_LIMIT_DENOM,
  GCONTRACTBYTE, GSTORAGEREFUND, GSUICIDEREFUND,
  Starts                   \* pairs of a state trie and the rules of the block

CREATE == "create"

\* A creation pays more than it passes on (its intrinsic gas); a stipend is
\* never more than the transfer that it comes with costs.  No account that
\* counts as non-existing since the Spurious Dragon has a storage.
ASSUME AddressesAssumption ==
  /\ Sender \in Address /\ Coinbase \in Address /\ CREATE \notin Address
  /\ Targets \subseteq Address /\ Beneficiaries \subseteq Address
ASSUME TransactionsAssumption ==
  /\ Transactions \in Seq(SUBSET [to : Address \union {CREATE}, value : Nat, gas : Nat])
  /\ \A i \in DOMAIN Transactions : \A t \in Transactions[i] : t.to = CREATE => t.gas > 0
ASSUME ValuesAssumption ==
  /\ Values \subseteq Nat /\ Wants \subseteq Nat
  /\ MaxBlocks \in Nat /\ BlockReward \in Nat /\ MAX_DEPTH \in Nat
ASSUME GasAssumption ==
  /\ GSTIPEND \in Nat /\ GCALLVALUETRANSFER \in Nat /\ GSTIPEND <= GCALLVALUETRANSFER
  /\ GCALLNEWACCOUNT \in Nat /\ GCONTRACTBYTE \in Nat
  /\ GSTORAGEREFUND \in Nat /\ GSUICIDEREFUND \in Nat
  /\ CALL_CHILD_LIMIT_DENOM \in Nat \ {0}
ASSUME StartsAssumption ==
  \A start \in Starts :
    /\ start \in [Address -> TrieAccount] \X SUBSET STRING
    /\ \A a \in Address : "spurious_dragon" \in start[2] /\ is_blank(start[1][a]) =>
         start[1][a].storage = [k \in Key |-> 0]

VARIABLES
  st,         \* the State
  frames,     \* what is being executed: the block, then messages, the innermost last
  tx,         \* the transaction: "none", "running", "done" with its result and gas
  supply,     \* what was there at first and what blocks have added
  deaths      \* whether a suicide was carried out

vars == <<st, frames, tx, supply, deaths>>

Init ==
  \E start \in Starts :
    /\ st = Opened(start[1], start[2])
    /\ frames = <<>>
    /\ tx = [phase |-> "none", startgas |-> 0, res |-> 0, gas |-> 0, blocks |-> 0]
    /\ supply = Wealth(st)
    /\ deaths = FALSE

Top == Last(frames)
Depth == Len(frames) - 2                  \* msg.depth of the innermost message
Running == Len(frames) > 1 /\ Top.runs
On(rule) == rule \in st.rules

----------------------------------------------------------------------------
Message(sender, to, value, gas, transfers, static, code) ==
  [sender |-> sender, to |-> to, value |-> value, gas |-> gas, transfers |-> transfers,
   static |-> static, create |-> FALSE, doomed |-> FALSE, runs |-> code]

\* A message that is executed: two snapshots (of _apply_msg and of
\* create_contract) and the world that its failure has to leave.
Frame(m, snap, outer, world) ==
  [sender |-> m.sender, to |-> m.to, value |-> m.value, gas |-> m.gas, transfers |-> m.transfers,
   static |-> m.static, create |-> m.create, doomed |-> m.doomed, runs |-> m.runs,
   snap |-> snap, outer |-> outer, world |-> world]

\* _apply_msg up to the code: the snapshot, then the transfer.
Entered(s, m, outer, world) ==
  LET paid == ~m.transfers \/ get_balance(s, m.sender) >= m.value IN
  [st |-> IF m.transfers /\ paid THEN transfer_value(s, m.sender, m.to, m.value) ELSE s,
   frame |-> Frame([m EXCEPT !.runs = @ /\ paid], snapshot(s), outer, world)]

\* Where the next contract of that creator goes; the transaction has counted
\* the nonce of its sender already.
NextAddress(s, creator) ==
  NewAddress(creator, s.cache[creator].nonce - (IF creator = Sender THEN 1 ELSE 0))

\* create_contract up to the code.  On top of a contract nothing is created.
EnteredCreation(s, m) ==
  LET addr == NextAddress(s, m.sender)
      placed == [m EXCEPT !.to = addr, !.create = TRUE]
      counted == IF m.sender = Sender THEN s ELSE increment_nonce(s, m.sender)
      taken == /\ "metropolis" \in s.rules
               /\ counted.cache[addr].nonce # 0 \/ counted.cache[addr].code # NoCode
      b == get_balance(counted, addr)
      cleared == IF b = 0 THEN counted
                 ELSE set_code(set_nonce(set_balance(counted, addr, b), addr, 0), addr, NoCode)
      born == set_nonce(cleared, addr, IF "spurious_dragon" \in s.rules THEN 1 ELSE 0)
  IN IF taken
     THEN [st |-> counted,
           frame |-> Frame([placed EXCEPT !.runs = FALSE, !.doomed = TRUE],
                           snapshot(counted), snapshot(counted), World(counted))]
     ELSE Entered(born, placed, snapshot(cleared), World(cleared))

HasCode(a) == st.cache[a].code # NoCode

----------------------------------------------------------------------------
\* Blocks and transactions

\* apply_block: the snapshot and initialize.
BeginBlock ==
  /\ frames = <<>> /\ tx.blocks < MaxBlocks
  /\ frames' = <<[snap |-> snapshot(st), world |-> World(st), gas |-> 0, static |-> FALSE,
                  runs |-> FALSE, supply |-> supply]>>
  /\ st' = [st EXCEPT !.txindex = 0]
  /\ tx' = [tx EXCEPT !.blocks = @ + 1]
  /\ UNCHANGED <<supply, deaths>>

\* apply_transaction up to the message, for a valid transaction.
BeginTransaction(to, value, startgas) ==
  LET reset == [st EXCEPT !.logs = <<>>, !.suicides = <<>>, !.refunds = 0]
      bought == delta_balance(increment_nonce(reset, Sender), Sender, -startgas)
      m == Message(Sender, to, value, startgas - (IF to = CREATE THEN 1 ELSE 0), TRUE, FALSE,
                   to = CREATE \/ HasCode(to))
      entry == IF to = CREATE THEN EnteredCreation(bought, m)
               ELSE Entered(bought, m, snapshot(bought), World(bought))
  IN /\ Len(frames) = 1 /\ tx.phase = "none" /\ ~Top.runs
     /\ to = CREATE => NextAddress(bought, Sender) \in Address
     /\ get_balance(st, Sender) >= value + startgas
     /\ st' = entry.st
     /\ frames' = Append(frames, entry.frame)
     /\ tx' = [tx EXCEPT !.phase = "running", !.startgas = startgas]
     /\ UNCHANGED <<supply, deaths>>

\* apply_transaction from the message on: gas is sold, suicides are carried out.
FinishTransaction ==
  LET refunds == st.refunds + Cardinality(Range(st.suicides)) * GSUICIDEREFUND
      used == tx.startgas - tx.gas
      refunded == IF tx.res = 0 THEN 0 ELSE Min({refunds, used \div 2})
      sold == delta_balance(delta_balance(st, Sender, tx.gas + refunded),
                            Coinbase, used - refunded)
      counted == [sold EXCEPT !.refunds = IF tx.res = 1 /\ refunds > 0 THEN 0 ELSE @,
                              !.suicides = <<>>]
      cleared[n \in 0 .. Len(st.suicides)] ==
        IF n = 0 THEN counted
        ELSE del_account(set_balance(cleared[n - 1], st.suicides[n], 0), st.suicides[n])
      last == cleared[Len(st.suicides)]
      written == IF On("metropolis") THEN last ELSE commit(last)
  IN /\ tx.phase = "done"
     /\ st' = [written EXCEPT !.logs = <<>>, !.txindex = @ + 1]
     /\ tx' = [tx EXCEPT !.phase = "none"]
     /\ deaths' = (deaths \/ st.suicides # <<>>)
     /\ UNCHANGED <<frames, supply>>

\* finalize: the reward.
Finalize ==
  /\ Len(frames) = 1 /\ tx.phase = "none" /\ ~Top.runs
  /\ st' = delta_balance(st, Coinbase, BlockReward)
  /\ supply' = supply + BlockReward
  /\ frames' = <<[Top EXCEPT !.runs = TRUE]>>
  /\ UNCHANGED <<tx, deaths>>

\* verify_execution_results commits and compares; post_finalize.
AcceptBlock ==
  /\ Len(frames) = 1 /\ Top.runs
  /\ st' = commit(st)
  /\ frames' = <<>>
  /\ UNCHANGED <<tx, supply, deaths>>

\* A ValueError or an AssertionError, before or after that commit.
RefuseBlock ==
  /\ Len(frames) = 1 /\ tx.phase = "none"
  /\ \E s \in {st} \union (IF Top.runs THEN {commit(st)} ELSE {}) : st' = revert(s, Top.snap)
  /\ frames' = <<>>
  /\ supply' = Top.supply
  /\ UNCHANGED <<tx, deaths>>

\* An InvalidTransaction or a VerificationFailed, which apply_block does not
\* revert; nothing is executed on that state here (MaxBlocks is used up).
AbandonBlock ==
  /\ Len(frames) = 1 /\ tx.phase = "none" /\ ~Top.runs
  /\ frames' = <<>>
  /\ tx' = [tx EXCEPT !.blocks = MaxBlocks]
  /\ UNCHANGED <<st, supply, deaths>>

----------------------------------------------------------------------------
\* Instructions of the innermost message

\* The message goes on, with that much gas, in that state.
GoesOn(s, gas, runs) ==
  /\ st' = s
  /\ frames' = Append(Front(frames), [Top EXCEPT !.gas = gas, !.runs = runs])
  /\ UNCHANGED <<tx, supply, deaths>>

Calls(entry, gas) ==
  /\ st' = entry.st
  /\ frames' = Front(frames) \o <<[Top EXCEPT !.gas = gas], entry.frame>>
  /\ UNCHANGED <<tx, supply, deaths>>

SStore(k, v) ==
  LET refund == IF st.cache[Top.to].storage[k] # 0 /\ v = 0 THEN GSTORAGEREFUND ELSE 0 IN
  /\ Running /\ Top.gas >= 1 /\ ~Top.static
  /\ GoesOn(set_storage_data([st EXCEPT !.refunds = @ + refund], Top.to, k, v), Top.gas - 1, TRUE)

Log ==
  /\ Running /\ Top.gas >= 1 /\ ~Top.static
  /\ GoesOn(add_log(st, Top.to), Top.gas - 1, TRUE)

all_but_1n(x) == x - x \div CALL_CHILD_LIMIT_DENOM

\* Gas that a call costs beyond what it passes on.
ExtraGas(op, to, value) ==
  (IF op = "CALL" /\ ~account_exists(st, to) /\ (value > 0 \/ ~On("spurious_dragon"))
   THEN GCALLNEWACCOUNT ELSE 0)
  + (IF value > 0 THEN GCALLVALUETRANSFER ELSE 0)

\* The four messages.
\* Wrong: code that is borrowed is not bound by the static context.
CallMessageFree(op, to, value, gas) ==
  CASE op = "CALL" -> Message(Top.to, to, value, gas, TRUE, Top.static, HasCode(to))
    [] op = "CALLCODE" -> Message(Top.to, Top.to, value, gas, TRUE, Top.static, HasCode(to))
    [] op = "DELEGATECALL" -> Message(Top.sender, Top.to, Top.value, gas, FALSE, FALSE, HasCode(to))
    [] op = "STATICCALL" -> Message(Top.to, to, 0, gas, TRUE, TRUE, HasCode(to))
CallMessage(op, to, value, gas) ==
  CASE op = "CALL" -> Message(Top.to, to, value, gas, TRUE, Top.static, HasCode(to))
    [] op = "CALLCODE" -> Message(Top.to, Top.to, value, gas, TRUE, Top.static, HasCode(to))
    [] op = "DELEGATECALL" -> Message(Top.sender, Top.to, Top.value, gas, FALSE, Top.static, HasCode(to))
    [] op = "STATICCALL" -> Message(Top.to, to, 0, gas, TRUE, TRUE, HasCode(to))

\* What the called message gets: a call that transfers value brings a stipend.
\* Wrong: every call does.
StipendAlways(gas, value) == gas + GSTIPEND
SubmessageGas(gas, value) == gas + (IF value > 0 THEN GSTIPEND ELSE 0)

Call(op, to, value, want) ==
  LET left == Top.gas - 1
      extra == ExtraGas(op, to, value)
      gas == IF On("anti_dos") THEN Min({want, all_but_1n(left - extra)}) ELSE want
      sub == SubmessageGas(gas, value)
  IN /\ Running /\ left >= 0
     /\ op \in {"DELEGATECALL", "STATICCALL"} => value = 0
     /\ op = "STATICCALL" => On("metropolis")
     /\ ~(Top.static /\ value > 0 /\ op = "CALL")
     /\ IF On("anti_dos") THEN left >= extra ELSE left >= want + extra
     /\ IF get_balance(st, Top.to) < value \/ Depth >= MAX_DEPTH
        THEN GoesOn(st, left - (gas + extra - sub), TRUE)
        ELSE LET m == CallMessage(op, to, value, sub)
             IN Calls(Entered(st, m, snapshot(st), World(st)), left - gas - extra)

\* CREATE; a fresh address is needed for it.
Create(value) ==
  LET left == Top.gas - 1
      gas == IF On("anti_dos") THEN all_but_1n(left) ELSE left
      m == Message(Top.to, Top.to, value, gas, TRUE, FALSE, TRUE)
  IN /\ Running /\ left >= 0 /\ ~Top.static
     /\ NextAddress(st, Top.to) \in Address
     /\ IF get_balance(st, Top.to) >= value /\ Depth < MAX_DEPTH
        THEN Calls(EnteredCreation(st, m), left - gas)
        ELSE GoesOn(st, left, TRUE)

\* SUICIDE; the message then only returns.
Suicide(to) ==
  LET xfer == get_balance(st, Top.to)
      extra == IF On("anti_dos") /\ ~account_exists(st, to) /\ (xfer > 0 \/ ~On("spurious_dragon"))
               THEN GCALLNEWACCOUNT ELSE 0
      given == set_balance(st, to, get_balance(st, to) + xfer)
  IN /\ Running /\ ~Top.static /\ Top.gas >= extra
     /\ GoesOn(add_suicide(set_balance(given, Top.to, 0), Top.to), Top.gas - extra, FALSE)

\* RETURN of a code by a creation, which pays for it; before Homestead one
\* that cannot pay gets an account without code.
Deposit ==
  LET paid == Top.gas >= GCONTRACTBYTE IN
  /\ Running /\ Top.create /\ (paid \/ ~On("homestead"))
  /\ GoesOn(set_code(st, Top.to, IF paid THEN "code" ELSE NoCode),
            IF paid THEN Top.gas - GCONTRACTBYTE ELSE Top.gas, FALSE)

----------------------------------------------------------------------------
\* The end of the innermost message: whoever called it gets its gas.
Delivered(s, res, gas) ==
  /\ st' = s
  /\ IF Len(frames) = 2
     THEN frames' = Front(frames) /\ tx' = [tx EXCEPT !.phase = "done", !.res = res, !.gas = gas]
     ELSE /\ frames' = Append(Front(Front(frames)), [frames[Len(frames) - 1] EXCEPT !.gas = @ + gas])
          /\ UNCHANGED tx
  /\ UNCHANGED <<supply, deaths>>

\* STOP, RETURN, the end of the code, or no code at all.
Return ==
  /\ Len(frames) > 1 /\ ~Top.doomed
  /\ Delivered(st, 1, Top.gas)

\* A failure of the code, of the message that was refused, or of a creation
\* that cannot pay for its code: reverted in _apply_msg and in create_contract.
Failed(gas) == Delivered(revert(revert(st, Top.snap), Top.outer), 0, gas)

Fault ==
  /\ Len(frames) > 1 /\ (Top.runs \/ Top.doomed)
  /\ Failed(0)

Revert ==
  /\ Running /\ On("metropolis")
  /\ Failed(Top.gas)

Next ==
  \/ BeginBlock \/ Finalize \/ AcceptBlock \/ RefuseBlock \/ AbandonBlock
  \/ st.txindex < Len(Transactions) /\ \E t \in Transactions[st.txindex + 1] :
       BeginTransaction(t.to, t.value, t.gas)
  \/ FinishTransaction
  \/ \E k \in Key, v \in 0 .. 1 : SStore(k, v)
  \/ Log
  \/ \E op \in {"CALL", "CALLCODE", "DELEGATECALL", "STATICCALL"}, to \in Targets,
        value \in Values, want \in Wants : Call(op, to, value, want)
  \/ \E value \in Values : Create(value)
  \/ \E to \in Beneficiaries : Suicide(to)
  \/ Deposit \/ Return \/ Fault \/ Revert

Spec == Init /\ [][Next]_vars

----------------------------------------------------------------------------
\* Properties

Nested == INSTANCE Snapshots
  WITH world <- World(st), saved <- [i \in DOMAIN frames |-> frames[i].world]

\* A message, a creation or a block that fails leaves the world as it found
\* it, and one that succeeds as it made it, through any nesting of calls,
\* commits between transactions and at the end of a block (revert, commit and
\* the journal of state.py; _apply_msg; create_contract; apply_block).
ImplementsSnapshots == Nested!Spec

\* What accounts hold together with the gas that is paid for is what there
\* was and what blocks have added; only a suicide may lose some (delta_balance,
\* transfer_value, SUICIDE, the purchase and the sale of gas in
\* apply_transaction).
ValueConserved ==
  LET all == Wealth(st) + (IF tx.phase = "none" THEN 0 ELSE tx.startgas)
  IN /\ all <= supply
     /\ ~deaths /\ st.suicides = <<>> => all = supply

\* While a static call is going on, nothing is written, by whatever code is
\* called or borrowed within it (the checks of msg.static in vm_execute).
StaticUntouched ==
  \A i \in DOMAIN frames : frames[i].static =>
    /\ Data(World(st)) = Data(frames[i].world)
    /\ World(st).aux = frames[i].world.aux

\* Within a transaction the gas of all its messages together never grows
\* (the gas limits of calls, the stipend, what comes back from a call), and a
\* transaction ends with no more than it began with.
MessagesGas ==
  SumFunction([i \in DOMAIN frames |-> frames[i].gas]) + (IF tx.phase = "done" THEN tx.gas ELSE 0)
GasShrinks ==
  /\ [][tx.phase = "running" => MessagesGas' <= MessagesGas]_vars
  /\ [](MessagesGas >= 0 /\ (tx.phase = "running" => MessagesGas <= tx.startgas))
=============================================================================
