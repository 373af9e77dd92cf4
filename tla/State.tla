------------------------------- MODULE State -------------------------------
(***************************************************************************)
(* The account state of ethereum/state.py: accounts changed in a cache in  *)
(* front of the state trie, a journal with an undo for each change,        *)
(* snapshots, and the commit that writes the cache to the trie.            *)
(*                                                                         *)
(* A state is a record: cache and trie (functions of the address), journal,*)
(* the auxiliary variables of STATE_DEFAULTS that messages change (logs,   *)
(* suicides, refunds, txindex) and the rules of its block.  An account     *)
(* that is not cached is what the trie holds, so the cache is total.  The  *)
(* root of a trie is the trie.                                             *)
(***************************************************************************)
EXTENDS Integers, Sequences, FiniteSets, SequencesExt, Functions

CONSTANTS
  Address,
  Key       \* storage slots

\* Entries of the journal that belong to no account are marked "aux".
ASSUME AddressAssumption == IsFiniteSet(Address) /\ "aux" \notin Address

NoCode == "none"
Code == {NoCode, "code"}     \* of a code only whether there is one
Stored == [present |-> FALSE, nonce |-> 0, balance |-> 0, code |-> NoCode, storage |-> [k \in Key |-> 0]]

\* What a state trie may hold at an address.
TrieAccount ==
  [present : BOOLEAN, nonce : Nat, balance : Nat, code : Code, storage : [Key -> Int]]

\* get_and_cache_account: the account as the trie has it, or a blank one.
Loaded(t) ==
  [nonce |-> t.nonce, balance |-> t.balance, code |-> t.code, storage |-> t.storage,
   touched |-> FALSE, deleted |-> FALSE, existent_at_start |-> t.present]

Opened(trie, rules) ==
  [cache |-> [a \in Address |-> Loaded(trie[a])], trie |-> trie, journal |-> <<>>,
   logs |-> <<>>, suicides |-> <<>>, refunds |-> 0, txindex |-> 0, rules |-> rules]

get_balance(s, a) == s.cache[a].balance
is_blank(account) == account.nonce = 0 /\ account.balance = 0 /\ account.code = NoCode

account_exists(s, a) ==
  LET account == s.cache[a] IN
  IF "spurious_dragon" \in s.rules THEN ~is_blank(account)
  ELSE account.touched \/ (account.existent_at_start /\ ~account.deleted)

----------------------------------------------------------------------------
\* Changes, each with its undo.
set_and_journal(s, a, field, value) ==
  [s EXCEPT !.journal = Append(@, [at |-> a, field |-> field, was |-> s.cache[a][field]]),
            !.cache[a] = [@ EXCEPT ![field] = value]]

Set(s, a, field, value) == set_and_journal(set_and_journal(s, a, field, value), a, "touched", TRUE)

set_balance(s, a, value) == Set(s, a, "balance", value)
set_code(s, a, value) == Set(s, a, "code", value)
set_nonce(s, a, value) == Set(s, a, "nonce", value)
delta_balance(s, a, value) == Set(s, a, "balance", s.cache[a].balance + value)
increment_nonce(s, a) == Set(s, a, "nonce", s.cache[a].nonce + 1)
set_storage_data(s, a, k, v) == Set(s, a, "storage", [s.cache[a].storage EXCEPT ![k] = v])
reset_storage(s, a) == set_and_journal(s, a, "storage", [k \in Key |-> 0])

Recorded(s, field, value) ==
  [s EXCEPT ![field] = Append(@, value),
            !.journal = Append(@, [at |-> "aux", field |-> field, was |-> 0])]
add_suicide(s, a) == Recorded(s, "suicides", a)
add_log(s, log) == Recorded(s, "logs", log)

\* Wrong: the balance of the receiver is read before the sender has paid.
transfer_stale(s, from, to, value) ==
  set_balance(delta_balance(s, from, -value), to, get_balance(s, to) + value)
transfer_value(s, from, to, value) == delta_balance(delta_balance(s, from, -value), to, value)

del_account(s, a) ==
  LET emptied == reset_storage(set_code(set_nonce(set_balance(s, a, 0), a, 0), a, NoCode), a)
  IN set_and_journal(set_and_journal(emptied, a, "deleted", TRUE), a, "touched", FALSE)

----------------------------------------------------------------------------
Aux(s) == [logs |-> s.logs, suicides |-> s.suicides, refunds |-> s.refunds, txindex |-> s.txindex]

snapshot(s) == [root |-> s.trie, L |-> Len(s.journal), aux |-> Aux(s)]

\* An undo that fails (pop from a list that was replaced) is reported and passed over.
Undone(s, entry) ==
  IF entry.at = "aux"
  THEN [s EXCEPT ![entry.field] = IF @ = <<>> THEN @ ELSE Front(@)]
  ELSE [s EXCEPT !.cache[entry.at] = [@ EXCEPT ![entry.field] = entry.was]]

Popped(s) == Undone([s EXCEPT !.journal = Front(@)], Last(s.journal))

\* Wrong: the undos run in the order of the changes.
UndoneForward(s, L) ==
  [FoldLeft(Undone, s, SubSeq(s.journal, L + 1, Len(s.journal)))
     EXCEPT !.journal = SubSeq(@, 1, IF L < Len(@) THEN L ELSE Len(@))]
UndoneTo(s, L) ==
  LET undone[n \in 0 .. Len(s.journal)] ==
        IF n = Len(s.journal) THEN s ELSE Popped(undone[n + 1])
  IN IF L < Len(s.journal) THEN undone[L] ELSE s

Restored(s, aux) ==
  [s EXCEPT !.logs = aux.logs, !.suicides = aux.suicides, !.refunds = aux.refunds,
            !.txindex = aux.txindex]

\* A change of the root is undone too, but at the outermost snapshot only:
\* anywhere else an assertion fails and the rest is not restored.
revert(s, snap) ==
  LET undone == UndoneTo(s, snap.L) IN
  IF snap.root = s.trie THEN Restored(undone, snap.aux)
  ELSE IF snap.L = 0
  THEN Restored([undone EXCEPT !.trie = snap.root,
                               !.cache = [a \in Address |-> Loaded(snap.root[a])]], snap.aux)
  ELSE undone

Committed(s) ==
  Opened([a \in Address |->
            LET account == s.cache[a] IN
            IF ~account.touched /\ ~account.deleted THEN s.trie[a]
            ELSE IF account_exists(s, a)
            THEN [present |-> TRUE, nonce |-> account.nonce, balance |-> account.balance,
                  code |-> account.code, storage |-> account.storage]
            ELSE Stored], s.rules)

commit(s) == Restored(Committed(s), Aux(s))

----------------------------------------------------------------------------
\* All that anyone can read of a state: accounts, whether they exist, and
\* what the transaction has recorded.
World(s) ==
  [accounts |-> [a \in Address |->
     [nonce |-> s.cache[a].nonce, balance |-> s.cache[a].balance, code |-> s.cache[a].code,
      storage |-> s.cache[a].storage, exists |-> account_exists(s, a)]],
   aux |-> Aux(s)]

\* The part of it that instructions can write.
Data(world) ==
  [a \in Address |-> [world.accounts[a] EXCEPT !.exists = TRUE]]

Wealth(s) == SumFunction([a \in Address |-> s.cache[a].balance])
=============================================================================
