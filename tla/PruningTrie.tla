----------------------------- MODULE PruningTrie -----------------------------
(***************************************************************************)
(* Class Trie of ethereum/experimental/pruning_trie.py on class RefcountDB *)
(* of ethereum/experimental/refcount_db.py.  Every node the trie makes     *)
(* counts once more, every node it replaces once less; a node that counts  *)
(* nothing is put on a death row, from which cleanup takes it `ttl' epochs *)
(* later.  An epoch that is not too old can be reverted.                   *)
(***************************************************************************)
EXTENDS TrieNodes

CONSTANTS
  Ttl,        \* db.ttl
  DeathRow,   \* DEATH_ROW_OFFSET, 2^62 in the code: counts from it on are epochs
  MaxOps,     \* bound on the calls of update and delete
  MaxEpoch,   \* bound on the epochs
  MaxReverts  \* bound on the reverted epochs

ASSUME PruningAssumption ==
  /\ Ttl \in Nat
  /\ DeathRow \in Nat
  /\ DeathRow > MaxOps + MaxEpoch + Ttl

VARIABLES
  root,       \* root_node
  refs,       \* the b'r:' records: reference count or death mark of a node
  journal,    \* db.journal, of the running epoch: <<count before, node>>
  deathRow,   \* db.death_row, of the running epoch
  journals,   \* the b'journal:' records by epoch
  deathRows,  \* the b'deathrow:' records by epoch
  epoch,      \* the running epoch, a number of the caller's
  roots,      \* the root at the beginning of each epoch, kept by the caller
  failed,     \* the assertion of dec_refcount has failed
  ops, reverts

pruningVars ==
  <<root, refs, journal, deathRow, journals, deathRows, epoch, roots, failed, ops, reverts>>

----------------------------------------------------------------------------
\* Changes of reference counts, in the order of the calls.
Inc(n) == IF Hashed(n) THEN <<[node |-> n, by |-> "inc"]>> ELSE <<>>
Dec(n) == IF Hashed(n) THEN <<[node |-> n, by |-> "dec"]>> ELSE <<>>

\* The root counts under its hash even if it is small (is_root).
RootInc(n) == IF n = Blank THEN <<>> ELSE <<[node |-> n, by |-> "inc"]>>
RootDec(n) == IF n = Blank THEN <<>> ELSE <<[node |-> n, by |-> "dec"]>>

Made(n, changes) == [node |-> n, changes |-> changes]

\* _update_and_delete_storage, _delete_and_delete_storage: the old node goes,
\* whether it is replaced or was only counted once more.
Replacing(n, r) == Made(r.node, r.changes \o Dec(n))

\* A parent takes a child that has counted itself: the reference of the parent
\* is one more, the child's own one less.
Adopt(child) == Inc(child) \o Dec(child)

\* _update and _update_kv_node
RECURSIVE UpdateNode(_, _, _)
UpdateNode(n, key, value) ==
  CASE n.kind = "blank" -> Made(Leaf(key, value), Inc(Leaf(key, value)))
    [] n.kind = "branch" /\ key = <<>> ->
         LET new == [n EXCEPT !.val = value] IN Made(new, Inc(new))
    [] n.kind = "branch" /\ key # <<>> ->
         LET i == Head(key)
             r == Replacing(n.sub[i], UpdateNode(n.sub[i], Tail(key), value))
             new == [n EXCEPT !.sub[i] = r.node]
         IN Made(new, r.changes \o Adopt(r.node) \o Inc(new))
    [] n.kind = "leaf" /\ key = n.key -> Made(Leaf(key, value), Inc(Leaf(key, value)))
    [] n.kind = "extension" /\ IsPrefix(n.key, key) ->
         LET r == Replacing(n.sub[1], UpdateNode(n.sub[1], After(key, Len(n.key)), value))
             new == Extension(n.key, r.node)
         IN Made(new, r.changes \o Adopt(r.node) \o Inc(new))
    [] OTHER ->
         LET prefix == SubSeq(key, 1, CommonPrefix(n.key, key))
             fork == Fork(n, key, value)
             new == Prefixed(prefix, fork.node)
         IN Made(new, FoldLeft(LAMBDA s, p : s \o Inc(p), <<>>, fork.puts)
                        \o (IF prefix = <<>> THEN <<>> ELSE Inc(fork.node)) \o Inc(new))

\* _normalize_branch_node
\* Wrong: the child that is merged into its parent keeps its count.
NormalizeKeeping(n) ==
  LET filled == {i \in Nibble : n.sub[i] # Blank}
      i == Min(filled)
      new == CASE Cardinality(filled) + (IF n.val = NoValue THEN 0 ELSE 1) > 1 -> n
               [] filled = {} -> Leaf(<<>>, n.val)
               [] IsKeyValue(n.sub[i]) -> [n.sub[i] EXCEPT !.key = <<i>> \o @]
               [] OTHER -> Extension(<<i>>, n.sub[i])
  IN Made(new, Inc(new))
Normalize(n) ==
  LET filled == {i \in Nibble : n.sub[i] # Blank}
      i == Min(filled)
  IN CASE Cardinality(filled) + (IF n.val = NoValue THEN 0 ELSE 1) > 1 -> Made(n, Inc(n))
       [] filled = {} -> Made(Leaf(<<>>, n.val), Inc(Leaf(<<>>, n.val)))
       [] IsKeyValue(n.sub[i]) ->
            LET new == [n.sub[i] EXCEPT !.key = <<i>> \o @]
            IN Made(new, Dec(n.sub[i]) \o Inc(new))
       [] OTHER -> Made(Extension(<<i>>, n.sub[i]), Inc(Extension(<<i>>, n.sub[i])))

\* _delete, _delete_branch_node and _delete_kv_node
RECURSIVE DeleteNode(_, _)
DeleteNode(n, key) ==
  CASE n.kind = "branch" /\ key = <<>> -> Normalize([n EXCEPT !.val = NoValue])
    [] n.kind = "branch" /\ key # <<>> ->
         LET i == Head(key)
             r == Replacing(n.sub[i], DeleteNode(n.sub[i], Tail(key)))
             new == [n EXCEPT !.sub[i] = r.node]
             last == IF r.node = Blank THEN Normalize(new) ELSE Made(new, Inc(new))
         IN Made(last.node, r.changes \o Adopt(r.node) \o last.changes)
    [] n.kind = "leaf" /\ key = n.key -> Made(Blank, <<>>)
    [] n.kind = "extension" /\ IsPrefix(n.key, key) ->
         LET r == Replacing(n.sub[1], DeleteNode(n.sub[1], After(key, Len(n.key)))) IN
         IF IsKeyValue(r.node)
         THEN LET new == [r.node EXCEPT !.key = n.key \o @]
              IN Made(new, r.changes \o Dec(r.node) \o Inc(new))
         ELSE LET new == Extension(n.key, r.node)
              IN Made(new, r.changes \o Adopt(r.node) \o Inc(new))
    [] OTHER -> Made(n, Inc(n))

\* _delete_node_storage of every node of a tree.
RECURSIVE ClearNode(_)
ClearNode(n) ==
  Dec(n) \o FoldLeft(LAMBDA s, i : s \o ClearNode(n.sub[i]), <<>>,
                     SetToSortSeq(DOMAIN n.sub, <))

----------------------------------------------------------------------------
\* inc_refcount: a node that is not there or is on the death row begins at 0.
Increased(db, n) ==
  LET old == IF n \in DOMAIN db.refs THEN db.refs[n] ELSE 0
      from == IF old >= DeathRow THEN 0 ELSE old
  IN [db EXCEPT !.refs = [x \in DOMAIN @ \union {n} |-> IF x = n THEN from + 1 ELSE @[x]],
                !.journal = Append(@, <<old, n>>)]

\* dec_refcount
Decreased(db, n) ==
  IF n \notin DOMAIN db.refs \/ db.refs[n] = 0
  THEN [db EXCEPT !.failed = TRUE]
  ELSE [db EXCEPT !.refs[n] = @ - 1,
                  !.journal = Append(@, <<db.refs[n], n>>),
                  !.deathRow = IF db.refs[n] = 1 THEN Append(@, n) ELSE @]

\* The calls of an operation; the assertion ends it.
Applied(changes) ==
  FoldLeft(LAMBDA db, c : IF db.failed THEN db
                          ELSE IF c.by = "inc" THEN Increased(db, c.node)
                          ELSE Decreased(db, c.node),
           [refs |-> refs, journal |-> journal, deathRow |-> deathRow, failed |-> FALSE],
           changes)

Init ==
  /\ root = Blank
  /\ refs = [n \in {} |-> 0]
  /\ journal = <<>> /\ deathRow = <<>>
  /\ journals = [e \in {} |-> <<>>] /\ deathRows = [e \in {} |-> <<>>]
  /\ epoch = 0 /\ roots = <<>>
  /\ failed = FALSE /\ ops = 0 /\ reverts = 0

Perform(r, changes) ==
  /\ ops < MaxOps /\ ~failed
  /\ ops' = ops + 1
  /\ LET db == Applied(changes) IN
       /\ refs' = db.refs /\ journal' = db.journal
       /\ deathRow' = db.deathRow /\ failed' = db.failed
  /\ root' = r
  /\ UNCHANGED <<journals, deathRows, epoch, roots, reverts>>

\* update and delete, with replace_root_hash
Replace(r) == Perform(r.node, r.changes \o RootDec(root) \o RootInc(r.node))

Update(key, value) == Replace(Replacing(root, UpdateNode(root, key, value)))

Delete(key) == Replace(Replacing(root, DeleteNode(root, key)))

\* clear_all; the caller goes on with a new trie. The nodes of a tree with a
\* small root are not all counted down, so the caller clears only large ones.
ClearAll ==
  /\ Hashed(root)
  /\ Perform(Blank, Dec(root) \o ClearNode(root))

(***************************************************************************)
(* The epochs.  The operators are on the records [refs, journals,          *)
(* deathRows], with what commit has made of them.                          *)
(***************************************************************************)
\* commit_refcount_changes: what counts nothing is marked with the epoch of
\* its end; an earlier record of that end is read under a wrong key and lost.
Committed ==
  LET end == epoch + Ttl IN
  [refs |-> [n \in DOMAIN refs |-> IF n \in Range(deathRow) /\ refs[n] = 0
                                   THEN DeathRow + end ELSE refs[n]],
   deathRows |-> (end :> deathRow) @@ deathRows,
   journals |-> (epoch :> (IF epoch \in DOMAIN journals THEN journals[epoch] \o journal
                           ELSE journal)) @@ journals]

\* cleanup: what is still marked with the epoch goes, as do the record of the
\* epoch's death row and the journal that is too old.
\* Wrong: whatever is on the death row goes.
CleanedAll(db) ==
  LET row == IF epoch \in DOMAIN db.deathRows THEN Range(db.deathRows[epoch]) ELSE {}
  IN [refs |-> [n \in DOMAIN db.refs \ row |-> db.refs[n]],
      deathRows |-> [e \in DOMAIN db.deathRows \ {epoch} |-> db.deathRows[e]],
      journals |-> [e \in DOMAIN db.journals \ {epoch - Ttl} |-> db.journals[e]]]
Cleaned(db) ==
  LET row == IF epoch \in DOMAIN db.deathRows THEN Range(db.deathRows[epoch]) ELSE {}
      dead == {n \in row \intersect DOMAIN db.refs : db.refs[n] = DeathRow + epoch}
  IN [refs |-> [n \in DOMAIN db.refs \ dead |-> db.refs[n]],
      deathRows |-> [e \in DOMAIN db.deathRows \ {epoch} |-> db.deathRows[e]],
      journals |-> [e \in DOMAIN db.journals \ {epoch - Ttl} |-> db.journals[e]]]

\* The end of an epoch in the tests: commit, then cleanup.
EndEpoch ==
  /\ epoch < MaxEpoch /\ ~failed
  /\ LET db == Cleaned(Committed) IN
       refs' = db.refs /\ deathRows' = db.deathRows /\ journals' = db.journals
  /\ journal' = <<>> /\ deathRow' = <<>>
  /\ epoch' = epoch + 1
  /\ roots' = Append(roots, root)
  /\ UNCHANGED <<root, failed, ops, reverts>>

\* revert_refcount_changes of the last epoch; the journal's counts are put
\* back from the last one on, until a node is not there. The journal stays.
\* Wrong: from the first one on.
RestoredForward(entries) ==
  FoldLeft(LAMBDA db, e : [db EXCEPT ![e[2]] = e[1]], refs, entries)
Restored(entries) ==
  LET there == {i \in 0 .. Len(entries) :
                  \A j \in i + 1 .. Len(entries) : entries[j][2] \in DOMAIN refs}
      put == SubSeq(entries, Min(there) + 1, Len(entries))
  IN FoldLeft(LAMBDA db, e : [db EXCEPT ![e[2]] = e[1]], refs, Reverse(put))

Revert ==
  LET last == epoch - 1 IN
  /\ last \in DOMAIN journals /\ journal = <<>> /\ ~failed
  /\ reverts < MaxReverts
  /\ reverts' = reverts + 1
  /\ refs' = Restored(journals[last])
  /\ deathRows' = [e \in DOMAIN deathRows \ {last + Ttl} |-> deathRows[e]]
  /\ epoch' = last
  /\ roots' = Front(roots)
  /\ root' = IF last = 0 THEN Blank ELSE roots[last]
  /\ UNCHANGED <<journal, deathRow, journals, failed, ops>>

\* Reading is the code of Trie once more: _to_dict and _get_size.
to_dict == ToDict(root)
Length == GetSize(root)

Next ==
  \/ \E key \in Key, value \in Value : Update(key, value)
  \/ \E key \in Key : Delete(key)
  \/ ClearAll
  \/ EndEpoch
  \/ Revert

Spec == Init /\ [][Next]_pruningVars

----------------------------------------------------------------------------
\* The places at which a node stands in the tree under its hash, and the root's.
References(n) ==
  Cardinality({p \in HashedAt(root, <<>>) : p[2] = n}) + (IF n = root /\ n # Blank THEN 1 ELSE 0)

\* Every node of the tree is in the database, whatever has been taken off the
\* death row and reverted: the root can be opened, every key read and the keys
\* counted, and the shape tells the content, not the history.
Readable ==
  /\ \A p \in HashedAt(root, <<>>) : p[2] \in DOMAIN refs
  /\ root = Canon(to_dict) /\ Length = Cardinality(DOMAIN to_dict)

\* A trie never asks for a count below zero, so that the assertion of
\* dec_refcount holds, and a live node counts exactly the places it stands at,
\* though subtrees are shared and nodes rebuilt in place.
ExactCounts ==
  /\ ~failed
  /\ \A n \in DOMAIN refs :
       IF refs[n] >= DeathRow THEN References(n) = 0 ELSE refs[n] = References(n)

\* Nothing leaks (check_db_tightness): if no epoch has been reverted, what the
\* tree does not hold is on the death row of the epoch that takes it.
Tight ==
  ~failed /\ reverts = 0 =>
    \A n \in DOMAIN refs : References(n) = 0 =>
      \/ n \in Range(deathRow)
      \/ \E e \in DOMAIN deathRows : e >= epoch /\ refs[n] = DeathRow + e /\ n \in Range(deathRows[e])

=============================================================================
