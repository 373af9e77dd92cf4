-------------------------------- MODULE Trie --------------------------------
(***************************************************************************)
(* Class Trie of ethereum/trie.py on the reference-counting database of    *)
(* ethereum/db.py.  update and delete rebuild the path to the key, put the *)
(* nodes they make into the database, and note the nodes they replace in   *)
(* `deletes'; the chain takes those out of the database when the block     *)
(* that replaced them is old.                                              *)
(*                                                                         *)
(* Branches are changed in place.  A child that is small enough to be a    *)
(* list inside its parent is changed inside the parent's copy as well,     *)
(* from which _update_and_delete_storage tells what was replaced.  So an   *)
(* operation on a node has four results: the new node, the content of the  *)
(* old object (`object') and of its shallow copy (`copy') after it, and    *)
(* what it has put in the database and noted for deletion.                 *)
(***************************************************************************)
EXTENDS TrieNodes

CONSTANT MaxOps   \* bound on the calls of update and delete

VARIABLES
  root,      \* root_node
  count,     \* the database: reference counts by node, 0 if it is not there
  deletes,   \* the attribute of the same name
  ops        \* number of calls so far

trieVars == <<root, count, deletes, ops>>

----------------------------------------------------------------------------
\* What happened to a node: new node, old object, its copy, puts, deletes.
Result(new, object, copy, puts, dels) ==
  [node |-> new, object |-> object, copy |-> copy, puts |-> puts, dels |-> dels]

\* What an old node or its copy holds after an operation r on a child: a hash
\* stays what it was, a list has been changed in place and stays a list, even if
\* it is so large now that the new node refers to it by hash.
Seen(child, r) ==
  CASE Hashed(child) -> child
    [] ~Hashed(child) /\ Hashed(r.object) -> Inlined(r.object)
    [] OTHER -> r.object

\* The end of _update_and_delete_storage and _delete_and_delete_storage. A copy
\* with a list too large for it is not the new node, nor any that was put: what
\* is noted then is a hash that the database does not know.
\* Wrong: the node is noted for deletion even if it is the same as before.
NoteAlways(r) == [r EXCEPT !.dels = @ \o Stored(r.copy)]
NoteReplaced(r) == IF r.copy = r.node THEN r ELSE [r EXCEPT !.dels = @ \o Stored(r.copy)]

\* _update and _update_kv_node
RECURSIVE UpdateNode(_, _, _)
UpdateNode(n, key, value) ==
  CASE n.kind = "blank" -> Result(Leaf(key, value), n, n, <<>>, <<>>)
    [] n.kind = "branch" /\ key = <<>> ->
         LET new == [n EXCEPT !.val = value] IN Result(new, new, n, <<>>, <<>>)
    [] n.kind = "branch" /\ key # <<>> ->
         LET i == Head(key)
             r == NoteReplaced(UpdateNode(n.sub[i], Tail(key), value))
             new == [n EXCEPT !.sub[i] = r.node]
         IN Result(new, new, [n EXCEPT !.sub[i] = Seen(@, r)], r.puts \o Stored(r.node), r.dels)
    [] n.kind = "leaf" /\ key = n.key -> Result(Leaf(key, value), n, n, <<>>, <<>>)
    [] n.kind = "extension" /\ IsPrefix(n.key, key) ->
         LET r == NoteReplaced(UpdateNode(n.sub[1], After(key, Len(n.key)), value))
             old == [n EXCEPT !.sub[1] = Seen(@, r)]
         IN Result(Extension(n.key, r.node), old, old, r.puts \o Stored(r.node), r.dels)
    [] OTHER ->
         LET prefix == SubSeq(key, 1, CommonPrefix(n.key, key))
             fork == Fork(n, key, value)
         IN Result(Prefixed(prefix, fork.node), n, n,
                   fork.puts \o (IF prefix = <<>> THEN <<>> ELSE Stored(fork.node)), <<>>)

\* _normalize_branch_node
\* Wrong: a branch with one child is left as it is.
NormalizeValueOnly(n) ==
  [node |-> IF \A i \in Nibble : n.sub[i] = Blank THEN Leaf(<<>>, n.val) ELSE n, puts |-> <<>>]
Normalize(n) ==
  LET filled == {i \in Nibble : n.sub[i] # Blank} IN
  IF Cardinality(filled) + (IF n.val = NoValue THEN 0 ELSE 1) > 1
  THEN [node |-> n, puts |-> <<>>]
  ELSE IF filled = {}
  THEN [node |-> Leaf(<<>>, n.val), puts |-> <<>>]
  ELSE LET i == Min(filled)
           child == n.sub[i]
       IN IF IsKeyValue(child)
          THEN [node |-> [child EXCEPT !.key = <<i>> \o @], puts |-> <<>>]
          ELSE [node |-> Extension(<<i>>, child), puts |-> Stored(child)]

\* _delete, _delete_branch_node and _delete_kv_node
RECURSIVE DeleteNode(_, _)
DeleteNode(n, key) ==
  CASE n.kind = "branch" /\ key = <<>> ->
         LET object == [n EXCEPT !.val = NoValue]
             normal == Normalize(object)
         IN Result(normal.node, object, n, normal.puts, <<>>)
    [] n.kind = "branch" /\ key # <<>> ->
         LET i == Head(key)
             r == NoteReplaced(DeleteNode(n.sub[i], Tail(key)))
             copy == [n EXCEPT !.sub[i] = Seen(@, r)]
             new == [n EXCEPT !.sub[i] = r.node]
             normal == IF new # copy /\ r.node = Blank THEN Normalize(new)
                       ELSE [node |-> new, puts |-> <<>>]
         IN Result(normal.node, new, copy, r.puts \o Stored(r.node) \o normal.puts, r.dels)
    [] n.kind = "leaf" /\ key = n.key -> Result(Blank, n, n, <<>>, <<>>)
    [] n.kind = "extension" /\ IsPrefix(n.key, key) ->
         LET r == NoteReplaced(DeleteNode(n.sub[1], After(key, Len(n.key))))
             old == [n EXCEPT !.sub[1] = Seen(@, r)]
             puts == r.puts \o Stored(r.node)
         IN CASE r.node = old.sub[1] -> Result(old, old, old, puts, r.dels)
              [] IsKeyValue(r.node) ->
                   Result([r.node EXCEPT !.key = n.key \o @], old, old, puts, r.dels)
              [] OTHER ->
                   Result(Extension(n.key, r.node), old, old, puts \o Stored(r.node), r.dels)
    [] OTHER -> Result(n, n, n, <<>>, <<>>)

----------------------------------------------------------------------------
\* RefcountDB.put
Counted(db, puts) ==
  [n \in DOMAIN db \union Range(puts) |->
     (IF n \in DOMAIN db THEN db[n] ELSE 0) + Cardinality({i \in DOMAIN puts : puts[i] = n})]

\* RefcountDB.delete of every noted node, up to the first that is not there.
Uncounted(db, dels) ==
  LET Times(n, i) == Cardinality({j \in 1 .. i : dels[j] = n})
      Held(n) == IF n \in DOMAIN db THEN db[n] ELSE 0
      done == Max({i \in 0 .. Len(dels) : \A j \in 1 .. i : Times(dels[j], i) <= Held(dels[j])})
  IN [n \in {m \in DOMAIN db : db[m] > Times(m, done)} |-> db[n] - Times(n, done)]

Init ==
  /\ root = Blank
  /\ count = [n \in {} |-> 0]
  /\ deletes = <<>>
  /\ ops = 0

\* The end of update and delete: _update_root_hash puts the root, small or not.
Replace(r) ==
  /\ ops < MaxOps
  /\ ops' = ops + 1
  /\ root' = r.node
  /\ count' = Counted(count, Append(r.puts, r.node))
  /\ deletes' = deletes \o r.dels

Update(key, value) == Replace(NoteReplaced(UpdateNode(root, key, value)))

Delete(key) == Replace(NoteReplaced(DeleteNode(root, key)))

\* Chain.add_block takes out what an old block has replaced, once: its log is
\* deleted with it. (A log that ended early is kept, and is taken again if a second
\* block comes at the height that asked for it; here each height has one block.)
Prune ==
  /\ deletes # <<>>
  /\ count' = Uncounted(count, deletes)
  /\ deletes' = <<>>
  /\ UNCHANGED <<root, ops>>

Next ==
  \/ \E key \in Key, value \in Value : Update(key, value)
  \/ \E key \in Key : Delete(key)
  \/ Prune

Spec == Init /\ [][Next]_trieVars

----------------------------------------------------------------------------
\* The nodes that the tree holds under their hash, and its root.
Live == {p[2] : p \in HashedAt(root, <<>>)} \union ({root} \ {Blank})

\* Pruning takes out only what can go: a live node is in the database more often
\* than it is noted, though branches are changed in place, subtrees shared,
\* unchanged nodes put again and hashes noted that were never put. So it stays,
\* whether a log is taken to its end or to the first hash that is not there (what
\* comes behind it is then never deleted), as long as it is taken once (see Prune).
LiveNodesKept ==
  \A n \in Live :
    n \in DOMAIN count /\ count[n] > Cardinality({i \in DOMAIN deletes : deletes[i] = n})

\* The shape of the tree, so the root hash, tells its content, not its history,
\* and counting without reading the keys gives their number.
Canonical ==
  /\ root = Canon(ToDict(root))
  /\ GetSize(root) = Cardinality(DOMAIN ToDict(root))

\* next and prev return the neighbours of a key in the order of the keys, for
\* keys that are in the trie and keys that are not.
Neighbours ==
  \A key \in Key :
    LET keys == KeysBelow(root)
        above == {k \in keys : Before(key, k)}
        below == {k \in keys : Before(k, key)}
    IN /\ Iter(root, key, FALSE) = {k \in above : \A x \in above : ~Before(x, k)}
       /\ Iter(root, key, TRUE) = {k \in below : \A x \in below : ~Before(k, x)}

\* What a reader of the trie sees is a dictionary that update and delete change
\* at one key each.
Contents == INSTANCE Dictionary WITH dict <- ToDict(root)
ImplementsDictionary == Contents!Spec
=============================================================================
