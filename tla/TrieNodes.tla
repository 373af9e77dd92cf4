----------------------------- MODULE TrieNodes ------------------------------
(***************************************************************************)
(* The nodes of the Merkle Patricia tries of ethereum/trie.py and          *)
(* ethereum/experimental/pruning_trie.py, and what is read from them.      *)
(*                                                                         *)
(* A node refers to its children by hash, or holds them if they are small. *)
(* A hash is a function of the node, so a child stands for its hash here;  *)
(* Hashed tells which nodes are in the database under their hash and which *)
(* are a list inside their parent.  Keys are sequences of nibbles of some  *)
(* radix; the terminator that tells a leaf from an extension is the kind.  *)
(* These operators are recursive: the module is for TLC, not for proofs.   *)
(***************************************************************************)
EXTENDS Naturals, Sequences, FiniteSets, FiniteSetsExt, SequencesExt, TLC

CONSTANTS
  Nibble,       \* the digits of a key, 0 .. 15 in the code
  Key,          \* the keys that are used, non-empty sequences of Nibble
  Value,
  NoValue,      \* the empty string, in the value slot of a branch
  SizeOf,       \* the length of the encoding of a value
  InlineLimit   \* from this length on a node has a hash, 32 in the code

ASSUME TrieAssumption ==
  /\ Nibble \subseteq Nat
  /\ Key \subseteq Seq(Nibble) \ {<<>>}
  /\ SizeOf \in [Value -> Nat \ {0}]
  /\ InlineLimit \in Nat

(***************************************************************************)
(* Nodes and their encoding.                                               *)
(***************************************************************************)
Node(kind, key, val, sub) == [kind |-> kind, key |-> key, val |-> val, sub |-> sub]

Blank == Node("blank", <<>>, NoValue, <<>>)
Leaf(key, val) == Node("leaf", key, val, <<>>)
Extension(key, child) == Node("extension", key, NoValue, <<child>>)
Branch(sub, val) == Node("branch", <<>>, val, sub)

\* A child that stands as a list in its parent though it has grown too large
\* for it. No tree holds one, only the shallow copy of a node that is replaced.
Inlined(n) == Node("list", <<>>, NoValue, <<n>>)

IsKeyValue(n) == n.kind \in {"leaf", "extension"}

\* The length of a node's encoding; a child counts with its hash or, if it
\* is shorter than that or is held as a list, with its own encoding.
RECURSIVE EncodedSize(_)
EncodedSize(n) ==
  LET Part(child) == CASE child = Blank -> 0
                       [] child.kind = "list" -> EncodedSize(child.sub[1])
                       [] OTHER -> Min({InlineLimit, EncodedSize(child)})
  IN 1 + Len(n.key)
       + (IF n.val = NoValue THEN 0 ELSE SizeOf[n.val])
       + MapThenSumSet(LAMBDA i : Part(n.sub[i]), DOMAIN n.sub)

\* _encode_node: the node is put in the database and stands there as a hash.
Hashed(n) == n # Blank /\ EncodedSize(n) >= InlineLimit

\* What _encode_node puts in the database.
Stored(n) == IF Hashed(n) THEN <<n>> ELSE <<>>

(***************************************************************************)
(* Reading.                                                                *)
(***************************************************************************)
\* _get
RECURSIVE Get(_, _)
Get(n, key) ==
  CASE n.kind = "blank" -> NoValue
    [] n.kind = "branch" ->
         IF key = <<>> THEN n.val ELSE Get(n.sub[Head(key)], Tail(key))
    [] n.kind = "leaf" -> IF key = n.key THEN n.val ELSE NoValue
    [] n.kind = "extension" ->
         IF IsPrefix(n.key, key)
         THEN Get(n.sub[1], SubSeq(key, Len(n.key) + 1, Len(key)))
         ELSE NoValue

\* The keys of a node's subtree behind a common beginning.
Behind(prefix, keys) == {prefix \o k : k \in keys}

\* The keys below n, each as the path from n (_to_dict, _iter_branch).
RECURSIVE KeysBelow(_)
KeysBelow(n) ==
  CASE n.kind = "blank" -> {}
    [] n.kind = "leaf" -> {n.key}
    [] n.kind = "extension" -> Behind(n.key, KeysBelow(n.sub[1]))
    [] n.kind = "branch" ->
         UNION {Behind(<<i>>, KeysBelow(n.sub[i])) : i \in Nibble}
           \union (IF n.val = NoValue THEN {} ELSE {<<>>})

ToDict(n) == [k \in KeysBelow(n) |-> Get(n, k)]

\* _get_size, which counts without reading the keys.
RECURSIVE GetSize(_)
GetSize(n) ==
  CASE n.kind = "blank" -> 0
    [] n.kind = "leaf" -> 1
    [] n.kind = "extension" -> GetSize(n.sub[1])
    [] n.kind = "branch" -> MapThenSumSet(LAMBDA i : GetSize(n.sub[i]), Nibble)
                            + (IF n.val = NoValue THEN 0 ELSE 1)

\* Order of lists in the language of the code.
Before(s, t) ==
  \/ IsStrictPrefix(s, t)
  \/ \E i \in 1 .. Min({Len(s), Len(t)}) :
        SubSeq(s, 1, i - 1) = SubSeq(t, 1, i - 1) /\ s[i] < t[i]

\* The first of the scanned children that yields a path; the paths are sets
\* of at most one element, the empty set for None.
\* Wrong: the children are scanned from the wrong end.
FirstFromWrongEnd(found, scanned, reverse) ==
  LET hits == {i \in scanned : found[i] # {}}
  IN IF hits = {} THEN {}
     ELSE LET i == IF reverse THEN Min(hits) ELSE Max(hits)
          IN Behind(<<i>>, found[i])
FirstOf(found, scanned, reverse) ==
  LET hits == {i \in scanned : found[i] # {}}
  IN IF hits = {} THEN {}
     ELSE LET i == IF reverse THEN Max(hits) ELSE Min(hits)
          IN Behind(<<i>>, found[i])

\* _getany
RECURSIVE GetAny(_, _)
GetAny(n, reverse) ==
  CASE n.kind = "blank" -> {}
    [] n.kind = "leaf" -> {n.key}
    [] n.kind = "extension" -> Behind(n.key, GetAny(n.sub[1], reverse))
    [] n.kind = "branch" ->
         LET own == IF n.val = NoValue THEN {} ELSE {<<>>}
             below == FirstOf([i \in Nibble |-> GetAny(n.sub[i], reverse)], Nibble, reverse)
         IN IF below = {} \/ (own # {} /\ ~reverse) THEN own ELSE below

\* _iter: the nearest key after `key', or before it.
RECURSIVE Iter(_, _, _)
Iter(n, key, reverse) ==
  CASE n.kind = "blank" -> {}
    [] n.kind = "leaf" ->
         IF (IF reverse THEN Before(n.key, key) ELSE Before(key, n.key)) THEN {n.key} ELSE {}
    [] n.kind = "extension" ->
         LET part == SubSeq(key, 1, Min({Len(n.key), Len(key)})) IN
         (CASE IsPrefix(n.key, key) ->
                Behind(n.key, Iter(n.sub[1], SubSeq(key, Len(n.key) + 1, Len(key)), reverse))
           [] Before(part, n.key) /\ ~reverse -> Behind(n.key, GetAny(n.sub[1], FALSE))
           [] Before(n.key, part) /\ reverse -> Behind(n.key, GetAny(n.sub[1], TRUE))
           [] OTHER -> {})
    [] n.kind = "branch" ->
         LET inside == IF key = <<>> THEN {}
                       ELSE Behind(<<Head(key)>>, Iter(n.sub[Head(key)], Tail(key), reverse))
             side == IF key = <<>> THEN IF reverse THEN {} ELSE Nibble
                     ELSE {i \in Nibble : IF reverse THEN i < Head(key) ELSE i > Head(key)}
             beside == FirstOf([i \in Nibble |-> GetAny(n.sub[i], reverse)], side, reverse)
         IN IF inside # {} THEN inside
            ELSE IF beside # {} THEN beside
            ELSE IF reverse /\ key # <<>> /\ n.val # NoValue THEN {<<>>} ELSE {}

(***************************************************************************)
(* Building.                                                               *)
(***************************************************************************)
\* Wrong: the last common nibble is not looked at.
CommonPrefixShort(s, t) ==
  Max({i \in 0 .. Min({Len(s), Len(t)}) :
         SubSeq(s, 1, IF i = 0 THEN 0 ELSE i - 1) = SubSeq(t, 1, IF i = 0 THEN 0 ELSE i - 1)})
CommonPrefix(s, t) ==
  Max({i \in 0 .. Min({Len(s), Len(t)}) : SubSeq(s, 1, i) = SubSeq(t, 1, i)})

After(s, i) == SubSeq(s, i + 1, Len(s))

\* _update_kv_node where the key leaves the node's key: a branch, below what
\* the two keys share. An extension whose last nibble is used up hands its
\* child to the branch as it is.
Fork(n, key, value) ==
  LET shared == CommonPrefix(n.key, key)
      mine == After(n.key, shared)
      its == After(key, shared)
      handed == n.kind = "extension" /\ Len(mine) = 1
      old == IF handed THEN n.sub[1] ELSE [n EXCEPT !.key = Tail(mine)]
      new == Leaf(Tail(its), value)
      sub == [i \in Nibble |->
                CASE mine # <<>> /\ i = Head(mine) -> old
                  [] its # <<>> /\ i = Head(its) -> new
                  [] OTHER -> Blank]
  IN [node |-> Branch(sub, IF mine = <<>> THEN n.val ELSE IF its = <<>> THEN value ELSE NoValue),
      puts |-> (IF mine = <<>> \/ handed THEN <<>> ELSE Stored(old))
                 \o (IF its = <<>> THEN <<>> ELSE Stored(new))]

\* The node for the prefix that the keys share, if they share one.
Prefixed(prefix, new) == IF prefix = <<>> THEN new ELSE Extension(prefix, new)

(***************************************************************************)
(* The one trie that holds a given map from keys to values, whatever the   *)
(* updates that made it.                                                   *)
(***************************************************************************)
RECURSIVE Canon(_)
Canon(d) ==
  LET keys == DOMAIN d
      Below(prefix) == {After(k, Len(prefix)) : k \in {x \in keys : IsPrefix(prefix, x)}}
      Part(prefix) == Canon([k \in Below(prefix) |-> d[prefix \o k]])
      shared == IF keys = {} THEN <<>>
                ELSE LET k == CHOOSE x \in keys : TRUE
                     IN SubSeq(k, 1, Max({i \in 0 .. Len(k) :
                                            \A x \in keys : IsPrefix(SubSeq(k, 1, i), x)}))
  IN CASE keys = {} -> Blank
       [] Cardinality(keys) = 1 -> Leaf(shared, d[shared])
       [] Cardinality(keys) > 1 /\ shared # <<>> -> Extension(shared, Part(shared))
       [] OTHER -> Branch([i \in Nibble |-> Part(<<i>>)],
                          IF <<>> \in keys THEN d[<<>>] ELSE NoValue)

\* Every position of the tree at which a node stands under its hash.
RECURSIVE HashedAt(_, _)
HashedAt(n, path) ==
  (IF Hashed(n) THEN {<<path, n>>} ELSE {})
    \union UNION {HashedAt(n.sub[i], Append(path, i)) : i \in DOMAIN n.sub}
============================================================================
