---------------------------- MODULE MessagesProofs ----------------------------
(***************************************************************************)
(* What holds of Messages for any addresses, codes, transactions and       *)
(* nesting of calls.  First the journal: what an undo takes back, and what *)
(* a revert to an earlier snapshot brings back however much has been       *)
(* changed since.  Then each operation of State, the inductive invariants, *)
(* one lemma per action, and the theorems.                                 *)
(***************************************************************************)
EXTENDS Messages, Induction

-------------------------------------------------------------------------------
(* Types.                                                                    *)
Account ==
  [nonce : Nat, balance : Nat, code : Code, storage : [Key -> Int],
   touched : BOOLEAN, deleted : BOOLEAN, existent_at_start : BOOLEAN]

Field == {"nonce", "balance", "code", "storage", "touched", "deleted"}

Value == Nat \union Code \union [Key -> Int] \union BOOLEAN

Fits(field, value) ==
  \/ field \in {"nonce", "balance"} /\ value \in Nat
  \/ field = "code" /\ value \in Code
  \/ field = "storage" /\ value \in [Key -> Int]
  \/ field \in {"touched", "deleted"} /\ value \in BOOLEAN

Change == {e \in [at : Address, field : Field, was : Value] : Fits(e.field, e.was)}

Record == [at : {"aux"}, field : {"logs", "suicides"}, was : {0}]

Tries == [Address -> TrieAccount]

Auxes == [logs : Seq(Address), suicides : Seq(Address), refunds : Nat, txindex : Nat]

States ==
  [cache : [Address -> Account], trie : Tries, journal : Seq(Change \union Record),
   logs : Seq(Address), suicides : Seq(Address), refunds : Nat, txindex : Nat,
   rules : SUBSET STRING]

(* An account with a field set, and set back.                                *)
LEMMA FieldSet ==
  ASSUME NEW c \in Account, NEW f \in Field, NEW v, Fits(f, v)
  PROVE  /\ [c EXCEPT ![f] = v] \in Account
         /\ Fits(f, c[f]) /\ c[f] \in Value
         /\ [[c EXCEPT ![f] = v] EXCEPT ![f] = c[f]] = c
         /\ f \in DOMAIN c
BY DEF Account, Field, Fits, Value

(* The last entry of a journal.                                              *)
LEMMA Appended ==
  ASSUME NEW S, NEW j \in Seq(S), NEW e \in S
  PROVE  /\ Append(j, e) \in Seq(S) /\ Len(Append(j, e)) = Len(j) + 1
         /\ Last(Append(j, e)) = e /\ Front(Append(j, e)) = j
         /\ Append(j, e) # <<>>
<1>1. Front(Append(j, e)) = j
  <2>1. Front(Append(j, e)) \in Seq(S) /\ Len(Front(Append(j, e))) = Len(j)
    BY DEF Front
  <2>2. \A i \in 1..Len(j) : Front(Append(j, e))[i] = j[i]
    BY DEF Front
  <2> HIDE DEF Front
  <2> QED
    BY <2>1, <2>2
<1> QED
  BY <1>1 DEF Last

LEMMA FrontIs ==
  ASSUME NEW S, NEW j \in Seq(S), j # <<>>
  PROVE  /\ Len(j) \in Nat \ {0} /\ Front(j) \in Seq(S) /\ Len(Front(j)) = Len(j) - 1
         /\ Last(j) \in S /\ Last(j) = j[Len(j)]
         /\ \A i \in 1..Len(j) - 1 : Front(j)[i] = j[i]
         /\ j = Append(Front(j), Last(j))
<1>1. /\ Len(j) \in Nat \ {0} /\ Front(j) \in Seq(S) /\ Len(Front(j)) = Len(j) - 1
      /\ Last(j) \in S /\ Last(j) = j[Len(j)]
      /\ \A i \in 1..Len(j) - 1 : Front(j)[i] = j[i]
  <2>1. Len(j) \in Nat \ {0} /\ j \in [1..Len(j) -> S] /\ Last(j) = j[Len(j)]
    BY DEF Last
  <2>2. Front(j) = [i \in 1..Len(j) - 1 |-> j[i]]
    BY <2>1 DEF Front
  <2>3. [i \in 1..Len(j) - 1 |-> j[i]] \in [1..Len(j) - 1 -> S] /\ Len(j) - 1 \in Nat
    BY <2>1
  <2> HIDE DEF Front
  <2> QED
    BY <2>1, <2>2, <2>3
<1>2. Len(Append(Front(j), Last(j))) = Len(j)
  BY <1>1
<1>3. \A i \in 1..Len(j) : Append(Front(j), Last(j))[i] = j[i]
  BY <1>1
<1>4. Append(Front(j), Last(j)) \in Seq(S)
  BY <1>1
<1> QED
  BY <1>1, <1>2, <1>3, <1>4

-------------------------------------------------------------------------------
(* The journal.                                                              *)

(* A change of an account: what it does, and that its undo takes it back.    *)
ChangedBy(s, t, a, f, v) ==
  /\ t \in States /\ Popped(t) = s /\ Len(t.journal) = Len(s.journal) + 1
  /\ t.trie = s.trie /\ t.rules = s.rules /\ Aux(t) = Aux(s)
  /\ t.cache = [s.cache EXCEPT ![a] = [s.cache[a] EXCEPT ![f] = v]]

LEMMA Journalled ==
  ASSUME NEW s \in States, NEW a \in Address, NEW f \in Field, NEW v, Fits(f, v)
  PROVE  ChangedBy(s, set_and_journal(s, a, f, v), a, f, v)
<1> DEFINE entry == [at |-> a, field |-> f, was |-> s.cache[a][f]]
           c == [s.cache[a] EXCEPT ![f] = v]
           t == [s EXCEPT !.journal = Append(@, entry), !.cache[a] = c]
<1>1. set_and_journal(s, a, f, v) = t
  BY DEF set_and_journal
<1>2. s.cache[a] \in Account
  BY DEF States
<1>3. c \in Account /\ [c EXCEPT ![f] = s.cache[a][f]] = s.cache[a] /\ entry \in Change
  BY <1>2, FieldSet DEF Change
<1>4. s.journal \in Seq(Change \union Record) /\ entry \in Change \union Record
  BY <1>3 DEF States
<1>5. /\ Append(s.journal, entry) \in Seq(Change \union Record)
      /\ Len(Append(s.journal, entry)) = Len(s.journal) + 1
      /\ Last(Append(s.journal, entry)) = entry /\ Front(Append(s.journal, entry)) = s.journal
      /\ Append(s.journal, entry) # <<>>
  BY <1>4, Appended
<1> HIDE DEF entry, c
<1>6. /\ t \in States /\ t.trie = s.trie /\ t.rules = s.rules /\ Aux(t) = Aux(s)
      /\ t.cache = [s.cache EXCEPT ![a] = c] /\ t.journal = Append(s.journal, entry)
  BY <1>3, <1>5 DEF States, Aux
<1>7. Popped(t) = s
  <2>1. Popped(t) = Undone([t EXCEPT !.journal = s.journal], entry)
    BY <1>5, <1>6 DEF Popped
  <2>2. entry.at = a /\ a # "aux" /\ entry.field = f /\ entry.was = s.cache[a][f]
    BY AddressAssumption DEF entry
  <2>3. Undone([t EXCEPT !.journal = s.journal], entry)
          = [[t EXCEPT !.journal = s.journal]
               EXCEPT !.cache[a] = [@ EXCEPT ![f] = s.cache[a][f]]]
    BY <2>2 DEF Undone
  <2> DEFINE u == [t EXCEPT !.journal = s.journal]
             w == [u EXCEPT !.cache[a] = [@ EXCEPT ![f] = s.cache[a][f]]]
  <2>4. w = s
    <3>1. u = [s EXCEPT !.cache = [s.cache EXCEPT ![a] = c]]
      BY <1>6 DEF States
    <3>2. u.cache[a] = c
      BY <3>1 DEF States
    <3>3. w = [u EXCEPT !.cache = [u.cache EXCEPT ![a] = s.cache[a]]]
      BY <1>3, <3>2
    <3>4. [u.cache EXCEPT ![a] = s.cache[a]] = s.cache
      BY <3>1 DEF States
    <3> HIDE DEF u
    <3> QED
      BY <3>1, <3>3, <3>4 DEF States
  <2> QED
    BY <2>1, <2>3, <2>4
<1> QED
  BY <1>1, <1>5, <1>6, <1>7 DEF c, ChangedBy

(* The same of what is recorded of a transaction.                            *)
LEMMA RecordedIs ==
  ASSUME NEW s \in States, NEW f \in {"logs", "suicides"}, NEW a \in Address
  PROVE  LET t == Recorded(s, f, a) IN
         /\ t \in States /\ Popped(t) = s
         /\ t.journal # <<>> /\ Len(t.journal) = Len(s.journal) + 1
         /\ t.trie = s.trie /\ t.rules = s.rules /\ t.cache = s.cache
         /\ t = [s EXCEPT ![f] = Append(@, a), !.journal = t.journal]
<1> DEFINE entry == [at |-> "aux", field |-> f, was |-> 0]
           t == [s EXCEPT ![f] = Append(@, a), !.journal = Append(@, entry)]
<1>1. Recorded(s, f, a) = t
  BY DEF Recorded
<1>2. s.journal \in Seq(Change \union Record) /\ entry \in Change \union Record
  BY DEF States, Record
<1>3. /\ Append(s.journal, entry) \in Seq(Change \union Record)
      /\ Len(Append(s.journal, entry)) = Len(s.journal) + 1
      /\ Last(Append(s.journal, entry)) = entry /\ Front(Append(s.journal, entry)) = s.journal
      /\ Append(s.journal, entry) # <<>>
  BY <1>2, Appended
<1>4. s[f] \in Seq(Address)
  BY DEF States
<1>5. /\ Append(s[f], a) \in Seq(Address) /\ Front(Append(s[f], a)) = s[f]
      /\ Append(s[f], a) # <<>>
  BY <1>4, Appended
<1>6. entry.at = "aux" /\ entry.field = f
  OBVIOUS
<1> HIDE DEF entry
<1>7. /\ t \in States /\ t.trie = s.trie /\ t.rules = s.rules /\ t.cache = s.cache
      /\ t.journal = Append(s.journal, entry) /\ t[f] = Append(s[f], a)
  BY <1>3, <1>5 DEF States
<1>8. Popped(t) = s
  <2>1. Popped(t) = Undone([t EXCEPT !.journal = s.journal], entry)
    BY <1>3, <1>7 DEF Popped
  <2>2. Undone([t EXCEPT !.journal = s.journal], entry)
          = [[t EXCEPT !.journal = s.journal] EXCEPT ![f] = IF @ = <<>> THEN @ ELSE Front(@)]
    BY <1>6 DEF Undone
  <2>3. [t EXCEPT !.journal = s.journal] = [s EXCEPT ![f] = Append(@, a)]
    BY <1>7 DEF States
  <2>4. [[s EXCEPT ![f] = Append(@, a)] EXCEPT ![f] = IF @ = <<>> THEN @ ELSE Front(@)] = s
    BY <1>5 DEF States
  <2> QED
    BY <2>1, <2>2, <2>3, <2>4
<1> QED
  BY <1>1, <1>3, <1>7, <1>8

(* Two states that differ in what is recorded of the transaction only.       *)
Alike(s, t) ==
  /\ s.cache = t.cache /\ s.trie = t.trie /\ s.journal = t.journal /\ s.rules = t.rules

(* A step back.                                                              *)
LEMMA PoppedIs ==
  ASSUME NEW s \in States, s.journal # <<>>
  PROVE  /\ Popped(s) \in States /\ Popped(s).journal = Front(s.journal)
         /\ Len(Popped(s).journal) = Len(s.journal) - 1
         /\ Popped(s).trie = s.trie /\ Popped(s).rules = s.rules
         /\ Popped(s).cache = LET e == Last(s.journal) IN
              IF e.at = "aux" THEN s.cache
              ELSE [s.cache EXCEPT ![e.at] = [@ EXCEPT ![e.field] = e.was]]
<1> DEFINE e == Last(s.journal)
           f == Front(s.journal)
           u == [s EXCEPT !.journal = f]
<1>1. e \in Change \union Record /\ f \in Seq(Change \union Record) /\ Len(f) = Len(s.journal) - 1
  BY FrontIs DEF States
<1>2. Popped(s) = Undone(u, e)
  BY DEF Popped
<1> HIDE DEF e, f
<1>3. /\ u \in States /\ u.cache = s.cache /\ u.trie = s.trie /\ u.journal = f /\ u.rules = s.rules
  BY <1>1 DEF States
<1> HIDE DEF u
<1>4. CASE e.at = "aux"
  <2>1. e.field \in {"logs", "suicides"}
    BY <1>1, <1>4, AddressAssumption DEF Change, Record
  <2>2. u[e.field] \in Seq(Address)
    BY <1>3, <2>1 DEF States
  <2> DEFINE x == IF u[e.field] = <<>> THEN u[e.field] ELSE Front(u[e.field])
  <2>3. x \in Seq(Address)
    BY <2>2, FrontIs
  <2>4. Undone(u, e) = [u EXCEPT ![e.field] = x]
    BY <1>4 DEF Undone
  <2> HIDE DEF x
  <2> DEFINE v == [u EXCEPT ![e.field] = x]
  <2>5. v \in States
    <3>1. CASE e.field = "logs"
      BY <1>3, <2>3, <3>1 DEF States
    <3>2. CASE e.field = "suicides"
      BY <1>3, <2>3, <3>2 DEF States
    <3> QED
      BY <2>1, <3>1, <3>2
  <2>6. v.cache = s.cache /\ v.trie = s.trie /\ v.journal = f /\ v.rules = s.rules
    BY <1>3, <2>1 DEF States
  <2> HIDE DEF v
  <2>7. Popped(s) = v
    BY <1>2, <2>4 DEF v
  <2> QED
    BY <1>1, <1>4, <2>5, <2>6, <2>7 DEF e, f
<1>5. CASE e.at # "aux"
  <2>1. e \in Change /\ e.at \in Address /\ e.field \in Field /\ Fits(e.field, e.was)
    BY <1>1, <1>5 DEF Change, Record
  <2>2. s.cache \in [Address -> Account] /\ s.cache[e.at] \in Account
    BY <2>1 DEF States
  <2> DEFINE c == [s.cache[e.at] EXCEPT ![e.field] = e.was]
  <2>3. c \in Account
    BY <2>1, <2>2, FieldSet
  <2>4. Undone(u, e) = [u EXCEPT !.cache[e.at] = c]
    BY <1>3, <1>5 DEF Undone
  <2> HIDE DEF c
  <2>5. /\ Undone(u, e) \in States /\ Undone(u, e).cache = [s.cache EXCEPT ![e.at] = c]
        /\ Undone(u, e).journal = f
        /\ Undone(u, e).trie = s.trie /\ Undone(u, e).rules = s.rules
    <3> DEFINE d == [s.cache EXCEPT ![e.at] = c]
    <3>1. d \in [Address -> Account]
      BY <2>2, <2>3
    <3>2. Undone(u, e) = [u EXCEPT !.cache = d]
      BY <1>3, <2>4
    <3> HIDE DEF d
    <3>3. /\ [u EXCEPT !.cache = d] \in States /\ [u EXCEPT !.cache = d].cache = d
          /\ [u EXCEPT !.cache = d].journal = f /\ [u EXCEPT !.cache = d].trie = s.trie
          /\ [u EXCEPT !.cache = d].rules = s.rules
      BY <1>3, <3>1 DEF States
    <3> QED
      BY <3>2, <3>3 DEF d
  <2> QED
    BY <1>1, <1>2, <1>5, <2>5 DEF c, e, f
<1> QED
  BY <1>4, <1>5

LEMMA PoppedAlike ==
  ASSUME NEW s \in States, NEW t \in States, Alike(s, t), s.journal # <<>>
  PROVE  Alike(Popped(s), Popped(t))
<1>1. t.journal # <<>>
  BY DEF Alike
<1> DEFINE Cache(u) == LET e == Last(u.journal) IN
             IF e.at = "aux" THEN u.cache
             ELSE [u.cache EXCEPT ![e.at] = [@ EXCEPT ![e.field] = e.was]]
<1>2. ASSUME NEW u \in States, u.journal # <<>>
      PROVE  /\ Popped(u).journal = Front(u.journal) /\ Popped(u).trie = u.trie
             /\ Popped(u).rules = u.rules /\ Popped(u).cache = Cache(u)
  BY <1>2, PoppedIs
<1>3. Cache(s) = Cache(t)
  BY DEF Alike
<1> HIDE DEF Cache
<1> QED
  BY <1>1, <1>2, <1>3 DEF Alike

(* The states that the loop of revert passes through.                        *)
Rewinds(g, s) ==
  g = [n \in 0..Len(s.journal) |-> IF n = Len(s.journal) THEN s ELSE Popped(g[n + 1])]

LEMMA RewindExists ==
  ASSUME NEW s \in States
  PROVE  \E g : g \in [0..Len(s.journal) -> States] /\ Rewinds(g, s)
<1> DEFINE N == Len(s.journal)
           Back == [u \in States |-> IF u.journal = <<>> THEN u ELSE Popped(u)]
           F == [k \in 1..N |-> Back]
<1>1. N \in Nat
  BY DEF States
<1>2. Back \in [States -> States]
  BY PoppedIs
<1> HIDE DEF Back
<1>3. Loop(F, N, States)
  BY <1>2 DEF Loop
<1> HIDE DEF N, F
<1>4. PICK h : Run(h, F, N, States, s)
  BY <1>1, <1>3, Rounds
<1>5. h \in [0..N -> States] /\ h[0] = s /\ \A k \in 1..N : h[k] = Back[h[k - 1]]
  BY <1>4 DEF Run, F
<1> DEFINE T == {k \in 0..N : Len(h[k].journal) = N - k}
<1>6. \A k \in 0..N : k \in T
  <2>1. 0 \in T
    BY <1>1, <1>5 DEF N
  <2>2. ASSUME NEW k \in 1..N, k - 1 \in T PROVE k \in T
    <3>1. h[k - 1] \in States /\ Len(h[k - 1].journal) = N - k + 1
      BY <1>1, <1>5, <2>2
    <3>2. h[k - 1].journal # <<>>
      BY <1>1, <3>1
    <3>3. h[k] = Popped(h[k - 1])
      BY <1>5, <3>1, <3>2 DEF Back
    <3>4. Len(Popped(h[k - 1]).journal) = Len(h[k - 1].journal) - 1
      BY <3>1, <3>2, PoppedIs
    <3>5. Len(h[k].journal) = N - k
      BY <1>1, <3>1, <3>3, <3>4
    <3> QED
      BY <3>5
  <2> HIDE DEF T
  <2> QED
    BY <1>1, <2>1, <2>2, UpTo
<1> DEFINE g == [n \in 0..N |-> h[N - n]]
<1>7. g \in [0..N -> States]
  BY <1>1, <1>5
<1>8. ASSUME NEW n \in 0..N PROVE g[n] = IF n = N THEN s ELSE Popped(g[n + 1])
  <2>1. CASE n = N
    BY <1>1, <1>5, <2>1
  <2>2. CASE n # N
    <3>1. n + 1 \in 0..N /\ N - n \in 1..N /\ N - (n + 1) \in 0..N /\ (N - n) - 1 = N - (n + 1)
      BY <1>1, <2>2
    <3>2. Len(h[N - (n + 1)].journal) = n + 1
      BY <1>1, <1>6, <3>1
    <3>3. h[N - (n + 1)].journal # <<>> /\ h[N - (n + 1)] \in States
      BY <1>1, <1>5, <3>1, <3>2
    <3>4. h[N - n] = Popped(h[N - (n + 1)])
      BY <1>5, <3>1, <3>3 DEF Back
    <3> QED
      BY <2>2, <3>1, <3>4
  <2> QED
    BY <2>1, <2>2
<1>9. g = [n \in 0..N |-> IF n = N THEN s ELSE Popped(g[n + 1])]
  <2>1. g = [n \in 0..N |-> g[n]]
    OBVIOUS
  <2> HIDE DEF g
  <2> QED
    BY <1>8, <2>1
<1> QED
  <2> HIDE DEF g
  <2> QED
    BY <1>7, <1>9 DEF Rewinds, N

LEMMA UndoneRuns ==
  ASSUME NEW s \in States
  PROVE  \E g : /\ Rewinds(g, s)
                /\ \A L \in 0..Len(s.journal) : UndoneTo(s, L) = g[L]
<1> DEFINE undone[n \in 0..Len(s.journal)] ==
             IF n = Len(s.journal) THEN s ELSE Popped(undone[n + 1])
<1>1. Rewinds(undone, s)
  <2>1. \E g : Rewinds(g, s)
    BY RewindExists
  <2> QED
    BY <2>1, Zenon DEF Rewinds
<1>2. \A L : UndoneTo(s, L) = IF L < Len(s.journal) THEN undone[L] ELSE s
  BY DEF UndoneTo
<1> HIDE DEF undone
<1>3. Len(s.journal) \in Nat
  BY DEF States
<1>4. ASSUME NEW L \in 0..Len(s.journal) PROVE UndoneTo(s, L) = undone[L]
  <2>1. CASE L < Len(s.journal)
    BY <1>2, <2>1
  <2>2. CASE L = Len(s.journal)
    <3>1. undone[L] = s
      BY <1>1, <2>2 DEF Rewinds
    <3>2. ~(L < Len(s.journal))
      BY <1>3, <2>2
    <3> QED
      BY <1>2, <3>1, <3>2
  <2> QED
    BY <1>3, <2>1, <2>2
<1> QED
  BY <1>1, <1>4

LEMMA UndoneSelf ==
  ASSUME NEW s \in States
  PROVE  UndoneTo(s, Len(s.journal)) = s
<1>1. Len(s.journal) \in Nat
  BY DEF States
<1>2. ~(Len(s.journal) < Len(s.journal))
  BY <1>1
<1> QED
  BY <1>2 DEF UndoneTo

(* One undo, then the others.                                                *)
LEMMA UndoneStep ==
  ASSUME NEW s \in States, NEW L \in Nat, L < Len(s.journal)
  PROVE  /\ Popped(s) \in States /\ Len(Popped(s).journal) = Len(s.journal) - 1
         /\ UndoneTo(s, L) = UndoneTo(Popped(s), L)
<1> DEFINE N == Len(s.journal)
           p == Popped(s)
<1>1. N \in Nat \ {0} /\ s.journal # <<>>
  BY DEF States
<1>2. p \in States /\ Len(p.journal) = N - 1
  BY <1>1, PoppedIs
<1>3. PICK g : Rewinds(g, s) /\ \A k \in 0..N : UndoneTo(s, k) = g[k]
  BY UndoneRuns
<1> HIDE DEF p
<1>4. PICK h : Rewinds(h, p) /\ \A k \in 0..Len(p.journal) : UndoneTo(p, k) = h[k]
  BY <1>2, UndoneRuns
<1> HIDE DEF N
<1>5. \A n \in 0..N : g[n] = IF n = N THEN s ELSE Popped(g[n + 1])
  BY <1>3 DEF Rewinds, N
<1>6. \A n \in 0..N - 1 : h[n] = IF n = N - 1 THEN p ELSE Popped(h[n + 1])
  BY <1>2, <1>4 DEF Rewinds
<1> DEFINE T == {k \in 0..N - 1 : g[N - 1 - k] = h[N - 1 - k]}
<1>7. N - 1 \in Nat
  BY <1>1
<1>8. 0 \in T
  <2>1. N - 1 \in 0..N /\ N - 1 # N /\ (N - 1) + 1 = N /\ N \in 0..N /\ N - 1 \in 0..N - 1
    BY <1>1
  <2>2. g[N - 1] = Popped(g[N]) /\ g[N] = s /\ h[N - 1] = p
    BY <1>5, <1>6, <2>1
  <2> QED
    BY <1>7, <2>2 DEF p
<1>9. ASSUME NEW k \in 1..N - 1, k - 1 \in T PROVE k \in T
  <2> DEFINE i == N - 1 - k
  <2>1. i \in 0..N - 1 /\ i \in 0..N /\ i # N /\ i # N - 1 /\ i + 1 = N - 1 - (k - 1)
    BY <1>1, <1>7
  <2>2. g[N - 1 - (k - 1)] = h[N - 1 - (k - 1)]
    BY <1>9
  <2>3. g[i] = Popped(g[i + 1]) /\ h[i] = Popped(h[i + 1])
    <3> HIDE DEF i
    <3> QED
      BY <1>5, <1>6, <2>1
  <2>4. g[i] = h[i]
    BY <2>1, <2>2, <2>3
  <2> QED
    BY <2>4
<1>10. \A k \in 0..N - 1 : k \in T
  <2> HIDE DEF T
  <2> QED
    BY <1>7, <1>8, <1>9, UpTo
<1>11. L \in 0..N - 1 /\ N - 1 - L \in 0..N - 1 /\ L \in 0..N /\ N - 1 - (N - 1 - L) = L
  BY <1>7 DEF N
<1>12. g[L] = h[L]
  <2>1. N - 1 - L \in T
    BY <1>10, <1>11
  <2> HIDE DEF T
  <2>2. g[N - 1 - (N - 1 - L)] = h[N - 1 - (N - 1 - L)]
    BY <2>1 DEF T
  <2> QED
    BY <1>11, <2>2
<1> QED
  BY <1>2, <1>3, <1>4, <1>11, <1>12 DEF p, N

(* What holds of a state without undoing, and of a state if it holds after   *)
(* one undo, holds of every state: U names the states it holds of.           *)
LEMMA ByUndoing ==
  ASSUME NEW L \in Nat, NEW U,
         \A s \in States : Len(s.journal) = L => s \in U,
         \A s \in States : L < Len(s.journal) /\ Popped(s) \in U => s \in U
  PROVE  \A s \in States : L <= Len(s.journal) => s \in U
<1> SUFFICES ASSUME NEW s \in States, L <= Len(s.journal) PROVE s \in U
  OBVIOUS
<1> DEFINE n == Len(s.journal) - L
           T == {k \in 0..n : \A t \in States : Len(t.journal) = L + k => t \in U}
<1>1. n \in Nat /\ Len(s.journal) = L + n
  BY DEF States
<1>2. 0 \in T
  BY <1>1
<1>3. ASSUME NEW k \in 1..n, k - 1 \in T PROVE k \in T
  <2> SUFFICES ASSUME NEW t \in States, Len(t.journal) = L + k PROVE t \in U
    BY <1>3
  <2>1. L < Len(t.journal) /\ L + k - 1 = L + (k - 1)
    BY <1>1
  <2>2. Popped(t) \in States /\ Len(Popped(t).journal) = L + (k - 1)
    BY <1>1, <2>1, UndoneStep
  <2>3. Popped(t) \in U
    BY <1>3, <2>2
  <2> QED
    BY <2>1, <2>3
<1> HIDE DEF n, T
<1>4. \A k \in 0..n : k \in T
  BY <1>1, <1>2, <1>3, UpTo
<1>5. n \in T
  BY <1>1, <1>4
<1> QED
  BY <1>1, <1>5 DEF T

LEMMA UndoneIs ==
  ASSUME NEW s \in States, NEW L \in Nat, L <= Len(s.journal)
  PROVE  /\ UndoneTo(s, L) \in States /\ Len(UndoneTo(s, L).journal) = L
         /\ UndoneTo(s, L).trie = s.trie /\ UndoneTo(s, L).rules = s.rules
<1> DEFINE U == {t \in States : /\ UndoneTo(t, L) \in States /\ Len(UndoneTo(t, L).journal) = L
                                /\ UndoneTo(t, L).trie = t.trie /\ UndoneTo(t, L).rules = t.rules}
<1>1. ASSUME NEW t \in States, Len(t.journal) = L PROVE t \in U
  BY <1>1, UndoneSelf
<1>2. ASSUME NEW t \in States, L < Len(t.journal), Popped(t) \in U PROVE t \in U
  <2>1. Len(t.journal) \in Nat /\ t.journal # <<>>
    <3>1. t.journal \in Seq(Change \union Record)
      BY DEF States
    <3> QED
      BY <1>2, <3>1
  <2>2. Popped(t).trie = t.trie /\ Popped(t).rules = t.rules
    BY <2>1, PoppedIs
  <2>3. UndoneTo(t, L) = UndoneTo(Popped(t), L)
    BY <1>2, UndoneStep
  <2> QED
    BY <1>2, <2>2, <2>3
<1> HIDE DEF U
<1>3. s \in U
  BY <1>1, <1>2, ByUndoing
<1> QED
  BY <1>3 DEF U

(* Undoing in two goes.                                                      *)
LEMMA UndoneTwice ==
  ASSUME NEW s \in States, NEW L \in Nat, NEW M \in Nat, L <= M, M <= Len(s.journal)
  PROVE  UndoneTo(UndoneTo(s, M), L) = UndoneTo(s, L)
<1> DEFINE U == {t \in States : UndoneTo(UndoneTo(t, M), L) = UndoneTo(t, L)}
<1>1. ASSUME NEW t \in States, Len(t.journal) = M PROVE t \in U
  BY <1>1, UndoneSelf
<1>2. ASSUME NEW t \in States, M < Len(t.journal), Popped(t) \in U PROVE t \in U
  <2>1. UndoneTo(t, M) = UndoneTo(Popped(t), M)
    BY <1>2, UndoneStep
  <2>2. L < Len(t.journal)
    BY <1>2 DEF States
  <2>3. UndoneTo(t, L) = UndoneTo(Popped(t), L)
    BY <2>2, UndoneStep
  <2> QED
    BY <1>2, <2>1, <2>3
<1> HIDE DEF U
<1>3. s \in U
  BY <1>1, <1>2, ByUndoing
<1> QED
  BY <1>3 DEF U

LEMMA UndoneAlike ==
  ASSUME NEW s \in States, NEW t \in States, Alike(s, t),
         NEW L \in Nat, L <= Len(s.journal)
  PROVE  Alike(UndoneTo(s, L), UndoneTo(t, L))
<1> DEFINE U == {u \in States : \A v \in States : Alike(u, v) => Alike(UndoneTo(u, L), UndoneTo(v, L))}
<1>1. ASSUME NEW u \in States, Len(u.journal) = L PROVE u \in U
  <2> SUFFICES ASSUME NEW v \in States, Alike(u, v)
               PROVE  Alike(UndoneTo(u, L), UndoneTo(v, L))
    OBVIOUS
  <2>1. Len(v.journal) = L
    BY <1>1 DEF Alike
  <2> QED
    BY <1>1, <2>1, UndoneSelf
<1>2. ASSUME NEW u \in States, L < Len(u.journal), Popped(u) \in U PROVE u \in U
  <2> SUFFICES ASSUME NEW v \in States, Alike(u, v)
               PROVE  Alike(UndoneTo(u, L), UndoneTo(v, L))
    OBVIOUS
  <2>1. u.journal # <<>> /\ L < Len(v.journal)
    BY <1>2 DEF Alike, States
  <2>2. Alike(Popped(u), Popped(v)) /\ Popped(v) \in States
    BY <1>2, <2>1, PoppedAlike, UndoneStep
  <2>3. UndoneTo(u, L) = UndoneTo(Popped(u), L) /\ UndoneTo(v, L) = UndoneTo(Popped(v), L)
    BY <1>2, <2>1, UndoneStep
  <2> QED
    BY <1>2, <2>2, <2>3
<1> HIDE DEF U
<1>3. s \in U
  BY <1>1, <1>2, ByUndoing
<1> QED
  BY <1>3 DEF U

-------------------------------------------------------------------------------
(* t comes from s: whatever was done to accounts since is in the journal.    *)
Follows(s, t) ==
  /\ Len(s.journal) <= Len(t.journal)
  /\ Alike(UndoneTo(t, Len(s.journal)), s)

LEMMA FollowsAlike ==
  ASSUME NEW s \in States, NEW t \in States, Alike(s, t)
  PROVE  Follows(s, t)
<1>1. Len(s.journal) = Len(t.journal) /\ Len(t.journal) \in Nat /\ Alike(t, s)
  BY DEF Alike, States
<1> QED
  BY <1>1, UndoneSelf DEF Follows

LEMMA FollowsChange ==
  ASSUME NEW s \in States, NEW t \in States, Popped(t) = s, Len(t.journal) = Len(s.journal) + 1
  PROVE  Follows(s, t)
<1>1. Len(s.journal) \in Nat /\ Len(s.journal) < Len(t.journal)
  BY DEF States
<1>2. UndoneTo(t, Len(s.journal)) = UndoneTo(s, Len(s.journal))
  BY <1>1, UndoneStep
<1>3. UndoneTo(t, Len(s.journal)) = s
  BY <1>2, UndoneSelf
<1> QED
  BY <1>1, <1>3 DEF Follows, Alike

(* What the later state is undone to is what the earlier one is undone to.   *)
LEMMA FollowsUndone ==
  ASSUME NEW s \in States, NEW t \in States, Follows(s, t),
         NEW L \in Nat, L <= Len(s.journal)
  PROVE  /\ Alike(UndoneTo(t, L), UndoneTo(s, L))
         /\ L <= Len(t.journal) /\ t.trie = s.trie /\ t.rules = s.rules
<1> DEFINE M == Len(s.journal)
           u == UndoneTo(t, M)
<1>1. M \in Nat /\ Len(t.journal) \in Nat /\ M <= Len(t.journal) /\ Alike(u, s)
  BY DEF Follows, States
<1>2. u \in States /\ Len(u.journal) = M /\ u.trie = t.trie /\ u.rules = t.rules
  BY <1>1, UndoneIs
<1>3. UndoneTo(u, L) = UndoneTo(t, L)
  BY <1>1, UndoneTwice
<1> HIDE DEF u
<1>4. Alike(UndoneTo(u, L), UndoneTo(s, L))
  BY <1>1, <1>2, UndoneAlike
<1> QED
  BY <1>1, <1>2, <1>3, <1>4 DEF Alike

LEMMA FollowsOn ==
  ASSUME NEW r \in States, NEW s \in States, NEW t \in States, Follows(r, s), Follows(s, t)
  PROVE  Follows(r, t)
<1>1. /\ Len(r.journal) \in Nat /\ Len(s.journal) \in Nat /\ Len(t.journal) \in Nat
      /\ Len(r.journal) <= Len(s.journal) /\ Len(s.journal) <= Len(t.journal)
      /\ Alike(UndoneTo(s, Len(r.journal)), r)
  BY DEF Follows, States
<1>2. Alike(UndoneTo(t, Len(r.journal)), UndoneTo(s, Len(r.journal)))
  BY <1>1, FollowsUndone
<1>3. Alike(UndoneTo(t, Len(r.journal)), r)
  BY <1>1, <1>2 DEF Alike
<1> QED
  BY <1>1, <1>3 DEF Follows

-------------------------------------------------------------------------------
(* Reverting.                                                                *)
Snaps == [root : Tries, L : Nat, aux : Auxes]

(* The snapshot is of the state or an earlier one, since the last commit.    *)
Within(snap, s) == snap \in Snaps /\ snap.root = s.trie /\ snap.L <= Len(s.journal)

LEMMA SnapshotIs ==
  ASSUME NEW s \in States
  PROVE  /\ Within(snapshot(s), s) /\ snapshot(s).L = Len(s.journal)
         /\ snapshot(s).aux = Aux(s) /\ snapshot(s).root = s.trie
BY DEF Within, Snaps, snapshot, Aux, Auxes, States

LEMMA RestoredIs ==
  ASSUME NEW s \in States, NEW aux \in Auxes
  PROVE  /\ Restored(s, aux) \in States /\ Alike(Restored(s, aux), s) /\ Aux(Restored(s, aux)) = aux
BY DEF Restored, Auxes, States, Alike, Aux

(* A state is what it holds of accounts and what it holds of the rest.       *)
LEMMA SameState ==
  ASSUME NEW s \in States, NEW t \in States, Alike(s, t), Aux(s) = Aux(t)
  PROVE  s = t
<1>1. /\ Aux(s).logs = Aux(t).logs /\ Aux(s).suicides = Aux(t).suicides
      /\ Aux(s).refunds = Aux(t).refunds /\ Aux(s).txindex = Aux(t).txindex
  OBVIOUS
<1>2. /\ s.logs = t.logs /\ s.suicides = t.suicides /\ s.refunds = t.refunds
      /\ s.txindex = t.txindex
  BY <1>1 DEF Aux
<1> DEFINE Parts(u) ==
             [cache |-> u.cache, trie |-> u.trie, journal |-> u.journal, logs |-> u.logs,
              suicides |-> u.suicides, refunds |-> u.refunds, txindex |-> u.txindex,
              rules |-> u.rules]
<1>3. \A u \in States : u = Parts(u)
  BY DEF States
<1>4. Parts(s) = Parts(t)
  BY <1>2 DEF Alike
<1> HIDE DEF Parts
<1> QED
  BY <1>3, <1>4

LEMMA RevertIs ==
  ASSUME NEW s \in States, NEW snap, Within(snap, s)
  PROVE  /\ revert(s, snap) \in States /\ Alike(revert(s, snap), UndoneTo(s, snap.L))
         /\ Aux(revert(s, snap)) = snap.aux
         /\ revert(s, snap).trie = s.trie /\ revert(s, snap).rules = s.rules
         /\ Len(revert(s, snap).journal) = snap.L
<1> DEFINE u == UndoneTo(s, snap.L)
<1>1. snap.L \in Nat /\ snap.L <= Len(s.journal) /\ snap.aux \in Auxes /\ snap.root = s.trie
  BY DEF Within, Snaps
<1>2. u \in States /\ Len(u.journal) = snap.L /\ u.trie = s.trie /\ u.rules = s.rules
  BY <1>1, UndoneIs
<1>3. revert(s, snap) = Restored(u, snap.aux)
  BY <1>1 DEF revert
<1> HIDE DEF u
<1>4. /\ Restored(u, snap.aux) \in States /\ Alike(Restored(u, snap.aux), u)
      /\ Aux(Restored(u, snap.aux)) = snap.aux
  BY <1>1, <1>2, RestoredIs
<1>5. /\ Restored(u, snap.aux).journal = u.journal /\ Restored(u, snap.aux).trie = u.trie
      /\ Restored(u, snap.aux).rules = u.rules
  BY <1>4 DEF Alike
<1> QED
  BY <1>2, <1>3, <1>4, <1>5 DEF u

(* A state reverts to what an earlier one reverts to.                        *)
LEMMA RevertKept ==
  ASSUME NEW s \in States, NEW t \in States, Follows(s, t), NEW snap, Within(snap, s)
  PROVE  Within(snap, t) /\ revert(t, snap) = revert(s, snap)
<1>1. snap.L \in Nat /\ snap.L <= Len(s.journal)
  BY DEF Within, Snaps
<1>2. Alike(UndoneTo(t, snap.L), UndoneTo(s, snap.L)) /\ Within(snap, t)
  BY <1>1, FollowsUndone DEF Within
<1>3. /\ revert(s, snap) \in States /\ Alike(revert(s, snap), UndoneTo(s, snap.L))
      /\ revert(t, snap) \in States /\ Alike(revert(t, snap), UndoneTo(t, snap.L))
      /\ Aux(revert(s, snap)) = Aux(revert(t, snap))
  BY <1>2, RevertIs
<1>4. Alike(revert(t, snap), revert(s, snap))
  BY <1>2, <1>3 DEF Alike
<1> QED
  BY <1>2, <1>3, <1>4, SameState

(* A state reverts to the one the snapshot was taken of.                     *)
LEMMA RevertBack ==
  ASSUME NEW s \in States, NEW t \in States, Follows(s, t)
  PROVE  Within(snapshot(s), t) /\ revert(t, snapshot(s)) = s
<1> DEFINE snap == snapshot(s)
<1>1. Within(snap, s) /\ snap.L = Len(s.journal) /\ snap.aux = Aux(s)
  BY SnapshotIs
<1> HIDE DEF snap
<1>2. Within(snap, t) /\ revert(t, snap) = revert(s, snap)
  BY <1>1, RevertKept
<1>3. /\ revert(s, snap) \in States /\ Alike(revert(s, snap), UndoneTo(s, Len(s.journal)))
      /\ Aux(revert(s, snap)) = Aux(s)
  BY <1>1, RevertIs
<1>4. UndoneTo(s, Len(s.journal)) = s
  BY UndoneSelf
<1>5. revert(s, snap) = s
  BY <1>3, <1>4, SameState
<1> QED
  BY <1>2, <1>5 DEF snap

(* Reverting to a later snapshot first changes nothing.                      *)
LEMMA RevertTwice ==
  ASSUME NEW s \in States, NEW snap, Within(snap, s), NEW outer, Within(outer, s),
         outer.L <= snap.L
  PROVE  /\ Within(outer, revert(s, snap))
         /\ revert(revert(s, snap), outer) = revert(s, outer)
<1> DEFINE r == revert(s, snap)
           L == outer.L
           M == snap.L
<1>1. /\ r \in States /\ Alike(r, UndoneTo(s, M)) /\ r.trie = s.trie
      /\ r.rules = s.rules /\ Len(r.journal) = M
  BY RevertIs
<1>2. L \in Nat /\ M \in Nat /\ L <= M /\ M <= Len(s.journal)
  BY DEF Within, Snaps
<1> HIDE DEF r, L, M
<1>3. Within(outer, r)
  BY <1>1, <1>2 DEF Within, L, M
<1>4. UndoneTo(s, M) \in States
  BY <1>2, UndoneIs
<1>5. Alike(UndoneTo(r, L), UndoneTo(UndoneTo(s, M), L))
  BY <1>1, <1>2, <1>4, UndoneAlike
<1>6. UndoneTo(UndoneTo(s, M), L) = UndoneTo(s, L)
  BY <1>2, UndoneTwice
<1>7. /\ revert(r, outer) \in States /\ Alike(revert(r, outer), UndoneTo(r, L))
      /\ Aux(revert(r, outer)) = outer.aux
  BY <1>1, <1>3, RevertIs DEF L
<1>8. /\ revert(s, outer) \in States /\ Alike(revert(s, outer), UndoneTo(s, L))
      /\ Aux(revert(s, outer)) = outer.aux
  BY RevertIs DEF L
<1>9. Alike(revert(r, outer), revert(s, outer))
  BY <1>5, <1>6, <1>7, <1>8 DEF Alike
<1>10. revert(r, outer) = revert(s, outer)
  BY <1>7, <1>8, <1>9, SameState
<1> QED
  BY <1>3, <1>10 DEF r

-------------------------------------------------------------------------------
(* The operations of a state.                                                *)
NoStorage == [k \in Key |-> 0]

(* What is cached of an account that was not touched is what the trie has    *)
(* of it, or nothing when it was deleted.                                    *)
Coherent(s) ==
  \A a \in Address :
    LET c == s.cache[a] IN
    /\ c.existent_at_start = s.trie[a].present
    /\ ~c.touched /\ ~c.deleted => c = Loaded(s.trie[a])
    /\ ~c.touched /\ c.deleted => is_blank(c) /\ c.storage = NoStorage

(* Without its journal, a state is what the trie holds.                      *)
Base(s) == UndoneTo(s, 0).cache = [a \in Address |-> Loaded(s.trie[a])]

(* A step that changes accounts, touches them and keeps a journal of it.     *)
Changed(s, t) ==
  /\ t \in States /\ Follows(s, t) /\ Aux(t) = Aux(s)
  /\ t.trie = s.trie /\ t.rules = s.rules
  /\ Coherent(s) => Coherent(t)

LEMMA ChangedOn ==
  ASSUME NEW r \in States, NEW s, NEW t, Changed(r, s), Changed(s, t)
  PROVE  Changed(r, t)
BY FollowsOn DEF Changed

LEMMA BaseKept ==
  ASSUME NEW s \in States, NEW t \in States, Follows(s, t), Base(s)
  PROVE  Base(t)
<1>1. Len(s.journal) \in Nat
  BY DEF States
<1>2. Alike(UndoneTo(t, 0), UndoneTo(s, 0)) /\ t.trie = s.trie
  BY <1>1, FollowsUndone
<1> QED
  BY <1>2 DEF Base, Alike

(* An account with one field set by a change that touches it.                *)
With(c, f, v) == [[c EXCEPT ![f] = v] EXCEPT !["touched"] = TRUE]

HasField(c, f, v, d) ==
  /\ d \in Account /\ d.touched = TRUE /\ d.deleted = c.deleted
  /\ d.existent_at_start = c.existent_at_start
  /\ d.nonce = (IF f = "nonce" THEN v ELSE c.nonce)
  /\ d.balance = (IF f = "balance" THEN v ELSE c.balance)
  /\ d.code = (IF f = "code" THEN v ELSE c.code)
  /\ d.storage = (IF f = "storage" THEN v ELSE c.storage)

LEMMA WithIs ==
  ASSUME NEW c \in Account, NEW f \in Field \ {"touched", "deleted"}, NEW v, Fits(f, v)
  PROVE  HasField(c, f, v, With(c, f, v))
BY DEF HasField, With, Account, Field, Fits

LEMMA SetCached ==
  ASSUME NEW s \in States, NEW a \in Address, NEW f \in Field \ {"touched", "deleted"},
         NEW v, Fits(f, v)
  PROVE  /\ Set(s, a, f, v) \in States /\ Follows(s, Set(s, a, f, v))
         /\ Set(s, a, f, v).trie = s.trie /\ Set(s, a, f, v).rules = s.rules
         /\ Aux(Set(s, a, f, v)) = Aux(s)
         /\ Set(s, a, f, v).cache[a] = With(s.cache[a], f, v)
         /\ \A b \in Address \ {a} : Set(s, a, f, v).cache[b] = s.cache[b]
<1> DEFINE r == set_and_journal(s, a, f, v)
           t == set_and_journal(r, a, "touched", TRUE)
           c == [s.cache[a] EXCEPT ![f] = v]
           d == [r.cache[a] EXCEPT !["touched"] = TRUE]
<1>1. Set(s, a, f, v) = t
  BY DEF Set
<1>2. f \in Field /\ Fits("touched", TRUE) /\ "touched" \in Field
  BY DEF Field, Fits
<1>3. /\ r \in States /\ Popped(r) = s /\ Len(r.journal) = Len(s.journal) + 1
      /\ r.trie = s.trie /\ r.rules = s.rules /\ Aux(r) = Aux(s)
      /\ r.cache = [s.cache EXCEPT ![a] = c]
  BY <1>2, Journalled DEF ChangedBy
<1>4. r \in States
  BY <1>3
<1> HIDE DEF r
<1>5. /\ t \in States /\ Popped(t) = r /\ Len(t.journal) = Len(r.journal) + 1
      /\ t.trie = r.trie /\ t.rules = r.rules /\ Aux(t) = Aux(r)
      /\ t.cache = [r.cache EXCEPT ![a] = d]
  <2>1. ChangedBy(r, t, a, "touched", TRUE)
    BY <1>2, <1>4, Journalled
  <2> QED
    BY <2>1 DEF ChangedBy
<1> HIDE DEF t
<1>6. Follows(s, t)
  BY <1>3, <1>5, FollowsChange, FollowsOn
<1>7. s.cache \in [Address -> Account] /\ r.cache \in [Address -> Account]
  BY <1>4 DEF States
<1>8. r.cache[a] = c /\ \A b \in Address \ {a} : r.cache[b] = s.cache[b]
  BY <1>3, <1>7
<1>9. t.cache[a] = d /\ \A b \in Address \ {a} : t.cache[b] = r.cache[b]
  <2> HIDE DEF d
  <2> QED
    BY <1>5, <1>7
<1>10. d = With(s.cache[a], f, v)
  BY <1>8 DEF With
<1> QED
  BY <1>1, <1>3, <1>5, <1>6, <1>8, <1>9, <1>10

(* What accounts hold, each part for itself.                                 *)
Nonces(s) == [a \in Address |-> s.cache[a].nonce]
Balances(s) == [a \in Address |-> s.cache[a].balance]
Codes(s) == [a \in Address |-> s.cache[a].code]
Storages(s) == [a \in Address |-> s.cache[a].storage]

LEMMA PartsTyped ==
  ASSUME NEW s \in States
  PROVE  /\ Nonces(s) \in [Address -> Nat] /\ Balances(s) \in [Address -> Nat]
         /\ Codes(s) \in [Address -> Code] /\ Storages(s) \in [Address -> [Key -> Int]]
         /\ \A a \in Address : s.cache[a] \in Account
BY DEF Nonces, Balances, Codes, Storages, States, Account

LEMMA SetIs ==
  ASSUME NEW s \in States, NEW a \in Address, NEW f \in Field \ {"touched", "deleted"},
         NEW v, Fits(f, v)
  PROVE  /\ Changed(s, Set(s, a, f, v))
         /\ Nonces(Set(s, a, f, v)) = (IF f = "nonce" THEN [Nonces(s) EXCEPT ![a] = v] ELSE Nonces(s))
         /\ Balances(Set(s, a, f, v)) = (IF f = "balance" THEN [Balances(s) EXCEPT ![a] = v] ELSE Balances(s))
         /\ Codes(Set(s, a, f, v)) = (IF f = "code" THEN [Codes(s) EXCEPT ![a] = v] ELSE Codes(s))
         /\ Storages(Set(s, a, f, v)) = (IF f = "storage" THEN [Storages(s) EXCEPT ![a] = v] ELSE Storages(s))
<1> DEFINE t == Set(s, a, f, v)
           d == With(s.cache[a], f, v)
<1>1. /\ t \in States /\ Follows(s, t) /\ t.trie = s.trie /\ t.rules = s.rules /\ Aux(t) = Aux(s)
      /\ t.cache[a] = d /\ \A b \in Address \ {a} : t.cache[b] = s.cache[b]
  BY SetCached
<1>2. s.cache[a] \in Account
  BY PartsTyped
<1>3. /\ d.touched = TRUE /\ d.existent_at_start = s.cache[a].existent_at_start
      /\ d.nonce = (IF f = "nonce" THEN v ELSE s.cache[a].nonce)
      /\ d.balance = (IF f = "balance" THEN v ELSE s.cache[a].balance)
      /\ d.code = (IF f = "code" THEN v ELSE s.cache[a].code)
      /\ d.storage = (IF f = "storage" THEN v ELSE s.cache[a].storage)
  <2> DEFINE c == s.cache[a]
  <2>1. c \in Account
    BY <1>2
  <2> HIDE DEF c
  <2>2. HasField(c, f, v, With(c, f, v))
    BY <2>1, WithIs
  <2> QED
    BY <2>2 DEF c, HasField
<1> HIDE DEF t, d
<1>4. Coherent(s) => Coherent(t)
  <2> SUFFICES ASSUME Coherent(s), NEW b \in Address
               PROVE  LET e == t.cache[b] IN
                      /\ e.existent_at_start = t.trie[b].present
                      /\ ~e.touched /\ ~e.deleted => e = Loaded(t.trie[b])
                      /\ ~e.touched /\ e.deleted => is_blank(e) /\ e.storage = NoStorage
    BY DEF Coherent
  <2>1. CASE b = a
    <3>1. s.cache[a].existent_at_start = s.trie[a].present
      BY DEF Coherent
    <3> QED
      BY <1>1, <1>3, <2>1, <3>1
  <2>2. CASE b # a
    <3>1. t.cache[b] = s.cache[b]
      BY <1>1, <2>2
    <3> QED
      BY <1>1, <3>1 DEF Coherent
  <2> QED
    BY <2>1, <2>2
<1>5. /\ Nonces(t) = (IF f = "nonce" THEN [Nonces(s) EXCEPT ![a] = v] ELSE Nonces(s))
      /\ Balances(t) = (IF f = "balance" THEN [Balances(s) EXCEPT ![a] = v] ELSE Balances(s))
      /\ Codes(t) = (IF f = "code" THEN [Codes(s) EXCEPT ![a] = v] ELSE Codes(s))
      /\ Storages(t) = (IF f = "storage" THEN [Storages(s) EXCEPT ![a] = v] ELSE Storages(s))
  <2>1. Nonces(t) = (IF f = "nonce" THEN [Nonces(s) EXCEPT ![a] = v] ELSE Nonces(s))
    BY <1>1, <1>3 DEF Nonces
  <2>2. Balances(t) = (IF f = "balance" THEN [Balances(s) EXCEPT ![a] = v] ELSE Balances(s))
    BY <1>1, <1>3 DEF Balances
  <2>3. Codes(t) = (IF f = "code" THEN [Codes(s) EXCEPT ![a] = v] ELSE Codes(s))
    BY <1>1, <1>3 DEF Codes
  <2>4. Storages(t) = (IF f = "storage" THEN [Storages(s) EXCEPT ![a] = v] ELSE Storages(s))
    BY <1>1, <1>3 DEF Storages
  <2> QED
    BY <2>1, <2>2, <2>3, <2>4
<1> QED
  BY <1>1, <1>4, <1>5 DEF Changed, t

LEMMA SetBalanceIs ==
  ASSUME NEW s \in States, NEW a \in Address, NEW v \in Nat
  PROVE  LET t == set_balance(s, a, v) IN
         /\ Changed(s, t) /\ Balances(t) = [Balances(s) EXCEPT ![a] = v]
         /\ Nonces(t) = Nonces(s) /\ Codes(t) = Codes(s) /\ Storages(t) = Storages(s)
<1>1. "balance" \in Field \ {"touched", "deleted"} /\ Fits("balance", v)
  BY DEF Field, Fits
<1> QED
  BY <1>1, SetIs DEF set_balance

LEMMA SetNonceIs ==
  ASSUME NEW s \in States, NEW a \in Address, NEW v \in Nat
  PROVE  LET t == set_nonce(s, a, v) IN
         /\ Changed(s, t) /\ Nonces(t) = [Nonces(s) EXCEPT ![a] = v]
         /\ Balances(t) = Balances(s) /\ Codes(t) = Codes(s) /\ Storages(t) = Storages(s)
<1>1. "nonce" \in Field \ {"touched", "deleted"} /\ Fits("nonce", v)
  BY DEF Field, Fits
<1> QED
  BY <1>1, SetIs DEF set_nonce

LEMMA SetCodeIs ==
  ASSUME NEW s \in States, NEW a \in Address, NEW v \in Code
  PROVE  LET t == set_code(s, a, v) IN
         /\ Changed(s, t) /\ Codes(t) = [Codes(s) EXCEPT ![a] = v]
         /\ Nonces(t) = Nonces(s) /\ Balances(t) = Balances(s) /\ Storages(t) = Storages(s)
<1>1. "code" \in Field \ {"touched", "deleted"} /\ Fits("code", v)
  BY DEF Field, Fits
<1> QED
  BY <1>1, SetIs DEF set_code

LEMMA SetStorageIs ==
  ASSUME NEW s \in States, NEW a \in Address, NEW k \in Key, NEW v \in Int
  PROVE  LET t == set_storage_data(s, a, k, v) IN
         /\ Changed(s, t) /\ \A b \in Address \ {a} : Storages(t)[b] = Storages(s)[b]
         /\ Nonces(t) = Nonces(s) /\ Balances(t) = Balances(s) /\ Codes(t) = Codes(s)
<1> DEFINE w == [s.cache[a].storage EXCEPT ![k] = v]
<1>1. s.cache[a].storage \in [Key -> Int]
  BY DEF States, Account
<1>2. "storage" \in Field \ {"touched", "deleted"} /\ Fits("storage", w)
  BY <1>1 DEF Field, Fits
<1>3. set_storage_data(s, a, k, v) = Set(s, a, "storage", w)
  BY DEF set_storage_data
<1> HIDE DEF w
<1> DEFINE t == Set(s, a, "storage", w)
<1>4. /\ Changed(s, t) /\ Storages(t) = [Storages(s) EXCEPT ![a] = w]
      /\ Nonces(t) = Nonces(s) /\ Balances(t) = Balances(s) /\ Codes(t) = Codes(s)
  BY <1>2, SetIs
<1> HIDE DEF t
<1>5. \A b \in Address \ {a} : Storages(t)[b] = Storages(s)[b]
  BY <1>4, PartsTyped
<1> QED
  BY <1>3, <1>4, <1>5 DEF t

-------------------------------------------------------------------------------
(* What accounts hold together.                                              *)
LEMMA WealthIs ==
  ASSUME NEW s \in States
  PROVE  Wealth(s) = SumFunction(Balances(s)) /\ Wealth(s) \in Nat
<1>1. Wealth(s) = SumFunction(Balances(s))
  BY DEF Wealth, Balances
<1>2. \A a \in Address : Balances(s)[a] \in Nat
  BY PartsTyped
<1>3. DOMAIN Balances(s) = Address /\ IsFiniteSet(Address)
  BY AddressAssumption DEF Balances
<1>4. SumFunctionOnSet(Balances(s), Address) \in Nat
  BY <1>2, <1>3, SumIsNat
<1> QED
  BY <1>1, <1>3, <1>4 DEF SumFunction

LEMMA WealthSet ==
  ASSUME NEW s \in States, NEW t \in States, NEW a \in Address, NEW v \in Nat,
         Balances(t) = [Balances(s) EXCEPT ![a] = v]
  PROVE  Wealth(t) = Wealth(s) - Balances(s)[a] + v
<1> DEFINE f == Balances(s)
           e == Balances(t)
<1>1. f \in [Address -> Nat] /\ e \in [Address -> Nat]
  BY PartsTyped
<1>2. e[a] = v /\ \A b \in Address : b # a => e[b] = f[b]
  BY <1>1
<1>3. Wealth(s) = SumFunction(f) /\ Wealth(t) = SumFunction(e)
  BY WealthIs
<1> HIDE DEF f, e
<1>4. f \in [Address -> Int] /\ e \in [Address -> Int] /\ IsFiniteSet(Address)
  BY <1>1, AddressAssumption
<1>5. SumFunction(e) = SumFunction(f) - f[a] + e[a]
  BY <1>2, <1>4, SumChanged
<1> QED
  BY <1>2, <1>3, <1>5 DEF f, e

LEMMA WealthSame ==
  ASSUME NEW s \in States, NEW t \in States, Balances(t) = Balances(s)
  PROVE  Wealth(t) = Wealth(s)
BY WealthIs

-------------------------------------------------------------------------------
(* Balances up and down, and a nonce up.                                     *)
SameElse(s, t) == Nonces(t) = Nonces(s) /\ Codes(t) = Codes(s) /\ Storages(t) = Storages(s)

LEMMA DeltaIs ==
  ASSUME NEW s \in States, NEW a \in Address, NEW v \in Int, Balances(s)[a] + v >= 0
  PROVE  LET t == delta_balance(s, a, v) IN
         /\ Changed(s, t) /\ SameElse(s, t)
         /\ Balances(t) = [Balances(s) EXCEPT ![a] = Balances(s)[a] + v]
         /\ Wealth(t) = Wealth(s) + v
<1> DEFINE w == Balances(s)[a] + v
<1>1. Balances(s)[a] \in Nat /\ Balances(s)[a] = s.cache[a].balance
  BY PartsTyped DEF Balances
<1>2. w \in Nat
  BY <1>1
<1>3. delta_balance(s, a, v) = set_balance(s, a, w)
  BY <1>1 DEF delta_balance, set_balance
<1> HIDE DEF w
<1> DEFINE t == set_balance(s, a, w)
<1>4. /\ Changed(s, t) /\ Balances(t) = [Balances(s) EXCEPT ![a] = w]
      /\ Nonces(t) = Nonces(s) /\ Codes(t) = Codes(s) /\ Storages(t) = Storages(s)
  BY <1>2, SetBalanceIs
<1> HIDE DEF t
<1>5. t \in States
  BY <1>4 DEF Changed
<1>6. Wealth(t) = Wealth(s) - Balances(s)[a] + w
  BY <1>2, <1>4, <1>5, WealthSet
<1>7. Wealth(s) \in Nat
  BY WealthIs
<1>8. Wealth(t) = Wealth(s) + v
  BY <1>1, <1>6, <1>7 DEF w
<1> QED
  BY <1>3, <1>4, <1>8 DEF t, w, SameElse

LEMMA IncrementIs ==
  ASSUME NEW s \in States, NEW a \in Address
  PROVE  LET t == increment_nonce(s, a) IN
         /\ Changed(s, t) /\ Nonces(t) = [Nonces(s) EXCEPT ![a] = Nonces(s)[a] + 1]
         /\ Balances(t) = Balances(s) /\ Codes(t) = Codes(s) /\ Storages(t) = Storages(s)
<1> DEFINE w == Nonces(s)[a] + 1
<1>1. w \in Nat /\ Nonces(s)[a] = s.cache[a].nonce
  BY PartsTyped DEF Nonces
<1>2. increment_nonce(s, a) = set_nonce(s, a, w)
  BY <1>1 DEF increment_nonce, set_nonce
<1> HIDE DEF w
<1> DEFINE t == set_nonce(s, a, w)
<1>3. /\ Changed(s, t) /\ Nonces(t) = [Nonces(s) EXCEPT ![a] = w]
      /\ Balances(t) = Balances(s) /\ Codes(t) = Codes(s) /\ Storages(t) = Storages(s)
  BY <1>1, SetNonceIs
<1> QED
  BY <1>2, <1>3 DEF w

(* A transfer that the payer can afford.                                     *)
Moved(s, t, from, to, value) ==
  /\ Changed(s, t) /\ SameElse(s, t) /\ Wealth(t) = Wealth(s)
  /\ Balances(t)[from] >= (IF from = to THEN Balances(s)[from] ELSE 0)
  /\ \A a \in Address \ {from} : Balances(t)[a] >= Balances(s)[a]
  /\ value = 0 \/ from = to => Balances(t) = Balances(s)

LEMMA TransferIs ==
  ASSUME NEW s \in States, NEW from \in Address, NEW to \in Address, NEW value \in Nat,
         Balances(s)[from] >= value
  PROVE  Moved(s, transfer_value(s, from, to, value), from, to, value)
<1> DEFINE r == delta_balance(s, from, -value)
           t == delta_balance(r, to, value)
<1>1. Balances(s) \in [Address -> Nat] /\ Balances(s)[from] + (-value) >= 0 /\ -value \in Int
  BY PartsTyped
<1>2. /\ Changed(s, r) /\ SameElse(s, r)
      /\ Balances(r) = [Balances(s) EXCEPT ![from] = Balances(s)[from] + (-value)]
      /\ Wealth(r) = Wealth(s) + (-value)
  BY <1>1, DeltaIs
<1>3. r \in States
  BY <1>2 DEF Changed
<1> HIDE DEF r
<1>4. Balances(r) \in [Address -> Nat] /\ Balances(r)[to] + value >= 0 /\ value \in Int
  BY <1>3, PartsTyped
<1>5. /\ Changed(r, t) /\ SameElse(r, t)
      /\ Balances(t) = [Balances(r) EXCEPT ![to] = Balances(r)[to] + value]
      /\ Wealth(t) = Wealth(r) + value
  BY <1>3, <1>4, DeltaIs
<1>6. transfer_value(s, from, to, value) = t
  BY DEF transfer_value, r
<1> HIDE DEF t
<1>7. Changed(s, t) /\ SameElse(s, t)
  BY <1>2, <1>5, ChangedOn DEF SameElse
<1>8. Wealth(t) = Wealth(s)
  <2>1. Wealth(s) \in Nat
    BY WealthIs
  <2> QED
    BY <1>2, <1>5, <2>1
<1>9. Balances(t)[from] >= (IF from = to THEN Balances(s)[from] ELSE 0)
  BY <1>1, <1>2, <1>4, <1>5
<1>10. \A a \in Address \ {from} : Balances(t)[a] >= Balances(s)[a]
  BY <1>1, <1>2, <1>4, <1>5
<1>11. ASSUME value = 0 \/ from = to PROVE Balances(t) = Balances(s)
  <2> DEFINE f == Balances(s)
             g == Balances(r)
             h == Balances(t)
  <2>1. f \in [Address -> Nat] /\ g = [f EXCEPT ![from] = f[from] + (-value)] /\ h = [g EXCEPT ![to] = g[to] + value]
    BY <1>1, <1>2, <1>5
  <2>2. h \in [Address -> Nat]
    BY <1>4, <2>1
  <2> HIDE DEF f, g, h
  <2>3. \A a \in Address : h[a] = f[a]
    BY <1>11, <2>1
  <2>4. h = f
    BY <2>1, <2>2, <2>3
  <2> QED
    BY <2>4 DEF f, h
<1> QED
  BY <1>6, <1>7, <1>8, <1>9, <1>10, <1>11 DEF Moved

-------------------------------------------------------------------------------
(* An account that is deleted.  Buried(s, a) is what a suicide comes to.     *)
Buried(s, a) == del_account(set_balance(s, a, 0), a)

Gone(s, t, a) ==
  /\ Changed(s, t)
  /\ Balances(t) = [Balances(s) EXCEPT ![a] = 0]
  /\ Nonces(t) = [Nonces(s) EXCEPT ![a] = 0]
  /\ Codes(t) = [Codes(s) EXCEPT ![a] = NoCode]
  /\ Storages(t) = [Storages(s) EXCEPT ![a] = NoStorage]

(* A part of all accounts after a change of another field, or of this one.   *)
Written(s, t, a, f, v) ==
  /\ t \in States /\ Follows(s, t) /\ Aux(t) = Aux(s)
  /\ t.trie = s.trie /\ t.rules = s.rules
  /\ t.cache[a] = [s.cache[a] EXCEPT ![f] = v]
  /\ \A b \in Address \ {a} : t.cache[b] = s.cache[b]

LEMMA WrittenIs ==
  ASSUME NEW s \in States, NEW a \in Address, NEW f \in Field, NEW v, Fits(f, v)
  PROVE  Written(s, set_and_journal(s, a, f, v), a, f, v)
<1> DEFINE t == set_and_journal(s, a, f, v)
           c == [s.cache[a] EXCEPT ![f] = v]
<1>1. ChangedBy(s, t, a, f, v)
  BY Journalled
<1> HIDE DEF t
<1>2. t \in States /\ Follows(s, t)
  BY <1>1, FollowsChange DEF ChangedBy
<1>3. t.cache = [s.cache EXCEPT ![a] = c]
  BY <1>1 DEF ChangedBy
<1>4. s.cache \in [Address -> Account]
  BY DEF States
<1> HIDE DEF c
<1>5. t.cache[a] = c /\ \A b \in Address \ {a} : t.cache[b] = s.cache[b]
  BY <1>3, <1>4
<1> QED
  BY <1>1, <1>2, <1>5 DEF ChangedBy, Written, t, c

(* The last three changes of del_account: storage, deleted, touched.         *)
LEMMA EmptiedIs ==
  ASSUME NEW s \in States, NEW a \in Address, is_blank(s.cache[a])
  PROVE  LET t == set_and_journal(set_and_journal(reset_storage(s, a), a, "deleted", TRUE),
                                  a, "touched", FALSE)
         IN /\ Changed(s, t) /\ Balances(t) = Balances(s) /\ Nonces(t) = Nonces(s)
            /\ Codes(t) = Codes(s) /\ Storages(t) = [Storages(s) EXCEPT ![a] = NoStorage]
<1> DEFINE p == set_and_journal(s, a, "storage", NoStorage)
           q == set_and_journal(p, a, "deleted", TRUE)
           t == set_and_journal(q, a, "touched", FALSE)
<1>1. /\ Fits("storage", NoStorage) /\ Fits("deleted", TRUE) /\ Fits("touched", FALSE)
      /\ "storage" \in Field /\ "deleted" \in Field /\ "touched" \in Field
  BY DEF Fits, Field, NoStorage
<1>2. Written(s, p, a, "storage", NoStorage)
  BY <1>1, WrittenIs
<1>3. p \in States
  BY <1>2 DEF Written
<1>4. reset_storage(s, a) = p
  BY DEF reset_storage, NoStorage
<1> HIDE DEF p
<1>5. Written(p, q, a, "deleted", TRUE)
  BY <1>1, <1>3, WrittenIs
<1>6. q \in States
  BY <1>5 DEF Written
<1> HIDE DEF q
<1>7. Written(q, t, a, "touched", FALSE)
  BY <1>1, <1>6, WrittenIs
<1>8. t \in States
  BY <1>7 DEF Written
<1> HIDE DEF t
<1>9. Follows(s, t)
  BY <1>2, <1>3, <1>5, <1>6, <1>7, <1>8, FollowsOn DEF Written
<1>10. /\ Aux(t) = Aux(s) /\ t.trie = s.trie /\ t.rules = s.rules
       /\ \A b \in Address \ {a} : t.cache[b] = s.cache[b]
  BY <1>2, <1>5, <1>7 DEF Written
<1>11. /\ t.cache[a].touched = FALSE /\ t.cache[a].deleted = TRUE
       /\ t.cache[a].nonce = s.cache[a].nonce /\ t.cache[a].balance = s.cache[a].balance
       /\ t.cache[a].code = s.cache[a].code /\ t.cache[a].storage = NoStorage
       /\ t.cache[a].existent_at_start = s.cache[a].existent_at_start
  <2>1. s.cache[a] \in Account
    BY PartsTyped
  <2>2. t.cache[a] = [[[s.cache[a] EXCEPT !["storage"] = NoStorage]
                          EXCEPT !["deleted"] = TRUE] EXCEPT !["touched"] = FALSE]
    BY <1>2, <1>5, <1>7 DEF Written
  <2> QED
    BY <2>1, <2>2 DEF Account
<1>12. Coherent(s) => Coherent(t)
  <2> SUFFICES ASSUME Coherent(s), NEW b \in Address
               PROVE  LET e == t.cache[b] IN
                      /\ e.existent_at_start = t.trie[b].present
                      /\ ~e.touched /\ ~e.deleted => e = Loaded(t.trie[b])
                      /\ ~e.touched /\ e.deleted => is_blank(e) /\ e.storage = NoStorage
    BY DEF Coherent
  <2>1. CASE b = a
    <3>1. s.cache[a].existent_at_start = s.trie[a].present
      BY DEF Coherent
    <3> QED
      BY <1>10, <1>11, <2>1, <3>1 DEF is_blank
  <2>2. CASE b # a
    <3>1. t.cache[b] = s.cache[b]
      BY <1>10, <2>2
    <3> QED
      BY <1>10, <3>1 DEF Coherent
  <2> QED
    BY <2>1, <2>2
<1>13. /\ Balances(t) = Balances(s) /\ Nonces(t) = Nonces(s) /\ Codes(t) = Codes(s)
       /\ Storages(t) = [Storages(s) EXCEPT ![a] = NoStorage]
  <2>1. Balances(t) = Balances(s)
    BY <1>10, <1>11 DEF Balances
  <2>2. Nonces(t) = Nonces(s)
    BY <1>10, <1>11 DEF Nonces
  <2>3. Codes(t) = Codes(s)
    BY <1>10, <1>11 DEF Codes
  <2>4. Storages(t) = [Storages(s) EXCEPT ![a] = NoStorage]
    BY <1>10, <1>11 DEF Storages
  <2> QED
    BY <2>1, <2>2, <2>3, <2>4
<1>14. Changed(s, t)
  BY <1>8, <1>9, <1>10, <1>12 DEF Changed
<1> QED
  BY <1>4, <1>13, <1>14 DEF t, q

LEMMA BuriedIs ==
  ASSUME NEW s \in States, NEW a \in Address
  PROVE  Gone(s, Buried(s, a), a)
<1> DEFINE o == set_balance(s, a, 0)
           p == set_balance(o, a, 0)
           q == set_nonce(p, a, 0)
           r == set_code(q, a, NoCode)
           t == set_and_journal(set_and_journal(reset_storage(r, a), a, "deleted", TRUE),
                                a, "touched", FALSE)
<1>1. /\ Changed(s, o) /\ Balances(o) = [Balances(s) EXCEPT ![a] = 0]
      /\ Nonces(o) = Nonces(s) /\ Codes(o) = Codes(s) /\ Storages(o) = Storages(s)
  BY SetBalanceIs
<1>2. o \in States
  BY <1>1 DEF Changed
<1> HIDE DEF o
<1>3. /\ Changed(o, p) /\ Balances(p) = [Balances(o) EXCEPT ![a] = 0]
      /\ Nonces(p) = Nonces(o) /\ Codes(p) = Codes(o) /\ Storages(p) = Storages(o)
  BY <1>2, SetBalanceIs
<1>4. p \in States
  BY <1>3 DEF Changed
<1> HIDE DEF p
<1>5. /\ Changed(p, q) /\ Nonces(q) = [Nonces(p) EXCEPT ![a] = 0]
      /\ Balances(q) = Balances(p) /\ Codes(q) = Codes(p) /\ Storages(q) = Storages(p)
  BY <1>4, SetNonceIs
<1>6. q \in States
  BY <1>5 DEF Changed
<1> HIDE DEF q
<1>7. /\ Changed(q, r) /\ Codes(r) = [Codes(q) EXCEPT ![a] = NoCode]
      /\ Balances(r) = Balances(q) /\ Nonces(r) = Nonces(q) /\ Storages(r) = Storages(q)
  <2>1. NoCode \in Code
    BY DEF Code
  <2> QED
    BY <1>6, <2>1, SetCodeIs
<1>8. r \in States
  BY <1>7 DEF Changed
<1> HIDE DEF r
<1>9. /\ Balances(r) = [Balances(s) EXCEPT ![a] = 0] /\ Nonces(r) = [Nonces(s) EXCEPT ![a] = 0]
      /\ Codes(r) = [Codes(s) EXCEPT ![a] = NoCode] /\ Storages(r) = Storages(s)
  <2>1. Balances(p) = [Balances(s) EXCEPT ![a] = 0]
    BY <1>1, <1>3, PartsTyped
  <2> QED
    BY <1>1, <1>3, <1>5, <1>7, <2>1
<1>10. is_blank(r.cache[a])
  <2>1. Balances(r)[a] = 0 /\ Nonces(r)[a] = 0 /\ Codes(r)[a] = NoCode
    BY <1>9, PartsTyped
  <2> QED
    BY <2>1 DEF is_blank, Balances, Nonces, Codes
<1>11. /\ Changed(r, t) /\ Balances(t) = Balances(r) /\ Nonces(t) = Nonces(r)
       /\ Codes(t) = Codes(r) /\ Storages(t) = [Storages(r) EXCEPT ![a] = NoStorage]
  BY <1>8, <1>10, EmptiedIs
<1>12. Buried(s, a) = t
  BY DEF Buried, del_account, o, p, q, r
<1> HIDE DEF t
<1>13. Changed(s, t)
  <2>1. Changed(s, p)
    BY <1>1, <1>3, ChangedOn
  <2>2. Changed(s, q)
    BY <1>5, <2>1, ChangedOn
  <2>3. Changed(s, r)
    BY <1>7, <2>2, ChangedOn
  <2> QED
    BY <1>11, <2>3, ChangedOn
<1> QED
  BY <1>9, <1>11, <1>12, <1>13 DEF Gone

-------------------------------------------------------------------------------
(* t may come after s within a block: nothing was written to the trie.       *)
Later(s, t) ==
  /\ t \in States /\ Follows(s, t) /\ t.trie = s.trie /\ t.rules = s.rules
  /\ Coherent(s) => Coherent(t)

SameParts(s, t) == SameElse(s, t) /\ Balances(t) = Balances(s)

LEMMA LaterOn ==
  ASSUME NEW r \in States, NEW s, NEW t, Later(r, s), Later(s, t)
  PROVE  Later(r, t)
BY FollowsOn DEF Later

LEMMA ChangedLater ==
  ASSUME NEW s, NEW t, Changed(s, t)
  PROVE  Later(s, t)
BY DEF Changed, Later

(* What is recorded of the transaction changes no account.                   *)
LEMMA AlikeLater ==
  ASSUME NEW s \in States, NEW t \in States, Alike(s, t)
  PROVE  Later(s, t) /\ SameParts(s, t) /\ Wealth(t) = Wealth(s)
<1>1. Coherent(s) => Coherent(t)
  BY DEF Alike, Coherent
<1>2. Follows(s, t)
  BY FollowsAlike
<1>3. SameParts(s, t)
  BY DEF Alike, SameParts, SameElse, Nonces, Balances, Codes, Storages
<1>4. Wealth(t) = Wealth(s)
  BY <1>3, WealthSame DEF SameParts
<1> QED
  BY <1>1, <1>2, <1>3, <1>4 DEF Later, Alike

LEMMA SameCache ==
  ASSUME NEW s \in States, NEW t \in States, t.cache = s.cache, t.trie = s.trie
  PROVE  /\ Coherent(s) => Coherent(t)
         /\ SameParts(s, t) /\ Wealth(t) = Wealth(s)
<1>1. Coherent(s) => Coherent(t)
  BY DEF Coherent
<1>2. SameParts(s, t)
  BY DEF SameParts, SameElse, Nonces, Balances, Codes, Storages
<1> QED
  BY <1>1, <1>2, WealthSame DEF SameParts

LEMMA LogIs ==
  ASSUME NEW s \in States, NEW a \in Address
  PROVE  LET t == add_log(s, a) IN
         /\ Later(s, t) /\ SameParts(s, t) /\ Wealth(t) = Wealth(s) /\ t.suicides = s.suicides
<1> DEFINE t == Recorded(s, "logs", a)
<1>1. /\ t \in States /\ Popped(t) = s /\ Len(t.journal) = Len(s.journal) + 1
      /\ t.trie = s.trie /\ t.rules = s.rules /\ t.cache = s.cache
      /\ t = [s EXCEPT !["logs"] = Append(@, a), !.journal = t.journal]
  BY RecordedIs
<1>2. add_log(s, a) = t
  BY DEF add_log
<1> HIDE DEF t
<1>3. t.suicides = s.suicides
  BY <1>1 DEF States
<1>4. Follows(s, t)
  BY <1>1, FollowsChange
<1>5. (Coherent(s) => Coherent(t)) /\ SameParts(s, t) /\ Wealth(t) = Wealth(s)
  BY <1>1, SameCache
<1> QED
  BY <1>1, <1>2, <1>3, <1>4, <1>5 DEF Later

LEMMA SuicideIs ==
  ASSUME NEW s \in States, NEW a \in Address
  PROVE  LET t == add_suicide(s, a) IN
         /\ Later(s, t) /\ SameParts(s, t) /\ Wealth(t) = Wealth(s) /\ t.suicides # <<>>
<1> DEFINE t == Recorded(s, "suicides", a)
<1>1. /\ t \in States /\ Popped(t) = s /\ Len(t.journal) = Len(s.journal) + 1
      /\ t.trie = s.trie /\ t.rules = s.rules /\ t.cache = s.cache
      /\ t = [s EXCEPT !["suicides"] = Append(@, a), !.journal = t.journal]
  BY RecordedIs
<1>2. add_suicide(s, a) = t
  BY DEF add_suicide
<1> HIDE DEF t
<1>3. t.suicides # <<>>
  <2>1. s.suicides \in Seq(Address)
    BY DEF States
  <2>2. Append(s.suicides, a) # <<>>
    BY <2>1, Appended
  <2>3. t.suicides = Append(s.suicides, a)
    BY <1>1 DEF States
  <2> QED
    BY <2>2, <2>3
<1>4. Follows(s, t)
  BY <1>1, FollowsChange
<1>5. (Coherent(s) => Coherent(t)) /\ SameParts(s, t) /\ Wealth(t) = Wealth(s)
  BY <1>1, SameCache
<1> QED
  BY <1>1, <1>2, <1>3, <1>4, <1>5 DEF Later

-------------------------------------------------------------------------------
(* Opening a trie and committing to one.                                     *)
LEMMA OpenedIs ==
  ASSUME NEW trie \in Tries, NEW rules \in SUBSET STRING
  PROVE  LET t == Opened(trie, rules) IN
         /\ t \in States /\ t.trie = trie /\ t.rules = rules /\ t.journal = <<>>
         /\ t.cache = [a \in Address |-> Loaded(trie[a])]
         /\ t.suicides = <<>> /\ Aux(t) \in Auxes
         /\ Coherent(t) /\ Base(t)
<1> DEFINE t == Opened(trie, rules)
<1>1. \A a \in Address : Loaded(trie[a]) \in Account
  BY DEF Tries, TrieAccount, Loaded, Account
<1>2. /\ t \in States /\ t.trie = trie /\ t.rules = rules /\ t.journal = <<>>
      /\ t.cache = [a \in Address |-> Loaded(trie[a])] /\ t.suicides = <<>>
  BY <1>1 DEF Opened, States
<1> HIDE DEF t
<1>3. Aux(t) \in Auxes
  BY <1>2 DEF Aux, Auxes, States
<1>4. Coherent(t)
  BY <1>2 DEF Coherent, Loaded
<1>5. Base(t)
  <2>1. UndoneTo(t, Len(t.journal)) = t /\ Len(t.journal) = 0
    BY <1>2, UndoneSelf
  <2> QED
    BY <1>2, <2>1 DEF Base
<1> QED
  BY <1>2, <1>3, <1>4, <1>5 DEF t

(* Without a journal, a state is what its trie opens.                        *)
LEMMA BaseIs ==
  ASSUME NEW s \in States, Base(s), s.journal = <<>>
  PROVE  Restored(Opened(s.trie, s.rules), Aux(s)) = s
<1> DEFINE o == Opened(s.trie, s.rules)
           r == Restored(o, Aux(s))
<1>1. s.trie \in Tries /\ s.rules \in SUBSET STRING /\ Aux(s) \in Auxes /\ Len(s.journal) = 0
  BY DEF States, Aux, Auxes
<1>2. /\ o \in States /\ o.trie = s.trie /\ o.rules = s.rules /\ o.journal = <<>>
      /\ o.cache = [a \in Address |-> Loaded(s.trie[a])]
  BY <1>1, OpenedIs
<1> HIDE DEF o
<1>3. r \in States /\ Alike(r, o) /\ Aux(r) = Aux(s)
  BY <1>1, <1>2, RestoredIs
<1>4. UndoneTo(s, 0) = s
  BY <1>1, UndoneSelf
<1>5. Alike(r, s)
  BY <1>2, <1>3, <1>4 DEF Alike, Base
<1> HIDE DEF r
<1>6. r = s
  BY <1>3, <1>5, SameState
<1> QED
  BY <1>6 DEF r, o

(* The outermost revert leads to what the root opens, whatever was committed *)
(* since.                                                                    *)
LEMMA RevertAll ==
  ASSUME NEW s \in States, Base(s), NEW snap \in Snaps, snap.L = 0
  PROVE  revert(s, snap) = Restored(Opened(snap.root, s.rules), snap.aux)
<1> DEFINE u == UndoneTo(s, 0)
           w == IF snap.root = s.trie THEN u
                ELSE [u EXCEPT !.trie = snap.root,
                               !.cache = [a \in Address |-> Loaded(snap.root[a])]]
           o == Opened(snap.root, s.rules)
<1>1. snap.root \in Tries /\ snap.aux \in Auxes /\ s.rules \in SUBSET STRING
  BY DEF Snaps, States
<1>2. Len(s.journal) \in Nat
  BY DEF States
<1>3. u \in States /\ Len(u.journal) = 0 /\ u.trie = s.trie /\ u.rules = s.rules
  BY <1>2, UndoneIs
<1>4. u.cache = [a \in Address |-> Loaded(s.trie[a])]
  BY DEF Base
<1>5. revert(s, snap) = Restored(w, snap.aux)
  BY DEF revert
<1>6. /\ o \in States /\ o.trie = snap.root /\ o.rules = s.rules /\ o.journal = <<>>
      /\ o.cache = [a \in Address |-> Loaded(snap.root[a])]
  BY <1>1, OpenedIs
<1> HIDE DEF u, o
<1>7. u.journal = <<>>
  BY <1>3 DEF States
<1>8. /\ w \in States /\ w.trie = snap.root /\ w.rules = s.rules /\ w.journal = <<>>
      /\ w.cache = [a \in Address |-> Loaded(snap.root[a])]
  <2>1. CASE snap.root = s.trie
    BY <1>3, <1>4, <1>7, <2>1
  <2>2. CASE snap.root # s.trie
    <3> DEFINE c == [a \in Address |-> Loaded(snap.root[a])]
    <3>1. c \in [Address -> Account]
      BY <1>6 DEF States
    <3>2. w = [u EXCEPT !.trie = snap.root, !.cache = c]
      BY <2>2
    <3> HIDE DEF c, w
    <3>3. /\ w \in States /\ w.trie = snap.root /\ w.rules = s.rules /\ w.journal = <<>>
          /\ w.cache = c
      BY <1>1, <1>3, <1>7, <3>1, <3>2 DEF States
    <3> QED
      BY <3>3 DEF c
  <2> QED
    BY <2>1, <2>2
<1> HIDE DEF w
<1>9. Alike(w, o)
  BY <1>6, <1>8 DEF Alike
<1>10. /\ Restored(w, snap.aux) \in States /\ Restored(o, snap.aux) \in States
       /\ Alike(Restored(w, snap.aux), w) /\ Alike(Restored(o, snap.aux), o)
       /\ Aux(Restored(w, snap.aux)) = Aux(Restored(o, snap.aux))
  BY <1>1, <1>6, <1>8, RestoredIs
<1>11. Alike(Restored(w, snap.aux), Restored(o, snap.aux))
  BY <1>9, <1>10 DEF Alike
<1>12. Restored(w, snap.aux) = Restored(o, snap.aux)
  BY <1>10, <1>11, SameState
<1> QED
  BY <1>5, <1>12 DEF o

(* What commit writes of one account.                                        *)
CommittedAccount(s, a) ==
  LET account == s.cache[a] IN
  IF ~account.touched /\ ~account.deleted THEN s.trie[a]
  ELSE IF account_exists(s, a)
  THEN [present |-> TRUE, nonce |-> account.nonce, balance |-> account.balance,
        code |-> account.code, storage |-> account.storage]
  ELSE Stored

(* Since the Spurious Dragon a blank account does not exist: what it stored  *)
(* is lost in a commit, so there must not be anything.                       *)
Tidy(s) ==
  "spurious_dragon" \in s.rules =>
    \A a \in Address : is_blank(s.cache[a]) => s.cache[a].storage = NoStorage

LEMMA CommittedIs ==
  ASSUME NEW s \in States, Coherent(s), NEW a \in Address
  PROVE  LET w == CommittedAccount(s, a)
             c == s.cache[a]
         IN /\ w \in TrieAccount
            /\ w.nonce = c.nonce /\ w.balance = c.balance /\ w.code = c.code
            /\ Tidy(s) => w.storage = c.storage
            /\ "spurious_dragon" \notin s.rules => w.present = account_exists(s, a)
<1> DEFINE c == s.cache[a]
           t == s.trie[a]
           w == CommittedAccount(s, a)
           dragon == "spurious_dragon" \in s.rules
<1>1. c \in Account /\ t \in TrieAccount
  BY DEF States, Tries
<1>2. /\ c.existent_at_start = t.present
      /\ ~c.touched /\ ~c.deleted => c = Loaded(t)
      /\ ~c.touched /\ c.deleted => is_blank(c) /\ c.storage = NoStorage
  BY DEF Coherent
<1>3. account_exists(s, a) <=> IF dragon THEN ~is_blank(c)
                               ELSE c.touched \/ (c.existent_at_start /\ ~c.deleted)
  BY <1>1 DEF account_exists, Account
<1>4. Tidy(s) => (dragon /\ is_blank(c) => c.storage = NoStorage)
  BY DEF Tidy
<1>5. w = IF ~c.touched /\ ~c.deleted THEN t
          ELSE IF account_exists(s, a)
          THEN [present |-> TRUE, nonce |-> c.nonce, balance |-> c.balance,
                code |-> c.code, storage |-> c.storage]
          ELSE Stored
  BY DEF CommittedAccount
<1>6. /\ Stored \in TrieAccount /\ Stored.present = FALSE /\ Stored.nonce = 0
      /\ Stored.balance = 0 /\ Stored.code = NoCode /\ Stored.storage = NoStorage
  BY DEF Stored, TrieAccount, NoStorage, Code
<1>7. account_exists(s, a) \in BOOLEAN
  BY DEF account_exists, is_blank
<1> HIDE DEF c, t, w, dragon
<1>8. CASE ~c.touched /\ ~c.deleted
  <2>1. w = t /\ c = Loaded(t)
    BY <1>2, <1>5, <1>8
  <2>2. t.nonce = c.nonce /\ t.balance = c.balance /\ t.code = c.code /\ t.storage = c.storage
    BY <2>1 DEF Loaded
  <2>3. ~dragon => w.present = account_exists(s, a)
    BY <1>1, <1>2, <1>3, <1>7, <1>8, <2>1 DEF Account, TrieAccount
  <2> QED
    BY <1>1, <2>1, <2>2, <2>3 DEF c, t, w, dragon
<1>9. CASE (c.touched \/ c.deleted) /\ account_exists(s, a)
  <2>1. w = [present |-> TRUE, nonce |-> c.nonce, balance |-> c.balance,
             code |-> c.code, storage |-> c.storage]
    BY <1>5, <1>9
  <2>2. w \in TrieAccount
    BY <1>1, <2>1 DEF Account, TrieAccount
  <2>3. w.present = account_exists(s, a)
    BY <1>7, <1>9, <2>1
  <2>4. w.nonce = c.nonce /\ w.balance = c.balance /\ w.code = c.code /\ w.storage = c.storage
    BY <2>1
  <2> QED
    BY <2>2, <2>3, <2>4 DEF c, w
<1>10. CASE (c.touched \/ c.deleted) /\ ~account_exists(s, a)
  <2>1. w = Stored
    BY <1>5, <1>10
  <2>2. is_blank(c)
    BY <1>1, <1>2, <1>3, <1>10 DEF Account
  <2>3. Tidy(s) => c.storage = NoStorage
    BY <1>1, <1>2, <1>3, <1>4, <1>10, <2>2 DEF Account
  <2>4. w.present = account_exists(s, a)
    BY <1>6, <1>7, <1>10, <2>1
  <2> QED
    BY <1>6, <2>1, <2>2, <2>3, <2>4 DEF c, t, w, dragon, is_blank
<1> QED
  BY <1>1, <1>8, <1>9, <1>10 DEF Account

LEMMA CommitIs ==
  ASSUME NEW s \in States, Coherent(s)
  PROVE  LET t == commit(s) IN
         /\ t \in States /\ t.rules = s.rules /\ t.journal = <<>> /\ Aux(t) = Aux(s)
         /\ t.suicides = s.suicides
         /\ Coherent(t) /\ Base(t)
         /\ Nonces(t) = Nonces(s) /\ Balances(t) = Balances(s) /\ Codes(t) = Codes(s)
         /\ Tidy(s) => Storages(t) = Storages(s)
         /\ \A a \in Address : account_exists(t, a) = account_exists(s, a)
<1> DEFINE trie == [a \in Address |-> CommittedAccount(s, a)]
           o == Opened(trie, s.rules)
           t == Restored(o, Aux(s))
<1>1. commit(s) = t
  BY DEF commit, Committed, CommittedAccount
<1>2. \A a \in Address :
        /\ trie[a] \in TrieAccount
        /\ trie[a].nonce = s.cache[a].nonce /\ trie[a].balance = s.cache[a].balance
        /\ trie[a].code = s.cache[a].code
        /\ Tidy(s) => trie[a].storage = s.cache[a].storage
        /\ "spurious_dragon" \notin s.rules => trie[a].present = account_exists(s, a)
  BY CommittedIs
<1>3. trie \in Tries
  BY <1>2 DEF Tries
<1> HIDE DEF trie
<1>4. s.rules \in SUBSET STRING /\ Aux(s) \in Auxes
  BY DEF States, Aux, Auxes
<1>5. /\ o \in States /\ o.trie = trie /\ o.rules = s.rules /\ o.journal = <<>>
      /\ o.cache = [a \in Address |-> Loaded(trie[a])] /\ Coherent(o) /\ Base(o)
  BY <1>3, <1>4, OpenedIs
<1> HIDE DEF o
<1>6. t \in States /\ Alike(t, o) /\ Aux(t) = Aux(s)
  BY <1>4, <1>5, RestoredIs
<1> HIDE DEF t
<1>7. /\ t.trie = trie /\ t.rules = s.rules /\ t.journal = <<>>
      /\ t.cache = [a \in Address |-> Loaded(trie[a])]
  BY <1>5, <1>6 DEF Alike
<1>8. Alike(o, t)
  BY <1>6 DEF Alike
<1>9. Coherent(t)
  BY <1>5, <1>6, <1>8, AlikeLater DEF Later
<1>10. Base(t)
  BY <1>5, <1>6, <1>8, FollowsAlike, BaseKept
<1>11. t.suicides = s.suicides
  BY <1>6 DEF Aux
<1>12. \A a \in Address :
         /\ t.cache[a].nonce = s.cache[a].nonce /\ t.cache[a].balance = s.cache[a].balance
         /\ t.cache[a].code = s.cache[a].code
         /\ Tidy(s) => t.cache[a].storage = s.cache[a].storage
         /\ t.cache[a].touched = FALSE /\ t.cache[a].deleted = FALSE
         /\ t.cache[a].existent_at_start = trie[a].present
  BY <1>2, <1>7 DEF Loaded
<1>13. ASSUME NEW a \in Address PROVE account_exists(t, a) = account_exists(s, a)
  <2>1. CASE "spurious_dragon" \in s.rules
    BY <1>7, <1>12, <2>1 DEF account_exists, is_blank
  <2>2. CASE "spurious_dragon" \notin s.rules
    <3>1. trie[a].present = account_exists(s, a)
      BY <1>2, <2>2
    <3>2. trie[a].present \in BOOLEAN
      BY <1>2 DEF TrieAccount
    <3>3. account_exists(t, a) = (t.cache[a].touched \/ (t.cache[a].existent_at_start /\ ~t.cache[a].deleted))
      BY <1>7, <2>2 DEF account_exists
    <3> QED
      BY <1>12, <3>1, <3>2, <3>3
  <2> QED
    BY <2>1, <2>2
<1>14. /\ Nonces(t) = Nonces(s) /\ Balances(t) = Balances(s) /\ Codes(t) = Codes(s)
       /\ Tidy(s) => Storages(t) = Storages(s)
  BY <1>12 DEF Nonces, Balances, Codes, Storages
<1> QED
  BY <1>1, <1>6, <1>7, <1>9, <1>10, <1>11, <1>13, <1>14

(* What can be read.                                                         *)
LEMMA WorldSame ==
  ASSUME NEW s \in States, NEW t \in States, SameParts(s, t), Aux(t) = Aux(s),
         \A a \in Address : account_exists(t, a) = account_exists(s, a)
  PROVE  World(t) = World(s)
<1>1. \A a \in Address :
        /\ t.cache[a].nonce = s.cache[a].nonce /\ t.cache[a].balance = s.cache[a].balance
        /\ t.cache[a].code = s.cache[a].code /\ t.cache[a].storage = s.cache[a].storage
  <2>1. \A a \in Address :
          /\ Nonces(t)[a] = Nonces(s)[a] /\ Balances(t)[a] = Balances(s)[a]
          /\ Codes(t)[a] = Codes(s)[a] /\ Storages(t)[a] = Storages(s)[a]
    BY DEF SameParts, SameElse
  <2> QED
    BY <2>1 DEF Nonces, Balances, Codes, Storages
<1> QED
  BY <1>1 DEF World

LEMMA DataSame ==
  ASSUME NEW s \in States, NEW t \in States, SameParts(s, t)
  PROVE  Data(World(t)) = Data(World(s))
<1>1. \A a \in Address :
        /\ t.cache[a].nonce = s.cache[a].nonce /\ t.cache[a].balance = s.cache[a].balance
        /\ t.cache[a].code = s.cache[a].code /\ t.cache[a].storage = s.cache[a].storage
  <2>1. \A a \in Address :
          /\ Nonces(t)[a] = Nonces(s)[a] /\ Balances(t)[a] = Balances(s)[a]
          /\ Codes(t)[a] = Codes(s)[a] /\ Storages(t)[a] = Storages(s)[a]
    BY DEF SameParts, SameElse
  <2> QED
    BY <2>1 DEF Nonces, Balances, Codes, Storages
<1> DEFINE Row(u, a) ==
      [nonce |-> u.cache[a].nonce, balance |-> u.cache[a].balance,
       code |-> u.cache[a].code, storage |-> u.cache[a].storage, exists |-> TRUE]
<1>2. ASSUME NEW u, NEW a \in Address
      PROVE  Data(World(u))[a] = Row(u, a)
  BY DEF Data, World
<1>5. \A a \in Address : Row(t, a) = Row(s, a)
  BY <1>1
<1> HIDE DEF Row
<1>3. \A a \in Address : Data(World(t))[a] = Data(World(s))[a]
  BY <1>2, <1>5
<1>4. \A u : Data(World(u)) = [a \in Address |-> Data(World(u))[a]]
  BY DEF Data
<1> QED
  BY <1>3, <1>4

-------------------------------------------------------------------------------
(* Frames, and the entry into a message.                                     *)
Worlds == {World(s) : s \in States}

MessageSet ==
  [sender : Address, to : Address, value : Nat, gas : Nat, transfers : BOOLEAN,
   static : BOOLEAN, create : BOOLEAN, doomed : BOOLEAN, runs : BOOLEAN]

MessageFrame ==
  [sender : Address, to : Address, value : Nat, gas : Nat, transfers : BOOLEAN,
   static : BOOLEAN, create : BOOLEAN, doomed : BOOLEAN, runs : BOOLEAN,
   snap : Snaps, outer : Snaps, world : Worlds]

BlockFrame ==
  [snap : Snaps, world : Worlds, gas : {0}, static : {FALSE}, runs : BOOLEAN, supply : Nat]

(* An account that keeps its storage in a commit, whatever it pays.          *)
Peopled(s, a) == Nonces(s)[a] # 0 \/ Codes(s)[a] # NoCode

Lives(s, t) ==
  /\ t.rules = s.rules
  /\ \A a \in Address : /\ Nonces(s)[a] # 0 => Nonces(t)[a] # 0
                        /\ Peopled(s, a) => Peopled(t, a)

(* A message that begins in s: it fails to o, its code to n, and it goes on  *)
(* in t.                                                                     *)
Pushed(s, o, n, t, f) ==
  /\ Later(s, o) /\ Later(o, n) /\ Later(n, t)
  /\ Aux(o) = Aux(s) /\ Aux(t) = Aux(s) /\ Wealth(o) = Wealth(s) /\ Wealth(t) = Wealth(s)
  /\ f \in MessageFrame /\ f.outer = snapshot(o) /\ f.snap = snapshot(n) /\ f.world = World(o)

(* That it leaves what accounts hold in order.                               *)
PushedTidily(s, o, t, f) ==
  /\ Lives(s, o) /\ Lives(o, t) /\ Tidy(o) /\ Tidy(t)
  /\ f.runs => Nonces(t)[f.to] # 0 \/ (~f.create /\ Codes(t)[f.to] # NoCode)

LEMMA ChangedSelf ==
  ASSUME NEW s \in States
  PROVE  Changed(s, s) /\ Later(s, s)
<1>1. Follows(s, s)
  BY FollowsAlike DEF Alike
<1> QED
  BY <1>1 DEF Changed, Later

LEMMA TidyIs ==
  ASSUME NEW s \in States
  PROVE  Tidy(s) <=> ("spurious_dragon" \in s.rules =>
           \A a \in Address : ~Peopled(s, a) /\ Balances(s)[a] = 0 => Storages(s)[a] = NoStorage)
BY DEF Tidy, is_blank, Peopled, Nonces, Codes, Balances, Storages

LEMMA TidyKept ==
  ASSUME NEW s \in States, NEW t \in States, t.rules = s.rules, Tidy(s),
         \A a \in Address :
           \/ Peopled(t, a)
           \/ Storages(t)[a] = NoStorage
           \/ ~Peopled(s, a) /\ Balances(t)[a] >= Balances(s)[a] /\ Storages(t)[a] = Storages(s)[a]
  PROVE  Tidy(t)
<1> SUFFICES ASSUME "spurious_dragon" \in s.rules, NEW a \in Address,
                    ~Peopled(t, a), Balances(t)[a] = 0
             PROVE  Storages(t)[a] = NoStorage
  BY TidyIs
<1>1. Balances(s)[a] \in Nat
  BY PartsTyped
<1>2. CASE Storages(t)[a] = NoStorage
  BY <1>2
<1>3. CASE ~Peopled(s, a) /\ Balances(t)[a] >= Balances(s)[a] /\ Storages(t)[a] = Storages(s)[a]
  <2>1. Balances(s)[a] = 0
    BY <1>1, <1>3
  <2> QED
    BY <1>3, <2>1, TidyIs
<1> QED
  BY <1>2, <1>3

LEMMA EnteredIs ==
  ASSUME NEW s \in States, NEW m \in MessageSet, NEW outer \in Snaps, NEW world \in Worlds
  PROVE  LET e == Entered(s, m, outer, world) IN
         /\ Changed(s, e.st) /\ SameElse(s, e.st) /\ Wealth(e.st) = Wealth(s)
         /\ ~m.transfers \/ m.value = 0 \/ m.sender = m.to => Balances(e.st) = Balances(s)
         /\ Tidy(s) /\ (m.transfers => Peopled(s, m.sender)) => Tidy(e.st)
         /\ e.frame \in MessageFrame /\ e.frame.snap = snapshot(s)
         /\ e.frame.outer = outer /\ e.frame.world = world
         /\ e.frame.sender = m.sender /\ e.frame.to = m.to /\ e.frame.gas = m.gas
         /\ e.frame.static = m.static /\ e.frame.create = m.create
         /\ e.frame.doomed = m.doomed /\ (e.frame.runs => m.runs)
<1> DEFINE e == Entered(s, m, outer, world)
           paid == ~m.transfers \/ get_balance(s, m.sender) >= m.value
           moves == m.transfers /\ paid
           t == transfer_value(s, m.sender, m.to, m.value)
<1>1. /\ m.sender \in Address /\ m.to \in Address /\ m.value \in Nat /\ m.gas \in Nat
      /\ m.transfers \in BOOLEAN /\ m.static \in BOOLEAN /\ m.create \in BOOLEAN
      /\ m.doomed \in BOOLEAN /\ m.runs \in BOOLEAN
  BY DEF MessageSet
<1>2. get_balance(s, m.sender) = Balances(s)[m.sender]
  BY <1>1 DEF get_balance, Balances
<1>3. e.st = IF moves THEN t ELSE s
  BY DEF Entered
<1>4. e.frame = Frame([m EXCEPT !.runs = @ /\ paid], snapshot(s), outer, world)
  BY DEF Entered
<1>5. snapshot(s) \in Snaps
  BY SnapshotIs DEF Within
<1> HIDE DEF e
<1>6. /\ e.frame \in MessageFrame /\ e.frame.snap = snapshot(s)
      /\ e.frame.outer = outer /\ e.frame.world = world
      /\ e.frame.sender = m.sender /\ e.frame.to = m.to /\ e.frame.gas = m.gas
      /\ e.frame.static = m.static /\ e.frame.create = m.create /\ e.frame.doomed = m.doomed
      /\ (e.frame.runs => m.runs)
  <2> DEFINE p == [m EXCEPT !.runs = @ /\ paid]
  <2>1. /\ p.sender = m.sender /\ p.to = m.to /\ p.value = m.value /\ p.gas = m.gas
        /\ p.transfers = m.transfers /\ p.static = m.static /\ p.create = m.create
        /\ p.doomed = m.doomed /\ p.runs = (m.runs /\ paid)
    BY DEF MessageSet
  <2>2. p.runs \in BOOLEAN /\ (p.runs => m.runs)
    BY <1>1, <2>1
  <2>3. e.frame = Frame(p, snapshot(s), outer, world)
    BY <1>4
  <2> HIDE DEF p
  <2> QED
    BY <1>1, <1>5, <2>1, <2>2, <2>3 DEF Frame, MessageFrame
<1>7. CASE moves
  <2>1. Moved(s, t, m.sender, m.to, m.value)
    BY <1>1, <1>2, <1>7, TransferIs
  <2> HIDE DEF t
  <2>2. /\ Changed(s, t) /\ SameElse(s, t) /\ Wealth(t) = Wealth(s)
        /\ m.value = 0 \/ m.sender = m.to => Balances(t) = Balances(s)
        /\ \A a \in Address \ {m.sender} : Balances(t)[a] >= Balances(s)[a]
    BY <2>1 DEF Moved
  <2>3. t \in States /\ t.rules = s.rules
    BY <2>2 DEF Changed
  <2>4. ASSUME Tidy(s), Peopled(s, m.sender) PROVE Tidy(t)
    <3>1. ASSUME NEW a \in Address
          PROVE  \/ Peopled(t, a)
                 \/ ~Peopled(s, a) /\ Balances(t)[a] >= Balances(s)[a] /\ Storages(t)[a] = Storages(s)[a]
      <4>1. Peopled(t, a) <=> Peopled(s, a)
        BY <2>2 DEF Peopled, SameElse
      <4>2. Storages(t)[a] = Storages(s)[a]
        BY <2>2 DEF SameElse
      <4> QED
        BY <2>2, <2>4, <4>1, <4>2
    <3> QED
      BY <2>3, <2>4, <3>1, TidyKept
  <2>5. e.st = t
    BY <1>3, <1>7
  <2> QED
    BY <1>6, <1>7, <2>2, <2>4, <2>5 DEF e
<1>8. CASE ~moves
  <2>1. e.st = s
    BY <1>3, <1>8
  <2>2. Changed(s, s) /\ SameElse(s, s)
    BY ChangedSelf DEF SameElse
  <2> QED
    BY <1>6, <2>1, <2>2 DEF e
<1> QED
  BY <1>7, <1>8

(* A message that calls.                                                     *)
CallsIn(s, m, e) ==
  /\ Pushed(s, s, s, e.st, e.frame) /\ SameElse(s, e.st)
  /\ ~m.transfers \/ m.value = 0 \/ m.sender = m.to => SameParts(s, e.st)
  /\ Tidy(s) /\ (m.transfers => Peopled(s, m.sender)) => Tidy(e.st)
  /\ e.frame.to = m.to /\ e.frame.gas = m.gas /\ e.frame.static = m.static
  /\ e.frame.create = m.create /\ (e.frame.runs => m.runs)

LEMMA CallPushes ==
  ASSUME NEW s \in States, NEW m \in MessageSet
  PROVE  CallsIn(s, m, Entered(s, m, snapshot(s), World(s)))
<1> DEFINE e == Entered(s, m, snapshot(s), World(s))
<1>1. snapshot(s) \in Snaps /\ World(s) \in Worlds
  BY SnapshotIs DEF Within, Worlds
<1>2. /\ Changed(s, e.st) /\ SameElse(s, e.st) /\ Wealth(e.st) = Wealth(s)
      /\ ~m.transfers \/ m.value = 0 \/ m.sender = m.to => Balances(e.st) = Balances(s)
      /\ Tidy(s) /\ (m.transfers => Peopled(s, m.sender)) => Tidy(e.st)
      /\ e.frame \in MessageFrame /\ e.frame.snap = snapshot(s)
      /\ e.frame.outer = snapshot(s) /\ e.frame.world = World(s)
      /\ e.frame.sender = m.sender /\ e.frame.to = m.to /\ e.frame.gas = m.gas
      /\ e.frame.static = m.static /\ e.frame.create = m.create
      /\ e.frame.doomed = m.doomed /\ (e.frame.runs => m.runs)
  BY <1>1, EnteredIs
<1> HIDE DEF e
<1>3. Later(s, s) /\ Later(s, e.st) /\ Aux(e.st) = Aux(s)
  BY <1>2, ChangedSelf, ChangedLater DEF Changed
<1>4. Pushed(s, s, s, e.st, e.frame)
  BY <1>2, <1>3 DEF Pushed
<1>5. ~m.transfers \/ m.value = 0 \/ m.sender = m.to => SameParts(s, e.st)
  BY <1>2 DEF SameParts
<1>6. CallsIn(s, m, e)
  BY <1>2, <1>4, <1>5 DEF CallsIn
<1> QED
  BY <1>6 DEF e

(* The states that create_contract passes through.                           *)
Counted(s, m) == IF m.sender = Sender THEN s ELSE increment_nonce(s, m.sender)

Cleared(s, addr) ==
  LET b == get_balance(s, addr) IN
  IF b = 0 THEN s ELSE set_code(set_nonce(set_balance(s, addr, b), addr, 0), addr, NoCode)

Born(s, addr) == set_nonce(s, addr, IF "spurious_dragon" \in s.rules THEN 1 ELSE 0)

LEMMA CountedIs ==
  ASSUME NEW s \in States, NEW m \in MessageSet
  PROVE  LET t == Counted(s, m) IN
         /\ Changed(s, t) /\ Balances(t) = Balances(s)
         /\ Codes(t) = Codes(s) /\ Storages(t) = Storages(s) /\ Wealth(t) = Wealth(s)
         /\ \A a \in Address : Nonces(s)[a] # 0 => Nonces(t)[a] # 0
         /\ \A a \in Address \ {m.sender} : Nonces(t)[a] = Nonces(s)[a]
<1> DEFINE t == Counted(s, m)
           w == increment_nonce(s, m.sender)
<1>1. m.sender \in Address /\ Nonces(s) \in [Address -> Nat]
  BY PartsTyped DEF MessageSet
<1>2. CASE m.sender = Sender
  <2>1. t = s
    BY <1>2 DEF Counted
  <2> QED
    BY <2>1, ChangedSelf
<1>3. CASE m.sender # Sender
  <2>1. t = w
    BY <1>3 DEF Counted
  <2>2. /\ Changed(s, w) /\ Nonces(w) = [Nonces(s) EXCEPT ![m.sender] = Nonces(s)[m.sender] + 1]
        /\ Balances(w) = Balances(s) /\ Codes(w) = Codes(s) /\ Storages(w) = Storages(s)
    BY <1>1, IncrementIs
  <2> HIDE DEF w, t
  <2>3. w \in States
    BY <2>2 DEF Changed
  <2>4. Wealth(w) = Wealth(s)
    BY <2>2, <2>3, WealthSame
  <2>5. /\ \A a \in Address : Nonces(s)[a] # 0 => Nonces(w)[a] # 0
        /\ \A a \in Address \ {m.sender} : Nonces(w)[a] = Nonces(s)[a]
    BY <1>1, <2>2
  <2> QED
    BY <2>1, <2>2, <2>4, <2>5 DEF t
<1> QED
  BY <1>2, <1>3

LEMMA ClearedIs ==
  ASSUME NEW s \in States, NEW addr \in Address
  PROVE  LET t == Cleared(s, addr) IN
         /\ Changed(s, t) /\ Balances(t) = Balances(s) /\ Storages(t) = Storages(s)
         /\ Wealth(t) = Wealth(s)
         /\ ~Peopled(s, addr) => SameElse(s, t)
<1> DEFINE b == get_balance(s, addr)
           o == set_balance(s, addr, b)
           p == set_nonce(o, addr, 0)
           q == set_code(p, addr, NoCode)
           t == Cleared(s, addr)
<1>1. CASE b = 0
  <2>1. t = s
    BY <1>1 DEF Cleared
  <2> QED
    BY <2>1, ChangedSelf DEF SameElse
<1>2. CASE b # 0
  <2>1. t = q
    BY <1>2 DEF Cleared
  <2>2. b \in Nat /\ b = Balances(s)[addr] /\ Balances(s) \in [Address -> Nat]
    BY PartsTyped DEF get_balance, Balances
  <2>3. /\ Changed(s, o) /\ Balances(o) = [Balances(s) EXCEPT ![addr] = b]
        /\ Nonces(o) = Nonces(s) /\ Codes(o) = Codes(s) /\ Storages(o) = Storages(s)
    BY <2>2, SetBalanceIs
  <2>4. o \in States
    BY <2>3 DEF Changed
  <2> HIDE DEF o, t
  <2>5. Balances(o) = Balances(s)
    BY <2>2, <2>3
  <2>6. /\ Changed(o, p) /\ Nonces(p) = [Nonces(o) EXCEPT ![addr] = 0]
        /\ Balances(p) = Balances(o) /\ Codes(p) = Codes(o) /\ Storages(p) = Storages(o)
    BY <2>4, SetNonceIs
  <2>7. p \in States
    BY <2>6 DEF Changed
  <2> HIDE DEF p
  <2>8. NoCode \in Code
    BY DEF Code
  <2>9. /\ Changed(p, q) /\ Codes(q) = [Codes(p) EXCEPT ![addr] = NoCode]
        /\ Nonces(q) = Nonces(p) /\ Balances(q) = Balances(p) /\ Storages(q) = Storages(p)
    BY <2>7, <2>8, SetCodeIs
  <2>10. q \in States
    BY <2>9 DEF Changed
  <2> HIDE DEF q
  <2>11. Changed(s, q)
    BY <2>3, <2>6, <2>9, ChangedOn
  <2>12. Balances(q) = Balances(s) /\ Storages(q) = Storages(s)
    BY <2>3, <2>5, <2>6, <2>9
  <2>13. Wealth(q) = Wealth(s)
    BY <2>10, <2>12, WealthSame
  <2>14. ASSUME ~Peopled(s, addr) PROVE SameElse(s, q)
    <3>1. Nonces(s) \in [Address -> Nat] /\ Codes(s) \in [Address -> Code]
      BY PartsTyped
    <3>2. Nonces(s)[addr] = 0 /\ Codes(s)[addr] = NoCode
      BY <2>14 DEF Peopled
    <3>3. Nonces(q) = Nonces(s) /\ Codes(q) = Codes(s)
      BY <2>3, <2>6, <2>9, <3>1, <3>2
    <3> QED
      BY <2>12, <3>3 DEF SameElse
  <2> QED
    BY <2>1, <2>11, <2>12, <2>13, <2>14 DEF t
<1> QED
  BY <1>1, <1>2

LEMMA BornIs ==
  ASSUME NEW s \in States, NEW addr \in Address
  PROVE  LET t == Born(s, addr) IN
         /\ Changed(s, t) /\ Wealth(t) = Wealth(s)
         /\ Balances(t) = Balances(s) /\ Codes(t) = Codes(s) /\ Storages(t) = Storages(s)
         /\ \A a \in Address \ {addr} : Nonces(t)[a] = Nonces(s)[a]
         /\ "spurious_dragon" \in s.rules => Nonces(t)[addr] = 1
<1> DEFINE v == IF "spurious_dragon" \in s.rules THEN 1 ELSE 0
           t == set_nonce(s, addr, v)
<1>1. v \in Nat /\ ("spurious_dragon" \in s.rules => v = 1)
  OBVIOUS
<1>2. Born(s, addr) = t
  BY DEF Born
<1> HIDE DEF v
<1>3. /\ Changed(s, t) /\ Nonces(t) = [Nonces(s) EXCEPT ![addr] = v]
      /\ Balances(t) = Balances(s) /\ Codes(t) = Codes(s) /\ Storages(t) = Storages(s)
  BY <1>1, SetNonceIs
<1> HIDE DEF t
<1>4. t \in States /\ Nonces(s) \in [Address -> Nat]
  BY <1>3, PartsTyped DEF Changed
<1>5. Wealth(t) = Wealth(s)
  BY <1>3, <1>4, WealthSame
<1> QED
  BY <1>1, <1>2, <1>3, <1>4, <1>5

LEMMA LivesOn ==
  ASSUME NEW r, NEW s, NEW t, Lives(r, s), Lives(s, t)
  PROVE  Lives(r, t)
BY DEF Lives

LEMMA LivesSame ==
  ASSUME NEW s, NEW t, t.rules = s.rules, Nonces(t) = Nonces(s), Codes(t) = Codes(s)
  PROVE  Lives(s, t)
BY DEF Lives, Peopled

(* A message that creates.                                                   *)
CreatesIn(s, m, e) ==
  /\ \E o, n :
       /\ Pushed(s, o, n, e.st, e.frame)
       /\ /\ "spurious_dragon" \in s.rules /\ Tidy(s) /\ Peopled(s, m.sender)
          /\ "metropolis" \notin s.rules /\ ~e.frame.doomed =>
               e.frame.to # m.sender /\ ~Peopled(s, e.frame.to)
          => PushedTidily(s, o, e.st, e.frame)
  /\ e.frame.gas = m.gas /\ e.frame.static = m.static /\ e.frame.create = TRUE
  /\ e.frame.sender = m.sender

LEMMA CreationPushes ==
  ASSUME NEW s \in States, NEW m \in MessageSet, ~m.doomed,
         NextAddress(s, m.sender) \in Address
  PROVE  CreatesIn(s, m, EnteredCreation(s, m))
<1> DEFINE addr == NextAddress(s, m.sender)
           placed == [m EXCEPT !.to = addr, !.create = TRUE]
           c == Counted(s, m)
           taken == /\ "metropolis" \in s.rules
                    /\ c.cache[addr].nonce # 0 \/ c.cache[addr].code # NoCode
           o == Cleared(c, addr)
           n == Born(o, addr)
           e == EnteredCreation(s, m)
           doomed == Frame([placed EXCEPT !.runs = FALSE, !.doomed = TRUE],
                           snapshot(c), snapshot(c), World(c))
           Fine(f) == /\ "spurious_dragon" \in s.rules /\ Tidy(s) /\ Peopled(s, m.sender)
                      /\ "metropolis" \notin s.rules /\ ~f.doomed =>
                           f.to # m.sender /\ ~Peopled(s, f.to)
<1>1. /\ m.sender \in Address /\ addr \in Address
      /\ m.gas \in Nat /\ m.value \in Nat /\ m.static \in BOOLEAN
  BY DEF MessageSet
<1>2. /\ placed \in MessageSet /\ placed.sender = m.sender /\ placed.to = addr
      /\ placed.gas = m.gas /\ placed.static = m.static /\ placed.create = TRUE
      /\ ~placed.doomed
  BY <1>1 DEF MessageSet
<1>3. /\ Changed(s, c) /\ Balances(c) = Balances(s)
      /\ Codes(c) = Codes(s) /\ Storages(c) = Storages(s) /\ Wealth(c) = Wealth(s)
      /\ \A a \in Address : Nonces(s)[a] # 0 => Nonces(c)[a] # 0
      /\ \A a \in Address \ {m.sender} : Nonces(c)[a] = Nonces(s)[a]
  BY CountedIs
<1>4. c \in States /\ c.rules = s.rules /\ Later(s, c) /\ Aux(c) = Aux(s)
  BY <1>3, ChangedLater DEF Changed
<1>5. e = IF taken THEN [st |-> c, frame |-> doomed]
          ELSE Entered(n, placed, snapshot(o), World(o))
  <2>1. ~taken => n.rules = n.rules
    OBVIOUS
  <2>2. o.rules = s.rules
    <3>1. Changed(c, o)
      BY <1>1, <1>4, ClearedIs
    <3> QED
      BY <1>4, <3>1 DEF Changed
  <2>3. n = set_nonce(o, addr, IF "spurious_dragon" \in s.rules THEN 1 ELSE 0)
    BY <2>2 DEF Born
  <2>4. o = LET b == get_balance(c, addr) IN
            IF b = 0 THEN c ELSE set_code(set_nonce(set_balance(c, addr, b), addr, 0), addr, NoCode)
    BY DEF Cleared
  <2>5. c = IF m.sender = Sender THEN s ELSE increment_nonce(s, m.sender)
    BY DEF Counted
  <2> HIDE DEF c, o, n
  <2> QED
    BY <2>3, <2>4, <2>5 DEF EnteredCreation
<1> HIDE DEF c
<1>6. Lives(s, c)
  BY <1>3, <1>4 DEF Lives, Peopled
<1>7. Tidy(s) => Tidy(c)
  <2> SUFFICES ASSUME Tidy(s) PROVE Tidy(c)
    OBVIOUS
  <2>1. ASSUME NEW a \in Address
        PROVE  Peopled(c, a) \/ ~Peopled(s, a)
    BY <1>3 DEF Peopled
  <2>2. ASSUME NEW a \in Address
        PROVE  Balances(c)[a] >= Balances(s)[a] /\ Storages(c)[a] = Storages(s)[a]
    BY <1>3, PartsTyped
  <2> QED
    BY <1>4, <2>1, <2>2, TidyKept
<1>8. CASE taken
  <2>1. e.st = c /\ e.frame = doomed
    BY <1>5, <1>8
  <2>2. Within(snapshot(c), c) /\ World(c) \in Worlds
    BY <1>4, SnapshotIs DEF Worlds
  <2>3. /\ doomed \in MessageFrame /\ doomed.outer = snapshot(c) /\ doomed.snap = snapshot(c)
        /\ doomed.world = World(c) /\ doomed.gas = m.gas /\ doomed.static = m.static
        /\ doomed.create = TRUE /\ doomed.runs = FALSE /\ doomed.sender = m.sender
    BY <1>2, <2>2 DEF Within, Frame, MessageFrame, MessageSet
  <2> HIDE DEF doomed, e
  <2>4. Later(c, c)
    BY <1>4, ChangedSelf
  <2>5. Pushed(s, c, c, c, doomed)
    BY <1>3, <1>4, <2>3, <2>4 DEF Pushed
  <2>6. ASSUME Tidy(s) PROVE PushedTidily(s, c, c, doomed)
    <3>1. Lives(c, c)
      BY DEF Lives
    <3> QED
      BY <1>6, <1>7, <2>3, <2>6, <3>1 DEF PushedTidily
  <2>7. \E p, q : Pushed(s, p, q, e.st, e.frame) /\ (Fine(e.frame) => PushedTidily(s, p, e.st, e.frame))
    BY <2>1, <2>5, <2>6
  <2>8. CreatesIn(s, m, e)
    BY <2>1, <2>3, <2>7 DEF CreatesIn
  <2> QED
    BY <2>8 DEF e
<1>9. CASE ~taken
  <2>1. /\ Changed(c, o) /\ Balances(o) = Balances(c) /\ Storages(o) = Storages(c)
        /\ Wealth(o) = Wealth(c) /\ (~Peopled(c, addr) => SameElse(c, o))
    BY <1>1, <1>4, ClearedIs
  <2>2. o \in States /\ o.rules = c.rules /\ Later(c, o) /\ Aux(o) = Aux(c)
    BY <2>1, ChangedLater DEF Changed
  <2> HIDE DEF addr, o
  <2>3. /\ Changed(o, n) /\ Wealth(n) = Wealth(o)
        /\ Balances(n) = Balances(o) /\ Codes(n) = Codes(o) /\ Storages(n) = Storages(o)
        /\ \A a \in Address \ {addr} : Nonces(n)[a] = Nonces(o)[a]
        /\ "spurious_dragon" \in o.rules => Nonces(n)[addr] = 1
    BY <1>1, <2>2, BornIs
  <2>4. n \in States /\ n.rules = o.rules /\ Later(o, n) /\ Aux(n) = Aux(o)
    BY <2>3, ChangedLater DEF Changed
  <2> HIDE DEF n, placed
  <2> DEFINE g == Entered(n, placed, snapshot(o), World(o))
  <2>5. snapshot(o) \in Snaps /\ World(o) \in Worlds
    BY <2>2, SnapshotIs DEF Worlds, Within
  <2>6. /\ Changed(n, g.st) /\ SameElse(n, g.st) /\ Wealth(g.st) = Wealth(n)
        /\ Tidy(n) /\ (placed.transfers => Peopled(n, placed.sender)) => Tidy(g.st)
        /\ g.frame \in MessageFrame /\ g.frame.snap = snapshot(n)
        /\ g.frame.outer = snapshot(o) /\ g.frame.world = World(o)
        /\ g.frame.sender = placed.sender /\ g.frame.to = placed.to /\ g.frame.gas = placed.gas
        /\ g.frame.static = placed.static /\ g.frame.create = placed.create
        /\ g.frame.doomed = placed.doomed
    BY <1>2, <2>4, <2>5, EnteredIs
  <2> HIDE DEF g
  <2>7. g.st \in States /\ g.st.rules = n.rules /\ Later(n, g.st) /\ Aux(g.st) = Aux(n)
    BY <2>6, ChangedLater DEF Changed
  <2>8. Pushed(s, o, n, g.st, g.frame)
    <3>1. Later(s, o)
      BY <1>4, <2>2, LaterOn
    <3>2. Aux(o) = Aux(s) /\ Aux(g.st) = Aux(s) /\ Wealth(o) = Wealth(s) /\ Wealth(g.st) = Wealth(s)
      BY <1>3, <1>4, <2>1, <2>2, <2>3, <2>4, <2>6, <2>7
    <3> QED
      BY <2>4, <2>6, <2>7, <3>1, <3>2 DEF Pushed
  <2>9. ASSUME Fine(g.frame), ~g.frame.doomed PROVE PushedTidily(s, o, g.st, g.frame)
    <3>1. "spurious_dragon" \in s.rules /\ Tidy(s) /\ Peopled(s, m.sender)
      BY <2>9
    <3>2. addr # m.sender /\ ~Peopled(c, addr)
      <4>1. CASE "metropolis" \in s.rules
        <5>1. ~Peopled(c, addr)
          BY <1>1, <1>9, <4>1 DEF Peopled, Nonces, Codes
        <5>2. Peopled(c, m.sender)
          BY <1>1, <1>6, <3>1 DEF Lives
        <5> QED
          BY <5>1, <5>2
      <4>2. CASE "metropolis" \notin s.rules
        <5>1. addr # m.sender /\ ~Peopled(s, addr)
          BY <1>2, <2>6, <2>9, <4>2
        <5> QED
          BY <1>1, <1>3, <5>1 DEF Peopled
      <4> QED
        BY <4>1, <4>2
    <3>3. ~Peopled(c, addr)
      BY <3>2
    <3>4. SameElse(c, o)
      BY <2>1, <3>3
    <3>5. Lives(s, o)
      <4>1. Lives(c, o)
        BY <2>2, <3>4, LivesSame DEF SameElse
      <4> QED
        BY <1>6, <4>1, LivesOn
    <3>6. Nonces(n)[addr] = 1 /\ Nonces(g.st)[addr] = 1
      BY <1>4, <2>2, <2>3, <2>6, <3>1 DEF SameElse
    <3>7. Lives(o, n)
      <4>1. ASSUME NEW a \in Address
            PROVE  (Nonces(o)[a] # 0 => Nonces(n)[a] # 0) /\ (Peopled(o, a) => Peopled(n, a))
        <5>1. CASE a = addr
          BY <3>6, <5>1 DEF Peopled
        <5>2. CASE a # addr
          BY <2>3, <5>2 DEF Peopled
        <5> QED
          BY <5>1, <5>2
      <4> QED
        BY <2>4, <4>1 DEF Lives
    <3>8. Lives(o, g.st)
      <4>1. Lives(n, g.st)
        BY <2>6, <2>7, LivesSame DEF SameElse
      <4> QED
        BY <3>7, <4>1, LivesOn
    <3>9. Tidy(o)
      <4>1. ASSUME NEW a \in Address
            PROVE  Peopled(o, a) \/ ~Peopled(c, a)
        BY <3>4 DEF Peopled, SameElse
      <4>2. ASSUME NEW a \in Address
            PROVE  Balances(o)[a] >= Balances(c)[a] /\ Storages(o)[a] = Storages(c)[a]
        BY <1>4, <2>1, PartsTyped
      <4>3. Tidy(c)
        BY <1>7, <3>1
      <4> QED
        BY <1>4, <2>2, <4>1, <4>2, <4>3, TidyKept
    <3>10. Tidy(n)
      <4>1. ASSUME NEW a \in Address
            PROVE  Peopled(n, a) \/ ~Peopled(o, a)
        BY <3>7 DEF Lives
      <4>2. ASSUME NEW a \in Address
            PROVE  Balances(n)[a] >= Balances(o)[a] /\ Storages(n)[a] = Storages(o)[a]
        BY <2>2, <2>3, PartsTyped
      <4> QED
        BY <2>2, <2>4, <3>9, <4>1, <4>2, TidyKept
    <3>11. Tidy(g.st)
      <4>1. Peopled(n, m.sender)
        BY <1>1, <3>1, <3>5, <3>7 DEF Lives
      <4> QED
        BY <1>2, <2>6, <3>10, <4>1
    <3>12. Nonces(g.st)[g.frame.to] # 0
      BY <1>2, <2>6, <3>6
    <3> QED
      BY <3>5, <3>8, <3>9, <3>11, <3>12 DEF PushedTidily
  <2>10. e.st = g.st /\ e.frame = g.frame
    BY <1>5, <1>9 DEF g
  <2>11. \E p, q : Pushed(s, p, q, e.st, e.frame) /\ (Fine(e.frame) => PushedTidily(s, p, e.st, e.frame))
    BY <1>2, <2>6, <2>8, <2>9, <2>10
  <2> HIDE DEF e
  <2>12. CreatesIn(s, m, e)
    BY <1>2, <2>6, <2>10, <2>11 DEF CreatesIn
  <2> QED
    BY <2>12 DEF e
<1> QED
  BY <1>8, <1>9

-------------------------------------------------------------------------------
(* What is nested.  A message began in the state that its outer snapshot     *)
(* reverts to, a block in the one that its root opens.                       *)
Stacks ==
  {fs \in Seq(BlockFrame \union MessageFrame) :
     /\ Len(fs) > 0 => fs[1] \in BlockFrame
     /\ \A i \in 2..Len(fs) : fs[i] \in MessageFrame}

Origin(s, f) == revert(s, f.outer)

Opening(s, f) == Restored(Opened(f.snap.root, s.rules), f.snap.aux)

(* Each snapshot can still be reverted to, in this order, and the world that *)
(* a failure has to leave is the one where it leads.                         *)
Nesting(s, fs) ==
  /\ \A i \in 2..Len(fs) :
       /\ Within(fs[i].snap, s) /\ Within(fs[i].outer, s) /\ fs[i].outer.L <= fs[i].snap.L
       /\ World(Origin(s, fs[i])) = fs[i].world /\ Coherent(Origin(s, fs[i]))
  /\ \A i, j \in 2..Len(fs) : i < j => fs[i].snap.L <= fs[j].outer.L

(* Frames that differ in what their messages have left to do only.           *)
Similar(fs, gs) ==
  /\ Len(gs) = Len(fs) /\ (Len(fs) > 0 => gs[1] = fs[1])
  /\ \A i \in 2..Len(fs) :
       /\ gs[i].snap = fs[i].snap /\ gs[i].outer = fs[i].outer /\ gs[i].world = fs[i].world
       /\ gs[i].static = fs[i].static /\ gs[i].create = fs[i].create /\ gs[i].to = fs[i].to
       /\ gs[i].runs => fs[i].runs

(* Whatever could be reverted to still leads to the same state.              *)
SameOrigins(s, fs, u, gs) == \A i \in 2..Len(fs) : Origin(u, gs[i]) = Origin(s, fs[i])

LEMMA OriginIs ==
  ASSUME NEW s \in States, NEW fs \in Stacks, Nesting(s, fs), NEW i \in 2..Len(fs)
  PROVE  /\ Origin(s, fs[i]) \in States /\ Origin(s, fs[i]).rules = s.rules
         /\ Coherent(Origin(s, fs[i]))
<1>1. Within(fs[i].outer, s) /\ Coherent(Origin(s, fs[i]))
  BY DEF Nesting
<1> QED
  BY <1>1, RevertIs DEF Origin

LEMMA NestingOn ==
  ASSUME NEW s \in States, NEW u, Later(s, u), NEW fs \in Stacks, NEW gs, Similar(fs, gs),
         Nesting(s, fs)
  PROVE  /\ Nesting(u, gs)
         /\ \A i \in 2..Len(fs) : Origin(u, gs[i]) = Origin(s, fs[i])
<1>1. u \in States /\ Follows(s, u)
  BY DEF Later
<1>2. ASSUME NEW i \in 2..Len(fs)
      PROVE  /\ Within(fs[i].snap, u) /\ Within(fs[i].outer, u)
             /\ Origin(u, fs[i]) = Origin(s, fs[i])
             /\ gs[i].snap = fs[i].snap /\ gs[i].outer = fs[i].outer /\ gs[i].world = fs[i].world
             /\ fs[i].outer.L <= fs[i].snap.L
             /\ World(Origin(s, fs[i])) = fs[i].world /\ Coherent(Origin(s, fs[i]))
  <2>1. Within(fs[i].snap, s) /\ Within(fs[i].outer, s)
    BY DEF Nesting
  <2>2. /\ Within(fs[i].snap, u) /\ Within(fs[i].outer, u)
        /\ revert(u, fs[i].outer) = revert(s, fs[i].outer)
    BY <1>1, <2>1, RevertKept
  <2> QED
    BY <2>2 DEF Nesting, Similar, Origin
<1>3. ASSUME NEW i \in 2..Len(fs) PROVE Origin(u, gs[i]) = Origin(s, fs[i])
  BY <1>2 DEF Origin
<1>4. Len(gs) = Len(fs)
  BY DEF Similar
<1>5. \A i, j \in 2..Len(fs) : i < j => gs[i].snap.L <= gs[j].outer.L
  BY <1>2 DEF Nesting
<1>6. Nesting(u, gs)
  BY <1>2, <1>3, <1>4, <1>5 DEF Nesting
<1> QED
  BY <1>3, <1>6

LEMMA StackAppended ==
  ASSUME NEW fs \in Stacks, fs # <<>>, NEW f \in MessageFrame
  PROVE  /\ Append(fs, f) \in Stacks /\ Len(Append(fs, f)) = Len(fs) + 1
         /\ Append(fs, f)[Len(fs) + 1] = f /\ Last(Append(fs, f)) = f
         /\ Front(Append(fs, f)) = fs
         /\ \A i \in 1..Len(fs) : Append(fs, f)[i] = fs[i]
<1>1. fs \in Seq(BlockFrame \union MessageFrame) /\ f \in BlockFrame \union MessageFrame
  BY DEF Stacks
<1>2. /\ Append(fs, f) \in Seq(BlockFrame \union MessageFrame)
      /\ Last(Append(fs, f)) = f /\ Front(Append(fs, f)) = fs
  BY <1>1, Appended
<1>3. /\ Len(fs) \in Nat \ {0} /\ Len(Append(fs, f)) = Len(fs) + 1
      /\ Append(fs, f)[Len(fs) + 1] = f
      /\ \A i \in 1..Len(fs) : Append(fs, f)[i] = fs[i]
  BY <1>1
<1> DEFINE gs == Append(fs, f)
<1>4. gs \in Stacks
  <2>1. gs \in Seq(BlockFrame \union MessageFrame) /\ Len(gs) = Len(fs) + 1
    BY <1>2, <1>3
  <2>2. gs[1] \in BlockFrame
    <3>1. fs[1] \in BlockFrame /\ gs[1] = fs[1]
      BY <1>3 DEF Stacks
    <3> QED
      BY <3>1
  <2>3. ASSUME NEW i \in 2..Len(fs) + 1 PROVE gs[i] \in MessageFrame
    <3>1. CASE i = Len(fs) + 1
      BY <1>3, <3>1
    <3>2. CASE i # Len(fs) + 1
      <4>1. i \in 2..Len(fs) /\ gs[i] = fs[i]
        BY <1>3, <3>2
      <4> QED
        BY <4>1 DEF Stacks
    <3> QED
      BY <3>1, <3>2
  <2> HIDE DEF gs
  <2> QED
    BY <2>1, <2>2, <2>3 DEF Stacks
<1> QED
  BY <1>2, <1>3, <1>4

LEMMA StackFront ==
  ASSUME NEW fs \in Stacks, Len(fs) > 1
  PROVE  /\ Len(fs) \in Nat /\ Front(fs) \in Stacks /\ Len(Front(fs)) = Len(fs) - 1
         /\ Front(fs) # <<>>
         /\ Last(fs) = fs[Len(fs)] /\ Last(fs) \in MessageFrame
         /\ \A i \in 1..Len(fs) - 1 : Front(fs)[i] = fs[i]
         /\ fs = Append(Front(fs), Last(fs))
<1>1. fs \in Seq(BlockFrame \union MessageFrame) /\ fs # <<>>
  BY DEF Stacks
<1>2. /\ Len(fs) \in Nat \ {0} /\ Front(fs) \in Seq(BlockFrame \union MessageFrame)
      /\ Len(Front(fs)) = Len(fs) - 1 /\ Last(fs) = fs[Len(fs)]
      /\ \A i \in 1..Len(fs) - 1 : Front(fs)[i] = fs[i]
      /\ fs = Append(Front(fs), Last(fs))
  BY <1>1, FrontIs
<1>3. Last(fs) \in MessageFrame
  BY <1>2 DEF Stacks
<1>4. Front(fs) \in Stacks
  BY <1>2 DEF Stacks
<1>5. Front(fs) # <<>>
  BY <1>2
<1> QED
  BY <1>2, <1>3, <1>4, <1>5

LEMMA NestingPush ==
  ASSUME NEW s \in States, Coherent(s), NEW fs \in Stacks, fs # <<>>, Nesting(s, fs),
         NEW o, NEW n, NEW u, NEW f, Pushed(s, o, n, u, f)
  PROVE  /\ Nesting(u, Append(fs, f)) /\ Origin(u, f) = o
         /\ \A i \in 2..Len(fs) : Origin(u, fs[i]) = Origin(s, fs[i])
<1> DEFINE gs == Append(fs, f)
           N == Len(fs)
<1>1. /\ Later(s, o) /\ Later(o, n) /\ Later(n, u)
      /\ f \in MessageFrame /\ f.outer = snapshot(o) /\ f.snap = snapshot(n) /\ f.world = World(o)
  BY DEF Pushed
<1>2. o \in States /\ n \in States /\ u \in States /\ Coherent(o) /\ Follows(o, n) /\ Follows(n, u)
  BY <1>1 DEF Later
<1>3. Later(o, u) /\ Later(s, u)
  BY <1>1, <1>2, LaterOn
<1>4. Nesting(u, fs) /\ \A i \in 2..Len(fs) : Origin(u, fs[i]) = Origin(s, fs[i])
  <2>1. Similar(fs, fs)
    BY DEF Similar
  <2> QED
    BY <1>3, <2>1, NestingOn
<1>5. Within(f.outer, u) /\ Origin(u, f) = o
  BY <1>1, <1>2, <1>3, RevertBack DEF Origin, Later
<1>6. Within(f.snap, u)
  BY <1>1, <1>2, RevertBack
<1>7. Nesting(o, fs)
  <2>1. Similar(fs, fs)
    BY DEF Similar
  <2> QED
    BY <1>1, <2>1, NestingOn
<1>8. /\ f.outer.L = Len(o.journal) /\ f.snap.L = Len(n.journal)
      /\ Len(o.journal) \in Nat /\ Len(n.journal) \in Nat /\ Len(o.journal) <= Len(n.journal)
  <2>1. snapshot(o).L = Len(o.journal) /\ snapshot(n).L = Len(n.journal)
    BY DEF snapshot
  <2>2. Len(o.journal) \in Nat /\ Len(n.journal) \in Nat
    <3>1. o.journal \in Seq(Change \union Record) /\ n.journal \in Seq(Change \union Record)
      BY <1>2 DEF States
    <3> QED
      BY ONLY <3>1
  <2> QED
    BY <1>1, <1>2, <2>1, <2>2 DEF Follows
<1>9. ASSUME NEW i \in 2..N PROVE fs[i].snap.L <= f.outer.L
  BY <1>7, <1>8 DEF Nesting, Within
<1>10. /\ gs \in Stacks /\ Len(gs) = N + 1 /\ gs[N + 1] = f /\ N \in Nat
       /\ \A i \in 1..N : gs[i] = fs[i]
  BY <1>1, StackAppended DEF Stacks
<1> HIDE DEF gs, N
<1>11. ASSUME NEW i \in 2..N + 1
       PROVE  /\ Within(gs[i].snap, u) /\ Within(gs[i].outer, u) /\ gs[i].outer.L <= gs[i].snap.L
              /\ World(Origin(u, gs[i])) = gs[i].world /\ Coherent(Origin(u, gs[i]))
  <2>1. CASE i = N + 1
    BY <1>1, <1>2, <1>5, <1>6, <1>8, <1>10, <2>1
  <2>2. CASE i # N + 1
    <3>1. i \in 2..N /\ gs[i] = fs[i]
      BY <1>10, <2>2
    <3> QED
      BY <1>4, <3>1 DEF Nesting, N
  <2> QED
    BY <2>1, <2>2
<1>12. ASSUME NEW i \in 2..N + 1, NEW j \in 2..N + 1, i < j PROVE gs[i].snap.L <= gs[j].outer.L
  <2>1. i \in 2..N /\ gs[i] = fs[i]
    BY <1>10, <1>12
  <2>2. CASE j = N + 1
    BY <1>9, <1>10, <2>1, <2>2
  <2>3. CASE j # N + 1
    <3>1. j \in 2..N /\ gs[j] = fs[j]
      BY <1>10, <2>3
    <3> QED
      BY <1>4, <1>12, <2>1, <3>1 DEF Nesting, N
  <2> QED
    BY <2>2, <2>3
<1>13. Nesting(u, gs)
  BY <1>10, <1>11, <1>12 DEF Nesting
<1> QED
  BY <1>4, <1>5, <1>13 DEF gs

LEMMA BaseReverted ==
  ASSUME NEW s \in States, Base(s), NEW snap, Within(snap, s)
  PROVE  Base(revert(s, snap))
<1> DEFINE r == revert(s, snap)
<1>1. snap.L \in Nat /\ snap.L <= Len(s.journal) /\ 0 \in Nat /\ 0 <= snap.L
  BY DEF Within, Snaps
<1>2. UndoneTo(s, snap.L) \in States /\ Len(UndoneTo(s, snap.L).journal) = snap.L
  BY <1>1, UndoneIs
<1>3. r \in States /\ Alike(r, UndoneTo(s, snap.L)) /\ r.trie = s.trie /\ Len(r.journal) = snap.L
  BY RevertIs
<1> HIDE DEF r
<1>4. Alike(UndoneTo(r, 0), UndoneTo(UndoneTo(s, snap.L), 0))
  BY <1>1, <1>2, <1>3, UndoneAlike
<1>5. UndoneTo(UndoneTo(s, snap.L), 0) = UndoneTo(s, 0)
  BY <1>1, UndoneTwice
<1>6. Base(r)
  BY <1>3, <1>4, <1>5 DEF Base, Alike
<1> QED
  BY <1>6 DEF r

LEMMA NestingPop ==
  ASSUME NEW s \in States, NEW fs \in Stacks, Len(fs) > 1, Nesting(s, fs)
  PROVE  Nesting(s, Front(fs))
<1> DEFINE gs == Front(fs)
<1>1. Len(gs) = Len(fs) - 1 /\ Len(fs) \in Nat /\ \A i \in 1..Len(fs) - 1 : gs[i] = fs[i]
  BY StackFront
<1> HIDE DEF gs
<1>2. \A i \in 2..Len(gs) : i \in 2..Len(fs) /\ gs[i] = fs[i]
  BY <1>1
<1>3. Nesting(s, gs)
  BY <1>2 DEF Nesting
<1> QED
  BY <1>3 DEF gs

(* A failure leads to where the message began.                               *)
LEMMA NestingFail ==
  ASSUME NEW s \in States, NEW fs \in Stacks, Len(fs) > 1, Nesting(s, fs), Base(s)
  PROVE  LET f == Last(fs)
             u == revert(revert(s, f.snap), f.outer)
         IN /\ u = Origin(s, f) /\ u \in States /\ Coherent(u) /\ Base(u) /\ u.rules = s.rules
            /\ World(u) = f.world
            /\ Nesting(u, Front(fs))
            /\ \A i \in 2..Len(fs) - 1 : Origin(u, Front(fs)[i]) = Origin(s, fs[i])
<1> DEFINE f == Last(fs)
           u == revert(s, f.outer)
           gs == Front(fs)
           N == Len(fs)
<1>1. /\ N \in Nat /\ gs \in Stacks /\ Len(gs) = N - 1 /\ f = fs[N]
      /\ \A i \in 1..N - 1 : gs[i] = fs[i]
  BY StackFront
<1>2. N \in 2..N
  BY <1>1
<1> HIDE DEF f, gs
<1>3. /\ Within(f.snap, s) /\ Within(f.outer, s) /\ f.outer.L <= f.snap.L
      /\ World(u) = f.world /\ Coherent(u)
  BY <1>1, <1>2 DEF Nesting, Origin
<1>4. revert(revert(s, f.snap), f.outer) = u
  BY <1>3, RevertTwice
<1>5. u \in States /\ u.rules = s.rules /\ Base(u)
  BY <1>3, RevertIs, BaseReverted
<1>6. ASSUME NEW i \in 2..N - 1
      PROVE  /\ Within(fs[i].snap, u) /\ Within(fs[i].outer, u)
             /\ revert(u, fs[i].outer) = revert(s, fs[i].outer)
             /\ fs[i].outer.L <= fs[i].snap.L
             /\ World(revert(s, fs[i].outer)) = fs[i].world
             /\ Coherent(revert(s, fs[i].outer))
  <2>1. i \in 2..N /\ i < N
    BY <1>1
  <2>2. /\ Within(fs[i].snap, s) /\ Within(fs[i].outer, s) /\ fs[i].outer.L <= fs[i].snap.L
        /\ fs[i].snap.L <= f.outer.L
        /\ World(revert(s, fs[i].outer)) = fs[i].world /\ Coherent(revert(s, fs[i].outer))
    BY <1>1, <1>2, <2>1 DEF Nesting, Origin
  <2>3. fs[i].outer.L \in Nat /\ fs[i].snap.L \in Nat /\ f.outer.L \in Nat
    BY <1>3, <2>2 DEF Within, Snaps
  <2>4. fs[i].outer.L <= f.outer.L
    BY <2>2, <2>3
  <2> HIDE DEF u
  <2>5. Within(fs[i].outer, u) /\ revert(u, fs[i].outer) = revert(s, fs[i].outer)
    BY <1>3, <2>2, <2>4, RevertTwice DEF u
  <2>6. Within(fs[i].snap, u)
    BY <1>3, <2>2, RevertTwice DEF u
  <2> QED
    BY <2>2, <2>5, <2>6
<1> HIDE DEF u, N
<1>7. \A i \in 2..N - 1 : gs[i] = fs[i]
  BY <1>1
<1>8. Nesting(u, gs)
  <2>1. \A i, j \in 2..N - 1 : i < j => gs[i].snap.L <= gs[j].outer.L
    <3>1. \A i \in 2..N - 1 : i \in 2..N
      BY <1>1
    <3> QED
      BY <1>7, <3>1 DEF Nesting, N
  <2> QED
    BY <1>1, <1>6, <1>7, <2>1 DEF Nesting, Origin
<1>9. \A i \in 2..N - 1 : Origin(u, gs[i]) = Origin(s, fs[i])
  BY <1>6, <1>7 DEF Origin
<1> QED
  BY <1>3, <1>4, <1>5, <1>8, <1>9 DEF u, f, gs, N, Origin

-------------------------------------------------------------------------------
(* The invariant of the state and the frames: what each can be reverted to,  *)
(* what accounts hold there, and what static calls leave alone.              *)
Underneath(s, fs) ==
  Len(fs) > 0 =>
    /\ fs[1].snap \in Snaps /\ fs[1].snap.L = 0
    /\ fs[1].world = World(Opening(s, fs[1]))

Conserved(s, owed, total, dead) ==
  /\ Wealth(s) + owed <= total
  /\ ~dead /\ s.suicides = <<>> => Wealth(s) + owed = total

ConservedBelow(s, fs, owed, total, dead) ==
  /\ \A i \in 2..Len(fs) : Conserved(Origin(s, fs[i]), owed, total, dead)
  /\ Len(fs) > 0 => Conserved(Opening(s, fs[1]), 0, fs[1].supply, dead)

Quiet(s, fs) ==
  /\ \A i \in 2..Len(fs) : fs[i].static =>
       /\ ~fs[i].create
       /\ SameParts(Origin(s, fs[i]), s) /\ Aux(s) = Aux(Origin(s, fs[i]))
  /\ \A i, j \in 2..Len(fs) : i < j /\ fs[i].static =>
       /\ fs[j].static
       /\ SameParts(Origin(s, fs[i]), Origin(s, fs[j]))
       /\ Aux(Origin(s, fs[j])) = Aux(Origin(s, fs[i]))

Reliable(s, fs, owed, total, dead) ==
  /\ s \in States /\ Coherent(s) /\ Base(s)
  /\ Nesting(s, fs) /\ Underneath(s, fs) /\ Quiet(s, fs)
  /\ Conserved(s, owed, total, dead) /\ ConservedBelow(s, fs, owed, total, dead)

(* Whatever is lost is lost to a suicide.                                    *)
Spends(s, u) ==
  /\ Wealth(u) <= Wealth(s)
  /\ u.suicides = <<>> => Wealth(u) = Wealth(s) /\ s.suicides = <<>>

Idle(s, u) == SameParts(s, u) /\ Aux(u) = Aux(s)

LEMMA IdleOn ==
  ASSUME NEW r, NEW s, NEW t, Idle(r, s), Idle(s, t)
  PROVE  Idle(r, t)
BY DEF Idle, SameParts, SameElse

LEMMA QuietIs ==
  ASSUME NEW s, NEW fs
  PROVE  Quiet(s, fs) <=>
         /\ \A i \in 2..Len(fs) : fs[i].static => ~fs[i].create /\ Idle(Origin(s, fs[i]), s)
         /\ \A i, j \in 2..Len(fs) : i < j /\ fs[i].static =>
              fs[j].static /\ Idle(Origin(s, fs[i]), Origin(s, fs[j]))
BY DEF Quiet, Idle

LEMMA ConservedOn ==
  ASSUME NEW s \in States, NEW u \in States, Spends(s, u),
         NEW owed \in Nat, NEW total \in Nat, NEW dead, Conserved(s, owed, total, dead)
  PROVE  Conserved(u, owed, total, dead)
<1>1. Wealth(s) \in Nat /\ Wealth(u) \in Nat
  BY WealthIs
<1> QED
  BY <1>1 DEF Conserved, Spends

(* The message goes on.                                                      *)
LEMMA ReliableOn ==
  ASSUME NEW s, NEW fs \in Stacks, NEW owed \in Nat, NEW total \in Nat, NEW dead,
         Reliable(s, fs, owed, total, dead),
         NEW u, Later(s, u), Spends(s, u), NEW gs, Similar(fs, gs),
         Len(fs) > 1 /\ Last(fs).static => Idle(s, u)
  PROVE  Reliable(u, gs, owed, total, dead) /\ SameOrigins(s, fs, u, gs)
<1> DEFINE N == Len(fs)
<1>1. /\ s \in States /\ Coherent(s) /\ Base(s)
      /\ Nesting(s, fs) /\ Underneath(s, fs) /\ Quiet(s, fs)
      /\ Conserved(s, owed, total, dead) /\ ConservedBelow(s, fs, owed, total, dead)
  BY DEF Reliable
<1>2. u \in States /\ Coherent(u) /\ Base(u) /\ u.rules = s.rules
  BY <1>1, BaseKept DEF Later
<1>3. Nesting(u, gs) /\ \A i \in 2..N : Origin(u, gs[i]) = Origin(s, fs[i])
  BY <1>1, NestingOn
<1>4. /\ Len(gs) = N /\ (N > 0 => gs[1] = fs[1])
      /\ \A i \in 2..N : gs[i].static = fs[i].static /\ gs[i].create = fs[i].create
  BY DEF Similar
<1>5. N \in Nat
  BY DEF Stacks
<1>6. N > 0 => Opening(u, gs[1]) = Opening(s, fs[1])
  BY <1>2, <1>4 DEF Opening
<1>7. Underneath(u, gs)
  BY <1>1, <1>4, <1>6 DEF Underneath
<1>8. Conserved(u, owed, total, dead)
  BY <1>1, <1>2, ConservedOn
<1>9. ConservedBelow(u, gs, owed, total, dead)
  BY <1>1, <1>3, <1>4, <1>6 DEF ConservedBelow
<1>10. Quiet(u, gs)
  <2>1. /\ \A i \in 2..N : fs[i].static => ~fs[i].create /\ Idle(Origin(s, fs[i]), s)
        /\ \A i, j \in 2..N : i < j /\ fs[i].static =>
             fs[j].static /\ Idle(Origin(s, fs[i]), Origin(s, fs[j]))
    BY <1>1, QuietIs
  <2>2. ASSUME NEW i \in 2..N, fs[i].static PROVE Idle(Origin(s, fs[i]), u)
    <3>1. N > 1 /\ N \in 2..N /\ Last(fs) = fs[N]
      BY <1>5, StackFront
    <3>2. fs[N].static
      BY <1>5, <2>1, <2>2, <3>1
    <3>3. Idle(s, u)
      BY <3>1, <3>2
    <3> QED
      BY <2>1, <2>2, <3>3, IdleOn
  <2>3. \A i \in 2..N : gs[i].static => ~gs[i].create /\ Idle(Origin(u, gs[i]), u)
    BY <1>3, <1>4, <2>1, <2>2
  <2>4. \A i, j \in 2..N : i < j /\ gs[i].static =>
          gs[j].static /\ Idle(Origin(u, gs[i]), Origin(u, gs[j]))
    BY <1>3, <1>4, <2>1
  <2> QED
    BY <1>4, <2>3, <2>4, QuietIs
<1>11. SameOrigins(s, fs, u, gs)
  BY <1>3 DEF SameOrigins
<1> QED
  BY <1>2, <1>3, <1>7, <1>8, <1>9, <1>10, <1>11 DEF Reliable

(* A message begins.                                                         *)
LEMMA ReliablePush ==
  ASSUME NEW s, NEW fs \in Stacks, fs # <<>>, NEW owed \in Nat, NEW total \in Nat, NEW dead,
         Reliable(s, fs, owed, total, dead),
         NEW o, NEW n, NEW u, NEW f, Pushed(s, o, n, u, f),
         f.static => ~f.create /\ Idle(o, u),
         Len(fs) > 1 /\ Last(fs).static => f.static /\ Idle(s, o)
  PROVE  /\ Reliable(u, Append(fs, f), owed, total, dead)
         /\ Origin(u, f) = o /\ SameOrigins(s, fs, u, fs)
<1> DEFINE N == Len(fs)
           gs == Append(fs, f)
<1>1. /\ s \in States /\ Coherent(s) /\ Base(s)
      /\ Nesting(s, fs) /\ Underneath(s, fs) /\ Quiet(s, fs)
      /\ Conserved(s, owed, total, dead) /\ ConservedBelow(s, fs, owed, total, dead)
  BY DEF Reliable
<1>2. /\ Later(s, o) /\ Later(o, n) /\ Later(n, u) /\ f \in MessageFrame
      /\ Aux(o) = Aux(s) /\ Aux(u) = Aux(s) /\ Wealth(o) = Wealth(s) /\ Wealth(u) = Wealth(s)
  BY DEF Pushed
<1>3. Later(s, u) /\ u \in States /\ o \in States
  <2>1. o \in States /\ n \in States /\ u \in States
    BY <1>2 DEF Later
  <2> QED
    BY <1>1, <1>2, <2>1, LaterOn
<1>4. Coherent(u) /\ Base(u) /\ u.rules = s.rules
  BY <1>1, <1>3, BaseKept DEF Later
<1>5. /\ Nesting(u, gs) /\ Origin(u, f) = o
      /\ \A i \in 2..N : Origin(u, fs[i]) = Origin(s, fs[i])
  BY <1>1, NestingPush
<1>6. /\ gs \in Stacks /\ Len(gs) = N + 1 /\ gs[N + 1] = f /\ N \in Nat \ {0}
      /\ \A i \in 1..N : gs[i] = fs[i]
  BY <1>2, StackAppended DEF Stacks
<1> HIDE DEF gs
<1>7. ASSUME NEW i \in 2..N + 1 PROVE i = N + 1 \/ (i \in 2..N /\ gs[i] = fs[i])
  BY <1>6
<1>8. gs[1] = fs[1] /\ Opening(u, gs[1]) = Opening(s, fs[1])
  BY <1>4, <1>6 DEF Opening
<1>9. Underneath(u, gs)
  BY <1>1, <1>6, <1>8 DEF Underneath
<1>10. Conserved(u, owed, total, dead) /\ Conserved(o, owed, total, dead)
  <2>1. u.suicides = s.suicides /\ o.suicides = s.suicides
    BY <1>2 DEF Aux
  <2> QED
    BY <1>1, <1>2, <2>1 DEF Conserved
<1>11. ConservedBelow(u, gs, owed, total, dead)
  <2>1. ASSUME NEW i \in 2..N + 1 PROVE Conserved(Origin(u, gs[i]), owed, total, dead)
    BY <1>1, <1>5, <1>6, <1>7, <1>10 DEF ConservedBelow
  <2>2. Conserved(Opening(u, gs[1]), 0, gs[1].supply, dead)
    BY <1>1, <1>6, <1>8 DEF ConservedBelow
  <2> QED
    BY <1>6, <2>1, <2>2 DEF ConservedBelow
<1>12. Quiet(u, gs)
  <2>1. /\ \A i \in 2..N : fs[i].static => ~fs[i].create /\ Idle(Origin(s, fs[i]), s)
        /\ \A i, j \in 2..N : i < j /\ fs[i].static =>
             fs[j].static /\ Idle(Origin(s, fs[i]), Origin(s, fs[j]))
    BY <1>1, QuietIs
  <2>2. ASSUME NEW i \in 2..N, fs[i].static
        PROVE  f.static /\ Idle(Origin(s, fs[i]), o) /\ Idle(Origin(s, fs[i]), u)
    <3>1. N > 1 /\ N \in 2..N /\ Last(fs) = fs[N]
      BY <1>6, StackFront
    <3>2. fs[N].static
      BY <1>6, <2>1, <2>2, <3>1
    <3>3. f.static /\ Idle(s, o)
      BY <3>1, <3>2
    <3> QED
      BY <2>1, <2>2, <3>3, IdleOn
  <2>3. ASSUME NEW i \in 2..N + 1, gs[i].static PROVE ~gs[i].create /\ Idle(Origin(u, gs[i]), u)
    <3>1. CASE i = N + 1
      BY <1>5, <1>6, <2>3, <3>1
    <3>2. CASE i \in 2..N /\ gs[i] = fs[i]
      BY <1>5, <2>1, <2>2, <2>3, <3>2
    <3> QED
      BY <1>7, <3>1, <3>2
  <2>4. ASSUME NEW i \in 2..N + 1, NEW j \in 2..N + 1, i < j, gs[i].static
        PROVE  gs[j].static /\ Idle(Origin(u, gs[i]), Origin(u, gs[j]))
    <3>1. i \in 2..N /\ gs[i] = fs[i]
      BY <1>6, <2>4
    <3>2. CASE j = N + 1
      BY <1>5, <1>6, <2>2, <2>4, <3>1, <3>2
    <3>3. CASE j \in 2..N /\ gs[j] = fs[j]
      BY <1>5, <2>1, <2>4, <3>1, <3>3
    <3> QED
      BY <1>7, <3>2, <3>3
  <2> QED
    BY <1>6, <2>3, <2>4, QuietIs
<1>13. Reliable(u, gs, owed, total, dead)
  BY <1>3, <1>4, <1>5, <1>9, <1>10, <1>11, <1>12 DEF Reliable
<1>14. SameOrigins(s, fs, u, fs)
  BY <1>5 DEF SameOrigins
<1> QED
  BY <1>5, <1>13, <1>14 DEF gs

(* A message returns.                                                        *)
LEMMA ReliablePop ==
  ASSUME NEW s, NEW fs \in Stacks, Len(fs) > 1, NEW owed, NEW total, NEW dead,
         Reliable(s, fs, owed, total, dead)
  PROVE  Reliable(s, Front(fs), owed, total, dead)
<1> DEFINE gs == Front(fs)
           N == Len(fs)
<1>1. /\ s \in States /\ Coherent(s) /\ Base(s)
      /\ Nesting(s, fs) /\ Underneath(s, fs) /\ Quiet(s, fs)
      /\ Conserved(s, owed, total, dead) /\ ConservedBelow(s, fs, owed, total, dead)
  BY DEF Reliable
<1>2. /\ N \in Nat /\ gs \in Stacks /\ Len(gs) = N - 1 /\ \A i \in 1..N - 1 : gs[i] = fs[i]
  BY StackFront
<1>3. Nesting(s, gs)
  BY <1>1, NestingPop
<1> HIDE DEF gs
<1>4. gs[1] = fs[1] /\ Len(gs) > 0 /\ \A i \in 2..Len(gs) : i \in 2..N /\ gs[i] = fs[i]
  BY <1>2
<1>5. Underneath(s, gs)
  BY <1>1, <1>4 DEF Underneath
<1>6. ConservedBelow(s, gs, owed, total, dead)
  BY <1>1, <1>4 DEF ConservedBelow
<1>7. Quiet(s, gs)
  BY <1>1, <1>4 DEF Quiet
<1>8. Reliable(s, gs, owed, total, dead)
  BY <1>1, <1>3, <1>5, <1>6, <1>7 DEF Reliable
<1> QED
  BY <1>8 DEF gs

(* A message fails.                                                          *)
LEMMA ReliableFail ==
  ASSUME NEW s, NEW fs \in Stacks, Len(fs) > 1, NEW owed, NEW total, NEW dead,
         Reliable(s, fs, owed, total, dead)
  PROVE  LET f == Last(fs)
             u == revert(revert(s, f.snap), f.outer)
         IN /\ Reliable(u, Front(fs), owed, total, dead)
            /\ World(u) = f.world /\ u.rules = s.rules /\ u = Origin(s, f)
            /\ \A i \in 2..Len(fs) - 1 : Origin(u, Front(fs)[i]) = Origin(s, fs[i])
<1> DEFINE gs == Front(fs)
           N == Len(fs)
           f == Last(fs)
           u == revert(revert(s, f.snap), f.outer)
<1>1. /\ s \in States /\ Coherent(s) /\ Base(s)
      /\ Nesting(s, fs) /\ Underneath(s, fs) /\ Quiet(s, fs)
      /\ Conserved(s, owed, total, dead) /\ ConservedBelow(s, fs, owed, total, dead)
  BY DEF Reliable
<1>2. /\ N \in Nat /\ gs \in Stacks /\ Len(gs) = N - 1 /\ \A i \in 1..N - 1 : gs[i] = fs[i]
      /\ f = fs[N]
  BY StackFront
<1>3. /\ u = Origin(s, f) /\ u \in States /\ Coherent(u) /\ Base(u) /\ u.rules = s.rules
      /\ World(u) = f.world
      /\ Nesting(u, gs)
      /\ \A i \in 2..N - 1 : Origin(u, gs[i]) = Origin(s, fs[i])
  BY <1>1, NestingFail
<1> HIDE DEF gs, f, u
<1>4. gs[1] = fs[1] /\ Len(gs) > 0 /\ N \in 2..N
      /\ \A i \in 2..Len(gs) : i \in 2..N /\ i \in 2..N - 1 /\ i < N /\ gs[i] = fs[i]
  BY <1>2
<1>5. Opening(u, gs[1]) = Opening(s, fs[1])
  BY <1>3, <1>4 DEF Opening
<1>6. Underneath(u, gs)
  BY <1>1, <1>2, <1>4, <1>5 DEF Underneath
<1>7. Conserved(u, owed, total, dead)
  BY <1>1, <1>2, <1>3, <1>4 DEF ConservedBelow
<1>8. ConservedBelow(u, gs, owed, total, dead)
  BY <1>1, <1>2, <1>3, <1>4, <1>5 DEF ConservedBelow
<1>9. Quiet(u, gs)
  <2>1. /\ \A i \in 2..N : fs[i].static => ~fs[i].create /\ Idle(Origin(s, fs[i]), s)
        /\ \A i, j \in 2..N : i < j /\ fs[i].static =>
             fs[j].static /\ Idle(Origin(s, fs[i]), Origin(s, fs[j]))
    BY <1>1, QuietIs
  <2>2. \A i \in 2..Len(gs) : gs[i].static => ~gs[i].create /\ Idle(Origin(u, gs[i]), u)
    BY <1>2, <1>3, <1>4, <2>1
  <2>3. \A i, j \in 2..Len(gs) : i < j /\ gs[i].static =>
          gs[j].static /\ Idle(Origin(u, gs[i]), Origin(u, gs[j]))
    BY <1>3, <1>4, <2>1
  <2> QED
    BY <2>2, <2>3, QuietIs
<1>10. Reliable(u, gs, owed, total, dead)
  BY <1>3, <1>6, <1>7, <1>8, <1>9 DEF Reliable
<1> QED
  BY <1>3, <1>10 DEF gs, f, u

(* Between transactions.                                                     *)
LEMMA ReliableBlock ==
  ASSUME NEW s, NEW fs \in Stacks, Len(fs) = 1, NEW owed, NEW total, NEW dead,
         Reliable(s, fs, owed, total, dead),
         NEW u \in States, u.rules = s.rules, Coherent(u), Base(u),
         NEW gs \in Stacks, Len(gs) = 1, gs[1].snap = fs[1].snap, gs[1].world = fs[1].world,
         gs[1].supply = fs[1].supply,
         NEW owed2, NEW total2, NEW dead2, dead => dead2, Conserved(u, owed2, total2, dead2)
  PROVE  Reliable(u, gs, owed2, total2, dead2)
<1>1. Underneath(s, fs) /\ ConservedBelow(s, fs, owed, total, dead)
  BY DEF Reliable
<1>2. Opening(u, gs[1]) = Opening(s, fs[1])
  BY DEF Opening
<1>3. Underneath(u, gs)
  BY <1>1, <1>2 DEF Underneath
<1>4. ~\E i \in 2..Len(gs) : TRUE
  OBVIOUS
<1>5. Nesting(u, gs) /\ Quiet(u, gs)
  BY <1>4 DEF Nesting, Quiet
<1>6. ConservedBelow(u, gs, owed2, total2, dead2)
  <2>1. Conserved(Opening(s, fs[1]), 0, fs[1].supply, dead)
    BY <1>1 DEF ConservedBelow
  <2>2. Conserved(Opening(u, gs[1]), 0, gs[1].supply, dead2)
    BY <1>2, <2>1 DEF Conserved
  <2> QED
    BY <1>4, <2>2 DEF ConservedBelow
<1> QED
  BY <1>3, <1>5, <1>6 DEF Reliable

-------------------------------------------------------------------------------
(* Gas.                                                                      *)
Gas(fs) == SumFunction([i \in DOMAIN fs |-> fs[i].gas])

LEMMA StackGas ==
  ASSUME NEW fs \in Stacks
  PROVE  /\ DOMAIN fs = 1..Len(fs) /\ Len(fs) \in Nat
         /\ \A i \in 1..Len(fs) : fs[i].gas \in Nat
         /\ Len(fs) > 0 => fs[1].gas = 0
<1>1. DOMAIN fs = 1..Len(fs) /\ Len(fs) \in Nat
  BY DEF Stacks
<1>2. Len(fs) > 0 => fs[1].gas = 0
  BY DEF Stacks, BlockFrame
<1>3. ASSUME NEW i \in 1..Len(fs) PROVE fs[i].gas \in Nat
  <2>1. CASE i = 1
    BY <1>1, <1>2, <2>1
  <2>2. CASE i # 1
    <3>1. i \in 2..Len(fs)
      BY <1>1, <2>2
    <3>2. fs[i] \in MessageFrame
      BY <3>1 DEF Stacks
    <3> QED
      BY <3>2 DEF MessageFrame
  <2> QED
    BY <2>1, <2>2
<1> QED
  BY <1>1, <1>2, <1>3

LEMMA GasIs ==
  ASSUME NEW fs \in Stacks
  PROVE  Gas(fs) \in Nat /\ (Len(fs) <= 1 => Gas(fs) = 0)
<1> DEFINE f == [i \in DOMAIN fs |-> fs[i].gas]
           S == 1..Len(fs)
<1>1. /\ DOMAIN fs = S /\ Len(fs) \in Nat /\ \A i \in S : fs[i].gas \in Nat
      /\ Len(fs) > 0 => fs[1].gas = 0
  BY StackGas
<1>2. IsFiniteSet(S)
  BY <1>1, FS_Interval
<1>3. DOMAIN f = S /\ \A i \in S : f[i] \in Nat
  BY <1>1
<1>4. Gas(fs) = SumFunctionOnSet(f, S)
  BY <1>3 DEF Gas, SumFunction
<1>5. Len(fs) > 0 => f[1] = 0
  BY <1>1
<1> HIDE DEF f
<1>6. SumFunctionOnSet(f, S) \in Nat
  BY <1>2, <1>3, SumIsNat
<1>7. ASSUME Len(fs) <= 1 PROVE SumFunctionOnSet(f, S) = 0
  <2>1. \A i \in S : f[i] \in Int
    BY <1>3
  <2>2. CASE S = {}
    BY <1>2, <2>1, <2>2, SumIs
  <2>3. CASE S # {}
    <3>1. Len(fs) = 1 /\ S = {1} /\ 1 \in S /\ S \ {1} = {}
      BY <1>1, <1>7, <2>3
    <3>2. SumFunctionOnSet(f, S) = f[1] + SumFunctionOnSet(f, S \ {1})
      BY <1>2, <2>1, <3>1, SumIs
    <3>3. SumFunctionOnSet(f, {}) = 0
      BY FS_EmptySet, SumIs
    <3> QED
      BY <1>5, <3>1, <3>2, <3>3
  <2> QED
    BY <2>2, <2>3
<1> QED
  BY <1>4, <1>6, <1>7

LEMMA GasAppended ==
  ASSUME NEW fs \in Stacks, fs # <<>>, NEW f \in MessageFrame
  PROVE  Gas(Append(fs, f)) = Gas(fs) + f.gas
<1> DEFINE gs == Append(fs, f)
           n == Len(fs)
           d == [i \in DOMAIN gs |-> gs[i].gas]
           e == [i \in DOMAIN fs |-> fs[i].gas]
<1>1. /\ gs \in Stacks /\ Len(gs) = n + 1 /\ gs[n + 1] = f
      /\ \A i \in 1..n : gs[i] = fs[i]
  BY StackAppended
<1> HIDE DEF gs
<1>2. /\ DOMAIN fs = 1..n /\ n \in Nat /\ \A i \in 1..n : fs[i].gas \in Nat
      /\ DOMAIN gs = 1..n + 1 /\ \A i \in 1..n + 1 : gs[i].gas \in Nat
  BY <1>1, StackGas
<1>3. d \in [1..n + 1 -> Int] /\ e \in [1..n -> Int]
  BY <1>2
<1>4. d[n + 1] = f.gas /\ \A i \in 1..n : e[i] = d[i]
  BY <1>1, <1>2
<1>5. Gas(gs) = SumFunction(d) /\ Gas(fs) = SumFunction(e)
  BY DEF Gas
<1> HIDE DEF d, e
<1>6. SumFunction(d) = SumFunction(e) + d[n + 1]
  BY <1>2, <1>3, <1>4, SumAppended
<1> QED
  BY <1>4, <1>5, <1>6 DEF gs

(* The innermost message with that much gas left.                            *)
Continued(fs, gas, runs) == Append(Front(fs), [Last(fs) EXCEPT !.gas = gas, !.runs = runs])

LEMMA ContinuedIs ==
  ASSUME NEW fs \in Stacks, Len(fs) > 1, NEW gas \in Nat, NEW runs \in BOOLEAN,
         runs => Last(fs).runs
  PROVE  LET gs == Continued(fs, gas, runs) IN
         /\ gs \in Stacks /\ Len(gs) = Len(fs) /\ Similar(fs, gs)
         /\ Gas(gs) + Last(fs).gas = Gas(fs) + gas
         /\ Last(gs).static = Last(fs).static /\ Last(gs).gas = gas
<1> DEFINE f == Last(fs)
           g == [f EXCEPT !.gas = gas, !.runs = runs]
           ls == Front(fs)
           gs == Append(ls, g)
           N == Len(fs)
<1>1. /\ N \in Nat /\ ls \in Stacks /\ Len(ls) = N - 1 /\ ls # <<>>
      /\ f = fs[N] /\ f \in MessageFrame
      /\ \A i \in 1..N - 1 : ls[i] = fs[i]
      /\ fs = Append(ls, f)
  BY StackFront
<1>2. gs = Continued(fs, gas, runs)
  BY DEF Continued
<1> HIDE DEF f, ls
<1>3. /\ g \in MessageFrame /\ g.gas = gas /\ g.runs = runs /\ g.snap = f.snap
      /\ g.outer = f.outer /\ g.world = f.world /\ g.static = f.static
      /\ g.create = f.create /\ g.to = f.to
  BY <1>1 DEF MessageFrame
<1> HIDE DEF g
<1>4. /\ gs \in Stacks /\ Len(gs) = N /\ gs[N] = g /\ Last(gs) = g
      /\ \A i \in 1..N - 1 : gs[i] = ls[i]
  BY <1>1, <1>3, StackAppended
<1>5. Gas(gs) = Gas(ls) + gas /\ Gas(fs) = Gas(ls) + f.gas
  BY <1>1, <1>3, GasAppended
<1>6. Gas(gs) + f.gas = Gas(fs) + gas
  <2>1. Gas(ls) \in Nat /\ f.gas \in Nat
    BY <1>1, GasIs DEF MessageFrame
  <2> QED
    BY <1>5, <2>1
<1> HIDE DEF gs
<1>7. Similar(fs, gs)
  <2>1. gs[1] = fs[1]
    BY <1>1, <1>4
  <2>2. ASSUME NEW i \in 2..N
        PROVE  /\ gs[i].snap = fs[i].snap /\ gs[i].outer = fs[i].outer /\ gs[i].world = fs[i].world
               /\ gs[i].static = fs[i].static /\ gs[i].create = fs[i].create /\ gs[i].to = fs[i].to
               /\ gs[i].runs => fs[i].runs
    <3>1. CASE i = N
      BY <1>1, <1>3, <1>4, <3>1 DEF f
    <3>2. CASE i # N
      <4>1. gs[i] = fs[i]
        BY <1>1, <1>4, <3>2
      <4> QED
        BY <4>1
    <3> QED
      BY <3>1, <3>2
  <2> QED
    BY <1>4, <2>1, <2>2 DEF Similar
<1> QED
  BY <1>2, <1>3, <1>4, <1>6, <1>7 DEF f

-------------------------------------------------------------------------------
(* The inductive invariant.                                                  *)
Phases ==
  [phase : {"none", "running", "done"}, startgas : Nat, res : {0, 1}, gas : Nat, blocks : Nat]

Owed(t) == IF t.phase = "none" THEN 0 ELSE t.startgas

Shape(fs, t) ==
  /\ t.phase = "running" <=> Len(fs) > 1
  /\ t.phase = "done" => Len(fs) = 1
  /\ Len(fs) > 0 /\ fs[1].runs => t.phase = "none"

(* Between transactions nobody is about to be deleted, nor was at the start  *)
(* of the block.                                                             *)
NoSuicides(s, fs, t) ==
  /\ t.phase = "none" => s.suicides = <<>>
  /\ Len(fs) > 0 => fs[1].snap.aux.suicides = <<>>

Left(fs, t) == Gas(fs) + (IF t.phase = "done" THEN t.gas ELSE 0)

Inv ==
  /\ frames \in Stacks /\ tx \in Phases /\ supply \in Nat /\ deaths \in BOOLEAN
  /\ Shape(frames, tx) /\ NoSuicides(st, frames, tx)
  /\ frames = <<>> /\ tx.blocks < MaxBlocks => st.journal = <<>>
  /\ Reliable(st, frames, Owed(tx), supply, deaths)
  /\ tx.phase # "none" => Left(frames, tx) <= tx.startgas

LEMMA LeftIs == MessagesGas = Left(frames, tx)
BY DEF MessagesGas, Left, Gas

(* The message that runs, and an account of its own.                         *)
Settled(f, s) == f.runs => Nonces(s)[f.to] # 0 \/ (~f.create /\ Codes(s)[f.to] # NoCode)

(* A step of the innermost message.                                          *)
Continues ==
  /\ Later(st, st') /\ Spends(st, st') /\ (Top.static => Idle(st, st'))
  /\ "spurious_dragon" \in st.rules /\ Tidy(st) /\ Settled(Top, st) =>
       Lives(st, st') /\ Tidy(st')
  /\ \E gas \in 0..Top.gas, runs \in BOOLEAN :
       (runs => Top.runs) /\ frames' = Continued(frames, gas, runs)
  /\ UNCHANGED <<tx, supply, deaths>>

(* A message that it sends.                                                  *)
Nests ==
  /\ \E o, n, f :
       /\ Pushed(st, o, n, st', f)
       /\ f.static => ~f.create /\ Idle(o, st')
       /\ Top.static => f.static /\ Idle(st, o)
       /\ /\ "spurious_dragon" \in st.rules /\ Tidy(st) /\ Settled(Top, st)
          /\ "metropolis" \notin st.rules /\ f.create /\ ~f.doomed =>
               f.to # f.sender /\ ~Peopled(st, f.to)
          => PushedTidily(st, o, st', f)
       /\ \E gas \in Nat :
            gas + f.gas <= Top.gas /\ frames' = Append(Continued(frames, gas, Top.runs), f)
  /\ UNCHANGED <<tx, supply, deaths>>

LEMMA TopIs ==
  ASSUME Inv, Len(frames) > 1
  PROVE  /\ Top \in MessageFrame /\ Top = Last(frames) /\ Top.gas \in Nat
         /\ st \in States /\ tx.phase = "running" /\ Owed(tx) \in Nat /\ Len(frames) \in Nat
         /\ Left(frames, tx) = Gas(frames) /\ Gas(frames) \in Nat
         /\ frames # <<>> /\ frames[1].runs = FALSE
<1>1. frames \in Stacks /\ tx \in Phases /\ Shape(frames, tx)
  BY DEF Inv
<1>2. Last(frames) \in MessageFrame /\ Len(frames) \in Nat
  BY <1>1, StackFront
<1>3. Top = Last(frames) /\ Top.gas \in Nat
  BY <1>2 DEF Top, MessageFrame
<1>4. tx.phase = "running" /\ Owed(tx) \in Nat
  BY <1>1 DEF Shape, Owed, Phases
<1>5. Gas(frames) \in Nat
  BY <1>1, GasIs
<1>6. Left(frames, tx) = Gas(frames)
  BY <1>4, <1>5 DEF Left
<1>7. frames[1].runs = FALSE
  <2>1. frames[1] \in BlockFrame
    BY <1>1, <1>2 DEF Stacks
  <2> QED
    BY <1>1, <1>2, <1>4, <2>1 DEF Shape, BlockFrame
<1>8. st \in States
  BY DEF Inv, Reliable
<1>9. frames # <<>>
  BY <1>1 DEF Stacks
<1> QED
  BY <1>2, <1>3, <1>4, <1>5, <1>6, <1>7, <1>8, <1>9

LEMMA ContinuesInv ==
  ASSUME Inv, Len(frames) > 1, Continues
  PROVE  Inv' /\ Left(frames', tx') <= Left(frames, tx)
<1>1. /\ Top \in MessageFrame /\ Top = Last(frames) /\ Top.gas \in Nat
      /\ st \in States /\ tx.phase = "running" /\ Owed(tx) \in Nat /\ Len(frames) \in Nat
      /\ Left(frames, tx) = Gas(frames) /\ Gas(frames) \in Nat
      /\ frames # <<>> /\ frames[1].runs = FALSE
  BY TopIs
<1>2. PICK gas \in 0..Top.gas, runs \in BOOLEAN :
        (runs => Top.runs) /\ frames' = Continued(frames, gas, runs)
  BY DEF Continues
<1>3. /\ frames \in Stacks /\ tx \in Phases /\ supply \in Nat /\ deaths \in BOOLEAN
      /\ Shape(frames, tx) /\ NoSuicides(st, frames, tx) /\ Reliable(st, frames, Owed(tx), supply, deaths)
      /\ Left(frames, tx) <= tx.startgas
  BY <1>1 DEF Inv
<1>4. gas \in Nat /\ gas <= Top.gas
  BY <1>1
<1>5. /\ frames' \in Stacks /\ Len(frames') = Len(frames) /\ Similar(frames, frames')
      /\ Gas(frames') + Top.gas = Gas(frames) + gas
  <2> DEFINE gs == Continued(frames, gas, runs)
  <2>1. runs => Last(frames).runs
    BY <1>1, <1>2
  <2>2. /\ gs \in Stacks /\ Len(gs) = Len(frames) /\ Similar(frames, gs)
        /\ Gas(gs) + Last(frames).gas = Gas(frames) + gas
    BY <1>3, <1>4, <2>1, ContinuedIs
  <2> QED
    BY <1>1, <1>2, <2>2
<1>6. Gas(frames') \in Nat
  BY <1>5, GasIs
<1>7. tx' = tx /\ supply' = supply /\ deaths' = deaths
  BY DEF Continues
<1>8. Left(frames', tx') = Gas(frames') /\ Gas(frames') <= Gas(frames)
  BY <1>1, <1>4, <1>5, <1>6, <1>7 DEF Left
<1>9. Reliable(st', frames', Owed(tx), supply, deaths)
  <2>1. Later(st, st') /\ Spends(st, st') /\ (Last(frames).static => Idle(st, st'))
    BY <1>1 DEF Continues
  <2> QED
    BY <1>1, <1>3, <1>5, <2>1, ReliableOn
<1>10. Shape(frames', tx') /\ NoSuicides(st', frames', tx')
  <2>1. frames'[1] = frames[1]
    BY <1>1, <1>5 DEF Similar
  <2> QED
    BY <1>1, <1>3, <1>5, <1>7, <2>1 DEF Shape, NoSuicides
<1>11. frames' # <<>>
  BY <1>1, <1>5
<1>12. Left(frames', tx') <= tx'.startgas
  <2>1. tx.startgas \in Nat
    BY <1>3 DEF Phases
  <2> QED
    BY <1>1, <1>3, <1>6, <1>7, <1>8, <2>1
<1> QED
  BY <1>1, <1>3, <1>5, <1>7, <1>8, <1>9, <1>10, <1>11, <1>12 DEF Inv

LEMMA NestsInv ==
  ASSUME Inv, Len(frames) > 1, Nests
  PROVE  Inv' /\ Left(frames', tx') <= Left(frames, tx)
<1>1. /\ Top \in MessageFrame /\ Top = Last(frames) /\ Top.gas \in Nat /\ Top.runs \in BOOLEAN
      /\ st \in States /\ tx.phase = "running" /\ Owed(tx) \in Nat /\ Len(frames) \in Nat
      /\ Left(frames, tx) = Gas(frames) /\ Gas(frames) \in Nat
      /\ frames # <<>> /\ frames[1].runs = FALSE
  BY TopIs DEF MessageFrame
<1>2. PICK o, n, f :
        /\ Pushed(st, o, n, st', f)
        /\ f.static => ~f.create /\ Idle(o, st')
        /\ Top.static => f.static /\ Idle(st, o)
        /\ \E gas \in Nat :
             gas + f.gas <= Top.gas /\ frames' = Append(Continued(frames, gas, Top.runs), f)
  BY DEF Nests
<1>3. PICK gas \in Nat :
        gas + f.gas <= Top.gas /\ frames' = Append(Continued(frames, gas, Top.runs), f)
  BY <1>2
<1>4. /\ frames \in Stacks /\ tx \in Phases /\ supply \in Nat /\ deaths \in BOOLEAN
      /\ Shape(frames, tx) /\ NoSuicides(st, frames, tx) /\ Reliable(st, frames, Owed(tx), supply, deaths)
      /\ Left(frames, tx) <= tx.startgas
  BY <1>1 DEF Inv
<1> DEFINE gs == Continued(frames, gas, Top.runs)
<1>5. /\ gs \in Stacks /\ Len(gs) = Len(frames) /\ Similar(frames, gs)
      /\ Gas(gs) + Top.gas = Gas(frames) + gas /\ Last(gs).static = Top.static
  <2>1. frames \in Stacks /\ Len(frames) > 1
    BY <1>4
  <2>2. Top.runs \in BOOLEAN /\ (Top.runs => Last(frames).runs) /\ Top = Last(frames)
    BY <1>1
  <2>3. /\ gs \in Stacks /\ Len(gs) = Len(frames) /\ Similar(frames, gs)
        /\ Gas(gs) + Last(frames).gas = Gas(frames) + gas
        /\ Last(gs).static = Last(frames).static
    <3> DEFINE r == Top.runs
    <3>1. r \in BOOLEAN /\ (r => Last(frames).runs) /\ gs = Continued(frames, gas, r)
      BY <2>2
    <3> HIDE DEF gs, r
    <3> QED
      BY ONLY <1>3, <2>1, <3>1, ContinuedIs, Zenon
  <2> QED
    BY <2>2, <2>3
<1> HIDE DEF gs
<1>6. gs # <<>> /\ Len(gs) > 1
  BY <1>1, <1>5
<1>7. Reliable(st, gs, Owed(tx), supply, deaths)
  <2>1. Later(st, st) /\ Spends(st, st) /\ Idle(st, st)
    <3>1. Wealth(st) \in Nat
      BY <1>1, WealthIs
    <3> QED
      BY <1>1, <3>1, ChangedSelf DEF Spends, Idle, SameParts, SameElse
  <2> QED
    BY <1>1, <1>4, <1>5, <2>1, ReliableOn
<1>8. f \in MessageFrame /\ f.gas \in Nat
  BY <1>2 DEF Pushed, MessageFrame
<1>9. frames' = Append(gs, f)
  BY <1>3 DEF gs
<1>10. Reliable(st', frames', Owed(tx), supply, deaths)
  BY <1>1, <1>2, <1>4, <1>5, <1>6, <1>7, <1>9, ReliablePush
<1>11. /\ frames' \in Stacks /\ Len(frames') = Len(frames) + 1
       /\ frames'[1] = gs[1]
  BY <1>1, <1>5, <1>6, <1>8, <1>9, StackAppended
<1>12. Gas(frames') = Gas(gs) + f.gas /\ Gas(gs) \in Nat
  BY <1>5, <1>6, <1>8, <1>9, GasAppended, GasIs
<1>13. tx' = tx /\ supply' = supply /\ deaths' = deaths
  BY DEF Nests
<1>14. Gas(frames') \in Nat /\ Gas(frames') <= Gas(frames)
  BY <1>1, <1>3, <1>5, <1>8, <1>12
<1>15. Left(frames', tx') = Gas(frames')
  BY <1>1, <1>13, <1>14 DEF Left
<1>16. Shape(frames', tx') /\ NoSuicides(st', frames', tx')
  <2>1. frames'[1] = frames[1]
    BY <1>1, <1>5, <1>11 DEF Similar
  <2> QED
    BY <1>1, <1>4, <1>11, <1>13, <2>1 DEF Shape, NoSuicides
<1>17. frames' # <<>>
  BY <1>1, <1>11
<1>18. Left(frames', tx') <= tx'.startgas
  <2>1. tx.startgas \in Nat
    BY <1>4 DEF Phases
  <2> QED
    BY <1>1, <1>4, <1>13, <1>14, <1>15, <2>1
<1> QED
  BY <1>1, <1>4, <1>10, <1>11, <1>13, <1>14, <1>15, <1>16, <1>17, <1>18 DEF Inv

(* The innermost message has ended, in s.                                    *)
LEMMA DeliveredInv ==
  ASSUME Inv, Len(frames) > 1,
         NEW s, Reliable(s, Front(frames), Owed(tx), supply, deaths),
         NEW res \in {0, 1}, NEW gas \in 0..Top.gas, Delivered(s, res, gas)
  PROVE  Inv' /\ Left(frames', tx') <= Left(frames, tx)
<1>1. /\ Top \in MessageFrame /\ Top = Last(frames) /\ Top.gas \in Nat
      /\ st \in States /\ tx.phase = "running" /\ Owed(tx) \in Nat /\ Len(frames) \in Nat
      /\ Left(frames, tx) = Gas(frames) /\ Gas(frames) \in Nat
      /\ frames # <<>> /\ frames[1].runs = FALSE
  BY TopIs
<1>2. /\ frames \in Stacks /\ tx \in Phases /\ supply \in Nat /\ deaths \in BOOLEAN
      /\ Shape(frames, tx) /\ NoSuicides(st, frames, tx) /\ Left(frames, tx) <= tx.startgas /\ tx.startgas \in Nat
  BY <1>1 DEF Inv, Phases
<1> DEFINE ls == Front(frames)
           N == Len(frames)
<1>3. /\ ls \in Stacks /\ Len(ls) = N - 1 /\ ls # <<>>
      /\ \A i \in 1..N - 1 : ls[i] = frames[i]
      /\ frames = Append(ls, Top)
  BY <1>1, <1>2, StackFront
<1> HIDE DEF ls
<1>4. Gas(frames) = Gas(ls) + Top.gas /\ Gas(ls) \in Nat /\ (Len(ls) <= 1 => Gas(ls) = 0)
  BY <1>1, <1>3, GasAppended, GasIs
<1>5. Reliable(s, ls, Owed(tx), supply, deaths)
  BY DEF ls
<1>6. st' = s /\ supply' = supply /\ deaths' = deaths
  BY DEF Delivered
<1>7. gas \in Nat /\ gas <= Top.gas
  BY <1>1
<1>8. CASE N = 2
  <2>1. frames' = ls /\ tx' = [tx EXCEPT !.phase = "done", !.res = res, !.gas = gas]
    BY <1>8 DEF Delivered, ls
  <2>2. /\ tx' \in Phases /\ tx'.phase = "done" /\ tx'.startgas = tx.startgas /\ tx'.gas = gas
    BY <1>2, <1>7, <2>1 DEF Phases
  <2>3. Owed(tx') = Owed(tx)
    BY <1>1, <2>2 DEF Owed
  <2>4. Left(frames', tx') = gas
    BY <1>3, <1>4, <1>7, <1>8, <2>1, <2>2 DEF Left
  <2>5. gas <= Gas(frames)
    BY <1>1, <1>4, <1>7
  <2>6. Shape(frames', tx') /\ NoSuicides(st', frames', tx')
    <3>1. ls[1] = frames[1] /\ Len(ls) = 1
      BY <1>3, <1>8
    <3> QED
      BY <1>1, <1>2, <2>1, <2>2, <3>1 DEF Shape, NoSuicides
  <2>7. gas <= tx.startgas
    BY <1>1, <1>2, <1>7, <2>5
  <2>8. frames' # <<>>
    BY <1>3, <2>1
  <2> QED
    BY <1>1, <1>2, <1>3, <1>5, <1>6, <2>1, <2>2, <2>3, <2>4, <2>5, <2>6, <2>7, <2>8 DEF Inv
<1>9. CASE N # 2
  <2> DEFINE c == frames[N - 1]
             more == c.gas + gas
             gs == Continued(ls, more, c.runs)
  <2>1. N > 2 /\ N - 1 \in 1..N - 1 /\ Len(ls) > 1
    BY <1>1, <1>3, <1>9
  <2>2. Last(ls) = c /\ c \in MessageFrame
    BY <1>3, <2>1, StackFront
  <2>3. c.gas \in Nat /\ more \in Nat /\ c.runs \in BOOLEAN
    BY <1>7, <2>2 DEF MessageFrame
  <2>4. frames' = gs /\ tx' = tx
    <3>1. frames' = Append(Front(ls), [c EXCEPT !.gas = more]) /\ tx' = tx
      BY <1>9, <2>3 DEF Delivered, ls
    <3>2. [c EXCEPT !.gas = more] = [c EXCEPT !.gas = more, !.runs = c.runs]
      BY <2>2 DEF MessageFrame
    <3> QED
      BY <2>2, <3>1, <3>2 DEF Continued
  <2> HIDE DEF c, more
  <2>5. /\ gs \in Stacks /\ Len(gs) = Len(ls) /\ Similar(ls, gs)
        /\ Gas(gs) + Last(ls).gas = Gas(ls) + more
    <3>1. ls \in Stacks /\ Len(ls) > 1 /\ more \in Nat /\ c.runs \in BOOLEAN
          /\ (c.runs => Last(ls).runs)
      BY <1>3, <2>1, <2>2, <2>3
    <3> QED
      BY <3>1, ContinuedIs
  <2> HIDE DEF gs
  <2>6. Gas(gs) \in Nat
    BY <2>5, GasIs
  <2>7. Gas(gs) <= Gas(frames)
    <3>1. Gas(gs) + c.gas = Gas(ls) + (c.gas + gas)
      BY <2>2, <2>5 DEF more
    <3> QED
      BY <1>1, <1>4, <1>7, <2>3, <2>6, <3>1
  <2>8. Reliable(s, gs, Owed(tx), supply, deaths)
    <3>1. s \in States
      BY <1>5 DEF Reliable
    <3>2. Later(s, s) /\ Spends(s, s) /\ Idle(s, s)
      <4>1. Wealth(s) \in Nat
        BY <3>1, WealthIs
      <4> QED
        BY <3>1, <4>1, ChangedSelf DEF Spends, Idle, SameParts, SameElse
    <3> QED
      BY <1>1, <1>2, <1>3, <1>5, <2>5, <3>2, ReliableOn
  <2>9. Left(frames', tx') = Gas(gs)
    BY <1>1, <2>4, <2>6 DEF Left
  <2>10. Shape(frames', tx') /\ NoSuicides(st', frames', tx')
    <3>1. gs[1] = frames[1]
      BY <1>3, <2>1, <2>5 DEF Similar
    <3>2. Shape(frames', tx')
      BY <1>1, <1>2, <1>3, <1>9, <2>1, <2>4, <2>5, <3>1 DEF Shape
    <3>3. frames[1].snap.aux.suicides = <<>> /\ tx'.phase # "none" /\ frames'[1] = frames[1]
      BY <1>1, <1>2, <2>4, <3>1 DEF NoSuicides
    <3> QED
      BY <3>2, <3>3 DEF NoSuicides
  <2>11. frames' # <<>>
    BY <2>1, <2>4, <2>5
  <2>12. Left(frames', tx') <= tx'.startgas
    BY <1>1, <1>2, <2>4, <2>6, <2>7, <2>9
  <2> QED
    BY <1>1, <1>2, <1>6, <2>4, <2>5, <2>7, <2>8, <2>9, <2>10, <2>11, <2>12 DEF Inv
<1> QED
  BY <1>8, <1>9

-------------------------------------------------------------------------------
(* The instructions that stay within the message.                            *)
LEMMA TidySame ==
  ASSUME NEW s \in States, NEW t \in States, t.rules = s.rules, SameParts(s, t)
  PROVE  Lives(s, t) /\ (Tidy(s) => Tidy(t))
<1>1. Lives(s, t)
  BY LivesSame DEF SameParts, SameElse
<1>2. Tidy(s) => Tidy(t)
  <2>1. Nonces(t) = Nonces(s) /\ Codes(t) = Codes(s) /\ Balances(t) = Balances(s) /\ Storages(t) = Storages(s)
    BY DEF SameParts, SameElse
  <2> QED
    BY <2>1, TidyIs DEF Peopled
<1> QED
  BY <1>1, <1>2

(* An account with a nonce or a code changes, the others do not.             *)
LEMMA TidyAt ==
  ASSUME NEW s \in States, NEW t \in States, t.rules = s.rules, NEW a \in Address,
         Peopled(t, a), Nonces(s)[a] # 0 => Nonces(t)[a] # 0,
         \A b \in Address \ {a} :
           /\ Nonces(t)[b] = Nonces(s)[b] /\ Codes(t)[b] = Codes(s)[b]
           /\ Storages(t)[b] = Storages(s)[b] /\ Balances(t)[b] >= Balances(s)[b]
  PROVE  Lives(s, t) /\ (Tidy(s) => Tidy(t))
<1>1. Lives(s, t)
  BY DEF Lives, Peopled
<1>2. ASSUME Tidy(s) PROVE Tidy(t)
  <2>1. ASSUME NEW b \in Address
        PROVE  \/ Peopled(t, b)
               \/ ~Peopled(s, b) /\ Balances(t)[b] >= Balances(s)[b] /\ Storages(t)[b] = Storages(s)[b]
    <3>1. CASE b = a
      BY <3>1
    <3>2. CASE b # a
      <4>1. Peopled(t, b) <=> Peopled(s, b)
        BY <3>2 DEF Peopled
      <4> QED
        BY <3>2, <4>1
    <3> QED
      BY <3>1, <3>2
  <2> QED
    BY <1>2, <2>1, TidyKept
<1> QED
  BY <1>1, <1>2

LEMMA GoesOnContinues ==
  ASSUME Inv, Len(frames) > 1, NEW u, NEW gas \in 0..Top.gas, NEW runs \in BOOLEAN,
         runs => Top.runs, GoesOn(u, gas, runs),
         Later(st, u), Spends(st, u), Top.static => Idle(st, u),
         "spurious_dragon" \in st.rules /\ Tidy(st) /\ Settled(Top, st) => Lives(st, u) /\ Tidy(u)
  PROVE  Continues
<1>1. st' = u /\ UNCHANGED <<tx, supply, deaths>>
  BY DEF GoesOn
<1>2. frames' = Continued(frames, gas, runs)
  BY DEF GoesOn, Continued, Top
<1> QED
  BY <1>1, <1>2 DEF Continues

LEMMA SpendsNothing ==
  ASSUME NEW s \in States, NEW u \in States, Balances(u) = Balances(s), u.suicides = s.suicides
  PROVE  Spends(s, u)
<1>1. Wealth(u) = Wealth(s) /\ Wealth(s) \in Nat
  BY WealthSame, WealthIs
<1> QED
  BY <1>1 DEF Spends

LEMMA SStoreContinues ==
  ASSUME Inv, NEW k \in Key, NEW v \in 0..1, SStore(k, v)
  PROVE  Len(frames) > 1 /\ Continues
<1> DEFINE refund == IF st.cache[Top.to].storage[k] # 0 /\ v = 0 THEN GSTORAGEREFUND ELSE 0
           s == [st EXCEPT !.refunds = @ + refund]
           u == set_storage_data(s, Top.to, k, v)
<1>1. /\ Len(frames) > 1 /\ Top.runs /\ Top.gas >= 1 /\ ~Top.static
      /\ GoesOn(u, Top.gas - 1, TRUE)
  BY DEF SStore, Running
<1>2. st \in States /\ Top \in MessageFrame /\ Top.gas \in Nat
  BY <1>1, TopIs
<1>3. Top.to \in Address /\ v \in Int
  BY <1>2 DEF MessageFrame
<1>4. refund \in Nat
  BY GasAssumption
<1> HIDE DEF refund
<1>5. /\ s \in States /\ Alike(st, s) /\ s.suicides = st.suicides /\ s.rules = st.rules
  <2> DEFINE r == st.refunds + refund
  <2>1. r \in Nat
    BY <1>2, <1>4 DEF States
  <2>2. s = [st EXCEPT !.refunds = r]
    OBVIOUS
  <2> HIDE DEF r, s
  <2> QED
    BY <1>2, <2>1, <2>2 DEF States, Alike
<1> HIDE DEF s
<1>6. /\ Changed(s, u) /\ \A b \in Address \ {Top.to} : Storages(u)[b] = Storages(s)[b]
      /\ Nonces(u) = Nonces(s) /\ Balances(u) = Balances(s) /\ Codes(u) = Codes(s)
  BY <1>3, <1>5, SetStorageIs
<1> HIDE DEF u
<1>7. Later(st, s) /\ SameParts(st, s)
  BY <1>2, <1>5, AlikeLater
<1>8. Later(st, u) /\ u \in States /\ u.rules = st.rules /\ u.suicides = st.suicides
  <2>1. Later(s, u) /\ Aux(u) = Aux(s) /\ u \in States
    BY <1>6, ChangedLater DEF Changed
  <2>2. u.suicides = s.suicides
    BY <2>1 DEF Aux
  <2>3. Later(st, u)
    BY <1>2, <1>7, <2>1, LaterOn
  <2> QED
    BY <1>5, <2>1, <2>2, <2>3 DEF Later
<1>9. /\ Nonces(u) = Nonces(st) /\ Balances(u) = Balances(st) /\ Codes(u) = Codes(st)
      /\ \A b \in Address \ {Top.to} : Storages(u)[b] = Storages(st)[b]
  BY <1>6, <1>7 DEF SameParts, SameElse
<1>10. Spends(st, u)
  BY <1>2, <1>8, <1>9, SpendsNothing
<1>11. ASSUME Tidy(st), Settled(Top, st) PROVE Lives(st, u) /\ Tidy(u)
  <2>1. Peopled(u, Top.to) /\ (Nonces(st)[Top.to] # 0 => Nonces(u)[Top.to] # 0)
    BY <1>1, <1>9, <1>11 DEF Settled, Peopled
  <2>2. \A b \in Address \ {Top.to} :
           /\ Nonces(u)[b] = Nonces(st)[b] /\ Codes(u)[b] = Codes(st)[b]
           /\ Storages(u)[b] = Storages(st)[b] /\ Balances(u)[b] >= Balances(st)[b]
    BY <1>2, <1>9, PartsTyped
  <2> QED
    BY <1>2, <1>3, <1>8, <1>11, <2>1, <2>2, TidyAt
<1>12. Top.gas - 1 \in 0..Top.gas
  BY <1>1, <1>2
<1> QED
  BY <1>1, <1>8, <1>10, <1>11, <1>12, GoesOnContinues

LEMMA LogContinues ==
  ASSUME Inv, Log
  PROVE  Len(frames) > 1 /\ Continues
<1> DEFINE u == add_log(st, Top.to)
<1>1. /\ Len(frames) > 1 /\ Top.runs /\ Top.gas >= 1 /\ ~Top.static
      /\ GoesOn(u, Top.gas - 1, TRUE)
  BY DEF Log, Running
<1>2. st \in States /\ Top \in MessageFrame /\ Top.gas \in Nat
  BY <1>1, TopIs
<1>3. Top.to \in Address
  BY <1>2 DEF MessageFrame
<1>4. Later(st, u) /\ SameParts(st, u) /\ Wealth(u) = Wealth(st) /\ u.suicides = st.suicides
  BY <1>2, <1>3, LogIs
<1> HIDE DEF u
<1>5. u \in States /\ u.rules = st.rules
  BY <1>4 DEF Later
<1>6. Spends(st, u)
  BY <1>2, <1>4, <1>5, SpendsNothing DEF SameParts
<1>7. Lives(st, u) /\ (Tidy(st) => Tidy(u))
  BY <1>2, <1>4, <1>5, TidySame
<1>8. Top.gas - 1 \in 0..Top.gas
  BY <1>1, <1>2
<1> QED
  BY <1>1, <1>4, <1>6, <1>7, <1>8, GoesOnContinues

LEMMA DepositContinues ==
  ASSUME Inv, Deposit
  PROVE  Len(frames) > 1 /\ Continues
<1> DEFINE paid == Top.gas >= GCONTRACTBYTE
           code == IF paid THEN "code" ELSE NoCode
           gas == IF paid THEN Top.gas - GCONTRACTBYTE ELSE Top.gas
           u == set_code(st, Top.to, code)
<1>1. Len(frames) > 1 /\ Top.runs /\ Top.create /\ GoesOn(u, gas, FALSE)
  BY DEF Deposit, Running
<1>2. st \in States /\ Top \in MessageFrame /\ Top.gas \in Nat /\ Top = Last(frames)
  BY <1>1, TopIs
<1>3. Top.to \in Address /\ code \in Code /\ gas \in 0..Top.gas
  BY <1>2, GasAssumption DEF MessageFrame, Code
<1> HIDE DEF code, gas
<1>4. /\ Changed(st, u) /\ Codes(u) = [Codes(st) EXCEPT ![Top.to] = code]
      /\ Nonces(u) = Nonces(st) /\ Balances(u) = Balances(st) /\ Storages(u) = Storages(st)
  BY <1>2, <1>3, SetCodeIs
<1> HIDE DEF u
<1>5. Later(st, u) /\ u \in States /\ u.rules = st.rules /\ u.suicides = st.suicides
  <2>1. Later(st, u) /\ Aux(u) = Aux(st)
    BY <1>4, ChangedLater DEF Changed
  <2> QED
    BY <2>1 DEF Later, Aux
<1>6. Spends(st, u)
  BY <1>2, <1>4, <1>5, SpendsNothing
<1>7. ~Top.static
  <2>1. frames \in Stacks /\ Quiet(st, frames)
    BY DEF Inv, Reliable
  <2>2. Top = frames[Len(frames)] /\ Len(frames) \in 2..Len(frames)
    BY <1>1, <1>2, <2>1, StackFront
  <2> QED
    BY <1>1, <2>1, <2>2 DEF Quiet
<1>8. ASSUME Tidy(st), Settled(Top, st) PROVE Lives(st, u) /\ Tidy(u)
  <2>1. Nonces(u)[Top.to] # 0
    BY <1>1, <1>4, <1>8 DEF Settled
  <2>2. \A b \in Address \ {Top.to} :
           /\ Nonces(u)[b] = Nonces(st)[b] /\ Codes(u)[b] = Codes(st)[b]
           /\ Storages(u)[b] = Storages(st)[b] /\ Balances(u)[b] >= Balances(st)[b]
    BY <1>2, <1>4, PartsTyped
  <2> QED
    BY <1>2, <1>3, <1>5, <1>8, <2>1, <2>2, TidyAt DEF Peopled
<1> QED
  BY <1>1, <1>3, <1>5, <1>6, <1>7, <1>8, GoesOnContinues

LEMMA SuicideContinues ==
  ASSUME Inv, NEW to \in Beneficiaries, Suicide(to)
  PROVE  Len(frames) > 1 /\ Continues
<1> DEFINE xfer == get_balance(st, Top.to)
           extra == IF On("anti_dos") /\ ~account_exists(st, to) /\ (xfer > 0 \/ ~On("spurious_dragon"))
                    THEN GCALLNEWACCOUNT ELSE 0
           more == get_balance(st, to) + xfer
           g == set_balance(st, to, more)
           p == set_balance(g, Top.to, 0)
           u == add_suicide(p, Top.to)
<1>1. /\ Len(frames) > 1 /\ Top.runs /\ ~Top.static /\ Top.gas >= extra
      /\ GoesOn(u, Top.gas - extra, FALSE)
  BY DEF Suicide, Running
<1>2. st \in States /\ Top \in MessageFrame /\ Top.gas \in Nat
  BY <1>1, TopIs
<1>3. Top.to \in Address /\ to \in Address /\ extra \in Nat
  BY <1>2, AddressesAssumption, GasAssumption DEF MessageFrame
<1>4. Top.gas - extra \in 0..Top.gas
  BY <1>1, <1>2, <1>3
<1> HIDE DEF extra
<1>5. /\ Balances(st) \in [Address -> Nat] /\ xfer = Balances(st)[Top.to]
      /\ get_balance(st, to) = Balances(st)[to]
  BY <1>2, <1>3, PartsTyped DEF get_balance, Balances
<1>6. xfer \in Nat /\ more \in Nat /\ more = Balances(st)[to] + xfer
  BY <1>3, <1>5
<1> HIDE DEF xfer, more
<1>7. /\ Changed(st, g) /\ Balances(g) = [Balances(st) EXCEPT ![to] = more]
      /\ Nonces(g) = Nonces(st) /\ Codes(g) = Codes(st) /\ Storages(g) = Storages(st)
  BY <1>2, <1>3, <1>6, SetBalanceIs
<1>8. g \in States
  BY <1>7 DEF Changed
<1> HIDE DEF g
<1>9. /\ Changed(g, p) /\ Balances(p) = [Balances(g) EXCEPT ![Top.to] = 0]
      /\ Nonces(p) = Nonces(g) /\ Codes(p) = Codes(g) /\ Storages(p) = Storages(g)
  BY <1>3, <1>8, SetBalanceIs
<1>10. p \in States
  BY <1>9 DEF Changed
<1> HIDE DEF p
<1>11. Later(p, u) /\ SameParts(p, u) /\ Wealth(u) = Wealth(p) /\ u.suicides # <<>>
  BY <1>3, <1>10, SuicideIs
<1> HIDE DEF u
<1>12. Later(st, u) /\ u \in States /\ u.rules = st.rules
  <2>1. Changed(st, p)
    BY <1>2, <1>7, <1>9, ChangedOn
  <2>2. Later(st, u)
    BY <1>2, <1>11, <2>1, ChangedLater, LaterOn
  <2> QED
    BY <2>2 DEF Later
<1>13. Spends(st, u)
  <2>1. Wealth(g) = Wealth(st) - Balances(st)[to] + more
    BY <1>2, <1>3, <1>6, <1>7, <1>8, WealthSet
  <2>2. Wealth(p) = Wealth(g) - Balances(g)[Top.to] + 0
    BY <1>3, <1>8, <1>9, <1>10, WealthSet
  <2>3. Balances(g)[Top.to] >= xfer /\ Balances(g)[Top.to] \in Nat
    BY <1>3, <1>5, <1>6, <1>7
  <2>4. Wealth(st) \in Nat /\ Balances(st)[to] \in Nat
    BY <1>2, <1>3, <1>5, WealthIs
  <2>5. Wealth(p) <= Wealth(st)
    BY <1>6, <2>1, <2>2, <2>3, <2>4
  <2> QED
    BY <1>11, <2>5 DEF Spends
<1>14. ASSUME Tidy(st), Settled(Top, st) PROVE Lives(st, u) /\ Tidy(u)
  <2>1. /\ Nonces(u) = Nonces(st) /\ Codes(u) = Codes(st) /\ Storages(u) = Storages(st)
        /\ Balances(u) = Balances(p)
    BY <1>7, <1>9, <1>11 DEF SameParts, SameElse
  <2>2. Peopled(u, Top.to) /\ (Nonces(st)[Top.to] # 0 => Nonces(u)[Top.to] # 0)
    BY <1>1, <1>14, <2>1 DEF Settled, Peopled
  <2>3. \A b \in Address \ {Top.to} : Balances(u)[b] >= Balances(st)[b]
    BY <1>3, <1>5, <1>6, <1>7, <1>9, <2>1
  <2> QED
    BY <1>2, <1>3, <1>12, <1>14, <2>1, <2>2, <2>3, TidyAt
<1> QED
  BY <1>1, <1>4, <1>12, <1>13, <1>14, GoesOnContinues

-------------------------------------------------------------------------------
(* The instructions that call.                                               *)
LEMMA MinIs ==
  ASSUME NEW a \in Int, NEW b \in Int
  PROVE  Min({a, b}) \in {a, b} /\ Min({a, b}) <= a /\ Min({a, b}) <= b
<1>1. \E x \in {a, b} : \A y \in {a, b} : x <= y
  BY SMT
<1>2. Min({a, b}) \in {a, b} /\ \A y \in {a, b} : Min({a, b}) <= y
  BY <1>1 DEF Min
<1> QED
  BY <1>2

LEMMA Quotient ==
  ASSUME NEW x \in Nat, NEW d \in Nat \ {0}
  PROVE  x \div d \in Nat /\ x \div d <= x
OBVIOUS

LEMMA TwoMore ==
  ASSUME NEW S, NEW ls \in Seq(S), NEW a \in S, NEW b \in S
  PROVE  ls \o <<a, b>> = Append(Append(ls, a), b)
<1> DEFINE p == ls \o <<a, b>>
           q == Append(Append(ls, a), b)
<1>1. Len(ls) \in Nat /\ Append(ls, a) \in Seq(S) /\ <<a, b>> \in Seq(S)
  OBVIOUS
<1>2. p \in Seq(S) /\ q \in Seq(S) /\ Len(p) = Len(ls) + 2 /\ Len(q) = Len(ls) + 2
  BY <1>1
<1>3. ASSUME NEW i \in 1..Len(ls) + 2 PROVE p[i] = q[i]
  <2>1. CASE i \in 1..Len(ls)
    BY <1>1, <2>1
  <2>2. CASE i = Len(ls) + 1
    BY <1>1, <2>2
  <2>3. CASE i = Len(ls) + 2
    BY <1>1, <2>3
  <2> QED
    BY <1>1, <2>1, <2>2, <2>3
<1> HIDE DEF p, q
<1>4. p = q
  BY <1>2, <1>3
<1> QED
  BY <1>4 DEF p, q

LEMMA CallsNests ==
  ASSUME Inv, Len(frames) > 1, NEW entry, NEW gas \in Nat, Calls(entry, gas),
         NEW o, NEW n, Pushed(st, o, n, entry.st, entry.frame),
         entry.frame.static => ~entry.frame.create /\ Idle(o, entry.st),
         Top.static => entry.frame.static /\ Idle(st, o),
         /\ "spurious_dragon" \in st.rules /\ Tidy(st) /\ Settled(Top, st)
         /\ "metropolis" \notin st.rules /\ entry.frame.create /\ ~entry.frame.doomed =>
              entry.frame.to # entry.frame.sender /\ ~Peopled(st, entry.frame.to)
         => PushedTidily(st, o, entry.st, entry.frame),
         gas + entry.frame.gas <= Top.gas
  PROVE  Nests
<1> DEFINE f == entry.frame
           a == [Top EXCEPT !.gas = gas]
<1>1. Top \in MessageFrame /\ Top = Last(frames) /\ frames \in Stacks
  BY TopIs DEF Inv
<1>2. a \in MessageFrame /\ a = [Top EXCEPT !.gas = gas, !.runs = Top.runs] /\ f \in MessageFrame
  BY <1>1 DEF MessageFrame, Pushed
<1>3. Front(frames) \in Stacks
  BY <1>1, StackFront
<1>4. st' = entry.st /\ frames' = Front(frames) \o <<a, f>> /\ UNCHANGED <<tx, supply, deaths>>
  BY DEF Calls
<1> HIDE DEF a, f
<1>5. frames' = Append(Append(Front(frames), a), f)
  BY <1>2, <1>3, <1>4, TwoMore DEF Stacks
<1>6. frames' = Append(Continued(frames, gas, Top.runs), f)
  BY <1>1, <1>2, <1>5 DEF Continued
<1> QED
  BY <1>4, <1>6 DEF Nests, f

LEMMA ExtraIs ==
  ASSUME NEW op, NEW to, NEW value \in Nat
  PROVE  /\ ExtraGas(op, to, value) \in Nat
         /\ SubmessageGas(0, value) \in Nat /\ SubmessageGas(0, value) <= ExtraGas(op, to, value)
         /\ \A gas \in Nat : SubmessageGas(gas, value) = gas + SubmessageGas(0, value)
<1> DEFINE new == IF op = "CALL" /\ ~account_exists(st, to) /\ (value > 0 \/ ~On("spurious_dragon"))
                  THEN GCALLNEWACCOUNT ELSE 0
           moved == IF value > 0 THEN GCALLVALUETRANSFER ELSE 0
           stipend == IF value > 0 THEN GSTIPEND ELSE 0
<1>1. new \in Nat /\ moved \in Nat /\ stipend \in Nat /\ stipend <= moved
  BY GasAssumption
<1>2. ExtraGas(op, to, value) = new + moved
  BY DEF ExtraGas
<1>3. \A gas : SubmessageGas(gas, value) = gas + stipend
  BY DEF SubmessageGas
<1> HIDE DEF new, moved, stipend
<1>4. SubmessageGas(0, value) = stipend
  BY <1>1, <1>3
<1> QED
  BY <1>1, <1>2, <1>3, <1>4

LEMMA AllButIs ==
  ASSUME NEW x \in Nat
  PROVE  all_but_1n(x) \in Nat /\ all_but_1n(x) <= x
<1>1. CALL_CHILD_LIMIT_DENOM \in Nat \ {0}
  BY GasAssumption
<1>2. x \div CALL_CHILD_LIMIT_DENOM \in Nat /\ x \div CALL_CHILD_LIMIT_DENOM <= x
  BY <1>1, Quotient
<1> QED
  BY <1>2 DEF all_but_1n

(* The four messages.                                                        *)
Messaged(m, sender, to, value, gas, transfers, static, code) ==
  /\ m \in MessageSet /\ m.sender = sender /\ m.to = to /\ m.value = value /\ m.gas = gas
  /\ m.transfers = transfers /\ m.static = static /\ m.runs = code
  /\ m.create = FALSE /\ m.doomed = FALSE

LEMMA MessageIs ==
  ASSUME NEW sender \in Address, NEW to \in Address, NEW value \in Nat, NEW gas \in Nat,
         NEW transfers \in BOOLEAN, NEW static \in BOOLEAN, NEW code \in BOOLEAN
  PROVE  Messaged(Message(sender, to, value, gas, transfers, static, code),
                  sender, to, value, gas, transfers, static, code)
BY DEF Message, MessageSet, Messaged

CallMessageIs(m, to, gas) ==
  /\ m \in MessageSet /\ m.gas = gas /\ m.create = FALSE /\ m.doomed = FALSE
  /\ Top.static => m.static
  /\ m.static => ~m.transfers \/ m.value = 0 \/ m.sender = m.to
  /\ m.transfers => m.sender = Top.to
  /\ m.runs => HasCode(to) /\ m.to \in {to, Top.to}

LEMMA CallMessages ==
  ASSUME Top \in MessageFrame, NEW to \in Address, NEW value \in Nat, NEW gas \in Nat,
         NEW op \in {"CALL", "CALLCODE", "DELEGATECALL", "STATICCALL"},
         ~(Top.static /\ value > 0 /\ op = "CALL")
  PROVE  CallMessageIs(CallMessage(op, to, value, gas), to, gas)
<1> DEFINE code == HasCode(to)
           yes == TRUE
           no == FALSE
<1>1. /\ Top.to \in Address /\ Top.sender \in Address /\ Top.static \in BOOLEAN
      /\ Top.value \in Nat /\ 0 \in Nat
      /\ code \in BOOLEAN /\ yes \in BOOLEAN /\ no \in BOOLEAN
      /\ code <=> HasCode(to)
  BY DEF MessageFrame, HasCode
<1>2. CASE op = "CALL"
  <2> DEFINE m == Message(Top.to, to, value, gas, yes, Top.static, code)
  <2>1. CallMessage(op, to, value, gas) = m
    BY <1>2 DEF CallMessage
  <2> HIDE DEF code, yes, no
  <2>2. Messaged(m, Top.to, to, value, gas, yes, Top.static, code)
    BY <1>1, MessageIs
  <2> HIDE DEF m
  <2> QED
    BY <1>1, <1>2, <2>1, <2>2 DEF CallMessageIs, Messaged, yes, no
<1>3. CASE op = "CALLCODE"
  <2> DEFINE m == Message(Top.to, Top.to, value, gas, yes, Top.static, code)
  <2>1. CallMessage(op, to, value, gas) = m
    BY <1>3 DEF CallMessage
  <2> HIDE DEF code, yes, no
  <2>2. Messaged(m, Top.to, Top.to, value, gas, yes, Top.static, code)
    BY <1>1, MessageIs
  <2> HIDE DEF m
  <2> QED
    BY <1>1, <1>3, <2>1, <2>2 DEF CallMessageIs, Messaged, yes, no
<1>4. CASE op = "DELEGATECALL"
  <2> DEFINE m == Message(Top.sender, Top.to, Top.value, gas, no, Top.static, code)
  <2>1. CallMessage(op, to, value, gas) = m
    BY <1>4 DEF CallMessage
  <2> HIDE DEF code, yes, no
  <2>2. Messaged(m, Top.sender, Top.to, Top.value, gas, no, Top.static, code)
    BY <1>1, MessageIs
  <2> HIDE DEF m
  <2> QED
    BY <1>1, <1>4, <2>1, <2>2 DEF CallMessageIs, Messaged, yes, no
<1>5. CASE op = "STATICCALL"
  <2> DEFINE nil == 0
             m == Message(Top.to, to, nil, gas, yes, yes, code)
  <2>1. CallMessage(op, to, value, gas) = m
    BY <1>5 DEF CallMessage
  <2> HIDE DEF code, yes, no, nil
  <2>0. nil \in Nat
    BY DEF nil
  <2>2. Messaged(m, Top.to, to, nil, gas, yes, yes, code)
    BY <1>1, <2>0, MessageIs
  <2> HIDE DEF m
  <2> QED
    BY <1>1, <1>5, <2>1, <2>2 DEF CallMessageIs, Messaged, yes, no, nil
<1> QED
  BY <1>2, <1>3, <1>4, <1>5

LEMMA CallSteps ==
  ASSUME Inv, NEW op \in {"CALL", "CALLCODE", "DELEGATECALL", "STATICCALL"},
         NEW to \in Targets, NEW value \in Values, NEW want \in Wants, Call(op, to, value, want)
  PROVE  Len(frames) > 1 /\ (Continues \/ Nests)
<1> DEFINE left == Top.gas - 1
           extra == ExtraGas(op, to, value)
           gas == IF On("anti_dos") THEN Min({want, all_but_1n(left - extra)}) ELSE want
           sub == SubmessageGas(gas, value)
           stipend == SubmessageGas(0, value)
           m == CallMessage(op, to, value, sub)
           e == Entered(st, m, snapshot(st), World(st))
           refused == get_balance(st, Top.to) < value \/ Depth >= MAX_DEPTH
<1>1. /\ Len(frames) > 1 /\ Top.runs /\ left >= 0
      /\ ~(Top.static /\ value > 0 /\ op = "CALL")
      /\ IF On("anti_dos") THEN left >= extra ELSE left >= want + extra
      /\ refused => GoesOn(st, left - (gas + extra - sub), TRUE)
      /\ ~refused => Calls(e, left - gas - extra)
  BY DEF Call, Running
<1> HIDE DEF refused
<1>2. st \in States /\ Top \in MessageFrame /\ Top.gas \in Nat /\ left \in Nat
  BY <1>1, TopIs
<1>3. to \in Address /\ value \in Nat /\ want \in Nat /\ Top.to \in Address
  BY <1>2, AddressesAssumption, ValuesAssumption DEF MessageFrame
<1>4. /\ extra \in Nat /\ stipend \in Nat /\ stipend <= extra
      /\ \A g \in Nat : SubmessageGas(g, value) = g + stipend
  BY <1>3, ExtraIs
<1> HIDE DEF extra, stipend, left
<1>5. gas \in Nat /\ gas <= left - extra
  <2>1. CASE On("anti_dos")
    <3>1. left - extra \in Nat
      BY <1>1, <1>2, <1>4, <2>1
    <3> DEFINE cap == all_but_1n(left - extra)
    <3>2. cap \in Nat /\ cap <= left - extra
      BY <3>1, AllButIs
    <3>3. gas = Min({want, cap})
      BY <2>1
    <3> HIDE DEF cap, gas
    <3>4. Min({want, cap}) \in {want, cap} /\ Min({want, cap}) <= cap
      BY <1>3, <3>2, MinIs
    <3> QED
      BY <1>3, <3>1, <3>2, <3>3, <3>4
  <2>2. CASE ~On("anti_dos")
    BY <1>1, <1>2, <1>3, <1>4, <2>2
  <2> QED
    BY <2>1, <2>2
<1> HIDE DEF gas
<1>6. sub = gas + stipend /\ sub \in Nat
  BY <1>4, <1>5
<1> HIDE DEF sub
<1>7. CASE refused
  <2> DEFINE rest == left - (gas + extra - sub)
  <2>1. left = Top.gas - 1
    BY DEF left
  <2>2. rest \in 0..Top.gas
    BY <1>2, <1>4, <1>5, <1>6, <2>1
  <2>3. GoesOn(st, rest, TRUE)
    BY <1>1, <1>7
  <2> HIDE DEF rest
  <2>4. Later(st, st) /\ Idle(st, st) /\ Lives(st, st)
    BY <1>2, ChangedSelf DEF Idle, SameParts, SameElse, Lives
  <2>5. Spends(st, st)
    BY <1>2, SpendsNothing
  <2> QED
    BY <1>1, <1>2, <2>2, <2>3, <2>4, <2>5, GoesOnContinues
<1>8. CASE ~refused
  <2>1. CallMessageIs(m, to, sub)
    BY <1>1, <1>2, <1>3, <1>6, CallMessages
  <2> HIDE DEF m
  <2>2. m \in MessageSet
    BY <2>1 DEF CallMessageIs
  <2>3. CallsIn(st, m, e)
    BY <1>2, <2>2, CallPushes
  <2> HIDE DEF e
  <2> DEFINE rest == left - gas - extra
  <2>4. left = Top.gas - 1
    BY DEF left
  <2>5. rest \in Nat /\ rest + sub <= Top.gas
    BY <1>2, <1>4, <1>5, <1>6, <2>4
  <2>6. Calls(e, rest)
    BY <1>1, <1>8
  <2> HIDE DEF rest
  <2>7. /\ e.frame.to = m.to /\ e.frame.gas = sub /\ e.frame.static = m.static
        /\ e.frame.create = FALSE /\ (e.frame.runs => m.runs) /\ SameElse(st, e.st)
        /\ Pushed(st, st, st, e.st, e.frame)
    BY <2>1, <2>3 DEF CallsIn, CallMessageIs
  <2>8. e.st.rules = st.rules /\ Aux(e.st) = Aux(st)
    BY <2>7 DEF Pushed, Later
  <2>9. e.frame.static => Idle(st, e.st)
    BY <2>1, <2>3, <2>7, <2>8 DEF CallsIn, CallMessageIs, Idle
  <2>10. Top.static => e.frame.static /\ Idle(st, st)
    BY <2>1, <2>7 DEF CallMessageIs, Idle, SameParts, SameElse
  <2>11. ASSUME Tidy(st), Settled(Top, st) PROVE PushedTidily(st, st, e.st, e.frame)
    <3>1. Peopled(st, Top.to)
      BY <1>1, <2>11 DEF Settled, Peopled
    <3>2. m.transfers => m.sender = Top.to
      BY <2>1 DEF CallMessageIs
    <3>3. Tidy(e.st)
      BY <2>3, <2>11, <3>1, <3>2 DEF CallsIn
    <3>4. Nonces(e.st) = Nonces(st) /\ Codes(e.st) = Codes(st)
      BY <2>7 DEF SameElse
    <3>5. Lives(st, e.st) /\ Lives(st, st)
      BY <2>8, <3>4, LivesSame
    <3>6. ASSUME e.frame.runs
          PROVE  Nonces(e.st)[e.frame.to] # 0 \/ Codes(e.st)[e.frame.to] # NoCode
      <4>1. HasCode(to) /\ e.frame.to \in {to, Top.to}
        BY <2>1, <2>7, <3>6 DEF CallMessageIs
      <4>2. Codes(st)[to] # NoCode
        BY <1>3, <4>1 DEF HasCode, Codes
      <4> QED
        BY <3>1, <3>4, <4>1, <4>2 DEF Peopled
    <3> QED
      BY <2>7, <2>11, <3>3, <3>5, <3>6 DEF PushedTidily
  <2>12. e.frame.static => ~e.frame.create /\ Idle(st, e.st)
    BY <2>7, <2>9
  <2>13. rest + e.frame.gas <= Top.gas
    BY <2>5, <2>7
  <2>14. Nests
    BY <1>1, <2>5, <2>6, <2>7, <2>10, <2>11, <2>12, <2>13, CallsNests
  <2> QED
    BY <1>1, <2>14
<1> QED
  BY <1>7, <1>8

LEMMA CreateSteps ==
  ASSUME Inv, NEW value \in Values, Create(value)
  PROVE  Len(frames) > 1 /\ (Continues \/ Nests)
<1> DEFINE left == Top.gas - 1
           gas == IF On("anti_dos") THEN all_but_1n(left) ELSE left
           yes == TRUE
           no == FALSE
           m == Message(Top.to, Top.to, value, gas, yes, no, yes)
           e == EnteredCreation(st, m)
           paid == get_balance(st, Top.to) >= value /\ Depth < MAX_DEPTH
<1>1. /\ Len(frames) > 1 /\ Top.runs /\ left >= 0 /\ ~Top.static
      /\ NextAddress(st, Top.to) \in Address
      /\ paid => Calls(e, left - gas)
      /\ ~paid => GoesOn(st, left, TRUE)
  BY DEF Create, Running
<1> HIDE DEF paid
<1>2. st \in States /\ Top \in MessageFrame /\ Top.gas \in Nat /\ left \in Nat
  BY <1>1, TopIs
<1>3. value \in Nat /\ Top.to \in Address /\ yes \in BOOLEAN /\ no \in BOOLEAN /\ ~no /\ yes
  BY <1>2, ValuesAssumption DEF MessageFrame
<1>4. left = Top.gas - 1
  OBVIOUS
<1> HIDE DEF left
<1>5. gas \in Nat /\ gas <= left
  BY <1>2, AllButIs
<1> HIDE DEF gas
<1>6. CASE ~paid
  <2>1. left \in 0..Top.gas
    BY <1>2, <1>4
  <2>2. GoesOn(st, left, TRUE)
    BY <1>1, <1>6
  <2>3. Later(st, st) /\ Idle(st, st) /\ Lives(st, st)
    BY <1>2, ChangedSelf DEF Idle, SameParts, SameElse, Lives
  <2>4. Spends(st, st)
    BY <1>2, SpendsNothing
  <2> QED
    BY <1>1, <1>2, <2>1, <2>2, <2>3, <2>4, GoesOnContinues
<1>7. CASE paid
  <2> HIDE DEF yes, no
  <2>1. Messaged(m, Top.to, Top.to, value, gas, yes, no, yes)
    BY <1>3, <1>5, MessageIs
  <2> HIDE DEF m
  <2>2. m \in MessageSet /\ ~m.doomed /\ m.sender = Top.to /\ m.gas = gas /\ m.static = no
    BY <2>1 DEF Messaged
  <2>3. CreatesIn(st, m, e)
    BY <1>1, <1>2, <2>2, CreationPushes
  <2> HIDE DEF e
  <2>4. PICK o, n :
          /\ Pushed(st, o, n, e.st, e.frame)
          /\ /\ "spurious_dragon" \in st.rules /\ Tidy(st) /\ Peopled(st, m.sender)
             /\ "metropolis" \notin st.rules /\ ~e.frame.doomed =>
                  e.frame.to # m.sender /\ ~Peopled(st, e.frame.to)
             => PushedTidily(st, o, e.st, e.frame)
    BY <2>3 DEF CreatesIn
  <2>5. /\ e.frame.gas = gas /\ ~e.frame.static /\ e.frame.create = TRUE
        /\ e.frame.sender = Top.to
    BY <1>3, <2>2, <2>3 DEF CreatesIn
  <2> DEFINE rest == left - gas
  <2>6. rest \in Nat /\ rest + e.frame.gas <= Top.gas
    BY <1>2, <1>4, <1>5, <2>5
  <2>7. Calls(e, rest)
    BY <1>1, <1>7
  <2> HIDE DEF rest
  <2>8. ASSUME "spurious_dragon" \in st.rules, Tidy(st), Settled(Top, st),
               "metropolis" \notin st.rules /\ e.frame.create /\ ~e.frame.doomed =>
                 e.frame.to # e.frame.sender /\ ~Peopled(st, e.frame.to)
        PROVE  PushedTidily(st, o, e.st, e.frame)
    <3>1. Peopled(st, m.sender)
      BY <1>1, <2>2, <2>8 DEF Settled, Peopled
    <3> QED
      BY <2>2, <2>4, <2>5, <2>8, <3>1
  <2>9. Nests
    BY <1>1, <2>4, <2>5, <2>6, <2>7, <2>8, CallsNests
  <2> QED
    BY <1>1, <2>9
<1> QED
  BY <1>6, <1>7

-------------------------------------------------------------------------------
(* The end of a message.                                                     *)
LEMMA ReturnInv ==
  ASSUME Inv, Return
  PROVE  Len(frames) > 1 /\ Inv' /\ Left(frames', tx') <= Left(frames, tx)
<1>1. Len(frames) > 1 /\ Delivered(st, 1, Top.gas)
  BY DEF Return
<1>2. Top.gas \in 0..Top.gas /\ 1 \in {0, 1}
  BY <1>1, TopIs
<1>3. frames \in Stacks /\ Reliable(st, frames, Owed(tx), supply, deaths)
  BY DEF Inv
<1>4. Reliable(st, Front(frames), Owed(tx), supply, deaths)
  BY <1>1, <1>3, ReliablePop
<1> QED
  BY <1>1, <1>2, <1>4, DeliveredInv

LEMMA FailedInv ==
  ASSUME Inv, Len(frames) > 1, NEW gas \in 0..Top.gas, Failed(gas)
  PROVE  Inv' /\ Left(frames', tx') <= Left(frames, tx)
<1> DEFINE u == revert(revert(st, Top.snap), Top.outer)
<1>1. Delivered(u, 0, gas) /\ 0 \in {0, 1}
  BY DEF Failed
<1>2. frames \in Stacks /\ Reliable(st, frames, Owed(tx), supply, deaths) /\ Top = Last(frames)
  BY DEF Inv, Top
<1>3. Reliable(u, Front(frames), Owed(tx), supply, deaths)
  BY <1>2, ReliableFail
<1> HIDE DEF u
<1> QED
  BY <1>1, <1>3, DeliveredInv

LEMMA FailInv ==
  ASSUME Inv, Fault \/ Revert
  PROVE  Len(frames) > 1 /\ Inv' /\ Left(frames', tx') <= Left(frames, tx)
<1>1. Len(frames) > 1
  BY DEF Fault, Revert, Running
<1>2. 0 \in 0..Top.gas /\ Top.gas \in 0..Top.gas
  BY <1>1, TopIs
<1>3. Failed(0) \/ Failed(Top.gas)
  BY DEF Fault, Revert
<1> QED
  BY <1>1, <1>2, <1>3, FailedInv

(* Any step of the innermost message.                                        *)
Executes ==
  \/ \E k \in Key, v \in 0 .. 1 : SStore(k, v)
  \/ Log
  \/ \E op \in {"CALL", "CALLCODE", "DELEGATECALL", "STATICCALL"}, to \in Targets,
        value \in Values, want \in Wants : Call(op, to, value, want)
  \/ \E value \in Values : Create(value)
  \/ \E to \in Beneficiaries : Suicide(to)
  \/ Deposit

LEMMA ExecutesSteps ==
  ASSUME Inv, Executes
  PROVE  Len(frames) > 1 /\ (Continues \/ Nests)
<1>1. CASE \E k \in Key, v \in 0 .. 1 : SStore(k, v)
  BY <1>1, SStoreContinues
<1>2. CASE Log
  BY <1>2, LogContinues
<1>3. CASE \E op \in {"CALL", "CALLCODE", "DELEGATECALL", "STATICCALL"}, to \in Targets,
             value \in Values, want \in Wants : Call(op, to, value, want)
  BY <1>3, CallSteps
<1>4. CASE \E value \in Values : Create(value)
  BY <1>4, CreateSteps
<1>5. CASE \E to \in Beneficiaries : Suicide(to)
  BY <1>5, SuicideContinues
<1>6. CASE Deposit
  BY <1>6, DepositContinues
<1> QED
  BY <1>1, <1>2, <1>3, <1>4, <1>5, <1>6 DEF Executes

LEMMA MessageInv ==
  ASSUME Inv, Executes \/ Return \/ Fault \/ Revert
  PROVE  Len(frames) > 1 /\ Inv' /\ Left(frames', tx') <= Left(frames, tx)
<1>1. CASE Executes
  BY <1>1, ExecutesSteps, ContinuesInv, NestsInv
<1>2. CASE Return
  BY <1>2, ReturnInv
<1>3. CASE Fault \/ Revert
  BY <1>3, FailInv
<1> QED
  BY <1>1, <1>2, <1>3

-------------------------------------------------------------------------------
(* Blocks.                                                                   *)
LEMMA Alone ==
  ASSUME NEW b \in BlockFrame
  PROVE  /\ <<b>> \in Stacks /\ Len(<<b>>) = 1 /\ <<b>>[1] = b /\ <<b>> # <<>>
         /\ Gas(<<b>>) = 0
<1> DEFINE fs == <<b>>
<1>1. fs \in Seq(BlockFrame \union MessageFrame) /\ Len(fs) = 1 /\ fs[1] = b /\ fs # <<>>
  OBVIOUS
<1> HIDE DEF fs
<1>2. ~\E i \in 2..1 : TRUE
  OBVIOUS
<1>3. fs \in Stacks
  BY <1>1, <1>2 DEF Stacks
<1>4. Len(fs) <= 1
  BY <1>1
<1>5. Gas(fs) = 0
  BY <1>3, <1>4, GasIs
<1> QED
  BY <1>1, <1>3, <1>5 DEF fs

LEMMA Nobody == <<>> \in Stacks /\ Len(<<>>) = 0 /\ Gas(<<>>) = 0
<1>1. <<>> \in Seq(BlockFrame \union MessageFrame) /\ Len(<<>>) = 0
  OBVIOUS
<1>2. ~\E i \in 2..0 : TRUE
  OBVIOUS
<1>3. <<>> \in Stacks
  BY <1>1, <1>2 DEF Stacks
<1> QED
  BY <1>1, <1>3, GasIs

LEMMA ReliableNone ==
  ASSUME NEW s \in States, Coherent(s), Base(s),
         NEW owed, NEW total, NEW dead, Conserved(s, owed, total, dead)
  PROVE  Reliable(s, <<>>, owed, total, dead)
<1>1. ~\E i \in 2..Len(<<>>) : TRUE
  OBVIOUS
<1>2. ~(Len(<<>>) > 0)
  OBVIOUS
<1> QED
  BY <1>1, <1>2 DEF Reliable, Nesting, Quiet, Underneath, ConservedBelow

LEMMA ReliableOne ==
  ASSUME NEW s \in States, Coherent(s), Base(s), NEW fs \in Stacks, Len(fs) = 1,
         fs[1].snap \in Snaps, fs[1].snap.L = 0, fs[1].world = World(Opening(s, fs[1])),
         NEW owed, NEW total, NEW dead, Conserved(s, owed, total, dead),
         Conserved(Opening(s, fs[1]), 0, fs[1].supply, dead)
  PROVE  Reliable(s, fs, owed, total, dead)
<1>1. ~\E i \in 2..Len(fs) : TRUE
  OBVIOUS
<1> QED
  BY <1>1 DEF Reliable, Nesting, Quiet, Underneath, ConservedBelow

LEMMA InitInv ==
  ASSUME Init
  PROVE  Inv
<1>1. PICK start \in Starts :
        /\ st = Opened(start[1], start[2])
        /\ frames = <<>>
        /\ tx = [phase |-> "none", startgas |-> 0, res |-> 0, gas |-> 0, blocks |-> 0]
        /\ supply = Wealth(st)
        /\ deaths = FALSE
  BY DEF Init
<1>2. start[1] \in Tries /\ start[2] \in SUBSET STRING
  BY StartsAssumption DEF Tries
<1>3. st \in States /\ st.journal = <<>> /\ st.suicides = <<>> /\ Coherent(st) /\ Base(st)
  BY <1>1, <1>2, OpenedIs
<1>4. supply \in Nat /\ Wealth(st) \in Nat
  BY <1>1, <1>3, WealthIs
<1>5. tx \in Phases /\ tx.phase = "none" /\ Owed(tx) = 0
  BY <1>1 DEF Phases, Owed
<1>6. Conserved(st, 0, supply, deaths)
  BY <1>1, <1>4 DEF Conserved
<1>7. Reliable(st, frames, Owed(tx), supply, deaths)
  BY <1>1, <1>3, <1>5, <1>6, ReliableNone
<1>8. Shape(frames, tx) /\ NoSuicides(st, frames, tx)
  BY <1>1, <1>3, <1>5, Nobody DEF Shape, NoSuicides
<1>9. deaths \in BOOLEAN
  BY <1>1
<1> QED
  BY <1>1, <1>3, <1>4, <1>5, <1>7, <1>8, <1>9, Nobody DEF Inv

LEMMA BeginBlockInv ==
  ASSUME Inv, BeginBlock
  PROVE  Inv'
<1> DEFINE b == [snap |-> snapshot(st), world |-> World(st), gas |-> 0, static |-> FALSE,
                 runs |-> FALSE, supply |-> supply]
<1>1. /\ frames = <<>> /\ tx.blocks < MaxBlocks
      /\ frames' = <<b>> /\ st' = [st EXCEPT !.txindex = 0]
      /\ tx' = [tx EXCEPT !.blocks = @ + 1] /\ supply' = supply /\ deaths' = deaths
  BY DEF BeginBlock
<1>2. /\ tx \in Phases /\ supply \in Nat /\ deaths \in BOOLEAN /\ Shape(frames, tx)
      /\ st.journal = <<>> /\ Reliable(st, frames, Owed(tx), supply, deaths)
  BY <1>1 DEF Inv
<1>3. /\ st \in States /\ Coherent(st) /\ Base(st) /\ Conserved(st, Owed(tx), supply, deaths)
  BY <1>2 DEF Reliable
<1>4. tx.phase = "none" /\ Owed(tx) = 0
  BY <1>1, <1>2, Nobody DEF Shape, Phases, Owed
<1>5. tx' \in Phases /\ tx'.phase = "none" /\ Owed(tx') = 0
  <2> DEFINE more == tx.blocks + 1
  <2>1. more \in Nat
    BY <1>2 DEF Phases
  <2>2. tx' = [tx EXCEPT !.blocks = more]
    BY <1>1
  <2> HIDE DEF more
  <2> QED
    BY <1>2, <1>4, <2>1, <2>2 DEF Phases, Owed
<1>6. st' \in States /\ Alike(st, st') /\ st'.rules = st.rules /\ st'.suicides = st.suicides
  BY <1>1, <1>3 DEF States, Alike
<1>7. Coherent(st') /\ Base(st') /\ Wealth(st') = Wealth(st)
  <2>1. Later(st, st') /\ Wealth(st') = Wealth(st)
    BY <1>3, <1>6, AlikeLater
  <2> QED
    BY <1>3, <1>6, <2>1, BaseKept DEF Later
<1>8. b \in BlockFrame /\ snapshot(st) \in Snaps /\ snapshot(st).L = 0
  <2>1. snapshot(st) \in Snaps /\ snapshot(st).L = 0
    BY <1>2, <1>3, SnapshotIs DEF Within
  <2>2. World(st) \in Worlds
    BY <1>3 DEF Worlds
  <2> QED
    BY <1>2, <2>1, <2>2 DEF BlockFrame
<1>9. Opening(st', b) = st
  <2>1. snapshot(st).aux = Aux(st) /\ snapshot(st).root = st.trie
    BY <1>3, SnapshotIs
  <2>2. Restored(Opened(st.trie, st.rules), Aux(st)) = st
    BY <1>2, <1>3, BaseIs
  <2> QED
    BY <1>6, <2>1, <2>2 DEF Opening
<1>10. b.snap = snapshot(st) /\ b.world = World(st) /\ b.supply = supply /\ b.runs = FALSE
  OBVIOUS
<1> HIDE DEF b
<1>11. /\ frames' \in Stacks /\ Len(frames') = 1 /\ frames'[1] = b /\ frames' # <<>>
  BY <1>1, <1>8, Alone
<1>12. Conserved(st', 0, supply', deaths') /\ Conserved(st, 0, supply, deaths')
  BY <1>1, <1>3, <1>4, <1>6, <1>7 DEF Conserved
<1>13. Reliable(st', frames', Owed(tx'), supply', deaths')
  BY <1>5, <1>6, <1>7, <1>8, <1>9, <1>10, <1>11, <1>12, ReliableOne
<1>14. Shape(frames', tx') /\ NoSuicides(st', frames', tx')
  <2>1. st.suicides = <<>>
    BY <1>4 DEF Inv, NoSuicides
  <2>2. snapshot(st).aux.suicides = <<>>
    BY <2>1 DEF snapshot, Aux
  <2> QED
    BY <1>5, <1>6, <1>10, <1>11, <2>1, <2>2 DEF Shape, NoSuicides
<1> QED
  BY <1>1, <1>2, <1>5, <1>11, <1>13, <1>14 DEF Inv

(* What there is between the messages of a block.                            *)
LEMMA BlockIs ==
  ASSUME Inv, Len(frames) = 1
  PROVE  /\ Top \in BlockFrame /\ Top = frames[1] /\ frames # <<>>
         /\ frames \in Stacks /\ tx \in Phases /\ supply \in Nat /\ deaths \in BOOLEAN
         /\ tx.phase \in {"none", "done"} /\ Owed(tx) \in Nat
         /\ Reliable(st, frames, Owed(tx), supply, deaths)
         /\ st \in States /\ Coherent(st) /\ Base(st)
         /\ Conserved(st, Owed(tx), supply, deaths)
         /\ Wealth(st) \in Nat
         /\ frames[1].snap.aux.suicides = <<>> /\ (tx.phase = "none" => st.suicides = <<>>)
<1>1. /\ frames \in Stacks /\ tx \in Phases /\ supply \in Nat /\ deaths \in BOOLEAN
      /\ Shape(frames, tx) /\ Reliable(st, frames, Owed(tx), supply, deaths)
  BY DEF Inv
<1>2. Top = frames[1] /\ frames[1] \in BlockFrame /\ frames # <<>>
  BY <1>1 DEF Top, Last, Stacks
<1>3. tx.phase \in {"none", "done"} /\ Owed(tx) \in Nat
  BY <1>1 DEF Shape, Phases, Owed
<1>4. /\ st \in States /\ Coherent(st) /\ Base(st)
      /\ Conserved(st, Owed(tx), supply, deaths)
  BY <1>1 DEF Reliable
<1>5. frames[1].snap.aux.suicides = <<>> /\ (tx.phase = "none" => st.suicides = <<>>)
  BY DEF Inv, NoSuicides
<1> QED
  BY <1>1, <1>2, <1>3, <1>4, <1>5, WealthIs

LEMMA FinalizeInv ==
  ASSUME Inv, Finalize
  PROVE  Inv'
<1> DEFINE b == [Top EXCEPT !.runs = TRUE]
<1>1. /\ Len(frames) = 1 /\ tx.phase = "none" /\ ~Top.runs
      /\ st' = delta_balance(st, Coinbase, BlockReward) /\ supply' = supply + BlockReward
      /\ frames' = <<b>> /\ tx' = tx /\ deaths' = deaths
  BY DEF Finalize
<1>2. /\ Top \in BlockFrame /\ Top = frames[1] /\ frames \in Stacks
      /\ tx \in Phases /\ supply \in Nat /\ deaths \in BOOLEAN
      /\ Reliable(st, frames, Owed(tx), supply, deaths)
      /\ st \in States /\ Coherent(st) /\ Base(st)
      /\ Conserved(st, Owed(tx), supply, deaths) /\ Wealth(st) \in Nat
      /\ st.suicides = <<>> /\ Top.snap.aux.suicides = <<>>
  BY <1>1, BlockIs
<1>3. Coinbase \in Address /\ BlockReward \in Nat
  BY AddressesAssumption, ValuesAssumption
<1>4. Balances(st)[Coinbase] + BlockReward >= 0
  BY <1>2, <1>3, PartsTyped
<1>5. Changed(st, st') /\ Wealth(st') = Wealth(st) + BlockReward
  BY <1>1, <1>2, <1>3, <1>4, DeltaIs
<1>6. /\ st' \in States /\ st'.rules = st.rules /\ st'.suicides = st.suicides
      /\ Coherent(st') /\ Base(st')
  <2>1. st' \in States /\ Follows(st, st') /\ Aux(st') = Aux(st) /\ st'.rules = st.rules
        /\ Coherent(st')
    BY <1>2, <1>5 DEF Changed
  <2> QED
    BY <1>2, <2>1, BaseKept DEF Aux
<1>7. /\ b \in BlockFrame /\ b.snap = Top.snap /\ b.world = Top.world /\ b.supply = Top.supply
  BY <1>2 DEF BlockFrame
<1> HIDE DEF b
<1>8. frames' \in Stacks /\ Len(frames') = 1 /\ frames'[1] = b /\ frames' # <<>>
  BY <1>1, <1>7, Alone
<1>9. Owed(tx) = 0 /\ Owed(tx') = 0 /\ supply' \in Nat
  BY <1>1, <1>2, <1>3 DEF Owed
<1>10. Conserved(st', Owed(tx'), supply', deaths')
  <2>1. /\ Wealth(st) <= supply
        /\ ~deaths /\ st.suicides = <<>> => Wealth(st) = supply
    BY <1>2, <1>9 DEF Conserved
  <2>2. supply' = supply + BlockReward
    BY <1>1
  <2>3. /\ Wealth(st') <= supply'
        /\ ~deaths' /\ st'.suicides = <<>> => Wealth(st') = supply'
    BY <1>1, <1>2, <1>3, <1>5, <1>6, <2>1, <2>2
  <2>4. Wealth(st') + 0 = Wealth(st')
    BY <1>2, <1>3, <1>5
  <2> QED
    BY <1>9, <2>3, <2>4 DEF Conserved
<1>11. Reliable(st', frames', Owed(tx'), supply', deaths')
  BY <1>1, <1>2, <1>6, <1>7, <1>8, <1>10, ReliableBlock
<1>12. Shape(frames', tx') /\ NoSuicides(st', frames', tx')
  BY <1>1, <1>2, <1>6, <1>7, <1>8 DEF Shape, NoSuicides
<1> QED
  BY <1>1, <1>2, <1>8, <1>9, <1>11, <1>12 DEF Inv

LEMMA AcceptBlockInv ==
  ASSUME Inv, AcceptBlock
  PROVE  Inv'
<1>1. /\ Len(frames) = 1 /\ Top.runs /\ st' = commit(st) /\ frames' = <<>>
      /\ tx' = tx /\ supply' = supply /\ deaths' = deaths
  BY DEF AcceptBlock
<1>2. /\ Top = frames[1] /\ tx \in Phases /\ supply \in Nat /\ deaths \in BOOLEAN
      /\ st \in States /\ Coherent(st) /\ Conserved(st, Owed(tx), supply, deaths)
  BY <1>1, BlockIs
<1>3. tx.phase = "none" /\ st.suicides = <<>>
  BY <1>1, <1>2 DEF Inv, Shape, NoSuicides
<1>4. /\ st' \in States /\ st'.journal = <<>> /\ st'.suicides = st.suicides
      /\ Coherent(st') /\ Base(st') /\ Balances(st') = Balances(st)
  BY <1>1, <1>2, CommitIs
<1>5. Wealth(st') = Wealth(st)
  BY <1>2, <1>4, WealthSame
<1>6. Conserved(st', Owed(tx'), supply', deaths')
  BY <1>1, <1>2, <1>4, <1>5 DEF Conserved
<1>7. Reliable(st', frames', Owed(tx'), supply', deaths')
  BY <1>1, <1>4, <1>6, ReliableNone
<1>8. Shape(frames', tx') /\ NoSuicides(st', frames', tx')
  BY <1>1, <1>3, <1>4, Nobody DEF Shape, NoSuicides
<1> QED
  BY <1>1, <1>2, <1>3, <1>4, <1>7, <1>8, Nobody DEF Inv

LEMMA OpeningIs ==
  ASSUME NEW s \in States, NEW f, f.snap \in Snaps
  PROVE  LET u == Opening(s, f) IN
         /\ u \in States /\ Coherent(u) /\ Base(u) /\ u.journal = <<>> /\ u.rules = s.rules
         /\ Aux(u) = f.snap.aux
<1> DEFINE o == Opened(f.snap.root, s.rules)
           u == Opening(s, f)
<1>1. f.snap.root \in Tries /\ f.snap.aux \in Auxes /\ s.rules \in SUBSET STRING
  BY DEF Snaps, States
<1>2. o \in States /\ o.journal = <<>> /\ o.rules = s.rules /\ Coherent(o) /\ Base(o)
  BY <1>1, OpenedIs
<1> HIDE DEF o
<1>3. u \in States /\ Alike(u, o) /\ Aux(u) = f.snap.aux
  BY <1>1, <1>2, RestoredIs DEF Opening, o
<1> HIDE DEF u
<1>4. Alike(o, u) /\ u.journal = <<>> /\ u.rules = s.rules
  BY <1>2, <1>3 DEF Alike
<1>5. Later(o, u)
  BY <1>2, <1>3, <1>4, AlikeLater
<1>6. Coherent(u) /\ Base(u)
  BY <1>2, <1>3, <1>5, BaseKept DEF Later
<1> QED
  BY <1>3, <1>4, <1>6 DEF u

(* A block that is refused leads back to where it began.                     *)
LEMMA RefuseBlockIs ==
  ASSUME Inv, RefuseBlock
  PROVE  /\ Len(frames) = 1 /\ tx.phase = "none" /\ frames' = <<>> /\ supply' = Top.supply
         /\ tx' = tx /\ deaths' = deaths /\ Top = frames[1] /\ st' = Opening(st, Top)
<1>1. /\ Len(frames) = 1 /\ tx.phase = "none" /\ frames' = <<>> /\ supply' = Top.supply
      /\ tx' = tx /\ deaths' = deaths
      /\ st' = revert(st, Top.snap) \/ st' = revert(commit(st), Top.snap)
  BY DEF RefuseBlock
<1>2. /\ Top = frames[1] /\ st \in States /\ Coherent(st) /\ Base(st)
      /\ Reliable(st, frames, Owed(tx), supply, deaths)
  BY <1>1, BlockIs
<1>3. Top.snap \in Snaps /\ Top.snap.L = 0
  BY <1>1, <1>2 DEF Reliable, Underneath
<1>4. commit(st) \in States /\ Base(commit(st)) /\ commit(st).rules = st.rules
  BY <1>2, CommitIs
<1>5. st' = Opening(st, Top)
  <2>1. revert(st, Top.snap) = Opening(st, Top)
    BY <1>2, <1>3, RevertAll DEF Opening
  <2>2. revert(commit(st), Top.snap) = Opening(st, Top)
    BY <1>3, <1>4, RevertAll DEF Opening
  <2> QED
    BY <1>1, <2>1, <2>2
<1> QED
  BY <1>1, <1>2, <1>5

LEMMA RefuseBlockInv ==
  ASSUME Inv, RefuseBlock
  PROVE  Inv'
<1>1. /\ Len(frames) = 1 /\ tx.phase = "none" /\ frames' = <<>> /\ supply' = Top.supply
      /\ tx' = tx /\ deaths' = deaths /\ Top = frames[1] /\ st' = Opening(st, Top)
  BY RefuseBlockIs
<1>2. /\ Top \in BlockFrame /\ tx \in Phases /\ deaths \in BOOLEAN /\ st \in States
      /\ Top.snap.aux.suicides = <<>>
      /\ Reliable(st, frames, Owed(tx), supply, deaths)
  BY <1>1, BlockIs
<1>3. /\ Top.snap \in Snaps
      /\ Conserved(Opening(st, Top), 0, Top.supply, deaths)
  BY <1>1, <1>2 DEF Reliable, Underneath, ConservedBelow
<1>4. st' \in States /\ Coherent(st') /\ Base(st') /\ st'.journal = <<>>
      /\ Aux(st') = Top.snap.aux
  BY <1>1, <1>2, <1>3, OpeningIs
<1>5. supply' \in Nat /\ Owed(tx') = 0
  BY <1>1, <1>2 DEF BlockFrame, Owed
<1>6. Reliable(st', frames', Owed(tx'), supply', deaths')
  BY <1>1, <1>3, <1>4, <1>5, ReliableNone
<1>7. Shape(frames', tx') /\ NoSuicides(st', frames', tx')
  <2>1. st'.suicides = <<>>
    BY <1>2, <1>4 DEF Aux
  <2> QED
    BY <1>1, <2>1, Nobody DEF Shape, NoSuicides
<1> QED
  BY <1>1, <1>2, <1>4, <1>5, <1>6, <1>7, Nobody DEF Inv

LEMMA AbandonBlockInv ==
  ASSUME Inv, AbandonBlock
  PROVE  Inv'
<1>1. /\ Len(frames) = 1 /\ tx.phase = "none" /\ frames' = <<>>
      /\ tx' = [tx EXCEPT !.blocks = MaxBlocks]
      /\ st' = st /\ supply' = supply /\ deaths' = deaths
  BY DEF AbandonBlock
<1>2. /\ tx \in Phases /\ supply \in Nat /\ deaths \in BOOLEAN
      /\ st \in States /\ Coherent(st) /\ Base(st)
      /\ Conserved(st, Owed(tx), supply, deaths)
      /\ st.suicides = <<>>
  BY <1>1, BlockIs
<1>3. tx' \in Phases /\ tx'.phase = "none" /\ tx'.blocks = MaxBlocks /\ MaxBlocks \in Nat
  BY <1>1, <1>2, ValuesAssumption DEF Phases
<1>4. Owed(tx') = Owed(tx)
  BY <1>1, <1>3 DEF Owed
<1>5. Reliable(st', frames', Owed(tx'), supply', deaths')
  BY <1>1, <1>2, <1>4, ReliableNone
<1>6. Shape(frames', tx') /\ NoSuicides(st', frames', tx')
  BY <1>1, <1>2, <1>3, Nobody DEF Shape, NoSuicides
<1>7. ~(tx'.blocks < MaxBlocks)
  BY <1>3
<1> QED
  BY <1>1, <1>2, <1>3, <1>5, <1>6, <1>7, Nobody DEF Inv

-------------------------------------------------------------------------------
(* A transaction begins.                                                     *)

(* Where a creation is addressed to does not matter.                         *)
CreationAt(s, sender, addr, placed) ==
  LET counted == IF sender = Sender THEN s ELSE increment_nonce(s, sender)
      taken == /\ "metropolis" \in s.rules
               /\ counted.cache[addr].nonce # 0 \/ counted.cache[addr].code # NoCode
      b == get_balance(counted, addr)
      cleared == IF b = 0 THEN counted
                 ELSE set_code(set_nonce(set_balance(counted, addr, b), addr, 0), addr, NoCode)
      born == set_nonce(cleared, addr, IF "spurious_dragon" \in s.rules THEN 1 ELSE 0)
  IN IF taken
     THEN [st |-> counted,
           frame |-> Frame([placed EXCEPT !.runs = FALSE, !.doomed = TRUE],
                           snapshot(counted), snapshot(counted), World(counted))]
     ELSE Entered(born, placed, snapshot(cleared), World(cleared))

SameCreation(s, m, w) == EnteredCreation(s, m) = EnteredCreation(s, w)

LEMMA CreationAnywhere ==
  ASSUME NEW s, NEW sender, NEW to, NEW other, NEW value, NEW gas, NEW transfers \in BOOLEAN,
         NEW static \in BOOLEAN, NEW code \in BOOLEAN
  PROVE  SameCreation(s, Message(sender, to, value, gas, transfers, static, code),
                      Message(sender, other, value, gas, transfers, static, code))
<1> DEFINE m == Message(sender, to, value, gas, transfers, static, code)
           w == Message(sender, other, value, gas, transfers, static, code)
           addr == NextAddress(s, sender)
           placed == [m EXCEPT !.to = addr, !.create = TRUE]
           there == [w EXCEPT !.to = addr, !.create = TRUE]
<1>1. m.sender = sender /\ w.sender = sender
  BY DEF Message
<1>2. placed = there
  <2> DEFINE T == [sender : {sender}, to : {addr, to, other}, value : {value}, gas : {gas},
                   transfers : BOOLEAN, static : BOOLEAN, create : BOOLEAN, doomed : BOOLEAN,
                   runs : BOOLEAN]
  <2>1. placed \in T /\ there \in T
    BY DEF Message
  <2>2. /\ placed.to = there.to /\ placed.transfers = there.transfers
        /\ placed.static = there.static /\ placed.create = there.create
        /\ placed.doomed = there.doomed /\ placed.runs = there.runs
    BY DEF Message
  <2> HIDE DEF placed, there
  <2> QED
    BY <2>1, <2>2
<1> HIDE DEF m, w
<1>3. /\ EnteredCreation(s, m)
         = CreationAt(s, m.sender, NextAddress(s, m.sender),
                      [m EXCEPT !.to = NextAddress(s, m.sender), !.create = TRUE])
      /\ EnteredCreation(s, w)
         = CreationAt(s, w.sender, NextAddress(s, w.sender),
                      [w EXCEPT !.to = NextAddress(s, w.sender), !.create = TRUE])
  BY DEF EnteredCreation, CreationAt
<1>4. EnteredCreation(s, m) = EnteredCreation(s, w)
  BY <1>1, <1>2, <1>3
<1> QED
  BY <1>4 DEF m, w, SameCreation

Begins(startgas) ==
  /\ \E s, o, n, f :
       /\ Reliable(s, frames, startgas, supply, deaths) /\ s.rules = st.rules
       /\ Pushed(s, o, n, st', f) /\ ~f.static /\ f.gas <= startgas
       /\ frames' = Append(frames, f)
       /\ /\ "spurious_dragon" \in st.rules /\ Tidy(st)
          /\ "metropolis" \notin st.rules /\ f.create /\ ~f.doomed =>
               f.to # f.sender /\ ~Peopled(st, f.to)
          => PushedTidily(s, o, st', f)
  /\ Len(frames) = 1 /\ tx.phase = "none" /\ ~Top.runs
  /\ tx' = [tx EXCEPT !.phase = "running", !.startgas = startgas]
  /\ UNCHANGED <<supply, deaths>>

LEMMA BeginsInv ==
  ASSUME Inv, NEW startgas \in Nat, Begins(startgas)
  PROVE  Inv'
<1>1. PICK s, o, n, f :
        /\ Reliable(s, frames, startgas, supply, deaths)
        /\ Pushed(s, o, n, st', f) /\ ~f.static /\ f.gas <= startgas
        /\ frames' = Append(frames, f)
  BY DEF Begins
<1>2. /\ Len(frames) = 1 /\ tx.phase = "none" /\ ~Top.runs
      /\ tx' = [tx EXCEPT !.phase = "running", !.startgas = startgas]
      /\ supply' = supply /\ deaths' = deaths
  BY DEF Begins
<1>3. /\ Top = frames[1] /\ frames # <<>> /\ frames \in Stacks /\ tx \in Phases
      /\ supply \in Nat /\ deaths \in BOOLEAN /\ frames[1].snap.aux.suicides = <<>>
  BY <1>2, BlockIs
<1>4. tx' \in Phases /\ tx'.phase = "running" /\ tx'.startgas = startgas /\ Owed(tx') = startgas
  BY <1>2, <1>3 DEF Phases, Owed
<1>5. f \in MessageFrame /\ f.gas \in Nat
  BY <1>1 DEF Pushed, MessageFrame
<1>6. Reliable(st', frames', startgas, supply, deaths)
  <2>1. f.static => ~f.create /\ Idle(o, st')
    BY <1>1
  <2>2. Len(frames) > 1 /\ Last(frames).static => f.static /\ Idle(s, o)
    BY <1>2
  <2>3. Reliable(st', Append(frames, f), startgas, supply, deaths)
    BY <1>1, <1>3, <2>1, <2>2, ReliablePush
  <2> QED
    BY <1>1, <2>3
<1>7. /\ frames' \in Stacks /\ Len(frames') = 2 /\ frames'[1] = frames[1]
  <2> DEFINE gs == Append(frames, f)
  <2>1. /\ gs \in Stacks /\ Len(gs) = Len(frames) + 1
        /\ \A k \in 1..Len(frames) : gs[k] = frames[k]
    BY <1>3, <1>5, StackAppended
  <2> HIDE DEF gs
  <2>2. frames' = gs /\ 1 \in 1..Len(frames)
    BY <1>1, <1>2 DEF gs
  <2> QED
    BY <1>2, <2>1, <2>2
<1>8. Gas(frames') = f.gas
  <2>0. Len(frames) <= 1
    BY <1>2
  <2>1. Gas(frames) = 0
    BY <1>3, <2>0, GasIs
  <2>2. Gas(frames') = Gas(frames) + f.gas
    BY <1>1, <1>3, <1>5, GasAppended
  <2> QED
    BY <1>5, <2>1, <2>2
<1>9. Left(frames', tx') = f.gas
  BY <1>4, <1>5, <1>8 DEF Left
<1>10. Shape(frames', tx') /\ NoSuicides(st', frames', tx')
  BY <1>2, <1>3, <1>4, <1>7 DEF Shape, NoSuicides
<1>11. frames' # <<>>
  BY <1>7
<1> QED
  BY <1>1, <1>2, <1>3, <1>4, <1>6, <1>7, <1>9, <1>10, <1>11 DEF Inv

(* The purchase of the gas.                                                  *)
Bought(startgas) ==
  delta_balance(increment_nonce([st EXCEPT !.logs = <<>>, !.suicides = <<>>, !.refunds = 0], Sender),
                Sender, -startgas)

LEMMA BoughtIs ==
  ASSUME Inv, Len(frames) = 1, tx.phase = "none",
         NEW startgas \in Nat, get_balance(st, Sender) >= startgas
  PROVE  LET s == Bought(startgas) IN
         /\ Reliable(s, frames, startgas, supply, deaths) /\ s.rules = st.rules
         /\ Codes(s) = Codes(st) /\ Nonces(s)[Sender] # 0
         /\ \A a \in Address \ {Sender} : Nonces(s)[a] = Nonces(st)[a]
         /\ Tidy(st) => Tidy(s)
<1> DEFINE r == [st EXCEPT !.logs = <<>>, !.suicides = <<>>, !.refunds = 0]
           i == increment_nonce(r, Sender)
           cost == -startgas
           s == delta_balance(i, Sender, cost)
<1>1. /\ frames \in Stacks /\ Reliable(st, frames, Owed(tx), supply, deaths)
      /\ st \in States /\ Coherent(st) /\ Base(st)
      /\ Conserved(st, Owed(tx), supply, deaths) /\ st.suicides = <<>> /\ Owed(tx) = 0
      /\ Wealth(st) \in Nat /\ supply \in Nat
  BY BlockIs DEF Owed
<1>2. r \in States /\ Alike(st, r) /\ r.suicides = <<>>
  BY <1>1 DEF States, Alike
<1> HIDE DEF r
<1>3. Later(st, r) /\ SameParts(st, r) /\ Wealth(r) = Wealth(st)
  BY <1>1, <1>2, AlikeLater
<1>4. Sender \in Address /\ cost \in Int
  BY AddressesAssumption
<1>5. /\ Changed(r, i) /\ Nonces(i) = [Nonces(r) EXCEPT ![Sender] = Nonces(r)[Sender] + 1]
      /\ Balances(i) = Balances(r) /\ Codes(i) = Codes(r) /\ Storages(i) = Storages(r)
  BY <1>2, <1>4, IncrementIs
<1> HIDE DEF i
<1>6. i \in States /\ Wealth(i) = Wealth(r)
  BY <1>2, <1>5, WealthSame DEF Changed
<1>7. Balances(st) \in [Address -> Nat] /\ Nonces(st) \in [Address -> Nat]
  BY <1>1, PartsTyped
<1>8. Balances(i)[Sender] + cost >= 0
  <2>1. Balances(i)[Sender] = get_balance(st, Sender)
    BY <1>3, <1>4, <1>5 DEF SameParts, Balances, get_balance
  <2>2. get_balance(st, Sender) \in Nat
    BY <1>1, <1>4, <1>7 DEF Balances, get_balance
  <2> QED
    BY <2>1, <2>2
<1> HIDE DEF cost
<1>9. /\ Changed(i, s) /\ SameElse(i, s) /\ Wealth(s) = Wealth(i) + cost
      /\ Balances(s) = [Balances(i) EXCEPT ![Sender] = Balances(i)[Sender] + cost]
  BY <1>4, <1>6, <1>8, DeltaIs
<1> HIDE DEF s
<1>10. /\ Later(st, s) /\ s \in States /\ s.rules = st.rules /\ s.suicides = <<>>
       /\ Coherent(s) /\ Base(s)
  <2>1. Changed(r, s)
    BY <1>2, <1>5, <1>9, ChangedOn
  <2>2. Later(st, s)
    BY <1>1, <1>3, <2>1, ChangedLater, LaterOn
  <2>3. s.suicides = r.suicides
    BY <2>1 DEF Changed, Aux
  <2> QED
    BY <1>1, <1>2, <2>2, <2>3, BaseKept DEF Later
<1>11. Wealth(s) + startgas = Wealth(st)
  BY <1>1, <1>3, <1>4, <1>6, <1>9 DEF cost
<1>12. Conserved(s, startgas, supply, deaths)
  <2>1. Wealth(st) + 0 = Wealth(st)
    BY <1>1
  <2> QED
    BY <1>1, <1>10, <1>11, <2>1 DEF Conserved
<1>13. Reliable(s, frames, startgas, supply, deaths)
  BY <1>1, <1>10, <1>12, ReliableBlock
<1>14. /\ Codes(s) = Codes(st) /\ Storages(s) = Storages(st)
       /\ Nonces(s) = [Nonces(st) EXCEPT ![Sender] = Nonces(st)[Sender] + 1]
  BY <1>3, <1>5, <1>9 DEF SameParts, SameElse
<1>15. /\ Nonces(s)[Sender] # 0
       /\ \A a \in Address \ {Sender} : Nonces(s)[a] = Nonces(st)[a]
  BY <1>4, <1>7, <1>14
<1>16. \A a \in Address \ {Sender} : Balances(s)[a] = Balances(st)[a]
  BY <1>3, <1>4, <1>5, <1>7, <1>9 DEF SameParts
<1>17. Tidy(st) => Tidy(s)
  <2>1. \A b \in Address \ {Sender} :
          /\ Nonces(s)[b] = Nonces(st)[b] /\ Codes(s)[b] = Codes(st)[b]
          /\ Storages(s)[b] = Storages(st)[b] /\ Balances(s)[b] >= Balances(st)[b]
    BY <1>7, <1>14, <1>15, <1>16
  <2>2. Peopled(s, Sender)
    BY <1>15 DEF Peopled
  <2> QED
    BY <1>1, <1>4, <1>10, <1>15, <2>1, <2>2, TidyAt
<1>18. Bought(startgas) = s
  BY DEF Bought, s, i, r, cost
<1> QED
  BY <1>10, <1>13, <1>14, <1>15, <1>17, <1>18

LEMMA BeginTransactionBegins ==
  ASSUME Inv, NEW to \in Address \union {CREATE}, NEW value \in Nat, NEW startgas \in Nat,
         to = CREATE => startgas > 0, BeginTransaction(to, value, startgas)
  PROVE  Begins(startgas)
<1> DEFINE s == Bought(startgas)
           gas == startgas - (IF to = CREATE THEN 1 ELSE 0)
           code == to = CREATE \/ HasCode(to)
           yes == TRUE
           no == FALSE
           m == Message(Sender, to, value, gas, yes, no, code)
           e == IF to = CREATE THEN EnteredCreation(s, m)
                ELSE Entered(s, m, snapshot(s), World(s))
<1>1. /\ Len(frames) = 1 /\ tx.phase = "none" /\ ~Top.runs
      /\ to = CREATE => NextAddress(s, Sender) \in Address
      /\ get_balance(st, Sender) >= value + startgas
      /\ st' = e.st /\ frames' = Append(frames, e.frame)
      /\ tx' = [tx EXCEPT !.phase = "running", !.startgas = startgas]
      /\ UNCHANGED <<supply, deaths>>
  BY DEF BeginTransaction, Bought
<1>2. st \in States /\ Sender \in Address /\ CREATE \notin Address
  BY <1>1, BlockIs, AddressesAssumption
<1>3. get_balance(st, Sender) >= startgas
  <2>1. get_balance(st, Sender) \in Nat
    BY <1>2 DEF States, Account, get_balance
  <2> QED
    BY <1>1, <2>1
<1> HIDE DEF s
<1>4. /\ Reliable(s, frames, startgas, supply, deaths) /\ s.rules = st.rules
      /\ Codes(s) = Codes(st) /\ Nonces(s)[Sender] # 0
      /\ \A a \in Address \ {Sender} : Nonces(s)[a] = Nonces(st)[a]
      /\ Tidy(st) => Tidy(s)
  BY <1>1, <1>3, BoughtIs DEF s
<1>5. s \in States /\ Peopled(s, Sender)
  BY <1>4 DEF Reliable, Peopled
<1>6. gas \in Nat /\ gas <= startgas
  BY <1>1
<1>7. code \in BOOLEAN /\ yes \in BOOLEAN /\ no \in BOOLEAN /\ yes = TRUE /\ no = FALSE
      /\ (to # CREATE /\ code => HasCode(to))
  BY DEF HasCode
<1> HIDE DEF gas, code, yes, no
<1>8. CASE to = CREATE
  <2> DEFINE w == Message(Sender, Sender, value, gas, yes, no, code)
  <2>1. Messaged(w, Sender, Sender, value, gas, yes, no, code)
    BY <1>2, <1>6, <1>7, MessageIs
  <2>2. EnteredCreation(s, m) = EnteredCreation(s, w)
    <3>1. SameCreation(s, m, w)
      BY <1>7, CreationAnywhere
    <3> QED
      BY <3>1 DEF SameCreation
  <2> HIDE DEF w
  <2>3. w \in MessageSet /\ ~w.doomed /\ w.sender = Sender /\ w.gas = gas /\ w.static = FALSE
    BY <1>7, <2>1 DEF Messaged
  <2>4. e = EnteredCreation(s, w)
    BY <1>8, <2>2
  <2> HIDE DEF e
  <2>5. CreatesIn(s, w, e)
    BY <1>1, <1>5, <1>8, <2>3, <2>4, CreationPushes
  <2>6. PICK o, n :
          /\ Pushed(s, o, n, e.st, e.frame)
          /\ /\ "spurious_dragon" \in s.rules /\ Tidy(s) /\ Peopled(s, w.sender)
             /\ "metropolis" \notin s.rules /\ ~e.frame.doomed =>
                  e.frame.to # w.sender /\ ~Peopled(s, e.frame.to)
             => PushedTidily(s, o, e.st, e.frame)
    BY <2>5 DEF CreatesIn
  <2>7. /\ e.frame.gas = gas /\ ~e.frame.static /\ e.frame.create = TRUE
        /\ e.frame.sender = Sender
    BY <2>3, <2>5 DEF CreatesIn
  <2>8. e.frame.to \in Address
    BY <2>6 DEF Pushed, MessageFrame
  <2>9. ASSUME "spurious_dragon" \in st.rules, Tidy(st),
               "metropolis" \notin st.rules /\ e.frame.create /\ ~e.frame.doomed =>
                 e.frame.to # e.frame.sender /\ ~Peopled(st, e.frame.to)
        PROVE  PushedTidily(s, o, e.st, e.frame)
    <3>1. ASSUME "metropolis" \notin st.rules, ~e.frame.doomed
          PROVE  e.frame.to # Sender /\ ~Peopled(s, e.frame.to)
      BY <1>4, <2>7, <2>8, <2>9, <3>1 DEF Peopled
    <3> QED
      BY <1>4, <1>5, <2>3, <2>6, <2>9, <3>1
  <2>10. e.frame.gas <= startgas
    BY <1>6, <2>7
  <2> QED
    BY <1>1, <1>4, <2>6, <2>7, <2>9, <2>10 DEF Begins
<1>9. CASE to # CREATE
  <2>1. to \in Address
    BY <1>9
  <2>2. Messaged(m, Sender, to, value, gas, yes, no, code)
    BY <1>2, <1>6, <1>7, <2>1, MessageIs
  <2>3. e = Entered(s, m, snapshot(s), World(s))
    BY <1>9
  <2> HIDE DEF m, e
  <2>4. /\ m \in MessageSet /\ m.sender = Sender /\ m.gas = gas /\ m.static = FALSE
        /\ m.to = to /\ m.create = FALSE /\ (m.runs => HasCode(to))
    BY <1>7, <1>9, <2>2 DEF Messaged
  <2>5. CallsIn(s, m, e)
    BY <1>5, <2>3, <2>4, CallPushes
  <2>6. /\ e.frame.to = to /\ e.frame.gas = gas /\ ~e.frame.static
        /\ e.frame.create = FALSE /\ (e.frame.runs => HasCode(to)) /\ SameElse(s, e.st)
        /\ Pushed(s, s, s, e.st, e.frame)
    BY <2>4, <2>5 DEF CallsIn
  <2>7. ASSUME Tidy(st) PROVE PushedTidily(s, s, e.st, e.frame)
    <3>1. Tidy(s) /\ Tidy(e.st)
      BY <1>4, <1>5, <2>4, <2>5, <2>7 DEF CallsIn
    <3>2. Nonces(e.st) = Nonces(s) /\ Codes(e.st) = Codes(s) /\ e.st.rules = s.rules
      BY <2>6 DEF SameElse, Pushed, Later
    <3>3. Lives(s, e.st) /\ Lives(s, s)
      BY <3>2, LivesSame
    <3>4. ASSUME e.frame.runs PROVE Codes(e.st)[e.frame.to] # NoCode
      <4>1. Codes(st)[to] # NoCode
        BY <2>1, <2>6, <3>4 DEF HasCode, Codes
      <4> QED
        BY <1>4, <2>6, <3>2, <4>1
    <3> QED
      BY <2>6, <3>1, <3>3, <3>4 DEF PushedTidily
  <2>8. e.frame.gas <= startgas
    BY <1>6, <2>6
  <2> QED
    BY <1>1, <1>4, <2>6, <2>7, <2>8 DEF Begins
<1> QED
  BY <1>8, <1>9

LEMMA TransactionIs ==
  ASSUME Inv, st.txindex < Len(Transactions), NEW t \in Transactions[st.txindex + 1]
  PROVE  /\ t.to \in Address \union {CREATE} /\ t.value \in Nat /\ t.gas \in Nat
         /\ t.to = CREATE => t.gas > 0
<1>1. st.txindex \in Nat
  BY DEF Inv, Reliable, States
<1> DEFINE i == st.txindex + 1
<1>2. i \in DOMAIN Transactions
  BY <1>1, TransactionsAssumption
<1>3. Transactions[i] \in SUBSET [to : Address \union {CREATE}, value : Nat, gas : Nat]
  BY <1>2, TransactionsAssumption
<1>4. t \in Transactions[i]
  OBVIOUS
<1> HIDE DEF i
<1>5. t.to = CREATE => t.gas > 0
  BY <1>2, <1>4, TransactionsAssumption
<1> QED
  BY <1>3, <1>4, <1>5

-------------------------------------------------------------------------------
(* A transaction ends.  Those who committed suicide are deleted one after    *)
(* the other.                                                                *)
Burials(g, ls, s) ==
  g = [n \in 0..Len(ls) |-> IF n = 0 THEN s ELSE Buried(g[n - 1], ls[n])]

Everyone(ls, s) ==
  LET cleared[n \in 0..Len(ls)] == IF n = 0 THEN s ELSE Buried(cleared[n - 1], ls[n])
  IN cleared[Len(ls)]

LEMMA BurialsExist ==
  ASSUME NEW s \in States, NEW ls \in Seq(Address)
  PROVE  \E g : Burials(g, ls, s)
<1> DEFINE N == Len(ls)
           F == [k \in 1..N |-> [u \in States |-> Buried(u, ls[k])]]
<1>1. N \in Nat /\ \A k \in 1..N : ls[k] \in Address
  OBVIOUS
<1>2. ASSUME NEW k \in 1..N PROVE F[k] \in [States -> States]
  <2>1. \A u \in States : Buried(u, ls[k]) \in States
    BY <1>1, BuriedIs DEF Gone, Changed
  <2> QED
    BY <2>1
<1>3. Loop(F, N, States)
  BY <1>2 DEF Loop
<1>4. \A k \in 1..N, u \in States : F[k][u] = Buried(u, ls[k])
  OBVIOUS
<1> HIDE DEF F
<1>5. PICK h : Run(h, F, N, States, s)
  BY <1>1, <1>3, Rounds
<1>6. h \in [0..N -> States] /\ h[0] = s /\ \A k \in 1..N : h[k] = F[k][h[k - 1]]
  BY <1>5 DEF Run
<1>7. ASSUME NEW n \in 0..N PROVE h[n] = IF n = 0 THEN s ELSE Buried(h[n - 1], ls[n])
  <2>1. CASE n = 0
    BY <1>6, <2>1
  <2>2. CASE n # 0
    <3>1. n \in 1..N /\ n - 1 \in 0..N
      BY <1>1, <2>2
    <3>2. h[n - 1] \in States
      BY <1>6, <3>1
    <3> QED
      BY <1>4, <1>6, <2>2, <3>1, <3>2
  <2> QED
    BY <2>1, <2>2
<1>8. h = [n \in 0..N |-> h[n]]
  BY <1>6
<1> QED
  BY <1>7, <1>8 DEF Burials

LEMMA BurialIs ==
  ASSUME NEW s \in States, NEW a \in Address
  PROVE  LET t == Buried(s, a) IN
         /\ Later(s, t) /\ t.suicides = s.suicides /\ Wealth(t) <= Wealth(s)
         /\ Wealth(t) \in Nat
         /\ Tidy(s) => Tidy(t)
<1> DEFINE t == Buried(s, a)
<1>1. /\ Changed(s, t)
      /\ Balances(t) = [Balances(s) EXCEPT ![a] = 0]
      /\ Nonces(t) = [Nonces(s) EXCEPT ![a] = 0]
      /\ Codes(t) = [Codes(s) EXCEPT ![a] = NoCode]
      /\ Storages(t) = [Storages(s) EXCEPT ![a] = NoStorage]
  BY BuriedIs DEF Gone
<1> HIDE DEF t
<1>2. Later(s, t) /\ t \in States /\ t.rules = s.rules /\ Aux(t) = Aux(s)
  BY <1>1, ChangedLater DEF Changed
<1>3. t.suicides = s.suicides
  BY <1>2 DEF Aux
<1>4. Wealth(t) = Wealth(s) - Balances(s)[a] + 0 /\ Wealth(s) \in Nat /\ Wealth(t) \in Nat
  BY <1>1, <1>2, WealthSet, WealthIs
<1>5. /\ Balances(s) \in [Address -> Nat] /\ Nonces(s) \in [Address -> Nat]
      /\ Codes(s) \in [Address -> Code] /\ Storages(s) \in [Address -> [Key -> Int]]
  BY PartsTyped
<1>6. ASSUME Tidy(s) PROVE Tidy(t)
  <2>1. ASSUME NEW b \in Address
        PROVE  \/ Peopled(t, b)
               \/ Storages(t)[b] = NoStorage
               \/ ~Peopled(s, b) /\ Balances(t)[b] >= Balances(s)[b]
                  /\ Storages(t)[b] = Storages(s)[b]
    <3>1. CASE b = a
      BY <1>1, <1>5, <3>1
    <3>2. CASE b # a
      <4>1. /\ Nonces(t)[b] = Nonces(s)[b] /\ Codes(t)[b] = Codes(s)[b]
            /\ Storages(t)[b] = Storages(s)[b] /\ Balances(t)[b] = Balances(s)[b]
        BY <1>1, <1>5, <3>2
      <4> QED
        BY <1>5, <4>1 DEF Peopled
    <3> QED
      BY <3>1, <3>2
  <2> QED
    BY <1>2, <1>6, <2>1, TidyKept
<1>7. Balances(s)[a] \in Nat
  BY <1>5
<1> QED
  BY <1>2, <1>3, <1>4, <1>6, <1>7 DEF t

LEMMA EveryoneIs ==
  ASSUME NEW s \in States, NEW ls \in Seq(Address)
  PROVE  LET t == Everyone(ls, s) IN
         /\ Later(s, t) /\ t.suicides = s.suicides /\ Wealth(t) <= Wealth(s)
         /\ Tidy(s) => Tidy(t)
         /\ ls = <<>> => t = s
<1> DEFINE N == Len(ls)
           cleared[n \in 0..N] == IF n = 0 THEN s ELSE Buried(cleared[n - 1], ls[n])
<1>1. Burials(cleared, ls, s)
  <2>1. \E g : Burials(g, ls, s)
    BY BurialsExist
  <2> QED
    BY <2>1, Zenon DEF Burials
<1>2. Everyone(ls, s) = cleared[N]
  BY DEF Everyone
<1> HIDE DEF cleared
<1>3. N \in Nat /\ \A k \in 1..N : ls[k] \in Address
  OBVIOUS
<1>4. /\ cleared[0] = s
      /\ \A k \in 1..N : cleared[k] = Buried(cleared[k - 1], ls[k])
  BY <1>1, <1>3 DEF Burials
<1> DEFINE Good(t) ==
             /\ Later(s, t) /\ t.suicides = s.suicides /\ Wealth(t) <= Wealth(s)
             /\ Wealth(t) \in Nat
             /\ Tidy(s) => Tidy(t)
           T == {k \in 0..N : Good(cleared[k])}
<1>5. Wealth(s) \in Nat
  BY WealthIs
<1>6. 0 \in T
  <2>1. Good(s)
    BY <1>5, ChangedSelf
  <2> HIDE DEF Good
  <2> QED
    BY <1>3, <1>4, <2>1
<1>7. ASSUME NEW k \in 1..N, k - 1 \in T PROVE k \in T
  <2> DEFINE u == cleared[k - 1]
             a == ls[k]
  <2>1. Good(u) /\ a \in Address /\ cleared[k] = Buried(u, a)
    BY <1>3, <1>4, <1>7
  <2> HIDE DEF u, a
  <2>2. Later(s, u) /\ u \in States
    BY <2>1 DEF Later
  <2> DEFINE t == Buried(u, a)
  <2>3. /\ Later(u, t) /\ t.suicides = u.suicides /\ Wealth(t) <= Wealth(u)
        /\ Wealth(t) \in Nat
        /\ Tidy(u) => Tidy(t)
    BY <2>1, <2>2, BurialIs
  <2> HIDE DEF t
  <2>4. Later(s, t)
    BY <2>2, <2>3, LaterOn
  <2>5. Good(t)
    BY <1>5, <2>1, <2>3, <2>4
  <2> HIDE DEF Good
  <2>6. k \in 0..N /\ Good(cleared[k])
    BY <1>3, <2>1, <2>5 DEF t
  <2> QED
    BY <2>6
<1>8. N \in T
  <2> HIDE DEF T
  <2>1. \A k \in 0..N : k \in T
    BY <1>3, <1>6, <1>7, UpTo
  <2> QED
    BY <1>3, <2>1
<1>9. Good(cleared[N])
  BY <1>8
<1>10. ASSUME ls = <<>> PROVE cleared[N] = s
  BY <1>4, <1>10
<1> QED
  BY <1>2, <1>9, <1>10

LEMMA Product ==
  ASSUME NEW x \in Nat, NEW y \in Nat
  PROVE  x * y \in Nat
OBVIOUS

LEMMA Half ==
  ASSUME NEW x \in Nat
  PROVE  x \div 2 \in Nat /\ x \div 2 <= x
OBVIOUS

(* The gas that is left is sold, and a part of what was used refunded.       *)
Refunded ==
  LET refunds == st.refunds + Cardinality(Range(st.suicides)) * GSUICIDEREFUND
  IN IF tx.res = 0 THEN 0 ELSE Min({refunds, (tx.startgas - tx.gas) \div 2})

LEMMA RefundedIs ==
  ASSUME Inv, Len(frames) = 1, tx.phase = "done"
  PROVE  /\ tx.startgas \in Nat /\ tx.gas \in Nat /\ tx.gas <= tx.startgas
         /\ Refunded \in Nat /\ Refunded <= tx.startgas - tx.gas
<1> DEFINE count == Cardinality(Range(st.suicides))
           refunds == st.refunds + count * GSUICIDEREFUND
           half == (tx.startgas - tx.gas) \div 2
<1>1. /\ tx \in Phases /\ st \in States /\ frames \in Stacks
  BY BlockIs
<1>2. tx.startgas \in Nat /\ tx.gas \in Nat
  BY <1>1 DEF Phases
<1>3. tx.gas <= tx.startgas
  <2>0. Len(frames) <= 1
    OBVIOUS
  <2>1. Gas(frames) = 0
    BY <1>1, <2>0, GasIs
  <2>2. Left(frames, tx) = tx.gas
    BY <1>2, <2>1 DEF Left
  <2> QED
    BY <2>2 DEF Inv
<1>4. count \in Nat
  <2>1. Range(st.suicides) \subseteq Address
    BY <1>1 DEF Range, States
  <2>2. IsFiniteSet(Range(st.suicides))
    BY <2>1, AddressAssumption, FS_Subset
  <2> QED
    BY <2>2, FS_CardinalityType
<1> HIDE DEF count
<1>5. st.refunds \in Nat /\ GSUICIDEREFUND \in Nat
  BY <1>1, GasAssumption DEF States
<1>6. refunds \in Nat
  <2>1. count * GSUICIDEREFUND \in Nat
    BY <1>4, <1>5, Product
  <2> QED
    BY <1>5, <2>1
<1>7. tx.startgas - tx.gas \in Nat
  BY <1>2, <1>3
<1>8. half \in Nat /\ half <= tx.startgas - tx.gas
  BY <1>7, Half
<1>9. Refunded = IF tx.res = 0 THEN 0 ELSE Min({refunds, half})
  BY DEF Refunded, count
<1> HIDE DEF refunds, half
<1>10. Min({refunds, half}) \in {refunds, half} /\ Min({refunds, half}) <= half
  <2>1. refunds \in Int /\ half \in Int
    BY <1>6, <1>8
  <2> QED
    BY <2>1, MinIs
<1> QED
  BY <1>2, <1>3, <1>6, <1>7, <1>8, <1>9, <1>10

Sold ==
  delta_balance(delta_balance(st, Sender, tx.gas + Refunded),
                Coinbase, (tx.startgas - tx.gas) - Refunded)

LEMMA SoldIs ==
  ASSUME Inv, Len(frames) = 1, tx.phase = "done"
  PROVE  LET s == Sold IN
         /\ Changed(st, s) /\ Wealth(s) = Wealth(st) + tx.startgas
         /\ Tidy(st) => Tidy(s)
<1> DEFINE v == tx.gas + Refunded
           w == (tx.startgas - tx.gas) - Refunded
           r == delta_balance(st, Sender, v)
           s == delta_balance(r, Coinbase, w)
<1>1. /\ st \in States /\ Wealth(st) \in Nat /\ Sender \in Address /\ Coinbase \in Address
  BY BlockIs, AddressesAssumption
<1>2. tx.startgas \in Nat /\ v \in Nat /\ w \in Nat /\ v + w = tx.startgas
  BY RefundedIs
<1>3. Sold = s
  BY DEF Sold
<1> HIDE DEF v, w
<1>4. Balances(st) \in [Address -> Nat]
  BY <1>1, PartsTyped
<1>5. Balances(st)[Sender] + v >= 0 /\ v \in Int
  BY <1>1, <1>2, <1>4
<1>6. /\ Changed(st, r) /\ SameElse(st, r) /\ Wealth(r) = Wealth(st) + v
      /\ Balances(r) = [Balances(st) EXCEPT ![Sender] = Balances(st)[Sender] + v]
  BY <1>1, <1>5, DeltaIs
<1> HIDE DEF r
<1>7. r \in States /\ Balances(r) \in [Address -> Nat]
  BY <1>6, PartsTyped DEF Changed
<1>8. Balances(r)[Coinbase] + w >= 0 /\ w \in Int
  BY <1>1, <1>2, <1>7
<1>9. /\ Changed(r, s) /\ SameElse(r, s) /\ Wealth(s) = Wealth(r) + w
      /\ Balances(s) = [Balances(r) EXCEPT ![Coinbase] = Balances(r)[Coinbase] + w]
  BY <1>1, <1>7, <1>8, DeltaIs
<1> HIDE DEF s
<1>10. Changed(st, s)
  BY <1>1, <1>6, <1>9, ChangedOn
<1>11. Wealth(s) = Wealth(st) + tx.startgas
  BY <1>1, <1>2, <1>6, <1>9
<1>12. ASSUME Tidy(st) PROVE Tidy(s)
  <2>1. s \in States /\ s.rules = st.rules
    BY <1>10 DEF Changed
  <2>2. Nonces(s) = Nonces(st) /\ Codes(s) = Codes(st) /\ Storages(s) = Storages(st)
    BY <1>6, <1>9 DEF SameElse
  <2>3. ASSUME NEW a \in Address
        PROVE  Peopled(s, a) \/ (~Peopled(st, a) /\ Balances(s)[a] >= Balances(st)[a])
    <3>1. Balances(r)[a] >= Balances(st)[a] /\ Balances(r)[a] \in Nat /\ Balances(st)[a] \in Nat
      BY <1>1, <1>2, <1>4, <1>6, <1>7
    <3>2. Balances(s)[a] >= Balances(r)[a] /\ Balances(s)[a] \in Int
      BY <1>1, <1>2, <1>7, <1>9, <3>1
    <3> QED
      BY <2>2, <3>1, <3>2 DEF Peopled
  <2> QED
    BY <1>1, <1>12, <2>1, <2>2, <2>3, TidyKept
<1> QED
  BY <1>3, <1>10, <1>11, <1>12

(* The state that the transaction leaves, and what it is worth.              *)
FinishesIn(u) ==
  /\ u \in States /\ u.rules = st.rules /\ Coherent(u) /\ Base(u) /\ u.suicides = <<>>
  /\ Wealth(u) <= Wealth(st) + tx.startgas
  /\ st.suicides = <<>> => Wealth(u) = Wealth(st) + tx.startgas
  /\ Tidy(st) => Tidy(u)

LEMMA FinishTransactionIs ==
  ASSUME Inv, FinishTransaction
  PROVE  /\ Len(frames) = 1 /\ tx.phase = "done" /\ FinishesIn(st')
         /\ tx' = [tx EXCEPT !.phase = "none"] /\ deaths' = (deaths \/ st.suicides # <<>>)
         /\ frames' = frames /\ supply' = supply
<1> DEFINE refunds == st.refunds + Cardinality(Range(st.suicides)) * GSUICIDEREFUND
           none == IF tx.res = 1 /\ refunds > 0 THEN 0 ELSE Sold.refunds
           counted == [Sold EXCEPT !.refunds = none, !.suicides = <<>>]
           last == Everyone(st.suicides, counted)
           written == IF On("metropolis") THEN last ELSE commit(last)
           next == written.txindex + 1
           u == [written EXCEPT !.logs = <<>>, !.txindex = next]
<1>1. /\ tx.phase = "done" /\ st' = u
      /\ tx' = [tx EXCEPT !.phase = "none"] /\ deaths' = (deaths \/ st.suicides # <<>>)
      /\ frames' = frames /\ supply' = supply
  BY DEF FinishTransaction, Sold, Refunded, Everyone, Buried
<1>2. Len(frames) = 1
  BY <1>1 DEF Inv, Shape
<1>3. st \in States /\ Coherent(st) /\ Base(st) /\ Wealth(st) \in Nat
  BY <1>2, BlockIs
<1>4. /\ Changed(st, Sold) /\ Wealth(Sold) = Wealth(st) + tx.startgas
      /\ Tidy(st) => Tidy(Sold)
  BY <1>1, <1>2, SoldIs
<1>5. Sold \in States /\ Later(st, Sold)
  BY <1>4, ChangedLater DEF Changed
<1>6. none \in Nat
  BY <1>5 DEF States
<1> HIDE DEF none
<1>7. counted \in States /\ Alike(Sold, counted) /\ counted.suicides = <<>>
      /\ counted.rules = Sold.rules
  <2> DEFINE s == Sold
             c == [s EXCEPT !.refunds = none, !.suicides = <<>>]
  <2>1. s \in States
    BY <1>5
  <2> HIDE DEF s
  <2>2. <<>> \in Seq(Address)
    OBVIOUS
  <2>3. c \in States
    BY <1>6, <2>1, <2>2 DEF States
  <2>4. /\ c.cache = s.cache /\ c.trie = s.trie /\ c.journal = s.journal /\ c.rules = s.rules
        /\ c.suicides = <<>>
    BY <2>1 DEF States
  <2> HIDE DEF c
  <2>5. Alike(s, c)
    BY <2>4 DEF Alike
  <2> QED
    BY <2>3, <2>4, <2>5 DEF c, s
<1> HIDE DEF counted
<1>8. /\ Later(Sold, counted) /\ SameParts(Sold, counted) /\ Wealth(counted) = Wealth(Sold)
      /\ Tidy(Sold) => Tidy(counted)
  BY <1>5, <1>7, AlikeLater, TidySame
<1>9. st.suicides \in Seq(Address)
  BY <1>3 DEF States
<1>10. /\ Later(counted, last) /\ last.suicides = <<>> /\ Wealth(last) <= Wealth(counted)
       /\ Tidy(counted) => Tidy(last)
       /\ st.suicides = <<>> => last = counted
  BY <1>7, <1>9, EveryoneIs
<1> HIDE DEF last
<1>11. /\ last \in States /\ last.rules = st.rules /\ Coherent(last) /\ Base(last)
  <2>1. Later(st, last)
    BY <1>3, <1>5, <1>8, <1>10, LaterOn
  <2> QED
    BY <1>3, <2>1, BaseKept DEF Later
<1>12. /\ written \in States /\ written.rules = st.rules /\ Coherent(written) /\ Base(written)
       /\ written.suicides = <<>> /\ Wealth(written) = Wealth(last)
       /\ Tidy(last) => Tidy(written)
  <2>1. CASE On("metropolis")
    BY <1>10, <1>11, <2>1
  <2>2. CASE ~On("metropolis")
    <3> DEFINE c == commit(last)
    <3>1. written = c
      BY <2>2
    <3>2. /\ c \in States /\ c.rules = last.rules /\ Coherent(c) /\ Base(c)
          /\ c.suicides = last.suicides
          /\ Nonces(c) = Nonces(last) /\ Balances(c) = Balances(last) /\ Codes(c) = Codes(last)
          /\ Tidy(last) => Storages(c) = Storages(last)
      BY <1>11, CommitIs
    <3> HIDE DEF c
    <3>3. Wealth(c) = Wealth(last)
      BY <1>11, <3>2, WealthSame
    <3>4. ASSUME Tidy(last) PROVE Tidy(c)
      <4>1. SameParts(last, c)
        BY <3>2, <3>4 DEF SameParts, SameElse
      <4> QED
        BY <1>11, <3>2, <3>4, <4>1, TidySame
    <3> QED
      BY <1>10, <1>11, <3>1, <3>2, <3>3, <3>4
  <2> QED
    BY <2>1, <2>2
<1> HIDE DEF written
<1>13. next \in Nat
  BY <1>12 DEF States
<1> HIDE DEF next
<1>14. u \in States /\ Alike(written, u) /\ u.rules = st.rules /\ u.suicides = <<>>
  BY <1>12, <1>13 DEF States, Alike
<1> HIDE DEF u
<1>15. /\ Coherent(u) /\ Base(u) /\ Wealth(u) = Wealth(last)
       /\ Tidy(last) => Tidy(u)
  <2>1. Later(written, u) /\ SameParts(written, u) /\ Wealth(u) = Wealth(written)
    BY <1>12, <1>14, AlikeLater
  <2>2. Tidy(written) => Tidy(u)
    BY <1>12, <1>14, <2>1, TidySame
  <2> QED
    BY <1>12, <1>14, <2>1, <2>2, BaseKept DEF Later
<1>16. FinishesIn(u)
  BY <1>4, <1>8, <1>10, <1>14, <1>15 DEF FinishesIn
<1> QED
  BY <1>1, <1>2, <1>16

LEMMA FinishTransactionInv ==
  ASSUME Inv, FinishTransaction
  PROVE  Inv'
<1>1. /\ Len(frames) = 1 /\ tx.phase = "done" /\ FinishesIn(st')
      /\ tx' = [tx EXCEPT !.phase = "none"] /\ deaths' = (deaths \/ st.suicides # <<>>)
      /\ frames' = frames /\ supply' = supply
  BY FinishTransactionIs
<1>2. /\ frames # <<>> /\ frames \in Stacks /\ tx \in Phases /\ supply \in Nat
      /\ deaths \in BOOLEAN
      /\ Reliable(st, frames, Owed(tx), supply, deaths) /\ Wealth(st) \in Nat
      /\ Conserved(st, Owed(tx), supply, deaths) /\ frames[1].snap.aux.suicides = <<>>
  BY <1>1, BlockIs
<1>3. tx' \in Phases /\ tx'.phase = "none" /\ Owed(tx') = 0 /\ Owed(tx) = tx.startgas
  BY <1>1, <1>2 DEF Phases, Owed
<1>4. /\ st' \in States /\ st'.rules = st.rules /\ Coherent(st') /\ Base(st')
      /\ st'.suicides = <<>>
      /\ Wealth(st') <= Wealth(st) + tx.startgas
      /\ st.suicides = <<>> => Wealth(st') = Wealth(st) + tx.startgas
  BY <1>1 DEF FinishesIn
<1>5. Conserved(st', 0, supply, deaths')
  <2>1. Wealth(st') \in Nat /\ tx.startgas \in Nat
    BY <1>2, <1>4, WealthIs DEF Phases
  <2>2. Wealth(st') + 0 = Wealth(st')
    BY <2>1
  <2>3. /\ Wealth(st) + tx.startgas <= supply
        /\ ~deaths /\ st.suicides = <<>> => Wealth(st) + tx.startgas = supply
    BY <1>2, <1>3 DEF Conserved
  <2>4. Wealth(st') <= supply
    BY <1>2, <1>4, <2>1, <2>3
  <2>5. ASSUME ~deaths' PROVE Wealth(st') = supply
    <3>1. ~deaths /\ st.suicides = <<>>
      BY <1>1, <2>5
    <3> QED
      BY <1>4, <2>3, <3>1
  <2> QED
    BY <2>2, <2>4, <2>5 DEF Conserved
<1>6. (deaths => deaths') /\ deaths' \in BOOLEAN
  BY <1>1, <1>2
<1>7. Reliable(st', frames, 0, supply, deaths')
  BY <1>1, <1>2, <1>4, <1>5, <1>6, ReliableBlock
<1>8. Shape(frames, tx') /\ NoSuicides(st', frames, tx')
  BY <1>1, <1>2, <1>3, <1>4 DEF Shape, NoSuicides
<1> QED
  BY <1>1, <1>2, <1>3, <1>6, <1>7, <1>8 DEF Inv

-------------------------------------------------------------------------------
(* The theorems.                                                             *)
LEMMA NextInv ==
  ASSUME Inv, [Next]_vars
  PROVE  /\ Inv'
         /\ tx.phase = "running" => Left(frames', tx') <= Left(frames, tx)
<1>1. CASE UNCHANGED vars
  <2>1. /\ frames' = frames /\ tx' = tx /\ st' = st /\ supply' = supply /\ deaths' = deaths
    BY <1>1 DEF vars
  <2>2. Left(frames, tx) \in Int
    <3>1. frames \in Stacks /\ tx \in Phases
      BY DEF Inv
    <3>2. Gas(frames) \in Nat /\ tx.gas \in Nat
      BY <3>1, GasIs DEF Phases
    <3> QED
      BY <3>2 DEF Left
  <2> QED
    BY <2>1, <2>2 DEF Inv
<1>2. CASE Executes \/ Return \/ Fault \/ Revert
  BY <1>2, MessageInv
<1>3. ASSUME BeginBlock \/ Finalize \/ AcceptBlock \/ RefuseBlock \/ AbandonBlock
      PROVE  Inv' /\ tx.phase # "running"
  <2>1. Inv'
    BY <1>3, BeginBlockInv, FinalizeInv, AcceptBlockInv, RefuseBlockInv, AbandonBlockInv
  <2>2. Len(frames) = 1 \/ frames = <<>>
    BY <1>3 DEF BeginBlock, Finalize, AcceptBlock, RefuseBlock, AbandonBlock
  <2>3. ~(Len(frames) > 1)
    <3>1. CASE Len(frames) = 1
      BY <3>1
    <3>2. CASE frames = <<>>
      <4>1. Len(frames) = 0
        BY <3>2, Nobody
      <4> QED
        BY <4>1
    <3> QED
      BY <2>2, <3>1, <3>2
  <2>4. tx.phase # "running"
    BY <2>3 DEF Inv, Shape
  <2> QED
    BY <2>1, <2>4
<1>4. ASSUME st.txindex < Len(Transactions), NEW t \in Transactions[st.txindex + 1],
             BeginTransaction(t.to, t.value, t.gas)
      PROVE  Inv' /\ tx.phase # "running"
  <2>1. /\ t.to \in Address \union {CREATE} /\ t.value \in Nat /\ t.gas \in Nat
        /\ t.to = CREATE => t.gas > 0
    BY <1>4, TransactionIs
  <2>2. Begins(t.gas)
    BY <1>4, <2>1, BeginTransactionBegins
  <2>3. Inv'
    BY <2>1, <2>2, BeginsInv
  <2> QED
    BY <2>2, <2>3 DEF Begins
<1>5. ASSUME FinishTransaction PROVE Inv' /\ tx.phase # "running"
  BY <1>5, FinishTransactionInv DEF FinishTransaction
<1>6. CASE Next
  <2>1. \/ Executes \/ Return \/ Fault \/ Revert
        \/ BeginBlock \/ Finalize \/ AcceptBlock \/ RefuseBlock \/ AbandonBlock
        \/ st.txindex < Len(Transactions) /\ \E t \in Transactions[st.txindex + 1] :
             BeginTransaction(t.to, t.value, t.gas)
        \/ FinishTransaction
    BY <1>6 DEF Next, Executes
  <2> QED
    BY <1>2, <1>3, <1>4, <1>5, <2>1
<1> QED
  BY <1>1, <1>6

(* Snapshots nest, every state they lead to is the one that was there, and   *)
(* nothing is lost or made in any of them.                                   *)
LEMMA AlwaysInv == Spec => []Inv
<1>1. Init => Inv
  BY InitInv
<1>2. Inv /\ [Next]_vars => Inv'
  BY NextInv
<1> QED
  BY <1>1, <1>2, PTL DEF Spec

(* What accounts hold together with the gas that is paid for is what there   *)
(* was and what blocks have added, through any calls, failures, creations    *)
(* and commits; only a suicide may lose some (delta_balance, transfer_value, *)
(* SUICIDE, the purchase and the sale of gas in apply_transaction, revert).  *)
THEOREM ValueIsConserved == Spec => []ValueConserved
<1>1. Inv => ValueConserved
  <2> SUFFICES ASSUME Inv PROVE ValueConserved
    OBVIOUS
  <2>1. Conserved(st, Owed(tx), supply, deaths)
    BY DEF Inv, Reliable
  <2> QED
    BY <2>1 DEF Conserved, Owed, ValueConserved
<1> QED
  BY <1>1, AlwaysInv, PTL

(* While a static call is going on, nothing is written, by whatever code is  *)
(* called or borrowed within it, at any depth (the checks of msg.static in   *)
(* vm_execute, and the messages that pass it on).                            *)
THEOREM StaticWritesNothing == Spec => []StaticUntouched
<1>1. Inv => StaticUntouched
  <2> SUFFICES ASSUME Inv, NEW i \in DOMAIN frames, frames[i].static
               PROVE  /\ Data(World(st)) = Data(frames[i].world)
                      /\ World(st).aux = frames[i].world.aux
    BY DEF StaticUntouched
  <2>1. /\ frames \in Stacks /\ st \in States /\ Nesting(st, frames) /\ Quiet(st, frames)
    BY DEF Inv, Reliable
  <2>2. DOMAIN frames = 1..Len(frames) /\ Len(frames) \in Nat
    BY <2>1, StackGas
  <2>3. i # 1
    <3>1. i = 1 => frames[1] \in BlockFrame
      BY <2>1, <2>2 DEF Stacks
    <3> QED
      BY <3>1 DEF BlockFrame
  <2>4. i \in 2..Len(frames)
    BY <2>2, <2>3
  <2> DEFINE o == Origin(st, frames[i])
  <2>5. o \in States
    BY <2>1, <2>4, OriginIs
  <2>6. World(o) = frames[i].world
    BY <2>1, <2>4 DEF Nesting
  <2>7. SameParts(o, st) /\ Aux(st) = Aux(o)
    BY <2>1, <2>4 DEF Quiet
  <2> HIDE DEF o
  <2>8. Data(World(st)) = Data(World(o))
    BY <2>1, <2>5, <2>7, DataSame
  <2>9. World(st).aux = World(o).aux
    BY <2>7 DEF World
  <2> QED
    BY <2>6, <2>8, <2>9
<1> QED
  BY <1>1, AlwaysInv, PTL

(* Within a transaction the gas of all its messages together never grows,    *)
(* whatever they call and however their calls end, and it is never more than *)
(* was bought (the gas limits of calls, the stipend, what comes back from a  *)
(* call; vm_execute and _apply_msg).                                         *)
THEOREM GasNeverGrows == Spec => GasShrinks
<1>1. Inv => MessagesGas >= 0 /\ (tx.phase = "running" => MessagesGas <= tx.startgas)
  <2> SUFFICES ASSUME Inv
               PROVE  MessagesGas >= 0 /\ (tx.phase = "running" => MessagesGas <= tx.startgas)
    OBVIOUS
  <2>1. frames \in Stacks /\ tx \in Phases
    BY DEF Inv
  <2>2. Gas(frames) \in Nat /\ tx.gas \in Nat
    BY <2>1, GasIs DEF Phases
  <2>3. Left(frames, tx) \in Nat
    BY <2>2 DEF Left
  <2>4. tx.phase = "running" => Left(frames, tx) <= tx.startgas
    BY DEF Inv
  <2> QED
    BY <2>3, <2>4, LeftIs
<1>2. Inv /\ [Next]_vars => [tx.phase = "running" => MessagesGas' <= MessagesGas]_vars
  <2> SUFFICES ASSUME Inv, [Next]_vars, tx.phase = "running"
               PROVE  MessagesGas' <= MessagesGas
    OBVIOUS
  <2>1. Left(frames', tx') <= Left(frames, tx)
    BY NextInv
  <2>2. MessagesGas' = Left(frames', tx')
    BY DEF MessagesGas, Left, Gas
  <2> QED
    BY <2>1, <2>2, LeftIs
<1>3. Spec => [](MessagesGas >= 0 /\ (tx.phase = "running" => MessagesGas <= tx.startgas))
  BY <1>1, AlwaysInv, PTL
<1>4. Spec => [][tx.phase = "running" => MessagesGas' <= MessagesGas]_vars
  BY <1>2, AlwaysInv, PTL DEF Spec
<1> QED
  BY <1>3, <1>4 DEF GasShrinks

-------------------------------------------------------------------------------
(* The refinement.  A commit drops what is not part of the world: the        *)
(* storage of an account that counts as non-existing since the Spurious      *)
(* Dragon.  That no such account has one takes that whoever executes code    *)
(* exists, in every state that could be reverted to.                         *)
Clean(s, fs) ==
  "spurious_dragon" \in s.rules =>
    /\ Tidy(s)
    /\ Len(fs) > 0 => Tidy(Opening(s, fs[1]))
    /\ \A i \in 2..Len(fs) : Tidy(Origin(s, fs[i])) /\ Settled(fs[i], s)
    /\ \A i, j \in 2..Len(fs) : i < j => Settled(fs[i], Origin(s, fs[j]))

LEMMA SettledOn ==
  ASSUME NEW s, NEW t, Lives(s, t), NEW f, f.to \in Address, Settled(f, s),
         NEW g, g.to = f.to, g.create = f.create, g.runs => f.runs
  PROVE  Settled(g, t)
BY DEF Settled, Lives, Peopled

LEMMA LivesSelf ==
  ASSUME NEW s
  PROVE  Lives(s, s)
BY DEF Lives

LEMMA CleanOn ==
  ASSUME NEW s \in States, NEW fs \in Stacks, Clean(s, fs),
         NEW u, u.rules = s.rules, NEW gs, Similar(fs, gs), SameOrigins(s, fs, u, gs),
         "spurious_dragon" \in s.rules => Lives(s, u) /\ Tidy(u)
  PROVE  Clean(u, gs)
<1> SUFFICES ASSUME "spurious_dragon" \in s.rules PROVE Clean(u, gs)
  BY DEF Clean
<1>1. Len(gs) = Len(fs) /\ Len(fs) \in Nat /\ (Len(fs) > 0 => gs[1] = fs[1])
  BY DEF Similar, Stacks
<1>2. ASSUME NEW i \in 2..Len(fs)
      PROVE  fs[i].to \in Address /\ gs[i].to = fs[i].to /\ gs[i].create = fs[i].create
             /\ (gs[i].runs => fs[i].runs)
  <2>1. fs[i] \in MessageFrame
    BY DEF Stacks
  <2> QED
    BY <2>1 DEF Similar, MessageFrame
<1>3. /\ Len(fs) > 0 => Tidy(Opening(s, fs[1]))
      /\ \A i \in 2..Len(fs) : Tidy(Origin(s, fs[i])) /\ Settled(fs[i], s)
      /\ \A i, j \in 2..Len(fs) : i < j => Settled(fs[i], Origin(s, fs[j]))
  BY DEF Clean
<1>4. Len(fs) > 0 => Tidy(Opening(u, gs[1]))
  BY <1>1, <1>3 DEF Opening
<1>5. ASSUME NEW i \in 2..Len(fs)
      PROVE  Tidy(Origin(u, gs[i])) /\ Settled(gs[i], u)
  BY <1>2, <1>3, <1>5, SettledOn DEF SameOrigins
<1>6. ASSUME NEW i \in 2..Len(fs), NEW j \in 2..Len(fs), i < j
      PROVE  Settled(gs[i], Origin(u, gs[j]))
  <2>1. Settled(fs[i], Origin(s, fs[j])) /\ Origin(u, gs[j]) = Origin(s, fs[j])
    BY <1>3, <1>6 DEF SameOrigins
  <2>2. Settled(gs[i], Origin(s, fs[j]))
    BY <1>2, <2>1 DEF Settled
  <2> QED
    BY <2>1, <2>2
<1> QED
  BY <1>1, <1>4, <1>5, <1>6 DEF Clean

LEMMA CleanPush ==
  ASSUME NEW s \in States, NEW fs \in Stacks, fs # <<>>, Clean(s, fs),
         NEW o, NEW n, NEW u, NEW f, Pushed(s, o, n, u, f), Origin(u, f) = o,
         SameOrigins(s, fs, u, fs),
         "spurious_dragon" \in s.rules => PushedTidily(s, o, u, f)
  PROVE  Clean(u, Append(fs, f))
<1>1. u.rules = s.rules /\ f \in MessageFrame
  BY DEF Pushed, Later
<1> SUFFICES ASSUME "spurious_dragon" \in s.rules PROVE Clean(u, Append(fs, f))
  BY <1>1 DEF Clean
<1> DEFINE gs == Append(fs, f)
           N == Len(fs)
<1>2. /\ Len(gs) = N + 1 /\ gs[N + 1] = f /\ \A i \in 1..N : gs[i] = fs[i]
  BY <1>1, StackAppended
<1>3. N \in Nat \ {0}
  BY DEF Stacks
<1> HIDE DEF gs
<1>4. /\ Lives(s, o) /\ Lives(o, u) /\ Lives(s, u) /\ Tidy(o) /\ Tidy(u) /\ Settled(f, u)
  BY LivesOn DEF PushedTidily, Settled
<1>5. /\ Tidy(Opening(s, fs[1]))
      /\ \A i \in 2..N : Tidy(Origin(s, fs[i])) /\ Settled(fs[i], s)
      /\ \A i, j \in 2..N : i < j => Settled(fs[i], Origin(s, fs[j]))
  BY <1>3 DEF Clean
<1>6. Tidy(Opening(u, gs[1]))
  <2>1. gs[1] = fs[1]
    BY <1>2, <1>3
  <2> QED
    BY <1>1, <1>5, <2>1 DEF Opening
<1>7. ASSUME NEW i \in 2..N
      PROVE  /\ gs[i] = fs[i] /\ Origin(u, gs[i]) = Origin(s, fs[i])
             /\ Settled(gs[i], u) /\ Settled(gs[i], o)
  <2>1. gs[i] = fs[i] /\ Origin(u, fs[i]) = Origin(s, fs[i])
    BY <1>2, <1>3 DEF SameOrigins
  <2>2. fs[i].to \in Address
    <3>1. fs[i] \in MessageFrame
      BY DEF Stacks
    <3> QED
      BY <3>1 DEF MessageFrame
  <2>3. Settled(fs[i], u) /\ Settled(fs[i], o)
    BY <1>4, <1>5, <2>2, SettledOn
  <2> QED
    BY <2>1, <2>3
<1>8. ASSUME NEW i \in 2..N + 1
      PROVE  Tidy(Origin(u, gs[i])) /\ Settled(gs[i], u)
  <2>1. CASE i = N + 1
    BY <1>2, <1>4, <2>1
  <2>2. CASE i # N + 1
    <3>1. i \in 2..N
      BY <1>3, <2>2
    <3> QED
      BY <1>5, <1>7, <3>1
  <2> QED
    BY <2>1, <2>2
<1>9. ASSUME NEW i \in 2..N + 1, NEW j \in 2..N + 1, i < j
      PROVE  Settled(gs[i], Origin(u, gs[j]))
  <2>1. i \in 2..N
    BY <1>3, <1>9
  <2>2. CASE j = N + 1
    BY <1>2, <1>7, <2>1, <2>2
  <2>3. CASE j # N + 1
    <3>1. j \in 2..N
      BY <1>3, <2>3
    <3> QED
      BY <1>5, <1>7, <1>9, <2>1, <3>1
  <2> QED
    BY <2>2, <2>3
<1>10. Clean(u, gs)
  BY <1>2, <1>4, <1>6, <1>8, <1>9 DEF Clean
<1> QED
  BY <1>10 DEF gs

LEMMA CleanPop ==
  ASSUME NEW s \in States, NEW fs \in Stacks, Len(fs) > 1, Clean(s, fs)
  PROVE  Clean(s, Front(fs))
<1> DEFINE ls == Front(fs)
           N == Len(fs)
<1>1. N \in Nat /\ Len(ls) = N - 1 /\ \A i \in 1..N - 1 : ls[i] = fs[i]
  BY StackFront
<1> HIDE DEF ls
<1>2. 1 \in 1..N - 1 /\ \A i \in 2..N - 1 : i \in 1..N - 1 /\ i \in 2..N
  BY <1>1
<1>3. Clean(s, ls)
  BY <1>1, <1>2 DEF Clean
<1> QED
  BY <1>3 DEF ls

LEMMA CleanFail ==
  ASSUME NEW s \in States, NEW fs \in Stacks, Len(fs) > 1, Clean(s, fs),
         NEW u, u.rules = s.rules, u = Origin(s, Last(fs)),
         \A i \in 2..Len(fs) - 1 : Origin(u, Front(fs)[i]) = Origin(s, fs[i])
  PROVE  Clean(u, Front(fs))
<1> SUFFICES ASSUME "spurious_dragon" \in s.rules PROVE Clean(u, Front(fs))
  BY DEF Clean
<1> DEFINE ls == Front(fs)
           N == Len(fs)
<1>1. N \in Nat /\ Len(ls) = N - 1 /\ Last(fs) = fs[N] /\ \A i \in 1..N - 1 : ls[i] = fs[i]
  BY StackFront
<1>2. \A i \in 2..N - 1 : Origin(u, ls[i]) = Origin(s, fs[i])
  OBVIOUS
<1> HIDE DEF ls
<1>3. 1 \in 1..N - 1 /\ N \in 2..N /\ \A i \in 2..N - 1 : i \in 1..N - 1 /\ i \in 2..N /\ i < N
  BY <1>1
<1>4. /\ Tidy(Opening(s, fs[1]))
      /\ \A i \in 2..N : Tidy(Origin(s, fs[i])) /\ Settled(fs[i], s)
      /\ \A i, j \in 2..N : i < j => Settled(fs[i], Origin(s, fs[j]))
  BY <1>1, <1>3 DEF Clean
<1>5. Tidy(u) /\ Tidy(Opening(u, ls[1]))
  BY <1>1, <1>3, <1>4 DEF Opening
<1>6. ASSUME NEW i \in 2..N - 1 PROVE Tidy(Origin(u, ls[i])) /\ Settled(ls[i], u)
  BY <1>1, <1>2, <1>3, <1>4
<1>7. ASSUME NEW i \in 2..N - 1, NEW j \in 2..N - 1, i < j
      PROVE  Settled(ls[i], Origin(u, ls[j]))
  BY <1>1, <1>2, <1>3, <1>4, <1>7
<1>8. Clean(u, ls)
  BY <1>1, <1>5, <1>6, <1>7 DEF Clean
<1> QED
  BY <1>8 DEF ls

(* The worlds of a stack.                                                    *)
Saved(fs) == [i \in DOMAIN fs |-> fs[i].world]

LEMMA SavedIs ==
  ASSUME NEW fs \in Stacks
  PROVE  /\ Saved(fs) \in Seq(Worlds) /\ Len(Saved(fs)) = Len(fs)
         /\ \A i \in 1..Len(fs) : Saved(fs)[i] = fs[i].world
<1>1. DOMAIN fs = 1..Len(fs) /\ Len(fs) \in Nat
  BY StackGas
<1>2. ASSUME NEW i \in 1..Len(fs) PROVE fs[i].world \in Worlds
  <2>1. CASE i = 1
    <3>1. fs[1] \in BlockFrame
      BY <1>1, <2>1 DEF Stacks
    <3> QED
      BY <2>1, <3>1 DEF BlockFrame
  <2>2. CASE i # 1
    <3>1. fs[i] \in MessageFrame
      BY <1>1, <2>2 DEF Stacks
    <3> QED
      BY <3>1 DEF MessageFrame
  <2> QED
    BY <2>1, <2>2
<1> HIDE DEF Worlds
<1>3. Saved(fs) = [i \in 1..Len(fs) |-> fs[i].world]
  BY <1>1 DEF Saved
<1> QED
  BY <1>1, <1>2, <1>3

LEMMA SavedSimilar ==
  ASSUME NEW fs \in Stacks, NEW gs \in Stacks, Similar(fs, gs)
  PROVE  Saved(gs) = Saved(fs)
<1>1. /\ Saved(fs) \in Seq(Worlds) /\ Len(Saved(fs)) = Len(fs)
      /\ \A i \in 1..Len(fs) : Saved(fs)[i] = fs[i].world
  BY SavedIs
<1>2. /\ Saved(gs) \in Seq(Worlds) /\ Len(Saved(gs)) = Len(gs)
      /\ \A i \in 1..Len(gs) : Saved(gs)[i] = gs[i].world
  BY SavedIs
<1>3. Len(gs) = Len(fs) /\ Len(fs) \in Nat
  BY DEF Similar, Stacks
<1>4. ASSUME NEW i \in 1..Len(fs) PROVE gs[i].world = fs[i].world
  <2>1. CASE i = 1
    BY <1>3, <2>1 DEF Similar
  <2>2. CASE i # 1
    <3>1. i \in 2..Len(fs)
      BY <1>3, <2>2
    <3> QED
      BY <3>1 DEF Similar
  <2> QED
    BY <2>1, <2>2
<1>5. \A i \in 1..Len(fs) : Saved(gs)[i] = Saved(fs)[i]
  BY <1>1, <1>2, <1>3, <1>4
<1> QED
  BY <1>1, <1>2, <1>3, <1>5

LEMMA SavedAppended ==
  ASSUME NEW fs \in Stacks, fs # <<>>, NEW f \in MessageFrame
  PROVE  Saved(Append(fs, f)) # <<>> /\ Front(Saved(Append(fs, f))) = Saved(fs)
<1> DEFINE gs == Append(fs, f)
           N == Len(fs)
<1>1. gs \in Stacks /\ Len(gs) = N + 1 /\ \A i \in 1..N : gs[i] = fs[i]
  BY StackAppended
<1> HIDE DEF gs
<1>2. N \in Nat
  BY DEF Stacks
<1>3. /\ Saved(fs) \in Seq(Worlds) /\ Len(Saved(fs)) = N
      /\ \A i \in 1..N : Saved(fs)[i] = fs[i].world
  BY SavedIs
<1>4. /\ Saved(gs) \in Seq(Worlds) /\ Len(Saved(gs)) = N + 1
      /\ \A i \in 1..N + 1 : Saved(gs)[i] = gs[i].world
  BY <1>1, SavedIs
<1>5. Saved(gs) # <<>>
  BY <1>2, <1>4
<1> DEFINE ls == Front(Saved(gs))
<1>6. /\ ls \in Seq(Worlds) /\ Len(ls) = N /\ \A i \in 1..N : ls[i] = Saved(gs)[i]
  <2>1. /\ ls \in Seq(Worlds) /\ Len(ls) = Len(Saved(gs)) - 1
        /\ \A i \in 1..Len(Saved(gs)) - 1 : ls[i] = Saved(gs)[i]
    BY <1>4, <1>5, FrontIs
  <2>2. Len(Saved(gs)) - 1 = N
    BY <1>2, <1>4
  <2> HIDE DEF ls
  <2> QED
    BY <2>1, <2>2
<1> HIDE DEF ls
<1>7. \A i \in 1..N : ls[i] = Saved(fs)[i]
  BY <1>1, <1>2, <1>3, <1>4, <1>6
<1>8. ls = Saved(fs)
  BY <1>2, <1>3, <1>6, <1>7
<1> QED
  BY <1>5, <1>8 DEF ls, gs

LEMMA SavedFront ==
  ASSUME NEW fs \in Stacks, Len(fs) > 1
  PROVE  /\ Saved(fs) # <<>> /\ Saved(Front(fs)) = Front(Saved(fs))
         /\ Last(Saved(fs)) = Last(fs).world
<1>1. /\ Front(fs) \in Stacks /\ Front(fs) # <<>> /\ Last(fs) \in MessageFrame
      /\ fs = Append(Front(fs), Last(fs)) /\ Last(fs) = fs[Len(fs)] /\ Len(fs) \in Nat
  BY StackFront
<1>2. Saved(fs) # <<>> /\ Front(Saved(fs)) = Saved(Front(fs))
  <2> DEFINE ls == Front(fs)
             f == Last(fs)
  <2>1. Saved(Append(ls, f)) # <<>> /\ Front(Saved(Append(ls, f))) = Saved(ls)
    BY <1>1, SavedAppended
  <2> QED
    BY <1>1, <2>1
<1>3. Last(Saved(fs)) = fs[Len(fs)].world
  <2>1. Len(Saved(fs)) = Len(fs) /\ \A i \in 1..Len(fs) : Saved(fs)[i] = fs[i].world
    BY SavedIs
  <2> QED
    BY <1>1, <2>1 DEF Last
<1> QED
  BY <1>1, <1>2, <1>3

(* A step as module Snapshots sees it.                                       *)
Seen ==
  \/ Saved(frames') # <<>> /\ Front(Saved(frames')) = Saved(frames)
  \/ Saved(frames') = Saved(frames)
  \/ /\ Saved(frames) # <<>> /\ Saved(frames') = Front(Saved(frames))
     /\ World(st') = World(st) \/ World(st') = Last(Saved(frames))

(* The address of a new contract is of no account that is in use already,    *)
(* nor of the one that creates it (mk_contract_address is a hash of the      *)
(* creator and its nonce, and a nonce is never used twice).  Since           *)
(* Metropolis create_contract looks, before the Spurious Dragon nothing      *)
(* depends on it.                                                            *)
Unoccupied ==
  LET f == Last(frames') IN
  /\ "spurious_dragon" \in st.rules /\ "metropolis" \notin st.rules
  /\ Len(frames) > 0 /\ Len(frames') > Len(frames) /\ f.create /\ ~f.doomed
  => f.to # f.sender /\ st.cache[f.to].nonce = 0 /\ st.cache[f.to].code = NoCode

LEMMA CleanTop ==
  ASSUME Inv, Len(frames) > 1, Clean(st, frames), "spurious_dragon" \in st.rules
  PROVE  Tidy(st) /\ Settled(Top, st)
<1>1. Top = Last(frames) /\ Len(frames) \in Nat
  BY TopIs
<1>2. Last(frames) = frames[Len(frames)] /\ Len(frames) \in 2..Len(frames)
  BY <1>1 DEF Last
<1> QED
  BY <1>1, <1>2 DEF Clean

LEMMA ContinuesSeen ==
  ASSUME Inv, Len(frames) > 1, Continues, Clean(st, frames)
  PROVE  Clean(st', frames') /\ Seen
<1>1. /\ Top \in MessageFrame /\ Top = Last(frames) /\ Top.gas \in Nat
      /\ st \in States /\ Owed(tx) \in Nat
  BY TopIs
<1>2. PICK gas \in 0..Top.gas, runs \in BOOLEAN :
        (runs => Top.runs) /\ frames' = Continued(frames, gas, runs)
  BY DEF Continues
<1>3. /\ frames \in Stacks /\ supply \in Nat /\ Reliable(st, frames, Owed(tx), supply, deaths)
  BY DEF Inv
<1>4. gas \in Nat
  BY <1>1
<1>5. frames' \in Stacks /\ Similar(frames, frames')
  <2> DEFINE gs == Continued(frames, gas, runs)
  <2>1. runs => Last(frames).runs
    BY <1>1, <1>2
  <2>2. gs \in Stacks /\ Similar(frames, gs)
    BY <1>3, <1>4, <2>1, ContinuedIs
  <2> QED
    BY <1>2, <2>2
<1>6. /\ Later(st, st') /\ Spends(st, st') /\ (Last(frames).static => Idle(st, st'))
      /\ "spurious_dragon" \in st.rules /\ Tidy(st) /\ Settled(Top, st) =>
           Lives(st, st') /\ Tidy(st')
  BY <1>1 DEF Continues
<1>7. SameOrigins(st, frames, st', frames')
  <2>1. Later(st, st') /\ Spends(st, st') /\ (Last(frames).static => Idle(st, st'))
    BY <1>6
  <2> QED
    BY <1>1, <1>3, <1>5, <2>1, ReliableOn
<1>8. "spurious_dragon" \in st.rules => Lives(st, st') /\ Tidy(st')
  BY <1>6, CleanTop
<1>9. st'.rules = st.rules
  BY <1>6 DEF Later
<1>10. Clean(st', frames')
  BY <1>1, <1>3, <1>5, <1>7, <1>8, <1>9, CleanOn
<1>11. Saved(frames') = Saved(frames)
  BY <1>3, <1>5, SavedSimilar
<1> QED
  BY <1>10, <1>11 DEF Seen

LEMMA NestsSeen ==
  ASSUME Inv, Len(frames) > 1, Nests, Clean(st, frames), Unoccupied
  PROVE  Clean(st', frames') /\ Seen
<1>1. /\ Top \in MessageFrame /\ Top = Last(frames) /\ Top.gas \in Nat /\ Top.runs \in BOOLEAN
      /\ st \in States /\ Owed(tx) \in Nat /\ Len(frames) \in Nat
  BY TopIs DEF MessageFrame
<1>2. PICK o, n, f :
        /\ Pushed(st, o, n, st', f)
        /\ f.static => ~f.create /\ Idle(o, st')
        /\ Top.static => f.static /\ Idle(st, o)
        /\ /\ "spurious_dragon" \in st.rules /\ Tidy(st) /\ Settled(Top, st)
           /\ "metropolis" \notin st.rules /\ f.create /\ ~f.doomed =>
               f.to # f.sender /\ ~Peopled(st, f.to)
           => PushedTidily(st, o, st', f)
        /\ \E gas \in Nat :
             gas + f.gas <= Top.gas /\ frames' = Append(Continued(frames, gas, Top.runs), f)
  BY DEF Nests
<1>3. PICK gas \in Nat :
        gas + f.gas <= Top.gas /\ frames' = Append(Continued(frames, gas, Top.runs), f)
  BY <1>2
<1>4. /\ frames \in Stacks /\ supply \in Nat /\ Reliable(st, frames, Owed(tx), supply, deaths)
  BY DEF Inv
<1> DEFINE gs == Continued(frames, gas, Top.runs)
<1>5. /\ gs \in Stacks /\ Len(gs) = Len(frames) /\ Similar(frames, gs)
      /\ Last(gs).static = Top.static
  <2>1. frames \in Stacks /\ gas \in Nat /\ Top.runs \in BOOLEAN /\ (Top.runs => Last(frames).runs)
    BY <1>1, <1>4
  <2>2. /\ gs \in Stacks /\ Len(gs) = Len(frames) /\ Similar(frames, gs)
        /\ Last(gs).static = Last(frames).static
    BY <2>1, ContinuedIs
  <2> QED
    BY <1>1, <2>2
<1>6. frames' = Append(gs, f)
  BY <1>3
<1> HIDE DEF gs
<1>7. gs # <<>> /\ Len(gs) > 1
  BY <1>1, <1>5
<1>8. f \in MessageFrame /\ f.to \in Address
  BY <1>2 DEF Pushed, MessageFrame
<1>9. Later(st, st) /\ Spends(st, st) /\ Idle(st, st)
  <2>1. Wealth(st) \in Nat
    BY <1>1, WealthIs
  <2> QED
    BY <1>1, <2>1, ChangedSelf DEF Spends, Idle, SameParts, SameElse
<1>10. /\ Reliable(st, gs, Owed(tx), supply, deaths)
       /\ SameOrigins(st, frames, st, gs)
  BY <1>1, <1>4, <1>5, <1>9, ReliableOn
<1>11. Clean(st, gs)
  <2>1. "spurious_dragon" \in st.rules => Lives(st, st) /\ Tidy(st)
    BY LivesSelf, CleanTop
  <2> QED
    BY <1>1, <1>4, <1>5, <1>10, <2>1, CleanOn
<1>12. Origin(st', f) = o /\ SameOrigins(st, gs, st', gs)
  <2>1. /\ gs \in Stacks /\ gs # <<>> /\ Owed(tx) \in Nat /\ supply \in Nat
        /\ Reliable(st, gs, Owed(tx), supply, deaths) /\ Pushed(st, o, n, st', f)
    BY <1>1, <1>2, <1>4, <1>5, <1>7, <1>10
  <2>2. /\ f.static => ~f.create /\ Idle(o, st')
        /\ Len(gs) > 1 /\ Last(gs).static => f.static /\ Idle(st, o)
    BY <1>2, <1>5
  <2>3. /\ Reliable(st', Append(gs, f), Owed(tx), supply, deaths)
        /\ Origin(st', f) = o /\ SameOrigins(st, gs, st', gs)
    BY <2>1, <2>2, ReliablePush
  <2> QED
    BY <2>3
<1>13. /\ frames' \in Stacks /\ Len(frames') = Len(frames) + 1 /\ Last(frames') = f
  <2>1. Append(gs, f) \in Stacks /\ Len(Append(gs, f)) = Len(gs) + 1
    BY <1>5, <1>7, <1>8, StackAppended
  <2>2. Last(Append(gs, f)) = f
    BY <1>5, <1>7, <1>8, StackAppended
  <2> QED
    BY <1>5, <1>6, <2>1, <2>2
<1>14. "spurious_dragon" \in st.rules => PushedTidily(st, o, st', f)
  <2> SUFFICES ASSUME "spurious_dragon" \in st.rules PROVE PushedTidily(st, o, st', f)
    OBVIOUS
  <2>1. Tidy(st) /\ Settled(Top, st)
    BY CleanTop
  <2>2. ASSUME "metropolis" \notin st.rules, f.create, ~f.doomed
        PROVE  f.to # f.sender /\ ~Peopled(st, f.to)
    <3>1. f.to # f.sender /\ st.cache[f.to].nonce = 0 /\ st.cache[f.to].code = NoCode
      BY <1>1, <1>13, <2>2 DEF Unoccupied
    <3> QED
      BY <1>8, <3>1 DEF Peopled, Nonces, Codes
  <2> QED
    BY <1>2, <2>1, <2>2
<1>15. Clean(st', frames')
  <2>1. Clean(st', Append(gs, f))
    BY <1>1, <1>2, <1>5, <1>7, <1>11, <1>12, <1>14, CleanPush
  <2> QED
    BY <1>6, <2>1
<1>16. Saved(frames') # <<>> /\ Front(Saved(frames')) = Saved(gs)
  <2>1. Saved(Append(gs, f)) # <<>> /\ Front(Saved(Append(gs, f))) = Saved(gs)
    BY <1>5, <1>7, <1>8, SavedAppended
  <2> QED
    BY <1>6, <2>1
<1>17. Saved(gs) = Saved(frames)
  BY <1>4, <1>5, SavedSimilar
<1> QED
  BY <1>15, <1>16, <1>17 DEF Seen

LEMMA BeginsSeen ==
  ASSUME Inv, NEW startgas \in Nat, Begins(startgas), Clean(st, frames), Unoccupied
  PROVE  Clean(st', frames') /\ Seen
<1>1. PICK s, o, n, f :
        /\ Reliable(s, frames, startgas, supply, deaths) /\ s.rules = st.rules
        /\ Pushed(s, o, n, st', f) /\ ~f.static
        /\ frames' = Append(frames, f)
        /\ /\ "spurious_dragon" \in st.rules /\ Tidy(st)
           /\ "metropolis" \notin st.rules /\ f.create /\ ~f.doomed =>
               f.to # f.sender /\ ~Peopled(st, f.to)
           => PushedTidily(s, o, st', f)
  BY DEF Begins
<1>2. Len(frames) = 1
  BY DEF Begins
<1>3. /\ frames # <<>> /\ frames \in Stacks /\ supply \in Nat /\ st \in States
  BY <1>2, BlockIs
<1>4. f \in MessageFrame /\ f.to \in Address
  BY <1>1 DEF Pushed, MessageFrame
<1>5. st'.rules = s.rules
  BY <1>1 DEF Pushed, Later
<1>6. /\ Len(frames') = 2 /\ frames'[1] = frames[1] /\ frames'[2] = f /\ Last(frames') = f
  <2> DEFINE gs == Append(frames, f)
  <2>1. /\ Len(gs) = Len(frames) + 1 /\ gs[Len(frames) + 1] = f /\ Last(gs) = f
        /\ \A k \in 1..Len(frames) : gs[k] = frames[k]
    BY <1>3, <1>4, StackAppended
  <2> HIDE DEF gs
  <2>2. frames' = gs /\ 1 \in 1..Len(frames) /\ Len(frames) + 1 = 2
    BY <1>1, <1>2 DEF gs
  <2> QED
    BY <2>1, <2>2
<1>7. Origin(st', f) = o
  <2>1. f.static => ~f.create /\ Idle(o, st')
    BY <1>1
  <2>2. Len(frames) > 1 /\ Last(frames).static => f.static /\ Idle(s, o)
    BY <1>2
  <2>3. /\ Reliable(st', Append(frames, f), startgas, supply, deaths)
        /\ Origin(st', f) = o /\ SameOrigins(s, frames, st', frames)
    BY <1>1, <1>3, <2>1, <2>2, ReliablePush
  <2> QED
    BY <2>3
<1>8. Clean(st', frames')
  <2> SUFFICES ASSUME "spurious_dragon" \in st.rules PROVE Clean(st', frames')
    BY <1>1, <1>5 DEF Clean
  <2>1. Tidy(st) /\ Tidy(Opening(st, frames[1]))
    BY <1>2 DEF Clean
  <2>2. ASSUME "metropolis" \notin st.rules, f.create, ~f.doomed
        PROVE  f.to # f.sender /\ ~Peopled(st, f.to)
    <3>1. Len(frames) > 0 /\ Len(frames') > Len(frames)
      BY <1>2, <1>6
    <3>2. f.to # f.sender /\ st.cache[f.to].nonce = 0 /\ st.cache[f.to].code = NoCode
      BY <1>6, <2>2, <3>1 DEF Unoccupied
    <3> QED
      BY <1>4, <3>2 DEF Peopled, Nonces, Codes
  <2>3. PushedTidily(s, o, st', f)
    BY <1>1, <2>1, <2>2
  <2>4. Tidy(st') /\ Tidy(o) /\ Settled(f, st')
    BY <2>3 DEF PushedTidily, Settled
  <2>5. Tidy(Opening(st', frames'[1]))
    BY <1>1, <1>5, <1>6, <2>1 DEF Opening
  <2>6. \A i \in 2..Len(frames') : i = 2
    BY <1>6
  <2>7. \A i \in 2..Len(frames') : Tidy(Origin(st', frames'[i])) /\ Settled(frames'[i], st')
    BY <1>6, <1>7, <2>4, <2>6
  <2>8. \A i, j \in 2..Len(frames') : ~(i < j)
    BY <2>6
  <2> QED
    BY <2>4, <2>5, <2>7, <2>8 DEF Clean
<1>9. Saved(frames') # <<>> /\ Front(Saved(frames')) = Saved(frames)
  <2>1. Saved(Append(frames, f)) # <<>> /\ Front(Saved(Append(frames, f))) = Saved(frames)
    BY <1>3, <1>4, SavedAppended
  <2> QED
    BY <1>1, <2>1
<1> QED
  BY <1>8, <1>9 DEF Seen

LEMMA DeliveredSeen ==
  ASSUME Inv, Len(frames) > 1,
         NEW s, Reliable(s, Front(frames), Owed(tx), supply, deaths), Clean(s, Front(frames)),
         NEW res, NEW gas \in 0..Top.gas, Delivered(s, res, gas)
  PROVE  st' = s /\ Clean(st', frames') /\ Saved(frames') = Front(Saved(frames))
<1>1. /\ Top \in MessageFrame /\ Top.gas \in Nat /\ Owed(tx) \in Nat /\ Len(frames) \in Nat
  BY TopIs
<1>2. frames \in Stacks /\ supply \in Nat
  BY DEF Inv
<1> DEFINE ls == Front(frames)
           N == Len(frames)
<1>3. /\ ls \in Stacks /\ Len(ls) = N - 1 /\ \A i \in 1..N - 1 : ls[i] = frames[i]
  BY <1>1, <1>2, StackFront
<1>4. Saved(ls) = Front(Saved(frames))
  BY <1>2, SavedFront
<1>5. st' = s
  BY DEF Delivered
<1>6. Reliable(s, ls, Owed(tx), supply, deaths) /\ Clean(s, ls)
  OBVIOUS
<1>7. gas \in Nat
  BY <1>1
<1>8. CASE N = 2
  <2>1. frames' = ls
    BY <1>8 DEF Delivered
  <2> HIDE DEF ls
  <2> QED
    BY <1>4, <1>5, <1>6, <2>1
<1>9. CASE N # 2
  <2> DEFINE c == frames[N - 1]
             more == c.gas + gas
             gs == Continued(ls, more, c.runs)
  <2>0. frames' = Append(Front(ls), [c EXCEPT !.gas = more])
    BY <1>9 DEF Delivered
  <2> HIDE DEF ls
  <2>1. N > 2 /\ N - 1 \in 1..N - 1 /\ Len(ls) > 1
    BY <1>1, <1>3, <1>9
  <2>2. Last(ls) = c /\ c \in MessageFrame
    BY <1>3, <2>1, StackFront
  <2>3. more \in Nat /\ c.runs \in BOOLEAN
    BY <1>7, <2>2 DEF MessageFrame
  <2>4. frames' = gs
    <3>1. [c EXCEPT !.gas = more] = [c EXCEPT !.gas = more, !.runs = c.runs]
      BY <2>2 DEF MessageFrame
    <3> QED
      BY <2>0, <2>2, <3>1 DEF Continued
  <2> HIDE DEF c, more
  <2>5. gs \in Stacks /\ Similar(ls, gs)
    <3>1. ls \in Stacks /\ Len(ls) > 1 /\ more \in Nat /\ c.runs \in BOOLEAN
          /\ (c.runs => Last(ls).runs)
      BY <1>3, <2>1, <2>2, <2>3
    <3> QED
      BY <3>1, ContinuedIs
  <2> HIDE DEF gs
  <2>6. s \in States
    BY <1>6 DEF Reliable
  <2>7. Later(s, s) /\ Spends(s, s) /\ Idle(s, s)
    <3>1. Wealth(s) \in Nat
      BY <2>6, WealthIs
    <3> QED
      BY <2>6, <3>1, ChangedSelf DEF Spends, Idle, SameParts, SameElse
  <2>8. Reliable(s, gs, Owed(tx), supply, deaths) /\ SameOrigins(s, ls, s, gs)
    BY <1>1, <1>2, <1>3, <1>6, <2>5, <2>7, ReliableOn
  <2>9. Clean(s, gs)
    <3>1. "spurious_dragon" \in s.rules => Lives(s, s) /\ Tidy(s)
      BY <1>6, LivesSelf DEF Clean
    <3> QED
      BY <1>3, <1>6, <2>5, <2>6, <2>8, <3>1, CleanOn
  <2>10. Saved(gs) = Saved(ls)
    BY <1>3, <2>5, SavedSimilar
  <2> QED
    BY <1>4, <1>5, <2>4, <2>9, <2>10
<1> QED
  BY <1>8, <1>9

LEMMA ReturnSeen ==
  ASSUME Inv, Return, Clean(st, frames)
  PROVE  Clean(st', frames') /\ Seen
<1>1. Len(frames) > 1 /\ Delivered(st, 1, Top.gas)
  BY DEF Return
<1>2. Top.gas \in 0..Top.gas /\ st \in States
  BY <1>1, TopIs
<1>3. frames \in Stacks /\ Reliable(st, frames, Owed(tx), supply, deaths)
  BY DEF Inv
<1>4. Reliable(st, Front(frames), Owed(tx), supply, deaths)
  BY <1>1, <1>3, ReliablePop
<1>5. Clean(st, Front(frames))
  BY <1>1, <1>2, <1>3, CleanPop
<1>6. st' = st /\ Clean(st', frames') /\ Saved(frames') = Front(Saved(frames))
  BY <1>1, <1>2, <1>4, <1>5, DeliveredSeen
<1>7. Saved(frames) # <<>>
  BY <1>1, <1>3, SavedFront
<1> QED
  BY <1>6, <1>7 DEF Seen

LEMMA FailSeen ==
  ASSUME Inv, Fault \/ Revert, Clean(st, frames)
  PROVE  Clean(st', frames') /\ Seen
<1>1. Len(frames) > 1
  BY DEF Fault, Revert, Running
<1>2. 0 \in 0..Top.gas /\ Top.gas \in 0..Top.gas /\ Top = Last(frames) /\ st \in States
  BY <1>1, TopIs
<1> DEFINE u == revert(revert(st, Top.snap), Top.outer)
<1>3. PICK gas \in 0..Top.gas : Delivered(u, 0, gas)
  BY <1>2 DEF Fault, Revert, Failed
<1>4. frames \in Stacks /\ Reliable(st, frames, Owed(tx), supply, deaths)
  BY DEF Inv
<1>5. /\ Reliable(u, Front(frames), Owed(tx), supply, deaths)
      /\ World(u) = Top.world /\ u.rules = st.rules /\ u = Origin(st, Last(frames))
      /\ \A i \in 2..Len(frames) - 1 : Origin(u, Front(frames)[i]) = Origin(st, frames[i])
  BY <1>1, <1>2, <1>4, ReliableFail
<1> HIDE DEF u
<1>6. Clean(u, Front(frames))
  BY <1>1, <1>2, <1>4, <1>5, CleanFail
<1>7. st' = u /\ Clean(st', frames') /\ Saved(frames') = Front(Saved(frames))
  BY <1>1, <1>3, <1>5, <1>6, DeliveredSeen
<1>8. Saved(frames) # <<>> /\ Last(Saved(frames)) = Top.world
  BY <1>1, <1>2, <1>4, SavedFront
<1> QED
  BY <1>5, <1>7, <1>8 DEF Seen

(* Between messages.                                                         *)
LEMMA SavedOne ==
  ASSUME NEW fs \in Stacks, Len(fs) = 1
  PROVE  /\ Saved(fs) # <<>> /\ Front(Saved(fs)) = Saved(<<>>)
         /\ Last(Saved(fs)) = fs[1].world
<1>1. /\ Saved(fs) \in Seq(Worlds) /\ Len(Saved(fs)) = 1
      /\ \A i \in 1..1 : Saved(fs)[i] = fs[i].world
  BY SavedIs
<1>2. Saved(<<>>) \in Seq(Worlds) /\ Len(Saved(<<>>)) = 0
  BY Nobody, SavedIs
<1>3. Saved(fs) # <<>>
  BY <1>1
<1>4. Last(Saved(fs)) = fs[1].world
  BY <1>1 DEF Last
<1> DEFINE ls == Front(Saved(fs))
<1>5. ls \in Seq(Worlds) /\ Len(ls) = 0
  <2>1. ls \in Seq(Worlds) /\ Len(ls) = Len(Saved(fs)) - 1
    BY <1>1, <1>3, FrontIs
  <2> QED
    BY <1>1, <2>1
<1> HIDE DEF ls
<1>6. ls = Saved(<<>>)
  BY <1>2, <1>5
<1> QED
  BY <1>3, <1>4, <1>6 DEF ls

LEMMA CleanNone ==
  ASSUME NEW s, Tidy(s)
  PROVE  Clean(s, <<>>)
<1>1. Len(<<>>) = 0 /\ ~\E i \in 2..Len(<<>>) : TRUE
  OBVIOUS
<1> QED
  BY <1>1 DEF Clean

LEMMA CleanOne ==
  ASSUME NEW s, Tidy(s), NEW fs, Len(fs) = 1, Tidy(Opening(s, fs[1]))
  PROVE  Clean(s, fs)
<1>1. ~\E i \in 2..Len(fs) : TRUE
  OBVIOUS
<1> QED
  BY <1>1 DEF Clean

LEMMA CleanIs ==
  ASSUME NEW s, NEW fs, Clean(s, fs)
  PROVE  Tidy(s) /\ (Len(fs) = 1 => Tidy(Opening(s, fs[1])))
<1>1. CASE "spurious_dragon" \in s.rules
  BY <1>1 DEF Clean
<1>2. CASE "spurious_dragon" \notin s.rules
  <2>1. Opening(s, fs[1]).rules = s.rules
    BY DEF Opening, Opened, Restored
  <2> QED
    BY <1>2, <2>1 DEF Tidy
<1> QED
  BY <1>1, <1>2

LEMMA InitSeen ==
  ASSUME Init
  PROVE  Clean(st, frames) /\ Saved(frames) = <<>>
<1>1. PICK start \in Starts : st = Opened(start[1], start[2]) /\ frames = <<>>
  BY DEF Init
<1>2. start[1] \in Tries /\ start[2] \in SUBSET STRING
  BY StartsAssumption DEF Tries
<1>3. /\ st.rules = start[2] /\ st.cache = [a \in Address |-> Loaded(start[1][a])]
  BY <1>1, <1>2, OpenedIs
<1>4. Tidy(st)
  <2>1. \A a \in Address : "spurious_dragon" \in start[2] /\ is_blank(start[1][a]) =>
          start[1][a].storage = NoStorage
    BY StartsAssumption DEF NoStorage
  <2> QED
    BY <1>3, <2>1 DEF Tidy, is_blank, Loaded
<1>5. Saved(frames) = <<>>
  <2>1. Saved(<<>>) \in Seq(Worlds) /\ Len(Saved(<<>>)) = 0
    BY Nobody, SavedIs
  <2> QED
    BY <1>1, <2>1
<1> QED
  BY <1>1, <1>4, <1>5, CleanNone

LEMMA BeginBlockSeen ==
  ASSUME Inv, Inv', BeginBlock, Clean(st, frames)
  PROVE  Clean(st', frames') /\ Seen
<1> DEFINE b == [snap |-> snapshot(st), world |-> World(st), gas |-> 0, static |-> FALSE,
                 runs |-> FALSE, supply |-> supply]
<1>1. /\ frames = <<>> /\ tx.blocks < MaxBlocks
      /\ frames' = <<b>> /\ st' = [st EXCEPT !.txindex = 0]
  BY DEF BeginBlock
<1>2. /\ st.journal = <<>> /\ Reliable(st, frames, Owed(tx), supply, deaths)
      /\ frames' \in Stacks
  BY <1>1 DEF Inv
<1>3. st \in States /\ Base(st)
  BY <1>2 DEF Reliable
<1>4. st' \in States /\ Alike(st, st') /\ st'.rules = st.rules
  BY <1>1, <1>3 DEF States, Alike
<1>5. Tidy(st) /\ Tidy(st')
  <2>1. SameParts(st, st')
    BY <1>3, <1>4, AlikeLater
  <2>2. Tidy(st)
    BY CleanIs
  <2> QED
    BY <1>3, <1>4, <2>1, <2>2, TidySame
<1>6. Opening(st', b) = st
  <2>1. snapshot(st).aux = Aux(st) /\ snapshot(st).root = st.trie
    BY <1>3, SnapshotIs
  <2>2. Restored(Opened(st.trie, st.rules), Aux(st)) = st
    BY <1>2, <1>3, BaseIs
  <2> QED
    BY <1>4, <2>1, <2>2 DEF Opening
<1> HIDE DEF b
<1>7. Len(frames') = 1 /\ frames'[1] = b
  BY <1>1
<1>8. Clean(st', frames')
  BY <1>5, <1>6, <1>7, CleanOne
<1>9. Saved(frames') # <<>> /\ Front(Saved(frames')) = Saved(frames)
  BY <1>1, <1>2, <1>7, SavedOne
<1> QED
  BY <1>8, <1>9 DEF Seen

LEMMA FinalizeSeen ==
  ASSUME Inv, Inv', Finalize, Clean(st, frames)
  PROVE  Clean(st', frames') /\ Seen
<1> DEFINE b == [Top EXCEPT !.runs = TRUE]
<1>1. /\ Len(frames) = 1 /\ st' = delta_balance(st, Coinbase, BlockReward) /\ frames' = <<b>>
  BY DEF Finalize
<1>2. /\ Top \in BlockFrame /\ Top = frames[1] /\ frames \in Stacks /\ st \in States
  BY <1>1, BlockIs
<1>3. Coinbase \in Address /\ BlockReward \in Nat
  BY AddressesAssumption, ValuesAssumption
<1>4. Balances(st) \in [Address -> Nat] /\ Balances(st)[Coinbase] + BlockReward >= 0
  BY <1>2, <1>3, PartsTyped
<1>5. /\ Changed(st, st') /\ SameElse(st, st')
      /\ Balances(st') = [Balances(st) EXCEPT ![Coinbase] = Balances(st)[Coinbase] + BlockReward]
  BY <1>1, <1>2, <1>3, <1>4, DeltaIs
<1>6. st' \in States /\ st'.rules = st.rules
  BY <1>5 DEF Changed
<1>7. Tidy(st) /\ Tidy(Opening(st, frames[1]))
  BY <1>1, CleanIs
<1>8. Tidy(st')
  <2>1. ASSUME NEW a \in Address
        PROVE  \/ Peopled(st', a)
               \/ ~Peopled(st, a) /\ Balances(st')[a] >= Balances(st)[a]
                  /\ Storages(st')[a] = Storages(st)[a]
    BY <1>3, <1>4, <1>5 DEF SameElse, Peopled
  <2> QED
    BY <1>2, <1>6, <1>7, <2>1, TidyKept
<1>9. b.snap = Top.snap /\ b.world = Top.world /\ b \in BlockFrame
  BY <1>2 DEF BlockFrame
<1> HIDE DEF b
<1>10. frames' \in Stacks /\ Len(frames') = 1 /\ frames'[1] = b
  BY <1>1, <1>9, Alone
<1>11. Opening(st', frames'[1]) = Opening(st, frames[1])
  BY <1>2, <1>6, <1>9, <1>10 DEF Opening
<1>12. Clean(st', frames')
  BY <1>7, <1>8, <1>10, <1>11, CleanOne
<1>13. Saved(frames') = Saved(frames)
  <2>1. /\ Saved(frames) \in Seq(Worlds) /\ Len(Saved(frames)) = 1
        /\ \A i \in 1..1 : Saved(frames)[i] = frames[i].world
    BY <1>1, <1>2, SavedIs
  <2>2. /\ Saved(frames') \in Seq(Worlds) /\ Len(Saved(frames')) = 1
        /\ \A i \in 1..1 : Saved(frames')[i] = frames'[i].world
    BY <1>10, SavedIs
  <2> QED
    BY <1>2, <1>9, <1>10, <2>1, <2>2
<1> QED
  BY <1>12, <1>13 DEF Seen

LEMMA AcceptBlockSeen ==
  ASSUME Inv, AcceptBlock, Clean(st, frames)
  PROVE  Clean(st', frames') /\ Seen
<1>1. /\ Len(frames) = 1 /\ st' = commit(st) /\ frames' = <<>>
  BY DEF AcceptBlock
<1>2. /\ Top = frames[1] /\ frames \in Stacks /\ st \in States /\ Coherent(st)
  BY <1>1, BlockIs
<1>3. Tidy(st)
  BY CleanIs
<1>4. /\ st' \in States /\ st'.rules = st.rules /\ Aux(st') = Aux(st)
      /\ SameParts(st, st')
      /\ \A a \in Address : account_exists(st', a) = account_exists(st, a)
  BY <1>1, <1>2, <1>3, CommitIs DEF SameParts, SameElse
<1>5. World(st') = World(st)
  BY <1>2, <1>4, WorldSame
<1>6. Tidy(st')
  BY <1>2, <1>3, <1>4, TidySame
<1>7. Clean(st', frames')
  BY <1>1, <1>6, CleanNone
<1>8. Saved(frames) # <<>> /\ Front(Saved(frames)) = Saved(frames')
  BY <1>1, <1>2, SavedOne
<1> QED
  BY <1>5, <1>7, <1>8 DEF Seen

LEMMA RefuseBlockSeen ==
  ASSUME Inv, RefuseBlock, Clean(st, frames)
  PROVE  Clean(st', frames') /\ Seen
<1>1. /\ Len(frames) = 1 /\ frames' = <<>> /\ Top = frames[1] /\ st' = Opening(st, Top)
  BY RefuseBlockIs
<1>2. frames \in Stacks /\ Reliable(st, frames, Owed(tx), supply, deaths)
  BY DEF Inv
<1>3. World(st') = frames[1].world
  BY <1>1, <1>2 DEF Reliable, Underneath
<1>4. Tidy(st')
  BY <1>1, CleanIs
<1>5. Clean(st', frames')
  BY <1>1, <1>4, CleanNone
<1>6. /\ Saved(frames) # <<>> /\ Front(Saved(frames)) = Saved(frames')
      /\ Last(Saved(frames)) = frames[1].world
  BY <1>1, <1>2, SavedOne
<1> QED
  BY <1>3, <1>5, <1>6 DEF Seen

LEMMA AbandonBlockSeen ==
  ASSUME Inv, AbandonBlock, Clean(st, frames)
  PROVE  Clean(st', frames') /\ Seen
<1>1. /\ Len(frames) = 1 /\ frames' = <<>> /\ st' = st /\ frames \in Stacks
  BY DEF AbandonBlock, Inv
<1>2. Tidy(st)
  BY CleanIs
<1>3. Clean(st', frames')
  BY <1>1, <1>2, CleanNone
<1>4. Saved(frames) # <<>> /\ Front(Saved(frames)) = Saved(frames')
  BY <1>1, SavedOne
<1> QED
  BY <1>1, <1>3, <1>4 DEF Seen

LEMMA FinishTransactionSeen ==
  ASSUME Inv, FinishTransaction, Clean(st, frames)
  PROVE  Clean(st', frames') /\ Seen
<1>1. Len(frames) = 1 /\ FinishesIn(st') /\ frames' = frames
  BY FinishTransactionIs
<1>2. Tidy(st) /\ Tidy(Opening(st, frames[1]))
  BY <1>1, CleanIs
<1>3. Tidy(st') /\ st'.rules = st.rules
  BY <1>1, <1>2 DEF FinishesIn
<1>4. Opening(st', frames[1]) = Opening(st, frames[1])
  BY <1>3 DEF Opening
<1>5. Clean(st', frames')
  BY <1>1, <1>2, <1>3, <1>4, CleanOne
<1> QED
  BY <1>1, <1>5 DEF Seen

LEMMA NextSeen ==
  ASSUME Inv, [Next]_vars, Clean(st, frames), [Unoccupied]_vars
  PROVE  Clean(st, frames)' /\ (Seen \/ UNCHANGED <<World(st), Saved(frames)>>)
<1>1. Inv'
  BY NextInv
<1>2. CASE UNCHANGED vars
  <2>1. frames' = frames /\ st' = st
    BY <1>2 DEF vars
  <2> QED
    BY <2>1
<1>3. ASSUME Unoccupied, Executes PROVE Clean(st', frames') /\ Seen
  BY <1>3, ExecutesSteps, ContinuesSeen, NestsSeen
<1>4. ASSUME Unoccupied, st.txindex < Len(Transactions), NEW t \in Transactions[st.txindex + 1],
             BeginTransaction(t.to, t.value, t.gas)
      PROVE  Clean(st', frames') /\ Seen
  <2>1. /\ t.to \in Address \union {CREATE} /\ t.value \in Nat /\ t.gas \in Nat
        /\ t.to = CREATE => t.gas > 0
    BY <1>4, TransactionIs
  <2>2. Begins(t.gas)
    BY <1>4, <2>1, BeginTransactionBegins
  <2> QED
    BY <1>4, <2>1, <2>2, BeginsSeen
<1>5. ASSUME Return \/ Fault \/ Revert PROVE Clean(st', frames') /\ Seen
  BY <1>5, ReturnSeen, FailSeen
<1>6. ASSUME \/ BeginBlock \/ Finalize \/ AcceptBlock \/ RefuseBlock \/ AbandonBlock
             \/ FinishTransaction
      PROVE  Clean(st', frames') /\ Seen
  BY <1>1, <1>6, BeginBlockSeen, FinalizeSeen, AcceptBlockSeen, RefuseBlockSeen,
     AbandonBlockSeen, FinishTransactionSeen
<1>7. CASE Next /\ Unoccupied
  <2>1. \/ Executes \/ Return \/ Fault \/ Revert
        \/ BeginBlock \/ Finalize \/ AcceptBlock \/ RefuseBlock \/ AbandonBlock
        \/ st.txindex < Len(Transactions) /\ \E t \in Transactions[st.txindex + 1] :
             BeginTransaction(t.to, t.value, t.gas)
        \/ FinishTransaction
    BY <1>7 DEF Next, Executes
  <2>2. Clean(st', frames') /\ Seen
    BY <1>3, <1>4, <1>5, <1>6, <1>7, <2>1
  <2> QED
    BY <2>2 DEF Clean, Tidy, Opening, Origin, Settled
<1> QED
  BY <1>2, <1>7

(* Through any nesting of calls, commits and blocks, what fails leaves the   *)
(* world as it found it and what succeeds as it made it (revert, commit and  *)
(* the journal of state.py; _apply_msg; create_contract; apply_block),       *)
(* provided that no contract is created at an address in use between the     *)
(* Spurious Dragon and Metropolis.                                           *)
THEOREM ExecutionNests == Spec /\ [][Unoccupied]_vars => ImplementsSnapshots
<1> DEFINE worlds == [i \in DOMAIN frames |-> frames[i].world]
<1>1. Init => Nested!Init /\ Clean(st, frames)
  BY InitSeen DEF Nested!Init, Saved
<1>2. Inv /\ [Next]_vars /\ Clean(st, frames) /\ [Unoccupied]_vars
        => Clean(st, frames)' /\ [Nested!Next]_<<World(st), worlds>>
  <2> SUFFICES ASSUME Inv, [Next]_vars, Clean(st, frames), [Unoccupied]_vars
               PROVE  Clean(st, frames)' /\ [Nested!Next]_<<World(st), worlds>>
    OBVIOUS
  <2>1. Clean(st, frames)' /\ (Seen \/ UNCHANGED <<World(st), Saved(frames)>>)
    BY NextSeen
  <2>2. worlds = Saved(frames) /\ worlds' = Saved(frames')
    BY DEF Saved
  <2>3. \A s : Nested!Front(s) = Front(s) /\ Nested!Last(s) = Last(s)
    BY DEF Nested!Front, Front, Nested!Last, Last
  <2>4. Seen => Nested!Next
    BY <2>3 DEF Seen, Saved, Nested!Next, Nested!Begin, Nested!Work, Nested!Succeed, Nested!Fail
  <2> QED
    BY <2>1, <2>2, <2>4
<1> QED
  BY <1>1, <1>2, AlwaysInv, PTL DEF Spec, ImplementsSnapshots, Nested!Spec
===============================================================================
