-------------------------- MODULE CasperQueueProofs --------------------------
(***************************************************************************)
(* Where a block that was delivered to CasperChain is: stored, laid aside  *)
(* by its time or for its parent, or in a call that is still to be made.   *)
(* First sequences by what is in them, then the invariant of the calls in  *)
(* progress, one lemma per kind of step, and the theorem.  Last, that a    *)
(* block that is delivered once is in one of these places only.            *)
(***************************************************************************)
EXTENDS CasperChain, Induction

(* The assumptions on the constants, as the steps below use them.           *)
LEMMA Constants ==
  /\ Genesis \notin Block /\ NoBlock \notin AllBlock /\ Block \subseteq AllBlock
  /\ Genesis \in AllBlock
  /\ Parent \in [Block -> AllBlock]
  /\ Number \in [AllBlock -> Height]
  /\ Number[Genesis] = 0
  /\ \A b \in Block : Number[b] = Number[Parent[b]] + 1
  /\ Difficulty \in [AllBlock -> Nat \ {0}]
  /\ MaxHeight \in Nat /\ EpochLength \in Nat \ {0} /\ RandomUnit \in Nat \ {0}
  /\ Frac \in [Block -> Nat] /\ Valid \subseteq Block /\ MaxCopies \in Nat
BY BlockTreeAssumption, CasperAssumption
   DEF TreeAssumption, DataAssumption, AllBlock

-------------------------------------------------------------------------------
In(s, x) == \E i \in 1..Len(s) : s[i] = x
Single(s) == \A i, j \in 1..Len(s) : s[i] = s[j] => i = j

(* A function on 1..n is a sequence of length n.                            *)
LEMMA ArrayIsSeq ==
  ASSUME NEW n \in Nat, NEW S, NEW h \in [1..n -> S]
  PROVE  h \in Seq(S) /\ Len(h) = n
OBVIOUS

(* u is s and after it t.                                                   *)
Joins(u, s, t, S) ==
  /\ s \in Seq(S) /\ t \in Seq(S)
  /\ u \in Seq(S) /\ Len(u) = Len(s) + Len(t)
  /\ \A i \in 1..Len(s) : u[i] = s[i]
  /\ \A i \in 1..Len(t) : u[Len(s) + i] = t[i]

LEMMA Concat ==
  ASSUME NEW S, NEW s \in Seq(S), NEW t \in Seq(S)
  PROVE  Joins(s \o t, s, t, S)
<1> DEFINE u == s \o t
<1>1. /\ u \in Seq(S) /\ Len(u) = Len(s) + Len(t)
      /\ \A i \in 1..Len(s) : u[i] = s[i]
      /\ \A i \in 1..Len(t) : u[Len(s) + i] = t[i]
  OBVIOUS
<1> HIDE DEF u
<1> QED
  BY <1>1 DEF Joins, u

(* What is in two sequences, one after the other.                           *)
LEMMA InJoined ==
  ASSUME NEW S, NEW s, NEW t, NEW u, Joins(u, s, t, S)
  PROVE  \A x : In(u, x) <=> In(s, x) \/ In(t, x)
<1>1. /\ u \in Seq(S) /\ Len(u) = Len(s) + Len(t)
      /\ \A i \in 1..Len(s) : u[i] = s[i]
      /\ \A i \in 1..Len(t) : u[Len(s) + i] = t[i]
  BY DEF Joins
<1>2. Len(s) \in Nat /\ Len(t) \in Nat
  BY DEF Joins
<1>3. ASSUME NEW x, NEW i \in 1..Len(u), u[i] = x PROVE In(s, x) \/ In(t, x)
  <2>1. CASE i <= Len(s)
    BY <1>1, <1>2, <1>3, <2>1 DEF In
  <2>2. CASE ~(i <= Len(s))
    <3>1. i - Len(s) \in 1..Len(t) /\ Len(s) + (i - Len(s)) = i
      BY <1>1, <1>2, <2>2
    <3> QED
      BY <1>1, <1>3, <3>1 DEF In
  <2> QED
    BY <2>1, <2>2
<1>4. ASSUME NEW x, In(s, x) PROVE In(u, x)
  <2>1. \A i \in 1..Len(s) : i \in 1..Len(u)
    BY <1>1, <1>2
  <2> QED
    BY <1>1, <1>4, <2>1 DEF In
<1>5. ASSUME NEW x, In(t, x) PROVE In(u, x)
  <2>1. \A i \in 1..Len(t) : Len(s) + i \in 1..Len(u)
    BY <1>1, <1>2
  <2> QED
    BY <1>1, <1>5, <2>1 DEF In
<1> QED
  BY <1>3, <1>4, <1>5 DEF In

(* d is s from position m to position n.                                    *)
Slice(d, s, m, n, S) ==
  /\ d \in Seq(S) /\ Len(d) = n - m + 1
  /\ \A i \in 1..n - m + 1 : d[i] = s[m + i - 1]

LEMMA SliceIs ==
  ASSUME NEW S, NEW s \in Seq(S), NEW m \in Nat \ {0}, NEW n \in Nat,
         n <= Len(s), m <= n + 1
  PROVE  Slice(SubSeq(s, m, n), s, m, n, S)
<1> DEFINE k == n - m + 1
           d == SubSeq(s, m, n)
<1>1. k \in Nat /\ Len(s) \in Nat
  OBVIOUS
<1>2. d = [i \in 1..k |-> s[m + i - 1]]
  OBVIOUS
<1>3. \A i \in 1..k : s[m + i - 1] \in S
  OBVIOUS
<1>4. [i \in 1..k |-> s[m + i - 1]] \in [1..k -> S]
  BY <1>1, <1>3
<1>5. \A i \in 1..k : d[i] = s[m + i - 1]
  <2> HIDE DEF d, k
  <2> QED
    BY <1>2
<1>6. d \in [1..k -> S]
  BY <1>2, <1>4, Zenon
<1>7. d \in Seq(S) /\ Len(d) = k
  <2> HIDE DEF d, k
  <2> QED
    BY <1>1, <1>6, ArrayIsSeq
<1> QED
  BY <1>5, <1>7 DEF Slice

(* An element is taken out of a sequence.                                   *)
LEMMA Without ==
  ASSUME NEW S, NEW s \in Seq(S), NEW i \in Nat, i < Len(s)
  PROVE  LET t == SubSeq(s, 1, i) \o SubSeq(s, i + 2, Len(s)) IN
         /\ t \in Seq(S)
         /\ \A x : In(s, x) <=> x = s[i + 1] \/ In(t, x)
         /\ Single(s) => Single(t) /\ ~In(t, s[i + 1])
<1> DEFINE a == SubSeq(s, 1, i)
           b == SubSeq(s, i + 2, Len(s))
           t == a \o b
<1>1. Len(s) \in Nat /\ i + 1 \in 1..Len(s)
  OBVIOUS
<1>2. a \in Seq(S) /\ Len(a) = i /\ \A j \in 1..i : a[j] = s[j]
  <2>1. Slice(a, s, 1, i, S)
    BY <1>1, SliceIs
  <2> HIDE DEF a
  <2> QED
    BY <1>1, <2>1 DEF Slice
<1>3. /\ b \in Seq(S) /\ Len(b) = Len(s) - (i + 1)
      /\ \A j \in 1..Len(s) - (i + 1) : b[j] = s[i + 1 + j]
  <2>1. Slice(b, s, i + 2, Len(s), S)
    BY <1>1, SliceIs
  <2>2. Len(s) - (i + 2) + 1 = Len(s) - (i + 1) /\ \A j \in Nat : i + 2 + j - 1 = i + 1 + j
    BY <1>1
  <2> HIDE DEF b
  <2>3. b \in Seq(S) /\ Len(b) = Len(s) - (i + 1)
    BY <2>1, <2>2 DEF Slice
  <2>4. ASSUME NEW j \in 1..Len(s) - (i + 1) PROVE b[j] = s[i + 1 + j]
    <3>1. j \in 1..Len(s) - (i + 2) + 1 /\ i + 2 + j - 1 = i + 1 + j
      BY <1>1
    <3>2. b[j] = s[i + 2 + j - 1]
      BY <2>1, <3>1 DEF Slice
    <3> QED
      BY <3>1, <3>2
  <2> QED
    BY <2>3, <2>4
<1> HIDE DEF a, b
<1>4. /\ t \in Seq(S) /\ Len(t) = Len(s) - 1
      /\ \A j \in 1..i : t[j] = s[j]
      /\ \A j \in i + 1..Len(s) - 1 : t[j] = s[j + 1]
  <2>1. Joins(t, a, b, S)
    BY <1>2, <1>3, Concat
  <2> HIDE DEF t
  <2>2. t \in Seq(S) /\ Len(t) = Len(s) - 1 /\ \A j \in 1..i : t[j] = s[j]
    BY <1>1, <1>2, <1>3, <2>1 DEF Joins
  <2>3. ASSUME NEW j \in i + 1..Len(s) - 1 PROVE t[j] = s[j + 1]
    <3>1. j - i \in 1..Len(s) - (i + 1) /\ i + (j - i) = j /\ i + 1 + (j - i) = j + 1
      BY <1>1
    <3>2. t[i + (j - i)] = b[j - i] /\ b[j - i] = s[i + 1 + (j - i)]
      BY <1>2, <1>3, <2>1, <3>1 DEF Joins
    <3> QED
      BY <3>1, <3>2
  <2> QED
    BY <2>2, <2>3
<1> DEFINE from(j) == IF j <= i THEN j ELSE j + 1
<1>5. \A j \in 1..Len(t) : /\ from(j) \in 1..Len(s) /\ t[j] = s[from(j)] /\ from(j) # i + 1
                           /\ \A k \in 1..Len(t) : from(j) = from(k) => j = k
  <2> HIDE DEF t
  <2> QED
    BY <1>1, <1>4
<1>6. \A k \in 1..Len(s) : k # i + 1 => \E j \in 1..Len(t) : t[j] = s[k]
  <2> SUFFICES ASSUME NEW k \in 1..Len(s), k # i + 1
               PROVE  \E j \in 1..Len(t) : t[j] = s[k]
    OBVIOUS
  <2> DEFINE j == IF k <= i THEN k ELSE k - 1
  <2>1. j \in 1..Len(t) /\ t[j] = s[k]
    <3> HIDE DEF t
    <3>1. CASE k <= i
      BY <1>1, <1>4, <3>1
    <3>2. CASE ~(k <= i)
      BY <1>1, <1>4, <3>2
    <3> QED
      BY <3>1, <3>2
  <2> HIDE DEF j, t
  <2> QED
    BY <2>1
<1> HIDE DEF t
<1>7. ASSUME NEW x PROVE In(s, x) <=> x = s[i + 1] \/ In(t, x)
  <2>1. In(s, x) => x = s[i + 1] \/ In(t, x)
    BY <1>6 DEF In
  <2>2. In(t, x) => In(s, x)
    BY <1>5 DEF In
  <2>3. x = s[i + 1] => In(s, x)
    BY <1>1 DEF In
  <2> QED
    BY <2>1, <2>2, <2>3
<1>8. ASSUME Single(s) PROVE Single(t) /\ ~In(t, s[i + 1])
  <2> HIDE DEF from
  <2> QED
    BY <1>1, <1>5, <1>8 DEF Single, In
<1> QED
  BY <1>4, <1>7, <1>8 DEF t, a, b

(* An element is put into a sequence.                                       *)
LEMMA With ==
  ASSUME NEW S, NEW s \in Seq(S), NEW i \in 0..Len(s), NEW b \in S
  PROVE  LET t == SubSeq(s, 1, i) \o <<b>> \o SubSeq(s, i + 1, Len(s)) IN
         /\ t \in Seq(S)
         /\ \A x : In(t, x) <=> x = b \/ In(s, x)
         /\ Single(s) /\ ~In(s, b) => Single(t)
<1> DEFINE a == SubSeq(s, 1, i)
           m == <<b>>
           c == SubSeq(s, i + 1, Len(s))
           am == a \o m
           t == am \o c
<1>1. Len(s) \in Nat /\ i \in Nat
  OBVIOUS
<1>2. a \in Seq(S) /\ Len(a) = i /\ \A j \in 1..i : a[j] = s[j]
  <2>1. Slice(a, s, 1, i, S)
    BY <1>1, SliceIs
  <2> HIDE DEF a
  <2> QED
    BY <1>1, <2>1 DEF Slice
<1>3. c \in Seq(S) /\ Len(c) = Len(s) - i /\ \A j \in 1..Len(s) - i : c[j] = s[i + j]
  <2>1. Slice(c, s, i + 1, Len(s), S)
    BY <1>1, SliceIs
  <2> HIDE DEF c
  <2>2. c \in Seq(S) /\ Len(c) = Len(s) - i
    BY <1>1, <2>1 DEF Slice
  <2>3. ASSUME NEW j \in 1..Len(s) - i PROVE c[j] = s[i + j]
    <3>1. j \in 1..Len(s) - (i + 1) + 1 /\ i + 1 + j - 1 = i + j
      BY <1>1
    <3>2. c[j] = s[i + 1 + j - 1]
      BY <2>1, <3>1 DEF Slice
    <3> QED
      BY <3>1, <3>2
  <2> QED
    BY <2>2, <2>3
<1>4. m \in Seq(S) /\ Len(m) = 1 /\ m[1] = b
  OBVIOUS
<1> HIDE DEF a, c, m
<1>5. /\ am \in Seq(S) /\ Len(am) = i + 1 /\ am[i + 1] = b
      /\ \A j \in 1..i : am[j] = s[j]
  <2>1. Joins(am, a, m, S)
    BY <1>2, <1>4, Concat
  <2> HIDE DEF am
  <2> QED
    BY <1>1, <1>2, <1>4, <2>1 DEF Joins
<1> HIDE DEF am
<1>6. /\ t \in Seq(S) /\ Len(t) = Len(s) + 1 /\ t[i + 1] = b
      /\ \A j \in 1..i : t[j] = s[j]
      /\ \A j \in i + 2..Len(s) + 1 : t[j] = s[j - 1]
  <2>1. Joins(t, am, c, S)
    BY <1>3, <1>5, Concat
  <2> HIDE DEF t
  <2>2. t \in Seq(S) /\ Len(t) = Len(s) + 1
    BY <1>1, <1>3, <1>5, <2>1 DEF Joins
  <2>3. t[i + 1] = b /\ \A j \in 1..i : t[j] = s[j]
    BY <1>1, <1>5, <2>1 DEF Joins
  <2>4. ASSUME NEW j \in i + 2..Len(s) + 1 PROVE t[j] = s[j - 1]
    <3> DEFINE k == j - (i + 1)
    <3>1. k \in 1..Len(s) - i /\ (i + 1) + k = j /\ i + k = j - 1
      BY <1>1
    <3> HIDE DEF k
    <3>2. t[(i + 1) + k] = c[k] /\ c[k] = s[i + k]
      BY <1>3, <1>5, <2>1, <3>1 DEF Joins
    <3> QED
      BY <3>1, <3>2
  <2> QED
    BY <2>2, <2>3, <2>4
<1> DEFINE to(j) == IF j <= i THEN j ELSE j + 1
           from(j) == IF j <= i THEN j ELSE j - 1
<1> HIDE DEF t
<1>7. \A j \in 1..Len(s) : to(j) \in 1..Len(t) /\ t[to(j)] = s[j]
  BY <1>1, <1>6
<1>8. \A j \in 1..Len(t) : j # i + 1 => /\ from(j) \in 1..Len(s) /\ t[j] = s[from(j)]
                                        /\ \A k \in 1..Len(t) :
                                             k # i + 1 /\ from(j) = from(k) => j = k
  BY <1>1, <1>6
<1>9. i + 1 \in 1..Len(t)
  BY <1>1, <1>6
<1> HIDE DEF to, from
<1>10. ASSUME NEW x PROVE In(t, x) <=> x = b \/ In(s, x)
  <2>1. In(t, x) => x = b \/ In(s, x)
    BY <1>6, <1>8 DEF In
  <2>2. In(s, x) => In(t, x)
    BY <1>7 DEF In
  <2>3. x = b => In(t, x)
    BY <1>6, <1>9 DEF In
  <2> QED
    BY <2>1, <2>2, <2>3
<1>11. ASSUME Single(s), ~In(s, b) PROVE Single(t)
  <2> SUFFICES ASSUME NEW j \in 1..Len(t), NEW k \in 1..Len(t), t[j] = t[k] PROVE j = k
    BY DEF Single
  <2>1. \A n \in 1..Len(t) : n # i + 1 => t[n] # b
    BY <1>8, <1>11 DEF In
  <2>2. CASE j = i + 1 \/ k = i + 1
    BY <1>6, <2>1, <2>2
  <2>3. CASE j # i + 1 /\ k # i + 1
    <3>1. from(j) = from(k)
      BY <1>8, <1>11, <2>3 DEF Single
    <3> QED
      BY <1>8, <2>3, <3>1
  <2> QED
    BY <2>2, <2>3
<1> QED
  BY <1>6, <1>10, <1>11 DEF t, am, a, c, m

(* An element is appended.                                                  *)
LEMMA Appended ==
  ASSUME NEW S, NEW s \in Seq(S), NEW b \in S
  PROVE  /\ Append(s, b) \in Seq(S)
         /\ \A x : In(Append(s, b), x) <=> x = b \/ In(s, x)
         /\ Single(s) /\ ~In(s, b) => Single(Append(s, b))
<1> DEFINE t == Append(s, b)
<1>1. /\ t \in Seq(S) /\ Len(t) = Len(s) + 1 /\ t[Len(s) + 1] = b
      /\ \A j \in 1..Len(s) : t[j] = s[j]
      /\ Len(s) \in Nat
  OBVIOUS
<1> HIDE DEF t
<1>2. \A j \in 1..Len(t) : j = Len(s) + 1 \/ j \in 1..Len(s)
  BY <1>1
<1>3. Len(s) + 1 \in 1..Len(t) /\ \A j \in 1..Len(s) : j \in 1..Len(t)
  BY <1>1
<1>4. \A x : In(t, x) <=> x = b \/ In(s, x)
  BY <1>1, <1>2, <1>3 DEF In
<1>5. Single(s) /\ ~In(s, b) => Single(t)
  BY <1>1, <1>2, <1>3 DEF Single, In
<1> QED
  BY <1>1, <1>4, <1>5 DEF t

(* v is w with pre in place of its first element.                           *)
Replaces(v, w, pre, S) ==
  /\ v \in Seq(S) /\ 1 \in 1..Len(w) /\ Head(w) = w[1] /\ Len(pre) \in Nat
  /\ \A i \in 1..Len(v) :
       \/ i \in 1..Len(pre) /\ v[i] = pre[i]
       \/ i - Len(pre) + 1 \in 2..Len(w) /\ v[i] = w[i - Len(pre) + 1]
  /\ \A i \in 1..Len(pre) : i \in 1..Len(v) /\ v[i] = pre[i]
  /\ \A k \in 2..Len(w) :
       /\ k \in 1..Len(w) /\ Len(pre) + k - 1 \in 1..Len(v)
       /\ v[Len(pre) + k - 1] = w[k]
  /\ \A x : In(v, x) => In(pre, x) \/ In(w, x)
  /\ \A x : In(w, x) => x = Head(w) \/ In(v, x)
  /\ \A x : In(pre, x) => In(v, x)

LEMMA Pops ==
  ASSUME NEW S, NEW w \in Seq(S), w # <<>>, NEW pre \in Seq(S)
  PROVE  Replaces(pre \o Tail(w), w, pre, S)
<1> DEFINE t == Tail(w)
           v == pre \o t
           n == Len(pre)
<1>1. /\ t \in Seq(S) /\ Len(t) = Len(w) - 1 /\ \A i \in 1..Len(t) : t[i] = w[i + 1]
      /\ Head(w) = w[1] /\ Len(w) \in Nat \ {0}
  OBVIOUS
<1> HIDE DEF t
<1>joins. Joins(v, pre, t, S) /\ n \in Nat /\ n = Len(pre)
  BY <1>1, Concat
<1> HIDE DEF v, n
<1>2. /\ v \in Seq(S) /\ Len(v) = n + Len(t) /\ n \in Nat
      /\ \A i \in 1..n : v[i] = pre[i]
      /\ \A i \in 1..Len(t) : v[n + i] = t[i]
      /\ \A x : In(v, x) <=> In(pre, x) \/ In(t, x)
  <2>1. \A x : In(v, x) <=> In(pre, x) \/ In(t, x)
    BY <1>joins, InJoined
  <2> QED
    BY <1>joins, <2>1 DEF Joins
<1>3. \A i \in 1..Len(v) :
        i \in 1..n \/ (i - n + 1 \in 2..Len(w) /\ i = n + (i - n + 1) - 1)
  BY <1>1, <1>2
<1>4. \A i \in 1..n : i \in 1..Len(v) /\ v[i] = pre[i]
  BY <1>1, <1>2
<1>5. \A k \in 2..Len(w) :
        /\ k \in 1..Len(w)
        /\ n + k - 1 \in 1..Len(v) /\ n + k - 1 > n /\ v[n + k - 1] = w[k]
  <2> SUFFICES ASSUME NEW k \in 2..Len(w)
               PROVE  /\ k \in 1..Len(w)
                      /\ n + k - 1 \in 1..Len(v) /\ n + k - 1 > n /\ v[n + k - 1] = w[k]
    OBVIOUS
  <2>1. k - 1 \in 1..Len(t) /\ (k - 1) + 1 = k /\ n + (k - 1) = n + k - 1
    BY <1>1, <1>2
  <2>2. v[n + (k - 1)] = t[k - 1] /\ t[k - 1] = w[(k - 1) + 1]
    BY <1>1, <1>2, <2>1
  <2> QED
    BY <1>1, <1>2, <2>1, <2>2
<1>6. \A x : In(t, x) => In(w, x)
  <2>1. \A i \in 1..Len(t) : i + 1 \in 1..Len(w)
    BY <1>1
  <2>2. \A i \in 1..Len(t) : t[i] = w[i + 1]
    BY <1>1
  <2> QED
    BY <2>1, <2>2, Zenon DEF In
<1>7. \A x : In(w, x) => x = Head(w) \/ In(t, x)
  <2>1. \A i \in 1..Len(w) : i = 1 \/ (i - 1 \in 1..Len(t) /\ (i - 1) + 1 = i)
    BY <1>1
  <2>2. \A i \in 1..Len(w) : i = 1 \/ t[i - 1] = w[i]
    BY <1>1, <2>1
  <2> QED
    BY <1>1, <2>1, <2>2, Zenon DEF In
<1>8. 1 \in 1..Len(w)
  BY <1>1
<1>9. \A x : In(v, x) => In(pre, x) \/ In(w, x)
  BY <1>2, <1>6
<1>10. \A x : In(w, x) => x = Head(w) \/ In(v, x)
  BY <1>2, <1>7
<1>11. \A x : In(pre, x) => In(v, x)
  BY <1>2
<1>12. ASSUME NEW i \in 1..Len(v)
       PROVE  \/ i \in 1..n /\ v[i] = pre[i]
              \/ i - n + 1 \in 2..Len(w) /\ v[i] = w[i - n + 1]
  <2>1. CASE i \in 1..n
    BY <1>4, <2>1
  <2>2. CASE i \notin 1..n
    <3>1. i - n + 1 \in 2..Len(w) /\ i = n + (i - n + 1) - 1
      BY <1>3, <2>2
    <3>2. v[n + (i - n + 1) - 1] = w[i - n + 1]
      BY <1>5, <3>1
    <3> QED
      BY <3>1, <3>2
  <2> QED
    BY <2>1, <2>2
<1> QED
  BY <1>joins, <1>1, <1>2, <1>4, <1>5, <1>8, <1>9, <1>10, <1>11, <1>12 DEF Replaces, v, t

-------------------------------------------------------------------------------
(* The calls and the queues, by type; the stored blocks have their parents. *)
Call ==
  {AddCall(b) : b \in Block} \cup {ForgetCall(p) : p \in AllBlock}
    \cup {TickCall(i, pre) : i \in Nat, pre \in Int}

QueueType ==
  /\ store \subseteq AllBlock /\ Genesis \in store
  /\ \A b \in store : b # Genesis => Parent[b] \in store
  /\ timeQueue \in Seq(Block)
  /\ parentQueue \in [AllBlock -> Seq(Block)]
  /\ \A p \in AllBlock : \A x \in Block : In(parentQueue[p], x) => Parent[x] = p
  /\ work \in Seq(Call)
  /\ copies \in [Block -> Nat]

(* Calls of different kinds are different calls.                            *)
LEMMA CallsDiffer ==
  /\ \A b, c : AddCall(b) = AddCall(c) => b = c
  /\ \A b, c : ForgetCall(b) = ForgetCall(c) => b = c
  /\ \A b, p : AddCall(b) # ForgetCall(p)
  /\ \A b, i, pre : AddCall(b) # TickCall(i, pre)
  /\ \A p, i, pre : ForgetCall(p) # TickCall(i, pre)
  /\ \A b : AddCall(b).op = "add"
  /\ \A p : ForgetCall(p).op = "forget"
  /\ \A i, pre : TickCall(i, pre).op = "tick"
  /\ \A i, pre : TickCall(i, pre).i = i /\ TickCall(i, pre).pre = pre
BY DEF AddCall, ForgetCall, TickCall

(* The calls for the blocks that waited for b: an AddCall for each, and     *)
(* behind them all one ForgetCall.                                          *)
LEMMA WaitingIs ==
  ASSUME QueueType, NEW b \in AllBlock
  PROVE  /\ Waiting(b) \in Seq(Call)
         /\ \A p : In(Waiting(b), ForgetCall(p)) => p = b
         /\ parentQueue[b] # <<>> => In(Waiting(b), ForgetCall(b))
         /\ \A x : In(Waiting(b), AddCall(x)) <=> In(parentQueue[b], x)
         /\ \A i \in 1..Len(Waiting(b)) : \A p : Waiting(b)[i] = ForgetCall(p) =>
              \A x : In(parentQueue[b], x) => \E j \in 1..i - 1 : Waiting(b)[j] = AddCall(x)
         /\ Single(parentQueue[b]) => Single(Waiting(b))
<1> DEFINE q == parentQueue[b]
           calls == [i \in 1..Len(q) |-> AddCall(q[i])]
           last == <<ForgetCall(b)>>
           w == calls \o last
<1>1. q \in Seq(Block) /\ Len(q) \in Nat /\ \A i \in 1..Len(q) : q[i] \in Block
  BY DEF QueueType
<1>2. last \in Seq(Call) /\ Len(last) = 1 /\ last[1] = ForgetCall(b)
  BY DEF Call
<1>3. Waiting(b) = IF q = <<>> THEN <<>> ELSE w
  BY DEF Waiting
<1> HIDE DEF q
<1>4. calls \in Seq(Call) /\ Len(calls) = Len(q) /\ \A i \in 1..Len(q) : calls[i] = AddCall(q[i])
  <2>1. calls \in [1..Len(q) -> Call]
    BY <1>1 DEF Call
  <2>2. calls \in Seq(Call) /\ Len(calls) = Len(q)
    <3> HIDE DEF calls
    <3> QED
      BY <1>1, <2>1, ArrayIsSeq
  <2> QED
    BY <2>2
<1> HIDE DEF calls, last
<1>5. Joins(w, calls, last, Call)
  BY <1>2, <1>4, Concat
<1> HIDE DEF w
<1>6. /\ w \in Seq(Call) /\ Len(w) = Len(q) + 1 /\ w[Len(q) + 1] = ForgetCall(b)
      /\ \A i \in 1..Len(q) : w[i] = AddCall(q[i])
  BY <1>1, <1>2, <1>4, <1>5 DEF Joins
<1>7. CASE q = <<>>
  <2>1. Waiting(b) = <<>> /\ Waiting(b) \in Seq(Call) /\ 1..Len(Waiting(b)) = {} /\ 1..Len(q) = {}
    BY <1>3, <1>7
  <2> QED
    BY <1>7, <2>1 DEF In, Single, q
<1>8. CASE q # <<>>
  <2>1. Waiting(b) = w
    BY <1>3, <1>8
  <2>2. \A i \in 1..Len(w) : i = Len(q) + 1 \/ i \in 1..Len(q)
    BY <1>1, <1>6
  <2>3. Len(q) + 1 \in 1..Len(w) /\ \A i \in 1..Len(q) : i \in 1..Len(w)
    BY <1>1, <1>6
  <2>4. \A i \in 1..Len(w) : \A p : w[i] = ForgetCall(p) => i = Len(q) + 1 /\ p = b
    BY <1>6, <2>2, CallsDiffer
  <2>5. \A p : In(w, ForgetCall(p)) => p = b
    BY <2>4 DEF In
  <2>6. In(w, ForgetCall(b))
    BY <1>6, <2>3 DEF In
  <2>7. \A x : In(w, AddCall(x)) <=> In(q, x)
    <3>1. ASSUME NEW x, In(w, AddCall(x)) PROVE In(q, x)
      <4>1. PICK i \in 1..Len(w) : w[i] = AddCall(x)
        BY <3>1 DEF In
      <4>2. i # Len(q) + 1
        BY <1>6, <4>1, CallsDiffer
      <4>3. i \in 1..Len(q) /\ q[i] = x
        BY <1>6, <2>2, <4>1, <4>2, CallsDiffer
      <4> QED
        BY <4>3 DEF In
    <3>2. ASSUME NEW x, In(q, x) PROVE In(w, AddCall(x))
      BY <1>6, <2>3, <3>2 DEF In
    <3> QED
      BY <3>1, <3>2
  <2>8. ASSUME NEW i \in 1..Len(w), NEW p, w[i] = ForgetCall(p), NEW x, In(q, x)
        PROVE  \E j \in 1..i - 1 : w[j] = AddCall(x)
    <3>1. i - 1 = Len(q)
      BY <1>1, <2>4, <2>8
    <3> QED
      BY <1>6, <2>8, <3>1 DEF In
  <2>9. ASSUME Single(q) PROVE Single(w)
    <3>1. \A i, j \in 1..Len(q) : w[i] = w[j] => i = j
      BY <1>6, <2>9, CallsDiffer DEF Single
    <3>2. \A i \in 1..Len(q) : w[i] # w[Len(q) + 1]
      BY <1>6, CallsDiffer
    <3> QED
      BY <2>2, <3>1, <3>2 DEF Single
  <2> QED
    BY <1>6, <2>1, <2>5, <2>6, <2>7, <2>8, <2>9 DEF q
<1> QED
  BY <1>7, <1>8

(* The invariant: a block that waits for a stored one is forgotten only     *)
(* after it has had its own call.                                           *)
Laid(x) == x \in store \/ In(timeQueue, x)

CalledBefore(i, x) == \E j \in 1..i - 1 : work[j] = AddCall(x)

Waits ==
  /\ \A p \in AllBlock : In(work, ForgetCall(p)) => p \in store
  /\ \A p \in store : parentQueue[p] # <<>> => In(work, ForgetCall(p))
  /\ \A i \in 1..Len(work) : \A p \in AllBlock : work[i] = ForgetCall(p) =>
       \A x \in Valid : In(parentQueue[p], x) => Laid(x) \/ CalledBefore(i, x)
  /\ \A b \in Valid : copies[b] > 0 =>
       Laid(b) \/ In(parentQueue[Parent[b]], b) \/ In(work, AddCall(b))

QueueInv == QueueType /\ (raised = NoBlock => Waits)

(* What an accepted block does to the queues: it is stored, and the blocks  *)
(* that waited for it are called, unless the opening of a state raises.     *)
Stores(b) ==
  /\ Calling(AddCall(b)) /\ Ready(b)
  /\ store' = store \cup {b}
  /\ UNCHANGED <<timeQueue, parentQueue, copies>>
  /\ \/ work' = Waiting(b) \o Tail(work) /\ raised' = raised
     \/ work' = <<>> /\ raised' = b

LEMMA StoringStores ==
  ASSUME NEW b \in Block, KeepHead(b) \/ MoveHead(b) \/ SwitchHead(b) \/ RaiseOnSwitch(b)
                          \/ SkipBlock(b)
  PROVE  Stores(b)
BY DEF KeepHead, MoveHead, SwitchHead, RaiseOnSwitch, SkipBlock, SameCheckpoint,
       NewCheckpoint, ShouldAddBlock, Record, Continue, Stores, queueVars

(* Reject, raise: a call ends and nothing else changes in the queues.       *)
Drops(b) ==
  /\ Calling(AddCall(b))
  /\ UNCHANGED <<store, timeQueue, parentQueue, copies>>
  /\ \/ work' = Tail(work) /\ raised' = raised /\ b \notin Valid
     \/ work' = <<>> /\ raised' = b

LEMMA DroppingDrops ==
  ASSUME NEW b \in Block, RaiseNoState(b) \/ RejectBlock(b)
  PROVE  Drops(b)
BY DEF RaiseNoState, RejectBlock, Drops, queueVars, blockVars

(* The innermost call ends.                                                 *)
LEMMA TailAsPop ==
  ASSUME NEW S, NEW w \in Seq(S), w # <<>>
  PROVE  Tail(w) = <<>> \o Tail(w) /\ <<>> \in Seq(S)
OBVIOUS

(* A ForgetCall further out keeps its meaning, if the blocks that were laid  *)
(* aside or called before it still are.                                     *)
LEMMA OuterForgets ==
  ASSUME QueueType, Waits, work # <<>>, NEW pre \in Seq(Call),
         Replaces(work', work, pre, Call),
         \A x \in Valid : Laid(x) \/ (Head(work) = AddCall(x) /\ Parent[x] \in store)
                            => Laid(x)' \/ In(pre, AddCall(x)),
         \A p \in store : parentQueue'[p] = parentQueue[p] \/ parentQueue'[p] = <<>>,
         NEW i \in 1..Len(work'), i \notin 1..Len(pre),
         NEW p \in AllBlock, work'[i] = ForgetCall(p),
         NEW x \in Valid, In(parentQueue'[p], x)
  PROVE  Laid(x)' \/ CalledBefore(i, x)'
<1> DEFINE n == Len(pre)
           k == i - n + 1
<1>1. n \in Nat /\ k \in 2..Len(work) /\ work[k] = ForgetCall(p) /\ k \in 1..Len(work)
      /\ i = n + k - 1 /\ Len(work) \in Nat
  <2>1. n \in Nat /\ k \in 2..Len(work) /\ work'[i] = work[k] /\ Len(work) \in Nat
    BY DEF Replaces, QueueType
  <2> QED
    BY <2>1
<1> HIDE DEF n, k
<1>2. p \in store
  BY <1>1 DEF Waits, In
<1>3. In(parentQueue[p], x)
  <2>1. parentQueue'[p] # <<>>
    BY DEF In
  <2> QED
    BY <1>2, <2>1
<1>4. Parent[x] = p
  BY <1>3, Constants DEF QueueType
<1>5. In(pre, AddCall(x)) => CalledBefore(i, x)'
  <2>1. ASSUME NEW j \in 1..Len(pre), pre[j] = AddCall(x) PROVE j \in 1..i - 1 /\ work'[j] = AddCall(x)
    BY <1>1, <2>1 DEF Replaces, n
  <2> QED
    BY <2>1 DEF In, CalledBefore
<1>6. Laid(x) \/ CalledBefore(k, x)
  BY <1>1, <1>3 DEF Waits
<1>7. CASE Laid(x)
  BY <1>5, <1>7
<1>8. ASSUME NEW j \in 1..k - 1, work[j] = AddCall(x) PROVE Laid(x)' \/ CalledBefore(i, x)'
  <2>1. CASE j = 1
    <3>1. Head(work) = AddCall(x)
      BY <1>8, <2>1 DEF Replaces
    <3> QED
      BY <1>2, <1>4, <1>5, <3>1
  <2>2. CASE j # 1
    <3>1. j \in 2..Len(work) /\ n + j - 1 \in 1..i - 1
      BY <1>1, <1>8, <2>2
    <3>2. work'[n + j - 1] = work[j]
      BY <3>1 DEF Replaces, n
    <3> QED
      BY <1>8, <3>1, <3>2 DEF CalledBefore
  <2> QED
    BY <2>1, <2>2
<1> QED
  BY <1>6, <1>7, <1>8 DEF CalledBefore

LEMMA InitQueueInv == Init => QueueInv
<1> SUFFICES ASSUME Init PROVE QueueInv
  OBVIOUS
<1>1. \A x : ~In(<<>>, x)
  BY DEF In
<1>2. QueueType
  BY <1>1, Constants DEF Init, QueueType, AllBlock
<1>3. Waits
  <2>1. \A b \in Valid : copies[b] = 0
    BY Constants DEF Init
  <2>2. work = <<>> /\ 1..Len(work) = {} /\ \A p \in AllBlock : parentQueue[p] = <<>>
    BY DEF Init
  <2>3. store \subseteq AllBlock
    BY <1>2 DEF QueueType
  <2>4. \A b \in Valid : ~(copies[b] > 0)
    BY <2>1
  <2> QED
    BY <1>1, <2>2, <2>3, <2>4 DEF Waits
<1> QED
  BY <1>2, <1>3 DEF QueueInv

(* Between calls nothing waits for a stored block.                          *)
LEMMA IdleWaits ==
  ASSUME QueueInv, Idle
  PROVE  /\ Waits
         /\ \A p \in store : parentQueue[p] = <<>>
         /\ \A b \in Valid : copies[b] > 0 => Laid(b) \/ In(parentQueue[Parent[b]], b)
<1>1. \A x : ~In(work, x)
  BY DEF Idle, In
<1> QED
  BY <1>1 DEF Idle, QueueInv, Waits

LEMMA ReceiveQueue ==
  ASSUME QueueInv, NEW b \in Block, Receive(b)
  PROVE  QueueInv'
<1>1. /\ Idle /\ work' = <<AddCall(b)>> /\ copies' = [copies EXCEPT ![b] = @ + 1]
      /\ UNCHANGED <<store, timeQueue, parentQueue, raised>>
  BY DEF Receive, blockVars, queueVars
<1>2. QueueType'
  BY <1>1 DEF QueueInv, QueueType, Call
<1>3. \A p : ~In(work', ForgetCall(p))
  BY <1>1, CallsDiffer DEF In
<1>4. In(work', AddCall(b))
  BY <1>1 DEF In
<1>5. \A c \in Block : c # b => copies'[c] = copies[c]
  BY <1>1 DEF QueueInv, QueueType
<1>6. Waits'
  <2>1. \A i \in 1..Len(work') : \A p \in AllBlock : work'[i] # ForgetCall(p)
    BY <1>3 DEF In
  <2>2. \A p \in store' : parentQueue'[p] = <<>>
    BY <1>1, IdleWaits
  <2>3. \A c \in Valid : copies'[c] > 0 =>
          Laid(c)' \/ In(parentQueue'[Parent[c]], c) \/ In(work', AddCall(c))
    BY <1>1, <1>4, <1>5, IdleWaits, Constants DEF Laid
  <2> QED
    BY <1>3, <2>1, <2>2, <2>3 DEF Waits
<1> QED
  BY <1>2, <1>6 DEF QueueInv

LEMMA TickQueue ==
  ASSUME QueueInv, NEW t \in 0..MaxTime, Tick(t)
  PROVE  QueueInv'
<1>1. /\ Idle /\ work' = <<TickCall(0, -1)>>
      /\ UNCHANGED <<store, timeQueue, parentQueue, raised, copies>>
  BY DEF Tick, blockVars
<1>2. QueueType'
  <2>1. TickCall(0, -1) \in Call
    <3>1. 0 \in Nat /\ -1 \in Int
      OBVIOUS
    <3> QED
      BY <3>1 DEF Call
  <2>2. <<TickCall(0, -1)>> \in Seq(Call)
    BY <2>1
  <2> QED
    BY <1>1, <2>2 DEF QueueInv, QueueType
<1>3. \A p : ~In(work', ForgetCall(p))
  BY <1>1, CallsDiffer DEF In
<1>4. Waits'
  <2>1. \A i \in 1..Len(work') : \A p \in AllBlock : work'[i] # ForgetCall(p)
    BY <1>3 DEF In
  <2>2. \A p \in store' : parentQueue'[p] = <<>>
    BY <1>1, IdleWaits
  <2>3. \A c \in Valid : copies'[c] > 0 => Laid(c)' \/ In(parentQueue'[Parent[c]], c)
    BY <1>1, IdleWaits DEF Laid
  <2> QED
    BY <1>3, <2>1, <2>2, <2>3 DEF Waits
<1> QED
  BY <1>2, <1>4 DEF QueueInv

(* The conjuncts of Waits after a step that replaces the innermost call.    *)
LEMMA WaitsAfter ==
  ASSUME QueueType, Waits, work # <<>>, NEW pre \in Seq(Call),
         Replaces(work', work, pre, Call),
         store \subseteq store',
         \A x \in Valid : Laid(x) \/ (Head(work) = AddCall(x) /\ Parent[x] \in store)
                            => Laid(x)' \/ In(pre, AddCall(x)),
         \A p \in store : parentQueue'[p] = parentQueue[p] \/ parentQueue'[p] = <<>>,
         \A p \in store' : parentQueue'[p] # <<>> =>
            In(pre, ForgetCall(p)) \/ (p \in store /\ Head(work) # ForgetCall(p)),
         \A p \in AllBlock : In(pre, ForgetCall(p)) => p \in store',
         \A i \in 1..Len(pre) : \A p \in AllBlock : pre[i] = ForgetCall(p) =>
            \A x \in Valid : In(parentQueue'[p], x) =>
              \E j \in 1..i - 1 : pre[j] = AddCall(x),
         \A x \in Valid : copies'[x] = copies[x],
         \A x \in Valid : In(parentQueue[Parent[x]], x) =>
            Laid(x)' \/ In(parentQueue'[Parent[x]], x),
         \A x \in Valid : Head(work) = AddCall(x) =>
            Laid(x)' \/ In(parentQueue'[Parent[x]], x)
  PROVE  Waits'
<1>1. /\ \A x : In(work', x) => In(pre, x) \/ In(work, x)
      /\ \A x : In(work, x) => x = Head(work) \/ In(work', x)
      /\ \A x : In(pre, x) => In(work', x)
  BY DEF Replaces
<1>2. \A p \in AllBlock : In(work', ForgetCall(p)) => p \in store'
  BY <1>1 DEF Waits
<1>3. \A p \in store' : parentQueue'[p] # <<>> => In(work', ForgetCall(p))
  <2> SUFFICES ASSUME NEW p \in store', parentQueue'[p] # <<>>, ~In(pre, ForgetCall(p))
               PROVE  In(work', ForgetCall(p))
    BY <1>1
  <2>1. p \in store /\ Head(work) # ForgetCall(p)
    OBVIOUS
  <2>2. parentQueue[p] # <<>>
    BY <2>1
  <2>3. In(work, ForgetCall(p))
    BY <2>1, <2>2 DEF Waits
  <2> QED
    BY <1>1, <2>1, <2>3
<1>4. ASSUME NEW i \in 1..Len(work'), NEW p \in AllBlock, work'[i] = ForgetCall(p),
             NEW x \in Valid, In(parentQueue'[p], x)
      PROVE  Laid(x)' \/ CalledBefore(i, x)'
  <2>1. CASE i \in 1..Len(pre)
    <3>1. pre[i] = ForgetCall(p)
      BY <1>4, <2>1 DEF Replaces
    <3>2. PICK j \in 1..i - 1 : pre[j] = AddCall(x)
      BY <1>4, <2>1, <3>1
    <3>3. j \in 1..Len(pre)
      BY <2>1 DEF Replaces
    <3> QED
      BY <3>2, <3>3 DEF Replaces, CalledBefore
  <2>2. CASE i \notin 1..Len(pre)
    BY <1>4, <2>2, OuterForgets
  <2> QED
    BY <2>1, <2>2
<1>5. ASSUME NEW x \in Valid, copies'[x] > 0
      PROVE  Laid(x)' \/ In(parentQueue'[Parent[x]], x) \/ In(work', AddCall(x))
  <2>1. Laid(x) \/ In(parentQueue[Parent[x]], x) \/ In(work, AddCall(x))
    BY <1>5 DEF Waits
  <2> QED
    BY <1>1, <2>1
<1> QED
  BY <1>2, <1>3, <1>4, <1>5 DEF Waits

(* The time loop: a due block leaves the queue for a call of its own.       *)
LEMMA TickLoopQueue ==
  ASSUME QueueInv, TickLoop
  PROVE  QueueInv'
<1> DEFINE f == Head(work)
           i == IF f.pre = Len(timeQueue) THEN f.i + 1 ELSE f.i
           rest == SubSeq(timeQueue, 1, i) \o SubSeq(timeQueue, i + 2, Len(timeQueue))
           next == <<AddCall(timeQueue[i + 1]), TickCall(i, Len(timeQueue))>>
<1>1. /\ work # <<>> /\ f.op = "tick" /\ QueueType
      /\ UNCHANGED <<store, parentQueue, raised, copies>>
      /\ \/ i < Len(timeQueue) /\ timeQueue' = rest /\ work' = next \o Tail(work)
         \/ work' = Tail(work) /\ timeQueue' = timeQueue
  BY DEF TickLoop, QueueInv, blockVars
<1>2. /\ work \in Seq(Call) /\ f \in Call
      /\ timeQueue \in Seq(Block) /\ Len(timeQueue) \in Nat
  <2>1. work \in Seq(Call) /\ work # <<>> /\ timeQueue \in Seq(Block)
    BY <1>1 DEF QueueType
  <2> HIDE DEF i, rest, next
  <2> QED
    BY <2>1
<1>3. PICK i0 \in Nat, pre0 \in Int : f = TickCall(i0, pre0)
  <2> HIDE DEF f, i, rest, next
  <2> QED
    BY <1>1, <1>2, CallsDiffer DEF Call
<1>4. i \in Nat
  BY <1>3, CallsDiffer
<1>5. \A x : f # AddCall(x) /\ f # ForgetCall(x)
  BY <1>3, CallsDiffer
<1> HIDE DEF f, i
<1>6. CASE i < Len(timeQueue) /\ timeQueue' = rest /\ work' = next \o Tail(work)
  <2> DEFINE b == timeQueue[i + 1]
  <2>1. b \in Block
    <3>1. i + 1 \in 1..Len(timeQueue)
      BY <1>2, <1>4, <1>6
    <3> QED
      BY <1>2, <3>1
  <2>2. /\ rest \in Seq(Block)
        /\ \A x : In(timeQueue, x) <=> x = b \/ In(rest, x)
    BY <1>2, <1>4, <1>6, Without
  <2>3. AddCall(b) \in Call /\ TickCall(i, Len(timeQueue)) \in Call
    <3>1. i \in Nat /\ Len(timeQueue) \in Int
      BY <1>2, <1>4
    <3> QED
      BY <2>1, <3>1 DEF Call
  <2> HIDE DEF b
  <2>4. next = <<AddCall(b), TickCall(i, Len(timeQueue))>>
    BY DEF b
  <2> DEFINE last == TickCall(i, Len(timeQueue))
  <2>5. \A p : last # ForgetCall(p)
    BY CallsDiffer
  <2> HIDE DEF rest, next, last
  <2>6. next \in Seq(Call) /\ Len(next) = 2 /\ next[1] = AddCall(b) /\ next[2] = last
    BY <2>3, <2>4 DEF last
  <2>7. Replaces(work', work, next, Call)
    BY <1>1, <1>2, <1>6, <2>6, Pops
  <2>8. In(next, AddCall(b)) /\ \A p : ~In(next, ForgetCall(p))
    <3>1. 1 \in 1..Len(next) /\ \A k \in 1..Len(next) : k = 1 \/ k = 2
      BY <2>6
    <3> QED
      BY <2>5, <2>6, <3>1, CallsDiffer DEF In
  <2>9. QueueType'
    <3>1. work' \in Seq(Call) /\ timeQueue' \in Seq(Block)
      BY <1>6, <2>2, <2>7 DEF Replaces
    <3> QED
      BY <1>1, <3>1 DEF QueueType
  <2>10. \A x \in Valid : Laid(x) => Laid(x)' \/ In(next, AddCall(x))
    BY <1>1, <1>6, <2>2, <2>8 DEF Laid
  <2>11. ASSUME raised' = NoBlock PROVE Waits'
    <3>1. Waits
      BY <1>1, <2>11 DEF QueueInv
    <3>2. \A k \in 1..Len(next) : \A p \in AllBlock : next[k] # ForgetCall(p)
      BY <2>8 DEF In
    <3> QED
      BY <1>1, <1>5, <2>6, <2>7, <2>8, <2>10, <3>1, <3>2, WaitsAfter DEF f
  <2> QED
    BY <2>9, <2>11 DEF QueueInv
<1>7. CASE work' = Tail(work) /\ timeQueue' = timeQueue
  <2> DEFINE none == <<>>
  <2>1. none \in Seq(Call) /\ work' = none \o Tail(work) /\ Len(none) = 0
    BY <1>1, <1>2, <1>7
  <2> HIDE DEF none
  <2>2. Replaces(work', work, none, Call)
    BY <1>1, <1>2, <2>1, Pops
  <2>3. \A x : ~In(none, x)
    BY <2>1 DEF In
  <2>4. QueueType'
    <3>1. work' \in Seq(Call)
      BY <2>2 DEF Replaces
    <3> QED
      BY <1>1, <1>7, <3>1 DEF QueueType
  <2>5. \A x : Laid(x)' <=> Laid(x)
    BY <1>1, <1>7 DEF Laid
  <2>6. ASSUME raised' = NoBlock PROVE Waits'
    <3>1. Waits
      BY <1>1, <2>6 DEF QueueInv
    <3>2. \A k \in 1..Len(none) : FALSE
      BY <2>1
    <3> QED
      BY <1>1, <1>5, <2>1, <2>2, <2>3, <2>5, <3>1, <3>2, WaitsAfter DEF f
  <2> QED
    BY <2>4, <2>6 DEF QueueInv
<1> QED
  BY <1>1, <1>6, <1>7

(* A call ends and gives way to no other.                                   *)
Ended == work # <<>> /\ work' = Tail(work)

LEMMA EndedIs ==
  ASSUME QueueType, Ended
  PROVE  \E none \in Seq(Call) :
           /\ Replaces(work', work, none, Call) /\ 1..Len(none) = {}
           /\ \A x : ~In(none, x)
<1> DEFINE none == <<>>
<1>1. /\ none \in Seq(Call) /\ work' = none \o Tail(work) /\ Len(none) = 0
      /\ work \in Seq(Call) /\ work # <<>>
  BY DEF QueueType, Ended
<1> HIDE DEF none
<1>2. Replaces(work', work, none, Call)
  BY <1>1, Pops
<1>3. 1..Len(none) = {} /\ \A x : ~In(none, x)
  BY <1>1 DEF In
<1> QED
  BY <1>1, <1>2, <1>3

(* The waiting blocks are forgotten when all of them have had their call.   *)
LEMMA ForgetQueue ==
  ASSUME QueueInv, NEW p \in AllBlock, Forget(p)
  PROVE  QueueInv'
<1>1. /\ Calling(ForgetCall(p)) /\ Ended /\ QueueType
      /\ parentQueue' = [parentQueue EXCEPT ![p] = <<>>]
      /\ UNCHANGED <<store, timeQueue, raised, copies>>
  BY DEF Forget, QueueInv, blockVars, Calling, Ended
<1>2. PICK none \in Seq(Call) :
        /\ Replaces(work', work, none, Call) /\ 1..Len(none) = {} /\ \A x : ~In(none, x)
  BY <1>1, EndedIs
<1>3. parentQueue' \in [AllBlock -> Seq(Block)]
      /\ \A q \in AllBlock : parentQueue'[q] = IF q = p THEN <<>> ELSE parentQueue[q]
  BY <1>1 DEF QueueType
<1>4. QueueType'
  <2>1. work' \in Seq(Call)
    BY <1>2 DEF Replaces
  <2>2. \A x : ~In(<<>>, x)
    BY DEF In
  <2> QED
    BY <1>1, <1>3, <2>1, <2>2 DEF QueueType
<1>5. ASSUME raised' = NoBlock PROVE Waits'
  <2>1. Waits
    BY <1>1, <1>5 DEF QueueInv
  <2>2. \A x : Laid(x)' <=> Laid(x)
    BY <1>1 DEF Laid
  <2>3. \A x : Head(work) # AddCall(x)
    BY <1>1, CallsDiffer DEF Calling
  <2>4. \A x \in Valid : In(parentQueue[p], x) => Laid(x)
    <3>1. 1 \in 1..Len(work) /\ work[1] = ForgetCall(p)
      BY <1>1, <1>2 DEF Calling, Replaces
    <3>2. \A x : ~CalledBefore(1, x)
      BY DEF CalledBefore
    <3> QED
      BY <2>1, <3>1, <3>2 DEF Waits
  <2>5. \A x \in Valid : In(parentQueue[Parent[x]], x) =>
          Laid(x)' \/ In(parentQueue'[Parent[x]], x)
    BY <1>3, <2>2, <2>4, Constants
  <2>6. \A q \in store' : parentQueue'[q] # <<>> => q \in store /\ Head(work) # ForgetCall(q)
    BY <1>1, <1>3, CallsDiffer DEF Calling, QueueType
  <2>7. \A q \in store : parentQueue'[q] = parentQueue[q] \/ parentQueue'[q] = <<>>
    BY <1>1, <1>3 DEF QueueType
  <2> QED
    BY <1>1, <1>2, <2>1, <2>2, <2>3, <2>5, <2>6, <2>7, WaitsAfter DEF Calling
<1> QED
  BY <1>4, <1>5 DEF QueueInv

LEMMA LayAsideEarlyQueue ==
  ASSUME QueueInv, NEW b \in Block, LayAsideEarly(b)
  PROVE  QueueInv'
<1>1. PICK i \in 0..Len(timeQueue) :
        timeQueue' = SubSeq(timeQueue, 1, i) \o <<b>>
                       \o SubSeq(timeQueue, i + 1, Len(timeQueue))
  BY DEF LayAsideEarly
<1>2. /\ Calling(AddCall(b)) /\ Ended /\ QueueType
      /\ UNCHANGED <<store, parentQueue, raised, copies>>
  BY DEF LayAsideEarly, QueueInv, blockVars, Calling, Ended
<1>3. timeQueue' \in Seq(Block) /\ \A x : In(timeQueue', x) <=> x = b \/ In(timeQueue, x)
  BY <1>1, <1>2, With DEF QueueType
<1>4. PICK none \in Seq(Call) :
        /\ Replaces(work', work, none, Call) /\ 1..Len(none) = {} /\ \A x : ~In(none, x)
  BY <1>2, EndedIs
<1>5. QueueType'
  <2>1. work' \in Seq(Call)
    BY <1>4 DEF Replaces
  <2> QED
    BY <1>2, <1>3, <2>1 DEF QueueType
<1>6. ASSUME raised' = NoBlock PROVE Waits'
  <2>1. Waits
    BY <1>2, <1>6 DEF QueueInv
  <2>2. \A x : Laid(x) => Laid(x)'
    BY <1>2, <1>3 DEF Laid
  <2>3. \A x : Head(work) = AddCall(x) => Laid(x)'
    BY <1>2, <1>3, CallsDiffer DEF Calling, Laid
  <2>4. \A p : Head(work) # ForgetCall(p)
    BY <1>2, CallsDiffer DEF Calling
  <2> QED
    BY <1>2, <1>4, <2>1, <2>2, <2>3, <2>4, WaitsAfter DEF Calling
<1> QED
  BY <1>5, <1>6 DEF QueueInv

LEMMA LayAsideOrphanQueue ==
  ASSUME QueueInv, NEW b \in Block, LayAsideOrphan(b)
  PROVE  QueueInv'
<1> DEFINE p == Parent[b]
<1>1. /\ Calling(AddCall(b)) /\ Ended /\ QueueType /\ p \notin store
      /\ parentQueue' = [parentQueue EXCEPT ![p] = Append(@, b)]
      /\ UNCHANGED <<store, timeQueue, raised, copies>>
  BY DEF LayAsideOrphan, QueueInv, blockVars, Calling, Ended
<1>2. p \in AllBlock
  BY Constants
<1>3. PICK none \in Seq(Call) :
        /\ Replaces(work', work, none, Call) /\ 1..Len(none) = {} /\ \A x : ~In(none, x)
  BY <1>1, EndedIs
<1>4. /\ Append(parentQueue[p], b) \in Seq(Block)
      /\ \A x : In(Append(parentQueue[p], b), x) <=> x = b \/ In(parentQueue[p], x)
  BY <1>1, <1>2, Appended DEF QueueType
<1>5. /\ parentQueue' \in [AllBlock -> Seq(Block)]
      /\ \A q \in AllBlock : q # p => parentQueue'[q] = parentQueue[q]
      /\ parentQueue'[p] = Append(parentQueue[p], b)
  BY <1>1, <1>2, <1>4 DEF QueueType
<1>6. QueueType'
  <2>1. work' \in Seq(Call)
    BY <1>3 DEF Replaces
  <2>2. \A q \in AllBlock : \A x \in Block : In(parentQueue'[q], x) => Parent[x] = q
    BY <1>1, <1>4, <1>5 DEF QueueType
  <2> QED
    BY <1>1, <1>5, <2>1, <2>2 DEF QueueType
<1>7. ASSUME raised' = NoBlock PROVE Waits'
  <2>1. Waits
    BY <1>1, <1>7 DEF QueueInv
  <2>2. \A x : Laid(x)' <=> Laid(x)
    BY <1>1 DEF Laid
  <2>3. \A x : Head(work) = AddCall(x) => x = b
    BY <1>1, CallsDiffer DEF Calling
  <2>4. \A q : Head(work) # ForgetCall(q)
    BY <1>1, CallsDiffer DEF Calling
  <2>5. \A q \in store : parentQueue'[q] = parentQueue[q]
    BY <1>1, <1>5 DEF QueueType
  <2>6. \A x \in Valid : In(parentQueue[Parent[x]], x) \/ Head(work) = AddCall(x) =>
          In(parentQueue'[Parent[x]], x)
    <3> TAKE x \in Valid
    <3>1. Parent[x] \in AllBlock
      BY Constants
    <3> QED
      BY <1>4, <1>5, <2>3, <3>1
  <2>7. \A x \in Valid : Laid(x) \/ (Head(work) = AddCall(x) /\ Parent[x] \in store) => Laid(x)'
    BY <1>1, <2>2, <2>3
  <2>8. store' = store /\ \A x \in Valid : copies'[x] = copies[x]
    BY <1>1
  <2>9. work # <<>>
    BY <1>1 DEF Calling
  <2> HIDE DEF p
  <2> QED
    BY <1>1, <1>3, <2>1, <2>4, <2>5, <2>6, <2>7, <2>8, <2>9, WaitsAfter
<1> QED
  BY <1>6, <1>7 DEF QueueInv

LEMMA DropsQueue ==
  ASSUME QueueInv, NEW b \in Block, Drops(b)
  PROVE  QueueInv'
<1>1. /\ Calling(AddCall(b)) /\ QueueType /\ b # NoBlock
      /\ UNCHANGED <<store, timeQueue, parentQueue, copies>>
      /\ \/ Ended /\ raised' = raised /\ b \notin Valid
         \/ work' = <<>> /\ raised' = b
  BY Constants DEF Drops, QueueInv, Calling, Ended
<1>2. CASE Ended /\ raised' = raised /\ b \notin Valid
  <2>1. PICK none \in Seq(Call) :
          /\ Replaces(work', work, none, Call) /\ 1..Len(none) = {} /\ \A x : ~In(none, x)
    BY <1>1, <1>2, EndedIs
  <2>2. QueueType'
    <3>1. work' \in Seq(Call)
      BY <2>1 DEF Replaces
    <3> QED
      BY <1>1, <3>1 DEF QueueType
  <2>3. ASSUME raised' = NoBlock PROVE Waits'
    <3>1. Waits
      BY <1>2, <2>3 DEF QueueInv
    <3>2. \A x : Laid(x)' <=> Laid(x)
      BY <1>1 DEF Laid
    <3>3. \A x \in Valid : Head(work) # AddCall(x)
      BY <1>1, <1>2, CallsDiffer DEF Calling
    <3>4. \A q : Head(work) # ForgetCall(q)
      BY <1>1, CallsDiffer DEF Calling
    <3> QED
      BY <1>1, <2>1, <3>1, <3>2, <3>3, <3>4, WaitsAfter DEF Calling
  <2> QED
    BY <2>2, <2>3 DEF QueueInv
<1>3. CASE work' = <<>> /\ raised' = b
  BY <1>1, <1>3 DEF QueueInv, QueueType
<1> QED
  BY <1>1, <1>2, <1>3

LEMMA StoresQueue ==
  ASSUME QueueInv, NEW b \in Block, Stores(b)
  PROVE  QueueInv'
<1>1. /\ Calling(AddCall(b)) /\ QueueType /\ b # NoBlock /\ b \in AllBlock
      /\ Parent[b] \in store /\ store' = store \cup {b}
      /\ UNCHANGED <<timeQueue, parentQueue, copies>>
      /\ \/ work' = Waiting(b) \o Tail(work) /\ raised' = raised
         \/ work' = <<>> /\ raised' = b
  BY Constants DEF Stores, Ready, QueueInv
<1>2. /\ store' \subseteq AllBlock /\ Genesis \in store'
      /\ \A c \in store' : c # Genesis => Parent[c] \in store'
  BY <1>1 DEF QueueType
<1>3. CASE work' = Waiting(b) \o Tail(work) /\ raised' = raised
  <2> DEFINE pre == Waiting(b)
  <2>1. /\ pre \in Seq(Call)
        /\ \A p : In(pre, ForgetCall(p)) => p = b
        /\ parentQueue[b] # <<>> => In(pre, ForgetCall(b))
        /\ \A i \in 1..Len(pre) : \A p : pre[i] = ForgetCall(p) =>
             \A x : In(parentQueue[b], x) => \E j \in 1..i - 1 : pre[j] = AddCall(x)
    BY <1>1, WaitingIs
  <2> HIDE DEF pre
  <2>2. Replaces(work', work, pre, Call)
    BY <1>1, <1>3, <2>1, Pops DEF Calling, QueueType, pre
  <2>3. QueueType'
    <3>1. work' \in Seq(Call)
      BY <2>2 DEF Replaces
    <3> QED
      BY <1>1, <1>2, <3>1 DEF QueueType
  <2>4. ASSUME raised' = NoBlock PROVE Waits'
    <3>1. Waits
      BY <1>3, <2>4 DEF QueueInv
    <3>2. \A x : Laid(x) => Laid(x)'
      BY <1>1 DEF Laid
    <3>3. \A x : Head(work) = AddCall(x) => Laid(x)'
      BY <1>1, CallsDiffer DEF Calling, Laid
    <3>4. \A q : Head(work) # ForgetCall(q)
      BY <1>1, CallsDiffer DEF Calling
    <3>5. ASSUME NEW i \in 1..Len(pre), NEW p \in AllBlock, pre[i] = ForgetCall(p),
                 NEW x \in Valid, In(parentQueue'[p], x)
          PROVE  \E j \in 1..i - 1 : pre[j] = AddCall(x)
      <4>1. p = b
        BY <2>1, <3>5 DEF In
      <4> QED
        BY <1>1, <2>1, <3>5, <4>1
    <3>6. \A p \in store' : parentQueue'[p] # <<>> =>
            In(pre, ForgetCall(p)) \/ (p \in store /\ Head(work) # ForgetCall(p))
      BY <1>1, <2>1, <3>4
    <3>7. /\ store \subseteq store' /\ parentQueue' = parentQueue /\ copies' = copies
          /\ \A p \in AllBlock : In(pre, ForgetCall(p)) => p \in store'
          /\ work # <<>>
      BY <1>1, <2>1 DEF Calling
    <3> QED
      BY <1>1, <2>1, <2>2, <3>1, <3>2, <3>3, <3>5, <3>6, <3>7, WaitsAfter
  <2> QED
    BY <2>3, <2>4 DEF QueueInv
<1>4. CASE work' = <<>> /\ raised' = b
  <2>1. QueueType'
    BY <1>1, <1>2, <1>4 DEF QueueType
  <2> QED
    BY <1>1, <1>4, <2>1 DEF QueueInv
<1> QED
  BY <1>1, <1>3, <1>4

LEMMA NextQueueInv == QueueInv /\ [Next]_vars => QueueInv'
<1> SUFFICES ASSUME QueueInv, [Next]_vars PROVE QueueInv'
  OBVIOUS
<1>1. ASSUME NEW b \in Block, Receive(b) PROVE QueueInv'
  BY <1>1, ReceiveQueue
<1>2. ASSUME NEW t \in 0..MaxTime, Tick(t) PROVE QueueInv'
  BY <1>2, TickQueue
<1>3. CASE TickLoop
  BY <1>3, TickLoopQueue
<1>4. ASSUME NEW p \in AllBlock, Forget(p) PROVE QueueInv'
  BY <1>4, ForgetQueue
<1>5. ASSUME NEW b \in Block, AddBlock(b) PROVE QueueInv'
  <2>1. CASE LayAsideEarly(b)
    BY <2>1, LayAsideEarlyQueue
  <2>2. CASE LayAsideOrphan(b)
    BY <2>2, LayAsideOrphanQueue
  <2>3. CASE RaiseNoState(b) \/ RejectBlock(b)
    BY <2>3, DroppingDrops, DropsQueue
  <2>4. CASE KeepHead(b) \/ MoveHead(b) \/ SwitchHead(b) \/ RaiseOnSwitch(b) \/ SkipBlock(b)
    BY <2>4, StoringStores, StoresQueue
  <2> QED
    BY <1>5, <2>1, <2>2, <2>3, <2>4 DEF AddBlock
<1>6. CASE UNCHANGED vars
  BY <1>6 DEF vars, blockVars, queueVars, QueueInv, QueueType, Waits, Laid, CalledBefore
<1> QED
  BY <1>1, <1>2, <1>3, <1>4, <1>5, <1>6 DEF Next, Step

(* Nothing that was delivered is lost: between calls no block waits for one *)
(* that is stored, and every valid block that was delivered is stored or    *)
(* laid aside, however often and in whatever order blocks come              *)
(* (should_add_block, process_time_queue and the end of add_block).         *)
THEOREM NothingIsLost == Spec => []NothingLost
<1>1. QueueInv => NothingLost
  BY IdleWaits DEF NothingLost, Laid, In
<1> QED
  BY <1>1, InitQueueInv, NextQueueInv, PTL DEF Spec

-------------------------------------------------------------------------------
(* A block that is delivered once at most is in one place at most.          *)
InWork(b) == In(work, AddCall(b))
Orphan(b) == Parent[b] \notin store /\ In(parentQueue[Parent[b]], b)

CalledOnce(w) ==
  \A b \in Block : \A i, j \in 1..Len(w) : w[i] = AddCall(b) /\ w[j] = AddCall(b) => i = j

Once ==
  /\ CalledOnce(work)
  /\ Single(timeQueue)
  /\ \A p \in AllBlock : p \notin store => Single(parentQueue[p])
  /\ \A b \in Block :
       /\ InWork(b) => b \notin store /\ ~In(timeQueue, b) /\ ~Orphan(b)
       /\ In(timeQueue, b) => b \notin store /\ ~Orphan(b)
       /\ copies[b] = 0 => /\ b \notin store /\ ~InWork(b) /\ ~In(timeQueue, b)
                           /\ ~In(parentQueue[Parent[b]], b)

OnceInv == QueueInv /\ Once

LEMMA CalledOnceAfter ==
  ASSUME NEW w \in Seq(Call), w # <<>>, NEW v, NEW pre, Replaces(v, w, pre, Call),
         CalledOnce(w), CalledOnce(pre),
         \A b \in Block : In(pre, AddCall(b)) => ~In(w, AddCall(b))
  PROVE  /\ CalledOnce(v)
         /\ \A b \in Block : Head(w) = AddCall(b) => ~In(v, AddCall(b))
<1> DEFINE n == Len(pre)
<1>1. /\ n \in Nat /\ Len(w) \in Nat /\ 1 \in 1..Len(w) /\ Head(w) = w[1]
      /\ \A i \in 1..Len(v) :
           \/ i \in 1..n /\ v[i] = pre[i]
           \/ i - n + 1 \in 2..Len(w) /\ v[i] = w[i - n + 1]
  BY DEF Replaces
<1> HIDE DEF n
<1>2. ASSUME NEW b \in Block, NEW i \in 1..Len(v), NEW j \in 1..Len(v),
             v[i] = AddCall(b), v[j] = AddCall(b)
      PROVE  i = j
  <2>1. CASE i \in 1..n /\ v[i] = pre[i]
    <3>1. In(pre, AddCall(b))
      BY <1>2, <2>1 DEF In, n
    <3>2. ~In(w, AddCall(b))
      BY <3>1
    <3>3. \A k \in 2..Len(w) : w[k] # AddCall(b)
      <4>1. \A k \in 2..Len(w) : k \in 1..Len(w)
        BY <1>1
      <4> QED
        BY <3>2, <4>1 DEF In
    <3>4. j \in 1..n /\ v[j] = pre[j]
      BY <1>1, <1>2, <3>3
    <3> QED
      BY <1>2, <2>1, <3>4 DEF CalledOnce, n
  <2>2. CASE i - n + 1 \in 2..Len(w) /\ v[i] = w[i - n + 1]
    <3>1. i - n + 1 \in 1..Len(w)
      BY <1>1, <2>2
    <3>2. In(w, AddCall(b))
      BY <1>2, <2>2, <3>1 DEF In
    <3>3. ~In(pre, AddCall(b))
      BY <3>2
    <3>4. ~(j \in 1..n /\ v[j] = pre[j])
      BY <1>2, <3>3 DEF In, n
    <3>5. j - n + 1 \in 2..Len(w) /\ v[j] = w[j - n + 1]
      BY <1>1, <3>4
    <3>6. j - n + 1 \in 1..Len(w)
      BY <1>1, <3>5
    <3>7. i - n + 1 = j - n + 1
      BY <1>2, <2>2, <3>1, <3>5, <3>6 DEF CalledOnce
    <3> QED
      BY <1>1, <3>7
  <2> QED
    BY <1>1, <2>1, <2>2
<1>3. ASSUME NEW b \in Block, Head(w) = AddCall(b), In(v, AddCall(b)) PROVE FALSE
  <2>1. In(w, AddCall(b))
    BY <1>1, <1>3 DEF In
  <2>2. ~In(pre, AddCall(b))
    BY <2>1
  <2>3. PICK i \in 1..Len(v) : v[i] = AddCall(b)
    BY <1>3 DEF In
  <2>4. ~(i \in 1..n /\ v[i] = pre[i])
    BY <2>2, <2>3 DEF In, n
  <2>5. i - n + 1 \in 2..Len(w) /\ w[i - n + 1] = AddCall(b)
    BY <1>1, <2>3, <2>4
  <2>6. i - n + 1 \in 1..Len(w) /\ i - n + 1 # 1
    BY <1>1, <2>5
  <2> QED
    BY <1>1, <1>3, <2>5, <2>6 DEF CalledOnce
<1> QED
  BY <1>2, <1>3 DEF CalledOnce

(* A call ends: the block has left the calls.                               *)
LEMMA EndedOnce ==
  ASSUME OnceInv, Ended
  PROVE  /\ CalledOnce(work')
         /\ \A b \in Block : Head(work) = AddCall(b) => ~In(work', AddCall(b))
         /\ \A b \in Block : In(work', AddCall(b)) => InWork(b)
<1>1. PICK none \in Seq(Call) :
        /\ Replaces(work', work, none, Call) /\ 1..Len(none) = {} /\ \A x : ~In(none, x)
  BY EndedIs DEF OnceInv, QueueInv
<1>2. CalledOnce(none)
  BY <1>1 DEF CalledOnce
<1>3. work \in Seq(Call) /\ work # <<>> /\ CalledOnce(work)
  BY DEF OnceInv, QueueInv, QueueType, Once, Ended
<1>4. /\ CalledOnce(work')
      /\ \A b \in Block : Head(work) = AddCall(b) => ~In(work', AddCall(b))
  BY <1>1, <1>2, <1>3, CalledOnceAfter
<1> QED
  BY <1>1, <1>4 DEF Replaces, InWork

(* A block that is called is not stored yet.                                *)
LEMMA CalledIsNew ==
  ASSUME OnceInv, NEW b \in Block, Calling(AddCall(b))
  PROVE  InWork(b) /\ b \notin store /\ ~In(timeQueue, b) /\ ~Orphan(b)
<1>1. InWork(b)
  <2>1. work \in Seq(Call) /\ work # <<>> /\ Head(work) = AddCall(b)
    BY DEF OnceInv, QueueInv, QueueType, Calling
  <2>2. 1 \in 1..Len(work) /\ work[1] = AddCall(b)
    BY <2>1
  <2> QED
    BY <2>2 DEF InWork, In
<1> QED
  BY <1>1 DEF OnceInv, Once

LEMMA InitOnce == Init => OnceInv
<1> SUFFICES ASSUME Init PROVE OnceInv
  OBVIOUS
<1>1. /\ work = <<>> /\ 1..Len(work) = {} /\ timeQueue = <<>> /\ 1..Len(timeQueue) = {}
      /\ \A p \in AllBlock : parentQueue[p] = <<>>
      /\ store = {Genesis}
  BY DEF Init
<1>2. \A x : ~In(<<>>, x)
  BY DEF In
<1>3. Single(<<>>)
  BY DEF Single
<1>4. CalledOnce(work)
  BY <1>1 DEF CalledOnce
<1> QED
  BY <1>1, <1>2, <1>3, <1>4, InitQueueInv, Constants DEF OnceInv, Once, InWork, Orphan

LEMMA ReceiveOnce ==
  ASSUME OnceInv, QueueInv', MaxCopies <= 1, NEW b \in Block, Receive(b)
  PROVE  OnceInv'
<1>1. /\ work = <<>> /\ copies[b] = 0 /\ copies \in [Block -> Nat]
      /\ work' = <<AddCall(b)>> /\ copies' = [copies EXCEPT ![b] = @ + 1]
      /\ UNCHANGED <<store, timeQueue, parentQueue>>
  <2>1. copies[b] < MaxCopies /\ copies[b] \in Nat
    BY DEF Receive, OnceInv, QueueInv, QueueType
  <2>2. copies[b] = 0
    BY <2>1, Constants
  <2> QED
    BY <2>2 DEF Receive, Idle, blockVars, queueVars, OnceInv, QueueInv, QueueType
<1>2. /\ b \notin store /\ ~In(timeQueue, b) /\ ~In(parentQueue[Parent[b]], b)
  BY <1>1 DEF OnceInv, Once
<1>3. /\ Len(work') = 1 /\ work'[1] = AddCall(b)
  BY <1>1
<1>4. CalledOnce(work')
  BY <1>3 DEF CalledOnce
<1>5. \A c \in Block : InWork(c)' => c = b
  BY <1>3, CallsDiffer DEF InWork, In
<1>6. copies'[b] # 0 /\ \A c \in Block : c # b => copies'[c] = copies[c]
  BY <1>1
<1> QED
  BY <1>1, <1>2, <1>4, <1>5, <1>6 DEF OnceInv, Once, Orphan

LEMMA TickOnce ==
  ASSUME OnceInv, QueueInv', NEW t \in 0..MaxTime, Tick(t)
  PROVE  OnceInv'
<1>1. /\ work' = <<TickCall(0, -1)>>
      /\ UNCHANGED <<store, timeQueue, parentQueue, copies>>
  BY DEF Tick, blockVars
<1>2. \A c \in Block : ~In(work', AddCall(c))
  BY <1>1, CallsDiffer DEF In
<1>3. CalledOnce(work')
  BY <1>2 DEF CalledOnce, In
<1> QED
  BY <1>1, <1>2, <1>3 DEF OnceInv, Once, Orphan, InWork

LEMMA TickLoopOnce ==
  ASSUME OnceInv, QueueInv', TickLoop
  PROVE  OnceInv'
<1> DEFINE f == Head(work)
           i == IF f.pre = Len(timeQueue) THEN f.i + 1 ELSE f.i
           rest == SubSeq(timeQueue, 1, i) \o SubSeq(timeQueue, i + 2, Len(timeQueue))
           next == <<AddCall(timeQueue[i + 1]), TickCall(i, Len(timeQueue))>>
<1>1. /\ work # <<>> /\ f.op = "tick" /\ QueueType /\ Once
      /\ UNCHANGED <<store, parentQueue, copies>>
      /\ \/ i < Len(timeQueue) /\ timeQueue' = rest /\ work' = next \o Tail(work)
         \/ work' = Tail(work) /\ timeQueue' = timeQueue
  BY DEF TickLoop, OnceInv, QueueInv, blockVars
<1>2. /\ work \in Seq(Call) /\ f \in Call
      /\ timeQueue \in Seq(Block) /\ Len(timeQueue) \in Nat
  <2>1. work \in Seq(Call) /\ work # <<>> /\ timeQueue \in Seq(Block)
    BY <1>1 DEF QueueType
  <2> HIDE DEF i, rest, next
  <2> QED
    BY <2>1
<1>3. i \in Nat
  <2>1. PICK i0 \in Nat, pre0 \in Int : f = TickCall(i0, pre0)
    <3> HIDE DEF f, i, rest, next
    <3> QED
      BY <1>1, <1>2, CallsDiffer DEF Call
  <2> QED
    BY <2>1, CallsDiffer
<1> HIDE DEF f, i
<1>4. CASE i < Len(timeQueue) /\ timeQueue' = rest /\ work' = next \o Tail(work)
  <2> DEFINE b == timeQueue[i + 1]
             last == TickCall(i, Len(timeQueue))
  <2>1. b \in Block /\ In(timeQueue, b)
    <3>1. i + 1 \in 1..Len(timeQueue)
      BY <1>2, <1>3, <1>4
    <3> QED
      BY <1>2, <3>1 DEF In
  <2>2. /\ \A x : In(timeQueue, x) <=> x = b \/ In(rest, x)
        /\ Single(rest) /\ ~In(rest, b)
    BY <1>1, <1>2, <1>3, <1>4, Without DEF Once
  <2>3. next = <<AddCall(b), last>>
    OBVIOUS
  <2>4. /\ \A c : last # AddCall(c)
        /\ AddCall(b) \in Call /\ last \in Call
    <3>1. i \in Nat /\ Len(timeQueue) \in Int
      BY <1>2, <1>3
    <3> QED
      BY <2>1, <3>1, CallsDiffer DEF Call
  <2> HIDE DEF rest, next, last, b
  <2>5. next \in Seq(Call) /\ Len(next) = 2 /\ next[1] = AddCall(b) /\ next[2] = last
    BY <2>3, <2>4
  <2>6. \A k \in 1..Len(next) : k = 1 \/ k = 2
    BY <2>5
  <2>7. \A c \in Block : In(next, AddCall(c)) => c = b
    BY <2>4, <2>5, <2>6, CallsDiffer DEF In
  <2>8. CalledOnce(next)
    BY <2>4, <2>5, <2>6 DEF CalledOnce
  <2>9. Replaces(work', work, next, Call)
    BY <1>1, <1>2, <1>4, <2>5, Pops
  <2>10. CalledOnce(work')
    <3>1. \A c \in Block : In(next, AddCall(c)) => ~In(work, AddCall(c))
      BY <1>1, <2>1, <2>7 DEF Once, InWork
    <3>2. CalledOnce(work)
      BY <1>1 DEF Once
    <3> QED
      BY <1>1, <1>2, <2>8, <2>9, <3>1, <3>2, CalledOnceAfter
  <2>11. \A c \in Block : InWork(c)' => c = b \/ InWork(c)
    BY <2>7, <2>9 DEF Replaces, InWork
  <2>12. timeQueue' = rest
    BY <1>4
  <2>13. copies[b] # 0 /\ b \notin store /\ ~Orphan(b)
    BY <1>1, <2>1 DEF Once
  <2> QED
    BY <1>1, <2>2, <2>10, <2>11, <2>12, <2>13 DEF OnceInv, Once, Orphan
<1>5. CASE work' = Tail(work) /\ timeQueue' = timeQueue
  <2>1. Ended
    BY <1>1, <1>5 DEF Ended
  <2>2. CalledOnce(work') /\ \A b \in Block : InWork(b)' => InWork(b)
    BY <2>1, EndedOnce DEF InWork
  <2> QED
    BY <1>1, <1>5, <2>2 DEF OnceInv, Once, Orphan
<1> QED
  BY <1>1, <1>4, <1>5

LEMMA ForgetOnce ==
  ASSUME OnceInv, QueueInv', NEW p \in AllBlock, Forget(p)
  PROVE  OnceInv'
<1>1. /\ Ended /\ Once /\ QueueType
      /\ parentQueue' = [parentQueue EXCEPT ![p] = <<>>]
      /\ UNCHANGED <<store, timeQueue, copies>>
  BY DEF Forget, OnceInv, QueueInv, blockVars, Calling, Ended
<1>2. \A q \in AllBlock : parentQueue'[q] = IF q = p THEN <<>> ELSE parentQueue[q]
  BY <1>1 DEF QueueType
<1>3. \A q \in AllBlock : \A x : In(parentQueue'[q], x) => In(parentQueue[q], x)
  BY <1>2 DEF In
<1>4. \A q \in AllBlock : Single(parentQueue[q]) => Single(parentQueue'[q])
  BY <1>2 DEF Single
<1>5. CalledOnce(work') /\ \A b \in Block : InWork(b)' => InWork(b)
  BY <1>1, EndedOnce DEF InWork
<1>6. \A b \in Block : Orphan(b)' => Orphan(b)
  BY <1>1, <1>3, Constants DEF Orphan
<1> QED
  BY <1>1, <1>3, <1>4, <1>5, <1>6, Constants DEF OnceInv, Once

LEMMA LayAsideEarlyOnce ==
  ASSUME OnceInv, QueueInv', NEW b \in Block, LayAsideEarly(b)
  PROVE  OnceInv'
<1>1. PICK i \in 0..Len(timeQueue) :
        timeQueue' = SubSeq(timeQueue, 1, i) \o <<b>>
                       \o SubSeq(timeQueue, i + 1, Len(timeQueue))
  BY DEF LayAsideEarly
<1>2. /\ Calling(AddCall(b)) /\ Ended /\ Once /\ QueueType
      /\ UNCHANGED <<store, parentQueue, copies>>
  BY DEF LayAsideEarly, OnceInv, QueueInv, blockVars, Calling, Ended
<1>3. InWork(b) /\ b \notin store /\ ~In(timeQueue, b) /\ ~Orphan(b) /\ copies[b] # 0
  <2>1. InWork(b) /\ b \notin store /\ ~In(timeQueue, b) /\ ~Orphan(b)
    BY <1>2, CalledIsNew
  <2> QED
    BY <1>2, <2>1 DEF Once
<1>4. /\ \A x : In(timeQueue', x) <=> x = b \/ In(timeQueue, x)
      /\ Single(timeQueue')
  BY <1>1, <1>2, <1>3, With DEF QueueType, Once
<1>5. CalledOnce(work') /\ ~InWork(b)' /\ \A c \in Block : InWork(c)' => InWork(c)
  BY <1>2, EndedOnce DEF InWork, Calling
<1> QED
  BY <1>2, <1>3, <1>4, <1>5 DEF OnceInv, Once, Orphan

LEMMA LayAsideOrphanOnce ==
  ASSUME OnceInv, QueueInv', NEW b \in Block, LayAsideOrphan(b)
  PROVE  OnceInv'
<1> DEFINE p == Parent[b]
<1>1. /\ Calling(AddCall(b)) /\ Ended /\ Once /\ QueueType /\ p \notin store
      /\ parentQueue' = [parentQueue EXCEPT ![p] = Append(@, b)]
      /\ UNCHANGED <<store, timeQueue, copies>>
  BY DEF LayAsideOrphan, OnceInv, QueueInv, blockVars, Calling, Ended
<1>2. p \in AllBlock
  BY Constants
<1>3. InWork(b) /\ b \notin store /\ ~In(timeQueue, b) /\ ~Orphan(b) /\ copies[b] # 0
  <2>1. InWork(b) /\ b \notin store /\ ~In(timeQueue, b) /\ ~Orphan(b)
    BY <1>1, CalledIsNew
  <2> QED
    BY <1>1, <2>1 DEF Once
<1>4. ~In(parentQueue[p], b)
  BY <1>1, <1>3 DEF Orphan
<1>5. /\ \A x : In(parentQueue'[p], x) <=> x = b \/ In(parentQueue[p], x)
      /\ Single(parentQueue'[p])
      /\ \A q \in AllBlock : q # p => parentQueue'[q] = parentQueue[q]
  <2>1. parentQueue[p] \in Seq(Block) /\ Single(parentQueue[p])
    BY <1>1, <1>2 DEF QueueType, Once
  <2>2. /\ \A x : In(Append(parentQueue[p], b), x) <=> x = b \/ In(parentQueue[p], x)
        /\ Single(Append(parentQueue[p], b))
    BY <1>4, <2>1, Appended
  <2>3. /\ parentQueue'[p] = Append(parentQueue[p], b)
        /\ \A q \in AllBlock : q # p => parentQueue'[q] = parentQueue[q]
    BY <1>1, <1>2 DEF QueueType
  <2> QED
    BY <2>2, <2>3
<1>6. CalledOnce(work') /\ ~InWork(b)' /\ \A c \in Block : InWork(c)' => InWork(c)
  BY <1>1, EndedOnce DEF InWork, Calling
<1>7. \A c \in Block : In(parentQueue'[Parent[c]], c) => c = b \/ In(parentQueue[Parent[c]], c)
  BY <1>5, Constants
<1>8. \A c \in Block : Orphan(c)' => c = b \/ Orphan(c)
  BY <1>1, <1>7 DEF Orphan
<1>9. \A q \in AllBlock : q \notin store' => Single(parentQueue'[q])
  BY <1>1, <1>5 DEF Once
<1> QED
  BY <1>1, <1>3, <1>6, <1>7, <1>8, <1>9 DEF OnceInv, Once

LEMMA DropsOnce ==
  ASSUME OnceInv, QueueInv', NEW b \in Block, Drops(b)
  PROVE  OnceInv'
<1>1. /\ UNCHANGED <<store, timeQueue, parentQueue, copies>> /\ Once
      /\ Ended \/ work' = <<>>
  BY DEF Drops, OnceInv, Calling, Ended
<1>2. CalledOnce(work') /\ \A c \in Block : InWork(c)' => InWork(c)
  <2>1. CASE Ended
    BY <2>1, EndedOnce DEF InWork
  <2>2. CASE work' = <<>>
    <3>1. 1..Len(work') = {}
      BY <2>2
    <3> QED
      BY <3>1 DEF CalledOnce, InWork, In
  <2> QED
    BY <1>1, <2>1, <2>2
<1> QED
  BY <1>1, <1>2 DEF OnceInv, Once, Orphan

LEMMA StoresOnce ==
  ASSUME OnceInv, QueueInv', NEW b \in Block, Stores(b)
  PROVE  OnceInv'
<1>1. /\ Calling(AddCall(b)) /\ Once /\ QueueType /\ b \in AllBlock
      /\ Parent[b] \in store /\ store' = store \cup {b}
      /\ UNCHANGED <<timeQueue, parentQueue, copies>>
      /\ \/ work' = Waiting(b) \o Tail(work)
         \/ work' = <<>>
  BY Constants DEF Stores, Ready, QueueInv, OnceInv
<1>2. InWork(b) /\ b \notin store /\ ~In(timeQueue, b) /\ ~Orphan(b) /\ copies[b] # 0
  <2>1. InWork(b) /\ b \notin store /\ ~In(timeQueue, b) /\ ~Orphan(b)
    BY <1>1, CalledIsNew
  <2> QED
    BY <1>1, <2>1 DEF Once
<1>3. \A x \in Block : In(parentQueue[b], x) =>
        /\ Parent[x] = b /\ Orphan(x) /\ x # b /\ x \notin store /\ copies[x] # 0
        /\ ~InWork(x) /\ ~In(timeQueue, x)
  <2> SUFFICES ASSUME NEW x \in Block, In(parentQueue[b], x)
               PROVE  /\ Parent[x] = b /\ Orphan(x) /\ x # b /\ x \notin store
                      /\ copies[x] # 0 /\ ~InWork(x) /\ ~In(timeQueue, x)
    OBVIOUS
  <2>1. Parent[x] = b
    BY <1>1 DEF QueueType
  <2>2. Orphan(x) /\ x # b
    BY <1>1, <1>2, <2>1 DEF Orphan
  <2>3. x \notin store
    BY <1>1, <1>2, <2>1, Constants DEF QueueType
  <2> QED
    BY <1>1, <2>1, <2>2, <2>3 DEF Once
<1>4. \A x \in Block : Orphan(x)' => Orphan(x)
  BY <1>1 DEF Orphan
<1>5. \A p \in AllBlock : p \notin store' => Single(parentQueue'[p])
  BY <1>1 DEF Once
<1>6. CASE work' = Waiting(b) \o Tail(work)
  <2> DEFINE pre == Waiting(b)
  <2>1. /\ pre \in Seq(Call) /\ Single(pre)
        /\ \A x : In(pre, AddCall(x)) <=> In(parentQueue[b], x)
    BY <1>1, <1>2, WaitingIs DEF Once
  <2> HIDE DEF pre
  <2>2. Replaces(work', work, pre, Call)
    BY <1>1, <1>6, <2>1, Pops DEF Calling, QueueType, pre
  <2>3. /\ CalledOnce(work')
        /\ \A c \in Block : Head(work) = AddCall(c) => ~In(work', AddCall(c))
    <3>1. CalledOnce(pre)
      BY <2>1 DEF CalledOnce, Single
    <3>2. \A c \in Block : In(pre, AddCall(c)) => ~In(work, AddCall(c))
      BY <1>3, <2>1 DEF InWork
    <3>3. work \in Seq(Call) /\ work # <<>> /\ CalledOnce(work)
      BY <1>1 DEF QueueType, Once, Calling
    <3> QED
      BY <2>2, <3>1, <3>2, <3>3, CalledOnceAfter
  <2>4. ~InWork(b)'
    BY <1>1, <2>3 DEF Calling, InWork
  <2>5. \A x \in Block : InWork(x)' => InWork(x) \/ In(parentQueue[b], x)
    BY <2>1, <2>2 DEF Replaces, InWork
  <2>6. \A x \in Block : InWork(x)' => /\ x \notin store' /\ ~In(timeQueue', x) /\ ~Orphan(x)'
                                       /\ copies'[x] # 0
    <3> SUFFICES ASSUME NEW x \in Block, InWork(x)'
                 PROVE  /\ x \notin store' /\ ~In(timeQueue', x) /\ ~Orphan(x)'
                        /\ copies'[x] # 0
      OBVIOUS
    <3>1. x # b
      BY <2>4
    <3>2. CASE InWork(x)
      BY <1>1, <1>4, <3>1, <3>2 DEF Once
    <3>3. CASE In(parentQueue[b], x)
      <4>1. ~Orphan(x)'
        BY <1>1, <1>3, <3>3 DEF Orphan
      <4> QED
        BY <1>1, <1>3, <3>1, <3>3, <4>1
    <3> QED
      BY <2>5, <3>2, <3>3
  <2> QED
    BY <1>1, <1>2, <1>4, <1>5, <2>3, <2>6 DEF OnceInv, Once
<1>7. CASE work' = <<>>
  <2>1. 1..Len(work') = {}
    BY <1>7
  <2>2. CalledOnce(work') /\ \A x \in Block : ~InWork(x)'
    BY <2>1 DEF CalledOnce, InWork, In
  <2> QED
    BY <1>1, <1>2, <1>4, <1>5, <2>2 DEF OnceInv, Once
<1> QED
  BY <1>1, <1>6, <1>7

LEMMA NextOnce ==
  ASSUME OnceInv, MaxCopies <= 1, [Next]_vars
  PROVE  OnceInv'
<1>0. QueueInv'
  BY NextQueueInv DEF OnceInv
<1>1. ASSUME NEW b \in Block, Receive(b) PROVE OnceInv'
  BY <1>0, <1>1, ReceiveOnce
<1>2. ASSUME NEW t \in 0..MaxTime, Tick(t) PROVE OnceInv'
  BY <1>0, <1>2, TickOnce
<1>3. CASE TickLoop
  BY <1>0, <1>3, TickLoopOnce
<1>4. ASSUME NEW p \in AllBlock, Forget(p) PROVE OnceInv'
  BY <1>0, <1>4, ForgetOnce
<1>5. ASSUME NEW b \in Block, AddBlock(b) PROVE OnceInv'
  <2>1. CASE LayAsideEarly(b)
    BY <1>0, <2>1, LayAsideEarlyOnce
  <2>2. CASE LayAsideOrphan(b)
    BY <1>0, <2>2, LayAsideOrphanOnce
  <2>3. CASE RaiseNoState(b) \/ RejectBlock(b)
    BY <1>0, <2>3, DroppingDrops, DropsOnce
  <2>4. CASE KeepHead(b) \/ MoveHead(b) \/ SwitchHead(b) \/ RaiseOnSwitch(b) \/ SkipBlock(b)
    BY <1>0, <2>4, StoringStores, StoresOnce
  <2> QED
    BY <1>5, <2>1, <2>2, <2>3, <2>4 DEF AddBlock
<1>6. CASE UNCHANGED vars
  BY <1>0, <1>6 DEF vars, blockVars, queueVars, OnceInv, Once, InWork, Orphan
<1> QED
  BY <1>1, <1>2, <1>3, <1>4, <1>5, <1>6 DEF Next, Step
===============================================================================
