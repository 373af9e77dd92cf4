-------------------------- MODULE CandidatesProofs --------------------------
(***************************************************************************)
(* For every parent, whatever its gas limit, its load, its age and its     *)
(* fork, the header that a node makes next is one that it accepts.  Then   *)
(* the uncles: the ancestors of a header form a path, the windows of       *)
(* validate_uncles, finalize and get_uncle_candidates fit together along   *)
(* it, and so no block counts an uncle that its path has already.          *)
(***************************************************************************)
EXTENDS Candidates, Induction

\* A quotient of naturals, by its two bounds.
LEMMA Quotient ==
  ASSUME NEW a \in Nat, NEW d \in Nat \ {0}
  PROVE  /\ a \div d \in Nat
         /\ d * (a \div d) <= a
         /\ a < d * (a \div d) + d
BY SMT

LEMMA SmallQuotient ==
  ASSUME NEW a \in Nat, NEW d \in Nat \ {0}, a < d
  PROVE  a \div d = 0
<1>1. a \div d \in Nat /\ d * (a \div d) <= a
  BY Quotient
<1>2. ASSUME a \div d >= 1 PROVE FALSE
  <2>1. d * (a \div d) >= d
    BY <1>1, <1>2, SMT
  <2> QED BY <1>1, <2>1, SMT
<1> QED BY <1>1, <1>2, SMT

\* If a limit holds at least one step d, k steps of it and a remainder, the
\* steps in one and a half times as much are at most 2 k.
LEMMA AtMostTwice ==
  ASSUME NEW limit \in Nat, NEW used \in Nat, NEW d \in Nat \ {0}, NEW k \in Nat, NEW c \in Nat,
         limit < d * k + d, d <= limit,
         2 * used <= 3 * limit, d * c <= used
  PROVE  c <= 2 * k
<1>1. k >= 1
  BY SMT
<1>2. ASSUME c >= 2 * k + 1 PROVE FALSE
  <2>1. d * c >= d * (2 * k + 1)
    BY <1>2, SMT
  <2>2. d * (2 * k + 1) = 2 * (d * k) + d
    BY SMT
  <2>3. d * k >= d
    BY <1>1, SMT
  <2> QED BY <2>1, <2>2, <2>3, SMT
<1> QED BY <1>2, SMT

\* What parents are like: the part of the invariant about one header.
Good(h) ==
  /\ h.number \in Nat /\ h.timestamp \in Nat
  /\ h.gas_limit \in Nat /\ h.gas_limit >= MIN_GAS_LIMIT
  /\ h.gas_used \in 0 .. h.gas_limit

\* A full parent raises the limit by one step at most.
LEMMA ContributionBounded ==
  ASSUME NEW parent, Good(parent)
  PROVE  /\ Decay(parent) \in Nat /\ Decay(parent) <= parent.gas_limit
         /\ NewContribution(parent) \in Nat
         /\ NewContribution(parent) <= 2 * Decay(parent)
<1> DEFINE limit == parent.gas_limit
           scaled == parent.gas_used * BLKLIM_FACTOR_NOM
           used == scaled \div BLKLIM_FACTOR_DEN
<1>1. /\ limit \in Nat /\ parent.gas_used \in Nat /\ parent.gas_used <= limit
      /\ GASLIMIT_EMA_FACTOR \in Nat \ {0} /\ GASLIMIT_EMA_FACTOR <= limit
      /\ BLKLIM_FACTOR_NOM \in Nat /\ BLKLIM_FACTOR_DEN \in Nat \ {0}
      /\ 2 * BLKLIM_FACTOR_NOM <= 3 * BLKLIM_FACTOR_DEN
  BY GasAssumption DEF Good
<1>2. scaled \in Nat
  BY <1>1, SMT
<1>3. used \in Nat /\ BLKLIM_FACTOR_DEN * used <= scaled
  BY <1>1, <1>2, Quotient
<1>4. 2 * used <= 3 * limit
  <2>1. 2 * scaled <= parent.gas_used * (3 * BLKLIM_FACTOR_DEN)
    BY <1>1, SMT
  <2>2. parent.gas_used * (3 * BLKLIM_FACTOR_DEN) <= limit * (3 * BLKLIM_FACTOR_DEN)
    BY <1>1, SMT
  <2>3. BLKLIM_FACTOR_DEN * (2 * used) <= BLKLIM_FACTOR_DEN * (3 * limit)
    BY <1>1, <1>2, <1>3, <2>1, <2>2, SMT
  <2> QED BY <1>1, <1>3, <2>3, SMT
<1>5. /\ limit \div GASLIMIT_EMA_FACTOR \in Nat
      /\ GASLIMIT_EMA_FACTOR * (limit \div GASLIMIT_EMA_FACTOR) <= limit
      /\ limit < GASLIMIT_EMA_FACTOR * (limit \div GASLIMIT_EMA_FACTOR) + GASLIMIT_EMA_FACTOR
  BY <1>1, Quotient
<1>6. /\ used \div GASLIMIT_EMA_FACTOR \in Nat
      /\ GASLIMIT_EMA_FACTOR * (used \div GASLIMIT_EMA_FACTOR) <= used
  BY <1>1, <1>3, Quotient
<1>7. used \div GASLIMIT_EMA_FACTOR <= 2 * (limit \div GASLIMIT_EMA_FACTOR)
  <2> HIDE DEF used, limit
  <2> QED BY <1>1, <1>3, <1>4, <1>5, <1>6, AtMostTwice
<1>8. limit \div GASLIMIT_EMA_FACTOR <= limit
  <2> DEFINE k == limit \div GASLIMIT_EMA_FACTOR
  <2>1. GASLIMIT_EMA_FACTOR * k <= limit /\ k \in Nat
    BY <1>5
  <2>2. k <= GASLIMIT_EMA_FACTOR * k
    <3> HIDE DEF k
    <3> QED BY <1>1, <2>1, SMT
  <2> HIDE DEF k
  <2>3. k <= limit
    BY <1>1, <2>1, <2>2, SMT
  <2> QED BY <2>3 DEF k
<1> QED BY <1>5, <1>6, <1>7, <1>8 DEF Decay, NewContribution

\* The assertion at the end of calc_gaslimit.
LEMMA GasLimitAccepted ==
  ASSUME NEW parent, Good(parent)
  PROVE  calc_gaslimit(parent) \in Nat /\ check_gaslimit(parent, calc_gaslimit(parent))
<1> DEFINE step == Decay(parent)
           more == NewContribution(parent)
<1>1. /\ step \in Nat /\ step <= parent.gas_limit /\ more \in Nat /\ more <= 2 * step
  BY ContributionBounded
<1>2. /\ parent.gas_limit \in Nat /\ parent.gas_limit >= MIN_GAS_LIMIT
      /\ MIN_GAS_LIMIT \in Nat /\ GENESIS_GAS_LIMIT \in Nat
      /\ MIN_GAS_LIMIT <= GENESIS_GAS_LIMIT
  BY GasAssumption DEF Good
<1>3. step = parent.gas_limit \div GASLIMIT_ADJMAX_FACTOR
  BY GasAssumption DEF Decay
<1> HIDE DEF step, more
<1>4. calc_gaslimit(parent) =
        LET gl == Larger(parent.gas_limit - step + more, MIN_GAS_LIMIT)
        IN IF gl < GENESIS_GAS_LIMIT THEN Smaller(GENESIS_GAS_LIMIT, parent.gas_limit + step)
           ELSE gl
  BY DEF calc_gaslimit, step, more
<1>5. /\ calc_gaslimit(parent) \in Nat
      /\ calc_gaslimit(parent) <= parent.gas_limit + step
      /\ parent.gas_limit <= calc_gaslimit(parent) + step
      /\ calc_gaslimit(parent) >= MIN_GAS_LIMIT
  BY <1>1, <1>2, <1>4, SMT DEF Larger, Smaller
<1> QED BY <1>3, <1>5 DEF check_gaslimit

\* Within the second in which the parent was made the difficulty is that of
\* the next second, the timestamp that the block gets.
LEMMA DifficultyOfTimestamp ==
  ASSUME NEW parent, Good(parent), NEW now \in Nat, now >= parent.timestamp
  PROVE  calc_difficulty(parent, now) = calc_difficulty(parent, Larger(now, parent.timestamp + 1))
<1> DEFINE timestamp == Larger(now, parent.timestamp + 1)
<1>1. parent.timestamp \in Nat
  BY DEF Good
<1>2. CASE now > parent.timestamp
  BY <1>1, <1>2 DEF Larger
<1>3. CASE now = parent.timestamp
  <2>1. now - parent.timestamp = 0 /\ timestamp - parent.timestamp = 1
    BY <1>1, <1>3 DEF Larger
  <2>2. \A d \in Nat \ {0, 1} : 0 \div d = 0 /\ 1 \div d = 0
    BY SmallQuotient, SMT
  <2>3. /\ DIFF_ADJUSTMENT_CUTOFF \in Nat \ {0, 1}
        /\ HOMESTEAD_DIFF_ADJUSTMENT_CUTOFF \in Nat \ {0, 1}
        /\ METROPOLIS_DIFF_ADJUSTMENT_CUTOFF \in Nat \ {0, 1}
    BY DifficultyAssumption
  <2>4. Sign(parent, now) = Sign(parent, timestamp)
    BY <2>1, <2>2, <2>3 DEF Sign
  <2> QED BY <2>4 DEF calc_difficulty
<1> QED BY <1>1, <1>2, <1>3

----------------------------------------------------------------------------
\* The inductive invariant: headers have numbers where they should, and those
\* that were accepted are good.
Typed(h) ==
  /\ h.number \in Nat /\ h.timestamp \in Nat
  /\ h.gas_limit \in Nat /\ h.gas_used \in Nat

IInv ==
  /\ \A h \in headers : Typed(h)
  /\ stored \subseteq headers
  /\ \A h \in stored : Good(h)
  /\ head \in stored

LEMMA InitIInv == Init => IInv
<1>1. Typed(Genesis) /\ Good(Genesis)
  BY CandidatesAssumption, SMT DEF Typed, Good
<1>2. Init => headers = {Genesis} /\ stored = {Genesis} /\ head = Genesis
  BY DEF Init
<1> QED BY <1>1, <1>2 DEF IInv

\* A header that is accepted is good, even if its parent were not.
LEMMA AcceptedIsGood ==
  ASSUME NEW parent, NEW h, Typed(h), validate_header(parent, h)
  PROVE  Good(h)
<1>1. h.gas_limit >= MIN_GAS_LIMIT /\ h.gas_used <= h.gas_limit
  BY DEF validate_header, check_gaslimit
<1> QED BY <1>1 DEF Typed, Good

\* A header that somebody makes on a good one is typed.
LEMMA MakeTyped ==
  ASSUME NEW parent \in stored, NEW style \in Styles, NEW uncles,
         IInv, Make(parent, style, uncles)
  PROVE  IInv'
<1> DEFINE limit == IF style.low
                    THEN parent.gas_limit - parent.gas_limit \div GASLIMIT_ADJMAX_FACTOR
                    ELSE calc_gaslimit(parent)
           h == [parent |-> parent, number |-> parent.number + 1,
                 timestamp |-> parent.timestamp + style.delay,
                 difficulty |-> calc_difficulty(parent, parent.timestamp + style.delay) + style.extra,
                 gas_limit |-> limit, gas_used |-> IF style.full THEN limit ELSE 0, uncles |-> uncles]
<1>1. Good(parent) /\ style.delay \in Nat
  BY CandidatesAssumption DEF IInv
<1>2. limit \in Nat
  <2>1. calc_gaslimit(parent) \in Nat
    BY <1>1, GasLimitAccepted
  <2>2. Decay(parent) \in Nat /\ Decay(parent) <= parent.gas_limit /\ parent.gas_limit \in Nat
    BY <1>1, ContributionBounded DEF Good
  <2>3. parent.gas_limit \div GASLIMIT_ADJMAX_FACTOR = Decay(parent)
    BY GasAssumption DEF Decay
  <2>4. parent.gas_limit - Decay(parent) \in Nat
    BY <2>2
  <2> QED BY <2>1, <2>3, <2>4
<1>3. Typed(h)
  <2> HIDE DEF limit
  <2> QED BY <1>1, <1>2 DEF Typed, Good
<1>4. headers' = headers \union {h} /\ stored' = stored /\ head' = head
  BY DEF Make
<1> HIDE DEF h
<1> QED BY <1>3, <1>4 DEF IInv

LEMMA NextIInv == IInv /\ [Next]_vars => IInv'
<1> SUFFICES ASSUME IInv, [Next]_vars PROVE IInv'
  OBVIOUS
<1>1. ASSUME NEW parent \in stored, NEW style \in Styles, NEW uncles \in UncleLists,
             Make(parent, style, uncles)
      PROVE  IInv'
  BY <1>1, MakeTyped
<1>2. ASSUME NEW h \in headers, AddToHead(h) PROVE IInv'
  <2>1. Good(h)
    BY <1>2, AcceptedIsGood DEF IInv, AddToHead
  <2> QED BY <1>2, <2>1 DEF IInv, AddToHead
<1>3. ASSUME NEW h \in headers, RefuseUncles(h) PROVE IInv'
  BY <1>3 DEF IInv, RefuseUncles
<1>4. ASSUME NEW h \in headers, AddElsewhere(h) PROVE IInv'
  <2>1. Good(h)
    BY <1>4, AcceptedIsGood DEF IInv, AddElsewhere
  <2>2. stored' = stored \union {h} /\ headers' = headers /\ head' \in {head, h}
    BY <1>4 DEF AddElsewhere
  <2> QED BY <2>1, <2>2 DEF IInv
<1>5. CASE UNCHANGED vars
  BY <1>5 DEF IInv, vars
<1> QED BY <1>1, <1>2, <1>3, <1>4, <1>5 DEF Next

\* The invariant is all that the header of a candidate needs.
LEMMA IInvSuffices == IInv => CandidateHeaderValid
<1> SUFFICES ASSUME IInv, NEW delay \in Delays, NEW used \in 0 .. calc_gaslimit(head)
             PROVE  validate_header(head, Candidate(delay, used, <<>>))
  BY DEF CandidateHeaderValid
<1> DEFINE now == head.timestamp + delay
           h == Candidate(delay, used, <<>>)
<1>1. Good(head) /\ delay \in Nat
  BY CandidatesAssumption DEF IInv
<1>2. now \in Nat /\ now >= head.timestamp /\ head.timestamp \in Nat
  BY <1>1 DEF Good
<1>3. calc_gaslimit(head) \in Nat /\ check_gaslimit(head, calc_gaslimit(head))
  BY <1>1, GasLimitAccepted
<1>4. /\ h.parent = head /\ h.number = head.number + 1
      /\ h.timestamp = Larger(now, head.timestamp + 1)
      /\ h.difficulty = calc_difficulty(head, now)
      /\ h.gas_limit = calc_gaslimit(head) /\ h.gas_used = used
  BY DEF Candidate, mk_block_from_prevstate
<1>5. h.difficulty = calc_difficulty(head, h.timestamp)
  BY <1>1, <1>2, <1>4, DifficultyOfTimestamp
<1>6. h.timestamp > head.timestamp
  BY <1>2, <1>4 DEF Larger
<1>7. h.gas_used <= h.gas_limit
  BY <1>3, <1>4
<1> HIDE DEF h
<1>8. validate_header(head, h)
  BY <1>3, <1>4, <1>5, <1>6, <1>7 DEF validate_header
<1> QED BY <1>8 DEF h

\* What this node makes next, it accepts: mk_block_from_prevstate and
\* calc_gaslimit agree with validate_header after every sequence of blocks
\* (common.py).
THEOREM CandidateHeadersValid == Spec => []CandidateHeaderValid
<1>1. Init => IInv
  BY InitIInv
<1>2. IInv /\ [Next]_vars => IInv'
  BY NextIInv
<1>3. IInv => CandidateHeaderValid
  BY IInvSuffices
<1> QED BY <1>1, <1>2, <1>3, PTL DEF Spec

----------------------------------------------------------------------------
\* A set of headers that has the ancestors of each of them.
Rooted(S) ==
  /\ Genesis \in S
  /\ \A h \in S :
       /\ h.number \in Nat
       /\ h # Genesis => h.parent \in S /\ h.number = h.parent.number + 1

\* The ancestor of h, or h itself, that has the number n.
At(h, n) == prev_headers(h)[h.number - n + 1]

\* The recursion of prev_headers is a run from h to the genesis block.
LEMMA PathRuns ==
  ASSUME NEW S, Rooted(S), NEW h \in S
  PROVE  /\ prev_headers(h) \in [1 .. h.number + 1 -> S]
         /\ prev_headers(h)[1] = h
         /\ \A i \in 1 .. h.number :
              /\ prev_headers(h)[i + 1] = prev_headers(h)[i].parent
              /\ prev_headers(h)[i + 1].number = h.number - i
<1> DEFINE n == h.number
           F == [k \in 1 .. n |-> [s \in S |-> IF s = Genesis THEN Genesis ELSE s.parent]]
           up[i \in 0 .. h.number] == IF i = 0 THEN h ELSE up[i - 1].parent
<1>1. n \in Nat /\ Genesis.number = 0 /\ \A s \in S : s.number \in Nat
  BY CandidatesAssumption DEF Rooted
<1>2. Loop(F, n, S)
  BY DEF Loop, Rooted
<1>3. PICK g : Run(g, F, n, S, h)
  <2> HIDE DEF F, n
  <2> QED BY <1>1, <1>2, Rounds
<1>4. \A k \in 1 .. n : \A s \in S : F[k][s] = IF s = Genesis THEN Genesis ELSE s.parent
  OBVIOUS
<1> HIDE DEF F
<1>5. ASSUME NEW k \in 0 .. n PROVE g[k] \in S
  BY <1>3, <1>5 DEF Run
<1>6. \A k \in 0 .. n : g[k].number = n - k
  <2> DEFINE T == {k \in 0 .. n : g[k].number = n - k}
  <2>1. 0 \in T
    BY <1>1, <1>3 DEF Run
  <2>2. ASSUME NEW k \in 1 .. n, k - 1 \in T PROVE k \in T
    <3>1. g[k - 1] \in S /\ g[k - 1].number = n - (k - 1)
      BY <1>1, <1>5, <2>2
    <3>2. g[k - 1] # Genesis
      BY <1>1, <3>1
    <3>3. g[k] = g[k - 1].parent
      BY <1>3, <1>4, <3>1, <3>2 DEF Run
    <3>4. g[k].number \in Nat /\ n - (k - 1) = g[k].number + 1
      BY <1>1, <1>5, <3>1, <3>2, <3>3 DEF Rooted
    <3> QED BY <1>1, <3>4
  <2>3. \A k \in 1 .. n : k - 1 \in T => k \in T
    BY <2>2
  <2> HIDE DEF T
  <2>4. \A k \in 0 .. n : k \in T
    BY <1>1, <2>1, <2>3, UpTo
  <2> QED BY <2>4 DEF T
<1>7. \A k \in 1 .. n : g[k] = g[k - 1].parent
  <2> SUFFICES ASSUME NEW k \in 1 .. n PROVE g[k] = g[k - 1].parent
    OBVIOUS
  <2>1. g[k - 1] \in S /\ g[k - 1].number = n - (k - 1)
    BY <1>1, <1>5, <1>6
  <2>2. g[k - 1] # Genesis
    BY <1>1, <2>1
  <2> QED BY <1>3, <1>4, <2>1, <2>2 DEF Run
<1>8. g = [i \in 0 .. h.number |-> IF i = 0 THEN h ELSE g[i - 1].parent]
  BY <1>1, <1>3, <1>7 DEF Run
<1>9. up = [i \in 0 .. h.number |-> IF i = 0 THEN h ELSE up[i - 1].parent]
  BY <1>8, Zenon
<1>10. prev_headers(h) = [i \in 1 .. h.number + 1 |-> up[i - 1]]
  BY DEF prev_headers
<1> HIDE DEF up
<1>11. \A k \in 0 .. n : k \in {j \in 0 .. n : up[j] = g[j]}
  <2> DEFINE T == {j \in 0 .. n : up[j] = g[j]}
  <2>1. 0 \in T
    BY <1>1, <1>3, <1>9 DEF Run
  <2>2. \A k \in 1 .. n : k - 1 \in T => k \in T
    BY <1>1, <1>7, <1>9
  <2> HIDE DEF T
  <2>3. \A k \in 0 .. n : k \in T
    BY <1>1, <2>1, <2>2, UpTo
  <2> QED BY <2>3 DEF T
<1>12. \A i \in 1 .. n + 1 : prev_headers(h)[i] = g[i - 1] /\ i - 1 \in 0 .. n
  BY <1>1, <1>10, <1>11
<1>13. prev_headers(h) \in [1 .. n + 1 -> S]
  BY <1>5, <1>10, <1>12
<1>14. prev_headers(h)[1] = h
  BY <1>1, <1>3, <1>12 DEF Run
<1>15. \A i \in 1 .. n : prev_headers(h)[i + 1] = g[i] /\ prev_headers(h)[i] = g[i - 1]
  BY <1>1, <1>12
<1>16. \A i \in 1 .. n : /\ prev_headers(h)[i + 1] = prev_headers(h)[i].parent
                         /\ prev_headers(h)[i + 1].number = n - i
  BY <1>1, <1>6, <1>7, <1>15
<1> QED BY <1>13, <1>14, <1>16

\* The same by numbers.
LEMMA PathIs ==
  ASSUME NEW S, Rooted(S), NEW h \in S
  PROVE  /\ h.number \in Nat
         /\ \A n \in 0 .. h.number : At(h, n) \in S /\ At(h, n).number = n
         /\ \A n \in 1 .. h.number : At(h, n).parent = At(h, n - 1)
         /\ At(h, h.number) = h
         /\ Range(prev_headers(h)) = {At(h, n) : n \in 0 .. h.number}
<1>1. h.number \in Nat
  BY DEF Rooted
<1> DEFINE p == prev_headers(h)
<1>2. /\ p \in [1 .. h.number + 1 -> S] /\ p[1] = h
      /\ \A i \in 1 .. h.number : p[i + 1] = p[i].parent /\ p[i + 1].number = h.number - i
  BY PathRuns
<1>3. \A n : At(h, n) = p[h.number - n + 1]
  BY DEF At
<1> HIDE DEF p
<1>4. At(h, h.number) = h
  BY <1>1, <1>2, <1>3
<1>5. ASSUME NEW n \in 0 .. h.number PROVE At(h, n) \in S /\ At(h, n).number = n
  <2>1. CASE n = h.number
    BY <1>1, <1>4, <2>1
  <2>2. CASE n # h.number
    <3>1. h.number - n \in 1 .. h.number /\ n \in Nat
      BY <1>1, <2>2
    <3>2. p[(h.number - n) + 1].number = h.number - (h.number - n)
      BY <1>2, <3>1
    <3>3. p[(h.number - n) + 1] \in S
      BY <1>1, <1>2, <3>1
    <3> QED BY <1>1, <1>3, <3>1, <3>2, <3>3
  <2> QED BY <2>1, <2>2
<1>6. ASSUME NEW n \in 1 .. h.number PROVE At(h, n).parent = At(h, n - 1)
  <2> DEFINE i == h.number - n + 1
  <2>1. i \in 1 .. h.number /\ h.number - (n - 1) + 1 = i + 1
    BY <1>1
  <2>2. p[i + 1] = p[i].parent
    BY <1>2, <2>1
  <2>3. At(h, n) = p[i] /\ At(h, n - 1) = p[i + 1]
    BY <1>3, <2>1
  <2> QED BY <2>2, <2>3
<1>7. Range(p) = {At(h, n) : n \in 0 .. h.number}
  <2>1. Range(p) = {p[i] : i \in 1 .. h.number + 1}
    BY <1>2 DEF Range
  <2>2. ASSUME NEW i \in 1 .. h.number + 1
        PROVE  h.number + 1 - i \in 0 .. h.number /\ p[i] = At(h, h.number + 1 - i)
    <3>1. h.number - (h.number + 1 - i) + 1 = i /\ h.number + 1 - i \in 0 .. h.number
      BY <1>1
    <3> QED BY <1>3, <3>1
  <2>3. ASSUME NEW n \in 0 .. h.number
        PROVE  h.number - n + 1 \in 1 .. h.number + 1
    BY <1>1
  <2> QED BY <1>3, <2>1, <2>2, <2>3
<1> QED BY <1>1, <1>4, <1>5, <1>6, <1>7 DEF p

\* The path of a header goes on with that of its parent.
LEMMA PathOfParent ==
  ASSUME NEW S, Rooted(S), NEW h \in S, h # Genesis
  PROVE  /\ h.parent \in S /\ h.number = h.parent.number + 1 /\ h.parent.number \in Nat
         /\ \A n \in 0 .. h.parent.number : At(h, n) = At(h.parent, n)
         /\ Range(prev_headers(h)) = {h} \union Range(prev_headers(h.parent))
<1> DEFINE p == h.parent
<1>1. p \in S /\ h.number = p.number + 1 /\ p.number \in Nat /\ h.number \in Nat
  BY DEF Rooted
<1> DEFINE T == {k \in 0 .. p.number : At(h, p.number - k) = At(p, p.number - k)}
<1>2. At(h, h.number) = h /\ At(p, p.number) = p
  BY <1>1, PathIs
<1>3. /\ \A n \in 1 .. h.number : At(h, n).parent = At(h, n - 1)
      /\ \A n \in 1 .. p.number : At(p, n).parent = At(p, n - 1)
  BY <1>1, PathIs
<1>4. 0 \in T
  <2>1. At(h, h.number - 1) = h.parent
    <3>1. h.number \in 1 .. h.number
      BY <1>1
    <3> QED BY <1>2, <1>3, <3>1
  <2>2. h.number - 1 = p.number /\ p.number - 0 = p.number
    BY <1>1
  <2> QED BY <1>1, <1>2, <2>1, <2>2
<1>5. ASSUME NEW k \in 1 .. p.number, k - 1 \in T PROVE k \in T
  <2> DEFINE m == p.number - (k - 1)
  <2>1. m \in 1 .. p.number /\ m \in 1 .. h.number /\ m - 1 = p.number - k
    BY <1>1
  <2>2. At(h, m) = At(p, m)
    BY <1>5
  <2>3. At(h, m).parent = At(h, m - 1) /\ At(p, m).parent = At(p, m - 1)
    BY <1>3, <2>1
  <2> HIDE DEF m
  <2>4. At(h, m - 1) = At(p, m - 1)
    BY <2>2, <2>3
  <2> QED BY <2>1, <2>4
<1>6. \A k \in 0 .. p.number : k \in T
  <2>1. \A k \in 1 .. p.number : k - 1 \in T => k \in T
    BY <1>5
  <2> HIDE DEF T
  <2> QED BY <1>1, <1>4, <2>1, UpTo
<1>7. ASSUME NEW n \in 0 .. p.number PROVE At(h, n) = At(p, n)
  <2>1. p.number - n \in 0 .. p.number /\ p.number - (p.number - n) = n
    BY <1>1
  <2> QED BY <1>6, <2>1
<1>8. Range(prev_headers(h)) = {h} \union Range(prev_headers(p))
  <2>1. 0 .. h.number = 0 .. p.number \union {h.number}
    BY <1>1
  <2>2. /\ Range(prev_headers(h)) = {At(h, n) : n \in 0 .. h.number}
        /\ Range(prev_headers(p)) = {At(p, n) : n \in 0 .. p.number}
    BY <1>1, PathIs
  <2> QED BY <1>2, <1>7, <2>1, <2>2
<1> QED BY <1>1, <1>7, <1>8

\* The k last ancestors of h, h itself first, are those with the highest numbers.
NewestOf(near, S, h, k) ==
  /\ near \in Seq(S) /\ Len(near) <= k
  /\ \A i \in 1 .. Len(near) :
       /\ h.number - i + 1 \in 0 .. h.number
       /\ near[i] = At(h, h.number - i + 1)
  /\ \A n \in 0 .. h.number :
       n > h.number - k =>
         /\ h.number - n + 1 \in 1 .. Len(near)
         /\ near[h.number - n + 1] = At(h, n)

LEMMA Newest ==
  ASSUME NEW S, Rooted(S), NEW h \in S, NEW k \in Nat
  PROVE  NewestOf(First(prev_headers(h), k), S, h, k)
<1> DEFINE p == prev_headers(h)
           size == Smaller(k, h.number + 1)
<1>1. h.number \in Nat /\ p \in [1 .. h.number + 1 -> S]
  BY PathRuns DEF Rooted
<1> HIDE DEF p
<1>2. p \in Seq(S) /\ Len(p) = h.number + 1
  BY <1>1
<1>3. size \in 0 .. h.number + 1 /\ size <= k /\ (size = k \/ size = h.number + 1)
  BY <1>1 DEF Smaller
<1>4. First(p, k) = SubSeq(p, 1, size)
  BY <1>2 DEF First
<1> HIDE DEF size
<1>5. /\ First(p, k) \in Seq(S) /\ Len(First(p, k)) = size
      /\ \A i \in 1 .. size : First(p, k)[i] = p[i]
  BY <1>1, <1>2, <1>3, <1>4
<1>6. ASSUME NEW i \in 1 .. size
      PROVE  h.number - i + 1 \in 0 .. h.number /\ p[i] = At(h, h.number - i + 1)
  <2>1. h.number - i + 1 \in 0 .. h.number /\ h.number - (h.number - i + 1) + 1 = i
    BY <1>1, <1>3
  <2> QED BY <2>1 DEF At, p
<1>7. ASSUME NEW n \in 0 .. h.number, n > h.number - k
      PROVE  h.number - n + 1 \in 1 .. size /\ p[h.number - n + 1] = At(h, n)
  BY <1>1, <1>3, <1>7 DEF At, p
<1>8. /\ First(p, k) \in Seq(S) /\ Len(First(p, k)) <= k
      /\ \A i \in 1 .. Len(First(p, k)) :
           /\ h.number - i + 1 \in 0 .. h.number
           /\ First(p, k)[i] = At(h, h.number - i + 1)
      /\ \A n \in 0 .. h.number :
           n > h.number - k =>
             /\ h.number - n + 1 \in 1 .. Len(First(p, k))
             /\ First(p, k)[h.number - n + 1] = At(h, n)
  BY <1>3, <1>5, <1>6, <1>7
<1> QED BY <1>8, Zenon DEF p, NewestOf

----------------------------------------------------------------------------
\* The uncles of an ancestor that is recent enough to hold one of the next
\* block's.
UnclesOfRecent(h, n) ==
  IF n \in 1 .. h.number /\ n > h.number - MAX_UNCLE_DEPTH THEN Range(At(h, n).uncles) ELSE {}

\* What mk_poststate_of_blockhash rebuilds.
LEMMA RebuiltIs ==
  ASSUME NEW h, NEW n
  PROVE  UnclesAt(Rebuilt(h), n) = UnclesOfRecent(h, n)
BY UncleAssumption DEF UnclesAt, Rebuilt, UnclesOfRecent, At

\* Recent uncles that agree with h up to its number.
Agreed(recent, h) == \A n \in 0 .. h.number : UnclesAt(recent, n) = UnclesOfRecent(h, n)

\* update_block_env_variables and finalize, entry by entry.
LEMMA InitializedIs ==
  ASSUME NEW recent, NEW b
  PROVE  /\ DOMAIN Initialized(recent, b) = DOMAIN recent \union {b.number}
         /\ \A n : UnclesAt(Initialized(recent, b), n) =
              IF n = b.number THEN Range(b.uncles) ELSE UnclesAt(recent, n)
BY DEF Initialized, UnclesAt

LEMMA FinalizedIs ==
  ASSUME NEW recent, NEW b
  PROVE  /\ DOMAIN Finalized(recent, b) = DOMAIN recent \ {b.number - MAX_UNCLE_DEPTH}
         /\ \A n : UnclesAt(Finalized(recent, b), n) =
              IF n = b.number - MAX_UNCLE_DEPTH THEN {} ELSE UnclesAt(recent, n)
BY DEF Finalized, Restrict, UnclesAt

\* What a block carries on from the state of its parent agrees with it.
LEMMA AgreedCarries ==
  ASSUME NEW S, Rooted(S), NEW h \in S, h # Genesis,
         NEW recent, Agreed(recent, h.parent), DOMAIN recent \subseteq 0 .. h.number
  PROVE  /\ Agreed(Finalized(Initialized(recent, h), h), h)
         /\ DOMAIN Finalized(Initialized(recent, h), h) \subseteq 0 .. h.number
<1> DEFINE p == h.parent
           kept == Initialized(recent, h)
           left == Finalized(kept, h)
<1>1. /\ h.number = p.number + 1 /\ p.number \in Nat /\ h.number \in Nat
      /\ \A n \in 0 .. p.number : At(h, n) = At(p, n)
  BY PathOfParent, SMT
<1>2. At(h, h.number) = h
  BY PathIs
<1>3. MAX_UNCLE_DEPTH \in Nat \ {0}
  BY UncleAssumption
<1>4. DOMAIN left \subseteq 0 .. h.number
  <2>1. DOMAIN left \subseteq DOMAIN recent \union {h.number}
    BY InitializedIs, FinalizedIs
  <2> QED BY <1>1, <2>1
<1>5. ASSUME NEW n \in 0 .. h.number PROVE UnclesAt(left, n) = UnclesOfRecent(h, n)
  <2>1. UnclesAt(left, n) = IF n = h.number - MAX_UNCLE_DEPTH THEN {}
                            ELSE IF n = h.number THEN Range(h.uncles) ELSE UnclesAt(recent, n)
    <3>1. UnclesAt(left, n) = IF n = h.number - MAX_UNCLE_DEPTH THEN {} ELSE UnclesAt(kept, n)
      <4> HIDE DEF kept
      <4> QED BY FinalizedIs
    <3>2. UnclesAt(kept, n) = IF n = h.number THEN Range(h.uncles) ELSE UnclesAt(recent, n)
      BY InitializedIs
    <3> HIDE DEF kept, left
    <3> QED BY <3>1, <3>2
  <2>2. CASE n = h.number
    BY <1>1, <1>2, <1>3, <2>1, <2>2 DEF UnclesOfRecent
  <2>3. CASE n # h.number
    <3>1. n \in 0 .. p.number /\ At(h, n) = At(p, n)
      BY <1>1, <2>3
    <3>2. UnclesAt(recent, n) = UnclesOfRecent(p, n)
      BY <3>1 DEF Agreed
    <3>3. CASE n = h.number - MAX_UNCLE_DEPTH
      BY <1>1, <1>3, <2>1, <3>3 DEF UnclesOfRecent
    <3>4. CASE n # h.number - MAX_UNCLE_DEPTH
      <4>1. UnclesAt(left, n) = UnclesOfRecent(p, n)
        BY <2>1, <2>3, <3>2, <3>4
      <4>2. n > p.number - MAX_UNCLE_DEPTH <=> n > h.number - MAX_UNCLE_DEPTH
        BY <1>1, <1>3, <3>1, <3>4
      <4>3. n \in 1 .. p.number <=> n \in 1 .. h.number
        BY <1>1, <2>3
      <4> QED BY <3>1, <4>1, <4>2, <4>3 DEF UnclesOfRecent
    <3> QED BY <3>3, <3>4
  <2> QED BY <2>2, <2>3
<1> HIDE DEF left
<1>6. Agreed(left, h)
  BY <1>5 DEF Agreed
<1> QED BY <1>4, <1>6 DEF left

\* In such a state validate_uncles looks at every ancestor that it has to.
LEMMA CountedHasThem ==
  ASSUME NEW S, Rooted(S), NEW p \in S, NEW recent, Agreed(recent, p),
         NEW h, h.number = p.number + 1,
         NEW m \in 1 .. p.number, m >= h.number - MAX_UNCLE_DEPTH
  PROVE  Range(At(p, m).uncles) \subseteq Counted(Initialized(recent, h), h)
<1>1. p.number \in Nat /\ h.number \in Nat /\ MAX_UNCLE_DEPTH \in Nat /\ m \in 0 .. p.number
  BY UncleAssumption DEF Rooted
<1>2. m > p.number - MAX_UNCLE_DEPTH /\ m # h.number /\ h.number > m
  BY <1>1
<1>3. UnclesAt(recent, m) = Range(At(p, m).uncles)
  BY <1>1, <1>2 DEF Agreed, UnclesOfRecent
<1>4. UnclesAt(Initialized(recent, h), m) = Range(At(p, m).uncles)
  BY <1>2, <1>3, InitializedIs
<1>5. CASE m \in DOMAIN Initialized(recent, h)
  BY <1>2, <1>4, <1>5 DEF UnclesAt, Counted
<1>6. CASE m \notin DOMAIN Initialized(recent, h)
  BY <1>4, <1>6 DEF UnclesAt
<1> QED BY <1>5, <1>6

\* A sequence from its third element on.
LEMMA ThirdOn ==
  ASSUME NEW T, NEW s \in Seq(T), Len(s) >= 2
  PROVE  /\ SubSeq(s, 3, Len(s)) \in Seq(T)
         /\ Len(SubSeq(s, 3, Len(s))) = Len(s) - 2
         /\ \A i \in 1 .. Len(SubSeq(s, 3, Len(s))) : SubSeq(s, 3, Len(s))[i] = s[i + 2]
<1>1. Len(s) \in Nat
  OBVIOUS
<1>2. \A i \in 3 .. Len(s) : s[i] \in T
  OBVIOUS
<1>3. SubSeq(s, 3, Len(s)) = [i \in 1 .. Len(s) - 2 |-> s[i + 2]]
  OBVIOUS
<1>4. [i \in 1 .. Len(s) - 2 |-> s[i + 2]] \in [1 .. Len(s) - 2 -> T]
  BY <1>1, <1>2
<1> DEFINE d == SubSeq(s, 3, Len(s))
           m == Len(s) - 2
<1>5. d = [i \in 1 .. m |-> s[i + 2]] /\ [i \in 1 .. m |-> s[i + 2]] \in [1 .. m -> T]
  BY <1>3, <1>4, Zenon
<1>6. m \in Nat
  BY <1>1
<1> HIDE DEF d, m
<1>7. d \in Seq(T) /\ Len(d) = m /\ \A i \in 1 .. m : d[i] = s[i + 2]
  BY <1>5, <1>6
<1> QED BY <1>7 DEF d, m

\* The ancestor_chain of validate_uncles, and the ancestors in it that an uncle
\* may have for a parent.
AncestorChain(b) == <<b>> \o First(prev_headers(b.parent), MAX_UNCLE_DEPTH + 1)
Grandparents(b) == Range(SubSeq(AncestorChain(b), 3, Len(AncestorChain(b))))

\* Both for a block on p.
LEMMA ChainIs ==
  ASSUME NEW S, Rooted(S), NEW p \in S, NEW b, b.parent = p
  PROVE  /\ Range(AncestorChain(b)) = {b} \union
              {At(p, n) : n \in {m \in 0 .. p.number : m >= p.number - MAX_UNCLE_DEPTH}}
         /\ Grandparents(b) =
              {At(p, n) : n \in {m \in 0 .. p.number : m >= p.number - MAX_UNCLE_DEPTH
                                                       /\ m < p.number}}
<1> DEFINE near == First(prev_headers(p), MAX_UNCLE_DEPTH + 1)
           chain == <<b>> \o near
           tail == SubSeq(chain, 3, Len(chain))
           MayBe == {m \in 0 .. p.number : m >= p.number - MAX_UNCLE_DEPTH}
<1>1. p.number \in Nat /\ MAX_UNCLE_DEPTH \in Nat /\ MAX_UNCLE_DEPTH + 1 \in Nat
  BY UncleAssumption DEF Rooted
<1>2. /\ near \in Seq(S) /\ Len(near) <= MAX_UNCLE_DEPTH + 1
      /\ \A i \in 1 .. Len(near) : /\ p.number - i + 1 \in 0 .. p.number
                                   /\ near[i] = At(p, p.number - i + 1)
      /\ \A n \in 0 .. p.number :
           n > p.number - (MAX_UNCLE_DEPTH + 1) =>
             p.number - n + 1 \in 1 .. Len(near) /\ near[p.number - n + 1] = At(p, n)
  <2> DEFINE k == MAX_UNCLE_DEPTH + 1
  <2>1. k \in Nat /\ near = First(prev_headers(p), k)
    BY <1>1
  <2> HIDE DEF k, near
  <2>2. NewestOf(near, S, p, k)
    BY <2>1, Newest
  <2> QED BY <2>2, Zenon DEF k, NewestOf
<1> HIDE DEF near
<1>3. Len(near) \in Nat
  BY <1>2
<1>4. /\ chain \in Seq(S \union {b}) /\ Len(chain) = Len(near) + 1
      /\ chain[1] = b /\ \A i \in 1 .. Len(near) : chain[i + 1] = near[i]
  BY <1>2
<1>5. Range(chain) = {chain[i] : i \in 1 .. Len(near) + 1}
  BY <1>4 DEF Range
<1>6. /\ Len(tail) = IF Len(near) >= 1 THEN Len(near) - 1 ELSE 0
      /\ tail \in Seq(S \union {b})
      /\ \A i \in 1 .. Len(tail) : tail[i] = near[i + 1] /\ i + 1 \in 2 .. Len(near)
  <2> HIDE DEF chain
  <2>0. Len(chain) \in Nat
    BY <1>3, <1>4
  <2>1. CASE Len(near) >= 1
    <3>1. tail \in Seq(S \union {b}) /\ Len(tail) = Len(near) - 1
          /\ \A i \in 1 .. Len(tail) : tail[i] = chain[i + 2]
      <4>1. Len(chain) >= 2 /\ Len(chain) - 2 = Len(near) - 1
        BY <1>3, <1>4, <2>1
      <4> QED BY <1>4, <4>1, ThirdOn
    <3>2. \A i \in 1 .. Len(tail) : i + 1 \in 1 .. Len(near) /\ (i + 1) + 1 = i + 2
      BY <1>3, <3>1
    <3>3. \A i \in 1 .. Len(tail) : chain[i + 2] = near[i + 1]
      BY <1>4, <3>2
    <3> QED BY <1>3, <2>1, <3>1, <3>2, <3>3
  <2>2. CASE ~(Len(near) >= 1)
    <3>1. Len(near) = 0 /\ Len(chain) = 1
      BY <1>3, <1>4, <2>2
    <3> QED BY <1>4, <3>1
  <2> QED BY <2>1, <2>2
<1>7. Range(tail) = {tail[i] : i \in 1 .. Len(tail)}
  <2> HIDE DEF tail
  <2> QED BY <1>6 DEF Range
<1>8. Range(chain) = {b} \union {At(p, n) : n \in MayBe}
  <2> HIDE DEF chain
  <2>1. ASSUME NEW i \in 1 .. Len(near) + 1
        PROVE  chain[i] \in {b} \union {At(p, n) : n \in MayBe}
    <3>1. CASE i = 1
      BY <1>4, <3>1
    <3>2. CASE i # 1
      <4>1. i - 1 \in 1 .. Len(near) /\ (i - 1) + 1 = i
        BY <1>3, <3>2
      <4>2. chain[i] = near[i - 1]
        BY <1>4, <4>1
      <4>3. p.number - (i - 1) + 1 \in MayBe
        BY <1>1, <1>2, <1>3, <4>1
      <4> QED BY <1>2, <4>1, <4>2, <4>3
    <3> QED BY <3>1, <3>2
  <2>2. ASSUME NEW n \in MayBe
        PROVE  At(p, n) \in {chain[i] : i \in 1 .. Len(near) + 1}
    <3> DEFINE i == p.number - n + 1
    <3>1. i \in 1 .. Len(near) /\ near[i] = At(p, n)
      BY <1>1, <1>2
    <3> HIDE DEF i
    <3>2. i + 1 \in 1 .. Len(near) + 1 /\ chain[i + 1] = At(p, n)
      BY <1>3, <1>4, <3>1
    <3> QED BY <3>2
  <2>3. b \in {chain[i] : i \in 1 .. Len(near) + 1}
    BY <1>3, <1>4
  <2> QED BY <1>5, <2>1, <2>2, <2>3
<1>9. Range(tail) = {At(p, n) : n \in {m \in MayBe : m < p.number}}
  <2> HIDE DEF tail, chain
  <2>1. ASSUME NEW i \in 1 .. Len(tail)
        PROVE  tail[i] \in {At(p, n) : n \in {m \in MayBe : m < p.number}}
    <3>1. i + 1 \in 1 .. Len(near) /\ tail[i] = near[i + 1]
      BY <1>3, <1>6
    <3>2. p.number - (i + 1) + 1 \in {m \in MayBe : m < p.number}
      <4>1. /\ p.number - (i + 1) + 1 \in 0 .. p.number
            /\ i \in Nat /\ i >= 1 /\ i + 1 <= MAX_UNCLE_DEPTH + 1
        BY <1>1, <1>2, <1>3, <3>1
      <4> QED BY <1>1, <4>1
    <3> QED BY <1>2, <3>1, <3>2
  <2>2. ASSUME NEW n \in {m \in MayBe : m < p.number}
        PROVE  At(p, n) \in {tail[i] : i \in 1 .. Len(tail)}
    <3> DEFINE i == p.number - n
    <3>0. n \in 0 .. p.number /\ n > p.number - (MAX_UNCLE_DEPTH + 1) /\ n < p.number
      BY <1>1
    <3>1. i + 1 \in 1 .. Len(near) /\ near[i + 1] = At(p, n) /\ i \in Nat /\ i >= 1
      <4>1. /\ p.number - n + 1 \in 1 .. Len(near)
            /\ near[p.number - n + 1] = At(p, n)
        BY <1>2, <3>0
      <4> QED BY <1>1, <3>0, <4>1
    <3> HIDE DEF i
    <3>2. i \in 1 .. Len(tail)
      <4>1. Len(near) >= 1 /\ i <= Len(near) - 1
        BY <1>3, <3>1
      <4>2. Len(tail) = Len(near) - 1
        BY <1>6, <4>1
      <4> QED BY <1>3, <3>1, <4>1, <4>2
    <3>3. tail[i] = near[i + 1]
      BY <1>6, <3>2
    <3> QED BY <3>1, <3>2, <3>3
  <2> QED BY <1>7, <2>1, <2>2
<1>10. {m \in MayBe : m < p.number} =
         {m \in 0 .. p.number : m >= p.number - MAX_UNCLE_DEPTH /\ m < p.number}
  OBVIOUS
<1>11. AncestorChain(b) = chain /\ Grandparents(b) = Range(tail)
  BY DEF AncestorChain, Grandparents, near
<1> HIDE DEF chain, tail
<1> QED BY <1>8, <1>9, <1>10, <1>11

\* What validate_uncles asks of an uncle, by numbers: an uncle is at most
\* MAX_UNCLE_DEPTH below its block and no ancestor, and none of the uncles
\* that the recent blocks have.
LEMMA UncleRules ==
  ASSUME NEW S, Rooted(S), NEW p \in S, NEW b, b.parent = p, b.number = p.number + 1,
         NEW recent, Agreed(recent, p), validate_uncles(Initialized(recent, b), b),
         NEW u \in Range(b.uncles)
  PROVE  /\ u.number \in Nat /\ u.number < b.number /\ u.number >= b.number - MAX_UNCLE_DEPTH
         /\ u # b
         /\ \A n \in 0 .. p.number : u = At(p, n) => n < b.number - MAX_UNCLE_DEPTH
         /\ \A n \in 1 .. p.number :
              n >= b.number - MAX_UNCLE_DEPTH => u \notin Range(At(p, n).uncles)
<1>1. p.number \in Nat /\ MAX_UNCLE_DEPTH \in Nat
  BY UncleAssumption DEF Rooted
<1>2. /\ Range(AncestorChain(b)) = {b} \union
           {At(p, n) : n \in {m \in 0 .. p.number : m >= p.number - MAX_UNCLE_DEPTH}}
      /\ Grandparents(b) = {At(p, n) : n \in {m \in 0 .. p.number : m >= p.number - MAX_UNCLE_DEPTH
                                                               /\ m < p.number}}
  BY ChainIs
<1>3. /\ u.parent \in Grandparents(b) /\ u.number = u.parent.number + 1
      /\ u \notin Range(AncestorChain(b)) \union Counted(Initialized(recent, b), b)
  BY DEF validate_uncles, AncestorChain, Grandparents
<1>4. PICK m \in 0 .. p.number : /\ m >= p.number - MAX_UNCLE_DEPTH /\ m < p.number
                                 /\ u.parent = At(p, m)
  BY <1>2, <1>3
<1>5. u.parent.number = m
  BY <1>4, PathIs
<1>6. u.number \in Nat /\ u.number < b.number /\ u.number >= b.number - MAX_UNCLE_DEPTH
  BY <1>1, <1>3, <1>4, <1>5
<1>7. ASSUME NEW n \in 0 .. p.number, u = At(p, n) PROVE n < b.number - MAX_UNCLE_DEPTH
  <2>1. ~(n >= p.number - MAX_UNCLE_DEPTH)
    BY <1>2, <1>3, <1>7
  <2> QED BY <1>1, <2>1
<1>8. ASSUME NEW n \in 1 .. p.number, n >= b.number - MAX_UNCLE_DEPTH
      PROVE  u \notin Range(At(p, n).uncles)
  BY <1>3, <1>8, CountedHasThem
<1>9. u # b
  BY <1>2, <1>3
<1> QED BY <1>6, <1>7, <1>8, <1>9

----------------------------------------------------------------------------
\* Every uncle is at most MAX_UNCLE_DEPTH below its block.
Windowed(S) ==
  \A b \in S : \A u \in Range(b.uncles) :
    u.number \in Nat /\ u.number < b.number /\ u.number >= b.number - MAX_UNCLE_DEPTH

\* What UnclesSound says of the path to one header.
SoundOn(h) ==
  LET path == Range(prev_headers(h)) IN
  \A b \in path : \A u \in Range(b.uncles) :
    /\ u \notin path
    /\ \A c \in path : u \in Range(c.uncles) => c = b
    /\ (BLOCK_REWARD * (UNCLE_DEPTH_PENALTY_FACTOR + u.number - b.number))
         \div UNCLE_DEPTH_PENALTY_FACTOR > 0

\* The reward of an uncle within the window.
LEMMA RewardPositive ==
  ASSUME NEW n \in Nat, NEW m \in Nat, m < n, m >= n - MAX_UNCLE_DEPTH
  PROVE  (BLOCK_REWARD * (UNCLE_DEPTH_PENALTY_FACTOR + m - n))
           \div UNCLE_DEPTH_PENALTY_FACTOR > 0
<1> DEFINE left == UNCLE_DEPTH_PENALTY_FACTOR + m - n
           product == BLOCK_REWARD * left
<1>1. /\ BLOCK_REWARD \in Nat /\ UNCLE_DEPTH_PENALTY_FACTOR \in Nat \ {0}
      /\ BLOCK_REWARD >= UNCLE_DEPTH_PENALTY_FACTOR
      /\ left \in Nat /\ left >= 1
  BY UncleAssumption
<1> HIDE DEF left
<1>2. product \in Nat /\ product >= BLOCK_REWARD
  BY <1>1, SMT
<1> HIDE DEF product
<1>3. /\ product \div UNCLE_DEPTH_PENALTY_FACTOR \in Nat
      /\ product < UNCLE_DEPTH_PENALTY_FACTOR * (product \div UNCLE_DEPTH_PENALTY_FACTOR)
                     + UNCLE_DEPTH_PENALTY_FACTOR
  BY <1>1, <1>2, Quotient
<1>4. product \div UNCLE_DEPTH_PENALTY_FACTOR # 0
  BY <1>1, <1>2, <1>3, SMT
<1>5. product \div UNCLE_DEPTH_PENALTY_FACTOR > 0
  BY <1>3, <1>4, SMT
<1> QED BY <1>5 DEF product, left

\* A block that validate_uncles accepts makes the path to it sound, if the
\* path to its parent is.
LEMMA AcceptedIsSound ==
  ASSUME NEW S, Rooted(S), Windowed(S), NEW p \in S, SoundOn(p),
         NEW h, h \notin S, h.parent = p, h.number = p.number + 1,
         NEW recent, Agreed(recent, p), validate_uncles(Initialized(recent, h), h)
  PROVE  Rooted(S \union {h}) /\ Windowed(S \union {h}) /\ SoundOn(h)
<1> DEFINE new == S \union {h}
           path == Range(prev_headers(h))
           old == Range(prev_headers(p))
<1>1. h # Genesis /\ p.number \in Nat /\ h.number \in Nat /\ MAX_UNCLE_DEPTH \in Nat
  BY UncleAssumption DEF Rooted
<1>2. Rooted(new)
  BY <1>1 DEF Rooted
<1>3. \A u \in Range(h.uncles) :
        /\ u.number \in Nat /\ u.number < h.number /\ u.number >= h.number - MAX_UNCLE_DEPTH
        /\ u # h
        /\ \A n \in 0 .. p.number : u = At(p, n) => n < h.number - MAX_UNCLE_DEPTH
        /\ \A n \in 1 .. p.number :
             n >= h.number - MAX_UNCLE_DEPTH => u \notin Range(At(p, n).uncles)
  BY UncleRules
<1>4. Windowed(new)
  BY <1>3 DEF Windowed
<1>5. path = {h} \union old
  BY <1>1, <1>2, PathOfParent
<1>6. /\ old = {At(p, n) : n \in 0 .. p.number}
      /\ \A n \in 0 .. p.number : At(p, n) \in S /\ At(p, n).number = n
  BY PathIs
<1>7. \A b \in old : /\ b \in S /\ b.number \in 0 .. p.number /\ b = At(p, b.number)
                     /\ b.number = 0 => b = Genesis
  <2> SUFFICES ASSUME NEW n \in 0 .. p.number
               PROVE  LET b == At(p, n) IN
                      /\ b \in S /\ b.number \in 0 .. p.number /\ b = At(p, b.number)
                      /\ b.number = 0 => b = Genesis
    BY <1>6
  <2>1. At(p, n) \in S /\ At(p, n).number = n
    BY <1>6
  <2>2. n = 0 => At(p, n) = Genesis
    <3>1. At(p, n) # Genesis => At(p, n).number = At(p, n).parent.number + 1
                                /\ At(p, n).parent.number \in Nat
      BY <2>1 DEF Rooted
    <3> QED BY <2>1, <3>1
  <2> QED BY <2>1, <2>2
<1>8. Range(Genesis.uncles) = {}
  <2>1. Genesis.uncles = <<>>
    BY CandidatesAssumption
  <2> QED BY <2>1 DEF Range
<1>9. ASSUME NEW u \in Range(h.uncles) PROVE u \notin path
  <2>1. ASSUME NEW b \in old PROVE u # b
    <3>1. u = b => u.number < h.number - MAX_UNCLE_DEPTH
      BY <1>3, <1>7
    <3>2. u.number \in Nat /\ u.number >= h.number - MAX_UNCLE_DEPTH
      BY <1>3
    <3> QED BY <1>1, <3>1, <3>2
  <2> QED BY <1>3, <1>5, <2>1
<1>10. ASSUME NEW u \in Range(h.uncles), NEW c \in old PROVE u \notin Range(c.uncles)
  <2>1. SUFFICES ASSUME u \in Range(c.uncles) PROVE FALSE
    OBVIOUS
  <2>2. c \in S /\ c.number \in 0 .. p.number /\ c = At(p, c.number)
        /\ (c.number = 0 => c = Genesis)
    BY <1>7
  <2>3. c.number \in 1 .. p.number
    BY <1>1, <1>8, <2>1, <2>2
  <2>4. c.number < h.number - MAX_UNCLE_DEPTH
    <3>1. ~(c.number >= h.number - MAX_UNCLE_DEPTH)
      BY <1>3, <2>1, <2>2, <2>3
    <3> QED BY <1>1, <2>3, <3>1
  <2>5. u.number < c.number /\ u.number \in Nat
    BY <2>1, <2>2 DEF Windowed
  <2>6. u.number >= h.number - MAX_UNCLE_DEPTH
    BY <1>3
  <2> QED BY <1>1, <2>3, <2>4, <2>5, <2>6
<1>11. ASSUME NEW b \in old, NEW u \in Range(b.uncles)
       PROVE  u \notin path /\ \A c \in path : u \in Range(c.uncles) => c = b
  <2>1. u \notin old /\ \A c \in old : u \in Range(c.uncles) => c = b
    BY <1>11 DEF SoundOn
  <2>2. u.number < b.number /\ b.number < h.number /\ u.number \in Nat /\ b.number \in Nat
    BY <1>1, <1>7 DEF Windowed
  <2>3. u # h
    BY <1>1, <2>2
  <2>4. u \notin Range(h.uncles)
    BY <1>10, <1>11
  <2> QED BY <1>5, <2>1, <2>3, <2>4
<1>12. ASSUME NEW b \in path, NEW u \in Range(b.uncles)
       PROVE  (BLOCK_REWARD * (UNCLE_DEPTH_PENALTY_FACTOR + u.number - b.number))
                \div UNCLE_DEPTH_PENALTY_FACTOR > 0
  <2>1. b \in new /\ b.number \in Nat
    BY <1>1, <1>5, <1>7
  <2>2. u.number \in Nat /\ u.number < b.number /\ u.number >= b.number - MAX_UNCLE_DEPTH
    BY <1>4, <2>1 DEF Windowed
  <2> QED BY <2>1, <2>2, RewardPositive
<1>13. SoundOn(h)
  <2> SUFFICES ASSUME NEW b \in path, NEW u \in Range(b.uncles)
               PROVE  u \notin path /\ \A c \in path : u \in Range(c.uncles) => c = b
    BY <1>12 DEF SoundOn
  <2>1. CASE b = h
    <3>1. u \in Range(h.uncles)
      BY <2>1
    <3> QED BY <1>5, <1>9, <1>10, <2>1, <3>1
  <2>2. CASE b # h
    <3>1. b \in old
      BY <1>5, <2>2
    <3> HIDE DEF path, old
    <3> QED BY <1>11, <3>1
  <2> QED BY <2>1, <2>2
<1> QED BY <1>2, <1>4, <1>13

----------------------------------------------------------------------------
\* The inductive invariant of the uncles, with that of the headers: what was
\* accepted is a tree of valid headers with sound paths, and the state of the
\* head agrees with the path to it.  A block that was refused leaves something
\* one number above the head and nowhere else, which is why it does no harm.
UncleInv ==
  /\ IInv
  /\ Rooted(stored)
  /\ \A h \in stored : h # Genesis => validate_header(h.parent, h)
  /\ Windowed(stored)
  /\ \A h \in stored : SoundOn(h)
  /\ Agreed(recent_uncles, head)
  /\ DOMAIN recent_uncles \subseteq 0 .. head.number + 1
  /\ ~dirty => DOMAIN recent_uncles \subseteq 0 .. head.number

LEMMA InitUncleInv == Init => UncleInv
<1> SUFFICES ASSUME Init PROVE UncleInv
  OBVIOUS
<1>1. /\ stored = {Genesis} /\ head = Genesis /\ recent_uncles = [n \in {0} |-> {}]
      /\ Genesis.number = 0 /\ Genesis.uncles = <<>>
  BY CandidatesAssumption DEF Init
<1>2. Rooted(stored)
  BY <1>1 DEF Rooted
<1>3. Range(Genesis.uncles) = {}
  BY <1>1 DEF Range
<1>4. Windowed(stored)
  BY <1>1, <1>3 DEF Windowed
<1>5. \A h \in stored : SoundOn(h)
  <2>1. \A n \in 0 .. Genesis.number : At(Genesis, n) \in {Genesis}
    BY <1>1, <1>2, PathIs
  <2>2. Range(prev_headers(Genesis)) = {At(Genesis, n) : n \in 0 .. Genesis.number}
    BY <1>1, <1>2, PathIs
  <2>3. \A b \in Range(prev_headers(Genesis)) : Range(b.uncles) = {}
    BY <1>3, <2>1, <2>2
  <2> QED BY <1>1, <2>3 DEF SoundOn
<1>6. Agreed(recent_uncles, head)
  <2>1. \A n : UnclesAt(recent_uncles, n) = {}
    BY <1>1 DEF UnclesAt
  <2>2. \A n : UnclesOfRecent(head, n) = {}
    BY <1>1 DEF UnclesOfRecent
  <2> QED BY <2>1, <2>2 DEF Agreed
<1>7. DOMAIN recent_uncles = {0} /\ 0 .. head.number = {0} /\ 0 \in 0 .. head.number + 1
  BY <1>1
<1>8. \A h \in stored : h # Genesis => validate_header(h.parent, h)
  BY <1>1
<1> QED BY <1>2, <1>4, <1>5, <1>6, <1>7, <1>8, InitIInv DEF UncleInv

\* A block that is added, on the head or elsewhere, with the uncles that the
\* state of its parent has.
LEMMA AddedKeeps ==
  ASSUME UncleInv, NEW h, h \notin stored, h.parent \in stored,
         validate_header(h.parent, h),
         NEW recent, Agreed(recent, h.parent), DOMAIN recent \subseteq 0 .. h.number,
         validate_uncles(Initialized(recent, h), h)
  PROVE  /\ Rooted(stored \union {h}) /\ Windowed(stored \union {h})
         /\ \A b \in stored \union {h} : SoundOn(b)
         /\ \A b \in stored \union {h} : b # Genesis => validate_header(b.parent, b)
         /\ Agreed(Finalized(Initialized(recent, h), h), h)
         /\ DOMAIN Finalized(Initialized(recent, h), h) \subseteq 0 .. h.number
<1> DEFINE p == h.parent
<1>1. h.number = p.number + 1
  BY DEF validate_header
<1>2. /\ Rooted(stored) /\ Windowed(stored) /\ \A b \in stored : SoundOn(b)
      /\ \A b \in stored : b # Genesis => validate_header(b.parent, b)
  BY DEF UncleInv
<1>3. Rooted(stored \union {h}) /\ Windowed(stored \union {h}) /\ SoundOn(h)
  BY <1>1, <1>2, AcceptedIsSound
<1>4. h # Genesis
  BY <1>2 DEF Rooted
<1>5. /\ Agreed(Finalized(Initialized(recent, h), h), h)
      /\ DOMAIN Finalized(Initialized(recent, h), h) \subseteq 0 .. h.number
  BY <1>3, <1>4, AgreedCarries
<1> QED BY <1>2, <1>3, <1>5

LEMMA AddToHeadUncles ==
  ASSUME UncleInv, IInv', NEW h \in headers, AddToHead(h)
  PROVE  UncleInv'
<1>1. /\ h \notin stored /\ h.parent = head /\ head \in stored
      /\ validate_header(h.parent, h) /\ validate_uncles(Initialized(recent_uncles, h), h)
      /\ stored' = stored \union {h} /\ head' = h /\ dirty' = FALSE
      /\ recent_uncles' = Finalized(Initialized(recent_uncles, h), h)
  BY DEF AddToHead, UncleInv, IInv
<1>2. h.number = head.number + 1
  BY <1>1 DEF validate_header
<1>3. /\ Agreed(recent_uncles, h.parent) /\ DOMAIN recent_uncles \subseteq 0 .. h.number
  BY <1>1, <1>2 DEF UncleInv
<1>4. /\ Rooted(stored') /\ Windowed(stored') /\ \A b \in stored' : SoundOn(b)
      /\ \A b \in stored' : b # Genesis => validate_header(b.parent, b)
      /\ Agreed(recent_uncles', head') /\ DOMAIN recent_uncles' \subseteq 0 .. head'.number
  BY <1>1, <1>3, AddedKeeps
<1>5. head'.number \in Nat
  BY <1>1, <1>4 DEF Rooted
<1>6. DOMAIN recent_uncles' \subseteq 0 .. head'.number + 1
  BY <1>4, <1>5
<1> QED BY <1>4, <1>6 DEF UncleInv

LEMMA RefuseUnclesUncles ==
  ASSUME UncleInv, IInv', NEW h \in headers, RefuseUncles(h)
  PROVE  UncleInv'
<1>1. /\ h.number = head.number + 1 /\ head \in stored
      /\ stored' = stored /\ head' = head /\ dirty' = TRUE
      /\ recent_uncles' = Initialized(recent_uncles, h)
  BY DEF RefuseUncles, validate_header, UncleInv, IInv
<1>2. head.number \in Nat
  BY <1>1 DEF UncleInv, Rooted
<1>3. Agreed(recent_uncles', head)
  <2>1. \A n \in 0 .. head.number : UnclesAt(recent_uncles', n) = UnclesAt(recent_uncles, n)
    <3> SUFFICES ASSUME NEW n \in 0 .. head.number
                 PROVE  UnclesAt(recent_uncles', n) = UnclesAt(recent_uncles, n)
      OBVIOUS
    <3>1. n # h.number
      BY <1>1, <1>2
    <3>2. UnclesAt(Initialized(recent_uncles, h), n) = UnclesAt(recent_uncles, n)
      BY <3>1, InitializedIs
    <3> QED BY <1>1, <3>2
  <2> QED BY <2>1 DEF Agreed, UncleInv
<1>4. DOMAIN recent_uncles' \subseteq 0 .. head.number + 1
  <2>1. DOMAIN recent_uncles' = DOMAIN recent_uncles \union {head.number + 1}
    BY <1>1, InitializedIs
  <2> QED BY <1>2, <2>1 DEF UncleInv
<1> QED BY <1>1, <1>3, <1>4 DEF UncleInv

LEMMA AddElsewhereUncles ==
  ASSUME UncleInv, IInv', NEW h \in headers, AddElsewhere(h)
  PROVE  UncleInv'
<1> DEFINE base == Rebuilt(h.parent)
           better == Score(h) > Score(head)
<1>1. /\ h \notin stored /\ h.parent \in stored
      /\ validate_header(h.parent, h) /\ validate_uncles(Initialized(base, h), h)
      /\ stored' = stored \union {h}
      /\ head' = IF better THEN h ELSE head
      /\ recent_uncles' = IF better THEN Finalized(Initialized(base, h), h) ELSE recent_uncles
      /\ dirty' = (dirty /\ ~better)
  BY DEF AddElsewhere
<1>2. h.number = h.parent.number + 1 /\ h.parent.number \in Nat
  BY <1>1 DEF validate_header, UncleInv, Rooted
<1>3. Agreed(base, h.parent)
  BY RebuiltIs DEF Agreed
<1>4. DOMAIN base \subseteq 0 .. h.number
  <2>1. DOMAIN base = {m \in 1 .. h.parent.number : m > h.parent.number - RebuiltDepth}
    BY DEF Rebuilt
  <2> QED BY <1>2, <2>1
<1> HIDE DEF base, better
<1>5. /\ Rooted(stored') /\ Windowed(stored') /\ \A b \in stored' : SoundOn(b)
      /\ \A b \in stored' : b # Genesis => validate_header(b.parent, b)
      /\ Agreed(Finalized(Initialized(base, h), h), h)
      /\ DOMAIN Finalized(Initialized(base, h), h) \subseteq 0 .. h.number
  BY <1>1, <1>3, <1>4, AddedKeeps
<1>6. /\ Agreed(recent_uncles', head')
      /\ DOMAIN recent_uncles' \subseteq 0 .. head'.number + 1
      /\ ~dirty' => DOMAIN recent_uncles' \subseteq 0 .. head'.number
  <2>1. CASE better
    <3>1. head' = h /\ recent_uncles' = Finalized(Initialized(base, h), h)
      BY <1>1, <2>1
    <3> QED BY <1>2, <1>5, <3>1
  <2>2. CASE ~better
    <3>1. head' = head /\ recent_uncles' = recent_uncles /\ (~dirty' => ~dirty)
      BY <1>1, <2>2
    <3> QED BY <3>1 DEF UncleInv
  <2> QED BY <2>1, <2>2
<1> QED BY <1>5, <1>6 DEF UncleInv

LEMMA NextUncleInv == UncleInv /\ [Next]_vars => UncleInv'
<1> SUFFICES ASSUME UncleInv, [Next]_vars PROVE UncleInv'
  OBVIOUS
<1>1. IInv'
  BY NextIInv DEF UncleInv
<1>2. ASSUME NEW parent \in stored, NEW style \in Styles, NEW uncles \in UncleLists,
             Make(parent, style, uncles)
      PROVE  UncleInv'
  BY <1>1, <1>2 DEF UncleInv, Make
<1>3. ASSUME NEW h \in headers, AddToHead(h) PROVE UncleInv'
  BY <1>1, <1>3, AddToHeadUncles
<1>4. ASSUME NEW h \in headers, RefuseUncles(h) PROVE UncleInv'
  BY <1>1, <1>4, RefuseUnclesUncles
<1>5. ASSUME NEW h \in headers, AddElsewhere(h) PROVE UncleInv'
  BY <1>1, <1>5, AddElsewhereUncles
<1>6. CASE UNCHANGED vars
  BY <1>1, <1>6 DEF UncleInv, vars
<1> QED BY <1>2, <1>3, <1>4, <1>5, <1>6 DEF Next

\* No header is an uncle twice on the path to an accepted block, none is an
\* uncle of its own descendant, and every uncle's reward is positive: the
\* windows of validate_uncles, of finalize and of mk_poststate_of_blockhash
\* cover each other.
THEOREM UnclesAreSound == Spec => []UnclesSound
<1>1. UncleInv => UnclesSound
  BY DEF UncleInv, UnclesSound, SoundOn
<1> QED BY <1>1, InitUncleInv, NextUncleInv, PTL DEF Spec

\* The state of the head has the uncles that a restart would rebuild from the
\* database, and those of the next block are missing unless a refused block
\* has left its own (finalize, mk_poststate_of_blockhash).
THEOREM CarriedAsRebuilt == Spec => []RecentUnclesAgree
<1>1. UncleInv => RecentUnclesAgree
  <2> SUFFICES ASSUME UncleInv,
                      NEW n \in 0 .. (IF dirty THEN head.number ELSE head.number + 1)
               PROVE  UnclesAt(recent_uncles, n) = UnclesAt(Rebuilt(head), n)
    BY DEF RecentUnclesAgree
  <2>1. head.number \in Nat
    BY DEF UncleInv, IInv, Rooted
  <2>2. UnclesAt(Rebuilt(head), n) = UnclesOfRecent(head, n)
    BY RebuiltIs
  <2>3. CASE n \in 0 .. head.number
    BY <2>2, <2>3 DEF UncleInv, Agreed
  <2>4. CASE n \notin 0 .. head.number
    <3>1. ~dirty /\ n \notin 1 .. head.number
      BY <2>1, <2>4
    <3>2. n \notin DOMAIN recent_uncles
      BY <2>4, <3>1 DEF UncleInv
    <3> QED BY <2>2, <3>1, <3>2 DEF UnclesAt, UnclesOfRecent
  <2> QED BY <2>3, <2>4
<1> QED BY <1>1, InitUncleInv, NextUncleInv, PTL DEF Spec

\* What validate_uncles asks of one uncle.
Eligible(u, b) ==
  /\ u.number < b.number
  /\ u.parent \in Grandparents(b)
  /\ u.difficulty = calc_difficulty(u.parent, u.timestamp)
  /\ u.number = u.parent.number + 1
  /\ u.timestamp >= u.parent.timestamp
  /\ u \notin Range(AncestorChain(b)) \union Counted(Initialized(recent_uncles, b), b)
  /\ u.gas_used <= u.gas_limit

\* A child of a recent ancestor that is no ancestor and was not counted is an
\* uncle that validate_uncles accepts.
LEMMA PickedIsValid ==
  ASSUME UncleInv, NEW u \in UnclesToBe(recent_uncles),
         NEW b, b.parent = head, b.number = head.number + 1
  PROVE  Eligible(u, b)
<1> DEFINE near == First(prev_headers(head), MAX_UNCLE_DEPTH)
<1>1. /\ Rooted(stored) /\ head \in stored /\ \A h \in stored : Good(h)
      /\ head.number \in Nat /\ MAX_UNCLE_DEPTH \in Nat
  BY UncleAssumption DEF UncleInv, IInv, Rooted
<1>2. /\ u \in stored /\ u # Genesis /\ u \notin Range(near)
      /\ u.parent \in Range(near) /\ u.parent # head
      /\ u \notin UNION Range(recent_uncles)
  BY DEF UnclesToBe
<1>3. /\ near \in Seq(stored) /\ Len(near) <= MAX_UNCLE_DEPTH
      /\ \A i \in 1 .. Len(near) :
           /\ head.number - i + 1 \in 0 .. head.number
           /\ near[i] = At(head, head.number - i + 1)
      /\ \A n \in 0 .. head.number :
           n > head.number - MAX_UNCLE_DEPTH =>
             /\ head.number - n + 1 \in 1 .. Len(near)
             /\ near[head.number - n + 1] = At(head, n)
  <2> DEFINE k == MAX_UNCLE_DEPTH
  <2>1. k \in Nat /\ near = First(prev_headers(head), k)
    BY <1>1
  <2> HIDE DEF k, near
  <2>2. NewestOf(near, stored, head, k)
    BY <1>1, <2>1, Newest
  <2> QED BY <2>2, Zenon DEF k, NewestOf
<1> HIDE DEF near
<1>4. Range(near) = {near[i] : i \in 1 .. Len(near)} /\ Len(near) \in Nat
  BY <1>3 DEF Range
<1>5. /\ \A n \in 0 .. head.number : At(head, n).number = n
      /\ At(head, head.number) = head
  BY <1>1, PathIs
<1>6. PICK m \in 0 .. head.number :
        /\ u.parent = At(head, m) /\ m >= head.number - MAX_UNCLE_DEPTH + 1
        /\ m < head.number
  <2>1. PICK i \in 1 .. Len(near) : u.parent = near[i]
    BY <1>2, <1>4
  <2>2. /\ head.number - i + 1 \in 0 .. head.number
        /\ u.parent = At(head, head.number - i + 1)
    BY <1>3, <2>1
  <2>3. head.number - i + 1 # head.number
    BY <1>2, <1>5, <2>2
  <2>4. head.number - i + 1 >= head.number - MAX_UNCLE_DEPTH + 1
    BY <1>1, <1>3, <1>4
  <2> QED BY <1>1, <2>2, <2>3, <2>4
<1>7. u.parent.number = m
  BY <1>5, <1>6
<1>8. validate_header(u.parent, u) /\ Good(u) /\ Good(u.parent)
  BY <1>1, <1>2 DEF UncleInv, Rooted
<1>9. /\ u.number = u.parent.number + 1 /\ u.gas_used <= u.gas_limit
      /\ u.difficulty = calc_difficulty(u.parent, u.timestamp)
      /\ u.timestamp >= u.parent.timestamp
  BY <1>8 DEF validate_header, Good
<1>10. u.number \in Nat /\ u.number < b.number
  BY <1>1, <1>6, <1>7, <1>9
<1>11. /\ Range(AncestorChain(b)) = {b} \union
            {At(head, n) : n \in {k \in 0 .. head.number : k >= head.number - MAX_UNCLE_DEPTH}}
       /\ Grandparents(b) =
            {At(head, n) : n \in {k \in 0 .. head.number : k >= head.number - MAX_UNCLE_DEPTH
                                                           /\ k < head.number}}
  BY <1>1, ChainIs
<1>12. u.parent \in Grandparents(b)
  <2>1. m \in {k \in 0 .. head.number : k >= head.number - MAX_UNCLE_DEPTH /\ k < head.number}
    BY <1>1, <1>6
  <2> QED BY <1>6, <1>11, <2>1
<1>13. u \notin Range(AncestorChain(b))
  <2>1. u # b
    BY <1>10
  <2>2. ASSUME NEW n \in 0 .. head.number, n >= head.number - MAX_UNCLE_DEPTH
        PROVE  u # At(head, n)
    <3>1. SUFFICES ASSUME u = At(head, n) PROVE FALSE
      OBVIOUS
    <3>2. n > head.number - MAX_UNCLE_DEPTH
      BY <1>1, <1>5, <1>6, <1>7, <1>9, <3>1
    <3>3. u \in Range(near)
      BY <1>3, <1>4, <3>1, <3>2
    <3> QED BY <1>2, <3>3
  <2> QED BY <1>11, <2>1, <2>2
<1>14. u \notin Counted(Initialized(recent_uncles, b), b)
  <2>1. SUFFICES ASSUME u \in Counted(Initialized(recent_uncles, b), b) PROVE FALSE
    OBVIOUS
  <2>2. PICK n \in DOMAIN Initialized(recent_uncles, b) :
          b.number > n /\ u \in Initialized(recent_uncles, b)[n]
    BY <2>1 DEF Counted
  <2>3. n # b.number
    <3>1. ~(b.number > b.number)
      BY <1>1
    <3> QED BY <2>2, <3>1
  <2>4. n \in DOMAIN recent_uncles
    <3>1. DOMAIN Initialized(recent_uncles, b) = DOMAIN recent_uncles \union {b.number}
      BY InitializedIs
    <3> QED BY <2>2, <2>3, <3>1
  <2>5. Initialized(recent_uncles, b)[n] = recent_uncles[n]
    BY <2>3, <2>4 DEF Initialized
  <2>6. recent_uncles[n] \in Range(recent_uncles)
    BY <2>4 DEF Range
  <2> QED BY <1>2, <2>2, <2>5, <2>6
<1> QED BY <1>9, <1>10, <1>12, <1>13, <1>14 DEF Eligible

LEMMA UncleInvSuffices == UncleInv => CandidateUnclesValid
<1> SUFFICES ASSUME UncleInv, NEW uncles \in get_uncle_candidates(recent_uncles)
             PROVE  LET b == Candidate(1, 0, uncles) IN
                    validate_uncles(Initialized(recent_uncles, b), b)
  BY DEF CandidateUnclesValid
<1> DEFINE b == Candidate(1, 0, uncles)
<1>1. b.parent = head /\ b.number = head.number + 1 /\ b.uncles = uncles
  BY DEF Candidate, mk_block_from_prevstate
<1>2. Len(uncles) <= MAX_UNCLES
  <2>1. \/ uncles = <<>>
        \/ \E u \in stored : uncles = <<u>>
        \/ \E u, v \in stored : uncles = <<u, v>>
    BY DEF get_uncle_candidates
  <2>2. Len(uncles) \in 0 .. 2
    BY <2>1
  <2>3. MAX_UNCLES \in Nat /\ MAX_UNCLES >= 2
    BY UncleAssumption
  <2> DEFINE n == Len(uncles)
  <2> HIDE DEF n
  <2>4. n \in 0 .. 2
    BY <2>2 DEF n
  <2>5. n <= MAX_UNCLES
    BY <2>3, <2>4
  <2> QED BY <2>5 DEF n
<1>3. IsInjective(uncles) /\ Range(uncles) \subseteq UnclesToBe(recent_uncles)
  BY DEF get_uncle_candidates
<1> HIDE DEF b
<1>4. \A u \in Range(uncles) : Eligible(u, b)
  BY <1>1, <1>3, PickedIsValid
<1>5. validate_uncles(Initialized(recent_uncles, b), b)
  BY <1>1, <1>2, <1>3, <1>4 DEF validate_uncles, Eligible, AncestorChain, Grandparents
<1> QED BY <1>5 DEF b

\* The uncles that get_uncle_candidates picks for the next block are uncles
\* that validate_uncles accepts in it, whatever refused blocks have left in
\* the state of the head.
THEOREM CandidateUnclesAccepted == Spec => []CandidateUnclesValid
BY InitUncleInv, NextUncleInv, UncleInvSuffices, PTL DEF Spec
=============================================================================
