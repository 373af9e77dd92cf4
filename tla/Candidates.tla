----------------------------- MODULE Candidates -----------------------------
(***************************************************************************)
(* Blocks that others make and blocks this node makes: validate_uncles,    *)
(* get_uncle_candidates, initialize and finalize of                        *)
(* ethereum/pow/consensus.py, make_head_candidate of ethereum/meta.py, and *)
(* the uncles of recent blocks that a State keeps for them, carried along  *)
(* from block to block on the head and rebuilt from the database by        *)
(* mk_poststate_of_blockhash of ethereum/pow/chain.py off it.              *)
(*                                                                         *)
(* Arrival out of order, indices and queues are in PowChain, execution in  *)
(* Messages.  Left out: seals, extra data, the DAO.                        *)
(***************************************************************************)
EXTENDS HeaderRules, FiniteSets, SequencesExt, FiniteSetsExt, Functions

CONSTANTS
  Genesis,                     \* the header of the genesis block
  MAX_UNCLE_DEPTH, MAX_UNCLES, UNCLE_DEPTH_PENALTY_FACTOR, BLOCK_REWARD,
  RebuiltDepth,                \* blocks whose uncles mk_poststate_of_blockhash collects: 6
  Delays,                      \* how much later than its parent this node makes a block
  Styles,                      \* how others make theirs: delay, gas limit and use, error in the difficulty
  MaxHeaders, MaxUncles                  \* bounds on the headers made and on the uncles of one

ASSUME CandidatesAssumption ==
  /\ Genesis.number = 0 /\ Genesis.uncles = <<>>
  /\ Genesis.timestamp \in Nat /\ Genesis.difficulty \in Nat
  /\ Genesis.gas_limit \in Nat /\ Genesis.gas_limit >= MIN_GAS_LIMIT
  /\ Genesis.gas_used \in 0 .. Genesis.gas_limit
  /\ Delays \subseteq Nat
  /\ Styles \subseteq [delay : Nat, low : BOOLEAN, full : BOOLEAN, extra : Nat]

\* What default_config and the two hard-coded numbers have: as many blocks
\* rebuilt as an uncle is old at most, two uncles allowed where two are
\* picked, a reward that the penalty of the oldest uncle does not use up.
ASSUME UncleAssumption ==
  /\ MAX_UNCLE_DEPTH \in Nat \ {0} /\ RebuiltDepth = MAX_UNCLE_DEPTH
  /\ MAX_UNCLES \in Nat /\ MAX_UNCLES >= 2
  /\ UNCLE_DEPTH_PENALTY_FACTOR \in Nat /\ MAX_UNCLE_DEPTH < UNCLE_DEPTH_PENALTY_FACTOR
  /\ BLOCK_REWARD \in Nat /\ BLOCK_REWARD >= UNCLE_DEPTH_PENALTY_FACTOR

VARIABLES
  headers,        \* the headers there are
  stored,         \* those of the blocks that this node has accepted
  head,
  recent_uncles,  \* of the state of the head: uncles by the number of their block
  dirty           \* whether a block that was refused has left something in that state

vars == <<headers, stored, head, recent_uncles, dirty>>

Init ==
  /\ headers = {Genesis} /\ stored = {Genesis} /\ head = Genesis
  /\ recent_uncles = [n \in {0} |-> {}]
  /\ dirty = FALSE

----------------------------------------------------------------------------
\* prev_headers of the post-state of h: h and its ancestors.
prev_headers(h) ==
  LET up[i \in 0 .. h.number] == IF i = 0 THEN h ELSE up[i - 1].parent
  IN [i \in 1 .. h.number + 1 |-> up[i - 1]]

Score(h) == MapThenSumSet(LAMBDA i : prev_headers(h)[i].difficulty, 1 .. h.number + 1)

First(s, n) == SubSeq(s, 1, Smaller(n, Len(s)))

\* update_block_env_variables
Initialized(recent, b) ==
  [n \in DOMAIN recent \union {b.number} |->
     IF n = b.number THEN Range(b.uncles) ELSE recent[n]]

\* finalize forgets the uncles of one old block.
\* Wrong: one block too early.
FinalizedEarly(recent, b) ==
  Restrict(recent, DOMAIN recent \ {b.number - MAX_UNCLE_DEPTH, b.number - MAX_UNCLE_DEPTH + 1})
Finalized(recent, b) == Restrict(recent, DOMAIN recent \ {b.number - MAX_UNCLE_DEPTH})

\* mk_poststate_of_blockhash; the empty entry of the genesis block, which it
\* adds under a key that finalize does not find, makes no difference.
Rebuilt(h) ==
  [n \in {m \in 1 .. h.number : m > h.number - RebuiltDepth} |->
     Range(prev_headers(h)[h.number - n + 1].uncles)]

\* validate_uncles, in a state with these recent uncles.
\* Wrong: the oldest block that may hold the same uncle is not looked at.
CountedShort(recent, b) ==
  UNION {recent[n] : n \in {m \in DOMAIN recent : b.number > m /\ m > b.number - MAX_UNCLE_DEPTH + 1}}
Counted(recent, b) ==
  UNION {recent[n] : n \in {m \in DOMAIN recent : b.number > m /\ m >= b.number - MAX_UNCLE_DEPTH}}

validate_uncles(recent, b) ==
  LET ancestor_chain == <<b>> \o First(prev_headers(b.parent), MAX_UNCLE_DEPTH + 1)
      ineligible == Range(ancestor_chain) \union Counted(recent, b)
  IN /\ Len(b.uncles) <= MAX_UNCLES
     /\ IsInjective(b.uncles)
     /\ \A u \in Range(b.uncles) :
          /\ u.number < b.number
          /\ u.parent \in Range(SubSeq(ancestor_chain, 3, Len(ancestor_chain)))
          /\ u.difficulty = calc_difficulty(u.parent, u.timestamp)
          /\ u.number = u.parent.number + 1
          /\ u.timestamp >= u.parent.timestamp
          /\ u \notin ineligible
          /\ u.gas_used <= u.gas_limit

----------------------------------------------------------------------------
\* Somebody makes a header, good or bad, on a good one.
Make(parent, style, uncles) ==
  LET timestamp == parent.timestamp + style.delay
      limit == IF style.low THEN parent.gas_limit - parent.gas_limit \div GASLIMIT_ADJMAX_FACTOR
               ELSE calc_gaslimit(parent)
      h == [parent |-> parent, number |-> parent.number + 1, timestamp |-> timestamp,
            difficulty |-> calc_difficulty(parent, timestamp) + style.extra,
            gas_limit |-> limit, gas_used |-> IF style.full THEN limit ELSE 0, uncles |-> uncles]
  IN /\ Cardinality(headers) <= MaxHeaders
     /\ headers' = headers \union {h}
     /\ UNCHANGED <<stored, head, recent_uncles, dirty>>

\* add_block and apply_block for a block on the head.
AddToHead(h) ==
  /\ h \notin stored /\ h.parent = head
  /\ validate_header(head, h) /\ validate_uncles(Initialized(recent_uncles, h), h)
  /\ stored' = stored \union {h}
  /\ head' = h
  /\ recent_uncles' = Finalized(Initialized(recent_uncles, h), h)
  /\ dirty' = FALSE
  /\ UNCHANGED headers

\* VerificationFailed, which apply_block does not revert; a bad header is
\* a ValueError and changes nothing.
RefuseUncles(h) ==
  /\ h \notin stored /\ h.parent = head
  /\ validate_header(head, h) /\ ~validate_uncles(Initialized(recent_uncles, h), h)
  /\ recent_uncles' = Initialized(recent_uncles, h)
  /\ dirty' = TRUE
  /\ UNCHANGED <<headers, stored, head>>

\* For a block elsewhere, whose parent's post-state is rebuilt.
AddElsewhere(h) ==
  LET recent == Initialized(Rebuilt(h.parent), h)
      better == Score(h) > Score(head)
  IN /\ h \notin stored /\ h.parent # head /\ h # Genesis /\ h.parent \in stored
     /\ validate_header(h.parent, h) /\ validate_uncles(recent, h)
     /\ stored' = stored \union {h}
     /\ head' = IF better THEN h ELSE head
     /\ recent_uncles' = IF better THEN Finalized(recent, h) ELSE recent_uncles
     /\ dirty' = (dirty /\ ~better)
     /\ UNCHANGED headers

UncleLists ==
  {s \in {<<>>} \union {<<u>> : u \in headers} \union {<<u, v>> : u, v \in headers} :
     Len(s) <= MaxUncles /\ Genesis \notin Range(s)}

Next ==
  \/ \E parent \in stored, style \in Styles, uncles \in UncleLists : Make(parent, style, uncles)
  \/ \E h \in headers : AddToHead(h) \/ RefuseUncles(h) \/ AddElsewhere(h)

Spec == Init /\ [][Next]_vars

----------------------------------------------------------------------------
\* get_uncle_candidates: children of recent ancestors, two at most; the order
\* of the child index is left open.
\* Wrong: uncles that were counted already are candidates again.
UnclesToBeIgnoring(recent) ==
  LET near == Range(First(prev_headers(head), MAX_UNCLE_DEPTH)) IN
  {c \in stored \ near : c # Genesis /\ c.parent \in near \ {head}}
UnclesToBe(recent) ==
  LET near == Range(First(prev_headers(head), MAX_UNCLE_DEPTH)) IN
  {c \in stored \ near : c # Genesis /\ c.parent \in near \ {head}} \ UNION Range(recent)

get_uncle_candidates(recent) ==
  {s \in {<<>>} \union {<<u>> : u \in stored} \union {<<u, v>> : u, v \in stored} :
     /\ IsInjective(s) /\ Range(s) \subseteq UnclesToBe(recent)
     /\ Len(s) = Smaller(2, Cardinality(UnclesToBe(recent)))}

\* make_head_candidate, with a timestamp not before the head's.
Candidate(delay, used, uncles) ==
  mk_block_from_prevstate(head, head.timestamp + delay, used, uncles)

----------------------------------------------------------------------------
\* Properties

\* The header that mk_block_from_prevstate makes is one that validate_header
\* accepts: the new gas limit is within a step of the old one, and the
\* difficulty, though it is computed from `now', is that of the timestamp.
CandidateHeaderValid ==
  \A delay \in Delays : \A used \in 0 .. calc_gaslimit(head) :
    validate_header(head, Candidate(delay, used, <<>>))

\* The uncles that get_uncle_candidates picks are ones that validate_uncles
\* accepts, whatever a refused block has left in the state.
CandidateUnclesValid ==
  \A uncles \in get_uncle_candidates(recent_uncles) :
    LET b == Candidate(1, 0, uncles) IN validate_uncles(Initialized(recent_uncles, b), b)

\* On the path to every accepted block a header is an uncle at most once, is
\* no uncle of its own descendants, and brings a reward that is positive
\* (validate_uncles, finalize and the windows of both).
UnclesSound ==
  \A h \in stored :
    LET path == Range(prev_headers(h)) IN
    \A b \in path : \A u \in Range(b.uncles) :
      /\ u \notin path
      /\ \A c \in path : u \in Range(c.uncles) => c = b
      /\ (BLOCK_REWARD * (UNCLE_DEPTH_PENALTY_FACTOR + u.number - b.number))
           \div UNCLE_DEPTH_PENALTY_FACTOR > 0

\* The recent uncles carried from block to block are those that would be
\* rebuilt from the database, and of the next block there are none yet, unless
\* one that was refused has left its own.
UnclesAt(recent, n) == IF n \in DOMAIN recent THEN recent[n] ELSE {}
RecentUnclesAgree ==
  \A n \in 0 .. (IF dirty THEN head.number ELSE head.number + 1) :
    UnclesAt(recent_uncles, n) = UnclesAt(Rebuilt(head), n)
=============================================================================
