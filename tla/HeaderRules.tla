----------------------------- MODULE HeaderRules -----------------------------
(***************************************************************************)
(* The rules of a block header in ethereum/common.py: how a new header     *)
(* follows from its parent (calc_gaslimit, calc_difficulty,                *)
(* mk_block_from_prevstate), and what validate_header asks of one.         *)
(*                                                                         *)
(* A header is a record [parent, number, timestamp, difficulty, gas_limit, *)
(* gas_used, uncles].  Its hash is its content: parent is the parent's     *)
(* header and uncles a sequence of headers.                                *)
(***************************************************************************)
EXTENDS Integers, Sequences

CONSTANTS   \* the keys of ethereum/config.py
  GASLIMIT_EMA_FACTOR, GASLIMIT_ADJMAX_FACTOR, BLKLIM_FACTOR_NOM, BLKLIM_FACTOR_DEN,
  MIN_GAS_LIMIT, GENESIS_GAS_LIMIT,
  BLOCK_DIFF_FACTOR, MIN_DIFF, DIFF_ADJUSTMENT_CUTOFF,
  HOMESTEAD_FORK_BLKNUM, HOMESTEAD_DIFF_ADJUSTMENT_CUTOFF,
  METROPOLIS_FORK_BLKNUM, METROPOLIS_DIFF_ADJUSTMENT_CUTOFF,
  EXPDIFF_PERIOD, EXPDIFF_FREE_PERIODS, METROPOLIS_DELAY_PERIODS

\* What default_config has: equal factors, a contribution of at most one and
\* a half, a least gas limit of at least one step.
ASSUME GasAssumption ==
  /\ GASLIMIT_EMA_FACTOR \in Nat \ {0}
  /\ GASLIMIT_ADJMAX_FACTOR = GASLIMIT_EMA_FACTOR
  /\ BLKLIM_FACTOR_NOM \in Nat /\ BLKLIM_FACTOR_DEN \in Nat \ {0}
  /\ 2 * BLKLIM_FACTOR_NOM <= 3 * BLKLIM_FACTOR_DEN
  /\ MIN_GAS_LIMIT \in Nat /\ GASLIMIT_EMA_FACTOR <= MIN_GAS_LIMIT
  /\ GENESIS_GAS_LIMIT \in Nat /\ MIN_GAS_LIMIT <= GENESIS_GAS_LIMIT

ASSUME DifficultyAssumption ==
  /\ {DIFF_ADJUSTMENT_CUTOFF, HOMESTEAD_DIFF_ADJUSTMENT_CUTOFF,
      METROPOLIS_DIFF_ADJUSTMENT_CUTOFF} \subseteq Nat \ {0, 1}
  /\ {HOMESTEAD_FORK_BLKNUM, METROPOLIS_FORK_BLKNUM, MIN_DIFF, EXPDIFF_FREE_PERIODS,
      METROPOLIS_DELAY_PERIODS} \subseteq Nat
  /\ {BLOCK_DIFF_FACTOR, EXPDIFF_PERIOD} \subseteq Nat \ {0}

Larger(a, b) == IF a >= b THEN a ELSE b
Smaller(a, b) == IF a <= b THEN a ELSE b

----------------------------------------------------------------------------
\* Gas limits
Decay(parent) == parent.gas_limit \div GASLIMIT_EMA_FACTOR
NewContribution(parent) ==
  ((parent.gas_used * BLKLIM_FACTOR_NOM) \div BLKLIM_FACTOR_DEN) \div GASLIMIT_EMA_FACTOR

\* Wrong: the limit is raised to that of the genesis block in one step.
gaslimit_at_once(parent) ==
  Larger(Larger(parent.gas_limit - Decay(parent) + NewContribution(parent), MIN_GAS_LIMIT),
         GENESIS_GAS_LIMIT)
calc_gaslimit(parent) ==
  LET gl == Larger(parent.gas_limit - Decay(parent) + NewContribution(parent), MIN_GAS_LIMIT)
  IN IF gl < GENESIS_GAS_LIMIT THEN Smaller(GENESIS_GAS_LIMIT, parent.gas_limit + Decay(parent))
     ELSE gl

check_gaslimit(parent, gas_limit) ==
  LET step == parent.gas_limit \div GASLIMIT_ADJMAX_FACTOR IN
  /\ gas_limit <= parent.gas_limit + step /\ parent.gas_limit <= gas_limit + step
  /\ gas_limit >= MIN_GAS_LIMIT

----------------------------------------------------------------------------
\* Difficulties
Metropolis(parent) == parent.number >= METROPOLIS_FORK_BLKNUM - 1
Homestead(parent) == parent.number >= HOMESTEAD_FORK_BLKNUM - 1

Sign(parent, timestamp) ==
  LET late == timestamp - parent.timestamp IN
  IF Metropolis(parent)
  THEN Larger((IF parent.uncles # <<>> THEN 2 ELSE 1)
              - (late \div METROPOLIS_DIFF_ADJUSTMENT_CUTOFF), -99)
  ELSE IF Homestead(parent)
  THEN Larger(1 - (late \div HOMESTEAD_DIFF_ADJUSTMENT_CUTOFF), -99)
  ELSE IF late < DIFF_ADJUSTMENT_CUTOFF THEN 1 ELSE -1

PeriodCount(parent) ==
  ((parent.number + 1) \div EXPDIFF_PERIOD)
  - (IF Metropolis(parent) THEN METROPOLIS_DELAY_PERIODS ELSE 0)

\* With the bomb, which doubles it every period.
Bombed(parent, o) ==
  IF PeriodCount(parent) < EXPDIFF_FREE_PERIODS THEN o
  ELSE Larger(o + 2 ^ (PeriodCount(parent) - EXPDIFF_FREE_PERIODS), MIN_DIFF)

calc_difficulty(parent, timestamp) ==
  IF parent.difficulty = 1 THEN 1
  ELSE Bombed(parent,
              Larger(parent.difficulty
                       + (parent.difficulty \div BLOCK_DIFF_FACTOR) * Sign(parent, timestamp),
                     Smaller(parent.difficulty, MIN_DIFF)))

----------------------------------------------------------------------------
\* mk_block_from_prevstate, with what its transactions will have used: the
\* difficulty is that of `now', the timestamp is later than the parent's.
mk_block_from_prevstate(parent, now, used, uncles) ==
  [parent |-> parent, number |-> parent.number + 1,
   timestamp |-> Larger(now, parent.timestamp + 1),
   difficulty |-> calc_difficulty(parent, now), gas_limit |-> calc_gaslimit(parent),
   gas_used |-> used, uncles |-> uncles]

validate_header(parent, header) ==
  /\ header.parent = parent
  /\ header.number = parent.number + 1
  /\ check_gaslimit(parent, header.gas_limit)
  /\ header.difficulty = calc_difficulty(parent, header.timestamp)
  /\ header.gas_used <= header.gas_limit
  /\ header.timestamp > parent.timestamp
=============================================================================
