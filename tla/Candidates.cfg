SPECIFICATION Spec
CONSTANTS
  GASLIMIT_EMA_FACTOR = 4
  GASLIMIT_ADJMAX_FACTOR = 4
  BLKLIM_FACTOR_NOM = 3
  BLKLIM_FACTOR_DEN = 2
  MIN_GAS_LIMIT = 8
  GENESIS_GAS_LIMIT = 12
  BLOCK_DIFF_FACTOR = 4
  MIN_DIFF = 6
  DIFF_ADJUSTMENT_CUTOFF = 2
  HOMESTEAD_FORK_BLKNUM = 2
  HOMESTEAD_DIFF_ADJUSTMENT_CUTOFF = 2
  METROPOLIS_FORK_BLKNUM = 3
  METROPOLIS_DIFF_ADJUSTMENT_CUTOFF = 2
  EXPDIFF_PERIOD = 2
  EXPDIFF_FREE_PERIODS = 1
  METROPOLIS_DELAY_PERIODS = 1
  Genesis <- First0
  MAX_UNCLE_DEPTH = 3
  MAX_UNCLES = 2
  UNCLE_DEPTH_PENALTY_FACTOR = 4
  BLOCK_REWARD = 8
  RebuiltDepth = 3
  Delays = {0, 1, 4}
  Styles <- Three
  MaxHeaders = 5
  MaxUncles = 1
INVARIANTS CandidateHeaderValid CandidateUnclesValid UnclesSound RecentUnclesAgree
CHECK_DEADLOCK FALSE
