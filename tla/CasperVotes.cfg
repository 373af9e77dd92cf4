SPECIFICATION Spec
CONSTANTS
  Genesis <- MCGenesis
  NoBlock = NoBlock
  Block <- MCBlock
  Parent <- MCParent
  Number <- MCNumber
  Anc <- MCAnc
  Timestamp <- MCTimestamp
  Difficulty <- MCDifficulty
  Tx = {}
  Txs <- NoTxs
  MaxHeight = 6
  EpochLength = 2
  Frac <- MCFrac
  Valid <- MCValid
  RandomUnit = 11
  MaxTime = 1
  MaxCopies = 1
INVARIANTS SubtreeScoresExact PointersToBest HeadCheckpointBest HeaviestAbove IndexedStateSaved NothingLost
PROPERTIES LeavesForMoreCommits
CHECK_DEADLOCK FALSE
