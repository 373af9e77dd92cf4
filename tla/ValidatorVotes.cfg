SPECIFICATION ValidatorSpec
CONSTANTS
  Genesis <- MCGenesis
  NoBlock = NoBlock
  Block <- MCBlock
  Parent <- MCParent
  Number <- MCNumber
  Anc <- MCAnc
  Timestamp <- AtOnce
  Difficulty <- MCDifficulty
  Tx = {}
  Txs <- NoTxs
  MaxHeight = 7
  EpochLength = 3
  Frac <- NoFrac
  Valid <- MCBlock
  RandomUnit = 100
  MaxTime = 0
  MaxCopies = 1
  TakesPrepare <- MCBlock
  Justified <- RightJustified
  Tipping = {}
  MaxDepth = 1
INVARIANTS PrepareCommitConsistency
CHECK_DEADLOCK FALSE
