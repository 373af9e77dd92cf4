SPECIFICATION ValidatorSpec
CONSTANTS
  Genesis <- MCGenesis
  NoBlock = NoBlock
  Block <- MCBlock
  Parent <- MCParent
  Number <- MCNumber
  Anc <- MCAnc
  Timestamp <- AtOnce
  Difficulty <- MCDifficulty
  Tx = {}
  Txs <- NoTxs
  MaxHeight = 7
  EpochLength = 3
  Frac <- MCFrac
  Valid <- MCBlock
  RandomUnit = 100
  MaxTime = 0
  MaxCopies = 1
  TakesPrepare <- MCBlock
  Justified <- MCJustified
  Tipping <- MCTipping
  MaxDepth = 2
INVARIANTS NoDoublePrepare
CHECK_DEADLOCK FALSE
