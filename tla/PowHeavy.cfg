SPECIFICATION Spec
CONSTANTS
  Genesis <- MCGenesis
  NoBlock = NoBlock
  Block <- HeavyBlock
  Parent <- HeavyParent
  Number <- MCNumber
  Anc <- HeavyAnc
  Timestamp <- HeavyTimestamp
  Difficulty <- HeavyDifficulty
  Tx = {"s", "t"}
  Txs <- HeavyTxs
  MaxHeight = 3
  Node <- ForkNode
  Nodes <- HeavyNodes
  Root <- MCRoot
  Reads <- MCReads
  Verdict <- HeavyVerdict
  MaxHistory = 1
  RandomUnit = 4
  MaxTime = 1
  MaxCopies = 2
INVARIANTS HeadHeaviest HeadStateRetained
PROPERTIES ImplementsForkChoice
CHECK_DEADLOCK FALSE
