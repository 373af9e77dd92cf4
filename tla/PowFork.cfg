SPECIFICATION FairSpec
CONSTANTS
  Genesis <- MCGenesis
  NoBlock = NoBlock
  Block <- ForkBlock
  Parent <- ForkParent
  Number <- MCNumber
  Anc <- ForkAnc
  Timestamp <- ForkTimestamp
  Difficulty <- Unit
  Tx = {"s", "t"}
  Txs <- ForkTxs
  MaxHeight = 4
  Node <- ForkNode
  Nodes <- ForkNodes
  Root <- MCRoot
  Reads <- MCReads
  Verdict <- AllOk
  MaxHistory = 2
  RandomUnit = 11
  MaxTime = 1
  MaxCopies = 2
INVARIANTS TypeOK StoredTree CanonicalIndex TxIndexSound RetainedStates PruneSafe RaisedOnlyWhenDeep
PROPERTIES EventuallyStored

CHECK_DEADLOCK FALSE
