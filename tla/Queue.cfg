SPECIFICATION Spec
CONSTANTS
  Tx <- MCTx
  GasPrice <- MCGasPrice
  StartGas <- MCStartGas
  PrioInfinity <- MCPrioInfinity
  MaxGas = {1, 2, 3}
  MinGasPrice = {0, 2}
  SeekDepth = 3
  Blocks <- MCBlocks
INVARIANTS TypeOK Accounted
PROPERTIES TakesDearest GivesUpRightly
CHECK_DEADLOCK FALSE
