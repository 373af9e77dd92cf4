SPECIFICATION Spec
CONSTANTS
  Nibble = {0, 1}
  Key <- MCKey
  Value = {"small", "large"}
  NoValue = ""
  SizeOf <- MCSizeOf
  InlineLimit = 7
  MaxOps = 5
INVARIANTS LiveNodesKept Canonical Neighbours
PROPERTIES ImplementsDictionary
CHECK_DEADLOCK FALSE
