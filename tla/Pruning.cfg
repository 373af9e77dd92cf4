SPECIFICATION Spec
CONSTANTS
  Nibble = {0, 1}
  Key <- MCKey
  Value = {"small", "large"}
  NoValue = ""
  SizeOf <- MCSizeOf
  InlineLimit = 5
  Ttl = 1
  DeathRow = 100
  MaxOps = 4
  MaxEpoch = 2
  MaxReverts = 1
INVARIANTS Readable ExactCounts Tight
CHECK_DEADLOCK FALSE
