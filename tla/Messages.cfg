SPECIFICATION Spec
CONSTANTS
  Address = {"S", "A", "M", "N", "C"}
  Key = {"k"}
  Sender = "S"
  Coinbase = "C"
  NewAddress <- Fresh
  Targets = {"A", "N"}
  Beneficiaries = {"A", "C"}
  Transactions <- Two
  Values = {0, 1}
  Wants = {2}
  MaxBlocks = 1
  BlockReward = 1
  MAX_DEPTH = 2
  GSTIPEND = 2
  GCALLVALUETRANSFER = 2
  GCALLNEWACCOUNT = 1
  CALL_CHILD_LIMIT_DENOM = 3
  GCONTRACTBYTE = 1
  GSTORAGEREFUND = 1
  GSUICIDEREFUND = 1
  Starts <- AllStarts
INVARIANTS ValueConserved StaticUntouched
PROPERTIES ImplementsSnapshots GasShrinks
CHECK_DEADLOCK FALSE
