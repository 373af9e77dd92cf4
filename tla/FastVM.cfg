SPECIFICATION FSpec
CONSTANTS
  ByteBits = 2
  WordBytes = 2
  StackLimit = 4
  GQUADRATICMEMDENOM = 4
  Calls <- Messages
  CallData <- Input
  Env <- Environment
INVARIANT FastAgrees
PROPERTY ArithmeticLaws
CHECK_DEADLOCK FALSE
