SPECIFICATION FairSpec
CONSTANTS
  Limits = {0, 1, 3}
  Values <- MCValues
INVARIANTS
  TypeOK
  AttemptsAndDelaysAreBounded
  ReturnsFirstDefiniteReply
PROPERTY
  CallReturns
\* CallReturns subsumes the absence of deadlock, and a call ends when it returns.
CHECK_DEADLOCK FALSE
