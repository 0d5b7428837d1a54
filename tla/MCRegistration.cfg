CONSTANTS
  Operator = {o1, o2}
  NoOperator = NoOperator
  CheckLimit = 0
  ServiceLimit = 0
  MaxCalls = 1
  MaxFaults = 1
  MaxMoves = 1
SPECIFICATION RegSpec
PROPERTY TriesTheOthers
CHECK_DEADLOCK FALSE
