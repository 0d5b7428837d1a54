CONSTANTS
  \* the payload cache: a ring of four slots wraps and overflows soon
  Payload = {p1, p2}
  Blank = Blank
  MaxSize = 4
  \* route files: two sessions, two points, files of at most three points, and
  \* a volume on which any call may fail
  Session = {s1, s2}
  NoSession = NoSession
  Point = {p1, p2}
  NandFaults = {"mount", "stat", "open", "write", "unlink"}
  MaxPoints = 3
  \* registration: two operators; one failed command, one call that runs out of
  \* time, one change of what an operator offers
  Operator = {o1, o2}
  NoOperator = NoOperator
  CheckLimit = 0
  ServiceLimit = 0
  MaxCalls = 1
  MaxFaults = 1
  MaxMoves = 1
  \* HTTP: four requests, so that what the first leaves behind can reach others
  Kinds = {"get", "post"}
  MaxRequests = 4
  MaxLate = 1
  BodySizes = {0, 3}
  BufferSizes = {0, 2, 4}
  \* the sensors: requests of two iterations, three failures
  Co2Driver = {"STCC4", "SCD4x", "S12"}
  Averaged = 2
  CalibrationAttempts = 3
  MaxCommandFaults = 3
  \* input: one bounce for each press, one failed transfer to the touch chip
  Button = {"Power"}
  Debounce = 1
  LongPress = 2
  Watchdog = 1
  SuppressWindow = 1
  RawDepth = 3
  MaxBounces = 1
  MaxBusFaults = 1
SPECIFICATION ComponentsSpec
INVARIANTS CountIsWholeSession
           JudgesSelected
           ResponseIsOwn OnlyMissedPromptSpreads
           StaleOnlyAfterFailure SuccessUnlessRefused
           LongPressIsHeld
PROPERTIES ImplementsFifo ImplementsRouteLog GetsOnline ReadsResume
           OneEventPerPress TouchRecovers
CHECK_DEADLOCK FALSE
