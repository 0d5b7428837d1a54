CONSTANTS
  \* the device: two sessions, two recordings of at most two points a file;
  \* BLE may fail to come up
  Session = {s1, s2}
  NoSession = NoSession
  Point = {1, 2}
  MaxPoints = 2
  NandFaults = {"write"}
  Fault = {"ble"}
  \* the GPS service: three activations, two failures of the receiver or the heap
  Depth = 2
  MaxStarts = 3
  MaxFailures = 2
  \* route transfer: two connections; the queue holds every event the bounds allow
  Sessions = {1, 2}
  Recording = 2
  Points = 3
  Batch = 2
  PerPage = 1
  IndexRange = 8
  QueueDepth = 8
  Window = 2
  MaxConnections = 2
  MaxRequests = 2
  MaxLosses = 1
  MaxReadErrors = 1
  MaxOthers = 1
  MaxModes = 2
SPECIFICATION ServicesSpec
INVARIANTS ServicesFollow RecordsWhatIsWanted RecordingsNotSplit
           OneUser GnssFollows NoFixWhenInactive GpsTimeStays
           HoldsStoredPoints CompleteUnlessLost
PROPERTIES OnlyFailuresLosePoints WakesInItsMode StopReturns RequestsHandled StreamsEnd
CHECK_DEADLOCK FALSE
