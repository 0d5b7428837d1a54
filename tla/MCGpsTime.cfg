\* no failures: the receiver obeys and the heap suffices
CONSTANTS
  Depth = 2
  MaxStarts = 2
  MaxFailures = 0
SPECIFICATION GpsSpec
INVARIANT TimeOfThisActivation
