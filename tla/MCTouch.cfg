CONSTANTS
  Button = {"Power"}
  Debounce = 1
  LongPress = 2
  Watchdog = 1
  SuppressWindow = 1
  RawDepth = 3
  MaxBounces = 0
  MaxBusFaults = 0
SPECIFICATION InputSpec
PROPERTY TouchOnce
