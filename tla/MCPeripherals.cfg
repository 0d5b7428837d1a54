CONSTANTS
  \* the display: a stale top or bottom shows, the counter reaches both limits
  Bodies = {b1, b2}
  Headers = {h1, h2}
  max_partial_ops = 2
  UINT8_MAX = 3
  MaxFailures = 1
  \* the power path: the real minutes of the watchdog
  Timeout = 6
  MaxAway = 1
  MaxFaults = 3
  MaxPlugs = 3
SPECIFICATION PeripheralsSpec
INVARIANTS OldIconsRemembered SleepShowsLast FedUnlessHalted
PROPERTIES CatchesUp RailFollowsUnguarded
