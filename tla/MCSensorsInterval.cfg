SPECIFICATION ScheduleSpec
CONSTANTS
  Interval = {6, 7}
  Threshold = 4
  Warmup = 2
  ReadMax = 1
  CalibrateMax = 12
  Change = {"interval"}
  MaxUserChanges = 2
INVARIANT PreparedMeansPowered
