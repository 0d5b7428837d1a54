SPECIFICATION ScheduleSpec
CONSTANTS
  Interval = {2, 6}
  Threshold = 4
  Warmup = 2
  ReadMax = 1
  CalibrateMax = 12
  Change = {"calibrate"}
  MaxUserChanges = 2
PROPERTY CalibrationAnswered
