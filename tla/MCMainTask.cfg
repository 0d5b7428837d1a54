CONSTANTS
  \* the menus: two settings written or chosen, two events queued
  ClientValues <- WrittenValues
  MaxChanges = 2
  MaxEvents = 2
  \* measurements: intervals on both sides of the threshold, each change twice
  Interval = {2, 6}
  Threshold = 4
  Warmup = 2
  ReadMax = 1
  CalibrateMax = 12
  Change = {"interval", "mode", "calibrate", "sleep"}
  MaxUserChanges = 2
SPECIFICATION MainTaskSpec
INVARIANTS MirrorsSettings MenuTellsTruth
PROPERTIES OthersKeepOption PasskeyGoesAway
           ReadsPowered MeasurementsGoOn EventuallyReadsWarm PmRests
