CONSTANTS
  Co2Driver = {"STCC4", "SCD4x", "S12"}
  Averaged = 2
  CalibrationAttempts = 3
  MaxCommandFaults = 3
SPECIFICATION ReadingSpec
INVARIANT SuccessMeansCalibrated
