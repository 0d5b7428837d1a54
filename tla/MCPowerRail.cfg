CONSTANTS
  Timeout = 6
  MaxAway = 1
  MaxFaults = 1
  MaxPlugs = 2
SPECIFICATION PowerSpec
PROPERTY RailFollows
