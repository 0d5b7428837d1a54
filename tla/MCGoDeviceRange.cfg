\* a client may write a value that save_go_settings() refuses
CONSTANTS
  Session = {s1, s2}
  NoSession = NoSession
  Point = {1, 2}
  MaxPoints = 2
  NandFaults = {}
  Fault = {"out of range"}
SPECIFICATION Spec
INVARIANT NvsIsTheSource
