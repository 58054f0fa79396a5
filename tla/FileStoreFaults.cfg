SPECIFICATION FairSpec
CONSTANTS
  Keys = {f1}
  Values = {v1}
  Procs = {p1, p2}
  Scanners = {s1}
  Absent = Absent
  Torn = Torn
  Ok = Ok
  Error = Error
  None = None
  Crashes = TRUE
  IOFaults = TRUE
INVARIANTS
  MutualExclusion
PROPERTIES
  LockReleased
