SPECIFICATION Spec
CONSTANTS
  Keys = {f1, f2}
  Values = {v1, v2}
  Procs = {p1, p2}
  Scanners = {}
  Absent = Absent
  Torn = Torn
  Ok = Ok
  Error = Error
  None = None
  Crashes = FALSE
  IOFaults = FALSE
SYMMETRY Symmetry
INVARIANTS
  TypeOK
  NoTornFile
PROPERTIES
  Atomic
