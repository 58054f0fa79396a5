SPECIFICATION Spec
CONSTANTS
  boot = boot
  filters = filters
  mars = mars
  venus = venus
  Bootstrap = boot
  Filters = filters
  Addrs = {mars, venus}
  Defaults <- DefaultLists
  MaxCalls = 2
  Procs = {p1, p2}
  None = None
  Kinds = {"list", "add", "addDefaults", "remove", "removeAll", "replace"}
SYMMETRY Symmetry
INVARIANTS
  TypeOK
  AcknowledgedIsListed
  AcknowledgedIsStored
  RemovedFilterIsDropped
CHECK_DEADLOCK FALSE
