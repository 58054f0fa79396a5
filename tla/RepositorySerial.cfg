SPECIFICATION Spec
CONSTANTS
  root = root
  leaf = leaf
  Cids = {root, leaf}
  Links <- Dag
  Procs = {p1}
  None = None
  Kinds = {"put", "get", "remove", "gc", "pinAdd", "pinRemove"}
  ProvideFails = TRUE
SYMMETRY Symmetry
INVARIANTS
  PinnedIsKept
