SPECIFICATION Spec
CONSTANTS
  root = root
  leaf = leaf
  Cids = {root, leaf}
  Links <- Dag
  Procs = {p1, p2}
  None = None
  Kinds = {"put", "receive", "remove", "gc", "pinAdd"}
  ProvideFails = FALSE
SYMMETRY Symmetry
INVARIANTS
  GcSparesPinned
  EarlyWaiterContinued
PROPERTIES
  GcCollectsGarbage
