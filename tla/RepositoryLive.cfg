SPECIFICATION FairSpec
CONSTANTS
  root = root
  leaf = leaf
  Cids = {root, leaf}
  Links <- Dag
  Procs = {p1, p2}
  None = None
  Kinds = {"gc", "pinAdd", "receive"}
  ProvideFails = FALSE
PROPERTIES
  OperationsEnd
