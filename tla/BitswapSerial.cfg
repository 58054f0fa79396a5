SPECIFICATION Spec
CONSTANTS
  Cids = {c1, c2}
  Tasks = {t1, t2, t3}
  Workers = {w1}
  Tokens = {k1, k2}
  None = None
  Concurrent = FALSE
SYMMETRY Symmetry
INVARIANTS
  TypeOK
  NoConsumerLost
  NeverThrows
  FirstWantAnnounced
