SPECIFICATION Spec
CONSTANTS
  self = self
  alice = alice
  bob = bob
  right = right
  wrong = wrong
  Names = {self, alice, bob}
  Self = self
  Ids = {1, 2, 3, 4, 5, 6, 7, 8}
  Phrases = {right, wrong}
  FirstStores <- Stored
  Procs = {p1, p2, p3}
  None = None
  MaxCalls = 2
SYMMETRY Symmetry
INVARIANTS
  TypeOK
  KeysStayReadable
  KeyKept
  ListedUnderItsName
  IdentityIsOne
CHECK_DEADLOCK FALSE
