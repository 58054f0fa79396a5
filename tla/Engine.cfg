SPECIFICATION Spec
CONSTANTS
  Procs = {p1, p2}
  Pins = {f1, f2}
  NoPin = NoPin
  Faults = TRUE
  Swarm = {swarm}
  PeerManager = {peerManager}
  Primary = {}
  Multicast = {multicast}
  AutoDialer = {}
  Discovery = {}
  FailsToStart = {swarm, peerManager}
  FailsToStop = {swarm}
  Disposing = TRUE
  MaxCalls = 3
SYMMETRY Symmetry
INVARIANTS
  TypeOK
  PinsSurvive
  VersionIsTrue
  RunningIsStoppable
  OneSetOfServices
  ServicesSeeAllPins
CHECK_DEADLOCK FALSE
