\* Two connections for one place, each pipelining two requests of every kind,
\* under fairness (no symmetry).
SPECIFICATION FairSpec
CONSTANTS
  Conns = {c1,c2}
  c1 = c1
  c2 = c2
  MaxConnections = 1
  Types <- Unregistered
  Lengths = {"zero", "some", "over"}
  MaxRequests = 2
  Window = 1
  NoConn = NoConn
  NoMessage = NoMessage
INVARIANTS
  TypeOK
  CountExact
  LimitRespected
PROPERTIES
  NoSpuriousRejection
  RequestAnswered
  BacklogResolved
  DeadPeerReleased
  ShutdownCompletes
