\* Two sessions at once, each pipelining two orders.
SPECIFICATION Spec
CONSTANTS
  Conns = {c1,c2}
  c1 = c1
  c2 = c2
  MaxConnections = 2
  Types <- Orders
  Lengths = {"zero", "some"}
  MaxRequests = 2
  Window = 1
  NoConn = NoConn
  NoMessage = NoMessage
SYMMETRY Symmetry
INVARIANTS
  OneOperation
  FramingInSync
  ResponsesInOrder
  RequestsAccounted
  OrderIdsUnique
PROPERTIES
  BuffersStable
  DeadPeerDrains
  ShutdownDrains
  Implements
