\* One request: is it counted?
SPECIFICATION Spec
CONSTANTS
  Conns = {c1}
  c1 = c1
  MaxConnections = 1
  Types <- Orders
  Lengths = {"some"}
  MaxRequests = 1
  Window = 1
  NoConn = NoConn
  NoMessage = NoMessage
INVARIANT RequestsCounted
