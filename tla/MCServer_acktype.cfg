\* One sell order: what type has its answer?
SPECIFICATION Spec
CONSTANTS
  Conns = {c1}
  c1 = c1
  MaxConnections = 1
  Types <- Sells
  Lengths = {"some"}
  MaxRequests = 1
  Window = 1
  NoConn = NoConn
  NoMessage = NoMessage
INVARIANT AnswerTypesDeclared
