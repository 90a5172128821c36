SPECIFICATION Spec
CONSTANTS
  Sockets = {s1,s2}
  s1 = s1
  s2 = s2
  NoSocket = NoSocket
  BatchSize = 2
  MaxAsked = 4
INVARIANT ClosedOnce
