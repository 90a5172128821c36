\* Two connections one after the other and three requests, under fairness
\* (no symmetry).
SPECIFICATION FairSpec
CONSTANTS
  Sockets = {s1,s2}
  s1 = s1
  s2 = s2
  NoSocket = NoSocket
  BatchSize = 2
  MaxAsked = 3
INVARIANTS
  TypeOK
  ButtonsTellTruth
  SocketsAccounted
  AnswersMatch
PROPERTIES
  CommandDrains
  CommandEnds
