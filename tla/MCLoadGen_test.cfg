\* Two clients, a third request each, and a server that answers or hangs up.
SPECIFICATION AnsweredSpec
CONSTANTS
  NumClients = 2
  Latencies = {1, 5}
  OrderIds = {1}
  MaxAnswers = 2
  Weight <- Mixed
  RandSize = 16
INVARIANTS
  TypeOK
  EveryRequestCounted
  OwnAnswer
  ReportComplete
  LatenciesOrdered
  PercentilesReached
  MeanWithin
  WeightsRespected
PROPERTIES
  TimerDrains
  TestEnds
