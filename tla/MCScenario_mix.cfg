\* Queries and buy orders in equal parts.
SPECIFICATION Spec
CONSTANTS
  ClientId = 0
  Weight <- QueriesAndBuys
  RandSize = 256
PROPERTY EveryTypeChosen
