\* One client and a server that owes nothing: does the timer end the test?
SPECIFICATION FairSpec
CONSTANTS
  NumClients = 1
  Latencies = {1}
  OrderIds = {1}
  MaxAnswers = 1
  Weight <- Orders
  RandSize = 16
PROPERTY TimerEndsTest
