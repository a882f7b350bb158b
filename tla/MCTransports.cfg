CONSTANTS
  r1 = r1
  r2 = r2
  r3 = r3
  Request <- MCRequest
  Servers <- MCServers
  Null = Null
  Pieces = 2
  MaxFaults = 1
SPECIFICATION FairSpec
INVARIANTS TracedBeforeAnswered TraceLinesWhole McpAnswersInOrder
PROPERTIES RequestsEnd
CHECK_DEADLOCK FALSE
