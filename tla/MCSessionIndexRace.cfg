CONSTANTS
  s1 = s1
  s2 = s2
  s3 = s3
  Thread = {t1, t2}
  Session = {s1, s2}
  Child = {c1, c2}
  Opens <- MCTmuxOpens
  Forks = {}
  NoChild = NoChild
  NoEntry = NoEntry
  Idle = Idle
  MaxRequests = 2
  MaxRestarts = 1
  MaxFaults = 0
SPECIFICATION Spec
INVARIANTS OpenedIsReachable
CHECK_DEADLOCK FALSE
