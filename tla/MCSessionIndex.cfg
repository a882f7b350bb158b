CONSTANTS
  s1 = s1
  s2 = s2
  s3 = s3
  Thread = {t1, t2}
  Session = {s1, s2, s3}
  Child = {c1, c2, c3}
  Opens <- MCOpens
  Forks <- MCForks
  NoChild = NoChild
  NoEntry = NoEntry
  Idle = Idle
  MaxRequests = 4
  MaxRestarts = 1
  MaxFaults = 1
SYMMETRY Symmetry
SPECIFICATION Spec
INVARIANTS ForksApart ReachableUnlessRaced OneSessionPerId IndexIsTrue
CHECK_DEADLOCK FALSE
