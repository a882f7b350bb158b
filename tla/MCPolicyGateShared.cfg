CONSTANTS
  t1 = t1
  t2 = t2
  t3 = t3
  p1 = p1
  p2 = p2
  Thread = {t1, t2}
  Process = {p1, p2}
  ProcOf <- MCTwoProcesses
  Session = {s1}
  Command = {"tidy", "apply", "wipe"}
  CustomRules <- MCCustomRules
  BuiltinRules <- MCBuiltinRules
  Grant = {g1, g2}
  NoGrant = NoGrant
  NoThread = NoThread
  Nothing = Nothing
  Ttl = {1}
  MaxClock = 1
  MaxRequests = 3
  MaxFaults = 0
SPECIFICATION Spec
INVARIANTS SpentOnce
CHECK_DEADLOCK FALSE
