CONSTANTS
  t1 = t1
  t2 = t2
  t3 = t3
  p1 = p1
  p2 = p2
  Thread = {t1, t2}
  Process = {p1}
  ProcOf <- MCOneProcess
  Session = {s1, s2}
  Command = {"tidy", "apply", "wipe"}
  CustomRules <- MCCustomRules
  BuiltinRules <- MCBuiltinRules
  Grant = {g1, g2}
  NoGrant = NoGrant
  NoThread = NoThread
  Nothing = Nothing
  Ttl = {0, 1}
  MaxClock = 1
  MaxRequests = 3
  MaxFaults = 1
SPECIFICATION Spec
INVARIANTS SpentOnce GatedBehindApproval HonouredAsGranted SpentIsRecorded InputRecorded
PROPERTIES ImplementsGrants
CHECK_DEADLOCK FALSE
