CONSTANTS
  Daemon = {d1, d2}
  Client = {c1}
  NoDaemon = NoDaemon
  WaitForStop = TRUE
  MaxFaults = 0
SPECIFICATION Spec
INVARIANTS ServingIsReachable
CHECK_DEADLOCK FALSE
