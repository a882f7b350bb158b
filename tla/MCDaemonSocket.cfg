CONSTANTS
  Daemon = {d1, d2}
  Client = {c1, c2}
  NoDaemon = NoDaemon
  WaitForStop = FALSE
  MaxFaults = 2
SPECIFICATION FairSpec
INVARIANTS ReachableUnlessOverlap NoStaleSocket EndsOnlyWhenAsked StartsAfterCrash
PROPERTIES StopEnds ClientsReturn
CHECK_DEADLOCK FALSE
