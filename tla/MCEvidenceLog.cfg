CONSTANTS
  t1 = t1
  t2 = t2
  t3 = t3
  p1 = p1
  p2 = p2
  Thread <- MCThread
  Process <- MCProcess
  ProcOf <- MCProcOf
  Event = {e1, e2, e3}
  NoEvent = NoEvent
  NoThread = NoThread
  CutPoints = {"torn", "whole"}
  MaxFaults = 2
  MaxReplays = 2
SPECIFICATION FairSpec
INVARIANTS ChainIntact AcknowledgedOnce ReplayIsStablePrefix OnlyFaultsFail
PROPERTIES TornIsFinal ImplementsChain AppendsReturn
CHECK_DEADLOCK FALSE
