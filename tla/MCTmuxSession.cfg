CONSTANTS
  build = build
  build2 = build2
  s1 = s1
  s2 = s2
  Client = Client
  Shell = Shell
  NoFile = NoFile
  Session = {build, build2}
  Sender = {s1, s2, Client}
  Waiter = {w1}
  Longer <- MCLonger
  Inputs <- MCInputs
  Conditions = {"output", "prompt", "exit", "idle", "invalid"}
  EndsInPrompt <- MCEndsInPrompt
  History = 2
  MaxPrints = 1
  MaxCalls = 2
SPECIFICATION FairSpec
INVARIANTS RecordedWasTyped NamesApart AttachMissesOnlyUnpiped WaitAnswered
PROPERTIES CallsReturn
CHECK_DEADLOCK FALSE
