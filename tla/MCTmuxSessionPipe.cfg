CONSTANTS
  build = build
  build2 = build2
  s1 = s1
  s2 = s2
  Client = Client
  Shell = Shell
  NoFile = NoFile
  Session = {build}
  Sender = {Client}
  Waiter = {}
  Longer <- MCLonger
  Inputs <- MCInputs
  Conditions = {}
  EndsInPrompt <- MCEndsInPrompt
  History = 2
  MaxPrints = 2
  MaxCalls = 1
SPECIFICATION FairSpec
INVARIANTS LiveOutputArrives
CHECK_DEADLOCK FALSE
