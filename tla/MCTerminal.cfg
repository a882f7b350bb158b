CONSTANTS
  Waiter = {w1}
  Conditions <- MCConditions
  Prompts = {2}
  Rows = 2
  TailLines = 1
  MaxTranscript = 2
  KeepTranscript = 1
  History = 1
  MaxOutput = 3
  MaxTyped = 1
SPECIFICATION FairSpec
INVARIANTS WaitIsRecorded OutcomeIsRight AttachMissesNothing
PROPERTIES WaitReturns OutputArrives
CHECK_DEADLOCK FALSE
