CONSTANTS
  d1 = d1
  d2 = d2
  Prover = {p1, p2}
  Content <- MCContent
  None = None
  MaxEvents = 2
  MaxFaults = 1
SYMMETRY Symmetry
SPECIFICATION Spec
INVARIANTS VerifiedCoversBundle SummaryIsRight ArtifactsAreTheAnswer
CHECK_DEADLOCK FALSE
