SPECIFICATION Spec
CONSTANTS
  Proposals <- AllOutcomes
  MaxPackets = 3
  MaxSubmitted = 1
INVARIANTS
  UnmatchedRejected
