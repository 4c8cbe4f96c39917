SPECIFICATION Spec
CONSTANTS
  Notes <- OneNote
  Kind <- SmallKind
  Outputs <- SameFiles
INVARIANT FailureIsDifference
CHECK_DEADLOCK FALSE
