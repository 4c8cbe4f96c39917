SPECIFICATION Spec
CONSTANTS
  Notes <- SmallNotes
  Kind <- SmallKind
  Outputs <- SmallOutputs
INVARIANTS
  TypeOK
  ResultHoldsOutput
  SuccessIsTrue
PROPERTY RunEnds
CHECK_DEADLOCK FALSE
