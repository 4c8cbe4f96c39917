SPECIFICATION Spec
CONSTANTS
  Proposals <- AllOutcomes
  MaxPackets = 6
  MaxSubmitted = 1
PROPERTIES
  HangsUp
  ImplementsGate
