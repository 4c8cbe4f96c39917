SPECIFICATION SessionSpec
CONSTANTS
  Proposals <- Compressing
  WrongGuess = FALSE
  MaxRekeys = 0
  MaxExtra = 2
  MaxPackets = 24
  MaxSubmitted = 5
INVARIANTS
  ServerDecodes
  ClientDecodes
