SPECIFICATION SessionSpec
CONSTANTS
  Proposals <- Compressing
  WrongGuess = FALSE
  MaxRekeys = 1
  MaxExtra = 1
  MaxPackets = 24
  MaxSubmitted = 4
INVARIANTS
  ServerDecodes
