SPECIFICATION SessionSpec
CONSTANTS
  Proposals <- GuessingClient
  WrongGuess = TRUE
  MaxRekeys = 0
  MaxExtra = 0
  MaxPackets = 24
  MaxSubmitted = 4
PROPERTIES
  ClientNeverDropped
