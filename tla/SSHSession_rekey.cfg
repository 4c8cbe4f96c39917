SPECIFICATION SessionSpec
CONSTANTS
  Proposals <- Clients
  WrongGuess = FALSE
  MaxRekeys = 2
  MaxExtra = 2
  MaxPackets = 24
  MaxSubmitted = 7
INVARIANTS
  SessionTypeOK
  ServerDecodes
  ClientDecodes
  NoncesUnique
  ExtInfoFollowsNewKeys
PROPERTIES
  ClientNeverDropped
  ExchangeCompletes
  HeldBackIsSent
