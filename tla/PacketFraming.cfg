SPECIFICATION Spec
CONSTANTS
  Payloads = {1, 12}
  Crafted <- Headers
  Chunks = {5, 60}
  MaxPackets = 4
  DigestSize = 8
  Strict = TRUE
INVARIANTS
  TypeOK
  ReaderInStep
  NothingWaits
  OwnFramingAccepted
PROPERTIES
  ImplementsWholePackets
