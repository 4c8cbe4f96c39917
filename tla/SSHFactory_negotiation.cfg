SPECIFICATION Spec
CONSTANTS
  Absent = Absent
  None = None
  Names <- SmallNames
  Configs <- SmallConfigs
  Clients <- SmallClients
  Moduli <- SmallModuli
  TwistedKex <- SmallKex
  MaxConnections = 2
  MaxExchanges = 3
INVARIANTS
  TypeOK
  OffersUsable
  OneFingerprint
  BothSidesAgree
PROPERTIES
  SharedMeansAccepted
CHECK_DEADLOCK FALSE
