SPECIFICATION Spec
CONSTANTS
  Proposals <- MixedProposals
  MaxPackets = 7
  MaxSubmitted = 3
INVARIANTS
  TypeOK
  OutputInOrder
  QuietDuringExchange
  ServicesEncrypted
  KeysNeverGoBack
  SequenceRule
  ExtInfoOnce
