SPECIFICATION Spec
CONSTANTS
  Accounts <- Databases
  Users = {"root", "pi", "eve"}
  Typed <- Lines
  Stock <- StockNames
  Nul = Nul
  Spelling <- Characters
  Unescaped <- Escapes
  Garbled = Garbled
  MaxLines = 2
INVARIANTS
  TypeOK
  OnePrompt
  GroupsAsLinux
  OnePicture
PROPERTY ShellReturns
CHECK_DEADLOCK FALSE
