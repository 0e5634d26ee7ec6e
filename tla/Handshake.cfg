SPECIFICATION CommandSpec
CONSTANTS
  maxSudoTries = 3
  MaxOutput = 3
  MaxLines = 3
CHECK_DEADLOCK FALSE
INVARIANTS
  CommandTypeOK
  Framed
  OneSsh
  TriesCapped
  ExitStatus
PROPERTY Returns
