\* Three messages, three processes in a row, every order of calls.
CONSTANTS
  a = a  b = b  c = c
  Msgs = {a, b, c}
  Ranges <- Two
  DefaultRange <- High
  MaxClock = 5
  MaxRestarts = 2
SPECIFICATION Spec
INVARIANTS
  TypeOK LoadedOnce IdsDistinct ReceiptsInRange NoStatementLeft
CHECK_DEADLOCK FALSE
