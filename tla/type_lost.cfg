\* One message of three parts, an action; nothing goes wrong, and the window is
\* the default one.
CONSTANTS
  a = a  f = f  NoMsg = NoMsg  action = action  Normal = normal
  Msgs = {a}
  Friends = {f}
  Unsteady = {}
  FriendOf <- JustA
  NumParts <- Three
  ReloadParts <- Three
  FragmentsAtATime = 512
  ReceiptRangeLo = 101
  ReceiptRangeHi = 103
  ShiftGap = 2
  SpuriousRefusal = FALSE
  InOrder = TRUE
  PeriodicRuns = FALSE
  MaxExpiries = 0
  MaxRestarts = 0
  MaxLength = 75
  LengthOf <- Bytes100
  TypeOf <- Action
  MaxKills = 0
SPECIFICATION DeliverySpec
INVARIANT SameForm
CHECK_DEADLOCK FALSE
