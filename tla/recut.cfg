\* One message of 120 bytes, and a crash of the sender: it is cut into three
\* parts of 42 bytes when it is sent, and of 44 when it is loaded.
CONSTANTS
  a = a  f = f  NoMsg = NoMsg  action = action  Normal = normal
  Msgs = {a}
  Friends = {f}
  Unsteady = {}
  FriendOf <- JustA
  NumParts <- Three
  ReloadParts <- Three
  FragmentsAtATime = 2
  ReceiptRangeLo = 101
  ReceiptRangeHi = 103
  ShiftGap = 2
  SpuriousRefusal = FALSE
  InOrder = TRUE
  PeriodicRuns = TRUE
  MaxExpiries = 0
  MaxRestarts = 1
  MaxLength = 75
  LengthOf <- Bytes120
  TypeOf <- Action
  MaxKills = 0
SPECIFICATION DeliverySpec
INVARIANT Original
CHECK_DEADLOCK FALSE
