\* One message of three parts, cut alike when it is sent and when it is loaded.
\* Receipts come back in any order, one times out, the friend comes and goes,
\* and each end is killed once, anywhere.
CONSTANTS
  a = a  f = f  NoMsg = NoMsg  action = action  Normal = normal
  Msgs = {a}
  Friends = {f}
  Unsteady = {f}
  FriendOf <- JustA
  NumParts <- Three
  ReloadParts <- Three
  FragmentsAtATime = 2
  ReceiptRangeLo = 101
  ReceiptRangeHi = 103
  ShiftGap = 2
  SpuriousRefusal = FALSE
  InOrder = FALSE
  PeriodicRuns = TRUE
  MaxExpiries = 1
  MaxRestarts = 1
  MaxLength = 75
  LengthOf <- Bytes100
  TypeOf <- Action
  MaxKills = 1
SPECIFICATION DeliverySpec
INVARIANTS
  DeliveryTypeOK ConfirmedIsThere
PROPERTY KeepsPromise
CHECK_DEADLOCK FALSE
