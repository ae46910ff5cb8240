\* One message, one receipt that times out, and a friend who goes offline.
CONSTANTS
  a = a
  b = b
  f = f
  g = g
  NoMsg = NoMsg
  Msgs = {a}
  Friends = {f}
  Unsteady = {f}
  FriendOf <- JustA
  NumParts <- TwoForA
  ReloadParts <- TwoForA
  FragmentsAtATime = 2
  ReceiptRangeLo = 101
  ReceiptRangeHi = 104
  ShiftGap = 2
  SpuriousRefusal = FALSE
  InOrder = TRUE
  PeriodicRuns = TRUE
  MaxExpiries = 1
  MaxRestarts = 0
SPECIFICATION Spec
INVARIANT ReceiptAwaited
CHECK_DEADLOCK FALSE
