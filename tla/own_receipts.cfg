\* Two messages to two friends, whose receipts each come back in order.
CONSTANTS
  a = a
  b = b
  f = f
  g = g
  NoMsg = NoMsg
  Msgs = {a, b}
  Friends = {f, g}
  Unsteady = {}
  FriendOf <- TwoFriends
  NumParts <- TwoAndTwo
  ReloadParts <- TwoAndTwo
  FragmentsAtATime = 2
  ReceiptRangeLo = 101
  ReceiptRangeHi = 104
  ShiftGap = 2
  SpuriousRefusal = FALSE
  InOrder = TRUE
  PeriodicRuns = FALSE
  MaxExpiries = 0
  MaxRestarts = 0
SPECIFICATION Spec
INVARIANT OwnReceiptsKept
CHECK_DEADLOCK FALSE
