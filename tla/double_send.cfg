\* One message of four parts; the base refuses parts now and then although the
\* friend is online.
CONSTANTS
  a = a
  b = b
  f = f
  g = g
  NoMsg = NoMsg
  Msgs = {a}
  Friends = {f}
  Unsteady = {}
  FriendOf <- JustA
  NumParts <- FourForA
  ReloadParts <- FourForA
  FragmentsAtATime = 2
  ReceiptRangeLo = 101
  ReceiptRangeHi = 104
  ShiftGap = 2
  SpuriousRefusal = TRUE
  InOrder = TRUE
  PeriodicRuns = FALSE
  MaxExpiries = 0
  MaxRestarts = 0
SPECIFICATION Spec
INVARIANT Completion
CHECK_DEADLOCK FALSE
