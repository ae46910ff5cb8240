\* One message of three parts to a friend who stays online, and a crash anywhere.
\* Nothing runs the periodic function, as in the code.
CONSTANTS
  a = a
  b = b
  f = f
  g = g
  NoMsg = NoMsg
  Msgs = {a}
  Friends = {f}
  Unsteady = {}
  FriendOf <- JustA
  NumParts <- ThreeForA
  ReloadParts <- ThreeForA
  FragmentsAtATime = 2
  ReceiptRangeLo = 101
  ReceiptRangeHi = 104
  ShiftGap = 2
  SpuriousRefusal = FALSE
  InOrder = TRUE
  PeriodicRuns = FALSE
  MaxExpiries = 0
  MaxRestarts = 1
SPECIFICATION FairSpec
PROPERTY Delivered
CHECK_DEADLOCK FALSE
