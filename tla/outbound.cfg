\* Every interleaving of two messages to two friends: the friend of the
\* shorter one comes and goes, receipts come back in any order, one of them times out, and the
\* process crashes once, anywhere.
CONSTANTS
  a = a  b = b  f = f  g = g  NoMsg = NoMsg
  Msgs = {a, b}
  Friends = {f, g}
  Unsteady = {g}
  FriendOf <- TwoFriends
  NumParts <- ThreeAndTwo
  ReloadParts <- ThreeAndTwo
  FragmentsAtATime = 2
  ReceiptRangeLo = 101
  ReceiptRangeHi = 103
  ShiftGap = 2
  SpuriousRefusal = FALSE
  InOrder = FALSE
  PeriodicRuns = TRUE
  MaxExpiries = 1
  MaxRestarts = 1
SPECIFICATION Spec
INVARIANTS
  TypeOK TransitExact WindowRespected RecordsLive ConfirmedExact Completion
  NoFault DbAgrees ListLive TableOrdered Driven
CHECK_DEADLOCK FALSE
