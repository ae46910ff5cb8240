\* Five messages in all, three of them long, through sockets of two packets.
CONSTANTS
  c = c
  l = l
  Connector = c
  Listener = l
  Input <- Mixed
  FragmentsAtATime = 2
  SocketRoom = 2
  ConnectsInGap = FALSE
SPECIFICATION Spec
INVARIANTS
  TypeOK Exchanged NoPeerDies QuietEnd
PROPERTY
  BothEnd
CHECK_DEADLOCK FALSE
