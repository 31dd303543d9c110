\* Two connections of each kind for one token, one slot and one handler.
SPECIFICATION FairSpec
CONSTANTS
  c1 = c1
  c2 = c2
  e1 = e1
  e2 = e2
  e3 = e3
  Conn = {c1, c2}
  Packet <- MCPacket
  TCPMaxConnections = 1
  TCPMaxHandlers = 1
  Session = {s1, s2}
  MaxIncomingConnections = 1
  None = None
INVARIANTS
  TypeOK
  TokensBalance
  ErrorNothingQueued
  AtMostOneLate
  SlotsExact
PROPERTIES
  NoSessionAfterStop
  EveryConnectionServed
  PacketSettled
CHECK_DEADLOCK FALSE
