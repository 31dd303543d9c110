\* The claim that queued messages are waited for.
SPECIFICATION Spec
CONSTANTS
  c1 = c1
  e1 = e1
  e2 = e2
  SmtpId = {s1}
  Conn = {c1}
  Packet <- MCPacket
  TCPMaxConnections = 1
  TCPMaxHandlers = 1
  MaxIncomingConnections = 1
  MailCap = 1
  ErrCap = 1
  MaxOutcoming = 1
  MaxErrors = 2
  NumMX = 1
  RelayModeEnabled = TRUE
  RelayServer = RelayServer
  Hung = {}
  None = None
INVARIANTS
  OutgoingDrained
CHECK_DEADLOCK FALSE
