\* One message over SMTP, whose server may hang, one for two domains over TCP;
\* one slot.
SPECIFICATION FairSpec
CONSTANTS
  c1 = c1
  e1 = e1
  e2 = e2
  SmtpId = {s1}
  Conn = {c1}
  Packet <- MCPacket
  TCPMaxConnections = 1
  TCPMaxHandlers = 1
  MaxIncomingConnections = 1
  MailCap = 1
  ErrCap = 1
  MaxOutcoming = 1
  MaxErrors = 2
  NumMX = 1
  RelayModeEnabled = TRUE
  RelayServer = RelayServer
  Hung = {s1}
  None = None
VIEW
  WithoutHistory
PROPERTIES
  ImplementsPipeline
  
CHECK_DEADLOCK FALSE
