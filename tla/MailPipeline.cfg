\* Direct mode, three MX records, tight channels, one of two servers hangs:
\* attempts, rotation, the refinement of MailSpool and liveness.
SPECIFICATION FairSpec
CONSTANTS
  Id = {a, b}
  MailCap = 1
  ErrCap = 1
  MaxOutcoming = 2
  MaxErrors = 4
  NumMX = 3
  RelayModeEnabled = FALSE
  RelayServer = RelayServer
  Hung = {a}
  None = None
INVARIANTS
  TypeOK
  AttemptsBounded
  Rotation
PROPERTIES
  ImplementsSpool
  EveryMailResolved
CHECK_DEADLOCK FALSE
