\* One slot everywhere and more entries than the pipeline can hold.
SPECIFICATION Spec
CONSTANTS
  Id = {a, b, c, d, e, f}
  MailCap = 1
  ErrCap = 1
  MaxOutcoming = 1
  MaxErrors = 2
  NumMX = 1
  RelayModeEnabled = TRUE
  RelayServer = RelayServer
  Hung = {}
  None = None
INVARIANTS
  Conservation
  LimiterExact
  GridlockNeedsBacklog
SYMMETRY MCSymmetry
CHECK_DEADLOCK FALSE
