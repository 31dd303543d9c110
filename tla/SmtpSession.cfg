\* Every configuration of the server; two transactions in a session.
SPECIFICATION Spec
CONSTANTS
  MaxRecipients = 2
  MaxMessageSize = 2
  MaxTransactions = 2
  MaxPipelined = 1
  None = None
INVARIANTS
  TypeOK
  EnvelopeAsAcknowledged
  DeliveredOnce
  AuthOnlyOverTLS
CHECK_DEADLOCK FALSE
