\* What the log line of a permanent error says.
SPECIFICATION Spec
CONSTANTS
  NumRcpt = 1
  MaxErrors = 1
INVARIANTS
  DroppedIsNotDelivered
CHECK_DEADLOCK FALSE
