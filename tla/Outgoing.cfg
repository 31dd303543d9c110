\* An entry with two recipients and two attempts, and a neighbour of two.
SPECIFICATION MCSpec
CONSTANTS
  NumRcpt = 2
  MaxErrors = 2
  Messages <- MCMessages
  MaxNeighbour = 1
  NoWire = NoWire
INVARIANTS
  SentIsTakenOver
  TLSIfOffered
  CopiesBounded
  SignatureVerifies
  TextKept
CHECK_DEADLOCK FALSE
