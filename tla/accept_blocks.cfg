\* Refuted: after a signal accept is called without a connection.
SPECIFICATION Spec
CONSTANTS
  Clients = {a,b}
  Host <- MCHost
  MaxFD = 2
  Segments = 1
  StaleBits <- MCNoBits
  Interrupts = TRUE
  GivingUp = FALSE
  None = None
\* Every client connects once; the device then blocks in select.
CHECK_DEADLOCK FALSE
INVARIANT AcceptHasConnection
