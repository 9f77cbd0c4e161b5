\* Refuted: the descriptor of a client that gave up is used again.
SPECIFICATION Spec
CONSTANTS
  Clients = {a,b}
  Host <- MCHost
  MaxFD = 1
  Segments = 1
  StaleBits <- MCNoBits
  Interrupts = FALSE
  GivingUp = TRUE
  None = None
\* Every client connects once; the device then blocks in select.
CHECK_DEADLOCK FALSE
INVARIANT ReplyReachesSender
