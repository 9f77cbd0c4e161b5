\* A short request in a buffer that held a longer one.
SPECIFICATION IntakeSpec
CONSTANTS
  a = a
  b = b
  c = c
  here = here
  Clients = {a,b}
  Host <- MCOneHost
  MaxFD = 2
  Segments = 1
  StaleBits = {}
  Interrupts = FALSE
  GivingUp = FALSE
  None = None
  TextLength <- MCTextLength
  Cuts <- MCWhole
  SIG_LENGTH = 2
  BUFSIZE = 11
  MaxBuffers = 2
  Fresh <- MCZeros
  Randoms = {n}
  Handlers = {h}
  KeyLines <- MCOneLine
  PrivateKey <- MCOneHost
CHECK_DEADLOCK FALSE
INVARIANT LegitimateAccepted
