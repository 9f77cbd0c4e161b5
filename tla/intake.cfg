\* Requests of different lengths, in pieces, in memory that is reused.
SPECIFICATION IntakeSpec
CONSTANTS
  a = a
  b = b
  c = c
  here = here
  Clients = {a,b,c}
  Host <- MCOwnHost
  MaxFD = 2
  Segments = 2
  StaleBits <- MCAnyBits
  Interrupts = TRUE
  GivingUp = FALSE
  None = None
  TextLength <- MCTextLength
  Cuts <- MCCuts
  SIG_LENGTH = 2
  BUFSIZE = 11
  MaxBuffers = 4
  Fresh <- MCFresh
  Randoms = {n}
  Handlers = {h}
  KeyLines <- MCLines
  PrivateKey <- MCOwnHost
CHECK_DEADLOCK FALSE
INVARIANT TypeOK
INVARIANT OpenIsWatched
INVARIANT ReplyReachesSender
INVARIANT AnswerWasVerified
INVARIANT TerminatedAccepted
