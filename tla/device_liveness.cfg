\* Clients may give up; requests come in segments;
\* openSet may start with a bit; no signals.
SPECIFICATION FairSpec
CONSTANTS
  Clients = {a,b}
  Host <- MCHost
  MaxFD = 2
  Segments = 2
  StaleBits <- MCAnyBits
  Interrupts = FALSE
  GivingUp = TRUE
  None = None
\* Every client connects once; the device then blocks in select.
CHECK_DEADLOCK FALSE
PROPERTY OrphansNeverAdded
PROPERTY EventuallyListens
PROPERTY EverythingIsRead
PROPERTY DescriptorsAreReleased
