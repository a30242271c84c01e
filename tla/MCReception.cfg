SPECIFICATION FairSpec
CONSTANTS
  Frames <- MCFrames
  Exposed <- MCExposed
  Changes <- MCChanges
  Idents = {65535}
  Hosts = {"neighbour"}
  lo_addr <- MCAddr
  ETHER_FRAME_LEN_MAX = 42
  Stale = {0, 255}
INVARIANT DamageIsNoticed
INVARIANT AskedIsAnswered
INVARIANT OptionsAsWritten
PROPERTY InterruptEnds
CHECK_DEADLOCK FALSE
