SPECIFICATION FairSpec
CONSTANTS
  TCP_RX_BUF_LEN = 2
  TCP_TX_BUF_LEN = 1
  MAX_DATA = 2
  RETRIES = 3
  IRS = 2
  ISS = 4
  Request <- MCThree
  Reply <- MCTwo
  Network = "calm"
  LOSSES = 2
PROPERTY RequestArrives
PROPERTY ReplyArrives
PROPERTY EndIsSeen
PROPERTY LastAckEnds
CHECK_DEADLOCK FALSE
