SPECIFICATION FairSpec
CONSTANTS
  TCP_RX_BUF_LEN = 1
  TCP_TX_BUF_LEN = 1
  MAX_DATA = 1
  RETRIES = 2
  IRS = 2
  ISS = 4
  Request <- MCTwo
  Reply <- MCOne
  Network = "calm"
  LOSSES = 1
PROPERTY RemoteKnows
CHECK_DEADLOCK FALSE
