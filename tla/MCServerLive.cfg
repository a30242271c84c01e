SPECIFICATION FairSpec
CONSTANTS
  SOCK_NUM = 1
  Remotes = {r1, r2}
  NoRemote = none
  TCP_RX_BUF_LEN = 2
  TCP_TX_BUF_LEN = 1
  RETRIES = 2
  MaxSegLen = 3
  RxBufStates <- MCRxBufStates
  BeyondStates = {"CLOSED", "SYN_REC"}
  HDR_LEN = 1
  DOC_LEN = 1
PROPERTY ReaderReleased
PROPERTY RequestServed
