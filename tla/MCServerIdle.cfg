SPECIFICATION Spec
CONSTANTS
  SOCK_NUM = 1
  Remotes = {r1}
  NoRemote = none
  TCP_RX_BUF_LEN = 1
  TCP_TX_BUF_LEN = 2
  RETRIES = 1
  MaxSegLen = 1
  RxBufStates <- MCRxBufStates
  BeyondStates = {"CLOSED"}
  HDR_LEN = 1
  DOC_LEN = 2
INVARIANT GivenUpOnlyUnanswered
