SPECIFICATION Spec
CONSTANTS
  SOCK_NUM = 2
  Remotes = {r1, r2}
  NoRemote = none
  TCP_RX_BUF_LEN = 1
  TCP_TX_BUF_LEN = 1
  RETRIES = 1
  MaxSegLen = 2
  RxBufStates <- MCRxBufStates
  BeyondStates = {"CLOSED"}
  HDR_LEN = 1
  DOC_LEN = 1
SYMMETRY ClientSymmetry
INVARIANT TypeOK
INVARIANT NoLostWakeup
INVARIANT RequestKeepsConnection
INVARIANT ListenNeverResets
