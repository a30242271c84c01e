SPECIFICATION Spec
CONSTANTS
  TCP_RX_BUF_LEN = 2
  TCP_TX_BUF_LEN = 1
  MAX_DATA = 1
  RETRIES = 1
  IRS = 2
  ISS = 4
  Request <- MCThree
  Reply <- MCThree
  Network = "hostile"
  LOSSES = 0
INVARIANT TypeOK
INVARIANT RequestIntact
INVARIANT AcknowledgedIsStored
INVARIANT ReplyIntact
CHECK_DEADLOCK FALSE
