SPECIFICATION FairSpec
CONSTANTS
  v1 = v1
  v2 = v2
  g1 = g1
  g2 = g2
  Servers <- MCServers
  NoServer = noServer
  Addrs = {a1}
  NoAddr = noAddr
  Gateways <- MCGateways
  NoGateway = noGateway
  GwOf <- MCGwOf
  RETRIES = 2
  XIDS = 2
PROPERTY LeaseObtained
