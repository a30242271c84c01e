SPECIFICATION Spec
CONSTANTS
  v1 = v1
  v2 = v2
  g1 = g1
  g2 = g2
  Servers <- MCServers
  NoServer = noServer
  Addrs = {a1, a2}
  NoAddr = noAddr
  Gateways <- MCGateways
  NoGateway = noGateway
  GwOf <- MCGwOf
  RETRIES = 1
  XIDS = 2
SYMMETRY AddrSymmetry
INVARIANT TypeOK
INVARIANT AddressIsGranted
INVARIANT GatewayIsCurrent
INVARIANT UnconfiguredUntilBound
