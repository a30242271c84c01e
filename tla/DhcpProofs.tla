------------------------------ MODULE DhcpProofs ------------------------------
(***************************************************************************)
(* Proofs about Dhcp for every set of servers, addresses and gateways and  *)
(* every number of retries.                                                *)
(***************************************************************************)
EXTENDS Dhcp, TLAPS

\* What the datagrams of the current transaction say: a request or a grant names
\* the server and the address the client chose, and was not sent before it chose.
Dialogue ==
  \A m \in net :
    m.xid = xid /\ m.type \in {"REQUEST", "ACK"} =>
      m.srv = server_ident /\ m.ip = req_ip /\ dhcp_state # "SELECTING"

\* The client chose what the server offered.
Chosen ==
  dhcp_state \in {"REQUESTING", "BOUND"} =>
    Msg("OFFER", xid, server_ident, req_ip) \in net

\* TypeOK and AddressIsGranted, made inductive.
Inv == TypeOK /\ Dialogue /\ Chosen /\ AddressIsGranted

-----------------------------------------------------------------------------

\* A datagram is its four fields.
LEMMA MsgFields ==
  ASSUME NEW type, NEW x, NEW v, NEW a
  PROVE  /\ Msg(type, x, v, a).type = type
         /\ Msg(type, x, v, a).xid = x
         /\ Msg(type, x, v, a).srv = v
         /\ Msg(type, x, v, a).ip = a
BY DEF Msg

LEMMA MsgIsDatagram ==
  ASSUME NEW x \in Xids
  PROVE  /\ Msg("DISCOVER", x, NoServer, NoAddr) \in Datagram
         /\ \A type \in {"REQUEST", "OFFER", "ACK", "NACK"}, v \in Servers, a \in Addrs :
              Msg(type, x, v, a) \in Datagram
BY DEF Msg, Datagram

\* Only a DHCPDISCOVER names no server and no address.
LEMMA DatagramFields ==
  ASSUME NEW m \in Datagram
  PROVE  /\ m.xid \in Xids
         /\ m = Msg(m.type, m.xid, m.srv, m.ip)
         /\ m.type # "DISCOVER" => m.srv \in Servers /\ m.ip \in Addrs
BY DEF Datagram, Msg

\* Having chosen, the client knows a server and an address.
LEMMA ChosenIsOffered ==
  ASSUME TypeOK, Chosen, dhcp_state \in {"REQUESTING", "BOUND"}
  PROVE  server_ident \in Servers /\ req_ip \in Addrs
<1> DEFINE m == Msg("OFFER", xid, server_ident, req_ip)
<1>1. m \in Datagram
  BY DEF Chosen, TypeOK
<1>2. m.type = "OFFER" /\ m.srv = server_ident /\ m.ip = req_ip
  BY MsgFields
<1> HIDE DEF m
<1> QED
  BY <1>1, <1>2, DatagramFields

LEMMA InitInv == Init => Inv
<1> SUFFICES ASSUME Init PROVE Inv
  OBVIOUS
<1>1. 0 \in 0 .. RETRIES /\ 0 \in Xids
  BY DhcpAssumption DEF Xids
<1>2. TypeOK
  BY <1>1 DEF Init, TypeOK, States
<1>3. Dialogue /\ Chosen /\ AddressIsGranted
  BY DEF Init, Dialogue, Chosen, AddressIsGranted
<1> QED
  BY <1>2, <1>3 DEF Inv

-----------------------------------------------------------------------------
(* Steps that send.                                                        *)

\* Datagrams that say nothing new about the current transaction are harmless
\* while the client's own state stays.
LEMMA SendingKeepsInv ==
  ASSUME Inv, NEW m \in Datagram, net' = net \union {m},
         UNCHANGED <<dhcp_state, xid, choice>>,
         m.xid = xid /\ m.type \in {"REQUEST", "ACK"} =>
           m.srv = server_ident /\ m.ip = req_ip /\ dhcp_state # "SELECTING",
         lo_ip_addr' = lo_ip_addr
  PROVE  net' \subseteq Datagram /\ Dialogue' /\ Chosen' /\ AddressIsGranted'
<1>1. net' \subseteq Datagram
  BY DEF Inv, TypeOK
<1>2. Dialogue'
  BY DEF Inv, Dialogue, choice
<1>3. Chosen' /\ AddressIsGranted'
  BY DEF Inv, Chosen, AddressIsGranted, choice
<1> QED
  BY <1>1, <1>2, <1>3

LEMMA StartOverInv ==
  ASSUME Inv, StartOver
  PROVE  Inv'
<1> DEFINE m == Msg("DISCOVER", NextXid, NoServer, NoAddr)
<1>1. NextXid \in Xids /\ 1 \in 0 .. RETRIES
  BY DhcpAssumption DEF Inv, TypeOK, NextXid, Xids
<1>2. m \in Datagram /\ m.type = "DISCOVER"
  BY <1>1, MsgIsDatagram, MsgFields
<1> HIDE DEF m
<1>3. net' = Forget(NextXid) \union {m} /\ xid' = NextXid
  BY DEF StartOver, m
<1>4. TypeOK'
  BY <1>1, <1>2, <1>3 DEF Inv, StartOver, Forget, choice, TypeOK, States
<1>5. Dialogue'
  BY <1>2, <1>3 DEF Dialogue, Forget
<1>6. Chosen' /\ AddressIsGranted'
  BY DEF StartOver, Chosen, AddressIsGranted
<1> QED
  BY <1>4, <1>5, <1>6 DEF Inv

\* A repeated DHCPDISCOVER or DHCPREQUEST says what was said before; giving up
\* says nothing.
LEMMA TransmitInv ==
  ASSUME Inv, Discover \/ Request
  PROVE  Inv'
<1>1. CASE retries < RETRIES
  <2>1. PICK m \in Datagram :
          /\ net' = net \union {m}
          /\ m.type \in {"REQUEST", "ACK"} =>
               m.srv = server_ident /\ m.ip = req_ip /\ dhcp_state # "SELECTING"
    <3>1. CASE Discover
      <4> DEFINE m == Msg("DISCOVER", xid, NoServer, NoAddr)
      <4>1. net' = net \union {m}
        BY <1>1, <3>1 DEF Discover, Transmit, Send
      <4>2. m \in Datagram /\ m.type = "DISCOVER"
        BY MsgIsDatagram, MsgFields DEF Inv, TypeOK
      <4> HIDE DEF m
      <4> QED
        BY <4>1, <4>2
    <3>2. CASE Request
      <4> DEFINE m == Msg("REQUEST", xid, server_ident, req_ip)
      <4>1. net' = net \union {m} /\ dhcp_state = "REQUESTING"
        BY <1>1, <3>2 DEF Request, Transmit, Send
      <4>2. m \in Datagram /\ m.srv = server_ident /\ m.ip = req_ip
        BY <4>1, ChosenIsOffered, MsgIsDatagram, MsgFields DEF Inv, TypeOK
      <4> HIDE DEF m
      <4> QED
        BY <4>1, <4>2
    <3> QED
      BY <3>1, <3>2
  <2>2. /\ UNCHANGED <<dhcp_state, xid, choice, config>>
        /\ retries' = retries + 1 /\ due' = FALSE
    BY <1>1 DEF Discover, Request, Transmit
  <2>3. retries' \in 0 .. RETRIES
    BY <1>1, <2>2, DhcpAssumption DEF Inv, TypeOK
  <2>4. net' \subseteq Datagram /\ Dialogue' /\ Chosen' /\ AddressIsGranted'
    BY <2>1, <2>2, SendingKeepsInv DEF config
  <2> QED
    BY <2>2, <2>3, <2>4 DEF Inv, TypeOK, choice, config
<1>2. CASE ~ retries < RETRIES
  <2>1. dhcp_state' = "INIT"
        /\ UNCHANGED <<xid, choice, config, retries, due, net>>
    BY <1>2 DEF Discover, Request, Transmit
  <2> QED
    BY <2>1 DEF Inv, TypeOK, Dialogue, Chosen, AddressIsGranted, choice, config,
                States
<1> QED
  BY <1>1, <1>2

\* Servers offer at will, and grant or refuse only what the client requested.
LEMMA ServerInv ==
  ASSUME Inv, NEW q \in net,
         \/ \E v \in Servers, a \in Addrs : Offer(q, v, a)
         \/ Grant(q)
         \/ Refuse(q)
  PROVE  Inv'
<1>1. q \in Datagram
  BY DEF Inv, TypeOK
<1>2. PICK m \in Datagram :
        /\ net' = net \union {m}
        /\ m.xid = xid /\ m.type \in {"REQUEST", "ACK"} =>
             m.srv = server_ident /\ m.ip = req_ip /\ dhcp_state # "SELECTING"
  <2>1. ASSUME NEW v \in Servers, NEW a \in Addrs, Offer(q, v, a)
        PROVE  \E m \in Datagram : net' = net \union {m} /\ m.type = "OFFER"
    BY <1>1, <2>1, DatagramFields, MsgIsDatagram, MsgFields DEF Offer
  <2>2. CASE Refuse(q)
    <3>1. \E m \in Datagram : net' = net \union {m} /\ m.type = "NACK"
      BY <1>1, <2>2, DatagramFields, MsgIsDatagram, MsgFields DEF Refuse
    <3> QED
      BY <3>1
  <2>3. CASE Grant(q)
    <3> DEFINE m == Msg("ACK", q.xid, q.srv, q.ip)
    <3>1. net' = net \union {m} /\ q.type = "REQUEST"
      BY <2>3 DEF Grant
    <3>2. /\ m \in Datagram
          /\ m.xid = q.xid /\ m.srv = q.srv /\ m.ip = q.ip
      BY <1>1, <3>1, DatagramFields, MsgIsDatagram, MsgFields
    <3> HIDE DEF m
    <3>3. q.xid = xid =>
            q.srv = server_ident /\ q.ip = req_ip /\ dhcp_state # "SELECTING"
      BY <3>1 DEF Inv, Dialogue
    <3> QED
      BY <3>1, <3>2, <3>3
  <2> QED
    BY <2>1, <2>2, <2>3
<1>3. UNCHANGED <<dhcp_state, xid, choice, timer, config>>
  BY DEF Offer, Grant, Refuse
<1>4. net' \subseteq Datagram /\ Dialogue' /\ Chosen' /\ AddressIsGranted'
  BY <1>2, <1>3, SendingKeepsInv DEF config
<1> QED
  BY <1>3, <1>4 DEF Inv, TypeOK, choice, timer, config

-----------------------------------------------------------------------------
(* Steps that receive.                                                     *)

\* Before an offer is taken nothing was requested or granted under its number.
LEMMA RecvOfferInv ==
  ASSUME Inv, NEW m \in net, RecvOffer(m)
  PROVE  Inv'
<1>1. m \in Datagram /\ m.type = "OFFER" /\ m.xid = xid
  BY DEF Inv, TypeOK, RecvOffer
<1>2. m = Msg("OFFER", xid, m.srv, m.ip) /\ m.srv \in Servers /\ m.ip \in Addrs
  BY <1>1, DatagramFields
<1>3. TypeOK'
  <2>1. 0 \in 0 .. RETRIES
    BY DhcpAssumption
  <2> QED
    BY <1>2, <2>1 DEF Inv, TypeOK, RecvOffer, config, States
<1>4. Dialogue'
  BY DEF Inv, Dialogue, RecvOffer
<1>5. Chosen'
  BY <1>2 DEF Chosen, RecvOffer
<1>6. AddressIsGranted'
  BY DEF AddressIsGranted, RecvOffer
<1> QED
  BY <1>3, <1>4, <1>5, <1>6 DEF Inv

LEMMA RecvAckInv ==
  ASSUME Inv, NEW m \in net, RecvAck(m)
  PROVE  Inv'
<1>1. m \in Datagram /\ m.type = "ACK" /\ m.xid = xid
  BY DEF Inv, TypeOK, RecvAck
<1>2. m = Msg("ACK", xid, m.srv, m.ip) /\ m.srv \in Servers /\ m.ip \in Addrs
  BY <1>1, DatagramFields
<1>3. m.srv = server_ident /\ m.ip = req_ip
  BY <1>1 DEF Inv, Dialogue
<1>4. TypeOK'
  <2>1. GwOf[m.srv] \in Gateways
    BY <1>2, DhcpAssumption
  <2> QED
    BY <1>2, <2>1 DEF Inv, TypeOK, RecvAck, choice, States
<1>5. Dialogue' /\ Chosen'
  BY DEF Inv, Dialogue, Chosen, RecvAck, choice
<1>6. AddressIsGranted'
  BY <1>2, <1>3 DEF Inv, Chosen, AddressIsGranted, RecvAck, choice
<1> QED
  BY <1>4, <1>5, <1>6 DEF Inv

LEMMA NextInv == Inv /\ [Next]_vars => Inv'
<1> SUFFICES ASSUME Inv, [Next]_vars PROVE Inv'
  OBVIOUS
<1> USE DEF choice, timer, config
<1>1. CASE dhcp_set_state
  <2>1. CASE AskGateway
    BY <2>1 DEF Inv, TypeOK, Dialogue, Chosen, AddressIsGranted, AskGateway
  <2> QED
    BY <1>1, <2>1, StartOverInv, TransmitInv DEF dhcp_set_state
<1>2. CASE Elapse
  BY <1>2 DEF Inv, TypeOK, Dialogue, Chosen, AddressIsGranted, Elapse
<1>3. CASE dhcp_recv
  <2>1. ASSUME NEW m \in net, RecvNack(m)
        PROVE  Inv'
    BY <2>1 DEF Inv, TypeOK, Dialogue, Chosen, AddressIsGranted, RecvNack, States
  <2> QED
    BY <1>3, <2>1, RecvOfferInv, RecvAckInv DEF dhcp_recv
<1>4. ASSUME NEW g \in Gateways, arp_recv(g)
      PROVE  Inv'
  BY <1>4 DEF Inv, TypeOK, Dialogue, Chosen, AddressIsGranted, arp_recv
<1>5. CASE \E q \in net :
             \/ \E v \in Servers, a \in Addrs : Offer(q, v, a)
             \/ Grant(q)
             \/ Refuse(q)
  BY <1>5, ServerInv
<1>6. CASE UNCHANGED vars
  BY <1>6 DEF Inv, TypeOK, Dialogue, Chosen, AddressIsGranted, vars
<1> QED
  BY <1>1, <1>2, <1>3, <1>4, <1>5, <1>6 DEF Next

LEMMA Invariance == Spec => []Inv
<1> QED
  BY InitInv, NextInv, PTL DEF Spec

\* Every variable keeps its type; in particular no retry count passes RETRIES.
THEOREM DhcpTypeCorrect == Spec => []TypeOK
<1>1. Inv => TypeOK
  BY DEF Inv
<1> QED
  BY <1>1, Invariance, PTL

\* However datagrams are lost, delayed, repeated or reordered, the address in use
\* is one the chosen server offered and granted in the current transaction.
THEOREM UsesGrantedAddress == Spec => []AddressIsGranted
<1>1. Inv => AddressIsGranted
  BY DEF Inv
<1> QED
  BY <1>1, Invariance, PTL

-----------------------------------------------------------------------------
(* The configuration.                                                      *)

\* GatewayIsCurrent, made inductive: a lease has a mask, so NextHop is the gateway.
Configured ==
  /\ dhcp_state = "BOUND" => sn_mask
  /\ dhcp_state = "BOUND" /\ gw_set => gw_hw_addr = gw_ip_addr
  /\ UnconfiguredUntilBound

LEMMA NextConfig == Configured /\ [Next]_vars => Configured'
<1> SUFFICES ASSUME Configured, [Next]_vars PROVE Configured'
  OBVIOUS
<1> USE DEF Configured, UnconfiguredUntilBound, choice, timer, config
<1>1. CASE StartOver
  BY <1>1 DEF StartOver
<1>2. CASE Discover \/ Request
  BY <1>2 DEF Discover, Request, Transmit
<1>3. CASE AskGateway \/ Elapse
  BY <1>3 DEF AskGateway, Elapse
<1>4. ASSUME NEW m \in net, RecvOffer(m) \/ RecvAck(m) \/ RecvNack(m)
      PROVE  Configured'
  BY <1>4 DEF RecvOffer, RecvAck, RecvNack
<1>5. ASSUME NEW g \in Gateways, arp_recv(g)
      PROVE  Configured'
  BY <1>5 DEF arp_recv
<1>6. ASSUME NEW q \in net,
             \/ \E v \in Servers, a \in Addrs : Offer(q, v, a)
             \/ Grant(q)
             \/ Refuse(q)
      PROVE  Configured'
  BY <1>6 DEF Offer, Grant, Refuse
<1>7. CASE UNCHANGED vars
  BY <1>7 DEF vars
<1> QED
  BY <1>1, <1>2, <1>3, <1>4, <1>5, <1>6, <1>7 DEF Next, dhcp_set_state, dhcp_recv

LEMMA ConfiguredHolds == Spec => []Configured
<1>1. Init => Configured
  BY DEF Init, Configured, UnconfiguredUntilBound
<1> QED
  BY <1>1, NextConfig, PTL DEF Spec

\* Once the gateway is marked as known, NextHop leads to the gateway of the lease.
THEOREM KnownGatewayIsCurrent == Spec => []GatewayIsCurrent
<1>1. Configured => GatewayIsCurrent
  BY DEF Configured, GatewayIsCurrent, NextHop
<1> QED
  BY <1>1, ConfiguredHolds, PTL

\* A client without a lease has neither address nor mask.
THEOREM AsksUnconfigured == Spec => []UnconfiguredUntilBound
<1>1. Configured => UnconfiguredUntilBound
  BY DEF Configured
<1> QED
  BY <1>1, ConfiguredHolds, PTL

=============================================================================
