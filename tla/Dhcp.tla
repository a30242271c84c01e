--------------------------------- MODULE Dhcp ---------------------------------
(***************************************************************************)
(* The DHCP client of dhcp.c, the gateway lookup of arp.c and the next hop *)
(* ip.c chooses, with DHCP servers and a network that loses, delays,       *)
(* reorders and duplicates.                                                *)
(*                                                                         *)
(* Every handler runs in the timer interrupt, so each is one step.  net    *)
(* holds every datagram sent; receiving leaves it there, so it may arrive  *)
(* again, late, or never.  timeout is abstracted to due, the value of      *)
(* secs >= timeout.  xid = ~ticks is new in every transaction; it counts   *)
(* modulo XIDS, and no datagram outlives the transactions between two uses *)
(* of its number (2^32 ticks).  A hardware address is named by its owner.  *)
(* dhcp_recv drops what is not a reply to xid; Reception has the parser of *)
(* the options.                                                            *)
(***************************************************************************)
EXTENDS Naturals

CONSTANTS
  Servers,    \* DHCP servers
  NoServer,   \* the zeroed server_ident
  Addrs,      \* addresses the servers lease
  NoAddr,     \* address 0
  Gateways,   \* gateways, named by address and hardware address alike
  NoGateway,  \* address 0 of gw_ip_addr, zeroed gw_hw_addr
  GwOf,       \* the gateway each server announces
  RETRIES,    \* transmissions before starting over: the literal 4 of dhcp.c
  XIDS        \* bound: transaction numbers before one is used again

ASSUME DhcpAssumption ==
  /\ NoServer \notin Servers
  /\ NoAddr \notin Addrs
  /\ NoGateway \notin Gateways
  /\ GwOf \in [Servers -> Gateways]
  /\ RETRIES \in Nat \ {0}
  /\ XIDS \in Nat /\ XIDS > 1

VARIABLES
  dhcp_state,    \* where the client is
  xid,           \* number of the current transaction
  req_ip,        \* the address it requests
  server_ident,  \* the server it chose
  retries,       \* transmissions of the current message
  due,           \* secs >= timeout
  lo_ip_addr,    \* the address in use
  gw_ip_addr,    \* address of the gateway
  gw_hw_addr,    \* hardware address of the gateway
  gw_set,        \* what sock_check_gw() returns
  sn_mask,       \* TRUE if the subnet mask is not 0
  net            \* datagrams sent by client and servers

choice == <<req_ip, server_ident>>

timer == <<retries, due>>

config == <<lo_ip_addr, gw_ip_addr, gw_hw_addr, gw_set, sn_mask>>

vars == <<dhcp_state, xid, req_ip, server_ident, retries, due, lo_ip_addr,
          gw_ip_addr, gw_hw_addr, gw_set, sn_mask, net>>

States == {"INIT", "SELECTING", "REQUESTING", "BOUND"}

Xids == 0 .. XIDS - 1

Datagram ==
  [type : {"DISCOVER"}, xid : Xids, srv : {NoServer}, ip : {NoAddr}]
    \union [type : {"REQUEST", "OFFER", "ACK", "NACK"}, xid : Xids,
            srv : Servers, ip : Addrs]

Msg(type, x, srv, ip) == [type |-> type, xid |-> x, srv |-> srv, ip |-> ip]

Init ==
  /\ dhcp_state = "INIT"
  /\ xid = 0
  /\ req_ip = NoAddr
  /\ server_ident = NoServer
  /\ retries = 0
  /\ due = TRUE
  /\ lo_ip_addr = NoAddr
  /\ gw_ip_addr = NoGateway
  /\ gw_hw_addr = NoGateway
  /\ gw_set = FALSE
  /\ sn_mask = FALSE
  /\ net = {}

-----------------------------------------------------------------------------
(* dhcp_set_state                                                          *)

Send(type) ==
  net' = net \union
    {IF type = "REQUEST" THEN Msg(type, xid, server_ident, req_ip)
                         ELSE Msg(type, xid, NoServer, NoAddr)}

\* No datagram of the last transaction of that number is still on its way.
NextXid == IF xid < XIDS - 1 THEN xid + 1 ELSE 0

Forget(x) == {m \in net : m.xid # x}

\* Variant: the configuration of the last lease is kept.
StartOverConfigured ==
  /\ dhcp_state = "INIT"
  /\ dhcp_state' = "SELECTING"
  /\ xid' = NextXid
  /\ net' = Forget(NextXid) \union {Msg("DISCOVER", NextXid, NoServer, NoAddr)}
  /\ retries' = 1
  /\ due' = FALSE
  /\ UNCHANGED <<choice, config>>

\* A new transaction; the switch falls through to the first DHCPDISCOVER.
StartOver ==
  /\ dhcp_state = "INIT"
  /\ dhcp_state' = "SELECTING"
  /\ xid' = NextXid
  /\ net' = Forget(NextXid) \union {Msg("DISCOVER", NextXid, NoServer, NoAddr)}
  /\ retries' = 1
  /\ due' = FALSE
  /\ lo_ip_addr' = NoAddr
  /\ gw_ip_addr' = NoGateway
  /\ gw_hw_addr' = NoGateway
  /\ sn_mask' = FALSE
  /\ UNCHANGED <<choice, gw_set>>

\* Variant: one transmission too many.
TransmitOnceMore(state, type) ==
  /\ dhcp_state = state
  /\ due
  /\ IF retries <= RETRIES
     THEN /\ Send(type)
          /\ retries' = retries + 1
          /\ due' = FALSE
          /\ UNCHANGED dhcp_state
     ELSE /\ dhcp_state' = "INIT"
          /\ UNCHANGED <<retries, due, net>>
  /\ UNCHANGED <<xid, choice, config>>

\* A timed state sends its message again, or gives up the transaction.
Transmit(state, type) ==
  /\ dhcp_state = state
  /\ due
  /\ IF retries < RETRIES
     THEN /\ Send(type)
          /\ retries' = retries + 1
          /\ due' = FALSE
          /\ UNCHANGED dhcp_state
     ELSE /\ dhcp_state' = "INIT"
          /\ UNCHANGED <<retries, due, net>>
  /\ UNCHANGED <<xid, choice, config>>

Discover == Transmit("SELECTING", "DISCOVER")

Request == Transmit("REQUESTING", "REQUEST")

\* While bound it asks for the gateway's hardware address until it is known.
AskGateway ==
  /\ dhcp_state = "BOUND"
  /\ ~ gw_set
  /\ due
  /\ due' = FALSE
  /\ UNCHANGED <<dhcp_state, xid, choice, retries, config, net>>

dhcp_set_state == StartOver \/ Discover \/ Request \/ AskGateway

Elapse ==
  /\ ~ due
  /\ due' = TRUE
  /\ UNCHANGED <<dhcp_state, xid, choice, retries, config, net>>

-----------------------------------------------------------------------------
(* dhcp_recv                                                               *)

\* Variant: a further offer is taken while requesting.
RecvOfferAgain(m) ==
  /\ m.type = "OFFER"
  /\ m.xid = xid
  /\ dhcp_state \in {"SELECTING", "REQUESTING"}
  /\ dhcp_state' = "REQUESTING"
  /\ due' = TRUE
  /\ retries' = 0
  /\ req_ip' = m.ip
  /\ server_ident' = m.srv
  /\ UNCHANGED <<xid, config, net>>

\* Variant: the count of transmissions is not reset.
RecvOfferRetried(m) ==
  /\ m.type = "OFFER"
  /\ m.xid = xid
  /\ dhcp_state = "SELECTING"
  /\ dhcp_state' = "REQUESTING"
  /\ due' = TRUE
  /\ req_ip' = m.ip
  /\ server_ident' = m.srv
  /\ UNCHANGED <<xid, retries, config, net>>

RecvOffer(m) ==
  /\ m.type = "OFFER"
  /\ m.xid = xid
  /\ dhcp_state = "SELECTING"
  /\ dhcp_state' = "REQUESTING"
  /\ due' = TRUE
  /\ retries' = 0
  /\ req_ip' = m.ip
  /\ server_ident' = m.srv
  /\ UNCHANGED <<xid, config, net>>

\* Variant: the mark of an earlier gateway is kept.
RecvAckGateway(m) ==
  /\ m.type = "ACK"
  /\ m.xid = xid
  /\ dhcp_state = "REQUESTING"
  /\ m.srv = server_ident
  /\ dhcp_state' = "BOUND"
  /\ lo_ip_addr' = m.ip
  /\ gw_ip_addr' = GwOf[m.srv]
  /\ sn_mask' = TRUE
  /\ due' = TRUE
  /\ UNCHANGED <<xid, choice, retries, gw_set, gw_hw_addr, net>>

RecvAck(m) ==
  /\ m.type = "ACK"
  /\ m.xid = xid
  /\ dhcp_state = "REQUESTING"
  /\ m.srv = server_ident
  /\ dhcp_state' = "BOUND"
  /\ lo_ip_addr' = m.ip
  /\ gw_ip_addr' = GwOf[m.srv]
  /\ sn_mask' = TRUE
  /\ due' = TRUE
  /\ gw_set' = FALSE
  /\ UNCHANGED <<xid, choice, retries, gw_hw_addr, net>>

RecvNack(m) ==
  /\ m.type = "NACK"
  /\ m.xid = xid
  /\ dhcp_state \in {"REQUESTING", "BOUND"}
  /\ m.srv = server_ident
  /\ dhcp_state' = "INIT"
  /\ UNCHANGED <<xid, choice, timer, config, net>>

dhcp_recv == \E m \in net : RecvOffer(m) \/ RecvAck(m) \/ RecvNack(m)

-----------------------------------------------------------------------------
(* arp_recv: a reply of gateway g to our address.                          *)

arp_recv(g) ==
  /\ dhcp_state = "BOUND"
  /\ g = gw_ip_addr
  /\ gw_hw_addr' = g
  /\ gw_set' = TRUE
  /\ UNCHANGED <<dhcp_state, xid, choice, timer, lo_ip_addr, gw_ip_addr,
                 sn_mask, net>>

\* The hardware address ip_send uses for a host outside the subnet whose frames
\* come from hw.
NextHop(hw) == IF sn_mask THEN gw_hw_addr ELSE hw

-----------------------------------------------------------------------------
(* The servers.  Each may offer any address, and grants or refuses what it *)
(* is asked for.                                                           *)

Offer(m, v, a) ==
  /\ m.type = "DISCOVER"
  /\ net' = net \union {Msg("OFFER", m.xid, v, a)}
  /\ UNCHANGED <<dhcp_state, xid, choice, timer, config>>

Grant(m) ==
  /\ m.type = "REQUEST"
  /\ net' = net \union {Msg("ACK", m.xid, m.srv, m.ip)}
  /\ UNCHANGED <<dhcp_state, xid, choice, timer, config>>

Refuse(m) ==
  /\ m.type = "REQUEST"
  /\ net' = net \union {Msg("NACK", m.xid, m.srv, m.ip)}
  /\ UNCHANGED <<dhcp_state, xid, choice, timer, config>>

Next ==
  \/ dhcp_set_state
  \/ Elapse
  \/ dhcp_recv
  \/ \E g \in Gateways : arp_recv(g)
  \/ \E m \in net :
       \/ \E v \in Servers, a \in Addrs : Offer(m, v, a)
       \/ Grant(m)
       \/ Refuse(m)

Spec == Init /\ [][Next]_vars

\* An answer to the transaction the client is in, sent before it gives up.
OfferInTime ==
  /\ dhcp_state = "SELECTING"
  /\ \E m \in net, v \in Servers, a \in Addrs : m.xid = xid /\ Offer(m, v, a)

GrantInTime ==
  /\ dhcp_state = "REQUESTING"
  /\ \E m \in net : m.xid = xid /\ Grant(m)

\* The interrupt comes and the clock counts.  If the client asks again and again,
\* some of its transactions are answered in time, and some answers arrive.
Fairness ==
  /\ WF_vars(dhcp_set_state)
  /\ WF_vars(Elapse)
  /\ SF_vars(OfferInTime)
  /\ SF_vars(GrantInTime)
  /\ SF_vars(\E m \in net : RecvOffer(m))
  /\ SF_vars(\E m \in net : RecvAck(m))

FairSpec == Spec /\ Fairness

-----------------------------------------------------------------------------

TypeOK ==
  /\ dhcp_state \in States
  /\ xid \in Xids
  /\ req_ip \in Addrs \union {NoAddr}
  /\ server_ident \in Servers \union {NoServer}
  /\ retries \in 0 .. RETRIES
  /\ due \in BOOLEAN
  /\ lo_ip_addr \in Addrs \union {NoAddr}
  /\ gw_ip_addr \in Gateways \union {NoGateway}
  /\ gw_hw_addr \in Gateways \union {NoGateway}
  /\ gw_set \in BOOLEAN
  /\ sn_mask \in BOOLEAN
  /\ net \subseteq Datagram

\* The address in use is the one requested, and the chosen server both offered
\* and granted it in this transaction: no late, repeated or foreign reply can
\* put another there, though dhcp_recv never compares yiaddr with req_ip
\* (dhcp.c 204-234).
AddressIsGranted ==
  dhcp_state = "BOUND" =>
    /\ lo_ip_addr = req_ip
    /\ Msg("OFFER", xid, server_ident, lo_ip_addr) \in net
    /\ Msg("ACK", xid, server_ident, lo_ip_addr) \in net

\* Once the gateway is marked as known, what goes to another subnet goes to the
\* gateway of the present lease, also after a lease was lost with the mark set and
\* whatever reply comes late (dhcp.c 44-49, 231; arp.c 84-90; ip.c 54-60).
GatewayIsCurrent ==
  dhcp_state = "BOUND" /\ gw_set => \A hw \in Gateways : NextHop(hw) = gw_ip_addr

\* While the client asks for a lease it has no address and no mask, so what it
\* sends is from address 0 and is broadcast rather than passed to the gateway of
\* an earlier lease (dhcp.c 44-52, ip.c 57).
UnconfiguredUntilBound ==
  dhcp_state \in {"SELECTING", "REQUESTING"} =>
    lo_ip_addr = NoAddr /\ ~ sn_mask /\ gw_ip_addr = NoGateway

\* Unless servers refuse again and again, the client gets a lease again and
\* again, whatever the network loses.
LeaseObtained ==
  []<>(dhcp_state = "BOUND") \/ []<><<\E m \in net : RecvNack(m)>>_vars

=============================================================================
