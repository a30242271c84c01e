------------------------------- MODULE Reception -------------------------------
(***************************************************************************)
(* What the timer interrupt does with one frame: dispatch (ether.c         *)
(* 98-117), ip_recv and the receivers of ICMP and ARP with the answers     *)
(* they send, the checksum test of tcp_recv, and the option parser of      *)
(* dhcp_recv.  TcpSockets, TcpStream and Dhcp model what follows.          *)
(*                                                                         *)
(* Loops that wait or walk a packet have a step for each pass: the wait    *)
(* for the transmitter in ether_send, and the parser.  Everything else the *)
(* interrupt does is one step.                                             *)
(*                                                                         *)
(* A frame may be damaged on its way: one 16-bit word of the header or of  *)
(* the data is exchanged.  The length of the header (ver_hl) is left       *)
(* alone: with it, what is summed up would change too.                     *)
(*                                                                         *)
(* icmp.h, ip.h and udp.h are not in the repository.  ICMP_HDR_LEN is 4,   *)
(* since icmp_recv copies identifier and sequence number as data;          *)
(* udp_recv hands DHCP packets on, and only their options are modelled.    *)
(***************************************************************************)
EXTENDS Checksum, FiniteSets

CONSTANTS
  Frames,               \* the frames neighbours send
  Exposed,              \* the datagrams among them that may be damaged
  Changes,              \* the words damage may leave
  Idents,               \* values of ident at the start
  Hosts,                \* hardware addresses
  lo_addr,              \* our address while there is a lease, two words
  ETHER_FRAME_LEN_MAX,  \* longest frame ether_send sends
  Stale                 \* what the bytes behind a packet may be

None == [type |-> "none"]

VARIABLES
  bound,    \* what dhcp_check() returns
  ident,    \* ident of ip.c
  pc,       \* where the interrupt is
  frame,    \* rx_buf
  damage,   \* the word that was exchanged and the one in its place, if any
  out,      \* tx_buf
  bus,      \* what PP_BUS_ST says
  sent,     \* the frame sent
  passed,   \* TRUE if tcp_recv went on to the sockets
  opt_ptr, opt_end,  \* the parser's place in the options
  opts      \* what the parser has read

parser == <<opt_ptr, opt_end, opts>>

vars == <<bound, ident, pc, frame, damage, out, bus, sent, passed, opt_ptr,
          opt_end, opts>>

lo_ip_addr == IF bound THEN lo_addr ELSE <<0, 0>>

\* Codes of options and the four the client reads.
PAD == 0
END == 255
Fields == [msg_type |-> 53, gw |-> 3, sn_mask |-> 1, server_ident |-> 54]

NothingRead == [f \in DOMAIN Fields |-> <<>>]

-----------------------------------------------------------------------------
(* Frames.                                                                 *)

Address == {a \in Seq(Word) : Len(a) = 2}

\* hl counts words of 32 bits, and what it leaves behind the fields is options.
Headers ==
  {h \in [ver : 0 .. 15, hl : 5 .. 15, len : Word, ident : Word, frag : Word,
          ttl : Byte, prot : Byte, csum : Word, src : Address, dst : Address,
          opts : Seq(Word)] :
     Len(h.opts) = 2 * (h.hl - 5)}

\* tos is always 0.
HeaderWords(h) ==
  <<h.ver * 4096 + h.hl * 256, h.len, h.ident, h.frag, h.ttl * 256 + h.prot, h.csum>>
    \o h.src \o h.dst \o h.opts

HeaderBytes(h) == NetBytes(HeaderWords(h))

\* What the header counts as data: the frame may be padded behind it.
Data(f) == SubSeq(f.data, 1, f.h.len - 4 * f.h.hl)

\* An option as it stands in a packet.
Encode(o) == IF o.code \in {PAD, END} THEN <<o.code>>
             ELSE <<o.code, Len(o.val)>> \o o.val

Option == [code : Byte, val : Seq(Byte)]

\* Option i of a list ends in byte Ends(list)[i].
Ends(list) ==
  LET end[i \in 0 .. Len(list)] ==
        IF i = 0 THEN 0 ELSE end[i - 1] + Len(Encode(list[i]))
  IN  end

Holds(bytes, list) ==
  /\ Len(bytes) = Ends(list)[Len(list)]
  /\ \A i \in 1 .. Len(list) : \A k \in 1 .. Len(Encode(list[i])) :
       bytes[Ends(list)[i - 1] + k] = Encode(list[i])[k]

\* How many bytes of a value the client reads: of several gateways, the first.
Width(field) == IF field = "msg_type" THEN 1 ELSE 4

\* A DHCP packet is its options, as bytes, and whether it is a reply to us: op, htype,
\* hlen, xid and the magic cookie are as they have to be.  f.list says what the sender
\* of a reply meant.
Options(f) == f.data

Datagrams ==
  {f \in [type : {"IP"}, hw : Hosts, h : Headers, data : Seq(Byte),
          std : BOOLEAN, list : Seq(Option)] :
     4 * f.h.hl <= f.h.len /\ f.h.len <= 4 * f.h.hl + Len(f.data)}

ArpPackets ==
  [type : {"ARP"}, hw : Hosts, op : {"REQUEST", "REPLY"}, std : BOOLEAN,
   prot_src : Address, prot_dst : Address]

Pseudo(f) == NetBytes(f.h.src \o f.h.dst \o <<6, Len(Data(f))>>)

\* A datagram as hosts send it.
WellFormed(f) ==
  /\ Verifies(HeaderBytes(f.h))
  /\ f.h.prot = 1 => Len(Data(f)) >= 4 /\ Verifies(Data(f))
  /\ f.h.prot = 6 => Verifies(Pseudo(f) \o Data(f))
  /\ f.h.prot = 17 /\ f.std =>
       /\ Holds(Options(f), f.list)
       /\ \A i \in 1 .. Len(f.list), field \in DOMAIN Fields :
            /\ Len(f.list[i].val) < 256
            /\ f.list[i].code = Fields[field] => Len(f.list[i].val) >= Width(field)

\* Neighbours obey the standards.  Damage spares DHCP: whether udp_recv would notice
\* it, the repository does not say.
ASSUME FrameAssumption ==
  /\ Frames \subseteq Datagrams \union ArpPackets \union {[type |-> "OTHER"]}
  /\ \A f \in Frames \intersect Datagrams : WellFormed(f)
  /\ Exposed \subseteq {f \in Frames \intersect Datagrams : f.h.prot # 17}
  /\ Changes \subseteq Word
  /\ Idents \subseteq Word
  /\ lo_addr \in Address

\* Answers to ARP and to echo requests fit a frame.
ASSUME LengthAssumption ==
  /\ ETHER_FRAME_LEN_MAX \in Nat /\ ETHER_FRAME_LEN_MAX >= 42
  /\ \A f \in Frames \intersect Datagrams :
       f.h.prot = 1 => Len(Data(f)) + 34 <= ETHER_FRAME_LEN_MAX

-----------------------------------------------------------------------------
(* The wire.                                                               *)

Hit(f, old, new) == [frame |-> f, damage |-> <<old, new>>]

\* The words of the data are 16 bits, or 8 for an odd last byte.
WordAt(s, k) == IF k < Len(s) THEN s[k] * 256 + s[k + 1] ELSE s[k]

PutWord(s, k, w) ==
  IF k < Len(s) THEN [s EXCEPT ![k] = w \div 256, ![k + 1] = w % 256]
                ELSE [s EXCEPT ![k] = w % 256]

DamagedHeader(f, w) ==
  {Hit([f EXCEPT !.h[k] = w], f.h[k], w) : k \in {"len", "ident", "frag", "csum"}}
    \union {Hit([f EXCEPT !.h[k][i] = w], f.h[k][i], w) :
              k \in {"src", "dst"}, i \in {1, 2}}
    \union {Hit([f EXCEPT !.h.ttl = w \div 256, !.h.prot = w % 256],
                f.h.ttl * 256 + f.h.prot, w)}
    \union {Hit([f EXCEPT !.h.opts[i] = w], f.h.opts[i], w) : i \in 1 .. Len(f.h.opts)}

DamagedData(f, w) ==
  LET data == Data(f)
  IN  {Hit([f EXCEPT !.data = PutWord(data, k, w) \o SubSeq(@, Len(data) + 1, Len(@))],
           WordAt(data, k), WordAt(PutWord(data, k, w), k)) :
         k \in {j \in 1 .. Len(data) : j % 2 = 1}}

\* A datagram arrives, whole or damaged.
Damaged(f) ==
  {hit \in UNION {DamagedHeader(f, w) \union DamagedData(f, w) : w \in Changes} :
     hit.damage[1] # hit.damage[2]}

Arrivals ==
  {[frame |-> f, damage |-> <<>>] : f \in Frames}
    \union UNION {Damaged(f) : f \in Exposed}

\* The receiver has read a frame; the transmitter is free.
Init ==
  /\ bound \in BOOLEAN
  /\ ident \in Idents
  /\ pc = "dispatch"
  /\ \E a \in Arrivals : frame = a.frame /\ damage = a.damage
  /\ out = None
  /\ bus = "ready"
  /\ sent = None
  /\ passed = FALSE
  /\ opt_ptr = 1
  /\ opt_end = 1
  /\ opts = NothingRead

-----------------------------------------------------------------------------
(* Sending.                                                                *)

\* ether_send up to its loop; the controller looks for room.
ether_send(f, len) ==
  /\ IF len + 14 > ETHER_FRAME_LEN_MAX
     THEN pc' = "done" /\ UNCHANGED <<out, bus>>
     ELSE pc' = "bid" /\ out' = f /\ bus' = "busy"
  /\ UNCHANGED <<bound, frame, damage, sent, passed, parser>>

\* Hosts of another subnet are reached through the gateway.
NextHop(hw, dst) == IF dst[1] # lo_ip_addr[1] THEN "gateway" ELSE hw

ip_send(hw, dst, prot, data) ==
  LET h == [ver |-> 4, hl |-> 5, len |-> Len(data) + 20, ident |-> ident',
            frag |-> 0, ttl |-> 64, prot |-> prot, csum |-> 0,
            src |-> lo_ip_addr, dst |-> dst, opts |-> <<>>]
  IN  /\ ident' = (ident + 1) % 65536
      /\ ether_send(
           [type |-> "IP", hw |-> NextHop(hw, dst),
            h |-> [h EXCEPT !.csum = memswap(checksum(HeaderBytes(h)))],
            data |-> data, std |-> TRUE, list |-> <<>>],
           h.len)

icmp_send(hw, dst, type, code, data) ==
  LET csum == checksum(<<type, code, 0, 0>> \o data)
  IN  ip_send(hw, dst, 1, <<type, code, csum % 256, csum \div 256>> \o data)

arp_send(hw, dst, op) ==
  /\ ether_send([type |-> "ARP", hw |-> hw, op |-> op, std |-> TRUE,
                 prot_src |-> lo_ip_addr, prot_dst |-> dst], 28)
  /\ UNCHANGED ident

\* Variant: an error of the controller is not looked for.
BidUntilReady ==
  /\ pc = "bid"
  /\ bus = "ready"
  /\ pc' = "done"
  /\ sent' = out
  /\ UNCHANGED <<bound, ident, frame, damage, out, bus, passed, parser>>

\* The loop of ether_send: it ends when the controller is ready or in error.
Bid ==
  /\ pc = "bid"
  /\ bus \in {"ready", "error"}
  /\ pc' = "done"
  /\ sent' = IF bus = "ready" THEN out ELSE sent
  /\ UNCHANGED <<bound, ident, frame, damage, out, bus, passed, parser>>

\* The controller makes room or refuses.
Controller ==
  /\ pc = "bid"
  /\ bus = "busy"
  /\ bus' \in {"ready", "error"}
  /\ UNCHANGED <<bound, ident, pc, frame, damage, out, sent, passed, parser>>

-----------------------------------------------------------------------------
(* Receiving.                                                              *)

Dispatch(type) == pc = "dispatch" /\ frame.type = type

Drop ==
  /\ pc' = "done"
  /\ UNCHANGED <<bound, ident, frame, damage, out, bus, sent, passed, parser>>

\* A request for our address is answered; Dhcp models what a reply does.
arp_recv ==
  /\ Dispatch("ARP")
  /\ IF bound /\ frame.std /\ frame.prot_dst = lo_ip_addr /\ frame.op = "REQUEST"
     THEN arp_send(frame.hw, frame.prot_src, "REPLY")
     ELSE Drop

\* A number of a packet as the processor reads it, before it is swapped.
Loaded(w) ==
  LET bytes == NetBytes(<<w>>)
  IN  bytes[1] + 256 * bytes[2]

\* ip_recv passes a datagram on unless it is damaged, a fragment or not IPv4.  Of
\* frag, the bit that forbids to fragment may be set.
Valid(h) ==
  /\ checksum(HeaderBytes(h)) = 0
  /\ h.ver = 4
  /\ memswap(Loaded(h.frag)) \in {0, 16384}

icmp_recv ==
  LET data == Data(frame)
  IN  IF /\ bound
         /\ checksum(data) = 0
         /\ frame.h.dst = lo_ip_addr
         /\ data[1] = 8
      THEN icmp_send(frame.hw, frame.h.src, 0, 0, SubSeq(data, 5, Len(data)))
      ELSE Drop

tcp_recv ==
  /\ pc' = "done"
  /\ passed' = /\ bound
               /\ tcp_checksum(Data(frame), frame.h.src, frame.h.dst) = 0
               /\ frame.h.dst = lo_ip_addr
  /\ UNCHANGED <<bound, ident, frame, damage, out, bus, sent, parser>>

\* The options lie between the magic cookie and the end of the packet.  What is no
\* reply to us is dropped.
dhcp_recv ==
  IF frame.std
  THEN /\ pc' = "options"
       /\ opt_ptr' = 1
       /\ opt_end' = Len(Options(frame)) + 1
       /\ opts' = NothingRead
       /\ UNCHANGED <<bound, ident, frame, damage, out, bus, sent, passed>>
  ELSE Drop

ip_recv ==
  /\ Dispatch("IP")
  /\ IF ~ Valid(frame.h) THEN Drop
     ELSE CASE frame.h.prot = 1 -> icmp_recv
            [] frame.h.prot = 6 -> tcp_recv
            [] frame.h.prot = 17 -> dhcp_recv
            [] OTHER -> Drop

\* Frames of any other type have no receiver.
Ignore == Dispatch("OTHER") /\ Drop

-----------------------------------------------------------------------------
(* The option parser.                                                      *)

\* The packet from position k on, n bytes; what lies behind it is anything.
Peek(k, n, behind) ==
  [i \in 1 .. n |-> IF k + i - 1 <= Len(Options(frame)) THEN Options(frame)[k + i - 1]
                    ELSE behind]

Skip(to, end) == opt_ptr' = to /\ opt_end' = end /\ UNCHANGED opts

\* Variant: the length byte is not counted.
ReadOptionShort(code, at, behind) ==
  /\ opts' = [f \in DOMAIN Fields |->
                IF code # Fields[f] THEN opts[f]
                ELSE Peek(at + 1, Width(f), behind)]
  /\ opt_ptr' = at + Peek(at, 1, behind)[1]
  /\ UNCHANGED opt_end

\* The value of an option of interest is read whatever its length byte says.
ReadOption(code, at, behind) ==
  /\ opts' = [f \in DOMAIN Fields |->
                IF code # Fields[f] THEN opts[f]
                ELSE Peek(at + 1, Width(f), behind)]
  /\ opt_ptr' = at + Peek(at, 1, behind)[1] + 1
  /\ UNCHANGED opt_end

\* One pass of the loop.  PAD and END advance opt_ptr twice.
ParseOption ==
  /\ pc = "options"
  /\ opt_ptr < opt_end
  /\ LET code == Options(frame)[opt_ptr]
     IN  CASE code = PAD -> Skip(opt_ptr + 2, opt_end)
           [] code = END -> Skip(opt_ptr + 2, opt_ptr + 2)
           [] OTHER -> \E behind \in Stale : ReadOption(code, opt_ptr + 1, behind)
  /\ UNCHANGED <<bound, ident, pc, frame, damage, out, bus, sent, passed>>

ParserEnds == pc = "options" /\ opt_ptr >= opt_end /\ Drop

-----------------------------------------------------------------------------

Interrupt ==
  \/ arp_recv \/ ip_recv \/ Ignore
  \/ ParseOption \/ ParserEnds \/ Bid

Next == Interrupt \/ Controller

Spec == Init /\ [][Next]_vars

\* The interrupt goes on, and the controller does not stay busy for ever.
FairSpec == Spec /\ WF_vars(Next)

-----------------------------------------------------------------------------

\* A datagram of which a word was exchanged on its way is neither answered nor
\* passed on, at any length, odd or even, and whatever carries its sum makes.  Only
\* 0 and 65535 cannot be told apart (sys.c 88-108; tcp.c 207, 485-508).
DamageIsNoticed ==
  damage # <<>> /\ {damage[1], damage[2]} # {0, 65535} =>
    out = None /\ ~ passed /\ pc # "options"

\* What a frame that arrived whole asks for, by what its receiver promises.
ForUs(f) ==
  /\ bound
  /\ f.type = "IP" => f.h.dst = lo_addr /\ f.h.ver = 4 /\ f.h.frag \in {0, 16384}
  /\ f.type = "ARP" => f.prot_dst = lo_addr /\ f.std

IsEcho(f) == f.type = "IP" /\ f.h.prot = 1 /\ f.data[1] = 8

IsArpRequest(f) == f.type = "ARP" /\ f.op = "REQUEST"

EchoReply(r, f) ==
  /\ r.type = "IP"
  /\ r.hw = IF f.h.src[1] = lo_addr[1] THEN f.hw ELSE "gateway"
  /\ r.h.src = lo_addr /\ r.h.dst = f.h.src /\ r.h.prot = 1
  /\ Len(r.data) = r.h.len - 20
  /\ Verifies(HeaderBytes(r.h)) /\ Verifies(r.data)
  /\ SubSeq(r.data, 1, 2) = <<0, 0>>
  /\ SubSeq(r.data, 5, Len(r.data)) = SubSeq(Data(f), 5, Len(Data(f)))

ArpReply(r, f) ==
  /\ r.type = "ARP" /\ r.op = "REPLY"
  /\ r.hw = f.hw /\ r.prot_dst = f.prot_src /\ r.prot_src = lo_addr

\* Each echo and ARP request for us that arrives whole is answered once the controller
\* lets it, with what was asked and a checksum that any host accepts; each segment
\* for us reaches TCP; nothing else is answered or passed on (icmp.c 23-76,
\* arp.c 23-94, ip.c 28-119, tcp.c 201-214).
AskedIsAnswered ==
  pc = "done" /\ damage = <<>> =>
    /\ CASE bus = "error" -> sent = None
         [] bus # "error" /\ ForUs(frame) /\ IsEcho(frame) ->
              sent # None /\ EchoReply(sent, frame)
         [] bus # "error" /\ ForUs(frame) /\ IsArpRequest(frame) ->
              sent # None /\ ArpReply(sent, frame)
         [] OTHER -> sent = None
    /\ passed = (ForUs(frame) /\ frame.type = "IP" /\ frame.h.prot = 6)

\* The options up to the first END.
Heeded(list) ==
  {i \in 1 .. Len(list) : \A j \in 1 .. i - 1 : list[j].code # END}

\* What stands before option i and after the one before it.
Padding(list, i) ==
  {j \in 1 .. i - 1 : \A k \in j .. i - 1 : list[k].code = PAD}

\* Between two options, or an option and END, PADs stand in pairs.
PaddedInPairs(list) ==
  \A i \in Heeded(list) :
    list[i].code # PAD => Cardinality(Padding(list, i)) % 2 = 0

Written(list, field) ==
  LET at == {i \in Heeded(list) : list[i].code = Fields[field]}
  IN  IF at = {} THEN <<>>
      ELSE SubSeq(list[CHOOSE i \in at : \A j \in at : j <= i].val, 1, Width(field))

ReadAsWritten == \A f \in DOMAIN Fields : opts[f] = Written(frame.list, f)

\* The parser reads each option of a reply as it was written, in any order, after
\* repetitions and before an END, although it skips a byte too many behind PAD: as
\* long as PADs come in pairs.  Of anything else it reads nothing (dhcp.c 136-196).
OptionsAsWritten ==
  pc = "done" /\ opt_ptr > 1 =>
    frame.std /\ (PaddedInPairs(frame.list) => ReadAsWritten)

\* The interrupt comes to its end: neither a packet's options nor a controller in
\* error holds it for ever (ether.c 151-166, dhcp.c 152-196).
InterruptEnds == <>(pc = "done")

=============================================================================
