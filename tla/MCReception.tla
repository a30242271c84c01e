------------------------------ MODULE MCReception ------------------------------
(***************************************************************************)
(* The frames TLC sends to Reception.                                      *)
(***************************************************************************)
EXTENDS Reception, SequencesExt

MCAddr == <<2560, 1>>
Near   == <<2560, 2>>
Far    == <<2816, 65535>>

\* A header without and with options, with its checksum.
Header(prot, src, dst, len, frag, ver, options) ==
  LET h == [ver |-> ver, hl |-> 5 + Len(options) \div 2,
            len |-> len + 20 + 2 * Len(options), ident |-> 65535, frag |-> frag,
            ttl |-> 64, prot |-> prot, csum |-> 0, src |-> src, dst |-> dst,
            opts |-> options]
  IN  [h EXCEPT !.csum = NetChecksum(HeaderBytes(h))]

Datagram(prot, src, dst, frag, ver, options, data, padding, list) ==
  [type |-> "IP", hw |-> "neighbour", data |-> data \o padding, std |-> TRUE,
   list |-> list,
   h |-> Header(prot, src, dst, Len(data), frag, ver, options)]

WithSum(bytes, pseudo) ==
  [bytes EXCEPT ![3] = NetChecksum(pseudo \o bytes) \div 256,
                ![4] = NetChecksum(pseudo \o bytes) % 256]

\* Payloads of up to three bytes.
Payloads == BoundedSeq({0, 255}, 3)

Echo(type, data) == WithSum(<<type, 0, 0, 0>> \o data, <<>>)

TcpData(src, dst, data) ==
  WithSum(<<255, 80, 0, 0>> \o data,
          NetBytes(src \o dst \o <<6, 4 + Len(data)>>))

Echoes ==
  {Datagram(1, src, MCAddr, 0, 4, <<>>, Echo(8, data), padding, <<>>) :
     src \in {Near, Far}, data \in Payloads, padding \in {<<>>, <<7>>}}

Segments ==
  {Datagram(6, src, MCAddr, 16384, 4, options, TcpData(src, MCAddr, data), <<>>, <<>>) :
     src \in {Near, Far}, data \in Payloads, options \in {<<>>, <<257, 256>>}}

\* Datagrams that are not for us, or not to be answered.
Strangers ==
  {Datagram(prot, Near, dst, frag, ver, <<>>, data, <<>>, <<>>) :
     prot \in {1, 2}, dst \in {MCAddr, Near}, frag \in {0, 8192, 185},
     ver \in {4, 6}, data \in {Echo(0, <<1>>), Echo(8, <<1>>)}}
    \union {Datagram(6, Near, dst, frag, ver, <<>>, TcpData(Near, dst, <<1>>), <<>>, <<>>) :
       dst \in {MCAddr, Near}, frag \in {0, 8192, 185}, ver \in {4, 6}}

OptionSet ==
  {[code |-> PAD, val |-> <<>>], [code |-> END, val |-> <<>>],
   [code |-> 53, val |-> <<5>>], [code |-> 54, val |-> <<10, 0, 0, 3>>],
   [code |-> 3, val |-> <<10, 0, 0, 4, 10, 0, 0, 5>>], [code |-> 51, val |-> <<53, 1, 0, 255>>]}

Leases ==
  {Datagram(17, Near, <<65535, 65535>>, 0, 4, <<>>,
            FlattenSeq([i \in 1 .. Len(list) |-> Encode(list[i])]), <<>>, list) :
     list \in BoundedSeq(OptionSet, 4)}

\* DHCP packets for others, among them some whose options have no end.
ForOthers ==
  {[lease EXCEPT !.std = FALSE] : lease \in {f \in Leases : Len(f.list) <= 2}}
    \union {[Datagram(17, Near, <<65535, 65535>>, 0, 4, <<>>, data, <<>>, <<>>)
              EXCEPT !.std = FALSE] : data \in Payloads}

Arps ==
  {[type |-> "ARP", hw |-> "neighbour", op |-> op, std |-> std, prot_src |-> Near,
    prot_dst |-> dst] :
     op \in {"REQUEST", "REPLY"}, std \in BOOLEAN, dst \in {MCAddr, Near, <<0, 0>>}}

MCFrames ==
  Echoes \union Segments \union Strangers \union Leases \union ForOthers \union Arps
    \union {[type |-> "OTHER"]}

MCExposed == Echoes \union Segments

MCChanges == {0, 256, 65535}

=============================================================================
