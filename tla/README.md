# A TLA+ verification of the thesis TCP/IP stack

The program is a web server on an Intel 80C196KB: an Ethernet driver (CS8900A),
ARP, IP, ICMP, UDP, a DHCP client, a passive TCP and a small HTTP server, about
2200 lines of C without an operating system. This project models the parts that
keep state and the way a frame takes through the rest, checks them with TLC on
small instances and proves the most important invariants with TLAPS for every
value of the constants.

## 1. Inventory

There are two actors. **main** (`main.c`) boots, waits for a lease and then
visits the sockets in turn: it opens a closed one and answers a request on an
established one. The **timer interrupt** polls the Ethernet controller, which
runs every receive handler down to `tcp_recv`, and runs the timed state
machines `dhcp_set_state` and `tcp_set_state`. The interrupt preempts main
anywhere and runs to completion; it does nothing while `sock_lock` is set.
`timer.c` and the headers of most modules are not in the repository. That the
handlers run there is read off the code: `main` waits in `while(!dhcp_check())`,
`while(rx_wait)` and `while(tx_wait)` without calling anything, and
`sock_try_lock` exists for a caller that must not wait.

| Component | State | Operations | Calls or is called by | What is hard | What makes it correct |
|---|---|---|---|---|---|
| TCP (`tcp.c`) | `lo_sock[]`: state, remote endpoint, sequence numbers of two rings, timeout, retries | `tcp_init`, `tcp_recv`, `tcp_set_state`, `tcp_send` | called by IP and the timer; clears `rx_wait`, `tx_wait` | legal segments in unexpected states, retries, full buffers, lost and reordered segments | a slot serves one client at a time, both streams arrive in order, nothing is acknowledged that is not stored, lost segments are repeated, a dead client is given up |
| Socket calls (`sock.c`) | `sock_lock`, `rx_wait`, `tx_wait`, `sock_wait`, `gw_set` | `sock_init`, `sock_listen`, `sock_read`, `sock_write`, lock and gateway flags | main and HTTP call them; shares the sockets with the interrupt | wakeup races, the lock, partial writes | no wakeup is lost, a reader is always released, a write is complete |
| Main loop (`main.c`) | `cur_sock`, `len` | boot, scan | calls the socket calls and HTTP | tests without the lock, stale `len` | acts on a socket only in the state it tested, visits every socket |
| HTTP (`http.c`) | none across calls | `http_request` | reads and writes one socket | the connection ends in the middle | one request is read from and answered on one connection |
| DHCP (`dhcp.c`) | `dhcp_state`, `xid`, `req_ip`, `server_ident`, retries, timeout, addresses | `dhcp_set_state`, `dhcp_recv`, `dhcp_send` | the timer and UDP; TCP, ARP and ICMP ask `dhcp_check` | lost, late and duplicated replies, restarts, several servers | the address in use is the one the chosen server granted, a lease is got eventually |
| ARP (`arp.c`) | `gw_hw_addr`, `gw_set` | `arp_send`, `arp_recv` | DHCP asks for the gateway | late replies, a new lease | the gateway address in use belongs to the present gateway |
| IP (`ip.c`) | `ident` | `ip_send`, `ip_recv` | between Ethernet and all others | next hop before ARP is resolved, damage, fragments | datagrams leave through the right next hop, damaged ones go no further |
| ICMP (`icmp.c`) | none | echo reply | IP | odd lengths, padded frames | each request for us is answered with its data |
| Ethernet (`ether.c`) | `rx_buf`, `tx_buf` | `ether_poll`, `ether_send` | the interrupt; all senders | busy waiting, the polling loop | every frame reported is read and dispatched |
| System (`sys.c`) | none | checksum, byte order, `memcpy`, `wait` | all | odd lengths, carries, tick wrap | equal to their reference definitions |
| Timer, display, UDP, CS8900A | external | | | | not in the repository |

The `hazards` of `PROJECT.json` list what is hard to test here, each at its line.

## 2. Modules

* **`TcpSockets`** is the socket table: what `tcp_recv`, `tcp_set_state` and the
  socket calls do to it. One action per case of `tcp_recv`'s switch (`RecvSyn`,
  `RecvHandshakeAck`, `RecvEstablished`, `RecvLastAck`), one for a whole sweep of
  `tcp_set_state`, one for the clock (`Elapse`) and one for a change of the lease.
* **`Server`** composes it with main, the HTTP server and the lock. `pc` says
  where main is. main has one step for each access outside the lock and one step
  for all it does between setting and clearing the lock; the interrupt's actions
  carry the guard `~ sock_lock`.
* **`SlotLifecycle`** is the abstract specification: every slot is opened, accepts
  a client, serves that client alone and is closed. `Server` implements it with
  `phase <- SlotPhase`, `peer <- SlotPeer`.
* **`RingWindow`** is the mask arithmetic of the two rings, which the code repeats
  in `tcp.c` and `sock.c`: bytes in use, room, storing and fetching.
* **`TcpStream`** is one connection in full: sequence numbers, both rings, the
  segments `tcp_send` builds, an ordinary TCP client and the network between them.
* **`Dhcp`** is the DHCP client with ARP's gateway lookup and the next hop of
  `ip_send`, against DHCP servers and a network that loses, delays, reorders and
  duplicates. `dhcp_set_state` is one action per state (`StartOver` falls through
  to the first DHCPDISCOVER as the switch does), `dhcp_recv` one per message type.
  `Server` sees of it only `bound`, which it lets change at any time
  (`LeaseChange`): every behaviour of `Dhcp` is covered.
* **`Checksum`** has byte order and the two checksums, on the bytes of a packet, and the
  checksum of RFC 1071 to compare them with.
* **`Reception`** is what the interrupt does with one frame before those modules
  take over: dispatch, `ip_recv`, `icmp_recv`, `arp_recv` and their answers through
  `ip_send` and `ether_send`, the test at the head of `tcp_recv`, and the option
  parser of `dhcp_recv`.
* **`EtherPoll`** is the polling loop as committed.
* **`MCServer`**, **`MCStream`**, **`MCDhcp`** and **`MCReception`** give TLC its small
  instances; **`ServerProofs`**, **`RingProofs`**, **`StreamProofs`**, **`DhcpProofs`**,
  **`ChecksumProofs`** and **`ReceptionProofs`** hold the proofs.

How state is abstracted in `TcpSockets` and `Server`:

| Model | Code |
|---|---|
| `rx` | `rx_buf_end - rx_buf_beg`, the bytes to read |
| `tx` | `(tx_buf_end - tx_buf_beg) & TCP_TX_BUF_LEN`, what `sock_write` computes room from. `tx_buf_beg` takes any acknowledgement, so `tx` may become anything in the ring |
| `due` | `secs >= timeout`; `timeout = 0` sets it, `timeout = secs + (4 << retries)` clears it until `Elapse` |
| `dst` | `dst_ip_addr` and `dst_port`; `port` is `src_port = HTTP_SERVER_PORT` |
| a segment | its effect: a segment that fails the sequence and flag tests of the state changes nothing, so only those that pass are actions, with any flags, payload length and acknowledgement |
| `bound` | `dhcp_check()` |
| slot `SOCK_NUM` | the memory behind `lo_sock`, which main reaches. It is taken to be zero when the program starts and to be used by nothing else; which state zero encodes is in `tcp.h`, hence `BeyondStates` |

**`TcpStream`** keeps the variables of the socket under their names, and `taken`,
`asked` and `queued` for what main did with `sock_read` and `sock_write`. Sequence
numbers are naturals: the code only subtracts them, compares them for equality and
masks them, and `WrapKeepsSlot` shows that a wrap moves no byte to another slot. main
may read whenever there is something and, when it has read the request, write any
part of the reply; this covers `http_request`. `Network` chooses between two networks. The
*hostile* one keeps every segment and delivers it any number of times, in any order, or
never. The *calm* one loses up to `LOSSES` segments, repeats none, and is faster than
every timer. The client repeats, probes a closed window with one byte, takes data in order,
acknowledges all that occupies a sequence number and may end with a FIN. Behind the hostile
network it may also give the connection up (`ClientAbort`), with a reset that carries no
acknowledgement: `RecvEstablished` tests ACK, RST and FIN in the code's order. It does not
put a FIN on a probe: the byte may find no room, and the server acknowledges one number
more than `rx_buf_end` once it is in LAST_ACK (tcp.c 363, 456), so that byte would be taken for
received. `receded` records that an acknowledgement older than an earlier one was taken
(tcp.c 346). The model ends when the socket is closed: opening it again is `Server`'s part.

In **`Dhcp`**, `due` is `secs >= timeout` again, `xid` counts modulo `XIDS`, an address of a
gateway names its hardware address as well, and `sn_mask` is whether the mask is not 0.
`net` keeps every datagram sent; one that is never received was lost, one received
twice was duplicated. `StartOver` forgets the datagrams that carry the number it
takes up, since `~ticks` repeats only after 2^32 ticks. The byte layout of
`dhcp_send` is left out. Servers are external: they answer in their own name, and
grant or refuse what was requested from them.

In **`Reception`**, a frame is the fields the handlers test and the bytes they sum up;
the first word of an address is its subnet. The loops that wait or walk a packet
have a step for each pass, everything else an interrupt does is one step. `std` says whether an ARP
packet is one for IP over Ethernet, or a DHCP packet a reply to us: `dhcp_recv` drops any other
(dhcp.c 136-146), whatever stands in its options. `ip_recv` swaps a number as the processor
loads it (`Loaded`) before it looks for fragments. Damage exchanges
one 16-bit word of the header, its options or the data. `FrameAssumption` says what may arrive:
neighbours send datagrams with right checksums, echo requests that hold at least type, code,
checksum and data up to `ICMP_HDR_LEN` (`icmp_recv` subtracts it from an unsigned length without a
test), and options whose values are as long as the client reads (`Width`). Damage spares
DHCP: only UDP's checksum covers its data, and `udp.c`, which may test it, is not in the repository.
`LengthAssumption` says that the answers fit `ETHER_FRAME_LEN_MAX`: `ether_send` drops what does not.
The model starts where a frame was read, at ether.c:98. As committed
nothing comes there: `continue` and `break` (lines 91-96) leave lines 98-117 unreachable, which
`frame_dispatch` shows. All other modules model the handlers as they are called once a
frame is dispatched, which is what the rest of the program is written for.

`TCP_STATE_FLAG_RX_BUF` is defined in `tcp.h` too; `RxBufStates` names the states
that carry it, and the proofs ask only that `ESTABLISHED` does. (`TcpStream` lets main
read in `LAST_ACK` as well.) Absent by construction: `FIN_WAIT` and `CLOSING` (no
statement assigns `FIN_WAIT`) and `tx_wait` (never set: see `sock.c:281` in section 5). Actions
and operators marked *Variant* are faulty forms of the next definition, used to show that a
property can fail; no specification uses them.

## 3. Runs

| Run | Instance | Shows |
|---|---|---|
| `server_safety` | 2 sockets, 2 clients, buffers of 1, segments up to 2, 1 retry | `TypeOK`, `NoLostWakeup`, `RequestKeepsConnection`, `ListenNeverResets` |
| `server_turns` | 2 sockets, 2 clients, no retry | `SlotReopened`, `ServesOneClientAtATime` (refinement of `SlotLifecycle`) |
| `server_live` | 1 socket, 2 clients, receive buffer of 2, segments up to 3, 2 retries | `ReaderReleased`, `RequestServed` |
| `stream_safety` | hostile network, receive ring for 2, transmit ring for 1, 3 bytes each way, 1 retry | `TypeOK`, `RequestIntact`, `AcknowledgedIsStored`, `ReplyIntact` |
| `stream_live` | calm network, 2 losses, 3 retries, rings as before, 3 bytes and 2 bytes | `RequestArrives`, `ReplyArrives`, `EndIsSeen`, `LastAckEnds` |
| `dhcp_safety` | 2 servers, 2 addresses, 2 gateways, 1 transmission per message, 2 transaction numbers | `TypeOK`, `AddressIsGranted`, `GatewayIsCurrent`, `UnconfiguredUntilBound` |
| `dhcp_live` | 2 servers, 1 address, 2 transmissions | `LeaseObtained` |
| `reception` | every frame of `MCFrames`, whole, and echoes and segments with each word of header, options and data exchanged for 0, 256 or 65535 | `DamageIsNoticed`, `AskedIsAnswered`, `OptionsAsWritten`, `InterruptEnds` |

The runs of section 5 expect a violation.
`CHECK_DEADLOCK FALSE` stands in the runs of `TcpStream`, which end when the socket is closed and the
network is empty, and in `reception`, which ends with the interrupt.

Why the bounds are enough: sockets interact through demultiplexing, the single
waiting reader and main's turn, which two sockets and the slot behind them show
with one socket live while the other listens; a client is told apart only from another
client. A buffer of one byte is empty and full, and a segment of two does not
fit it. One retry distinguishes the first, a further and the last timeout;
`server_live` repeats the timing with more retries, and `server_turns` drops them so
that liveness of two sockets stays in reach. `MaxSegLen` is the only bound that the
code does not have.

In `TcpStream`, three bytes through a ring for two (three slots) or one (two slots) fill the
ring, make it wrap and write over each slot that was used; the sequence numbers start off
slot 0. All bytes are different, so a byte out of its place shows. `MAX_DATA` of one splits what is
outstanding over segments. Numbers of retries do not matter to safety; for
liveness `RETRIES` exceeds `LOSSES`, or a connection may be given up before the first try gets
through.

In `Dhcp`, two servers with two addresses each allow an offer that
competes with the chosen one from the same and from another server, two gateways a
lease whose gateway changes, and two transaction numbers a late reply to the last
transaction; `XIDS` bounds the numbers, and the reset of the retry count needs the
two transmissions of `dhcp_live`.

In `MCReception`, payloads of 0 to 3 bytes of 0 and 255 are odd and even and make the sum carry, and carry
again; headers come with and without options, frames with and without padding, addresses
from our subnet and another; option lists have up to 4 of PAD, END, three
options the client reads, the gateway's with two addresses of which it takes the first, and one it
skips whose value looks like options; packets for others come with and without options that
make sense. `ETHER_FRAME_LEN_MAX` is 42, enough for each answer: nothing the
interrupt sends may be dropped for its length.

Fairness of `Server` (`FairSpec`): main is executed, the clock counts for every socket with a
running timeout, and the sweep of an interrupt that stays possible is taken. All three
are weak: while main spins it holds no lock, so the sweep stays enabled. Nothing is
assumed of clients, segments or the lease. A client that keeps sending
before it is given up can keep main in one request for ever, since the server has no
limit on a request; `HeldByClient` names that behaviour and the liveness
properties exclude it.

Fairness of `TcpStream`: segments on their way arrive (the interrupt polls, and a calm network
delivers what it does not lose), timers run out, main goes on, the client opens the connection
and repeats. Only `Elapse` is strong: `secs` counts also while repetitions are on their way. Whether
the client ends with a FIN is its own choice. In a calm network the client's timers are faster than the server's until its
request is acknowledged, as an ordinary TCP's are (the server's first wait is 4
seconds); otherwise the server would give the connection up as idle (section 5). The properties exclude what section 5
reports (`Unanswered`), a reply that an old acknowledgement spoiled, and a client that ends the
connection with a FIN before it has the reply: the server then sends nothing but its own FIN.

`LeaseObtained` assumes that of
endlessly many transactions some are answered before the client gives up and some of
those answers arrive, which is what a retrying client must assume; servers that refuse
endlessly are excluded by the property. `Reception` assumes that the interrupt is executed and that
the controller, within finite time, reports room or an error.

## 4. What is proved

`ServerProofs` proves, for every number of sockets, set of clients, buffer length
and retry limit that satisfies `SocketAssumption` and `ReplyAssumption`:

* `TypeCorrect`: `TypeOK` is invariant; the work is in the counts (`Store`, `Put`, `TakeByte`,
  the retries), each with a lemma of its own;
* `NoWakeupIsLost`: `NoLostWakeup` is invariant. It says more than that a wakeup is not lost: the spin
  still waits for `cur`, and `cur` still has nothing to offer, which is what makes it inductive;
* `RequestsKeepTheirConnection` and `ListenResetsNothing`: main's unlocked tests stay
  true until it has acted on them, because no interrupt opens a socket
  (`InterruptOpensNothing`) and main opens only at `listen_locked` (`MainMoves`);
* `ImplementsSlotLifecycle`: `Spec => ServesOneClientAtATime`, with each step mapped to a
  step of `SlotLifecycle` or a stutter. A sweep maps to one `Close` of all the
  connections it gives up; `sock_listen` maps to `Open` because of `ListenResetsNothing`.

`ReceiveMoves`, `SweepMoves` and `MainMoves` sum up what each actor can do to a socket;
all proofs after type correctness rest on them. Each invariant is inductive relative to
`TypeOK`.

`RingProofs` proves about `RingWindow`, for every ring length: `UsedAndRoom` (the case
distinctions of the code give the bytes in use and the rest of the capacity, as long as the two
numbers are at most the capacity apart), `FillStores` (what `Fill` changes and what it
leaves alone) and `WrapKeepsSlot`. They rest on division with remainder alone.

`StreamProofs` proves, from `StreamAssumption`, for both networks and rings, requests and replies of every length,
the four invariants of `stream_safety`. None is inductive alone:

* `StreamTypeCorrect`. `TypeInv` adds `Handshake`: which segments exist and what the rings
  hold before the connection is established;
* `RequestReadInOrder`. `RequestInv` adds that `rx_buf_end` is at most the capacity ahead of
  `rx_buf_beg` and within the request, and `Carried`: each segment of the client carries the bytes of
  the request that its number says. A segment is stored only at `rx_buf_end`, so what it carries is
  what comes next, however often and late it arrives;
* `OnlyStoredIsAcknowledged`. `AckInv`, inductive relative to the two above, says that no
  acknowledgement on its way or taken by the client is ahead of `rx_buf_end`, but for that of
  the FIN behind the last byte (`Stored`), and that no window reaches further than
  `TCP_RX_BUF_LEN` behind what main has read (`Honest`, `Knows`). A FIN in the window is
  therefore never cut off from its data;
* `ReplyReceivedInOrder`. `ReplyInv` is `ReplyCounts` and, until `receded`, `ReplyBytes`: the transmit
  ring holds `queued` from `tx_buf_beg` on (`TxHolds`), each segment of the server carries the
  bytes its number says (`Replied`), and no acknowledgement of the client is ahead of
  `tx_buf_end`, so that it never makes room for a byte that was not sent.

`DhcpProofs` proves, from `DhcpAssumption`, for every set of servers, addresses and gateways:

* `DhcpTypeCorrect` and `UsesGrantedAddress`. Neither is inductive alone. `Inv` adds
  `Dialogue` (a request or grant of the current transaction names the chosen server and
  address and was not sent before the choice) and `Chosen` (the choice was offered). An ACK is
  then right although the code does not compare its address with the one requested: at most one
  offer is taken per transaction number, so all requests under it agree;
* `KnownGatewayIsCurrent` and `AsksUnconfigured`. `Configured` makes them inductive: a lease
  has a mask, and the mark is cleared with each.

`ChecksumProofs` proves, for packets of every length, that `checksum()` computes the Internet checksum
although it adds up the words in the processor's byte order (`ChecksumIsInternetChecksum`), that it
accepts exactly the packets that verify in network order (`AcceptsWhatVerifies`), the same
of `tcp_checksum` with its pseudo header (`TcpAcceptsWhatVerifies`), and that the 32-bit sum cannot
overflow (`SumFits`). `Sum` is a running total and `Folded` a loop, so this is induction over data.
The library states induction for a predicate, an operator the provers cannot instantiate;
`Induction` states it for a set of numbers and follows from the minimal element of a well-founded
order (`WFMin`). On it rest what a total becomes when a term is exchanged (`TotalChange`) and when
totals are joined (`TotalJoined`), and that the loop over the carries leaves the sum modulo
65535 (`FoldedIsFold`). That 256 is its own inverse modulo 65535 makes byte order irrelevant (`SumsAgree`,
`SwapMultiple`).

`ReceptionProofs` proves, from `FrameAssumption` and `LengthAssumption`, the three invariants of `reception`.
No step writes `rx_buf`, so `Arrived` (the frame is as it arrived) is part of each:

* `DamageNoticed`: `Arrived` and `DamageIsNoticed` are inductive together. Whatever word was
  exchanged, the header (`HeaderHit`) or the data (`DataHit`) is a sequence of bytes whose sum differs by as
  much as the words do, which is no multiple of 65535 (`WordsDiffer`), so that `ip_recv`, `icmp_recv` or
  `tcp_recv` refuses it (`DamageShows`);
* `RequestsAnswered` adds `Phases`: nothing is sent or passed on before the interrupt is done, and
  what waits for the controller is the answer the frame is worth. That the two checksums of an answer
  are right for any host is `ReplyDataVerifies` and `SealedVerifies`;
* `OptionsRead` adds `Place`: the parser stands at the first byte of an option with no END and an
  even number of PADs before it, having read the last value of each field so far, or it has
  passed the end with all that was written. `ParseStep` is one pass of the loop. No damage makes a
  datagram of another protocol one for DHCP (`NoLeaseFromDamage`), so the options are those of a server.
`ValidIs` shows that the field `ip_recv` loads and swaps is the one that was sent.

Both assumptions are about what others send; the run evaluates them on `MCFrames`.

Model-checked only: liveness (`SlotReopened`, `ReaderReleased`, `RequestServed`, `RequestArrives`, `ReplyArrives`,
`EndIsSeen`, `LastAckEnds`, `LeaseObtained`, `InterruptEnds`), which needs fairness and ENABLED. Every other property of the
passing runs is a theorem.

## 5. Disagreements found

| Run | Text | What the code does |
|---|---|---|
| `demultiplexing` | "Determin which of our sockets we are receiving information to." (tcp.c:225) | a listening socket with a lower index takes and drops the segments of a live connection |
| `idle_reset` | "If we have tried four times to connect we assume that the remote node is offline" (tcp.c:144) | four timeouts with nothing sent close and reset a healthy idle connection |
| `lost_ack` | "Sends an acknowledgement package so the remote node knows that we got the information." (tcp.c:409) | a repeated segment is dropped without an acknowledgement, so a client whose acknowledgement was lost repeats in vain |
| `frame_dispatch` | "Determin what kind of information it is, either IP or ARP." (ether.c:105) | the loop ends at a receive event; the lines that read and dispatch the frame are unreachable |

Others show in the models without a run of their own:

* main's index reaches `SOCK_NUM` (main.c:55), one slot behind the table of "SOCK_NUM different
  sockets" (tcp.c:28): `Slots` has that slot;
* `sock_write` drops what does not fit the ring (sock.c:281 subtracts the clipped length from
  itself), although it is to "Write all the data" (sock.c:261): `asked` counts what was passed,
  `queued` what was stored, and the streams are compared with `queued`;
* until the gateway has answered, frames for another subnet go to the zeroed hardware address
  (ip.c:57), not "the hardware address of the gateway" (ip.c:56): hence `gw_set` in
  `GatewayIsCurrent`;
* an acknowledgement older than an earlier one sets `tx_buf_beg` back (tcp.c:346); `sock_write` may have
  overwritten what is then sent again: hence `receded`;
* a FIN that arrives while part of the reply is not acknowledged stops its transmission, and the server's FIN, sent at
  `tx_buf_beg`, never gets the acknowledgement of `tx_buf_end + 1` that LAST_ACK waits for (tcp.c:433):
  hence the premise of `EndIsSeen`. `LastAckEnds` shows that the connection is closed all the same, once the tries
  run out;
* the parser skips a byte behind PAD (dhcp.c:158), which may be the code of the next option or END, although
  it is to "Ignore all pad information." (dhcp.c:156): hence `PaddedInPairs`. `InterruptEnds` shows that the
  loop comes to its end all the same.

## 6. Not modelled

* `timer.c`, `udp.c`, the display and the header files of most modules are not in the repository. `wait`
  (sys.c:155) is called by the display alone.
* `ether_init` and the access to the registers of the controller: pure input and output.
* The HTTP parser's text: its decisions are in `Server`, its buffers hold at most what its
  bounds tests admit and feed nothing but two comparisons.
* `memcpy`, `memclr`, `strcmp`, `strlen`: loops without state.
* The byte layout of DHCP, ARP and TCP headers: their fields are the fields of the models' messages.
  Only where a property is about bytes (checksums, options) are they modelled as such.
* Several connections with full contents: `Server` has several sockets, `TcpStream` the contents
  of one. They share the code and no state, apart from what `Server` models.
