------------------------------ MODULE Network -------------------------------
(***************************************************************************)
(* The machine on a local network: ARP, IPv4, ICMP, UDP and DHCP           *)
(* (kernel/net/) over Ethernet and the PCNet card, the commands "dhcp" and *)
(* "ping" of the shell, and the hosts that answer.  Of TCP there is what   *)
(* its handler sends; the connections are in TCPConnections.               *)
(*                                                                         *)
(* A command runs in the keyboard interrupt, where the card cannot         *)
(* interrupt, and polls the card.  Otherwise the card's interrupt takes    *)
(* the frames.  The card moves frames between any two steps.  Frames on    *)
(* their way to the machine may be lost and reordered.                     *)
(*                                                                         *)
(* An IP address stands for itself and for the MAC address of its host.    *)
(* The servers of the network may offer different settings and leave some  *)
(* out; a mask, once it is there, separates Lan from REMOTE.               *)
(***************************************************************************)
EXTENDS PCNet, FiniteSets

CONSTANTS
  Lan,           \* hosts of the local network, routers included
  Askers,        \* the hosts of Lan that call the machine themselves
  REMOTE,        \* a host behind the routers
  Targets,       \* what is pinged
  NO_IP,         \* 0, of an address and of a mask
  BROADCAST,     \* ff:ff:ff:ff:ff:ff
  Net,           \* Net[mask][ip]: the bits of ip under the mask
  Offers,        \* what the DHCP servers offer: [ip, mask, router], where
                 \* mask and router may be NO_IP: the option is not there
  TRIES,         \* echo requests of one ping (4)
  MAX_COMMANDS,  \* bound: commands in one run
  MAX_CALLS,     \* bound: calls of the Askers in one run
  MAX_INBOUND    \* bound: frames on their way to the machine

ASSUME NetworkAssumption ==
  /\ {NO_IP, REMOTE, BROADCAST} \cap Lan = {} /\ Askers \subseteq Lan
  /\ Targets \subseteq Lan \cup {REMOTE}
  /\ \A o \in Offers : /\ o.ip \notin Lan \cup {NO_IP, REMOTE, BROADCAST}
                       /\ o.router \in Lan \cup {NO_IP}
  /\ \A o, d \in Offers : o.mask # NO_IP =>
       /\ \A ip \in Lan : Net[o.mask][ip] = Net[o.mask][d.ip]
       /\ Net[o.mask][REMOTE] # Net[o.mask][d.ip]
  /\ TRIES \in Nat \ {0}

VARIABLES
  nic,           \* the card and its rings, see PCNet
  my_ip, gateway_ip, subnet_mask,
  cache,         \* the one entry of ARP: [ip, mac]
  at,            \* what the processor is doing
  seen,          \* CSR0 as the interrupt handler read it
  ping,          \* the ping that runs: [ip, left]
  inbound,       \* frames on their way to the machine
  commands,      \* how many commands were given
  calls,         \* how often other hosts called
  taken          \* ghost: the offers that were taken

config == <<my_ip, gateway_ip, subnet_mask, cache, taken>>
vars   == <<nic, config, at, seen, ping, inbound, commands, calls>>

NO_PING == [ip |-> NO_IP, left |-> 0]

Init ==
  /\ nic = PCNetInit
  /\ my_ip = NO_IP /\ gateway_ip = NO_IP /\ subnet_mask = NO_IP
  /\ cache = [ip |-> NO_IP, mac |-> BROADCAST]
  /\ at = "idle" /\ seen = {}
  /\ ping = NO_PING
  /\ inbound = {}
  /\ commands = 0 /\ calls = 0
  /\ taken = {}

-----------------------------------------------------------------------------
(* What the machine sends.                                                 *)
ArpRequest(ip)    == [kind |-> "arp_request", ip |-> ip]
ArpReply(ip)      == [kind |-> "arp_reply", ip |-> ip]
Packet(load, ip, mac) == [kind |-> load, ip |-> ip, mac |-> mac]

(* IPv4::send_packet: addresses outside the local network go to the        *)
(* gateway, once there are a gateway and a mask.                           *)
Route(ip) ==
  IF /\ gateway_ip # NO_IP /\ subnet_mask # NO_IP
     /\ Net[subnet_mask][ip] # Net[subnet_mask][my_ip]
  THEN gateway_ip ELSE ip

(* A cache that is used without a look at its address.                     *)
Frames_AnyEntry(load, ip) ==
  IF cache.ip # NO_IP THEN <<Packet(load, ip, cache.mac)>>
  ELSE <<ArpRequest(Route(ip)), Packet(load, ip, BROADCAST)>>

(* ARP::resolve: a hit gives the address; a miss asks for it, and gives    *)
(* the gateway's when that is in the cache (for local addresses as well),  *)
(* else asks for the gateway too and gives the broadcast address.          *)
Frames(load, ip) ==
  LET target == Route(ip)
      hit    == cache.ip # NO_IP /\ cache.ip = target
      other  == gateway_ip # NO_IP /\ target # gateway_ip
      router == other /\ gateway_ip = cache.ip
      asks   == IF hit THEN <<>>
                ELSE IF other /\ ~router
                THEN <<ArpRequest(target), ArpRequest(gateway_ip)>>
                ELSE <<ArpRequest(target)>>
  IN  Append(asks, Packet(load, ip, IF hit \/ router THEN cache.mac ELSE BROADCAST))

(* Ethernet::send_packet hands each frame to the card as it is made.       *)
Send(load, ip) == nic' = SendFrames(nic, Frames(load, ip))

-----------------------------------------------------------------------------
(* ARP::handle_packet: any message for our address fills the cache.  The   *)
(* operation (1 asks, 2 answers) is compared with 0x0100 after its bytes   *)
(* were put in order.                                                      *)
HandleArp(f) ==
  /\ cache' = IF f.dest = my_ip THEN [ip |-> f.ip, mac |-> f.ip] ELSE cache
  /\ nic' = IF f.op = 256 /\ f.dest = my_ip
            THEN SendFrame(HandBack(nic), ArpReply(f.ip)) ELSE HandBack(nic)
  /\ UNCHANGED <<my_ip, gateway_ip, subnet_mask, taken>>

(* An offer that clears what it does not have.                             *)
HandleOffer_Clears(o) ==
  /\ my_ip' = o.ip /\ subnet_mask' = o.mask /\ gateway_ip' = o.router
  /\ taken' = taken \cup {o}
  /\ nic' = HandBack(nic)
  /\ UNCHANGED cache

(* DHCP::handle_packet: an offer is taken whenever it comes, and sets what *)
(* it has.                                                                 *)
HandleOffer(o) ==
  /\ my_ip' = o.ip
  /\ subnet_mask' = IF o.mask # NO_IP THEN o.mask ELSE subnet_mask
  /\ gateway_ip' = IF o.router # NO_IP THEN o.router ELSE gateway_ip
  /\ taken' = taken \cup {o}
  /\ nic' = HandBack(nic)
  /\ UNCHANGED cache

Drop ==
  /\ nic' = HandBack(nic)
  /\ UNCHANGED config

(* UDP::handle_packet knows one port, that of the DHCP client.             *)
HandleDatagram(f) ==
  \/ f.kind = "offer" /\ HandleOffer(f.offer)
  \/ f.kind = "datagram" /\ Drop

(* ICMP::handle_packet prints answers, and knows no requests.              *)
HandleEcho(f) == f.kind = "echo_reply" /\ Drop

(* TCP::handle_packet sends none, one or two segments to where f is from   *)
(* (an ACK and a FIN when the peer closes) before the slot of f is handed  *)
(* back.                                                                   *)
HandleSegment(f) ==
  /\ f.kind = "segment"
  /\ LET answer == Frames("segment", f.ip)
     IN  \E frames \in {<<>>, answer, answer \o answer} :
           nic' = HandBack(SendFrames(nic, frames))
  /\ UNCHANGED config

(* IPv4::handle_packet does not look at the destination.                   *)
HandlePacket(f) == HandleDatagram(f) \/ HandleEcho(f) \/ HandleSegment(f)

(* Ethernet::handle_packet of the next frame in the ring.                  *)
HandleFrame ==
  /\ HasFrame(nic)
  /\ LET f == NextFrame(nic)
     IN  \/ f.kind = "arp" /\ HandleArp(f)
         \/ HandlePacket(f)
  /\ UNCHANGED <<at, seen, ping, inbound, commands, calls>>

-----------------------------------------------------------------------------
(* The card's interrupt: receive when RINT is set, until the ring is       *)
(* empty, and acknowledge.  The break after 33 frames, more than the ring  *)
(* has, is left out.                                                       *)
Interrupt ==
  /\ at = "idle"
  /\ nic.iena /\ nic.pending # {}
  /\ at' = IF "RINT" \in nic.pending THEN "receive" ELSE "acknowledge"
  /\ seen' = nic.pending
  /\ UNCHANGED <<nic, config, ping, inbound, commands, calls>>

InterruptReceives == at = "receive" /\ HandleFrame

InterruptDrained ==
  /\ at = "receive"
  /\ ~HasFrame(nic)
  /\ at' = "acknowledge"
  /\ UNCHANGED <<nic, config, seen, ping, inbound, commands, calls>>

InterruptEnds ==
  /\ at = "acknowledge"
  /\ nic' = Acknowledge(nic, seen)
  /\ at' = "idle" /\ seen' = {}
  /\ UNCHANGED <<config, ping, inbound, commands, calls>>

-----------------------------------------------------------------------------
Command(next, p) ==
  /\ at = "idle"
  /\ commands < MAX_COMMANDS
  /\ commands' = commands + 1
  /\ at' = next
  /\ ping' = p
  /\ UNCHANGED <<nic, config, seen, inbound, calls>>

StartDhcp     == my_ip = NO_IP /\ Command("discover", NO_PING)
StartPing(ip) == Command("ping", [ip |-> ip, left |-> TRIES])

(* DHCP::discover: send, look at the ring for a while, and again, until    *)
(* there is an address.                                                    *)
Discover ==
  /\ at = "discover"
  /\ Send("discover", BROADCAST)
  /\ at' = "scan"
  /\ UNCHANGED <<config, seen, ping, inbound, commands, calls>>

Scan == at = "scan" /\ HandleFrame

(* A scan that goes on for ever.                                           *)
ScanEnds_NoRetry ==
  /\ at = "scan"
  /\ at' = IF my_ip # NO_IP THEN "idle" ELSE "scan"
  /\ UNCHANGED <<nic, config, seen, ping, inbound, commands, calls>>

(* The scan ends with an address, or when its rounds are over; frames may  *)
(* have come since the last look at the ring.                              *)
ScanEnds ==
  /\ at = "scan"
  /\ at' = IF my_ip # NO_IP THEN "idle" ELSE "discover"
  /\ UNCHANGED <<nic, config, seen, ping, inbound, commands, calls>>

(* ICMP::send_echo_request, and the wait for its answer.                   *)
Ping ==
  /\ at = "ping"
  /\ Send("echo", ping.ip)
  /\ at' = "wait"
  /\ ping' = [ping EXCEPT !.left = @ - 1]
  /\ UNCHANGED <<config, seen, inbound, commands, calls>>

Wait == at = "wait" /\ HandleFrame

WaitEnds ==
  /\ at = "wait"
  /\ IF ping.left > 0 THEN at' = "ping" /\ UNCHANGED ping
                      ELSE at' = "idle" /\ ping' = NO_PING
  /\ UNCHANGED <<nic, config, seen, inbound, commands, calls>>

-----------------------------------------------------------------------------
(* The other hosts answer what the card sends.                             *)
ArpFrom(host, op) == [kind |-> "arp", op |-> op, ip |-> host, dest |-> my_ip]

Answers(f) ==
  IF f.kind = "arp_request" /\ f.ip \in Lan THEN {ArpFrom(f.ip, 2)}
  ELSE IF f.kind = "echo" /\ (f.ip \in Lan \/ f.mac \in Lan)
  THEN {[kind |-> "echo_reply", ip |-> f.ip]}
  ELSE IF f.kind = "discover" THEN {[kind |-> "offer", offer |-> o] : o \in Offers}
  ELSE {}

CardTransmits ==
  /\ CanTransmit(nic)
  /\ LET answers == Answers(Transmitted(nic)) IN
     IF answers = {} THEN UNCHANGED inbound
     ELSE \E a \in answers : /\ Cardinality(inbound \cup {a}) <= MAX_INBOUND
                             /\ inbound' = inbound \cup {a}
  /\ nic' = Transmit(nic)
  /\ UNCHANGED <<config, at, seen, ping, commands, calls>>

CardReceives(f) ==
  /\ nic' = Receive(nic, f)
  /\ inbound' = inbound \ {f}
  /\ UNCHANGED <<config, at, seen, ping, commands, calls>>

Lose(f) ==
  /\ inbound' = inbound \ {f}
  /\ UNCHANGED <<nic, config, at, seen, ping, commands, calls>>

(* A host wants to know where the machine is, or sends it a TCP segment.   *)
SegmentFrom(host) == [kind |-> "segment", ip |-> host]

HostCalls(host) ==
  /\ my_ip # NO_IP
  /\ Cardinality(inbound) < MAX_INBOUND
  /\ calls < MAX_CALLS
  /\ calls' = calls + 1
  /\ \E f \in {ArpFrom(host, 1), SegmentFrom(host)} : inbound' = inbound \cup {f}
  /\ UNCHANGED <<nic, config, at, seen, ping, commands>>

(* A datagram comes for a port that nobody reads.  The scans of discover   *)
(* empty the ring faster than such datagrams come.                         *)
Chatter ==
  /\ at \in {"discover", "scan"} => ~HasFrame(nic)
  /\ nic' = Receive(nic, [kind |-> "datagram"])
  /\ UNCHANGED <<config, at, seen, ping, inbound, commands, calls>>

-----------------------------------------------------------------------------
Shell ==
  \/ StartDhcp \/ Discover \/ Scan \/ ScanEnds
  \/ \E ip \in Targets : StartPing(ip)
  \/ Ping \/ Wait \/ WaitEnds

Handler == Interrupt \/ InterruptReceives \/ InterruptDrained \/ InterruptEnds

World ==
  \/ CardTransmits
  \/ \E f \in inbound : CardReceives(f) \/ Lose(f)
  \/ \E host \in Askers : HostCalls(host)
  \/ Chatter

Next == Shell \/ Handler \/ World

Spec == Init /\ [][Next]_vars

(* The processor goes on with a command; a scan looks at the ring 60       *)
(* million times before it ends, so that a frame which is there again and  *)
(* again is handled.  The card goes on with its rings, frames do not stay  *)
(* on their way, and the network does not lose every offer for which the   *)
(* card has room.                                                          *)
OfferArrives ==
  /\ nic.rx[nic.card_rx].own
  /\ \E f \in inbound : f.kind = "offer" /\ CardReceives(f)

Fairness ==
  /\ WF_vars(Discover) /\ SF_vars(Scan) /\ WF_vars(ScanEnds)
  /\ SF_vars(CardTransmits)
  /\ WF_vars(\E f \in inbound : CardReceives(f) \/ Lose(f))
  /\ SF_vars(OfferArrives)

FairSpec == Spec /\ Fairness

-----------------------------------------------------------------------------
(* Type correctness.                                                       *)
TypeOK ==
  /\ nic.rx_index \in 0 .. RX - 1 /\ nic.card_rx \in 0 .. RX - 1
  /\ nic.tx_index \in 0 .. TX - 1 /\ nic.card_tx \in 0 .. TX - 1
  /\ my_ip \in {NO_IP} \cup {o.ip : o \in Offers}
  /\ gateway_ip \in Lan \cup {NO_IP}
  /\ subnet_mask \in {NO_IP} \cup {o.mask : o \in Offers}
  /\ taken \subseteq Offers
  /\ cache.mac \in Lan \cup {BROADCAST}
  /\ at \in {"idle", "receive", "acknowledge", "discover", "scan", "ping", "wait"}
  /\ ping.left \in 0 .. TRIES

(* The driver handles the frames that the card received, each once, in     *)
(* their order, whoever takes them out of the ring: the interrupt or the   *)
(* polling of a command (pcnet.cpp:162-202).                               *)
ReceivedInOrder == Received(nic)

(* The card sends the frames that the driver gave it, in their order, as   *)
(* long as no slot was taken that was not sent yet (pcnet.cpp:151-160).    *)
SentInOrder == ~nic.overrun => ToSend(nic)

(* Whatever host the one entry of the cache is about, an echo request for  *)
(* a host is never sent to a third one that is not the gateway of this     *)
(* moment, and one for a host elsewhere goes to the gateway or to all      *)
(* (arp.cpp:52, ipv4.cpp:71-82).  That the gateway also gets requests for  *)
(* local hosts is what GatewayForExternalOnly is about.                    *)
NotDiverted ==
  [][Ping => LET f == LastSent(nic)'
             IN  /\ f.kind = "echo" /\ f.ip = ping.ip
                 /\ f.mac \in {BROADCAST, gateway_ip}
                      \cup (IF ping.ip = REMOTE THEN {} ELSE {ping.ip})]_vars

(* "For external IPs, try gateway MAC if we have it cached", "If target is *)
(* not on local network, use gateway" (arp.cpp:61-63): with a mask that    *)
(* tells the two apart, no request for another host of the local network   *)
(* is sent to the gateway.                                                 *)
GatewayForExternalOnly ==
  [][Ping /\ subnet_mask # NO_IP /\ ping.ip \in Lan \ {gateway_ip}
     => LastSent(nic)'.mac # gateway_ip]_vars

(* Servers answer late, in any order, and each offer may leave out the     *)
(* mask or the router (dhcp.cpp:84-107): whatever mixture of offers the    *)
(* settings are, hosts of the local network are asked for themselves, and  *)
(* once one offer had a mask and one a router, packets for a host          *)
(* elsewhere go to a router that was offered (ipv4.cpp:75-79).             *)
RoutedByOffers ==
  /\ \A ip \in Lan : Route(ip) = ip
  /\ /\ \E o \in taken : o.mask # NO_IP
     /\ \E o \in taken : o.router # NO_IP
     => Route(REMOTE) \in {o.router : o \in taken} \ {NO_IP}

(* "Keep trying until we get an IP" (dhcp.cpp:48): a discover that was     *)
(* started gets an address by its retries and the polling alone, although  *)
(* offers are lost and other frames are in the rings.                      *)
DiscoverSucceeds == (at = "discover") ~> (my_ip # NO_IP)

(* The types, and both rings of the card in the order of their frames,     *)
(* whoever polls them (pcnet.cpp:151-202).                                 *)
RingsSound == TypeOK /\ ReceivedInOrder /\ SentInOrder
=============================================================================
