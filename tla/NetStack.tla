------------------------------- MODULE NetStack -------------------------------
(***************************************************************************)
(* The datagram side of the network stack: net/etherframe.c, arp.c, ipv4.c, *)
(* icmp.c, udp.c, dhcp.c, dns.c, skbuff.c and network.c.  (net/tcp.c is in  *)
(* module Tcp.)  One host runs the stack; the other stations of its         *)
(* segment are the environment, modelled from what the stack expects them   *)
(* to answer.  Every handler runs to completion in the receive softirq and  *)
(* interrupts the resolver's thread, so a handler is one step (one CPU).    *)
(*                                                                          *)
(* Addresses are small numbers.  Station s has MAC s and IP s; station 1 is *)
(* the gateway, behind which the name server Far lives; server s leases the *)
(* address 10 + s.  IP 0 is "not configured".                               *)
(***************************************************************************)
EXTENDS Integers, SequencesExt, FiniteSets

CONSTANTS NtLinks,    \* kinds of segment: "reliable", "faulty" (loses, repeats)
          NtServers,  \* stations 1..n, all of them DHCP servers
          NtNames,    \* host names
          NtIds,      \* values of the 16-bit DNS query id
          NtPorts,    \* ephemeral ports used before the bound stops queries
          NtCache,    \* entries of the ARP cache (128)
          NtFlight    \* bound on the frames in transit

VARIABLES ntLink,  \* the kind of segment
          host,    \* the stack's state
          air,     \* frames in transit, one copy per receiving station
          asked,   \* the name the resolver was called with, 0 when idle
          told     \* what the last call returned: <<name, name answered>>

ntVars == <<ntLink, host, air, asked, told>>

Me     == 100
Bcast  == 99     \* JLOS_IPV4_BROADCAST and JLOS_ETHER_BROADCAST_MAC
Far    == 50
NoMac  == 98     \* 0xFFFFFFFFFFFF as jlos_arp_get_mac_from_cache returns it
Leased(s) == 10 + s
Station(ip) == IF ip = Far THEN 1 ELSE ip

\* A frame: its kind, the station it reaches (at), MACs, IPs, ports, payload.
Packet(kind, dip, sp, dp, x, y) ==
  [kind |-> kind, at |-> 0, to |-> 0, from |-> Me, sip |-> 0, dip |-> dip,
   sp |-> sp, dp |-> dp, x |-> x, y |-> y]

IsUdp(f) == f.kind \in {"discover", "offer", "request", "ack", "nak", "query", "answer"}
IsArp(f) == f.kind \in {"arp_req", "arp_rep"}

\* The copies of our frame that reach a station; of a broadcast, those that
\* concern it (the others are ignored on arrival).
OnAir(f) ==
  IF f.to # Bcast THEN {[f EXCEPT !.at = f.to]}
  ELSE {[f EXCEPT !.at = s] : s \in
          {t \in NtServers : /\ f.kind = "arp_req" => f.dip = t
                             /\ f.kind = "request" => f.y = t}}

------------------------------------------------------------------------------
(* Buffers.  r = [h, out]: the host's state and the frames it has sent.      *)

jlos_net_skb_alloc(r) == [r EXCEPT !.h.skbs = @ + 1]

jlos_net_skb_free(r) == [r EXCEPT !.h.skbs = @ - 1]

jlos_ether_frame_provider_send(r, f) ==
  jlos_net_skb_free([r EXCEPT !.out = @ \cup OnAir([f EXCEPT !.from = Me])])

------------------------------------------------------------------------------
(* ARP.                                                                      *)

jlos_arp_request_mac_address(r, ip) ==
  LET f == [Packet("arp_req", ip, 0, 0, 0, 0) EXCEPT !.to = Bcast, !.sip = r.h.ip]
  IN  jlos_ether_frame_provider_send(jlos_net_skb_alloc(r), f)

\* The entries are searched from the oldest on.
jlos_arp_get_mac_from_cache(h, ip) ==
  LET hits == {i \in DOMAIN h.cache : h.cache[i].ip = ip}
  IN  IF hits = {} THEN NoMac
      ELSE h.cache[CHOOSE i \in hits : \A j \in hits : i <= j].mac

\* An answer to us swaps the addresses of the request; a reply is appended.
jlos_arp_on_ether_frame_received(r, f) ==
  LET h == r.h IN
  [r  |-> IF /\ f.dip = h.ip
             /\ f.kind = "arp_rep"
             /\ Len(h.cache) < NtCache
          THEN [r EXCEPT !.h.cache = Append(@, [ip |-> f.sip, mac |-> f.from])]
          ELSE r,
   back |-> f.dip = h.ip /\ f.kind = "arp_req",
   f  |-> [f EXCEPT !.kind = "arp_rep", !.dip = f.sip, !.sip = h.ip]]

------------------------------------------------------------------------------
(* IPv4 output.                                                              *)

\* Same subnet as our own address; with mask 0 every address is.
OnSubnet(h, ip) == h.subnet_mask => ip # Far

\* A miss asks for the address and drops the packet.
jlos_internet_protocol_provider_send(r, dip, f) ==
  LET h     == r.h
      g     == [f EXCEPT !.dip = dip, !.sip = h.ip]
      route == IF OnSubnet(h, dip) THEN dip ELSE h.gateway
      mac   == jlos_arp_get_mac_from_cache(h, route)
  IN  IF dip = Bcast
      THEN jlos_ether_frame_provider_send(r, [g EXCEPT !.to = Bcast])
      ELSE IF mac = NoMac
      THEN jlos_net_skb_free(jlos_arp_request_mac_address(r, route))
      ELSE jlos_ether_frame_provider_send(r, [g EXCEPT !.to = mac])

jlos_icmp_request_echo_reply(r, ip) ==
  jlos_internet_protocol_provider_send(jlos_net_skb_alloc(r), ip,
                                       Packet("echo_req", ip, 0, 0, 0, 0))

------------------------------------------------------------------------------
(* UDP sockets, kept by owner.                                               *)

NoSocket == [open |-> FALSE, lip |-> 0, lport |-> 0, rip |-> 0, rport |-> 0,
             listening |-> FALSE]

jlos_udp_provider_listen(h, who, port) ==
  [h EXCEPT !.sock[who] = [NoSocket EXCEPT !.open = TRUE, !.listening = TRUE,
                                           !.lport = port, !.lip = h.ip]]

jlos_udp_provider_connect(h, who, ip, port) ==
  [h EXCEPT !.free_port = @ + 1,
            !.sock[who] = [open |-> TRUE, lip |-> h.ip, lport |-> h.free_port,
                           rip |-> ip, rport |-> port, listening |-> FALSE]]

jlos_udp_provider_disconnect(h, who) == [h EXCEPT !.sock[who] = NoSocket]

jlos_udp_provider_send(r, who, f) ==
  LET s == r.h.sock[who] IN
  jlos_internet_protocol_provider_send(jlos_net_skb_alloc(r), s.rip,
    [f EXCEPT !.sp = s.lport, !.dp = s.rport])

\* Hash lookup under (destination, port), or under (0, port) for a broadcast.
udp_match_socket(s, f) ==
  /\ s.open
  /\ s.lport = f.dp
  /\ \/ s.lip = f.dip
     \/ f.dip = Bcast /\ s.lip = 0
  /\ s.listening \/ (s.rip = f.sip /\ s.rport = f.sp)

------------------------------------------------------------------------------
(* DHCP client.                                                              *)

jlos_dhcp_send_broadcast(r, f) ==
  jlos_udp_provider_send([r EXCEPT !.h.sock["dhcp"].rip = Bcast,
                                   !.h.sock["dhcp"].rport = 67], "dhcp", f)

jlos_dhcp_client_request(r) ==
  LET d == r.h.dhcp IN
  [jlos_dhcp_send_broadcast(r, Packet("request", 0, 0, 0, d.offered_ip, d.server_id))
     EXCEPT !.h.dhcp.state = "requesting"]

\* Fault: an offer is taken in any state.
jlos_dhcp_handle_offer_Late(r, f) ==
  IF r.h.dhcp.state \notin {"selecting", "requesting"} THEN r
  ELSE jlos_dhcp_client_request([r EXCEPT !.h.dhcp.offered_ip = f.x, !.h.dhcp.server_id = f.y])

jlos_dhcp_handle_offer(r, f) ==
  IF r.h.dhcp.state # "selecting" THEN r
  ELSE jlos_dhcp_client_request([r EXCEPT !.h.dhcp.offered_ip = f.x, !.h.dhcp.server_id = f.y])

\* The address of the acknowledgement with the options it carries;
\* jlos_network_apply_config hands them to the device and to IPv4.
jlos_dhcp_handle_ack(r, f) ==
  IF r.h.dhcp.state # "requesting" THEN r
  ELSE [r EXCEPT !.h.ip = f.x, !.h.gateway = 1, !.h.dns_server = Far,
                 !.h.subnet_mask = TRUE, !.h.dhcp.state = "bound"]

jlos_dhcp_on_message(r, f) ==
  CASE f.kind = "offer" -> jlos_dhcp_handle_offer(r, f)
    [] f.kind = "ack"   -> jlos_dhcp_handle_ack(r, f)
    [] f.kind = "nak"   -> [r EXCEPT !.h.dhcp.state = "failed"]
    [] OTHER -> r

------------------------------------------------------------------------------
(* DNS resolver.                                                             *)

jlos_dns_on_response(r, f) ==
  IF f.kind # "answer" \/ f.x # r.h.dns.query_id THEN r
  ELSE [r EXCEPT !.h.dns.resolved_ip = f.y, !.h.dns.resolved = TRUE]

------------------------------------------------------------------------------
(* Input.                                                                    *)

\* A listening socket answers to whoever spoke last; a datagram that found a
\* socket is sent back to its sender, ports unchanged.
jlos_udp_provider_on_internet_protocol_received(r, f) ==
  LET hit == {who \in DOMAIN r.h.sock : udp_match_socket(r.h.sock[who], f)} IN
  IF hit = {} THEN [r |-> r, back |-> FALSE, f |-> f]
  ELSE LET who == CHOOSE w \in hit : TRUE
           q   == IF r.h.sock[who].listening
                  THEN [r EXCEPT !.h.sock[who].rip = f.sip, !.h.sock[who].rport = f.sp]
                  ELSE r
       IN  [r    |-> IF who = "dhcp" THEN jlos_dhcp_on_message(q, f)
                     ELSE jlos_dns_on_response(q, f),
            back |-> TRUE, f |-> f]

jlos_icmp_on_internet_protocol_received(r, f) ==
  [r |-> r, back |-> f.kind = "echo_req", f |-> [f EXCEPT !.kind = "echo_rep"]]

jlos_internet_protocol_provider_on_ether_frame_received(r, f) ==
  IF f.dip \notin {r.h.ip, Bcast} THEN [r |-> r, back |-> FALSE, f |-> f]
  ELSE LET q == IF IsUdp(f) THEN jlos_udp_provider_on_internet_protocol_received(r, f)
                ELSE jlos_icmp_on_internet_protocol_received(r, f)
       IN  [q EXCEPT !.f.dip = f.sip, !.f.sip = f.dip]

\* The frame is copied to a buffer of ours; without memory it is lost.
jlos_ether_frame_provider_on_raw_data_received(h, f) ==
  LET r == jlos_net_skb_alloc([h |-> h, out |-> {}])
      q == IF IsArp(f) THEN jlos_arp_on_ether_frame_received(r, f)
           ELSE jlos_internet_protocol_provider_on_ether_frame_received(r, f)
      b == [q.f EXCEPT !.to = f.from, !.from = Me, !.at = f.from]
  IN  IF f.to \notin {Bcast, Me} THEN jlos_net_skb_free(r)
      ELSE jlos_net_skb_free(IF q.back THEN [q.r EXCEPT !.out = @ \cup {b}] ELSE q.r)

------------------------------------------------------------------------------
(* The specification.                                                        *)

\* network_init with an unconfigured device; DHCP listens before it has an IP.
NtInit ==
  /\ ntLink \in NtLinks
  /\ host = jlos_udp_provider_listen(
       [ip |-> 0, gateway |-> 0, subnet_mask |-> FALSE, dns_server |-> 0, skbs |-> 0,
        cache |-> <<>>, free_port |-> 1000,
        sock |-> [dhcp |-> NoSocket, dns |-> NoSocket],
        dhcp |-> [state |-> "init", offered_ip |-> 0, server_id |-> 0],
        dns |-> [query_id |-> 0, resolved |-> FALSE, resolved_ip |-> 0]], "dhcp", 68)
  /\ air = {}
  /\ asked = 0
  /\ told = <<0, 0>>

Room(n) == Cardinality(air) + n <= NtFlight

\* A faulty segment never holds more than the bound.
Holds(frames) == ntLink = "faulty" => Cardinality(frames) <= NtFlight

\* jlos_network_dhcp_start, once, from an initcall.
jlos_dhcp_client_discover ==
  /\ host.dhcp.state = "init"
  /\ Room(Cardinality(NtServers))
  /\ LET r == jlos_dhcp_send_broadcast([h |-> host, out |-> {}], Packet("discover", 0, 0, 0, 0, 0))
     IN  /\ host' = [r.h EXCEPT !.dhcp.state = "selecting"]
         /\ air' = air \cup r.out
  /\ UNCHANGED <<ntLink, asked, told>>

Ping(ip) ==
  /\ host.dhcp.state = "bound"
  /\ Room(1)
  /\ LET r == jlos_icmp_request_echo_reply([h |-> host, out |-> {}], ip)
     IN  host' = r.h /\ air' = air \cup r.out
  /\ UNCHANGED <<ntLink, asked, told>>

\* jlos_dns_resolve up to its wait; the id is the clock's low half.
ResolveBegin(name) ==
  /\ asked = 0
  /\ host.dns_server # 0
  /\ host.free_port < 1000 + NtPorts
  /\ Room(1)
  /\ \E id \in NtIds :
       LET h == [jlos_udp_provider_connect(host, "dns", host.dns_server, 53)
                   EXCEPT !.dns = [query_id |-> id, resolved |-> FALSE, resolved_ip |-> 0]]
           r == jlos_udp_provider_send([h |-> h, out |-> {}], "dns",
                                       Packet("query", 0, 0, 0, id, name))
       IN  host' = r.h /\ air' = air \cup r.out
  /\ asked' = name
  /\ UNCHANGED <<ntLink, told>>

ResolveEnd ==
  /\ asked # 0
  /\ host.dns.resolved
  /\ told' = <<asked, host.dns.resolved_ip>>
  /\ host' = jlos_udp_provider_disconnect(host, "dns")
  /\ asked' = 0
  /\ UNCHANGED <<ntLink, air>>

ResolveTimeout ==
  /\ asked # 0
  /\ ~host.dns.resolved
  /\ host' = jlos_udp_provider_disconnect(host, "dns")
  /\ asked' = 0
  /\ UNCHANGED <<ntLink, air, told>>

\* What stays in transit once f has been received.
Left(f) == {air \ {f}} \cup (IF ntLink = "faulty" THEN {air} ELSE {})

Receive ==
  \E f \in air :
    /\ f.at = Me
    /\ LET r == jlos_ether_frame_provider_on_raw_data_received(host, f)
       IN  /\ host' = r.h
           /\ \E rest \in Left(f) : air' = rest \cup r.out
           /\ Holds(air')
    /\ UNCHANGED <<ntLink, asked, told>>

\* A frame the segment loses, or the stack for want of a buffer.
Lose ==
  /\ ntLink = "faulty"
  /\ \E f \in air : air' = air \ {f}
  /\ UNCHANGED <<ntLink, host, asked, told>>

\* What a station sends on receiving f; a server acknowledges or refuses.
Answers(f) ==
  LET s    == f.at
      back == [f EXCEPT !.to = f.from, !.from = s, !.sip = f.dip, !.dip = f.sip,
                        !.sp = f.dp, !.dp = f.sp, !.at = Me]
      cast == [f EXCEPT !.to = Bcast, !.from = s, !.sip = s, !.dip = Bcast,
                        !.sp = 67, !.dp = 68, !.at = Me]
  IN  CASE f.kind = "arp_req" /\ f.dip = s -> {[back EXCEPT !.kind = "arp_rep"]}
        [] f.kind = "echo_req" -> {[back EXCEPT !.kind = "echo_rep"]}
        [] f.kind = "discover" -> {[cast EXCEPT !.kind = "offer", !.x = Leased(s), !.y = s]}
        [] f.kind = "request" /\ f.y = s ->
             {[cast EXCEPT !.kind = k, !.y = 0] : k \in {"ack", "nak"}}
        [] f.kind = "query" /\ f.dip = Far -> {[back EXCEPT !.kind = "answer"]}
        [] OTHER -> {}

Answer ==
  \E f \in air :
    /\ f.at # Me
    /\ \E rest \in Left(f) :
         IF Answers(f) = {} THEN air' = rest
         ELSE \E g \in Answers(f) : air' = rest \cup {g}
    /\ Holds(air')
    /\ UNCHANGED <<ntLink, host, asked, told>>

\* A station asks for our address or pings us.
Ask(s, kind) ==
  /\ host.dhcp.state = "bound"
  /\ Room(1)
  /\ air' = air \cup {[Packet(kind, host.ip, 0, 0, 0, 0)
                         EXCEPT !.from = s, !.sip = s, !.at = Me,
                                !.to = IF kind = "arp_req" THEN Bcast ELSE Me]}
  /\ UNCHANGED <<ntLink, host, asked, told>>

NtNext ==
  \/ jlos_dhcp_client_discover
  \/ \E ip \in NtServers \cup {Far} : Ping(ip)
  \/ \E n \in NtNames : ResolveBegin(n)
  \/ ResolveEnd
  \/ ResolveTimeout
  \/ Receive
  \/ Lose
  \/ Answer
  \/ \E s \in NtServers, k \in {"arp_req", "echo_req"} : Ask(s, k)

NtFairness ==
  /\ WF_ntVars(jlos_dhcp_client_discover)
  /\ WF_ntVars(Receive)
  /\ WF_ntVars(Answer)

NtSpec == NtInit /\ [][NtNext]_ntVars /\ NtFairness

------------------------------------------------------------------------------
(* Properties.                                                               *)

\* The stack's state keeps its shape.
NtTypeOK ==
  /\ ntLink \in NtLinks
  /\ host.skbs \in Int
  /\ host.dhcp.state \in {"init", "selecting", "requesting", "bound", "failed"}
  /\ Len(host.cache) <= NtCache
  /\ asked \in NtNames \cup {0}

\* Between two calls into the stack no buffer is held: every path of a send
\* or a receive, the ARP miss that drops the packet and the handler that sends
\* the received frame back included, frees each skb once.
SkbsFreed == host.skbs = 0

\* A unicast IP frame the host sends carries the MAC of the station that
\* serves its destination, the gateway's for an address off the subnet.
SentToRoute ==
  \A f \in air : (f.from = Me /\ ~IsArp(f) /\ f.to # Bcast) => f.to = Station(f.dip)

\* The address in use is the one the chosen server leased, whatever offers of
\* other servers arrive before, between or after, lost or repeated.
AddressLeased ==
  host.ip # 0 => /\ host.ip = host.dhcp.offered_ip
                 /\ host.ip = Leased(host.dhcp.server_id)

\* A successful jlos_dns_resolve returns the answer to its own question, even
\* when answers to queries that timed out arrive later and ids repeat.
DnsAnswersOwn == told[1] = told[2]

\* On a segment that loses nothing the client settles: it is bound or refused.
DhcpSettles == []<>(ntLink = "reliable" => host.dhcp.state \in {"bound", "failed"})
==============================================================================
