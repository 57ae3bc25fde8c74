------------------------------- MODULE NetStack ------------------------------
(***************************************************************************)
(* The network stack of src/kernel/net/ up to UDP and DHCP, as operations  *)
(* on an interface                                                         *)
(*   c = [mac, ip, mask, gw, dns, arp, up, ...]  (and NetDevice's fields)  *)
(* and the DHCP client dh.  An IPv4 address is the sequence of its octets, *)
(* a frame a record with the fields its kind needs; ok is FALSE when a     *)
(* length or a checksum is wrong.                                          *)
(***************************************************************************)
EXTENDS NetDevice, FiniteSets

CONSTANTS
  ArpCap        \* ARP_TABLE_CAPACITY

AnyIp == <<0, 0, 0, 0>>
Broadcast == <<255, 255, 255, 255>>
MacBroadcast == "ff"
MacZero == "00"

------------------------------------------------------------------------------
(* ARP *)

Known(c, ip) == {i \in DOMAIN c.arp : c.arp[i].ip = ip}

\* Mutant: an entry that is there is not updated.
ArpInsertKeeps(c, ip, mac) ==
  IF ip = AnyIp \/ mac \in {MacZero, MacBroadcast} \/ Known(c, ip) # {} THEN c
  ELSE IF Len(c.arp) < ArpCap THEN [c EXCEPT !.arp = Append(@, [ip |-> ip, mac |-> mac])]
  ELSE [c EXCEPT !.arp[1] = [ip |-> ip, mac |-> mac]]

\* insert: the entry of this address, else the first free one, else the first.
ArpInsert(c, ip, mac) ==
  IF ip = AnyIp \/ mac \in {MacZero, MacBroadcast} THEN c
  ELSE IF Known(c, ip) # {} THEN [c EXCEPT !.arp[CHOOSE i \in Known(c, ip) : TRUE].mac = mac]
  ELSE IF Len(c.arp) < ArpCap THEN [c EXCEPT !.arp = Append(@, [ip |-> ip, mac |-> mac])]
  ELSE [c EXCEPT !.arp[1] = [ip |-> ip, mac |-> mac]]

\* send_ethernet.
SendEthernet(c, frame) == IF c.up THEN Transmit(c, frame) ELSE c

ArpFrame(c, dst, op, tip) ==
  [kind |-> "arp", dst |-> dst, src |-> c.mac, op |-> op, sip |-> c.ip, smac |-> c.mac,
   tip |-> tip, ok |-> TRUE]
SendArpRequest(c, tip) == SendEthernet(c, ArpFrame(c, MacBroadcast, "request", tip))
SendArpReply(c, tip, tmac) == SendEthernet(c, ArpFrame(c, tmac, "reply", tip))

ArpHandlePacket(c, f) ==
  IF ~f.ok THEN c
  ELSE The({IF f.op = "request" /\ f.tip = c.ip THEN SendArpReply(k, f.sip, f.smac) ELSE k :
              k \in {ArpInsert(c, f.sip, f.smac)}})

------------------------------------------------------------------------------
(* IPv4, ICMP and UDP *)

\* The octets of an address under a mask of whole octets.
Masked(ip, mask) == [i \in 1..4 |-> IF mask[i] = 255 THEN ip[i] ELSE 0]
NextHop(c, dst) == IF Masked(dst, c.mask) = Masked(c.ip, c.mask) THEN dst ELSE c.gw

IpFrame(c, mac, dst, proto, body) ==
  [kind |-> "ip", dst |-> mac, src |-> c.mac, sip |-> c.ip, dip |-> dst, proto |-> proto,
   body |-> body, ok |-> TRUE]

\* send_ipv4: a next hop that is not in the cache is asked for, and the packet
\* goes to everybody.
SendIpv4(c, dst, proto, body) ==
  LET hop == NextHop(c, dst)
  IN IF ~c.up THEN c
     ELSE IF dst = Broadcast THEN SendEthernet(c, IpFrame(c, MacBroadcast, dst, proto, body))
     ELSE IF Known(c, hop) # {}
     THEN SendEthernet(c, IpFrame(c, c.arp[CHOOSE i \in Known(c, hop) : TRUE].mac,
                                  dst, proto, body))
     ELSE The({SendEthernet(k, IpFrame(k, MacBroadcast, dst, proto, body)) :
                 k \in {SendArpRequest(c, hop)}})

\* handle_ipv4: what it drops.
IpAccepts(c, f) == f.ok /\ (f.dip \in {c.ip, Broadcast} \/ c.ip = AnyIp)

\* IcmpEngine::handle_packet.
IcmpHandlePacket(c, f) ==
  IF f.body = "echo" THEN SendIpv4(c, f.sip, "icmp", "reply") ELSE c

UdpSend(c, dst, body) == SendIpv4(c, dst, "udp", body)

------------------------------------------------------------------------------
(* DHCP.  dh = [st, xid, offered, server, valid]                           *)

\* DhcpClient::init.
DhcpInit(dh) == [dh EXCEPT !.st = "Init", !.valid = FALSE]

DhcpMsg(type, dh, yi) == [type |-> type, xid |-> dh.xid, yi |-> yi, server |-> dh.server,
                          mask |-> AnyIp, router |-> AnyIp, dns |-> AnyIp]

\* send_discover and send_request: [c, dh].
SendDiscover(c, dh) ==
  [dh |-> [dh EXCEPT !.st = "DiscoverSent"],
   c |-> UdpSend(c, Broadcast, DhcpMsg("discover", [dh EXCEPT !.server = AnyIp], AnyIp))]
SendRequest(c, dh) ==
  [dh |-> [dh EXCEPT !.st = "RequestSent"],
   c |-> UdpSend(c, Broadcast, DhcpMsg("request", dh, dh.offered))]

\* set_gateway.
SetGateway(c, gw) ==
  LET k == [c EXCEPT !.gw = gw] IN IF gw # AnyIp /\ c.up THEN SendArpRequest(k, gw) ELSE k

\* The answer to a DHCPACK: the lease is valid and the interface is set up.
Bind(c, dh, m) ==
  LET k == [c EXCEPT !.ip = dh.offered, !.mask = IF m.mask # AnyIp THEN m.mask ELSE @]
      g == IF m.router # AnyIp THEN SetGateway(k, m.router) ELSE k
  IN [dh |-> [dh EXCEPT !.st = "Bound", !.valid = TRUE],
      c |-> [g EXCEPT !.dns = IF m.dns # AnyIp THEN m.dns ELSE @]]

\* Mutant: an offer is taken up also when another has been requested.
HandleUdpAnyOffer(c, dh, m) ==
  IF m.xid # dh.xid THEN [c |-> c, dh |-> dh]
  ELSE IF m.type = "offer" /\ dh.st \in {"DiscoverSent", "RequestSent"}
  THEN SendRequest(c, [dh EXCEPT !.offered = m.yi, !.server = m.server])
  ELSE IF m.type = "ack" /\ dh.st = "RequestSent" THEN Bind(c, dh, m)
  ELSE [c |-> c, dh |-> dh]

\* handle_udp: [c, dh].
HandleUdp(c, dh, m) ==
  IF m.xid # dh.xid THEN [c |-> c, dh |-> dh]
  ELSE IF m.type = "offer" /\ dh.st = "DiscoverSent"
  THEN SendRequest(c, [dh EXCEPT !.st = "OfferReceived", !.offered = m.yi, !.server = m.server])
  ELSE IF m.type = "ack" /\ dh.st = "RequestSent" THEN Bind(c, dh, m)
  ELSE [c |-> c, dh |-> dh]

\* UdpEngine::handle_packet: only the DHCP client has registered a port.
UdpHandlePacket(c, dh, f) ==
  IF f.body.port # 68 THEN [c |-> c, dh |-> dh] ELSE HandleUdp(c, dh, f.body)

==============================================================================
