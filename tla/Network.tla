------------------------------- MODULE Network -------------------------------
(***************************************************************************)
(* The network from boot to remote management: configure_all brings the    *)
(* first interface up by DHCP or from the configuration file and starts the*)
(* management server; after that two threads poll the interface, the boot  *)
(* thread's main loop and the shell's read system call.                    *)
(*                                                                         *)
(* A poller takes a frame off the receive ring (m_rx_lock), hands it on,   *)
(* looks the connection of a TCP segment up (s_tcp_lock), lets it handle   *)
(* the segment (m_conn_lock), and then makes the callbacks, one step each: *)
(* between two steps the other poller runs.                                *)
(*                                                                         *)
(* External: the wire delivers any frame of the setup at any time, in any  *)
(* order and any number of times, the DHCP servers answer what was sent.   *)
(***************************************************************************)
EXTENDS Mgmt, NetConfig

CONSTANTS
  Setups,      \* the machines: nics, the network functions on the PCI bus, a sequence of
               \*   [nrx, ntx, bar, mem]; config, etc and token, the files; frames, what
               \*   the wire may deliver besides the DHCP servers' answers; offers, those
               \*   servers' offers; max, a bound on the frames delivered
  DefaultToken,
  RetryOffer, RetryAck, MaxPolls,   \* 30, 60 and 80 in request_lease
  MaxNics,     \* MAX_NET_DEVICES
  MaxStalls    \* bound: the device stops sending this often

VARIABLES
  phase,    \* "boot", "dhcp", "run" or "off"
  c,        \* the first interface (NetStack)
  dh,       \* the DHCP client
  others,   \* interfaces besides the first that will be registered
  cfg, setup, polls, how,
  conns, ls, ss, token, power,
  pc,       \* per poller: [at, f, k, cbs]
  frames, stalls,   \* bounds
  asked, granted,   \* history: DHCP messages sent; addresses acknowledged
  heard,            \* history: the MAC address last taken for an IP address
  wrong, right,     \* history of Mgmt
  overlap           \* history: two pollers were handling frames at once

vars == <<phase, c, dh, others, cfg, setup, polls, how, conns, ls, ss, token, power, pc,
          frames, stalls, asked, granted, heard, wrong, right, overlap>>

Pollers == {"boot", "shell"}
Polling == [at |-> "poll", f |-> NoFrame, k |-> 0, cbs |-> <<>>]

Blank == [mac |-> "m0", ip |-> AnyIp, mask |-> AnyIp, gw |-> AnyIp, dns |-> AnyIp,
          arp |-> <<>>, up |-> FALSE, rx |-> QueueInit(0), tx |-> QueueInit(0),
          addr |-> <<>>, buf |-> <<>>, rseen |-> 0, tseen |-> 0, late |-> FALSE, out |-> <<>>]

World == [c |-> c, conns |-> conns, ss |-> ss, token |-> token, power |-> power,
          wrong |-> wrong, right |-> right]

Init ==
  /\ phase = "boot" /\ c = Blank /\ others = 0
  /\ dh = [st |-> "Init", xid |-> 0, offered |-> AnyIp, server |-> AnyIp, valid |-> FALSE]
  /\ cfg = DefaultConfig /\ setup \in Setups /\ polls = 0 /\ how = "none"
  /\ conns = TcpInit /\ ls = <<>> /\ ss = [s \in 1..MaxSessions |-> NoSession]
  /\ token = DefaultToken /\ power = 0
  /\ pc = [p \in Pollers |-> Polling]
  /\ frames = 0 /\ stalls = 0 /\ asked = {} /\ granted = {} /\ heard = {}
  /\ wrong = [k \in 1..MaxConns |-> 0] /\ right = [k \in 1..MaxConns |-> FALSE]
  /\ overlap = FALSE

\* What the device sent in this step is on the wire; the servers see it.
Put(x) ==
  /\ c' = [x EXCEPT !.out = <<>>]
  /\ asked' = asked \cup {x.out[i].body : i \in {j \in DOMAIN x.out :
                                                   x.out[j].kind = "ip" /\ x.out[j].proto = "udp"}}

------------------------------------------------------------------------------
(* configure_all *)

\* The end of configure_all: every other interface is registered, which starts
\* TCP and the DHCP client afresh, and the management server is started.
Finish(d, h, n, port) ==
  /\ phase' = "run"
  /\ how' = h
  /\ dh' = IF n > 0 THEN DhcpInit(d) ELSE d
  /\ conns' = IF n > 0 THEN TcpInit ELSE conns
  /\ token' = LoadToken(setup.token, token)
  /\ ls' = Listen(IF n > 0 THEN <<>> ELSE ls, port)
  /\ ss' = [s \in 1..MaxSessions |-> NoSession]

\* probe_all, the configuration file, the first interface, and the first message
\* of request_lease or the static configuration.
Configure ==
  /\ phase = "boot"
  /\ LET good == SelectSeq(setup.nics, LAMBDA n : DeviceOk(n.nrx, n.ntx, n.bar, n.mem))
       IN IF good = <<>>
          THEN phase' = "run" /\ UNCHANGED <<c, dh, others, cfg, how, conns, ls, ss, token, asked>>
          ELSE \E x \in {[DeviceInit(Blank, good[1].nrx, good[1].ntx) EXCEPT !.up = TRUE]},
                  g \in {ReadConfig(setup.config, setup.etc)} :
               /\ cfg' = g
               /\ others' = (IF Len(good) > MaxNics THEN MaxNics ELSE Len(good)) - 1
               /\ IF g.dhcp
                  THEN \E r \in {SendDiscover(x, [DhcpInit(dh) EXCEPT !.xid = @ + 1])} :
                         /\ phase' = "dhcp" /\ dh' = r.dh /\ Put(r.c)
                         /\ UNCHANGED <<how, conns, ls, ss, token>>
                  ELSE /\ Put(StaticFallback(x, g))
                       /\ Finish(DhcpInit(dh), IF g.ip # AnyIp THEN "static" ELSE "none",
                                 others', g.port)
  /\ UNCHANGED <<setup, polls, power, pc, frames, stalls, granted, heard, wrong, right, overlap>>

\* The body of request_lease's loop once poll has found nothing more.
LeasePoll ==
  /\ phase = "dhcp" /\ pc["boot"].at = "poll"
  /\ \E r \in {PollRx(c)} :
       /\ r.frame = NoFrame
       /\ polls' = polls + 1
       /\ IF dh.st = "Bound" THEN Put(r.c) /\ Finish(dh, "dhcp", others, cfg.port)
          ELSE \E s \in {IF polls = RetryOffer /\ dh.st = "DiscoverSent" THEN SendDiscover(r.c, dh)
                         ELSE IF polls = RetryAck /\ dh.st = "RequestSent" THEN SendRequest(r.c, dh)
                         ELSE [c |-> r.c, dh |-> dh]} :
               IF polls + 1 < MaxPolls
               THEN /\ Put(s.c) /\ dh' = s.dh
                    /\ UNCHANGED <<phase, how, conns, token, ls, ss>>
               ELSE /\ Put(StaticFallback(s.c, cfg))
                    /\ Finish([s.dh EXCEPT !.st = "Failed"],
                              IF cfg.ip # AnyIp THEN "static" ELSE "none", others, cfg.port)
  /\ UNCHANGED <<others, cfg, setup, power, pc, frames, stalls, granted, heard, wrong, right,
                 overlap>>

------------------------------------------------------------------------------
(* NetInterface::poll *)

Busy == {p \in Pollers : pc[p].at # "poll"}

Receivable(f) == f.dst \in {c.mac, MacBroadcast}

\* The sender's addresses that poll caches for a frame.
Sender(f) == [ip |-> f.sip, mac |-> IF f.kind = "arp" THEN f.smac ELSE f.src]
Caches(f) == Receivable(f) /\ (f.kind = "ip" \/ f.ok) /\ f.sip # AnyIp
             /\ Sender(f).mac \notin {MacZero, MacBroadcast}

\* poll_rx of either poller.
TakeFrame(p) ==
  /\ phase = "run" \/ (phase = "dhcp" /\ p = "boot")
  /\ pc[p].at = "poll" /\ HasUsedBuffer(c.rx)
  /\ \E r \in {PollRx(c)} :
       /\ phase = "dhcp" => r.frame # NoFrame
       /\ c' = r.c
       /\ IF r.frame = NoFrame THEN UNCHANGED <<pc, heard, overlap>>
          ELSE /\ pc' = [pc EXCEPT ![p] = [Polling EXCEPT !.at = "frame", !.f = r.frame]]
               /\ overlap' = (overlap \/ Busy # {})
               /\ heard' = IF ~Caches(r.frame) THEN heard
                           ELSE {h \in heard : h.ip # r.frame.sip} \cup {Sender(r.frame)}
  /\ UNCHANGED <<phase, dh, others, cfg, setup, polls, how, conns, ls, ss, token, power,
                 frames, stalls, asked, granted, wrong, right>>

\* The body of poll's loop, with handle_ipv4 and the handlers below it, up to the
\* segment of a TCP connection.
HandleFrame(p) ==
  /\ phase # "off" /\ pc[p].at = "frame"
  /\ LET f == pc[p].f
         done == pc' = [pc EXCEPT ![p] = Polling] /\ UNCHANGED <<conns, wrong, right>>
     IN IF ~Receivable(f) THEN done /\ UNCHANGED <<c, dh, asked>>
        ELSE IF f.kind = "arp" THEN done /\ Put(ArpHandlePacket(c, f)) /\ UNCHANGED dh
        ELSE \E k \in {ArpInsert(c, f.sip, f.src)} :
             CASE IpAccepts(k, f) /\ f.proto = "icmp" ->
                    done /\ Put(IcmpHandlePacket(k, f)) /\ UNCHANGED dh
               [] IpAccepts(k, f) /\ f.proto = "udp" ->
                    \E r \in {UdpHandlePacket(k, dh, f)} : done /\ Put(r.c) /\ dh' = r.dh
               [] IpAccepts(k, f) /\ f.proto = "tcp" ->
                    \E d \in {Dispatch(conns, ls, f)} :
                      /\ conns' = d.conns
                      /\ pc' = [pc EXCEPT ![p] = IF d.k = 0 THEN Polling
                                                 ELSE [@ EXCEPT !.at = "segment", !.k = d.k]]
                      /\ wrong' = IF d.conns = conns THEN wrong ELSE [wrong EXCEPT ![d.k] = 0]
                      /\ right' = IF d.conns = conns THEN right ELSE [right EXCEPT ![d.k] = FALSE]
                      /\ Put(k) /\ UNCHANGED dh
               [] OTHER -> done /\ Put(k) /\ UNCHANGED dh
  /\ UNCHANGED <<phase, others, cfg, setup, polls, how, ls, ss, token, power, frames, stalls,
                 granted, heard, overlap>>

Segment(p) ==
  /\ phase # "off" /\ pc[p].at = "segment"
  /\ \E r \in {HandleSegment(c, conns[pc[p].k], pc[p].f)} :
       /\ conns' = [conns EXCEPT ![pc[p].k] = r.conn]
       /\ pc' = [pc EXCEPT ![p] = IF r.cbs = <<>> THEN Polling
                                  ELSE [@ EXCEPT !.at = "callback", !.cbs = r.cbs]]
       /\ Put(r.c)
  /\ UNCHANGED <<phase, dh, others, cfg, setup, polls, how, ls, ss, token, power, frames, stalls,
                 granted, heard, wrong, right, overlap>>

\* One of the callbacks into the management server.
Callback(p) ==
  /\ phase # "off" /\ pc[p].at = "callback"
  /\ LET k == pc[p].k
         cb == Head(pc[p].cbs)
     IN \E w \in {CASE cb = "connect" -> OnClientConnect(World, k)
                    [] cb = "data"    -> OnClientData(World, k, pc[p].f.body.data)
                    [] cb = "close"   -> OnClientClose(World, k)} :
          /\ Put(w.c)
          /\ conns' = w.conns /\ ss' = w.ss /\ power' = w.power
          /\ wrong' = w.wrong /\ right' = w.right
          /\ phase' = IF w.power # 0 THEN "off" ELSE phase
          /\ pc' = [pc EXCEPT ![p] = IF w.power # 0 \/ Len(@.cbs) > 1
                                     THEN [@ EXCEPT !.cbs = Tail(@)] ELSE Polling]
  /\ UNCHANGED <<dh, others, cfg, setup, polls, how, ls, token, frames, stalls, granted, heard,
                 overlap>>

------------------------------------------------------------------------------
(* External: the wire and the device *)

Deliver(f) ==
  /\ phase \in {"dhcp", "run"} /\ c.up /\ CanReceive(c) /\ frames < setup.max
  /\ c' = DeviceReceive(c, f)
  /\ frames' = frames + 1
  /\ UNCHANGED <<phase, dh, others, cfg, setup, polls, how, conns, ls, ss, token, power, pc,
                 stalls, asked, heard, wrong, right, overlap>>

\* A DHCP message to the client, as the frame that carries it.
Answer(m) ==
  [kind |-> "ip", dst |-> MacBroadcast, src |-> "ms", sip |-> m.server, dip |-> Broadcast,
   proto |-> "udp", body |-> m, ok |-> TRUE]

Wire == (\E f \in setup.frames : Deliver(f)) /\ UNCHANGED granted

\* A server answers a discovery with one of its offers.
Offer ==
  /\ \E o \in setup.offers, a \in asked :
       a.type = "discover" /\ Deliver(Answer([o EXCEPT !.type = "offer", !.xid = a.xid]))
  /\ UNCHANGED granted

\* The server a request names commits the address and acknowledges it.
Acknowledge ==
  \E o \in setup.offers, a \in asked :
    /\ a.type = "request" /\ a.yi = o.yi /\ a.server = o.server
    /\ Deliver(Answer([o EXCEPT !.type = "ack", !.xid = a.xid]))
    /\ granted' = granted \cup {o.yi}

\* The device stops sending, or goes on.
Stall ==
  /\ phase \in {"dhcp", "run"} /\ c.up
  /\ c.late \/ (stalls < MaxStalls /\ frames < setup.max)
  /\ c' = [c EXCEPT !.late = ~@]
  /\ stalls' = IF c.late THEN stalls ELSE stalls + 1
  /\ frames' = IF c.late THEN frames ELSE frames + 1
  /\ UNCHANGED <<phase, dh, others, cfg, setup, polls, how, conns, ls, ss, token, power, pc,
                 asked, granted, heard, wrong, right, overlap>>

Next ==
  \/ Configure
  \/ LeasePoll
  \/ \E p \in Pollers : TakeFrame(p)
  \/ \E p \in Pollers : HandleFrame(p)
  \/ \E p \in Pollers : Segment(p)
  \/ \E p \in Pollers : Callback(p)
  \/ Wire
  \/ Offer
  \/ Acknowledge
  \/ Stall

Spec == Init /\ [][Next]_vars

------------------------------------------------------------------------------
(* Properties *)

\* The receive ring loses no buffer and hands out none twice: between two calls of
\* poll_rx every buffer is with the device or waits to be taken, and the device
\* writes where poll_rx will read (virtio_net.cpp: head % RX_BUFFER_COUNT).  A
\* transmission gives its descriptor back also when it timed out.
RingsSound ==
  c.up =>
    /\ Posted(c) \cap Filled(c) = {}
    /\ Cardinality(Posted(c)) = (c.rx.aidx - c.rseen) % IdxMod
    /\ Cardinality(Filled(c)) = (c.rx.uidx - c.rx.last) % IdxMod
    /\ Cardinality(Posted(c) \cup Filled(c)) + c.rx.num = c.rx.size
    /\ \A d \in Posted(c) \cup Filled(c) : c.addr[d] = d % RxCount
    /\ Cardinality({c.addr[d] : d \in Posted(c) \cup Filled(c)})
         = Cardinality(Posted(c) \cup Filled(c))
    /\ FreeListSound(c.tx, {}) /\ c.tx.num = c.tx.size

\* The address the interface uses was committed to by the server that was asked for
\* it, whatever the order, loss or repetition of offers and acknowledgements and
\* however many retransmissions; and once request_lease has given up, a late answer
\* does not change the static configuration.
LeaseSound ==
  /\ dh.st = "Bound" \/ how = "dhcp" => c.ip \in granted
  /\ how = "static" => c.ip = cfg.ip
  /\ how = "none" /\ phase = "run" => c.ip = AnyIp

\* The ARP cache has one entry for an address, the one last heard, as long as no two
\* pollers handle frames at once.
ArpSound ==
  /\ \A i, j \in DOMAIN c.arp : c.arp[i].ip = c.arp[j].ip => i = j
  /\ ~overlap /\ (\A p \in Pollers : pc[p].at # "frame") =>
       \A i \in DOMAIN c.arp : c.arp[i] \in heard

\* However the two pollers interleave, a peer never has two connections at once
\* (the search for the connection and the choice of a slot are one critical section).
UniqueConnections ==
  \A j, k \in DOMAIN conns :
    /\ conns[j].active /\ conns[k].active /\ conns[j].peer = conns[k].peer
    /\ conns[j].port = conns[k].port
    => j = k

\* Once every callback is made, the established connections are exactly the ones
\* with a session, whether they were closed by either side, reset or refused, as
\* long as no two pollers handle frames at once.
SessionsMatch ==
  ~overlap /\ Busy = {} =>
    /\ {ss[s].conn : s \in {t \in DOMAIN ss : ss[t].active}}
         = {k \in DOMAIN conns : conns[k].active /\ conns[k].st = "Established"}
    /\ \A s, t \in DOMAIN ss : ss[s].active /\ ss[t].active /\ ss[s].conn = ss[t].conn => s = t


==============================================================================
