------------------------------ MODULE MCNetwork ------------------------------
(***************************************************************************)
(* A small network for TLC: one or two adapters, a gateway that changes its*)
(* MAC address, two clients of the management server on the local network  *)
(* and two DHCP servers.                                                   *)
(***************************************************************************)
EXTENDS Network

Me == <<1, 0, 0, 2>>
Leased == <<1, 0, 0, 3>>
OtherLease == <<1, 0, 0, 4>>
Gw == <<1, 0, 0, 1>>
Peer1 == <<1, 0, 0, 8>>
Peer2 == <<2, 0, 0, 9>>
Mask == <<255, 0, 0, 0>>

Good == [nrx |-> 2, ntx |-> 2, bar |-> TRUE, mem |-> TRUE]
Line(k, v) == [key |-> k, val |-> v]
NoFile == [lines |-> <<>>]
Static == [lines |-> <<Line("#", <<>>), Line("dhcp", <<"n", "o", "\r">>),
                       Line("ip", <<"1", ".", "0", ".", "0", ".", "2", "\r">>),
                       Line("netmask", <<"2", "5", "5", ".", "0", ".", "0", ".", "0">>),
                       Line("gateway", <<"1", ".", "0", ".", "0", ".", "1">>),
                       Line("dns", <<"2", "5", "6", ".", "0", ".", "0", ".", "1">>),
                       Line("port", <<"6", "5", "5", "5", "8">>)>>]
Fallback == [lines |-> <<Line("mode", <<"d", "h", "c", "p">>),
                         Line("ip", <<"1", ".", "0", ".", "0", ".", "2">>)>>]
Dhcp(yi, srv) == [type |-> "offer", xid |-> 0, yi |-> yi, server |-> srv, mask |-> Mask,
                  router |-> Gw, dns |-> AnyIp, port |-> 68]
MCOffers == {Dhcp(Leased, Gw), Dhcp(OtherLease, Peer1)}

Ip(sip, src, proto, body) ==
  [kind |-> "ip", dst |-> "m0", src |-> src, sip |-> sip, dip |-> Me, proto |-> proto,
   body |-> body, ok |-> TRUE]
Tcp(sip, flags, data) ==
  Ip(sip, IF sip = Peer1 THEN "m1" ELSE "m2", "tcp",
     [sport |-> 5, dport |-> 22, flags |-> flags, data |-> data])
Arp(mac, op) == [kind |-> "arp", dst |-> MacBroadcast, src |-> mac, op |-> op, sip |-> Gw,
                 smac |-> mac, tip |-> Me, ok |-> TRUE]
Wrong == <<"auth", "x", "\n">>
Right == <<"auth", "t", "\r", "\n">>

\* One machine with a static address for each kind of traffic, and machines that ask
\* for a lease.
Machine(nics, config, etc, tok, wire, offers, max) ==
  [nics |-> nics, config |-> config, etc |-> etc, token |-> tok, frames |-> wire,
   offers |-> offers, max |-> max]

Local == {NoFrame, Arp("m3", "request"), Arp("m4", "reply"), Ip(Gw, "m3", "icmp", "echo"),
          Ip(Peer2, "m4", "icmp", "echo"), Tcp(Peer1, {"ack"}, Right)}
Login == {Tcp(Peer1, {"syn"}, <<>>), Tcp(Peer1, {"ack"}, <<>>),
          Tcp(Peer1, {"ack", "fin"}, <<"exit", "\n">>),
          Tcp(Peer1, {"ack"}, Wrong \o Wrong \o Wrong), Tcp(Peer1, {"ack"}, Right),
          Tcp(Peer1, {"ack"}, <<"poweroff", "x", "bs", "\n">>)}
Clients == {Tcp(q, {x}, <<>>) : q \in {Peer1, Peer2}, x \in {"syn", "ack", "rst"}}
Stale == [Ip(Gw, "m3", "udp", [Dhcp(Me, Gw) EXCEPT !.type = "ack"]) EXCEPT !.dip = Broadcast]

MCSetups ==
  {Machine(<<Good>>, Static, NoFile, <<"t", "\n">>, Local, {}, 3),
   Machine(<<Good>>, Static, NoFile, <<"t", "\n">>, Login, {}, 5),
   Machine(<<Good>>, Static, NoFile, <<>>, Clients, {}, 4),
   Machine(<<[Good EXCEPT !.bar = FALSE], Good, Good>>, NoFile, Fallback, <<"\n">>,
           {Stale, NoFrame}, MCOffers, 4),
   Machine(<<Good>>, NoFile, NoFile, <<>>, {Stale}, MCOffers, 4),
   Machine(<<>>, NoFile, NoFile, <<>>, {}, {}, 0)}

Token0 == <<"d">>

\* parse_ipv4 takes exactly the four decimal numbers up to 255 that three dots
\* separate, whatever comes after a blank.
Chars == {"9", ".", " ", "x"}
Texts == UNION {[1..n -> Chars] : n \in 0..7}
Number(v) == IF v \in [1..Len(v) -> {"9"}] /\ v # <<>>
             THEN FoldLeft(LAMBDA a, d : a * 10 + DigitOf(d), 0, v) ELSE 999
Until(v, S) == LET e == {i \in DOMAIN v : v[i] \in S}
               IN IF e = {} THEN v ELSE SubSeq(v, 1, Min(e) - 1)
Reference(v) ==
  LET t == Until(v, {" "})
      dots == {i \in DOMAIN t : t[i] = "."}
      at(i) == SetToSortSeq(dots \cup {0, Len(t) + 1}, <)[i]
      o == [i \in 1..4 |-> Number(SubSeq(t, at(i) + 1, at(i + 1) - 1))]
  IN IF Cardinality(dots) = 3 /\ \A i \in 1..4 : o[i] <= 255 THEN o ELSE AnyIp
ASSUME ParseAgrees == \A v \in Texts : ParseIpv4(v, AnyIp) = Reference(v)

==============================================================================
