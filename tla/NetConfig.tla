------------------------------ MODULE NetConfig ------------------------------
(***************************************************************************)
(* The network configuration of src/kernel/net/net_config.cpp.  A file is  *)
(* [present, lines]; a line is [key, val], val a sequence of characters.   *)
(***************************************************************************)
EXTENDS NetStack

DefaultPort == 2222

\* The value of a decimal digit, -1 for any other character.
DigitOf(ch) ==
  LET digits == <<"0", "1", "2", "3", "4", "5", "6", "7", "8", "9">>
      S == {i \in DOMAIN digits : digits[i] = ch}
  IN IF S = {} THEN -1 ELSE (CHOOSE i \in S : TRUE) - 1

\* parse_ipv4, one character at a time: the octets that are complete, the one
\* being read and whether it has digits.  A blank ends the address.
IpChar(a, ch) ==
  LET d == DigitOf(ch)
  IN IF ~a.ok \/ a.end THEN a
     ELSE IF ch \in {" ", "\t", "\r"} THEN [a EXCEPT !.end = TRUE]
     ELSE IF d >= 0 THEN [a EXCEPT !.cur = @ * 10 + d, !.digits = TRUE,
                                   !.ok = a.cur * 10 + d <= 255]
     ELSE IF ch = "." /\ a.digits /\ Len(a.octets) < 3
     THEN [a EXCEPT !.octets = Append(@, a.cur), !.cur = 0, !.digits = FALSE]
     ELSE [a EXCEPT !.ok = FALSE]

\* The address, or old when the text is not one.
ParseIpv4(val, old) ==
  LET a == FoldLeft(IpChar, [ok |-> TRUE, end |-> FALSE, octets |-> <<>>, cur |-> 0,
                             digits |-> FALSE], val)
  IN IF a.ok /\ a.digits /\ Len(a.octets) = 3 THEN Append(a.octets, a.cur) ELSE old

\* The port: digits up to the first other character, in 16 bits.
PortChar(a, ch) ==
  LET d == DigitOf(ch)
  IN IF a.end \/ d < 0 THEN [a EXCEPT !.end = TRUE]
     ELSE [a EXCEPT !.port = (@ * 10 + d) % 65536]

ParsePort(val, old) ==
  LET a == FoldLeft(PortChar, [port |-> 0, end |-> FALSE], val)
  IN IF a.port > 0 THEN a.port ELSE old

\* The values that turn DHCP off; what follows them on the line is ignored.
Off(key) ==
  IF key = "dhcp" THEN {<<"n", "o">>, <<"0">>, <<"f", "a", "l", "s", "e">>}
  ELSE {<<"s", "t", "a", "t", "i", "c">>}

\* One line of the file; other keys and comments change nothing.
ApplyLine(cfg, l) ==
  CASE l.key \in {"dhcp", "mode"} ->
         [cfg EXCEPT !.dhcp = ~\E word \in Off(l.key) : IsPrefix(word, l.val)]
    [] l.key = "ip"      -> [cfg EXCEPT !.ip = ParseIpv4(l.val, @)]
    [] l.key = "netmask" -> [cfg EXCEPT !.mask = ParseIpv4(l.val, @)]
    [] l.key = "gateway" -> [cfg EXCEPT !.gw = ParseIpv4(l.val, @)]
    [] l.key = "dns"     -> [cfg EXCEPT !.dns = ParseIpv4(l.val, @)]
    [] l.key = "port"    -> [cfg EXCEPT !.port = ParsePort(l.val, @)]
    [] OTHER             -> cfg

DefaultConfig == [dhcp |-> TRUE, ip |-> AnyIp, mask |-> AnyIp, gw |-> AnyIp, dns |-> AnyIp,
                  port |-> DefaultPort, present |-> FALSE]

\* parse_config_file; a file that cannot be opened or is empty leaves the defaults.
ParseConfigFile(file) ==
  IF file.lines = <<>> THEN DefaultConfig
  ELSE FoldLeft(ApplyLine, [DefaultConfig EXCEPT !.present = TRUE], file.lines)

\* configure_all tries /config/network.cfg, then /etc/network.cfg.
ReadConfig(config, etc) ==
  IF config.lines # <<>> THEN ParseConfigFile(config) ELSE ParseConfigFile(etc)

\* The second half of configure_interface.
StaticFallback(c, cfg) ==
  LET k == [c EXCEPT !.ip = cfg.ip, !.mask = IF cfg.mask # AnyIp THEN cfg.mask ELSE @]
      g == IF cfg.gw # AnyIp THEN SetGateway(k, cfg.gw) ELSE k
  IN IF cfg.ip = AnyIp THEN c
     ELSE [g EXCEPT !.dns = IF cfg.dns # AnyIp THEN cfg.dns ELSE @]

==============================================================================
