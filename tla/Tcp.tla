--------------------------------- MODULE Tcp ---------------------------------
(***************************************************************************)
(* The TCP engine of src/kernel/net/tcp.cpp, as operations on the listeners*)
(* ls (a sequence of ports) and the connection table conns.  A connection  *)
(* is [active, st, peer, port]; peer is the remote address and port.  The  *)
(* engine keeps sequence numbers but decides nothing by them, and neither  *)
(* does the model.  A segment is [sport, dport, flags, data].              *)
(***************************************************************************)
EXTENDS NetStack

CONSTANTS
  MaxConns,      \* MAX_TCP_CONNECTIONS
  MaxListeners   \* MAX_LISTENERS

\* TcpConnection::reset, and TcpEngine::init of the table.
NoPeer == [ip |-> AnyIp, port |-> 0]
ResetConn == [active |-> FALSE, st |-> "Closed", peer |-> NoPeer, port |-> 0]
TcpInit == [k \in 1..MaxConns |-> ResetConn]

Listen(ls, port) == IF Len(ls) < MaxListeners THEN Append(ls, port) ELSE ls

\* TcpConnection::init.
InitConn(peer, port) == [active |-> TRUE, st |-> "Listen", peer |-> peer, port |-> port]

PeerOf(f) == [ip |-> f.sip, port |-> f.body.sport]

\* The table's connection for a segment, or 0.
FindConn(conns, f) ==
  LET S == {k \in DOMAIN conns : /\ conns[k].active
                                 /\ conns[k].peer = PeerOf(f)
                                 /\ conns[k].port = f.body.dport}
  IN IF S = {} THEN 0 ELSE CHOOSE k \in S : \A j \in S : k <= j

\* The first slot that a new connection may take, or 0.
FreeSlot(conns) ==
  LET S == {k \in DOMAIN conns : ~conns[k].active \/ conns[k].st = "Closed"}
  IN IF S = {} THEN 0 ELSE CHOOSE k \in S : \A j \in S : k <= j

Opens(ls, f) == "syn" \in f.body.flags /\ "ack" \notin f.body.flags
                /\ f.body.dport \in {ls[i] : i \in DOMAIN ls}

\* Mutant: a SYN takes a new slot without looking for its connection.
DispatchAlwaysNew(conns, ls, f) ==
  LET k == IF Opens(ls, f) THEN 0 ELSE FindConn(conns, f)
      s == FreeSlot(conns)
  IN IF k # 0 THEN [conns |-> conns, k |-> k]
     ELSE IF Opens(ls, f) /\ s # 0
     THEN [conns |-> [conns EXCEPT ![s] = InitConn(PeerOf(f), f.body.dport)], k |-> s]
     ELSE [conns |-> conns, k |-> 0]

\* TcpEngine::handle_packet under s_tcp_lock: [conns, k], k the connection the
\* segment goes to, 0 if there is none.
Dispatch(conns, ls, f) ==
  LET k == FindConn(conns, f)
      s == FreeSlot(conns)
  IN IF k # 0 THEN [conns |-> conns, k |-> k]
     ELSE IF Opens(ls, f) /\ s # 0
     THEN [conns |-> [conns EXCEPT ![s] = InitConn(PeerOf(f), f.body.dport)], k |-> s]
     ELSE [conns |-> conns, k |-> 0]

\* send_segment.
SendSegment(c, conn, flags) ==
  SendIpv4(c, conn.peer.ip, "tcp",
           [sport |-> conn.port, dport |-> conn.peer.port, flags |-> flags, data |-> <<>>])

\* handle_segment under m_conn_lock: [c, conn, cbs], cbs the callbacks to make
\* once the lock is released, in order.
HandleSegment(c, conn, f) ==
  LET has(x) == x \in f.body.flags
      to(st) == [conn EXCEPT !.st = st]
      data == f.body.data # <<>>
      acked == IF data THEN SendSegment(c, conn, {"ack"}) ELSE c
      none == [c |-> c, conn |-> conn, cbs |-> <<>>]
  IN CASE has("rst") ->
            [c |-> c, conn |-> [to("Closed") EXCEPT !.active = FALSE], cbs |-> <<"close">>]
       [] ~has("rst") /\ conn.st = "Listen" /\ has("syn") ->
            [none EXCEPT !.conn = to("SynReceived"), !.c = SendSegment(c, conn, {"syn", "ack"})]
       [] ~has("rst") /\ conn.st = "SynReceived" /\ has("ack") ->
            [none EXCEPT !.conn = to("Established"), !.cbs = <<"connect">>]
       [] ~has("rst") /\ conn.st = "Established" ->
            [conn |-> IF has("fin") THEN to("LastAck") ELSE conn,
             c |-> IF has("fin") THEN The({SendSegment(x, conn, {"fin", "ack"}) : x \in {acked}})
                   ELSE acked,
             cbs |-> (IF data THEN <<"data">> ELSE <<>>)
                     \o (IF has("fin") THEN <<"close">> ELSE <<>>)]
       [] ~has("rst") /\ conn.st = "LastAck" /\ has("ack") ->
            [none EXCEPT !.conn = [to("Closed") EXCEPT !.active = FALSE]]
       [] OTHER -> none

\* send and close of a connection, on a record with the fields c and conns.
Send(w, k) ==
  IF w.conns[k].st # "Established" THEN w
  ELSE [w EXCEPT !.c = SendSegment(@, w.conns[k], {"ack", "psh"})]

Close(w, k) ==
  IF w.conns[k].st = "Established"
  THEN [w EXCEPT !.conns[k].st = "LastAck",
                 !.c = SendSegment(@, w.conns[k], {"fin", "ack"})]
  ELSE [w EXCEPT !.conns[k].st = "Closed", !.conns[k].active = FALSE]

==============================================================================
