--------------------------------- MODULE Mgmt --------------------------------
(***************************************************************************)
(* The remote management server of src/kernel/net/mgmt_server.cpp, as      *)
(* operations on w = [c, conns, ss, token, power, wrong, right]: ss is the *)
(* session table, a session [active, conn, buf, auth, fails] with conn 0   *)
(* for the null pointer.  A command is a sequence of words, a word counting*)
(* for one byte of the command buffer; "auth" is followed by the token.    *)
(* A text sent in several pieces is one send.                              *)
(* wrong and right are history: for each connection, the wrong tokens      *)
(* compared, and whether the right one was, since it was established.      *)
(***************************************************************************)
EXTENDS Tcp

CONSTANTS
  MaxSessions,      \* MAX_SESSIONS
  MaxCmd,           \* MAX_CMD_LEN
  MaxAuthFailures   \* MAX_AUTH_FAILURES

NoSession == [active |-> FALSE, conn |-> 0, buf |-> <<>>, auth |-> FALSE, fails |-> 0]

FirstOf(S) == IF S = {} THEN 0 ELSE CHOOSE i \in S : \A j \in S : i <= j

FindSession(ss, k) == FirstOf({i \in DOMAIN ss : ss[i].active /\ ss[i].conn = k})

\* allocate_session: [w, s], s = 0 when the table is full.
AllocateSession(w, k) ==
  LET old == FindSession(w.ss, k)
      new == FirstOf({i \in DOMAIN w.ss : ~w.ss[i].active})
  IN IF old # 0 THEN [w |-> w, s |-> old]
     ELSE IF new = 0 THEN [w |-> w, s |-> 0]
     ELSE [w |-> [w EXCEPT !.ss[new] = [NoSession EXCEPT !.active = TRUE, !.conn = k]], s |-> new]

FreeSession(w, k) ==
  LET s == FindSession(w.ss, k) IN IF s = 0 THEN w ELSE [w EXCEPT !.ss[s] = NoSession]

\* The token read from /config/mgmt.token: without the white space at its end,
\* and only if something is left.
LoadToken(file, default) ==
  LET n == {i \in DOMAIN file : file[i] \notin {"\r", "\n", " "}}
  IN IF n = {} THEN default
     ELSE SubSeq(file, 1, CHOOSE i \in n : \A j \in n : j <= i)

OnClientConnect(w, k) ==
  LET a == AllocateSession(w, k)
  IN IF a.s = 0 THEN The({Close(x, k) : x \in {Send(w, k)}}) ELSE Send(a.w, k)

\* Mutant: a closed connection keeps its session.
OnClientCloseKeeps(w, k) == w

OnClientClose(w, k) == FreeSession(w, k)

\* The token that "auth" supplies is compared.
Authenticate(w, s, supplied) ==
  LET k == w.ss[s].conn
      n == w.ss[s].fails + 1
      x == [w EXCEPT !.ss[s].fails = n, !.wrong[k] = @ + 1]
  IN IF supplied = w.token
     THEN Send([w EXCEPT !.ss[s].auth = TRUE, !.ss[s].fails = 0, !.right[k] = TRUE], k)
     ELSE IF n >= MaxAuthFailures
     THEN The({FreeSession(y, k) : y \in {Close(z, k) : z \in {Send(x, k)}}})
     ELSE Send(x, k)

\* The command without the blanks before it.
Stripped(cmd) ==
  LET S == {i \in DOMAIN cmd : cmd[i] # " "}
  IN IF S = {} THEN <<>> ELSE SubSeq(cmd, FirstOf(S), Len(cmd))

\* process_command for a session that has a connection k.
Run(w, s, k, cmd) ==
  CASE cmd # <<>> /\ cmd[1] = "auth" -> Authenticate(w, s, Stripped(Tail(cmd)))
    [] cmd = <<"exit">> ->
         The({FreeSession(y, k) : y \in {Close(x, k) : x \in {Send(w, k)}}})
    [] cmd \in {<<"reboot">>, <<"poweroff">>} /\ w.ss[s].auth ->
         [Send(w, k) EXCEPT !.power = k]
    [] OTHER -> Send(w, k)


\* process_command: a session that has been freed has no connection any more.
ProcessCommand(w, s, k, cmd) ==
  IF w.ss[s].conn = 0 THEN w ELSE Run(w, s, w.ss[s].conn, Stripped(cmd))

\* One byte of on_client_data, for the session s it has found.
OnByte(w, s, k, b) ==
  LET buf == w.ss[s].buf
  IN CASE b = "\r" \/ w.power # 0 -> w
       [] b = "\n" /\ w.power = 0 /\ buf # <<>> ->
            The({[x EXCEPT !.ss[s].buf = <<>>] : x \in {ProcessCommand(w, s, k, buf)}})
       [] b = "\n" /\ w.power = 0 /\ buf = <<>> -> Send(w, k)
       [] b = "bs" /\ w.power = 0 ->
            [w EXCEPT !.ss[s].buf = IF @ = <<>> THEN @ ELSE Front(@)]
       [] b \notin {"\r", "\n", "bs"} /\ w.power = 0 ->
            IF Len(buf) < MaxCmd - 1 THEN [w EXCEPT !.ss[s].buf = Append(@, b)] ELSE w

OnClientData(w, k, data) ==
  LET a == AllocateSession(w, k)
  IN IF a.s = 0 THEN w ELSE FoldLeft(LAMBDA x, b : OnByte(x, a.s, k, b), a.w, data)

==============================================================================
