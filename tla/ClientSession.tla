---------------------------- MODULE ClientSession ----------------------------
(***************************************************************************)
(* One client and the server process that answers it: over a TCP stream    *)
(* when the user gave the administrator's name and password, over UDP      *)
(* datagrams otherwise.  Both ends are on one machine: client.c connects   *)
(* to 127.0.0.1 or ::1 whatever its arguments say.                         *)
(*                                                                         *)
(* The client asks, waits and shows; option 1 repeats this until Ctrl-C.   *)
(* It has no timeout, no number on its requests, and signal handlers       *)
(* without SA_RESTART, so a signal can end its recv and leave the reply on *)
(* the way.                                                                *)
(*                                                                         *)
(* A request is [n, update]: the n-th of the client; update is 0 for       *)
(* a status request and otherwise says by which choice of option 2 it was  *)
(* made.  A message to the client is [kind, n, end]: the reply to request  *)
(* n, or END; its text ends end bytes after what the client has read.      *)
(***************************************************************************)
EXTENDS Naturals, Sequences, FiniteSets

CONSTANTS
  Transports,    \* which kinds of user to look at, within {"tcp", "udp"}
  MsgLen,        \* bytes of each kind of message
  BUFFER_SIZE,   \* the most recv takes from a stream
  StackFrames,   \* calls of recv_and_check_message that surely fit the stack
  MaxSent,       \* bound: requests sent
  MaxSignals,    \* bound: SIGINT and SIGTERM received
  Nothing        \* an empty receive buffer, or one that does not parse

Kind == {"status", "updated", "denied", "end"}

ASSUME TransportsType == Transports \subseteq {"tcp", "udp"}
ASSUME LengthsType ==
  /\ BUFFER_SIZE \in Nat
  /\ MsgLen \in [Kind -> Nat \ {0}]
ASSUME BoundsType ==
  MaxSent \in Nat /\ MaxSignals \in Nat /\ StackFrames \in Nat \ {0}

\* Every message fits the client's receive buffer.  Nothing in the code makes
\* a status document do so.
Fits == \A kind \in Kind : MsgLen[kind] <= BUFFER_SIZE

VARIABLES
  transport,  \* connection_type
  pc,         \* where the client is
  flag_get_supply, skip_option,
  request,    \* send_socket_buffer: the update to ask for, 0 for the status
  got,        \* recv_socket_buffer, as cJSON_Parse reads it
  depth,      \* calls of recv_and_check_message on the stack
  server,     \* the server's end of the connection
  refused,    \* UDP: an ICMP error waits at the client's socket
  toServer, toClient,
  sent,       \* requests sent so far
  asked,      \* times option 2 was chosen
  applied,    \* history: the updates the server applied, in order
  signals,    \* signals received
  abandoned   \* history: requests whose recv a signal ended

clientVars == <<pc, flag_get_supply, skip_option, request, got, depth>>
serverVars == <<server, applied>>
vars == <<transport, clientVars, serverVars, refused, toServer, toClient,
          sent, asked, signals, abandoned>>

ClientPC == {"start",  \* connecting
             "loop",   \* at the head of main's loop
             "menu",   \* get_options
             "send",   \* send_message_to_server
             "recv",   \* in, or about to enter, recv
             "check",  \* the rest of recv_and_check_message
             "exit"}

ServerPC == {"up",    \* answers requests
             "deaf",  \* TCP: nobody reads requests, the socket is still open
             "fin",   \* TCP: closed
             "rst",   \* TCP: closed, and the client's data refused
             "gone"}  \* UDP: no process behind the port

Request == [n : 1..MaxSent, update : 0..MaxSent]
Message == [kind : Kind, n : 0..MaxSent, end : Nat \ {0}]

\* Each message follows the one before it; only the first may be partly read.
IsStream(s) ==
  \A j \in 1..Len(s) :
    /\ j = 1 => s[j].end <= MsgLen[s[j].kind]
    /\ \A i \in 1..(j - 1) : /\ s[i].end + MsgLen[s[j].kind] <= s[j].end
                             /\ i + 1 = j => s[i].end + MsgLen[s[j].kind] = s[j].end

TypeOK ==
  /\ transport \in {"tcp", "udp"}
  /\ pc \in ClientPC
  /\ flag_get_supply \in {0, 1} /\ skip_option \in {0, 1}
  /\ request \in 0..MaxSent
  /\ got \in Message \cup {Nothing}
  /\ depth \in Nat
  /\ server \in IF transport = "tcp" THEN ServerPC \ {"gone"} ELSE {"up", "gone"}
  /\ refused \in BOOLEAN
  /\ toServer \in Seq(Request)
  /\ toClient \in Seq(Message) /\ IsStream(toClient)
  /\ sent \in 0..MaxSent
  /\ asked \in 0..MaxSent
  /\ applied \in Seq(1..MaxSent)
  /\ signals \in 0..MaxSignals
  /\ abandoned \in 0..MaxSignals

\* main up to try_connect_server: a normal user's first request is the status.
Init ==
  /\ transport \in Transports
  /\ pc = "start"
  /\ flag_get_supply = (IF transport = "tcp" THEN 0 ELSE 1)
  /\ skip_option = (IF transport = "tcp" THEN 1 ELSE 0)
  /\ request = 0
  /\ got = Nothing
  /\ depth = 0
  /\ server = "up"
  /\ refused = FALSE
  /\ toServer = <<>> /\ toClient = <<>>
  /\ sent = 0 /\ asked = 0 /\ applied = <<>> /\ signals = 0 /\ abandoned = 0

-----------------------------------------------------------------------------
(***************************************************************************)
(* The stream to the client.                                               *)
(***************************************************************************)

\* The bytes that have not been read.
Waiting(s) == IF s = <<>> THEN 0 ELSE s[Len(s)].end

\* s without its first n bytes; a message they end in keeps the rest.
Drop(s, n) ==
  LET k == Cardinality({i \in 1..Len(s) : s[i].end <= n})
  IN  [i \in 1..(Len(s) - k) |-> [s[k + i] EXCEPT !.end = @ - n]]

\* recv on a stream takes all there is, up to BUFFER_SIZE.
Take(s) == IF Waiting(s) < BUFFER_SIZE THEN Waiting(s) ELSE BUFFER_SIZE

\* What cJSON_Parse makes of these bytes: their first message, if it is there
\* from its beginning to its end; what follows it is not looked at.
Parsed(s) ==
  IF Head(s).end = MsgLen[Head(s).kind] /\ Head(s).end <= Take(s)
  THEN Head(s) ELSE Nothing

\* Mutant of Say: the text is sent with its NUL.
SayWithNul(s, kind, n) ==
  Append(s, [kind |-> kind, n |-> n, end |-> Waiting(s) + MsgLen[kind] + 1])

\* A message behind what is already on its way.
Say(s, kind, n) ==
  Append(s, [kind |-> kind, n |-> n, end |-> Waiting(s) + MsgLen[kind]])

-----------------------------------------------------------------------------
(***************************************************************************)
(* The client.                                                             *)
(***************************************************************************)

\* connect_client_ipv4/ipv6: over TCP it fails when nobody listens.
Connect ==
  /\ pc = "start"
  /\ pc' \in IF transport = "tcp" THEN {"loop", "exit"} ELSE {"loop"}
  /\ UNCHANGED <<transport, flag_get_supply, skip_option, request, got, depth, serverVars,
                 refused, toServer, toClient, sent, asked, signals, abandoned>>

MainLoop ==
  /\ pc = "loop"
  /\ pc' = IF skip_option = 1 THEN "menu" ELSE "send"
  /\ request' = 0
  /\ skip_option' = 1
  /\ UNCHANGED <<transport, flag_get_supply, got, depth, serverVars,
                 refused, toServer, toClient, sent, asked, signals, abandoned>>

\* Mutant of ChooseStatus: a break is missing, and option 1 runs into option 2.
ChooseBoth ==
  /\ pc = "menu"
  /\ asked < MaxSent
  /\ flag_get_supply' = 1
  /\ asked' = asked + 1
  /\ request' = asked + 1
  /\ pc' = "send"
  /\ UNCHANGED <<transport, skip_option, got, depth, serverVars,
                 refused, toServer, toClient, sent, signals, abandoned>>

ChooseStatus ==
  /\ pc = "menu"
  /\ flag_get_supply' = 1
  /\ request' = 0
  /\ pc' = "send"
  /\ UNCHANGED <<transport, skip_option, got, depth, serverVars,
                 refused, toServer, toClient, sent, asked, signals, abandoned>>

\* Option 2 and get_supplies_options, which insists on a category and on a
\* positive amount.
ChooseUpdate ==
  /\ pc = "menu"
  /\ asked < MaxSent
  /\ asked' = asked + 1
  /\ request' = asked + 1
  /\ pc' = "send"
  /\ UNCHANGED <<transport, flag_get_supply, skip_option, got, depth, serverVars,
                 refused, toServer, toClient, sent, signals, abandoned>>

\* Option 3, or Ctrl-Z at any time: end_client_conn.
Leave ==
  /\ pc # "exit"
  /\ pc' = "exit"
  /\ UNCHANGED <<transport, flag_get_supply, skip_option, request, got, depth, serverVars,
                 refused, toServer, toClient, sent, asked, signals, abandoned>>

\* Mutant of send_message_to_server: SIGPIPE is ignored, and so is the error.
SendIgnoresPipe ==
  /\ pc = "send"
  /\ sent < MaxSent
  /\ sent' = sent + 1
  /\ pc' = "recv"
  /\ toServer' = IF server \in {"up", "deaf"}
                 THEN Append(toServer, [n |-> sent + 1, update |-> request])
                 ELSE toServer
  /\ refused' = (server = "gone")
  /\ server' = IF server = "fin" THEN "rst" ELSE server
  /\ UNCHANGED <<transport, flag_get_supply, skip_option, request, got, depth, applied,
                 toClient, asked, signals, abandoned>>

\* A datagram to a port without a process comes back as an error.  Data for a
\* closed TCP socket is refused; the send after that raises SIGPIPE.
send_message_to_server ==
  /\ pc = "send"
  /\ sent < MaxSent
  /\ sent' = sent + 1
  /\ pc' = IF server = "rst" THEN "exit" ELSE "recv"
  /\ toServer' = IF server \in {"up", "deaf"}
                 THEN Append(toServer, [n |-> sent + 1, update |-> request])
                 ELSE toServer
  /\ refused' = (server = "gone")
  /\ server' = IF server = "fin" THEN "rst" ELSE server
  /\ UNCHANGED <<transport, flag_get_supply, skip_option, request, got, depth, applied,
                 toClient, asked, signals, abandoned>>

\* There is nothing recv could return.
Blocked == toClient = <<>> /\ ~refused /\ server \notin {"fin", "rst"}

\* Mutant of Recv: an error is tried again.
RecvRetries ==
  /\ pc = "recv" /\ ~Blocked
  /\ IF toClient = <<>> \/ refused
     THEN UNCHANGED <<pc, toClient>>
     ELSE pc' = "check" /\ toClient' = Drop(toClient, Head(toClient).end)
  /\ refused' = FALSE
  /\ got' = IF pc' = "check" THEN Parsed(toClient) ELSE Nothing
  /\ UNCHANGED <<transport, flag_get_supply, skip_option, request, depth, serverVars,
                 toServer, sent, asked, signals, abandoned>>

\* recv_tcp_message, whose result is not looked at: an error and a closed
\* connection leave an empty buffer.  A datagram longer than the buffer is cut,
\* and what is left of it does not parse.
Recv ==
  /\ pc = "recv" /\ ~Blocked
  /\ \/ /\ refused \/ toClient = <<>>
        /\ got' = Nothing
        /\ UNCHANGED toClient
     \/ /\ ~refused /\ toClient # <<>>
        /\ transport = "udp"
        /\ got' = Parsed(toClient)
        /\ toClient' = Drop(toClient, Head(toClient).end)
     \/ /\ ~refused /\ toClient # <<>>
        /\ transport = "tcp"
        /\ got' = Parsed(toClient)
        /\ toClient' = Drop(toClient, Take(toClient))
  /\ refused' = FALSE
  /\ pc' = "check"
  /\ UNCHANGED <<transport, flag_get_supply, skip_option, request, depth, serverVars,
                 toServer, sent, asked, signals, abandoned>>

\* The rest of recv_and_check_message: END ends the client; otherwise the
\* message is shown, and while flag_get_supply is set the same request is
\* sent again by a recursive call.  Once it is reset all calls return.
Check ==
  /\ pc = "check"
  /\ \/ /\ got # Nothing /\ got.kind = "end"
        /\ pc' = "exit"
        /\ UNCHANGED depth
     \/ /\ got # Nothing => got.kind # "end"
        /\ IF flag_get_supply = 0 THEN pc' = "loop" /\ depth' = 0
           ELSE pc' = "send" /\ depth' = depth + 1
  /\ got' = Nothing
  /\ UNCHANGED <<transport, flag_get_supply, skip_option, request, serverVars,
                 refused, toServer, toClient, sent, asked, signals, abandoned>>

\* The kernel's part in the recursion: a call that finds no room on the stack
\* ends the client with SIGSEGV.
StackOverflow ==
  /\ pc \in {"send", "recv", "check"}
  /\ depth >= StackFrames
  /\ pc' = "exit"
  /\ UNCHANGED <<transport, flag_get_supply, skip_option, request, got, depth, serverVars,
                 refused, toServer, toClient, sent, asked, signals, abandoned>>

\* A signal ends a recv that waits.  One that comes just before the call does
\* not; nor does one in the menu, which reads on.
Interrupted ==
  \/ /\ pc = "recv" /\ Blocked
     /\ pc' = "check"
     /\ got' = Nothing
     /\ abandoned' = abandoned + 1
  \/ UNCHANGED <<pc, got, abandoned>>

Sigint ==
  /\ pc # "exit" /\ signals < MaxSignals
  /\ signals' = signals + 1
  /\ flag_get_supply' = 0
  /\ skip_option' = 1
  /\ Interrupted
  /\ UNCHANGED <<transport, request, depth, serverVars, refused, toServer, toClient, sent, asked>>

Sigterm ==
  /\ pc = "recv" /\ signals < MaxSignals
  /\ signals' = signals + 1
  /\ Interrupted
  /\ UNCHANGED <<transport, flag_get_supply, skip_option, request, depth, serverVars,
                 refused, toServer, toClient, sent, asked>>

-----------------------------------------------------------------------------
(***************************************************************************)
(* The server: run_admin_server over TCP, run_normal_user_server over UDP. *)
(***************************************************************************)

\* Mutant of Serve: a break is missing, and a UDP status request runs into the
\* refusal.
ServeTwice ==
  /\ server = "up" /\ toServer # <<>>
  /\ LET r == Head(toServer) IN
       /\ applied' = IF transport = "tcp" /\ r.update # 0 THEN Append(applied, r.update) ELSE applied
       /\ toClient' = LET first == Say(toClient, "status", r.n)
                      IN  IF transport = "udp" THEN Say(first, "denied", r.n) ELSE first
  /\ toServer' = Tail(toServer)
  /\ UNCHANGED <<transport, clientVars, server, refused, sent, asked, signals, abandoned>>

\* The client pads each request to BUFFER_SIZE, so one recv is one request.
\* Over UDP an update is refused.
Serve ==
  /\ server = "up" /\ toServer # <<>>
  /\ LET r == Head(toServer) IN
       \/ /\ r.update = 0
          /\ toClient' = Say(toClient, "status", r.n)
          /\ UNCHANGED applied
       \/ /\ r.update # 0 /\ transport = "tcp"
          /\ toClient' = Say(toClient, "updated", r.n)
          /\ applied' = Append(applied, r.update)
       \/ /\ r.update # 0 /\ transport = "udp"
          /\ toClient' = Say(toClient, "denied", r.n)
          /\ UNCHANGED applied
  /\ toServer' = Tail(toServer)
  /\ UNCHANGED <<transport, clientVars, server, refused, sent, asked, signals, abandoned>>

\* The process exits without an answer, after it has applied an update or
\* before.  Its TCP socket stays open in the emergency process it forked; what
\* waits at a UDP socket is lost with it.
ServeFails ==
  /\ server = "up" /\ toServer # <<>>
  /\ server' = IF transport = "tcp" THEN "deaf" ELSE "gone"
  /\ applied' \in {applied} \cup
       (IF transport = "tcp" /\ Head(toServer).update # 0
        THEN {Append(applied, Head(toServer).update)} ELSE {})
  /\ toServer' = IF transport = "tcp" THEN Tail(toServer) ELSE <<>>
  /\ UNCHANGED <<transport, clientVars, refused, toClient, sent, asked, signals, abandoned>>

\* end_conn: END to a TCP client, and no request is read any more.  In the UDP
\* server it fails and exits.
EndConn ==
  /\ server = "up"
  /\ \/ /\ transport = "tcp"
        /\ server' = "deaf"
        /\ toClient' = Say(toClient, "end", 0)
        /\ UNCHANGED toServer
     \/ /\ transport = "udp"
        /\ server' = "gone"
        /\ toServer' = <<>>
        /\ UNCHANGED toClient
  /\ UNCHANGED <<transport, clientVars, applied, refused, sent, asked, signals, abandoned>>

\* The last process that holds the TCP socket exits.  With requests unread
\* the kernel resets the connection.
Close ==
  /\ server = "deaf"
  /\ server' = IF toServer = <<>> THEN "fin" ELSE "rst"
  /\ UNCHANGED <<transport, clientVars, applied, refused, toServer, toClient,
                 sent, asked, signals, abandoned>>

\* A datagram is dropped when the receiver's buffer is full.
Lose ==
  /\ transport = "udp"
  /\ \/ /\ toServer # <<>>
        /\ toServer' = SubSeq(toServer, 1, Len(toServer) - 1)
        /\ UNCHANGED toClient
     \/ /\ toClient # <<>>
        /\ toClient' = SubSeq(toClient, 1, Len(toClient) - 1)
        /\ UNCHANGED toServer
  /\ UNCHANGED <<transport, clientVars, serverVars, refused, sent, asked, signals, abandoned>>

-----------------------------------------------------------------------------
ClientStep == Connect \/ MainLoop \/ send_message_to_server \/ Recv \/ Check
ServerStep == Serve \/ ServeFails \/ Close

Next ==
  \/ ClientStep \/ ServerStep
  \/ ChooseStatus \/ ChooseUpdate \/ Leave
  \/ Sigint \/ Sigterm \/ StackOverflow
  \/ EndConn \/ Lose

\* Client and server processes are scheduled; that a deaf connection is closed
\* some time is EmergencyProcessesEnd of ServerLifecycle.  The user may do
\* nothing, signals may stay away, and nothing has to fail.
Fairness == WF_vars(ClientStep) /\ WF_vars(ServerStep)

Spec == Init /\ [][Next]_vars /\ Fairness

-----------------------------------------------------------------------------
(***************************************************************************)
(* What holds.                                                             *)
(***************************************************************************)

\* An update is applied at most once for each time the user chose option 2,
\* and updates are applied in the order they were chosen, although the client
\* keeps the request in its buffer and sends the buffer again and again while
\* flag_get_supply is set (client.c:124-130), and gets no answer it could
\* recognise (server.c:347).
UpdatesOnceInOrder == \A i, j \in 1..Len(applied) : i < j => applied[i] < applied[j]

\* Why: an update still on its way, or in the buffer about to be sent, was
\* chosen after all that went before it; and whenever flag_get_supply makes the
\* client send its buffer again, the buffer holds a status request, because
\* the menu is only reached with the flag reset.
Buffered ==
  /\ flag_get_supply \in {0, 1} /\ skip_option \in {0, 1}
  /\ request \in Nat /\ asked \in Nat /\ request <= asked
  /\ pc = "menu" => flag_get_supply = 0
  /\ pc \in {"start", "loop"} /\ skip_option = 1 => flag_get_supply = 0
  /\ pc \in {"send", "recv", "check"} /\ flag_get_supply = 1 => request = 0
InFlight ==
  /\ toServer \in Seq([n : Nat, update : Nat])
  /\ \A i, j \in 1..Len(toServer) :
       i < j /\ toServer[j].update # 0 => toServer[i].update < toServer[j].update
  /\ \A i \in 1..Len(toServer) : toServer[i].update <= asked
  /\ pc = "send" /\ request # 0 => \A i \in 1..Len(toServer) : toServer[i].update < request
Applied ==
  /\ applied \in Seq(Nat)
  /\ \A i \in 1..Len(applied) : applied[i] <= asked
  /\ \A i \in 1..Len(applied), j \in 1..Len(toServer) :
       toServer[j].update # 0 => applied[i] < toServer[j].update
  /\ pc = "send" /\ request # 0 => \A i \in 1..Len(applied) : applied[i] < request
CInv == sent \in Nat /\ Buffered /\ InFlight /\ Applied /\ UpdatesOnceInOrder

\* Where every message fits the receive buffer, the reply the client shows is
\* the reply to the request it has just sent, or lags behind it by no more
\* requests than signals made it abandon (client.c:108,
\* comunication_handler.c:236).
LagBounded ==
  pc = "check" /\ got # Nothing /\ got.kind # "end" => sent <= got.n + abandoned

\* Why: replies on their way and, behind them, requests keep the order in which
\* the client asked, END last, and the oldest that can still be shown lags by no
\* more than the waits that were abandoned.  A recv that fails leaves
\* replies behind without a wait abandoned for each, but only at the end: every
\* later recv fails as well.
Expected == IF pc = "recv" THEN sent ELSE sent + 1
InOrder ==
  /\ \A i \in 1..Len(toServer) : toServer[i].n <= sent
  /\ \A i, j \in 1..Len(toServer) : i < j => toServer[i].n < toServer[j].n
  /\ \A i \in 1..Len(toClient) : toClient[i].n <= sent
  /\ \A i, j \in 1..Len(toClient) :
       i < j => /\ toClient[i].kind # "end"
                /\ toClient[j].kind # "end" => toClient[i].n < toClient[j].n
  /\ \A i \in 1..Len(toClient), j \in 1..Len(toServer) :
       toClient[i].kind # "end" => toClient[i].n < toServer[j].n
  /\ server = "up" => \A i \in 1..Len(toClient) : toClient[i].kind # "end"
Failing == server = "gone" /\ (refused \/ pc # "recv")
Lag ==
  /\ abandoned <= signals
  /\ refused => server = "gone" /\ pc \in {"recv", "exit"}
  /\ pc # "exit" /\ server = "up" =>
       \A i \in 1..Len(toServer) : Expected <= toServer[i].n + abandoned
  /\ pc # "exit" /\ ~Failing =>
       \A i \in 1..Len(toClient) :
         toClient[i].kind # "end" => Expected <= toClient[i].n + abandoned
LInv == Fits /\ TypeOK /\ InOrder /\ Lag /\ LagBounded

\* What TypeOK needs, for messages of any length.
TInv == TypeOK /\ abandoned <= signals

\* A client that waits goes on some time: its request is answered, or the
\* server process has ended and, once the emergency process that kept the TCP
\* socket open ends too, recv returns.  Only over UDP, where recv has no
\* timeout, can it wait for ever, and only with nothing under way any more:
\* a datagram was lost or its server is gone (client.c:108).
StuckOnlyByLoss ==
  pc = "recv" ~>
    (pc # "recv" \/ (transport = "udp" /\ Blocked /\ toServer = <<>>))

\* Over TCP the status loop is left some time after SIGINT has reset
\* flag_get_supply, at whichever point it came, and some time after the
\* server has closed the connection, even if END was hidden behind a late
\* reply: after at most two more requests (client.c:108-130).
TcpLoopLeft ==
  (/\ transport = "tcp"
   /\ pc \in {"send", "recv", "check"}
   /\ flag_get_supply = 0 \/ server \in {"fin", "rst"}
   /\ sent + 2 <= MaxSent)
  ~> pc \in {"menu", "exit"}
=============================================================================
