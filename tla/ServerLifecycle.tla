--------------------------- MODULE ServerLifecycle ---------------------------
(***************************************************************************)
(* How connections begin and end: the server's process tree, its signals,  *)
(* the emergency pipe and the END message.                                 *)
(*                                                                         *)
(*   main     waits for the six children it forks: two TCP listeners, two  *)
(*            UDP servers, the sensors and the reader of the queue         *)
(*   tcp[l]   run_server_ipv4 or run_server_ipv6 with SOCK_STREAM          *)
(*   conn[c]  the process that serves TCP client c, a child of a listener  *)
(*   emer[c]  the emergency process of c, a child of conn[c]               *)
(*                                                                         *)
(* All inherit sign_handler, which calls end_conn on SIGINT and SIGTSTP.   *)
(* Its globals newsockfd and pipe_fd mean something else in each of them:  *)
(* a client and a pipe in conn[c]; the client being accepted in tcp[l];    *)
(* and descriptor 0, which end_conn has just closed, everywhere else.  The *)
(* kind of a pending signal is not kept: both call end_conn.               *)
(*                                                                         *)
(* What a connection does with a request is the subject of StateFile; here *)
(* it may fail at any time.                                                *)
(***************************************************************************)
EXTENDS Naturals

CONSTANTS
  Conn,   \* TCP clients, each connecting at most once
  Tcp,    \* the TCP listeners
  Other,  \* the UDP servers and the sensors: children that serve no TCP client
  None,   \* no client, no listener
  MaxPresses  \* bound: how often Ctrl-C or Ctrl-Z is pressed at the server

ASSUME NoneIsNoOne == None \notin Conn /\ None \notin Tcp
ASSUME MaxPressesType == MaxPresses \in Nat

VARIABLES
  main,
  tcp,
  held,     \* the client whose socket a listener has in newsockfd
  others,   \* the members of Other still running
  drain,    \* alert_and_emergency_listener, the reader of the queue
  conn, emer,
  client,   \* what each client is doing
  via,      \* the listener each client connects to
  sigMain, sigTcp, sigConn, sigEmer,  \* processes with a signal pending
  msgq,     \* does the message queue exist?
  told,     \* history: clients to which END was sent
  presses   \* history: how often Ctrl-C or Ctrl-Z was pressed at the server

\* Has the server's terminal been used?
terminal == presses > 0

clients   == <<client, via>>
listeners == <<tcp, held>>
children  == <<others, drain>>
sigs      == <<sigMain, sigTcp, sigConn, sigEmer>>

vars == <<main, listeners, children, conn, emer, clients, sigs, msgq, told, presses>>

TcpPC == {"accept",
          "accepted",  \* newsockfd is an open socket, no process yet
          "forked",    \* the same, after fork
          "closing",   \* end_conn: pipe closed, END not sent
          "ending",    \* end_conn: END sent, before IPC_RMID
          "exit"}

ConnPC == {"none",
           "starting",  \* forked, no emergency process yet
           "serving",   \* run_admin_server
           "closing", "ending",  \* end_conn, as in TcpPC
           "exit"}

EmerPC == {"none",
           "keepalive", \* before close(pipe_fd[0])
           "waiting",   \* in its 60 + 5 seconds
           "recorded",  \* event logged and stored, pipe not written
           "written",   \* pipe written, parent not signalled
           "closing", "ending",  \* end_conn, as in TcpPC
           "failing",   \* end_conn after a failed read, before END
           "exit"}

TypeOK ==
  /\ main \in {"wait", "exit"}
  /\ tcp \in [Tcp -> TcpPC]
  /\ held \in [Tcp -> Conn \cup {None}]
  /\ others \subseteq Other
  /\ drain \in {"msgrcv", "exit"}
  /\ conn \in [Conn -> ConnPC]
  /\ emer \in [Conn -> EmerPC]
  /\ client \in [Conn -> {"idle", "connecting", "connected", "gone"}]
  /\ via \in [Conn -> Tcp \cup {None}]
  /\ sigMain \in BOOLEAN
  /\ sigTcp \subseteq Tcp /\ sigConn \subseteq Conn /\ sigEmer \subseteq Conn
  /\ msgq \in BOOLEAN
  /\ told \subseteq Conn
  /\ presses \in 0..MaxPresses

Init ==
  /\ main = "wait"
  /\ tcp = [l \in Tcp |-> "accept"]
  /\ held = [l \in Tcp |-> None]
  /\ others = Other
  /\ drain = "msgrcv"
  /\ conn = [c \in Conn |-> "none"]
  /\ emer = [c \in Conn |-> "none"]
  /\ client = [c \in Conn |-> "idle"]
  /\ via = [c \in Conn |-> None]
  /\ sigMain = FALSE
  /\ sigTcp = {} /\ sigConn = {} /\ sigEmer = {}
  /\ msgq = TRUE
  /\ told = {}
  /\ presses = 0

\* The processes of a set that exist.  A signal to a parent that is gone goes
\* to the process that adopted the sender, outside the server.
TcpAlive(L)  == {l \in L : tcp[l] # "exit"}
ConnAlive(C) == {c \in C : conn[c] \notin {"none", "exit"}}
EmerAlive(C) == {c \in C : emer[c] \notin {"none", "exit"}}

-----------------------------------------------------------------------------
(***************************************************************************)
(* Clients.                                                                *)
(***************************************************************************)
Connect(c, l) ==
  /\ client[c] = "idle"
  /\ tcp[l] # "exit"
  /\ client' = [client EXCEPT ![c] = "connecting"]
  /\ via' = [via EXCEPT ![c] = l]
  /\ UNCHANGED <<main, listeners, children, conn, emer, sigs, msgq, told, presses>>

\* The client closes its socket: option 3, Ctrl-Z, or END received.
ClientLeaves(c) ==
  /\ client[c] = "connected"
  /\ client' = [client EXCEPT ![c] = "gone"]
  /\ UNCHANGED <<main, listeners, children, conn, emer, via, sigs, msgq, told, presses>>

-----------------------------------------------------------------------------
(***************************************************************************)
(* A TCP listener.                                                         *)
(***************************************************************************)

\* When a listener exits, the kernel resets the connections still queued.
ListenerExits(l) ==
  /\ tcp' = [tcp EXCEPT ![l] = "exit"]
  /\ held' = [held EXCEPT ![l] = None]
  /\ client' = [c \in Conn |-> IF client[c] = "connecting" /\ via[c] = l
                               THEN "gone" ELSE client[c]]

Accept(l, c) ==
  /\ tcp[l] = "accept"
  /\ client[c] = "connecting"
  /\ via[c] = l
  /\ tcp' = [tcp EXCEPT ![l] = "accepted"]
  /\ held' = [held EXCEPT ![l] = c]
  /\ client' = [client EXCEPT ![c] = "connected"]
  /\ UNCHANGED <<main, children, conn, emer, via, sigs, msgq, told, presses>>

\* accept returned -1: SIGTERM's handler returns, without SA_RESTART.
AcceptFails(l) ==
  /\ tcp[l] = "accept"
  /\ ListenerExits(l)
  /\ UNCHANGED <<main, children, conn, emer, via, sigs, msgq, told, presses>>

\* Mutant of Fork: the child goes on in the accept loop.
ForkAccepts(l) ==
  /\ tcp[l] = "accepted"
  /\ tcp' = [tcp EXCEPT ![l] = "forked"]
  /\ conn' \in {conn, [conn EXCEPT ![held[l]] = "accept"]}
  /\ UNCHANGED <<main, held, children, emer, clients, sigs, msgq, told, presses>>

\* fork's error is not told apart from the parent's return: the client is
\* closed like one whose process is running.
Fork(l) ==
  /\ tcp[l] = "accepted"
  /\ tcp' = [tcp EXCEPT ![l] = "forked"]
  /\ conn' \in {conn, [conn EXCEPT ![held[l]] = "starting"]}
  /\ UNCHANGED <<main, held, children, emer, clients, sigs, msgq, told, presses>>

CloseInParent(l) ==
  /\ tcp[l] = "forked"
  /\ tcp' = [tcp EXCEPT ![l] = "accept"]
  /\ held' = [held EXCEPT ![l] = None]
  /\ UNCHANGED <<main, children, conn, emer, clients, sigs, msgq, told, presses>>

-----------------------------------------------------------------------------
(***************************************************************************)
(* A connection process.                                                   *)
(***************************************************************************)

\* pipe and fork; if either fails the process exits.
SpawnEmergency(c) ==
  /\ conn[c] = "starting"
  /\ \/ /\ conn' = [conn EXCEPT ![c] = "serving"]
        /\ emer' = [emer EXCEPT ![c] = "keepalive"]
     \/ /\ conn' = [conn EXCEPT ![c] = "exit"]
        /\ UNCHANGED emer
  /\ UNCHANGED <<main, listeners, children, clients, sigs, msgq, told, presses>>

\* The client closed, or handling its request failed.
ServeFails(c) ==
  /\ conn[c] = "serving"
  /\ conn' = [conn EXCEPT ![c] = "exit"]
  /\ UNCHANGED <<main, listeners, children, emer, clients, sigs, msgq, told, presses>>

\* CLOSE_CONNECTION: end_conn begins, and closes the pipe.
CloseCommand(c) ==
  /\ conn[c] = "serving"
  /\ conn' = [conn EXCEPT ![c] = "closing"]
  /\ UNCHANGED <<main, listeners, children, emer, clients, sigs, msgq, told, presses>>

\* send_end_conn_message to c.  It succeeds while the client is there; to a
\* client that left it may still succeed, or fail, and end_conn exits.
SendEnd(c) == told' = told \cup {c}
SendEndFails(c) == client[c] = "gone" /\ UNCHANGED told

\* Mutant of ConnSendEnd: a send that failed is ignored.
ConnSendEndAnyway(c) ==
  /\ conn[c] = "closing"
  /\ conn' = [conn EXCEPT ![c] = "ending"]
  /\ SendEnd(c) \/ SendEndFails(c)
  /\ UNCHANGED <<main, listeners, children, emer, clients, sigs, msgq, presses>>

ConnSendEnd(c) ==
  /\ conn[c] = "closing"
  /\ \/ conn' = [conn EXCEPT ![c] = "ending"] /\ SendEnd(c)
     \/ conn' = [conn EXCEPT ![c] = "exit"] /\ SendEndFails(c)
  /\ UNCHANGED <<main, listeners, children, emer, clients, sigs, msgq, presses>>

\* Mutant of FinishEnd: the signal goes to main.
FinishEndToMain(c) ==
  /\ conn[c] = "ending"
  /\ conn' = [conn EXCEPT ![c] = "exit"]
  /\ msgq' = FALSE
  /\ sigMain' = (main # "exit")
  /\ UNCHANGED <<main, listeners, children, emer, clients, sigTcp, sigConn, sigEmer, told, presses>>

\* The end of end_conn: IPC_RMID and SIGTSTP to getppid(), the listener.
FinishEnd(c) ==
  /\ conn[c] = "ending"
  /\ conn' = [conn EXCEPT ![c] = "exit"]
  /\ msgq' = FALSE
  /\ sigTcp' = sigTcp \cup TcpAlive({via[c]})
  /\ UNCHANGED <<main, listeners, children, emer, clients, sigMain, sigConn, sigEmer, told, presses>>

\* A signal while end_conn is under way finds the pipe closed: exit at once.
\* (A second signal of the same kind stays blocked; then end_conn goes on.)
ConnSignal(c) ==
  /\ c \in sigConn
  /\ sigConn' = sigConn \ {c}
  /\ \/ conn[c] \in {"starting", "serving"} /\ conn' = [conn EXCEPT ![c] = "closing"]
     \/ conn[c] \in {"closing", "ending"} /\ conn' = [conn EXCEPT ![c] = "exit"]
  /\ UNCHANGED <<main, listeners, children, emer, clients, sigMain, sigTcp, sigEmer, msgq, told, presses>>

-----------------------------------------------------------------------------
(***************************************************************************)
(* An emergency process.                                                   *)
(***************************************************************************)
Arm(c) ==
  /\ emer[c] = "keepalive"
  /\ emer' = [emer EXCEPT ![c] = "waiting"]
  /\ UNCHANGED <<main, listeners, children, conn, clients, sigs, msgq, told, presses>>

\* Time is up: log and store "notification sent to all connected clients".
\* strcat into the uninitialised event buffer may kill the process instead.
Record(c) ==
  /\ emer[c] = "waiting"
  /\ \E next \in {"recorded", "exit"} : emer' = [emer EXCEPT ![c] = next]
  /\ UNCHANGED <<main, listeners, children, conn, clients, sigs, msgq, told, presses>>

\* Mutant of WritePipe: SIGPIPE is ignored and the write repeated while it
\* fails.
WritePipeRetries(c) ==
  /\ emer[c] = "recorded"
  /\ emer' = [emer EXCEPT ![c] = IF conn[c] = "serving" THEN "written" ELSE "recorded"]
  /\ UNCHANGED <<main, listeners, children, conn, clients, sigs, msgq, told, presses>>

\* The pipe has a reader until its connection exits or is inside end_conn;
\* without one SIGPIPE kills the process.
WritePipe(c) ==
  /\ emer[c] = "recorded"
  /\ emer' = [emer EXCEPT ![c] = IF conn[c] = "serving" THEN "written" ELSE "exit"]
  /\ UNCHANGED <<main, listeners, children, conn, clients, sigs, msgq, told, presses>>

\* Mutant of KillParent: every connection is signalled.
KillAll(c) ==
  /\ emer[c] = "written"
  /\ emer' = [emer EXCEPT ![c] = "exit"]
  /\ sigConn' = sigConn \cup ConnAlive(Conn)
  /\ UNCHANGED <<main, listeners, children, conn, clients, sigMain, sigTcp, sigEmer, msgq, told, presses>>

\* Mutant of KillParent: nobody is signalled.
KillNobody(c) ==
  /\ emer[c] = "written"
  /\ emer' = [emer EXCEPT ![c] = "exit"]
  /\ UNCHANGED <<main, listeners, children, conn, clients, sigs, msgq, told, presses>>

KillParent(c) ==
  /\ emer[c] = "written"
  /\ emer' = [emer EXCEPT ![c] = "exit"]
  /\ sigConn' = sigConn \cup ConnAlive({c})
  /\ UNCHANGED <<main, listeners, children, conn, clients, sigMain, sigTcp, sigEmer, msgq, told, presses>>

\* end_conn in the emergency process.  Before Arm it has the pipe and the
\* client and goes on.  Later the fcntl on the closed pipe fails, unless the
\* descriptor has been reused for a file being read (end_conn goes on) or
\* written (the read fails).  A signal inside end_conn makes it exit.
EmerSignal(c) ==
  /\ c \in sigEmer
  /\ sigEmer' = sigEmer \ {c}
  /\ \/ /\ emer[c] \in {"keepalive", "waiting"}
        /\ emer' = [emer EXCEPT ![c] = "closing"]
     \/ /\ emer[c] = "waiting"
        /\ emer' = [emer EXCEPT ![c] = "failing"]
     \/ /\ emer[c] \notin {"none", "keepalive", "exit"}
        /\ emer' = [emer EXCEPT ![c] = "exit"]
  /\ UNCHANGED <<main, listeners, children, conn, clients, sigMain, sigTcp, sigConn, msgq, told, presses>>

\* END, after which the process whose read failed exits at once.
EmerSendEnd(c) ==
  /\ \/ emer[c] = "closing" /\ emer' = [emer EXCEPT ![c] = "ending"] /\ SendEnd(c)
     \/ emer[c] = "failing" /\ emer' = [emer EXCEPT ![c] = "exit"] /\ SendEnd(c)
     \/ emer[c] \in {"closing", "failing"} /\ emer' = [emer EXCEPT ![c] = "exit"] /\ SendEndFails(c)
  /\ UNCHANGED <<main, listeners, children, conn, clients, sigs, msgq, presses>>

EmerFinishEnd(c) ==
  /\ emer[c] = "ending"
  /\ emer' = [emer EXCEPT ![c] = "exit"]
  /\ msgq' = FALSE
  /\ sigConn' = sigConn \cup ConnAlive({c})
  /\ UNCHANGED <<main, listeners, children, conn, clients, sigMain, sigTcp, sigEmer, told, presses>>

-----------------------------------------------------------------------------
(***************************************************************************)
(* end_conn in a listener, the other processes and the terminal.           *)
(***************************************************************************)

\* In a listener end_conn works on standard input and on newsockfd, which is
\* an open socket only between accept and close.  Otherwise send fails, and
\* the listener exits.  It also exits on a signal inside end_conn: one of the
\* other kind, which only the terminal sends to a listener.
TcpSignal(l) ==
  /\ l \in sigTcp
  /\ sigTcp' = sigTcp \ {l}
  /\ \/ /\ tcp[l] \in {"accepted", "forked"}
        /\ tcp' = [tcp EXCEPT ![l] = "closing"]
        /\ UNCHANGED <<held, client>>
     \/ /\ tcp[l] = "accept" \/ (tcp[l] \in {"closing", "ending"} /\ terminal)
        /\ ListenerExits(l)
  /\ UNCHANGED <<main, children, conn, emer, via, sigMain, sigConn, sigEmer, msgq, told, presses>>

\* END to the client just accepted, which may have a process of its own.
TcpSendEnd(l) ==
  /\ tcp[l] = "closing"
  /\ \/ /\ tcp' = [tcp EXCEPT ![l] = "ending"]
        /\ SendEnd(held[l])
        /\ UNCHANGED <<held, client>>
     \/ ListenerExits(l) /\ SendEndFails(held[l])
  /\ UNCHANGED <<main, children, conn, emer, via, sigs, msgq, presses>>

TcpFinishEnd(l) ==
  /\ tcp[l] = "ending"
  /\ ListenerExits(l)
  /\ msgq' = FALSE
  /\ sigMain' = (main # "exit")
  /\ UNCHANGED <<main, children, conn, emer, via, sigTcp, sigConn, sigEmer, told, presses>>

\* In main, as in the UDP servers, the sensors and the queue's reader,
\* end_conn closes descriptor 0 and then cannot send on it: exit, nobody
\* notified.
MainSignal ==
  /\ sigMain
  /\ sigMain' = FALSE
  /\ main = "wait"
  /\ main' = "exit"
  /\ UNCHANGED <<listeners, children, conn, emer, clients, sigTcp, sigConn, sigEmer, msgq, told, presses>>

\* A UDP server exits on any error, and on command 0, whose end_conn fails in
\* the same way; the sensors on any error in storing or sending an alert.
OtherExits(p) ==
  /\ p \in others
  /\ others' = others \ {p}
  /\ UNCHANGED <<main, listeners, drain, conn, emer, clients, sigs, msgq, told, presses>>

\* msgrcv fails once the queue is removed.
QueueGone ==
  /\ drain = "msgrcv"
  /\ ~msgq
  /\ drain' = "exit"
  /\ UNCHANGED <<main, listeners, others, conn, emer, clients, sigs, msgq, told, presses>>

\* wait has returned for every child.
ChildrenGone ==
  /\ \A l \in Tcp : tcp[l] = "exit"
  /\ others = {}
  /\ drain = "exit"

MainDone ==
  /\ main = "wait"
  /\ ChildrenGone
  /\ main' = "exit"
  /\ UNCHANGED <<listeners, children, conn, emer, clients, sigs, msgq, told, presses>>

\* Ctrl-C or Ctrl-Z at the server's terminal reaches every process.  The
\* ones that serve no TCP client, which signal nobody, exit at once.
Terminal ==
  /\ presses < MaxPresses
  /\ presses' = presses + 1
  /\ others' = {}
  /\ drain' = "exit"
  /\ sigMain' = (main # "exit")
  /\ sigTcp' = TcpAlive(Tcp)
  /\ sigConn' = ConnAlive(Conn)
  /\ sigEmer' = EmerAlive(Conn)
  /\ UNCHANGED <<main, listeners, conn, emer, clients, msgq, told>>

-----------------------------------------------------------------------------
ConnStep(c) == SpawnEmergency(c) \/ ConnSendEnd(c) \/ FinishEnd(c) \/ ConnSignal(c)

EmerStep(c) ==
  \/ Arm(c) \/ Record(c) \/ WritePipe(c) \/ KillParent(c)
  \/ EmerSignal(c) \/ EmerSendEnd(c) \/ EmerFinishEnd(c)

TcpStep(l) ==
  \/ \E c \in Conn : Accept(l, c)
  \/ Fork(l) \/ CloseInParent(l)
  \/ TcpSignal(l) \/ TcpSendEnd(l) \/ TcpFinishEnd(l)

OtherStep == QueueGone \/ MainDone \/ MainSignal

Next ==
  \/ \E c \in Conn :
       \/ \E l \in Tcp : Connect(c, l)
       \/ ClientLeaves(c)
       \/ ConnStep(c) \/ EmerStep(c)
       \/ ServeFails(c) \/ CloseCommand(c)
  \/ \E l \in Tcp : TcpStep(l) \/ AcceptFails(l)
  \/ OtherStep
  \/ \E p \in Other : OtherExits(p)
  \/ Terminal

\* Every process is scheduled, timers run out and signals are delivered.
\* Clients, failures and the terminal are under no obligation.
Fairness ==
  /\ \A c \in Conn : WF_vars(ConnStep(c)) /\ WF_vars(ConnSignal(c)) /\ WF_vars(EmerStep(c))
  /\ \A l \in Tcp : WF_vars(TcpStep(l))
  /\ WF_vars(OtherStep)

Spec == Init /\ [][Next]_vars /\ Fairness

-----------------------------------------------------------------------------
(***************************************************************************)
(* What holds.                                                             *)
(***************************************************************************)

\* The message queue, which the whole server shares, is removed only by an
\* end_conn that has sent END to some client (server.c:471-480).
QueueRemovedAfterEnd == ~msgq => told # {}

\* A client of l was sent END, and its connection process has exited.
EndedUnder(l) == \E c \in Conn : via[c] = l /\ c \in told /\ conn[c] = "exit"

\* The SIGTSTP that end_conn passes up (server.c:482) climbs one level at a
\* time.  Without the terminal, main exits before its last child only after a
\* listener that has exited, and that one only after a connection of its own
\* that has.  (The other listener may still be accepting.)
MainEndsFromBelow ==
  main = "exit" =>
    \/ terminal
    \/ ChildrenGone
    \/ \E l \in Tcp : tcp[l] = "exit" /\ EndedUnder(l)

\* Until someone types at the server's terminal, the only signal a connection
\* can get is the SIGINT of its own emergency process
\* (emergency_handler.c:34).
SignalledByOwnEmergency ==
  \A c \in Conn : c \in sigConn => terminal \/ emer[c] = "exit"

\* No emergency process stays for ever, not even one whose connection is long
\* gone and whose write to the pipe has no reader (emergency_handler.c:28).
EmergencyProcessesEnd == \A c \in Conn : emer[c] # "none" ~> emer[c] = "exit"

\* An emergency that has been recorded ends its connection, whatever the
\* client, the listener and the terminal are doing meanwhile
\* (emergency_handler.c:26-34, server.c:664-671).
RecordedEndsConnection == \A c \in Conn : emer[c] = "recorded" ~> conn[c] = "exit"

-----------------------------------------------------------------------------
(***************************************************************************)
(* The inductive invariant behind the safety properties.                   *)
(***************************************************************************)

\* A client that has not been accepted has no processes, and the one being
\* accepted none yet; a connection about to fork its emergency process has
\* not forked one.  A listener holds only clients of its own.
BeforeProcesses ==
  /\ \A c \in Conn : client[c] = "idle" \/ via[c] \in Tcp
  /\ \A c \in Conn : client[c] \in {"idle", "connecting"} => conn[c] = "none"
  /\ \A c \in Conn : conn[c] \in {"none", "starting"} => emer[c] = "none"
  /\ \A l \in Tcp : held[l] \in Conn =>
       via[held[l]] = l /\ client[held[l]] \notin {"idle", "connecting"}
  /\ \A l \in Tcp : tcp[l] \in {"accepted", "forked", "closing"} => held[l] \in Conn
  /\ \A l \in Tcp : tcp[l] = "accepted" => conn[held[l]] = "none"

\* Whoever has sent END and not finished end_conn has sent it to a client.
EndSentFirst ==
  /\ \A c \in Conn : conn[c] = "ending" \/ emer[c] = "ending" => c \in told
  /\ \A l \in Tcp : tcp[l] = "ending" => told # {}

\* A listener is signalled, and runs end_conn, only for the terminal or after
\* a connection of its own.
ListenerSignalledFromBelow ==
  \A l \in Tcp : l \in sigTcp \/ tcp[l] \in {"closing", "ending"} => terminal \/ EndedUnder(l)

\* main is signalled by the terminal or by a listener that has exited after a
\* connection of its own.
MainSignalledFromBelow ==
  sigMain => terminal \/ \E l \in Tcp : tcp[l] = "exit" /\ EndedUnder(l)

LInv ==
  /\ TypeOK
  /\ BeforeProcesses
  /\ EndSentFirst
  /\ ListenerSignalledFromBelow
  /\ MainSignalledFromBelow
  /\ QueueRemovedAfterEnd
  /\ MainEndsFromBelow
  /\ SignalledByOwnEmergency

-----------------------------------------------------------------------------
(***************************************************************************)
(* What the documentation says, and the code does not keep.                *)
(***************************************************************************)

\* README.md:83: on an emergency the server will "send a notification to all
\* connected clients".  The process that records it as sent signals one
\* connection, its parent; when that has failed, its client is not told.
EveryClientTold ==
  \A a, b \in Conn :
    (emer[a] = "recorded" /\ client[b] = "connected") ~> (b \in told \/ client[b] = "gone")
=============================================================================
