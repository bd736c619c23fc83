------------------------------ MODULE StateFile ------------------------------
(***************************************************************************)
(* The server's processes at work on data/state_summary.json.              *)
(*                                                                         *)
(*   Conn       one process per TCP client (run_admin_server)              *)
(*   Udp        the UDP servers (run_normal_user_server)                   *)
(*   AlertProc  the temperature sensors (run_alert_module)                 *)
(*   Emer       one emergency process per TCP client, a child of that      *)
(*              client's Conn process (run_emergency_handler)              *)
(*                                                                         *)
(* All are forks of one program and share nothing but the file and the     *)
(* message queue: mutex_state is a global of the program, initialised with *)
(* pshared = 0, so every process waits on and posts a copy of its own.     *)
(*                                                                         *)
(* One action is one call on the file that another process can observe or  *)
(* disturb: the size test of read_file, its fread, the fopen("w") of       *)
(* write_file and the write its fclose makes.                              *)
(***************************************************************************)
EXTENDS StateSummary

CONSTANTS
  Conn, Udp, AlertProc, Emer,
  parent,        \* parent[e] is the connection process that forked e
  NextEntry,     \* the order in which run_alert_module visits the entrances
  FirstEntry,
  Cred, ADMIN,   \* user names / passwords, and the administrator's
  NoItem,        \* an update request without a known supply category
  MIN_TEMPERATURE, MAX_TEMPERATURE, HIGH_TEMPERATURE

Server == Conn \cup Udp
Proc   == Server \cup Emer \cup {AlertProc}

ASSUME ProcessesDisjoint ==
  /\ Conn \cap Udp = {}
  /\ Server \cap Emer = {}
  /\ AlertProc \notin Server \cup Emer
ASSUME ParentType == parent \in [Emer -> Conn]
ASSUME EntriesCycle == FirstEntry \in Entry /\ NextEntry \in [Entry -> Entry]
ASSUME NoItemUnknown == NoItem \notin Item
ASSUME TemperaturesAreNumbers ==
  /\ MIN_TEMPERATURE \in Nat
  /\ MAX_TEMPERATURE \in Nat
  /\ HIGH_TEMPERATURE \in Nat

VARIABLES
  file,     \* the state file
  last,     \* history: the document most recently written whole to it
  pc,       \* what each process is doing
  op,       \* the operation a process is carrying out
  fsize,    \* read_file: the size ftell returned
  buf,      \* what read_file returned, as cJSON_Parse reads it
  sem,      \* the value of each connection process's own mutex_state
  signalled,\* processes with a SIGINT or a SIGTSTP pending
  msgq,     \* does the System V message queue exist?
  granted,  \* history: amounts requested with the administrator's credentials
  raised    \* history: alerts raised at each entrance

vars == <<file, last, pc, op, fsize, buf, sem, signalled, msgq, granted, raised>>

PC == {"recv",    \* server: in recv_tcp_message / recvfrom
       "wait",    \* Conn: at sem_wait(&mutex_state)
       "open",    \* about to call read_file
       "sized",   \* read_file has the size, and has not read yet
       "loaded",  \* read_file returned
       "trunc",   \* write_file has opened (and so truncated) the file
       "saved",   \* Conn: write_file returned, reply not sent yet
       "sense",   \* AlertProc: between two readings
       "forked",  \* Emer: just forked
       "sleep",   \* Emer: in its 60 + 5 second sleep
       "notify",  \* Emer: about to write the pipe and signal its parent
       "exit"}

TypeOK ==
  /\ file \in File
  /\ last \in Doc
  /\ pc \in [Proc -> PC]
  /\ op \in [Proc -> Op]
  /\ fsize \in [Proc -> Nat]
  /\ buf \in [Proc -> Doc \cup {NoDoc, Torn}]
  /\ sem \in [Conn -> {0, 1}]
  /\ signalled \in SUBSET Proc
  /\ msgq \in BOOLEAN
  /\ granted \in [Item -> SUBSET Amount]
  /\ raised \in [Entry -> 0..MaxAlerts]

Event(key, text) == [kind |-> "event", key |-> key, text |-> text]

Init ==
  /\ file = Holds(BootDoc)
  /\ last = BootDoc
  /\ pc = [p \in Proc |-> IF p \in Server THEN "recv"
                          ELSE IF p \in Emer THEN "forked" ELSE "sense"]
  /\ op = [p \in Proc |->
             IF p \in Server THEN StatusOp
             ELSE IF p \in Emer THEN Event("last_keepalived", "intact")
                  ELSE [kind |-> "entry", entry |-> FirstEntry]]
  /\ fsize = [p \in Proc |-> 0]
  /\ buf = [p \in Proc |-> NoDoc]
  /\ sem = [c \in Conn |-> 1]
  /\ signalled = {}
  /\ msgq = TRUE
  /\ granted = [i \in Item |-> {}]
  /\ raised = [e \in Entry |-> 0]

-----------------------------------------------------------------------------
(***************************************************************************)
(* Leaving an operation.                                                   *)
(***************************************************************************)

\* The operation a process is left with when the current one is over.
RestOp(p) ==
  IF p \in Server THEN StatusOp
  ELSE IF p = AlertProc
       THEN [kind |-> "entry", entry |-> NextEntry[op[p].entry]]
       ELSE op[p]

\* p gives up its buffers and continues at next.
Leave(p, next) ==
  /\ pc' = [pc EXCEPT ![p] = next]
  /\ op' = [op EXCEPT ![p] = RestOp(p)]
  /\ fsize' = [fsize EXCEPT ![p] = 0]
  /\ buf' = [buf EXCEPT ![p] = NoDoc]

\* Where the sensors and an emergency process go after add_entry_to_json and
\* add_event_to_json, whose result they ignore.
NextPhase(p) ==
  IF p = AlertProc THEN "sense"
  ELSE IF op[p].key = "last_keepalived" THEN "sleep" ELSE "notify"

\* sem_post on the path out of set_and_send_suply_status.
PostIfUpdating(p) ==
  sem' = IF p \in Conn /\ op[p].kind = "supply" THEN [sem EXCEPT ![p] = @ + 1] ELSE sem

\* read_file or a JSON helper returned an error: a server process exits (an
\* update posts its semaphore first); the others carry on.
Fail(p) ==
  /\ Leave(p, IF p \in Server THEN "exit" ELSE NextPhase(p))
  /\ PostIfUpdating(p)
  /\ UNCHANGED <<file, last, signalled, msgq, granted, raised>>

-----------------------------------------------------------------------------
(***************************************************************************)
(* Requests.                                                               *)
(***************************************************************************)

\* Mutant of check_credentials: one right name is enough.
CheckEither(hostname, password) == hostname = ADMIN \/ password = ADMIN

check_credentials(hostname, password) == hostname = ADMIN /\ password = ADMIN

RecvStatus(p) ==
  /\ p \in Server
  /\ pc[p] = "recv"
  /\ pc' = [pc EXCEPT ![p] = "open"]
  /\ UNCHANGED <<file, last, op, fsize, buf, sem, signalled, msgq, granted, raised>>

\* An accepted update request goes on to sem_wait.  Without a supply category
\* set_supply fails before it touches the file: after sem_wait and sem_post
\* the process exits.
RecvUpdate(c, hostname, password, item, amount) ==
  /\ pc[c] = "recv"
  /\ check_credentials(hostname, password)
  /\ \/ /\ item = NoItem
        /\ sem[c] > 0
        /\ Leave(c, "exit")
        /\ UNCHANGED granted
     \/ /\ item # NoItem
        /\ pc' = [pc EXCEPT ![c] = "wait"]
        /\ op' = [op EXCEPT ![c] = [kind |-> "supply", item |-> item, amount |-> amount]]
        /\ granted' = IF hostname = ADMIN /\ password = ADMIN
                      THEN [granted EXCEPT ![item] = @ \cup {amount}]
                      ELSE granted
        /\ UNCHANGED <<fsize, buf>>
  /\ UNCHANGED <<file, last, sem, signalled, msgq, raised>>

\* A refused update is answered and forgotten; the process exits only if the
\* answer cannot be sent.  The UDP servers refuse every update.
RecvDenied(p, hostname, password) ==
  /\ pc[p] = "recv"
  /\ p \in Conn => ~check_credentials(hostname, password)
  /\ Leave(p, "recv") \/ Leave(p, "exit")
  /\ UNCHANGED <<file, last, sem, signalled, msgq, granted, raised>>

\* The client closed the connection or the receive failed; or the message has
\* no command and get_command frees an uninitialised pointer.
RecvFails(p) ==
  /\ p \in Server
  /\ pc[p] = "recv"
  /\ Leave(p, "exit")
  /\ UNCHANGED <<file, last, sem, signalled, msgq, granted, raised>>

\* Command 0 (or one atoi reads as 0): end_conn, which over TCP removes the
\* message queue unless the END message could not be sent.
RecvClose(p) ==
  /\ p \in Server
  /\ pc[p] = "recv"
  /\ Leave(p, "exit")
  /\ msgq' \in IF p \in Conn THEN {FALSE, msgq} ELSE {msgq}
  /\ UNCHANGED <<file, last, sem, signalled, granted, raised>>

\* Mutant of SemWait: the semaphore is tested and not taken.
SemTest(c) ==
  /\ pc[c] = "wait"
  /\ sem[c] > 0
  /\ pc' = [pc EXCEPT ![c] = "open"]
  /\ UNCHANGED <<file, last, op, fsize, buf, sem, signalled, msgq, granted, raised>>

SemWait(c) ==
  /\ pc[c] = "wait"
  /\ sem[c] > 0
  /\ sem' = [sem EXCEPT ![c] = @ - 1]
  /\ pc' = [pc EXCEPT ![c] = "open"]
  /\ UNCHANGED <<file, last, op, fsize, buf, signalled, msgq, granted, raised>>

-----------------------------------------------------------------------------
(***************************************************************************)
(* read_file and write_file, called with operation op[p].                  *)
(***************************************************************************)
ReadSize(p) ==
  /\ pc[p] = "open"
  /\ file.size # 0
  /\ fsize' = [fsize EXCEPT ![p] = file.size]
  /\ pc' = [pc EXCEPT ![p] = "sized"]
  /\ UNCHANGED <<file, last, op, buf, sem, signalled, msgq, granted, raised>>

\* Mutant of ReadEmpty: an empty file is read as the initial document.
ReadEmptyAsBoot(p) ==
  /\ pc[p] = "open"
  /\ file.size = 0
  /\ buf' = [buf EXCEPT ![p] = BootDoc]
  /\ pc' = [pc EXCEPT ![p] = "loaded"]
  /\ UNCHANGED <<file, last, op, fsize, sem, signalled, msgq, granted, raised>>

ReadEmpty(p) ==
  /\ pc[p] = "open"
  /\ file.size = 0
  /\ Fail(p)

ReadBody(p) ==
  /\ pc[p] = "sized"
  /\ file.size >= fsize[p]
  /\ buf' = [buf EXCEPT ![p] = Fetched(file, fsize[p])]
  /\ pc' = [pc EXCEPT ![p] = "loaded"]
  /\ UNCHANGED <<file, last, op, fsize, sem, signalled, msgq, granted, raised>>

\* bytesRead != fsize: the file shrank since its size was taken.
ReadShort(p) ==
  /\ pc[p] = "sized"
  /\ file.size < fsize[p]
  /\ Fail(p)

\* The reply to a status request is the text as it was read, unparsed.
SendStatus(p) ==
  /\ pc[p] = "loaded"
  /\ op[p].kind = "status"
  /\ Leave(p, "recv") \/ Leave(p, "exit")
  /\ UNCHANGED <<file, last, sem, signalled, msgq, granted, raised>>

EditFails(p) ==
  /\ pc[p] = "loaded"
  /\ op[p].kind # "status"
  /\ buf[p] = Torn
  /\ Fail(p)

\* A library call of read_file failed, or the fopen of write_file.
IOFails(p) ==
  /\ \/ pc[p] \in {"open", "sized"}
     \/ pc[p] = "loaded" /\ op[p].kind # "status"
  /\ Fail(p)

OpenForWrite(p) ==
  /\ pc[p] = "loaded"
  /\ op[p].kind # "status"
  /\ buf[p] # Torn
  /\ file' = Truncated
  /\ pc' = [pc EXCEPT ![p] = "trunc"]
  /\ UNCHANGED <<last, op, fsize, buf, sem, signalled, msgq, granted, raised>>

AfterWrite(p) == Leave(p, IF p \in Conn THEN "saved" ELSE NextPhase(p))

\* Mutant of CloseWrite: the edit is made to a fresh object, as when
\* cjson_add_key_value_to_json_string cannot parse the text it is given.
CloseWriteFresh(p) ==
  /\ pc[p] = "trunc"
  /\ last' = Edit(op[p], BootDoc)
  /\ file' = Overwritten(file, last')
  /\ AfterWrite(p)
  /\ UNCHANGED <<sem, signalled, msgq, granted, raised>>

\* Mutant of CloseWrite: the last byte of the text is not written.
CloseWriteShort(p) ==
  /\ pc[p] = "trunc"
  /\ last' = Edit(op[p], buf[p])
  /\ file' = [doc |-> last', size |-> DocLen(last') - 1]
  /\ AfterWrite(p)
  /\ UNCHANGED <<sem, signalled, msgq, granted, raised>>

CloseWrite(p) ==
  /\ pc[p] = "trunc"
  /\ last' = Edit(op[p], buf[p])
  /\ file' = Overwritten(file, last')
  /\ AfterWrite(p)
  /\ UNCHANGED <<sem, signalled, msgq, granted, raised>>

\* The disk is full: the stream is flushed by fclose, whose result write_file
\* drops, so the caller is told the write succeeded.
FlushFails(p) ==
  /\ pc[p] = "trunc"
  /\ AfterWrite(p)
  /\ UNCHANGED <<file, last, sem, signalled, msgq, granted, raised>>

\* Mutant of AckUpdate: the sem_post is missing.
AckUpdateNoPost(c) ==
  /\ pc[c] = "saved"
  /\ Leave(c, "recv") \/ Leave(c, "exit")
  /\ UNCHANGED <<file, last, sem, signalled, msgq, granted, raised>>

\* The reply to an update, then sem_post; if the reply fails, exit.
AckUpdate(c) ==
  /\ pc[c] = "saved"
  /\ Leave(c, "recv") \/ Leave(c, "exit")
  /\ sem' = [sem EXCEPT ![c] = @ + 1]
  /\ UNCHANGED <<file, last, signalled, msgq, granted, raised>>

\* The helpers print the edited document into buffers allocated for the old
\* one.  When the text grew, the overrun heap may abort the process at its
\* next allocation: before fopen, or between fopen and the flush.  (An abort
\* after the flush is an AckUpdate that exits.)
HeapAbort(p) ==
  /\ pc[p] \in {"loaded", "trunc"}
  /\ buf[p] # Torn
  /\ DocLen(Edit(op[p], buf[p])) > DocLen(buf[p])
  /\ Leave(p, "exit")
  /\ UNCHANGED <<file, last, sem, signalled, msgq, granted, raised>>

-----------------------------------------------------------------------------
(***************************************************************************)
(* The temperature sensors and the emergency processes.                    *)
(***************************************************************************)
get_temperature == MIN_TEMPERATURE .. (MAX_TEMPERATURE - 1)

\* A reading that raises no alert is only logged.
SenseNormal ==
  /\ pc[AlertProc] = "sense"
  /\ \E t \in get_temperature : ~(t > HIGH_TEMPERATURE)
  /\ Leave(AlertProc, "sense")
  /\ UNCHANGED <<file, last, sem, signalled, msgq, granted, raised>>

\* An alert is sent to the message queue and then counted in the file; if the
\* queue is gone, msgsnd fails and the process exits.
SenseAlert ==
  LET e == op[AlertProc].entry IN
  /\ pc[AlertProc] = "sense"
  /\ \E t \in get_temperature : t > HIGH_TEMPERATURE
  /\ \/ /\ msgq
        /\ raised[e] < MaxAlerts
        /\ raised' = [raised EXCEPT ![e] = @ + 1]
        /\ pc' = [pc EXCEPT ![AlertProc] = "open"]
        /\ UNCHANGED <<op, fsize, buf>>
     \/ /\ ~msgq
        /\ Leave(AlertProc, "exit")
        /\ UNCHANGED raised
  /\ UNCHANGED <<file, last, sem, signalled, msgq, granted>>

\* The timestamp does not fit its SIZE_TIME bytes, so strftime leaves it
\* without a terminator and what follows it in memory may be taken along.
Keepalive(e) ==
  /\ pc[e] = "forked"
  /\ pc' = [pc EXCEPT ![e] = "open"]
  /\ \E text \in EventText : op' = [op EXCEPT ![e] = Event("last_keepalived", text)]
  /\ UNCHANGED <<file, last, fsize, buf, sem, signalled, msgq, granted, raised>>

\* Time is up.  The event text is appended to an uninitialised buffer: it may
\* come out garbled, or strcat may run off the buffer and kill the process.
Wake(e) ==
  /\ pc[e] = "sleep"
  /\ \/ \E text \in EventText :
          /\ op' = [op EXCEPT ![e] = Event("last_event", text)]
          /\ pc' = [pc EXCEPT ![e] = "open"]
          /\ UNCHANGED <<fsize, buf>>
     \/ Leave(e, "exit")
  /\ UNCHANGED <<file, last, sem, signalled, msgq, granted, raised>>

\* write to the pipe, then SIGINT to the parent.  With the parent gone the
\* pipe has no reader and SIGPIPE ends the process at the write.
Notify(e) ==
  /\ pc[e] = "notify"
  /\ signalled' = IF pc[parent[e]] = "exit" THEN signalled ELSE signalled \cup {parent[e]}
  /\ Leave(e, "exit")
  /\ UNCHANGED <<file, last, sem, msgq, granted, raised>>

-----------------------------------------------------------------------------
(***************************************************************************)
(* SIGINT and SIGTSTP.                                                     *)
(***************************************************************************)

\* Ctrl-C at the server's terminal reaches every process of the group.
CtrlC ==
  /\ signalled' = {p \in Proc : pc[p] # "exit"}
  /\ UNCHANGED <<file, last, pc, op, fsize, buf, sem, msgq, granted, raised>>

\* Only a process that has a client socket and the read end of the pipe can
\* get through end_conn; in the others the first send or fcntl fails.  An
\* emergency process closes that end before it sleeps, but read_file reuses
\* the descriptor, and then end_conn reads from the file instead.
HasClientAndPipe(p) ==
  \/ p \in Conn
  \/ p \in Emer /\ pc[p] = "sized"
  \/ p \in Emer /\ op[p].key = "last_keepalived" /\ pc[p] # "sleep"

\* The last calls of end_conn: the message queue is removed and the parent
\* gets SIGTSTP (a connection's parent is the listener, which has no part in
\* the file).
EndConn(p) ==
  /\ HasClientAndPipe(p)
  /\ msgq' = FALSE
  /\ signalled' = (signalled \ {p}) \cup
                     (IF p \in Emer /\ pc[parent[p]] # "exit" THEN {parent[p]} ELSE {})

\* sign_handler runs end_conn wherever the process was interrupted, and
\* end_conn always ends in exit, early if a call fails.  Data already handed
\* to the stream is flushed by exit (that is CloseWrite followed by this
\* action); otherwise a file truncated by the interrupted write_file stays
\* empty.
HandleSignal(p) ==
  /\ p \in signalled
  /\ pc[p] # "exit"
  /\ Leave(p, "exit")
  /\ \/ EndConn(p)
     \/ signalled' = signalled \ {p} /\ UNCHANGED msgq
  /\ UNCHANGED <<file, last, sem, granted, raised>>

-----------------------------------------------------------------------------
Receive(p) ==
  \/ RecvStatus(p)
  \/ RecvFails(p)
  \/ RecvClose(p)
  \/ \E h, w \in Cred : p \in Server /\ RecvDenied(p, h, w)
  \/ \E h, w \in Cred, i \in Item \cup {NoItem}, a \in Amount :
       p \in Conn /\ RecvUpdate(p, h, w, i, a)

\* The steps a process takes by itself, whatever its clients do.
Step(p) ==
  \/ p \in Conn /\ (SemWait(p) \/ AckUpdate(p))
  \/ ReadSize(p) \/ ReadEmpty(p) \/ ReadBody(p) \/ ReadShort(p)
  \/ SendStatus(p) \/ EditFails(p) \/ OpenForWrite(p) \/ CloseWrite(p)
  \/ p \in Emer /\ (Keepalive(p) \/ Wake(p) \/ Notify(p))

Sense == SenseNormal \/ SenseAlert

Next ==
  \/ \E p \in Proc :
       Receive(p) \/ Step(p) \/ HandleSignal(p) \/ IOFails(p) \/ FlushFails(p) \/ HeapAbort(p)
  \/ Sense
  \/ CtrlC

\* The kernel schedules every process and delivers every signal.  Clients,
\* the sensors' readings and failures are left to chance.
Fairness == \A p \in Proc : WF_vars(Step(p)) /\ WF_vars(HandleSignal(p))

Spec == Init /\ [][Next]_vars /\ Fairness

-----------------------------------------------------------------------------
(***************************************************************************)
(* Safety.                                                                 *)
(***************************************************************************)

\* The documents in play: the one last written and the ones read into memory.
LiveDocs == {last} \cup ({buf[p] : p \in Proc} \ {NoDoc, Torn})

\* README: "the only way to modify this information" is the ubuntu client.
\* Whatever the order in which sensors, emergency processes and connections
\* write each other's stale copies back, no document ever holds an amount
\* that check_credentials did not accept from the administrator.
SuppliesAuthorised ==
  \A d \in LiveDocs : \A i \in Item : d.supplies[i] \in granted[i] \cup {Unset}

\* An alert that add_entry_to_json is still to count.
Pending(e) ==
  IF /\ pc[AlertProc] \in {"open", "sized", "loaded", "trunc"}
     /\ op[AlertProc].entry = e
  THEN 1 ELSE 0

\* Races over the file can lose an alert but never invent one: no document
\* counts more alerts at an entrance than were raised there and finished.
AlertsNeverOvercount ==
  \A d \in LiveDocs : \A e \in Entry : d.alerts[e] + Pending(e) <= raised[e]

\* The file is empty and no process is inside write_file, or past the read
\* that precedes it, to fill it again.
Wedged ==
  /\ file.size = 0
  /\ \A p \in Proc :
       /\ pc[p] # "trunc"
       /\ pc[p] = "loaded" => op[p].kind = "status" \/ buf[p] = Torn

\* read_file refuses an empty file and every write starts with a read_file,
\* so a file left empty stays empty: no process can ever repair it.
WedgedForever == [][Wedged => Wedged']_vars

\* A reader gets part of a document only when the file grew between its two
\* calls (lib_handler.c:51, 65): whatever truncations, flushes and aborts went
\* before, a file that is left alone for as long as it is read is whole.
TornOnlyIfGrown ==
  [][\A p \in Proc :
       pc[p] = "sized" /\ pc'[p] = "loaded" /\ buf'[p] = Torn => file.size > fsize[p]]_vars

\* mutex_state is free whenever its process is between requests: a process
\* never blocks in sem_wait, so the copies of mutex_state that fork makes
\* order nothing and cannot deadlock either.
SemFreeOutside ==
  \A c \in Conn : pc[c] \in {"recv", "wait"} => sem[c] = 1

(***************************************************************************)
(* The inductive invariant behind the safety properties.                   *)
(***************************************************************************)

\* Each kind of process carries out its own kind of operation.
OpsByProcess ==
  /\ \A c \in Conn : op[c] \in {StatusOp} \cup SupplyOp
  /\ \A u \in Udp : op[u] = StatusOp
  /\ op[AlertProc] \in EntryOp
  /\ \A e \in Emer : op[e] \in EventOp

\* The file is either empty or starts with the last document written.
FileIsLast ==
  \/ file = Truncated
  \/ file.doc = last /\ file.size >= DocLen(last)

\* A buffer is held exactly from the read to the end of the write, and a
\* write is only under way with a document to edit.
BuffersInUse ==
  \A p \in Proc :
    /\ buf[p] # NoDoc => pc[p] \in {"loaded", "trunc"}
    /\ pc[p] = "sized" => fsize[p] > 0
    /\ pc[p] = "loaded" => buf[p] # NoDoc
    /\ pc[p] = "trunc" => buf[p] \in Doc /\ op[p].kind # "status"

\* An update in progress was accepted by check_credentials.
UpdatesGranted ==
  \A c \in Conn : op[c].kind = "supply" => op[c].amount \in granted[op[c].item]

\* Where connection c holds its mutex_state.
InCriticalSection(c) ==
  \/ pc[c] = "saved"
  \/ pc[c] # "wait" /\ op[c].kind = "supply"

MutexAccounted ==
  \A c \in Conn :
    /\ pc[c] # "exit" => sem[c] = IF InCriticalSection(c) THEN 0 ELSE 1
    /\ pc[c] \in {"recv", "saved"} => op[c].kind = "status"
    /\ pc[c] = "wait" => op[c].kind = "supply"

IInv ==
  /\ TypeOK
  /\ OpsByProcess
  /\ FileIsLast
  /\ BuffersInUse
  /\ UpdatesGranted
  /\ MutexAccounted
  /\ SuppliesAuthorised
  /\ AlertsNeverOvercount

(***************************************************************************)
(* Refinement.  What read_file returned is a document that was current at  *)
(* some moment, and what CloseWrite makes current is one edit of it.       *)
(***************************************************************************)
Store == INSTANCE SnapshotStore WITH
           Update  <- Op \ {StatusOp},
           current <- last,
           snap    <- [p \in Proc |-> IF buf[p] = Torn THEN NoDoc ELSE buf[p]]

\* The file behaves as a store of whole documents: no reader acts on a
\* mixture of two documents, no writer leaves one.
StoreSafety == Store!Spec

(***************************************************************************)
(* Liveness.                                                               *)
(***************************************************************************)

\* A server process that took a request gets back to its client's next one,
\* or exits: nothing on the way (sem_wait, the file) holds it for ever.
RequestsComplete ==
  \A p \in Server : pc[p] \notin {"recv", "exit"} ~> pc[p] \in {"recv", "exit"}

(***************************************************************************)
(* What the documentation promises and the code does not keep.             *)
(***************************************************************************)

\* README: "The only way to modify this information" is an administrator's
\* update.  The amounts on file change only when such an update is written.
SuppliesChangeByUpdateOnly ==
  [][last'.supplies # last.supplies =>
       \E c \in Conn : pc[c] = "trunc" /\ pc'[c] = "saved"]_vars
=============================================================================
