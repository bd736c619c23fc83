--------------------------- MODULE StateFileProofs ---------------------------
(***************************************************************************)
(* Proofs about StateFile, for any number of processes, entrances, items   *)
(* and amounts.                                                            *)
(***************************************************************************)
EXTENDS StateFile, TLAPS

\* The edit of any operation yields a document, provided that a counter it
\* increments is below the bound.
LEMMA EditType ==
  ASSUME NEW o \in Op, NEW d \in Doc,
         o.kind = "entry" => d.alerts[o.entry] < MaxAlerts
  PROVE  Edit(o, d) \in Doc
<1>1. CASE o \in {StatusOp}
  BY <1>1 DEF Edit, StatusOp
<1>2. CASE o \in SupplyOp
  BY <1>2 DEF Edit, SupplyOp, Doc
<1>3. CASE o \in EntryOp
  BY <1>3, MaxAlertsType DEF Edit, EntryOp, Doc
<1>4. CASE o \in EventOp
  BY <1>4 DEF Edit, EventOp, Doc
<1> QED
  BY <1>1, <1>2, <1>3, <1>4 DEF Op

\* BootDoc is a document.
LEMMA BootDocType == BootDoc \in Doc
BY MaxAlertsType DEF BootDoc, Doc

\* The initial state satisfies the inductive invariant.
LEMMA InitIInv == Init => IInv
<1> SUFFICES ASSUME Init PROVE IInv
  OBVIOUS
<1> USE BootDocType, SentinelsAreNoDocs, ProcessesDisjoint DEF Init
<1>1. OpsByProcess
  BY EntriesCycle DEF OpsByProcess, Proc, Server, Event, EntryOp, EventOp, EmergencyKey, EventText
<1>2. TypeOK
  <2>1. file \in File
    BY DocLenType DEF File, Holds
  <2>2. pc \in [Proc -> PC]
    BY DEF PC
  <2>3. op \in [Proc -> Op]
    BY EntriesCycle DEF Op, EntryOp, EventOp, Event, EmergencyKey, EventText
  <2> QED
    BY <2>1, <2>2, <2>3, MaxAlertsType DEF TypeOK
<1>3. FileIsLast
  BY DocLenType DEF FileIsLast, Holds
<1>4. BuffersInUse
  BY DEF BuffersInUse, Proc
<1>5. UpdatesGranted
  BY DEF UpdatesGranted, StatusOp, Proc, Server
<1>6. MutexAccounted
  BY DEF MutexAccounted, InCriticalSection, StatusOp, Proc, Server
<1>7. LiveDocs = {BootDoc}
  BY DEF LiveDocs
<1>8. SuppliesAuthorised
  BY <1>7 DEF SuppliesAuthorised, BootDoc
<1>9. AlertsNeverOvercount
  <2>1. pc[AlertProc] = "sense"
    BY DEF Proc
  <2>2. \A e \in Entry : Pending(e) = 0
    BY <2>1 DEF Pending
  <2>3. \A e \in Entry : BootDoc.alerts[e] = 0 /\ raised[e] = 0
    BY DEF BootDoc
  <2>4. ASSUME NEW e \in Entry PROVE BootDoc.alerts[e] + Pending(e) <= raised[e]
    <3>1. BootDoc.alerts[e] = 0 /\ Pending(e) = 0 /\ raised[e] = 0
      BY <2>2, <2>3
    <3> QED
      BY <3>1
  <2> QED
    BY <1>7, <2>4 DEF AlertsNeverOvercount
<1> QED
  BY <1>1, <1>2, <1>3, <1>4, <1>5, <1>6, <1>8, <1>9 DEF IInv

-----------------------------------------------------------------------------
(***************************************************************************)
(* Most actions end an operation with Leave; the others are listed.        *)
(***************************************************************************)
RestPC == {"recv", "saved", "sense", "sleep", "notify", "exit"}

\* Every step either ends an operation of some process or is one of the ten
\* actions that start or continue one.
LEMMA NextShape ==
  ASSUME Next
  PROVE  \/ \E p \in Proc, n \in RestPC : Leave(p, n)
         \/ \E p \in Server : RecvStatus(p)
         \/ \E c \in Conn, h, w \in Cred, i \in Item, a \in Amount : RecvUpdate(c, h, w, i, a)
         \/ \E c \in Conn : SemWait(c)
         \/ \E p \in Proc : ReadSize(p) \/ ReadBody(p) \/ OpenForWrite(p)
         \/ SenseAlert
         \/ \E e \in Emer : Keepalive(e) \/ Wake(e)
         \/ CtrlC
<1> USE DEF RestPC
<1>1. ASSUME NEW p \in Proc, Fail(p) PROVE \E n \in RestPC : Leave(p, n)
  BY <1>1 DEF Fail, NextPhase
<1>2. ASSUME NEW p \in Proc, AfterWrite(p) PROVE \E n \in RestPC : Leave(p, n)
  BY <1>2 DEF AfterWrite, NextPhase
<1>3. ASSUME NEW p \in Proc, Receive(p)
      PROVE  \/ \E n \in RestPC : Leave(p, n)
             \/ p \in Server /\ RecvStatus(p)
             \/ \E h, w \in Cred, i \in Item, a \in Amount : p \in Conn /\ RecvUpdate(p, h, w, i, a)
  <2>1. CASE RecvStatus(p)
    BY <2>1 DEF RecvStatus
  <2>2. CASE RecvFails(p) \/ RecvClose(p)
    BY <2>2 DEF RecvFails, RecvClose
  <2>3. CASE \E h, w \in Cred : p \in Server /\ RecvDenied(p, h, w)
    BY <2>3 DEF RecvDenied
  <2>4. CASE \E h, w \in Cred, i \in Item \cup {NoItem}, a \in Amount :
               p \in Conn /\ RecvUpdate(p, h, w, i, a)
    BY <2>4, NoItemUnknown DEF RecvUpdate
  <2> QED
    BY <1>3, <2>1, <2>2, <2>3, <2>4 DEF Receive
<1>4. ASSUME NEW p \in Proc, Step(p)
      PROVE  \/ \E n \in RestPC : Leave(p, n)
             \/ p \in Conn /\ SemWait(p)
             \/ ReadSize(p) \/ ReadBody(p) \/ OpenForWrite(p)
             \/ p \in Emer /\ (Keepalive(p) \/ Wake(p))
  BY <1>1, <1>2, <1>4
     DEF Step, AckUpdate, ReadEmpty, ReadShort, SendStatus, EditFails, CloseWrite, Notify
<1>5. ASSUME NEW p \in Proc, HandleSignal(p) \/ IOFails(p) \/ FlushFails(p) \/ HeapAbort(p)
      PROVE  \E n \in RestPC : Leave(p, n)
  BY <1>1, <1>2, <1>5 DEF HandleSignal, IOFails, FlushFails, HeapAbort
<1>6. CASE SenseNormal
  BY <1>6 DEF SenseNormal, Proc
<1> QED
  BY <1>3, <1>4, <1>5, <1>6 DEF Next, Sense

-----------------------------------------------------------------------------
(***************************************************************************)
(* The parts of the invariant about pc, op, fsize and buf.                 *)
(***************************************************************************)
ProcType ==
  /\ pc \in [Proc -> PC]
  /\ op \in [Proc -> Op]
  /\ fsize \in [Proc -> Nat]
  /\ buf \in [Proc -> Doc \cup {NoDoc, Torn}]

\* Ending an operation leaves a process with an operation of its own kind and
\* without a buffer.
LEMMA LeaveEffect ==
  ASSUME ProcType, OpsByProcess, BuffersInUse,
         NEW p \in Proc, NEW n \in RestPC, Leave(p, n)
  PROVE  /\ ProcType'
         /\ OpsByProcess'
         /\ BuffersInUse'
         /\ p \in Server => op'[p] = StatusOp
<1> USE ProcessesDisjoint DEF Leave, ProcType, Proc, Server
<1>1. RestOp(p) \in Op
  BY EntriesCycle DEF RestOp, OpsByProcess, Op, EntryOp
<1>2. ProcType'
  BY <1>1 DEF RestPC, PC
<1>3. OpsByProcess'
  <2>1. \A c \in Conn : op'[c] \in {StatusOp} \cup SupplyOp
    BY DEF OpsByProcess, RestOp
  <2>2. \A u \in Udp : op'[u] = StatusOp
    BY DEF OpsByProcess, RestOp
  <2>3. op'[AlertProc] \in EntryOp
    BY EntriesCycle DEF OpsByProcess, RestOp, EntryOp
  <2>4. \A e \in Emer : op'[e] \in EventOp
    BY DEF OpsByProcess, RestOp
  <2> QED
    BY <2>1, <2>2, <2>3, <2>4 DEF OpsByProcess
<1>4. BuffersInUse'
  BY DEF BuffersInUse, RestPC
<1>5. p \in Server => op'[p] = StatusOp
  BY DEF RestOp
<1> QED
  BY <1>2, <1>3, <1>4, <1>5

\* Every step keeps the types of the per-process state, the kinds of the
\* operations and the discipline of the buffers.
LEMMA ProcStep ==
  ASSUME IInv, Next
  PROVE  ProcType' /\ OpsByProcess' /\ BuffersInUse'
<1>0. ProcType /\ OpsByProcess /\ BuffersInUse
  BY DEF IInv, TypeOK, ProcType
<1> USE <1>0
<1>1. ASSUME NEW p \in Proc, NEW n \in RestPC, Leave(p, n)
      PROVE  ProcType' /\ OpsByProcess' /\ BuffersInUse'
  BY <1>1, LeaveEffect
<1>2. ASSUME NEW p \in Server, RecvStatus(p)
      PROVE  ProcType' /\ OpsByProcess' /\ BuffersInUse'
  BY <1>2 DEF RecvStatus, ProcType, OpsByProcess, BuffersInUse, PC, Proc
<1>3. ASSUME NEW c \in Conn, NEW h \in Cred, NEW w \in Cred, NEW i \in Item, NEW a \in Amount,
             RecvUpdate(c, h, w, i, a)
      PROVE  ProcType' /\ OpsByProcess' /\ BuffersInUse'
  <2> DEFINE o == [kind |-> "supply", item |-> i, amount |-> a]
  <2>1. /\ pc' = [pc EXCEPT ![c] = "wait"]
        /\ op' = [op EXCEPT ![c] = o]
        /\ UNCHANGED <<fsize, buf>>
        /\ pc[c] = "recv"
    BY <1>3, NoItemUnknown DEF RecvUpdate
  <2>2. o \in SupplyOp
    BY DEF SupplyOp
  <2>3. c \in Proc
    BY DEF Proc, Server
  <2> HIDE DEF o
  <2>4. ProcType'
    BY <2>1, <2>2, <2>3 DEF ProcType, PC, Op
  <2>5. OpsByProcess'
    BY <2>1, <2>2, <2>3, ProcessesDisjoint DEF ProcType, OpsByProcess, Proc, Server
  <2>6. BuffersInUse'
    BY <2>1, <2>3 DEF ProcType, BuffersInUse
  <2> QED
    BY <2>4, <2>5, <2>6
<1>4. ASSUME NEW c \in Conn, SemWait(c)
      PROVE  ProcType' /\ OpsByProcess' /\ BuffersInUse'
  BY <1>4 DEF SemWait, ProcType, OpsByProcess, BuffersInUse, PC, Proc, Server
<1>5. ASSUME NEW p \in Proc, ReadSize(p)
      PROVE  ProcType' /\ OpsByProcess' /\ BuffersInUse'
  <2>1. file.size \in Nat
    BY DEF IInv, TypeOK, File
  <2> QED
    BY <1>5, <2>1 DEF ReadSize, ProcType, OpsByProcess, BuffersInUse, PC
<1>6. ASSUME NEW p \in Proc, ReadBody(p)
      PROVE  ProcType' /\ OpsByProcess' /\ BuffersInUse'
  <2>1. fsize[p] > 0 /\ file.size >= fsize[p] /\ file.size \in Nat /\ fsize[p] \in Nat
    BY <1>6 DEF ReadBody, BuffersInUse, IInv, TypeOK, File
  <2>2. file.doc = last /\ last \in Doc
    BY <2>1 DEF IInv, FileIsLast, Truncated, TypeOK
  <2>3. Fetched(file, fsize[p]) \in Doc \cup {Torn}
    BY <2>2 DEF Fetched
  <2> QED
    BY <1>6, <2>3, SentinelsAreNoDocs DEF ReadBody, ProcType, OpsByProcess, BuffersInUse, PC
<1>7. ASSUME NEW p \in Proc, OpenForWrite(p)
      PROVE  ProcType' /\ OpsByProcess' /\ BuffersInUse'
  BY <1>7 DEF OpenForWrite, ProcType, OpsByProcess, BuffersInUse, PC
<1>8. CASE SenseAlert
  <2>1. CASE Leave(AlertProc, "exit")
    BY <2>1, <1>1 DEF RestPC, Proc
  <2>2. CASE ~Leave(AlertProc, "exit")
    BY <1>8, <2>2 DEF SenseAlert, ProcType, OpsByProcess, BuffersInUse, PC, Proc
  <2> QED
    BY <2>1, <2>2
<1>9. ASSUME NEW e \in Emer, Keepalive(e) \/ Wake(e)
      PROVE  ProcType' /\ OpsByProcess' /\ BuffersInUse'
  <2>1. CASE Leave(e, "exit")
    BY <2>1, <1>1 DEF RestPC, Proc
  <2>2. CASE ~Leave(e, "exit")
    <3>1. PICK o \in EventOp :
               /\ pc' = [pc EXCEPT ![e] = "open"]
               /\ op' = [op EXCEPT ![e] = o]
               /\ UNCHANGED <<fsize, buf>>
               /\ pc[e] \in {"forked", "sleep"}
      BY <1>9, <2>2 DEF Keepalive, Wake, Event, EventOp, EmergencyKey
    <3>2. ProcType'
      BY <3>1 DEF ProcType, PC, Op, Proc
    <3>3. OpsByProcess'
      BY <3>1, ProcessesDisjoint DEF ProcType, OpsByProcess, Proc, Server
    <3>4. BuffersInUse'
      BY <3>1 DEF ProcType, BuffersInUse, Proc
    <3> QED
      BY <3>2, <3>3, <3>4
  <2> QED
    BY <2>1, <2>2
<1>10. CASE CtrlC
  BY <1>10 DEF CtrlC, ProcType, OpsByProcess, BuffersInUse
<1> QED
  BY <1>1, <1>2, <1>3, <1>4, <1>5, <1>6, <1>7, <1>8, <1>9, <1>10, NextShape

-----------------------------------------------------------------------------
(***************************************************************************)
(* The documents in play.                                                  *)
(***************************************************************************)

\* Which actions change the file, the history variables and the queue.
LEMMA SharedShape ==
  ASSUME Next
  PROVE  /\ UNCHANGED <<file, last>> \/ \E p \in Proc : OpenForWrite(p) \/ CloseWrite(p)
         /\ UNCHANGED raised \/ SenseAlert
         /\ \/ UNCHANGED granted
            \/ \E c \in Conn, h, w \in Cred, i \in Item, a \in Amount : RecvUpdate(c, h, w, i, a)
<1>1. ASSUME NEW p \in Proc, Fail(p) PROVE UNCHANGED <<file, last, granted, raised>>
  BY <1>1 DEF Fail
<1>2. ASSUME NEW p \in Proc, Receive(p)
      PROVE  /\ UNCHANGED <<file, last, raised>>
             /\ \/ UNCHANGED granted
                \/ \E h, w \in Cred, i \in Item, a \in Amount : p \in Conn /\ RecvUpdate(p, h, w, i, a)
  BY <1>2, NoItemUnknown DEF Receive, RecvStatus, RecvFails, RecvClose, RecvDenied, RecvUpdate
<1>3. ASSUME NEW p \in Proc, Step(p)
      PROVE  /\ UNCHANGED <<granted, raised>>
             /\ UNCHANGED <<file, last>> \/ OpenForWrite(p) \/ CloseWrite(p)
  BY <1>1, <1>3
     DEF Step, SemWait, AckUpdate, ReadSize, ReadEmpty, ReadBody, ReadShort, SendStatus,
         EditFails, OpenForWrite, CloseWrite, Keepalive, Wake, Notify
<1>4. ASSUME NEW p \in Proc, HandleSignal(p) \/ IOFails(p) \/ FlushFails(p) \/ HeapAbort(p)
      PROVE  UNCHANGED <<file, last, granted, raised>>
  BY <1>1, <1>4 DEF HandleSignal, IOFails, FlushFails, HeapAbort
<1>5. CASE SenseNormal
  BY <1>5 DEF SenseNormal
<1>6. CASE SenseAlert
  BY <1>6 DEF SenseAlert
<1>7. CASE CtrlC
  BY <1>7 DEF CtrlC
<1> QED
  BY <1>2, <1>3, <1>4, <1>5, <1>6, <1>7 DEF Next, Sense

\* A buffer that changes is dropped, spoilt or filled with the last document.
LEMMA BufferStep ==
  ASSUME IInv, Next, NEW q \in Proc
  PROVE  buf'[q] \in {buf[q], NoDoc, Torn, last}
<1> USE DEF IInv, TypeOK
<1>1. ASSUME NEW p \in Proc, NEW n \in RestPC, Leave(p, n)
      PROVE  buf'[q] \in {buf[q], NoDoc}
  BY <1>1 DEF Leave
<1>2. ASSUME NEW p \in Proc, ReadBody(p)
      PROVE  buf'[q] \in {buf[q], Torn, last}
  <2>1. fsize[p] > 0 /\ file.size >= fsize[p] /\ file.size \in Nat /\ fsize[p] \in Nat
    BY <1>2 DEF ReadBody, BuffersInUse, File
  <2>2. file.doc = last
    BY <2>1 DEF FileIsLast, Truncated
  <2> QED
    BY <1>2, <2>2 DEF ReadBody, Fetched
<1>3. CASE UNCHANGED buf
  BY <1>3
<1>4. ASSUME NEW e \in Emer, Wake(e) PROVE buf'[q] \in {buf[q], NoDoc}
  BY <1>4 DEF Wake, Leave
<1>5. CASE SenseAlert
  BY <1>5 DEF SenseAlert, Leave
<1>6. ASSUME NEW c \in Conn, NEW h \in Cred, NEW w \in Cred, NEW i \in Item, NEW a \in Amount,
             RecvUpdate(c, h, w, i, a)
      PROVE  UNCHANGED buf
  BY <1>6, NoItemUnknown DEF RecvUpdate
<1> QED
  BY <1>1, <1>2, <1>3, <1>4, <1>5, <1>6, NextShape
     DEF RecvStatus, SemWait, ReadSize, OpenForWrite, Keepalive, CtrlC

\* No step brings a document into play but the last one written.
LEMMA LiveDocsStep ==
  ASSUME IInv, Next
  PROVE  LiveDocs' \subseteq LiveDocs \cup {last'}
<1> SUFFICES ASSUME NEW d \in LiveDocs', d # last' PROVE d \in LiveDocs
  OBVIOUS
<1>1. PICK q \in Proc : d = buf'[q] /\ d \notin {NoDoc, Torn}
  BY DEF LiveDocs
<1>2. d = buf[q] \/ d = last
  BY <1>1, BufferStep
<1> QED
  BY <1>1, <1>2 DEF LiveDocs

\* The documents in play are documents.
LEMMA LiveDocsType == ASSUME TypeOK PROVE LiveDocs \subseteq Doc
BY DEF TypeOK, LiveDocs

\* What a process at the end of write_file is about to write.
LEMMA WriteReady ==
  ASSUME IInv, NEW p \in Proc, pc[p] = "trunc"
  PROVE  /\ buf[p] \in Doc /\ buf[p] \in LiveDocs
         /\ op[p] \in Op /\ op[p].kind # "status"
         /\ op[p].kind = "entry" => p = AlertProc
         /\ op[p].kind = "supply" => p \in Conn
         /\ Edit(op[p], buf[p]) \in Doc
<1>1. buf[p] \in Doc /\ op[p] \in Op /\ op[p].kind # "status"
  BY DEF IInv, TypeOK, BuffersInUse
<1>2. buf[p] \in LiveDocs
  BY <1>1, SentinelsAreNoDocs DEF LiveDocs
<1>3. op[p].kind = "entry" => p = AlertProc
  BY DEF IInv, OpsByProcess, Proc, Server, StatusOp, SupplyOp, EventOp
<1>4. op[p].kind = "supply" => p \in Conn
  BY DEF IInv, OpsByProcess, Proc, Server, StatusOp, EntryOp, EventOp
<1>5. op[p].kind = "entry" => buf[p].alerts[op[p].entry] < MaxAlerts
  <2> SUFFICES ASSUME op[p].kind = "entry" PROVE buf[p].alerts[op[p].entry] < MaxAlerts
    OBVIOUS
  <2> DEFINE e == op[p].entry
  <2>1. e \in Entry /\ p = AlertProc
    BY <1>3 DEF IInv, OpsByProcess, EntryOp
  <2>2. Pending(e) = 1
    BY <2>1 DEF Pending
  <2>3. buf[p].alerts[e] + Pending(e) <= raised[e]
    BY <1>2, <2>1 DEF IInv, AlertsNeverOvercount
  <2>4. raised[e] \in 0..MaxAlerts /\ buf[p].alerts[e] \in 0..MaxAlerts
    BY <1>1, <2>1 DEF IInv, TypeOK, Doc
  <2> HIDE DEF e
  <2>5. buf[p].alerts[e] < MaxAlerts
    BY <2>2, <2>3, <2>4, MaxAlertsType
  <2> QED
    BY <2>5 DEF e
<1>6. Edit(op[p], buf[p]) \in Doc
  BY <1>1, <1>5, EditType
<1> QED
  BY <1>1, <1>2, <1>3, <1>4, <1>6

-----------------------------------------------------------------------------
(***************************************************************************)
(* The parts of the invariant about the file and the history variables.    *)
(***************************************************************************)

\* Every step leaves the file empty or starting with the last document.
LEMMA FileStep ==
  ASSUME IInv, Next
  PROVE  file' \in File /\ last' \in Doc /\ FileIsLast'
<1>1. CASE UNCHANGED <<file, last>>
  BY <1>1 DEF IInv, TypeOK, FileIsLast
<1>2. ASSUME NEW p \in Proc, OpenForWrite(p)
      PROVE  file' \in File /\ last' \in Doc /\ FileIsLast'
  BY <1>2 DEF OpenForWrite, IInv, TypeOK, FileIsLast, Truncated, File
<1>3. ASSUME NEW p \in Proc, CloseWrite(p)
      PROVE  file' \in File /\ last' \in Doc /\ FileIsLast'
  <2>1. last' \in Doc /\ file' = Overwritten(file, last')
    BY <1>3, WriteReady DEF CloseWrite
  <2>2. DocLen(last') \in Nat /\ file.size \in Nat
    BY <2>1, DocLenType DEF IInv, TypeOK, File
  <2> QED
    BY <2>1, <2>2 DEF Overwritten, File, FileIsLast
<1> QED
  BY <1>1, <1>2, <1>3, SharedShape

\* Accepted amounts are never forgotten, and every update in progress is one.
LEMMA GrantedStep ==
  ASSUME IInv, Next
  PROVE  /\ granted' \in [Item -> SUBSET Amount]
         /\ \A i \in Item : granted[i] \subseteq granted'[i]
         /\ UpdatesGranted'
<1> USE DEF IInv, TypeOK
<1>1. ASSUME NEW c \in Conn, NEW h \in Cred, NEW w \in Cred, NEW i \in Item, NEW a \in Amount,
             RecvUpdate(c, h, w, i, a)
      PROVE  /\ granted' = [granted EXCEPT ![i] = @ \cup {a}]
             /\ op' = [op EXCEPT ![c] = [kind |-> "supply", item |-> i, amount |-> a]]
  BY <1>1, NoItemUnknown DEF RecvUpdate, check_credentials
<1>2. granted' \in [Item -> SUBSET Amount] /\ \A i \in Item : granted[i] \subseteq granted'[i]
  BY <1>1, SharedShape
<1>3. ASSUME NEW c \in Conn PROVE op'[c].kind = "supply" => op'[c].amount \in granted'[op'[c].item]
  <2>1. c \in Proc /\ c \in Server /\ c \notin Emer /\ c # AlertProc
    BY ProcessesDisjoint DEF Proc, Server
  <2>2. CASE op'[c] = op[c]
    <3>1. op[c].kind = "supply" => op[c].item \in Item
      BY DEF OpsByProcess, StatusOp, SupplyOp
    <3> QED
      BY <1>2, <2>2, <3>1 DEF UpdatesGranted
  <2>3. ASSUME NEW p \in Proc, NEW n \in RestPC, Leave(p, n)
        PROVE  op'[c] = op[c] \/ op'[c] = StatusOp
    BY <2>1, <2>3 DEF Leave, RestOp
  <2>4. CASE op'[c] = StatusOp
    BY <2>4 DEF StatusOp
  <2>5. ASSUME NEW d \in Conn, NEW h \in Cred, NEW w \in Cred, NEW i \in Item, NEW a \in Amount,
               RecvUpdate(d, h, w, i, a), op'[c] # op[c]
        PROVE  op'[c].kind = "supply" => op'[c].amount \in granted'[op'[c].item]
    <3>1. c = d
      BY <1>1, <2>1, <2>5
    <3>2. op'[c] = [kind |-> "supply", item |-> i, amount |-> a] /\ a \in granted'[i]
      BY <1>1, <2>1, <2>5, <3>1
    <3> QED
      BY <3>2
  <2>6. ASSUME NEW e \in Emer, Keepalive(e) \/ Wake(e) PROVE op'[c] = op[c]
    BY <2>1, <2>6 DEF Keepalive, Wake, Leave
  <2>7. CASE SenseAlert
    BY <2>1, <2>2, <2>7 DEF SenseAlert, Leave
  <2> QED
    BY <2>2, <2>3, <2>4, <2>5, <2>6, <2>7, NextShape
       DEF RecvStatus, SemWait, ReadSize, ReadBody, OpenForWrite, CtrlC
<1> QED
  BY <1>2, <1>3 DEF UpdatesGranted

\* Every step keeps every document in play free of unauthorised amounts.
LEMMA SuppliesStep ==
  ASSUME IInv, Next
  PROVE  SuppliesAuthorised'
<1>1. ASSUME NEW d \in LiveDocs, NEW i \in Item PROVE d.supplies[i] \in granted'[i] \cup {Unset}
  BY GrantedStep DEF IInv, SuppliesAuthorised
<1>2. ASSUME NEW p \in Proc, CloseWrite(p), NEW i \in Item
      PROVE  last'.supplies[i] \in granted'[i] \cup {Unset}
  <2>1. last' = Edit(op[p], buf[p]) /\ pc[p] = "trunc"
    BY <1>2 DEF CloseWrite
  <2>2. buf[p].supplies[i] \in granted'[i] \cup {Unset}
    BY <1>1, <2>1, WriteReady
  <2>3. CASE op[p].kind = "supply"
    <3>1. p \in Conn /\ op[p].amount \in granted[op[p].item] /\ op[p].item \in Item
      BY <2>1, <2>3, WriteReady DEF IInv, UpdatesGranted, OpsByProcess, StatusOp, SupplyOp
    <3>2. op[p].amount \in granted'[op[p].item]
      BY <3>1, GrantedStep
    <3>3. buf[p] \in Doc
      BY <2>1, WriteReady
    <3>4. last'.supplies = [buf[p].supplies EXCEPT ![op[p].item] = op[p].amount]
      BY <2>1, <2>3, <3>3 DEF Edit, Doc
    <3> QED
      BY <2>2, <3>2, <3>3, <3>4 DEF Doc
  <2>4. CASE op[p].kind # "supply"
    <3>1. op[p] \in Op /\ op[p].kind # "status" /\ buf[p] \in Doc
      BY <2>1, WriteReady
    <3>2. last'.supplies = buf[p].supplies
      BY <2>1, <2>4, <3>1 DEF Edit, Op, StatusOp, SupplyOp, EntryOp, EventOp, Doc
    <3> QED
      BY <2>2, <3>2
  <2> QED
    BY <2>3, <2>4
<1>3. last \in LiveDocs
  BY DEF LiveDocs
<1>4. \A i \in Item : last'.supplies[i] \in granted'[i] \cup {Unset}
  BY <1>1, <1>2, <1>3, SharedShape DEF OpenForWrite
<1> QED
  BY <1>1, <1>4, LiveDocsStep DEF SuppliesAuthorised

\* No step makes fewer alerts finished than before: raised minus pending
\* never decreases.
LEMMA PendingStep ==
  ASSUME IInv, Next, NEW e \in Entry
  PROVE  /\ raised'[e] \in 0..MaxAlerts
         /\ raised[e] - Pending(e) <= raised'[e] - Pending(e)'
<1> USE DEF IInv, TypeOK
<1>0. /\ AlertProc \in Proc /\ AlertProc \notin Server /\ AlertProc \notin Conn
      /\ AlertProc \notin Emer
      /\ raised[e] \in 0..MaxAlerts /\ Pending(e) \in {0, 1} /\ Pending(e)' \in {0, 1}
  BY ProcessesDisjoint DEF Proc, Server, Pending
<1>1. CASE SenseAlert
  <2>1. Pending(e) = 0
    BY <1>1 DEF SenseAlert, Pending
  <2>2. CASE UNCHANGED raised
    <3>1. pc'[AlertProc] = "exit" \/ raised' # raised
      BY <1>0, <1>1 DEF SenseAlert, Leave, OpsByProcess, EntryOp
    <3>2. Pending(e)' = 0
      BY <2>2, <3>1 DEF Pending
    <3> QED
      BY <1>0, <2>1, <2>2, <3>2
  <2>3. CASE raised' # raised
    <3> DEFINE x == op[AlertProc].entry
    <3>1. /\ x \in Entry /\ op' = op
          /\ raised[x] < MaxAlerts /\ raised' = [raised EXCEPT ![x] = @ + 1]
      BY <1>1, <2>3 DEF SenseAlert, OpsByProcess, EntryOp
    <3>2. x # e => Pending(e)' = 0
      BY <3>1 DEF Pending
    <3> HIDE DEF x
    <3>3. CASE x = e
      BY <1>0, <2>1, <3>1, <3>3, MaxAlertsType
    <3>4. CASE x # e
      BY <1>0, <2>1, <3>1, <3>2, <3>4
    <3> QED
      BY <3>3, <3>4
  <2> QED
    BY <2>2, <2>3
<1>2. CASE UNCHANGED raised /\ Pending(e)' <= Pending(e)
  BY <1>0, <1>2
<1>3. CASE ~SenseAlert
  <2>1. UNCHANGED raised
    BY <1>3, SharedShape
  <2>2. CASE UNCHANGED <<pc[AlertProc], op[AlertProc]>>
    BY <1>0, <1>2, <2>1, <2>2 DEF Pending
  <2>3. ASSUME NEW n \in RestPC, Leave(AlertProc, n) PROVE Pending(e)' = 0
    BY <1>0, <2>3 DEF Leave, RestPC, Pending
  <2>4. ASSUME NEW p \in Proc, p # AlertProc, NEW n \in RestPC, Leave(p, n)
        PROVE  UNCHANGED <<pc[AlertProc], op[AlertProc]>>
    BY <1>0, <2>4 DEF Leave
  <2>5. ASSUME NEW p \in Proc, ReadSize(p) \/ ReadBody(p) \/ OpenForWrite(p)
        PROVE  Pending(e)' = Pending(e)
    BY <1>0, <2>5 DEF ReadSize, ReadBody, OpenForWrite, Pending
  <2>6. ASSUME NEW x \in Emer, Keepalive(x) \/ Wake(x)
        PROVE  UNCHANGED <<pc[AlertProc], op[AlertProc]>>
    BY <1>0, <2>6 DEF Keepalive, Wake, Leave
  <2>7. ASSUME NEW c \in Conn, NEW h \in Cred, NEW w \in Cred, NEW i \in Item, NEW a \in Amount,
               RecvUpdate(c, h, w, i, a)
        PROVE  UNCHANGED <<pc[AlertProc], op[AlertProc]>>
    BY <1>0, <2>7, NoItemUnknown DEF RecvUpdate
  <2>8. ASSUME NEW p \in Server, RecvStatus(p) PROVE UNCHANGED <<pc[AlertProc], op[AlertProc]>>
    BY <1>0, <2>8 DEF RecvStatus
  <2>9. ASSUME NEW c \in Conn, SemWait(c) PROVE UNCHANGED <<pc[AlertProc], op[AlertProc]>>
    BY <1>0, <2>9 DEF SemWait
  <2>10. CASE CtrlC
    BY <1>0, <2>2, <2>10 DEF CtrlC
  <2>11. Pending(e)' = 0 => Pending(e)' <= Pending(e)
    BY <1>0
  <2>12. Pending(e)' = Pending(e) => Pending(e)' <= Pending(e)
    BY <1>0
  <2> QED
    BY <1>2, <1>3, <2>1, <2>2, <2>3, <2>4, <2>5, <2>6, <2>7, <2>8, <2>9, <2>10, <2>11, <2>12,
       NextShape
<1> QED
  BY <1>1, <1>3

\* Every step keeps the alert counters at or below the alerts raised.
LEMMA AlertsStep ==
  ASSUME IInv, Next
  PROVE  AlertsNeverOvercount'
<1>1. ASSUME NEW d \in LiveDocs, NEW e \in Entry PROVE d.alerts[e] + Pending(e)' <= raised'[e]
  <2>1. d.alerts[e] \in Nat /\ d.alerts[e] + Pending(e) <= raised[e]
    BY LiveDocsType DEF IInv, AlertsNeverOvercount, Doc
  <2>2. Pending(e) \in {0, 1} /\ Pending(e)' \in {0, 1} /\ raised[e] \in Nat /\ raised'[e] \in Nat
    BY PendingStep DEF Pending, IInv, TypeOK
  <2>3. raised[e] - Pending(e) <= raised'[e] - Pending(e)'
    BY PendingStep
  <2> QED
    BY <2>1, <2>2, <2>3
<1>2. ASSUME NEW p \in Proc, CloseWrite(p), NEW e \in Entry
      PROVE  last'.alerts[e] + Pending(e)' <= raised'[e]
  <2>1. last' = Edit(op[p], buf[p]) /\ pc[p] = "trunc"
    BY <1>2 DEF CloseWrite
  <2>2. buf[p].alerts[e] + Pending(e)' <= raised'[e] /\ buf[p] \in Doc /\ op[p] \in Op
    BY <1>1, <2>1, WriteReady
  <2>3. CASE op[p].kind = "entry"
    <3>1. p = AlertProc /\ op[p] \in EntryOp /\ AlertProc \in Proc
      BY <2>1, <2>3, WriteReady DEF IInv, OpsByProcess, Proc
    <3>2. Pending(e)' = 0 /\ raised' = raised
      BY <1>2, <3>1, ProcessesDisjoint
         DEF CloseWrite, AfterWrite, Leave, NextPhase, Pending, IInv, TypeOK, Server
    <3>3. last'.alerts[e] = IF e = op[p].entry THEN buf[p].alerts[e] + 1 ELSE buf[p].alerts[e]
      BY <2>1, <2>2, <2>3, <3>1 DEF Edit, Doc, EntryOp
    <3>4. buf[p].alerts[e] + Pending(e) <= raised[e]
      BY <2>1, WriteReady DEF IInv, AlertsNeverOvercount
    <3>5. Pending(e) = IF e = op[p].entry THEN 1 ELSE 0
      BY <2>1, <3>1 DEF Pending
    <3>6. buf[p].alerts[e] \in Nat /\ raised[e] \in Nat
      BY <2>2 DEF Doc, IInv, TypeOK
    <3> QED
      BY <3>2, <3>3, <3>4, <3>5, <3>6
  <2>4. CASE op[p].kind # "entry"
    <3>1. last'.alerts = buf[p].alerts
      BY <2>1, <2>2, <2>4 DEF Edit, Op, StatusOp, SupplyOp, EntryOp, EventOp, Doc
    <3> QED
      BY <2>2, <3>1
  <2> QED
    BY <2>3, <2>4
<1>3. \A e \in Entry : last'.alerts[e] + Pending(e)' <= raised'[e]
  <2>1. last \in LiveDocs
    BY DEF LiveDocs
  <2> QED
    BY <1>1, <1>2, <2>1, SharedShape DEF OpenForWrite
<1> QED
  BY <1>1, <1>3, LiveDocsStep DEF AlertsNeverOvercount

-----------------------------------------------------------------------------
(***************************************************************************)
(* mutex_state.                                                            *)
(***************************************************************************)

\* Every step keeps each connection's semaphore in step with its pc.
LEMMA MutexStep ==
  ASSUME IInv, Next
  PROVE  sem' \in [Conn -> {0, 1}] /\ MutexAccounted'
<1> DEFINE Good == sem' \in [Conn -> {0, 1}] /\ MutexAccounted'
<1> SUFFICES Good
  OBVIOUS
<1> USE DEF IInv, TypeOK
<1>0. /\ \A c \in Conn : c \in Proc /\ c \in Server /\ c \notin Emer /\ c # AlertProc
      /\ \A c \in Conn : op[c].kind \in {"status", "supply"}
      /\ StatusOp.kind = "status"
  BY ProcessesDisjoint DEF Proc, Server, OpsByProcess, StatusOp, SupplyOp
\* A process other than a connection does not disturb a connection.
<1>1. ASSUME NEW p \in Proc, p \notin Conn, UNCHANGED sem,
             \A q \in Proc : q # p => pc'[q] = pc[q] /\ op'[q] = op[q]
      PROVE  Good
  BY <1>0, <1>1 DEF MutexAccounted, InCriticalSection
\* A connection that exits has no obligations left.
<1>2. ASSUME NEW c \in Conn, Leave(c, "exit"), UNCHANGED sem PROVE Good
  BY <1>0, <1>2 DEF Leave, MutexAccounted, InCriticalSection
<1>3. ASSUME NEW p \in Proc, NEW n \in RestPC, p \notin Conn, Leave(p, n), UNCHANGED sem
      PROVE  Good
  BY <1>1, <1>3 DEF Leave
<1>4. ASSUME NEW p \in Proc, pc[p] \in {"open", "sized", "loaded"}, Fail(p) PROVE Good
  <2>1. CASE p \in Conn
    <3>1. Leave(p, "exit")
      BY <1>0, <1>4, <2>1 DEF Fail
    <3>2. CASE op[p].kind = "supply"
      <4>1. sem[p] = 0 /\ sem' = [sem EXCEPT ![p] = @ + 1]
        BY <1>4, <2>1, <3>2 DEF Fail, PostIfUpdating, MutexAccounted, InCriticalSection
      <4> QED
        BY <1>0, <2>1, <3>1, <4>1 DEF Leave, MutexAccounted, InCriticalSection
    <3>3. CASE op[p].kind # "supply"
      BY <1>2, <1>4, <2>1, <3>1, <3>3 DEF Fail, PostIfUpdating
    <3> QED
      BY <3>2, <3>3
  <2>2. CASE p \notin Conn
    BY <1>3, <1>4, <2>2 DEF Fail, PostIfUpdating, NextPhase, RestPC
  <2> QED
    BY <2>1, <2>2
<1>5. ASSUME NEW p \in Proc, pc[p] = "trunc", AfterWrite(p), UNCHANGED sem PROVE Good
  <2>1. CASE p \in Conn
    <3>1. op[p].kind = "supply"
      BY <1>0, <1>5, <2>1 DEF BuffersInUse
    <3>2. sem[p] = 0
      BY <1>5, <2>1, <3>1 DEF MutexAccounted, InCriticalSection
    <3>3. op'[p] = StatusOp /\ pc'[p] = "saved"
      BY <1>0, <1>5, <2>1 DEF AfterWrite, Leave, RestOp
    <3> QED
      BY <1>0, <1>5, <2>1, <3>2, <3>3 DEF AfterWrite, Leave, MutexAccounted, InCriticalSection
  <2>2. CASE p \notin Conn
    BY <1>3, <1>5, <2>2 DEF AfterWrite, NextPhase, RestPC
  <2> QED
    BY <2>1, <2>2
\* A status request starts and ends with the semaphore free.
<1>6. ASSUME NEW p \in Server, RecvStatus(p) PROVE Good
  BY <1>0, <1>6 DEF RecvStatus, MutexAccounted, InCriticalSection, Proc
<1>7. ASSUME NEW p \in Proc, RecvFails(p) \/ RecvClose(p) \/ HeapAbort(p) \/ HandleSignal(p)
      PROVE  Good
  BY <1>2, <1>3, <1>7 DEF RecvFails, RecvClose, HeapAbort, HandleSignal, RestPC
<1>8. ASSUME NEW p \in Proc, Leave(p, "recv"), UNCHANGED sem,
             p \in Conn => sem[p] = 1
      PROVE  Good
  <2>1. CASE p \in Conn
    <3>1. op'[p] = StatusOp /\ pc'[p] = "recv"
      BY <1>0, <1>8, <2>1 DEF Leave, RestOp
    <3> QED
      BY <1>0, <1>8, <2>1, <3>1 DEF Leave, MutexAccounted, InCriticalSection
  <2> QED
    BY <1>3, <1>8, <2>1 DEF RestPC
<1>9. ASSUME NEW p \in Proc, NEW h \in Cred, NEW w \in Cred, RecvDenied(p, h, w) PROVE Good
  <2>1. p \in Conn => sem[p] = 1
    BY <1>9 DEF RecvDenied, MutexAccounted, InCriticalSection
  <2> QED
    BY <1>2, <1>3, <1>8, <1>9, <2>1 DEF RecvDenied, RestPC
<1>10. ASSUME NEW p \in Proc, SendStatus(p) PROVE Good
  <2>1. p \in Conn => sem[p] = 1
    BY <1>10 DEF SendStatus, MutexAccounted, InCriticalSection
  <2> QED
    BY <1>2, <1>3, <1>8, <1>10, <2>1 DEF SendStatus, RestPC
<1>11. ASSUME NEW c \in Conn, NEW h \in Cred, NEW w \in Cred, NEW i \in Item \cup {NoItem},
              NEW a \in Amount, RecvUpdate(c, h, w, i, a)
       PROVE  Good
  <2>1. CASE i = NoItem
    BY <1>2, <1>11, <2>1 DEF RecvUpdate
  <2>2. CASE i # NoItem
    <3>1. pc[c] = "recv" /\ pc'[c] = "wait" /\ op'[c].kind = "supply" /\ sem[c] = 1
      BY <1>0, <1>11, <2>2 DEF RecvUpdate, MutexAccounted, InCriticalSection
    <3> QED
      BY <1>0, <1>11, <2>2, <3>1 DEF RecvUpdate, MutexAccounted, InCriticalSection
  <2> QED
    BY <2>1, <2>2
<1>12. ASSUME NEW c \in Conn, SemWait(c) PROVE Good
  BY <1>0, <1>12 DEF SemWait, MutexAccounted, InCriticalSection
<1>13. ASSUME NEW c \in Conn, AckUpdate(c) PROVE Good
  <2>1. sem[c] = 0 /\ op'[c] = StatusOp
    BY <1>0, <1>13 DEF AckUpdate, Leave, RestOp, MutexAccounted, InCriticalSection
  <2> QED
    BY <1>0, <1>13, <2>1 DEF AckUpdate, Leave, MutexAccounted, InCriticalSection
<1>14. ASSUME NEW p \in Proc, ReadSize(p) \/ ReadBody(p) \/ OpenForWrite(p) PROVE Good
  BY <1>0, <1>14 DEF ReadSize, ReadBody, OpenForWrite, MutexAccounted, InCriticalSection
<1>15. ASSUME NEW p \in Proc, ReadEmpty(p) \/ ReadShort(p) \/ EditFails(p) \/ IOFails(p)
       PROVE  Good
  BY <1>4, <1>15 DEF ReadEmpty, ReadShort, EditFails, IOFails
<1>16. ASSUME NEW p \in Proc, CloseWrite(p) \/ FlushFails(p) PROVE Good
  BY <1>5, <1>16 DEF CloseWrite, FlushFails
<1>17. ASSUME NEW e \in Emer, Keepalive(e) \/ Wake(e) \/ Notify(e) PROVE Good
  <2>1. e \in Proc /\ e \notin Conn
    BY <1>0 DEF Proc
  <2> QED
    BY <1>1, <1>17, <2>1 DEF Keepalive, Wake, Notify, Leave
<1>18. CASE Sense
  BY <1>0, <1>1, <1>18 DEF Sense, SenseNormal, SenseAlert, Leave, Proc
<1>19. CASE CtrlC
  BY <1>19 DEF CtrlC, MutexAccounted, InCriticalSection
<1>20. ASSUME NEW p \in Proc, Receive(p) PROVE Good
  <2>1. CASE RecvStatus(p)
    BY <1>6, <2>1 DEF RecvStatus
  <2> QED
    BY <1>7, <1>9, <1>11, <1>20, <2>1 DEF Receive
<1>21. ASSUME NEW p \in Proc, Step(p) PROVE Good
  BY <1>10, <1>12, <1>13, <1>14, <1>15, <1>16, <1>17, <1>21 DEF Step
<1> HIDE DEF Good, IInv, TypeOK
<1>22. CASE \E p \in Proc :
              \/ Receive(p) \/ Step(p) \/ HandleSignal(p)
              \/ IOFails(p) \/ FlushFails(p) \/ HeapAbort(p)
  BY <1>7, <1>15, <1>16, <1>20, <1>21, <1>22
<1> QED
  BY <1>18, <1>19, <1>22 DEF Next

-----------------------------------------------------------------------------
(***************************************************************************)
(* The theorems.                                                           *)
(***************************************************************************)

\* Signals go to processes; the queue is there or gone.
LEMMA SignalStep ==
  ASSUME IInv, Next
  PROVE  signalled' \in SUBSET Proc /\ msgq' \in BOOLEAN
<1> DEFINE Good == signalled' \in SUBSET Proc /\ msgq' \in BOOLEAN
<1> SUFFICES Good
  OBVIOUS
<1>0. signalled \in SUBSET Proc /\ msgq \in BOOLEAN
  BY DEF IInv, TypeOK
<1>1. \A e \in Emer : parent[e] \in Proc
  BY ParentType DEF Proc, Server
<1>2. CASE UNCHANGED <<signalled, msgq>>
  BY <1>0, <1>2
<1>3. ASSUME NEW p \in Proc, RecvClose(p) PROVE Good
  <2>1. signalled' = signalled /\ (msgq' = FALSE \/ msgq' = msgq)
    BY <1>3 DEF RecvClose
  <2> QED
    BY <1>0, <2>1
<1>4. ASSUME NEW e \in Emer, Notify(e) PROVE Good
  <2>1. msgq' = msgq /\ (signalled' = signalled \/ signalled' = signalled \cup {parent[e]})
    BY <1>4 DEF Notify
  <2> QED
    BY <1>0, <1>1, <2>1
<1>5. ASSUME NEW p \in Proc, HandleSignal(p) PROVE Good
  <2>1. CASE EndConn(p)
    BY <1>0, <1>1, <2>1 DEF EndConn
  <2>2. CASE signalled' = signalled \ {p} /\ UNCHANGED msgq
    BY <1>0, <2>2
  <2> QED
    BY <1>5, <2>1, <2>2 DEF HandleSignal
<1>6. CASE CtrlC
  BY <1>0, <1>6 DEF CtrlC
<1>7. ASSUME NEW p \in Proc, Fail(p) PROVE UNCHANGED <<signalled, msgq>>
  BY <1>7 DEF Fail
<1>8. ASSUME NEW p \in Proc, Receive(p) PROVE UNCHANGED <<signalled, msgq>> \/ RecvClose(p)
  BY <1>8 DEF Receive, RecvStatus, RecvFails, RecvDenied, RecvUpdate
<1>9. ASSUME NEW p \in Proc, Step(p) PROVE UNCHANGED <<signalled, msgq>> \/ (p \in Emer /\ Notify(p))
  BY <1>7, <1>9
     DEF Step, SemWait, AckUpdate, ReadSize, ReadEmpty, ReadBody, ReadShort, SendStatus,
         EditFails, OpenForWrite, CloseWrite, Keepalive, Wake
<1>10. ASSUME NEW p \in Proc, IOFails(p) \/ FlushFails(p) \/ HeapAbort(p)
       PROVE  UNCHANGED <<signalled, msgq>>
  BY <1>7, <1>10 DEF IOFails, FlushFails, HeapAbort
<1>11. CASE Sense
  BY <1>2, <1>11 DEF Sense, SenseNormal, SenseAlert
<1> HIDE DEF Good
<1> QED
  BY <1>2, <1>3, <1>4, <1>5, <1>6, <1>8, <1>9, <1>10, <1>11 DEF Next

\* The inductive step.
LEMMA NextIInv == IInv /\ [Next]_vars => IInv'
<1> SUFFICES ASSUME IInv, [Next]_vars PROVE IInv'
  OBVIOUS
<1>1. CASE Next
  <2>1. raised' \in [Entry -> 0..MaxAlerts]
    <3>1. raised \in [Entry -> 0..MaxAlerts]
      BY DEF IInv, TypeOK
    <3>2. CASE SenseAlert
      <4>1. op[AlertProc].entry \in Entry
        BY DEF IInv, OpsByProcess, EntryOp
      <4> QED
        BY <3>1, <3>2, <4>1, MaxAlertsType DEF SenseAlert
    <3> QED
      BY <1>1, <3>1, <3>2, SharedShape
  <2>2. TypeOK'
    BY <1>1, <2>1, ProcStep, FileStep, GrantedStep, MutexStep, SignalStep DEF TypeOK, ProcType
  <2> QED
    BY <1>1, <2>2, ProcStep, FileStep, GrantedStep, SuppliesStep, AlertsStep, MutexStep DEF IInv
<1>2. CASE UNCHANGED vars
  BY <1>2
     DEF vars, IInv, TypeOK, OpsByProcess, FileIsLast, BuffersInUse, UpdatesGranted,
         MutexAccounted, InCriticalSection, SuppliesAuthorised, AlertsNeverOvercount,
         LiveDocs, Pending
<1> QED
  BY <1>1, <1>2

\* IInv holds in every reachable state.
THEOREM Invariance == Spec => []IInv
BY InitIInv, NextIInv, PTL DEF Spec

\* Type correctness: among other things every document written or read stays
\* in its bounds and mutex_state never exceeds 1.
THEOREM TypeCorrect == Spec => []TypeOK
<1>1. IInv => TypeOK
  BY DEF IInv
<1> QED
  BY <1>1, Invariance, PTL

\* However the processes' reads and writes interleave, fail or are cut short
\* by signals, every amount in the file or in a process's memory was asked
\* for with the administrator's credentials.
THEOREM SuppliesSafe == Spec => []SuppliesAuthorised
<1>1. IInv => SuppliesAuthorised
  BY DEF IInv
<1> QED
  BY <1>1, Invariance, PTL

\* Alerts can be lost but are never invented.
THEOREM AlertsSafe == Spec => []AlertsNeverOvercount
<1>1. IInv => AlertsNeverOvercount
  BY DEF IInv
<1> QED
  BY <1>1, Invariance, PTL

\* sem_wait(&mutex_state) never finds the semaphore taken.
THEOREM MutexNeverBlocks == Spec => []SemFreeOutside
<1>1. IInv => SemFreeOutside
  <2> SUFFICES ASSUME IInv, NEW c \in Conn, pc[c] \in {"recv", "wait"} PROVE sem[c] = 1
    BY DEF SemFreeOutside
  <2> QED
    BY DEF IInv, MutexAccounted, InCriticalSection
<1> QED
  BY <1>1, Invariance, PTL

\* No process can bring an emptied file back: with nobody about to write,
\* read_file's refusal of an empty file blocks every later update.
THEOREM WedgedStays == Spec => WedgedForever
<1>1. ASSUME IInv, Next, Wedged PROVE Wedged'
  <2> USE DEF IInv, TypeOK
  <2>1. ASSUME NEW p \in Proc PROVE ~OpenForWrite(p) /\ ~CloseWrite(p)
    BY <1>1 DEF OpenForWrite, CloseWrite, Wedged
  <2>2. file' = file
    BY <1>1, <2>1, SharedShape
  <2>3. ASSUME NEW p \in Proc PROVE ~ReadBody(p)
    BY <1>1 DEF ReadBody, Wedged, BuffersInUse
  <2>4. ASSUME NEW q \in Proc
        PROVE  \/ pc'[q] = pc[q] /\ op'[q] = op[q] /\ buf'[q] = buf[q]
               \/ pc'[q] \notin {"trunc", "loaded"}
    <3> DEFINE Calm == \/ pc'[q] = pc[q] /\ op'[q] = op[q] /\ buf'[q] = buf[q]
                       \/ pc'[q] \notin {"trunc", "loaded"}
    <3> SUFFICES Calm
      OBVIOUS
    <3>1. ASSUME NEW p \in Proc, NEW n \in RestPC, Leave(p, n) PROVE Calm
      BY <1>1, <3>1 DEF Leave, RestPC
    <3>2. ASSUME NEW p \in Proc, RecvStatus(p) \/ SemWait(p) \/ ReadSize(p) PROVE Calm
      BY <1>1, <3>2 DEF RecvStatus, SemWait, ReadSize
    <3>3. ASSUME NEW c \in Conn, NEW h \in Cred, NEW w \in Cred, NEW i \in Item, NEW a \in Amount,
                 RecvUpdate(c, h, w, i, a)
          PROVE  Calm
      <4>1. /\ pc' = [pc EXCEPT ![c] = "wait"]
            /\ \A p \in Proc : p # c => op'[p] = op[p]
            /\ UNCHANGED buf
        BY <1>1, <3>3, NoItemUnknown DEF RecvUpdate
      <4> QED
        BY <1>1, <4>1
    <3>4. CASE SenseAlert
      <4>1. CASE Leave(AlertProc, "exit")
        BY <3>1, <4>1 DEF RestPC, Proc
      <4>2. CASE pc' = [pc EXCEPT ![AlertProc] = "open"] /\ UNCHANGED <<op, buf>>
        BY <1>1, <4>2
      <4> QED
        BY <1>1, <3>4, <4>1, <4>2 DEF SenseAlert
    <3>5. ASSUME NEW e \in Emer, Keepalive(e) \/ Wake(e) PROVE Calm
      <4>1. CASE Leave(e, "exit")
        BY <3>1, <4>1 DEF RestPC, Proc
      <4>2. CASE /\ pc' = [pc EXCEPT ![e] = "open"]
                 /\ \A p \in Proc : p # e => op'[p] = op[p]
                 /\ UNCHANGED buf
        BY <1>1, <4>2
      <4> QED
        BY <1>1, <3>5, <4>1, <4>2 DEF Keepalive, Wake
    <3>6. CASE CtrlC
      BY <3>6 DEF CtrlC
    <3>7. Conn \subseteq Proc /\ Server \subseteq Proc
      BY DEF Proc, Server
    <3> HIDE DEF Calm
    <3> QED
      BY <1>1, <2>1, <2>3, <3>1, <3>2, <3>3, <3>4, <3>5, <3>6, <3>7, NextShape
  <2> QED
    BY <1>1, <2>2, <2>4 DEF Wedged
<1>2. ASSUME Wedged, UNCHANGED vars PROVE Wedged'
  BY <1>2 DEF Wedged, vars
<1>3. IInv /\ [Next]_vars => [Wedged => Wedged']_vars
  BY <1>1, <1>2
<1> QED
  BY <1>3, Invariance, PTL DEF Spec, WedgedForever

\* A torn read means that the file grew after its size was taken.
THEOREM TornSafe == Spec => TornOnlyIfGrown
<1>1. ASSUME IInv, Next, NEW q \in Proc, pc[q] = "sized", buf'[q] = Torn
      PROVE  file.size > fsize[q]
  <2> USE DEF IInv, TypeOK
  <2>1. buf[q] = NoDoc /\ NoDoc # Torn /\ fsize[q] \in Nat /\ fsize[q] > 0
    BY <1>1, SentinelsAreNoDocs DEF BuffersInUse
  <2>2. ~UNCHANGED buf
    BY <1>1, <2>1
  <2>3. ASSUME NEW p \in Proc, NEW n \in RestPC, Leave(p, n) PROVE FALSE
    BY <1>1, <2>1, <2>3 DEF Leave
  <2>4. ASSUME NEW e \in Emer, Keepalive(e) \/ Wake(e) PROVE FALSE
    BY <2>2, <2>3, <2>4 DEF Keepalive, Wake, RestPC, Proc
  <2>5. ~SenseAlert
    BY <2>2, <2>3 DEF SenseAlert, RestPC, Proc
  <2>6. ASSUME NEW c \in Conn, NEW h \in Cred, NEW w \in Cred, NEW i \in Item, NEW a \in Amount,
               RecvUpdate(c, h, w, i, a)
        PROVE  FALSE
    BY <2>2, <2>6, NoItemUnknown DEF RecvUpdate
  <2>7. PICK p \in Proc : ReadBody(p)
    BY <1>1, <2>2, <2>3, <2>4, <2>5, <2>6, NextShape
       DEF RecvStatus, SemWait, ReadSize, OpenForWrite, CtrlC
  <2>8. p = q
    BY <1>1, <2>1, <2>7 DEF ReadBody
  <2>9. file.size >= fsize[q] /\ Fetched(file, fsize[q]) = Torn /\ file.size \in Nat
    BY <1>1, <2>7, <2>8 DEF ReadBody, File
  <2>10. file.doc = last /\ last \in Doc /\ file.size >= DocLen(last)
    BY <1>1, <2>1, <2>9 DEF FileIsLast, Truncated
  <2>11. ~(fsize[q] >= DocLen(last))
    BY <2>9, <2>10, SentinelsAreNoDocs DEF Fetched
  <2>12. DocLen(last) \in Nat
    BY <2>10, DocLenType
  <2> QED
    BY <2>1, <2>9, <2>10, <2>11, <2>12
<1>2. ASSUME IInv, [Next]_vars
      PROVE  [\A p \in Proc :
                pc[p] = "sized" /\ pc'[p] = "loaded" /\ buf'[p] = Torn
                  => file.size > fsize[p]]_vars
  BY <1>1, <1>2
<1> QED
  BY <1>2, Invariance, PTL DEF Spec, TornOnlyIfGrown

-----------------------------------------------------------------------------
(***************************************************************************)
(* Refinement of SnapshotStore.                                            *)
(***************************************************************************)
Snap(b) == [p \in Proc |-> IF b[p] = Torn THEN NoDoc ELSE b[p]]

\* Every step of the processes is a step of the store or leaves it alone.
LEMMA StoreStep ==
  ASSUME IInv, Next
  PROVE  Store!Next \/ UNCHANGED <<last, Snap(buf)>>
<1> USE DEF IInv, TypeOK
<1>1. ASSUME NEW p \in Proc, NEW n \in RestPC, Leave(p, n)
      PROVE  Snap(buf') = [Snap(buf) EXCEPT ![p] = NoDoc]
  BY <1>1, SentinelsAreNoDocs DEF Leave, Snap
<1>2. ASSUME NEW p \in Proc, CloseWrite(p) PROVE Store!Commit(p)
  <2>1. /\ buf[p] \in Doc /\ op[p] \in Op /\ op[p].kind # "status"
        /\ last' = Edit(op[p], buf[p])
    BY <1>2, WriteReady DEF CloseWrite
  <2>2. Snap(buf)[p] = buf[p] /\ buf[p] # NoDoc
    BY <2>1, SentinelsAreNoDocs DEF Snap
  <2>3. op[p] \in Op \ {StatusOp}
    BY <2>1 DEF StatusOp
  <2>4. Snap(buf') = [Snap(buf) EXCEPT ![p] = NoDoc]
    BY <1>2, SentinelsAreNoDocs DEF CloseWrite, AfterWrite, Leave, Snap
  <2> QED
    BY <2>1, <2>2, <2>3, <2>4 DEF Store!Commit, Snap
<1>3. ASSUME NEW p \in Proc, ReadBody(p) PROVE Store!Next
  <2>1. fsize[p] > 0 /\ file.size >= fsize[p] /\ file.size \in Nat /\ fsize[p] \in Nat
    BY <1>3 DEF ReadBody, BuffersInUse, File
  <2>2. file.doc = last /\ last \in Doc
    BY <2>1 DEF FileIsLast, Truncated
  <2>3. /\ last' = last
        /\ \/ buf' = [buf EXCEPT ![p] = last]
           \/ buf' = [buf EXCEPT ![p] = Torn]
    BY <1>3, <2>2 DEF ReadBody, Fetched
  <2>4. CASE buf' = [buf EXCEPT ![p] = last]
    <3>1. Snap(buf') = [Snap(buf) EXCEPT ![p] = last]
      BY <2>2, <2>4, SentinelsAreNoDocs DEF Snap
    <3>2. Store!Take(p)
      BY <2>3, <3>1 DEF Store!Take, Snap
    <3> QED
      BY <3>2 DEF Store!Next
  <2>5. CASE buf' = [buf EXCEPT ![p] = Torn]
    <3>1. Snap(buf') = [Snap(buf) EXCEPT ![p] = NoDoc]
      BY <2>5, SentinelsAreNoDocs DEF Snap
    <3>2. Store!Drop(p)
      BY <2>3, <3>1 DEF Store!Drop, Snap
    <3> QED
      BY <3>2 DEF Store!Next
  <2> QED
    BY <2>3, <2>4, <2>5
<1>4. CASE \E p \in Proc : CloseWrite(p)
  BY <1>2, <1>4 DEF Store!Next
<1>5. CASE ~\E p \in Proc : CloseWrite(p)
  <2>1. last' = last
    BY <1>5, SharedShape DEF OpenForWrite
  <2>2. ASSUME NEW p \in Proc, NEW n \in RestPC, Leave(p, n) PROVE Store!Next
    <3>1. Store!Drop(p)
      BY <1>1, <2>1, <2>2 DEF Store!Drop, Snap
    <3> QED
      BY <3>1 DEF Store!Next
  <2>3. CASE UNCHANGED buf
    BY <2>1, <2>3 DEF Snap
  <2>4. ASSUME NEW e \in Emer, Wake(e) PROVE UNCHANGED buf \/ \E n \in RestPC : Leave(e, n)
    BY <2>4 DEF Wake, RestPC
  <2>5. CASE SenseAlert
    <3>1. UNCHANGED buf \/ \E n \in RestPC : Leave(AlertProc, n)
      BY <2>5 DEF SenseAlert, RestPC
    <3>2. AlertProc \in Proc
      BY DEF Proc
    <3> QED
      BY <2>2, <2>3, <3>1, <3>2
  <2>6. ASSUME NEW c \in Conn, NEW h \in Cred, NEW w \in Cred, NEW i \in Item, NEW a \in Amount,
               RecvUpdate(c, h, w, i, a)
        PROVE  UNCHANGED buf
    BY <2>6, NoItemUnknown DEF RecvUpdate
  <2>7. \A e \in Emer : e \in Proc
    BY DEF Proc
  <2>8. ASSUME NEW p \in Proc, OpenForWrite(p) \/ ReadSize(p) PROVE UNCHANGED buf
    BY <2>8 DEF OpenForWrite, ReadSize
  <2>9. ASSUME NEW e \in Emer, Keepalive(e) PROVE UNCHANGED buf
    BY <2>9 DEF Keepalive
  <2>10. ASSUME NEW p \in Proc, RecvStatus(p) \/ SemWait(p) PROVE UNCHANGED buf
    BY <2>10 DEF RecvStatus, SemWait
  <2>11. CASE CtrlC
    BY <2>3, <2>11 DEF CtrlC
  <2>12. Conn \subseteq Proc /\ Server \subseteq Proc
    BY DEF Proc, Server
  <2> QED
    BY <1>3, <2>2, <2>3, <2>4, <2>5, <2>6, <2>7, <2>8, <2>9, <2>10, <2>11, <2>12, NextShape
<1> QED
  BY <1>4, <1>5

\* The processes' use of the file implements the snapshot store: a reader acts
\* on a whole document that was current, a writer commits one edit of it.
THEOREM ImplementsStore == Spec => StoreSafety
<1>1. Init => Store!Init
  BY SentinelsAreNoDocs DEF Init, Store!Init, Snap
<1>2. ASSUME IInv, [Next]_vars PROVE [Store!Next]_<<last, Snap(buf)>>
  <2>1. CASE Next
    BY <1>2, <2>1, StoreStep
  <2>2. CASE UNCHANGED vars
    BY <2>2 DEF vars, Snap
  <2> QED
    BY <1>2, <2>1, <2>2
<1> QED
  BY <1>1, <1>2, Invariance, PTL DEF Spec, StoreSafety, Store!Spec, Snap
=============================================================================
