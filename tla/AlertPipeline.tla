---------------------------- MODULE AlertPipeline ----------------------------
(***************************************************************************)
(* Alerts on their way from the sensors to the alert listener, through the *)
(* one System V message queue of the program, over several runs of the     *)
(* server on one machine.                                                  *)
(*                                                                         *)
(* A queue belongs to the kernel, not to a process.  create_message_queue  *)
(* finds it by a key made from a fixed path, with IPC_CREAT and without    *)
(* IPC_EXCL, so a server that starts while the queue of an earlier one     *)
(* exists is attached to that.  The identifier it gets is a global that    *)
(* fork copies into the sensors and the listener.  The identifier of a     *)
(* removed queue is not given out again.                                   *)
(*                                                                         *)
(* run_alert_module tests the temperature at four entrances in turn; here  *)
(* a sensor process raises its first, second, ... alert, a reading without *)
(* one changes nothing.  What an alert does to the state file is in        *)
(* StateFile.                                                              *)
(***************************************************************************)
EXTENDS Naturals, Sequences

CONSTANTS
  Gen,        \* runs of the server
  MaxAlerts,  \* bound: alerts raised in one run
  Capacity,   \* messages that fit the queue (msg_qbytes / sizeof mess_t)
  FirstIds,   \* identifiers the kernel may give to its next queue
  NoQueue,
  NoId        \* msg_id before create_message_queue

ASSUME MaxAlertsType == MaxAlerts \in Nat
ASSUME CapacityType  == Capacity \in Nat \ {0}
ASSUME FirstIdsType  == FirstIds \subseteq Nat
ASSUME NoIdIsNoId    == NoId \notin Nat

VARIABLES
  queue,     \* the queue under the key: [id, msgs], or NoQueue
  nextId,    \* identifier the kernel will give to a new queue
  msg_id,    \* the identifier each run of the server got
  sensor, listener,  \* the two processes of each run
  raised,    \* history: how many alerts the sensors of each run raised
  sent,      \* history: alerts msgsnd accepted
  received   \* history: alerts msgrcv returned, with the run that got them

vars == <<queue, nextId, msg_id, sensor, listener, raised, sent, received>>

Alert == [gen : Gen, n : 1..MaxAlerts]

ASSUME NoQueueIsNoQueue == NoQueue \notin [id : Nat, msgs : Seq(Alert)]

SensorPC == {"off", "sense", "msgsnd", "exit"}
ListenerPC == {"off", "msgrcv", "exit"}

TypeOK ==
  /\ queue \in [id : Nat, msgs : Seq(Alert)] \cup {NoQueue}
  /\ nextId \in Nat
  /\ msg_id \in [Gen -> Nat \cup {NoId}]
  /\ sensor \in [Gen -> SensorPC]
  /\ listener \in [Gen -> ListenerPC]
  /\ raised \in [Gen -> 0..MaxAlerts]
  /\ sent \in SUBSET Alert
  /\ received \in Seq([alert : Alert, by : Gen])

Init ==
  /\ queue = NoQueue
  /\ nextId \in FirstIds
  /\ msg_id = [g \in Gen |-> NoId]
  /\ sensor = [g \in Gen |-> "off"]
  /\ listener = [g \in Gen |-> "off"]
  /\ raised = [g \in Gen |-> 0]
  /\ sent = {}
  /\ received = <<>>

-----------------------------------------------------------------------------

\* Mutant of Attached: the queue is looked up by its key in every call.
AttachedByKey(g) == queue # NoQueue

\* The queue exists and is the one run g is attached to.
Attached(g) == queue # NoQueue /\ queue.id = msg_id[g]

create_message_queue(g) ==
  \/ /\ queue = NoQueue
     /\ queue' = [id |-> nextId, msgs |-> <<>>]
     /\ nextId' = nextId + 1
     /\ msg_id' = [msg_id EXCEPT ![g] = nextId]
  \/ /\ queue # NoQueue
     /\ msg_id' = [msg_id EXCEPT ![g] = queue.id]
     /\ UNCHANGED <<queue, nextId>>

\* main creates the queue, then forks the sensors and after them the listener;
\* when a fork fails main exits and what it has forked stays.
Start(g) ==
  /\ sensor[g] = "off"
  /\ create_message_queue(g)
  /\ \E s \in {"sense", "exit"}, l \in {"msgrcv", "exit"} :
       /\ l = "msgrcv" => s = "sense"
       /\ sensor' = [sensor EXCEPT ![g] = s]
       /\ listener' = [listener EXCEPT ![g] = l]
  /\ UNCHANGED <<raised, sent, received>>

\* Mutant of Raise: identifier 0 is an error, but no reason to exit.
RaiseGoesOn(g) ==
  /\ sensor[g] = "sense"
  /\ raised[g] < MaxAlerts
  /\ raised' = [raised EXCEPT ![g] = @ + 1]
  /\ sensor' = [sensor EXCEPT ![g] = IF msg_id[g] = 0 THEN "sense" ELSE "msgsnd"]
  /\ UNCHANGED <<queue, nextId, msg_id, listener, sent, received>>

\* A temperature above HIGH_TEMPERATURE: send_alert_msqueue up to msgsnd.  It
\* takes 0, the identifier of the first queue of a machine, for an error.
Raise(g) ==
  /\ sensor[g] = "sense"
  /\ raised[g] < MaxAlerts
  /\ raised' = [raised EXCEPT ![g] = @ + 1]
  /\ sensor' = [sensor EXCEPT ![g] = IF msg_id[g] = 0 THEN "exit" ELSE "msgsnd"]
  /\ UNCHANGED <<queue, nextId, msg_id, listener, sent, received>>

\* Mutant of Msgsnd: a call that was interrupted is made again although it
\* had been carried out.
MsgsndAgain(g) ==
  /\ sensor[g] = "msgsnd"
  /\ Attached(g)
  /\ Len(queue.msgs) < Capacity
  /\ LET a == [gen |-> g, n |-> raised[g]]
     IN  /\ queue' = [queue EXCEPT !.msgs = Append(@, a)]
         /\ sent' = sent \cup {a}
  /\ sensor' \in {sensor, [sensor EXCEPT ![g] = "sense"]}
  /\ UNCHANGED <<nextId, msg_id, listener, raised, received>>

\* msgsnd waits for room in the queue.
Msgsnd(g) ==
  /\ sensor[g] = "msgsnd"
  /\ Attached(g)
  /\ Len(queue.msgs) < Capacity
  /\ LET a == [gen |-> g, n |-> raised[g]]
     IN  /\ queue' = [queue EXCEPT !.msgs = Append(@, a)]
         /\ sent' = sent \cup {a}
  /\ sensor' = [sensor EXCEPT ![g] = "sense"]
  /\ UNCHANGED <<nextId, msg_id, listener, raised, received>>

\* Mutant of MsgsndFails: the call is made again after an error.
MsgsndRetries(g) ==
  /\ sensor[g] = "msgsnd"
  /\ ~Attached(g)
  /\ UNCHANGED vars

\* The queue was removed, before the call or while it waited for room.
MsgsndFails(g) ==
  /\ sensor[g] = "msgsnd"
  /\ ~Attached(g)
  /\ sensor' = [sensor EXCEPT ![g] = "exit"]
  /\ UNCHANGED <<queue, nextId, msg_id, listener, raised, sent, received>>

\* Mutant of Msgrcv: only messages of the listener's own run are asked for.
MsgrcvOwn(g) ==
  /\ listener[g] = "msgrcv"
  /\ Attached(g)
  /\ queue.msgs # <<>>
  /\ Head(queue.msgs).gen = g
  /\ received' = Append(received, [alert |-> Head(queue.msgs), by |-> g])
  /\ queue' = [queue EXCEPT !.msgs = Tail(@)]
  /\ UNCHANGED <<nextId, msg_id, sensor, listener, raised, sent>>

\* Every message has type 1, and type 1 is asked for: the oldest comes first.
Msgrcv(g) ==
  /\ listener[g] = "msgrcv"
  /\ Attached(g)
  /\ queue.msgs # <<>>
  /\ received' = Append(received, [alert |-> Head(queue.msgs), by |-> g])
  /\ queue' = [queue EXCEPT !.msgs = Tail(@)]
  /\ UNCHANGED <<nextId, msg_id, sensor, listener, raised, sent>>

\* Mutant of MsgrcvFails: the error is not tested, and the buffer is printed,
\* which holds no alert.
MsgrcvFailsPrints(g) ==
  /\ listener[g] = "msgrcv"
  /\ ~Attached(g)
  /\ received' = Append(received, [alert |-> [gen |-> g, n |-> 0], by |-> g])
  /\ UNCHANGED <<queue, nextId, msg_id, sensor, listener, raised, sent>>

MsgrcvFails(g) ==
  /\ listener[g] = "msgrcv"
  /\ ~Attached(g)
  /\ listener' = [listener EXCEPT ![g] = "exit"]
  /\ UNCHANGED <<queue, nextId, msg_id, sensor, raised, sent, received>>

\* end_conn in some process of run g: IPC_RMID by identifier.
Remove(g) ==
  /\ Attached(g)
  /\ queue' = NoQueue
  /\ UNCHANGED <<nextId, msg_id, sensor, listener, raised, sent, received>>

\* A signal ends a process: SIGINT and SIGTSTP in end_conn, which exits here
\* with the queue in place; SIGTERM because the call it interrupts fails; any
\* other by default.
KillSensor(g) ==
  /\ sensor[g] \in {"sense", "msgsnd"}
  /\ sensor' = [sensor EXCEPT ![g] = "exit"]
  /\ UNCHANGED <<queue, nextId, msg_id, listener, raised, sent, received>>

KillListener(g) ==
  /\ listener[g] = "msgrcv"
  /\ listener' = [listener EXCEPT ![g] = "exit"]
  /\ UNCHANGED <<queue, nextId, msg_id, sensor, raised, sent, received>>

-----------------------------------------------------------------------------
Send(g)    == Msgsnd(g) \/ MsgsndFails(g)
Receive(g) == Msgrcv(g) \/ MsgrcvFails(g)

Next ==
  \E g \in Gen :
    \/ Start(g) \/ Remove(g)
    \/ Raise(g) \/ Send(g) \/ KillSensor(g)
    \/ Receive(g) \/ KillListener(g)

\* Processes are scheduled, and the kernel wakes senders that wait for room
\* in turn.  Nobody has to start a server, to raise an alert or to end one.
Fairness == \A g \in Gen : SF_vars(Send(g)) /\ WF_vars(Receive(g))

Spec == Init /\ [][Next]_vars /\ Fairness

-----------------------------------------------------------------------------
(***************************************************************************)
(* What holds.                                                             *)
(***************************************************************************)
InQueue == IF queue = NoQueue THEN <<>> ELSE queue.msgs

Channel == INSTANCE AlertChannel
  WITH taken <- sent, channel <- InQueue,
       received <- [i \in 1..Len(received) |-> received[i].alert]

\* Over all restarts, removals and crashes, the sensors, the queue and the
\* listeners are a channel: no alert is delivered twice or ahead of an earlier
\* one, and none is lost but by the removal of the queue (server.c:480).
ChannelSafety == Channel!Spec

\* The alerts of one run are received in the order in which its sensors
\* raised them, whichever listeners receive them, also when they wait in the
\* queue while the server is restarted (server.c:164, alert_module.c:65).
ReceivedInOrder ==
  \A i, j \in 1..Len(received) :
    i < j /\ received[i].alert.gen = received[j].alert.gen
      => received[i].alert.n < received[j].alert.n

\* An alert reaches a run that did not raise it only through a queue that
\* both runs were attached to: a removed queue cuts the runs before it off
\* from those after it (server.c:147, 480).
CutOffByRemoval ==
  \A i \in 1..Len(received) :
    msg_id[received[i].alert.gen] = msg_id[received[i].by]

\* While the sensors of a run go on, each alert they raised before the one in
\* hand was sent: one that is not sent, because the queue is gone or because
\* its identifier is taken for an error (alert_module.c:59), is their last.
NothingSkipped ==
  \A g \in Gen : \A n \in 1..raised[g] :
    sensor[g] = "sense" \/ (sensor[g] = "msgsnd" /\ n < raised[g])
      => [gen |-> g, n |-> n] \in sent

\* While some listener of the queue lives, an alert in it is received, unless
\* the queue is removed (server.c:162-171).
SomeListener == \E g \in Gen : listener[g] = "msgrcv" /\ Attached(g)

QueuedAlertsArrive ==
  (InQueue # <<>>) ~> (InQueue = <<>> \/ ~SomeListener)

\* A sensor process that waits for room in the queue does not wait for ever:
\* it goes on when a listener makes room and exits when the queue is removed.
\* Only a full queue that has lost its listener holds it (alert_module.c:65).
SendersReleased ==
  \A g \in Gen :
    sensor[g] = "msgsnd" ~> (sensor[g] # "msgsnd" \/ (Attached(g) /\ ~SomeListener))

-----------------------------------------------------------------------------
(***************************************************************************)
(* The inductive invariant behind the safety properties.                   *)
(***************************************************************************)

\* A run that has not started has done nothing.
NotStarted ==
  /\ \A g \in Gen : sensor[g] = "off" => raised[g] = 0 /\ listener[g] = "off"
  /\ \A i \in 1..Len(received) : sensor[received[i].by] # "off"

\* Identifiers in use are older than the next one.
IdsAreOld ==
  /\ queue # NoQueue => queue.id < nextId
  /\ \A g \in Gen : msg_id[g] # NoId => msg_id[g] < nextId

\* An alert that was sent was raised, and is not the one msgsnd has in hand.
SentWasRaised ==
  /\ \A a \in sent :
       /\ a.n <= raised[a.gen]
       /\ sensor[a.gen] = "msgsnd" => a.n # raised[a.gen]
  /\ \A g \in Gen : sensor[g] = "msgsnd" => raised[g] >= 1

\* What is in the queue was sent, by sensors attached to this queue; what was
\* received was sent.
QueuedWasSent ==
  /\ \A i \in 1..Len(InQueue) :
       InQueue[i] \in sent /\ msg_id[InQueue[i].gen] = queue.id
  /\ \A i \in 1..Len(received) : received[i].alert \in sent

\* The queue continues the order of what was received.
QueueInOrder ==
  /\ \A i, j \in 1..Len(InQueue) :
       i < j /\ InQueue[i].gen = InQueue[j].gen => InQueue[i].n < InQueue[j].n
  /\ \A i \in 1..Len(received), j \in 1..Len(InQueue) :
       received[i].alert.gen = InQueue[j].gen => received[i].alert.n < InQueue[j].n

PInv ==
  /\ TypeOK
  /\ NotStarted
  /\ IdsAreOld
  /\ SentWasRaised
  /\ QueuedWasSent
  /\ QueueInOrder
  /\ ReceivedInOrder
  /\ CutOffByRemoval
  /\ NothingSkipped
=============================================================================
