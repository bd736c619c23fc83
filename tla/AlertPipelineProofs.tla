------------------------- MODULE AlertPipelineProofs -------------------------
(***************************************************************************)
(* Proofs about AlertPipeline: its inductive invariant, and that it        *)
(* implements AlertChannel.                                                *)
(***************************************************************************)
EXTENDS AlertPipeline, SequenceTheorems, TLAPS

\* An element of a sequence over S is in S.
LEMMA SeqElement ==
  ASSUME NEW S, NEW s \in Seq(S), NEW i \in 1..Len(s) PROVE s[i] \in S
  OBVIOUS

\* The queue's contents are a sequence of alerts, also when there is none.
LEMMA InQueueType == TypeOK => InQueue \in Seq(Alert)
  BY DEF TypeOK, InQueue

LEMMA InitInv == Init => PInv
  <1> SUFFICES ASSUME Init PROVE PInv
    OBVIOUS
  <1> USE DEF Init
  <1>1. TypeOK
    BY MaxAlertsType, FirstIdsType DEF TypeOK, SensorPC, ListenerPC
  <1>2. InQueue = <<>> /\ Len(InQueue) = 0 /\ Len(received) = 0
    BY DEF InQueue
  <1>3. NotStarted /\ IdsAreOld /\ SentWasRaised
    BY <1>2 DEF NotStarted, IdsAreOld, SentWasRaised
  <1>4. QueuedWasSent /\ QueueInOrder /\ ReceivedInOrder /\ CutOffByRemoval
    BY <1>2 DEF QueuedWasSent, QueueInOrder, ReceivedInOrder, CutOffByRemoval
  <1>5. NothingSkipped
    BY DEF NothingSkipped
  <1> QED
    BY <1>1, <1>3, <1>4, <1>5 DEF PInv

\* A step that moves no alert and no identifier keeps what is said of them.
LEMMA QuietStep ==
  ASSUME PInv, UNCHANGED <<queue, msg_id, sent, received>>
  PROVE  QueuedWasSent' /\ QueueInOrder' /\ ReceivedInOrder' /\ CutOffByRemoval'
  BY DEF PInv, QueuedWasSent, QueueInOrder, ReceivedInOrder, CutOffByRemoval, InQueue

LEMMA StartInv == ASSUME PInv, NEW g \in Gen, Start(g) PROVE PInv'
  <1> USE DEF PInv, Start
  <1>1. PICK s \in {"sense", "exit"}, l \in {"msgrcv", "exit"} :
          /\ sensor' = [sensor EXCEPT ![g] = s]
          /\ listener' = [listener EXCEPT ![g] = l]
    OBVIOUS
  <1>2. /\ nextId' \in Nat /\ nextId <= nextId' /\ msg_id'[g] \in Nat /\ msg_id'[g] < nextId'
        /\ msg_id' = [msg_id EXCEPT ![g] = msg_id'[g]]
        /\ queue' # NoQueue => queue'.id < nextId'
        /\ queue' \in [id : Nat, msgs : Seq(Alert)] \cup {NoQueue}
    <2>1. /\ msg_id \in [Gen -> Nat \cup {NoId}] /\ nextId \in Nat
          /\ queue \in [id : Nat, msgs : Seq(Alert)] \cup {NoQueue}
          /\ queue # NoQueue => queue.id < nextId /\ queue.id \in Nat
      BY DEF IdsAreOld, TypeOK
    <2>2. CASE queue = NoQueue
      <3>1. /\ queue' = [id |-> nextId, msgs |-> <<>>] /\ nextId' = nextId + 1
            /\ msg_id' = [msg_id EXCEPT ![g] = nextId]
        BY <2>2 DEF create_message_queue
      <3>2. <<>> \in Seq(Alert)
        OBVIOUS
      <3>3. queue'.id = nextId /\ queue' \in [id : Nat, msgs : Seq(Alert)]
        BY <2>1, <3>1, <3>2
      <3> QED
        BY <2>1, <3>1, <3>3
    <2>3. CASE queue # NoQueue
      <3>1. /\ queue' = queue /\ nextId' = nextId
            /\ msg_id' = [msg_id EXCEPT ![g] = queue.id]
        BY <2>3 DEF create_message_queue
      <3> QED
        BY <2>1, <2>3, <3>1
    <2> QED
      BY <2>2, <2>3
  <1>3. TypeOK'
    BY <1>1, <1>2 DEF TypeOK, SensorPC, ListenerPC
  <1>4. InQueue' = InQueue /\ (queue # NoQueue => queue' = queue)
    BY DEF create_message_queue, InQueue
  <1>5. NotStarted'
    BY <1>1 DEF NotStarted, TypeOK, SensorPC, ListenerPC
  <1>6. IdsAreOld'
    <2>1. ASSUME NEW h \in Gen, msg_id'[h] # NoId PROVE msg_id'[h] < nextId'
      <3>1. msg_id[h] \in Nat \cup {NoId} /\ nextId \in Nat
        BY DEF TypeOK
      <3>2. CASE h = g
        BY <1>2, <3>2
      <3>3. CASE h # g
        <4>1. msg_id'[h] = msg_id[h]
          BY <1>2, <3>3 DEF TypeOK
        <4>2. msg_id[h] < nextId
          BY <2>1, <4>1 DEF IdsAreOld
        <4> QED
          BY <1>2, <2>1, <3>1, <4>1, <4>2
      <3> QED
        BY <3>2, <3>3
    <2> QED
      BY <1>2, <2>1 DEF IdsAreOld
  <1>7. SentWasRaised'
    BY <1>1 DEF SentWasRaised, TypeOK, SensorPC, Alert
  <1>8. \A a \in sent : a.gen # g
    BY MaxAlertsType DEF SentWasRaised, NotStarted, TypeOK, Alert
  <1>9. QueuedWasSent'
    <2>1. ASSUME NEW i \in 1..Len(InQueue)
          PROVE  InQueue[i] \in sent /\ msg_id'[InQueue[i].gen] = queue'.id
      <3>1. queue # NoQueue
        BY <2>1 DEF InQueue
      <3> QED
        BY <1>2, <1>4, <1>8, <2>1, <3>1 DEF QueuedWasSent, TypeOK, Alert
    <2> QED
      BY <1>4, <2>1 DEF QueuedWasSent
  <1>10. QueueInOrder' /\ ReceivedInOrder'
    BY <1>4 DEF QueueInOrder, ReceivedInOrder
  <1>11. CutOffByRemoval'
    <2>1. ASSUME NEW i \in 1..Len(received)
          PROVE  msg_id'[received[i].alert.gen] = msg_id'[received[i].by]
      <3>1. received[i] \in [alert : Alert, by : Gen]
        BY <2>1, SeqElement DEF TypeOK
      <3>2. received[i].alert.gen # g /\ received[i].by # g
        BY <1>8, <2>1 DEF QueuedWasSent, NotStarted
      <3> QED
        BY <1>2, <2>1, <3>1, <3>2 DEF CutOffByRemoval, TypeOK, Alert
    <2> QED
      BY <2>1 DEF CutOffByRemoval
  <1>12. NothingSkipped'
    BY <1>1 DEF NothingSkipped, NotStarted, TypeOK
  <1> QED
    BY <1>3, <1>5, <1>6, <1>7, <1>9, <1>10, <1>11, <1>12

LEMMA RaiseInv == ASSUME PInv, NEW g \in Gen, Raise(g) PROVE PInv'
  <1> USE DEF PInv, Raise
  <1>1. TypeOK'
    BY MaxAlertsType DEF TypeOK, SensorPC
  <1>2. NotStarted' /\ IdsAreOld'
    BY DEF NotStarted, IdsAreOld, TypeOK, SensorPC
  <1>3. SentWasRaised'
    BY MaxAlertsType DEF SentWasRaised, TypeOK, Alert
  <1>4. NothingSkipped'
    BY MaxAlertsType DEF NothingSkipped, TypeOK
  <1> QED
    BY <1>1, <1>2, <1>3, <1>4, QuietStep

LEMMA MsgsndInv == ASSUME PInv, NEW g \in Gen, Msgsnd(g) PROVE PInv'
  <1> USE DEF PInv, Msgsnd
  <1> DEFINE a == [gen |-> g, n |-> raised[g]]
  <1>1. raised[g] \in 0..MaxAlerts /\ queue \in [id : Nat, msgs : Seq(Alert)] /\ queue.id = msg_id[g]
    BY DEF TypeOK, Attached
  <1>2. queue' = [queue EXCEPT !.msgs = Append(@, a)] /\ sent' = sent \cup {a}
    OBVIOUS
  <1>3. /\ queue'.id = queue.id /\ queue'.msgs = Append(queue.msgs, a)
        /\ queue' \in [id : Nat, msgs : Seq(Alert)] /\ a \in Alert
    <2>1. queue' = [id |-> queue.id, msgs |-> Append(queue.msgs, a)]
      BY <1>1, <1>2
    <2>2. 1 <= raised[g] /\ a \in Alert
      BY <1>1, MaxAlertsType DEF SentWasRaised, Alert
    <2>3. Append(queue.msgs, a) \in Seq(Alert)
      BY <1>1, <2>2
    <2> QED
      BY <1>1, <2>1, <2>2, <2>3
  <1>4. InQueue = queue.msgs /\ InQueue' = Append(InQueue, a) /\ InQueue \in Seq(Alert)
    BY <1>1, <1>3, NoQueueIsNoQueue DEF InQueue
  <1>5. /\ Len(InQueue') = Len(InQueue) + 1 /\ Len(InQueue) \in Nat
        /\ \A i \in 1..Len(InQueue) : InQueue'[i] = InQueue[i]
        /\ InQueue'[Len(InQueue) + 1] = a
    BY <1>4
  <1>6. TypeOK'
    BY <1>1, <1>2, <1>3 DEF TypeOK, SensorPC
  <1>7. NotStarted' /\ IdsAreOld'
    BY <1>1, <1>3, NoQueueIsNoQueue DEF NotStarted, IdsAreOld, TypeOK, SensorPC
  <1>8. SentWasRaised'
    BY <1>1, <1>2 DEF SentWasRaised, TypeOK, Alert
  <1>9. \A b \in sent : b.gen = g => b.n < a.n
    BY <1>1 DEF SentWasRaised, TypeOK, Alert
  <1>10. QueuedWasSent'
    <2>1. ASSUME NEW i \in 1..Len(InQueue')
          PROVE  InQueue'[i] \in sent' /\ msg_id[InQueue'[i].gen] = queue.id
      <3>1. CASE i = Len(InQueue) + 1
        BY <1>1, <1>2, <1>5, <3>1
      <3>2. CASE i \in 1..Len(InQueue)
        BY <1>2, <1>5, <3>2 DEF QueuedWasSent
      <3> QED
        BY <1>5, <2>1, <3>1, <3>2
    <2> QED
      BY <1>2, <1>3, <2>1 DEF QueuedWasSent
  <1>11. QueueInOrder'
    <2>1. ASSUME NEW i \in 1..Len(InQueue'), NEW j \in 1..Len(InQueue'), i < j,
                 InQueue'[i].gen = InQueue'[j].gen
          PROVE  InQueue'[i].n < InQueue'[j].n
      <3>1. i \in 1..Len(InQueue)
        BY <1>5, <2>1
      <3>2. CASE j = Len(InQueue) + 1
        BY <1>5, <1>9, <2>1, <3>1, <3>2 DEF QueuedWasSent
      <3>3. CASE j \in 1..Len(InQueue)
        BY <1>5, <2>1, <3>1, <3>3 DEF QueueInOrder
      <3> QED
        BY <1>5, <2>1, <3>2, <3>3
    <2>2. ASSUME NEW i \in 1..Len(received), NEW j \in 1..Len(InQueue'),
                 received[i].alert.gen = InQueue'[j].gen
          PROVE  received[i].alert.n < InQueue'[j].n
      <3>1. CASE j = Len(InQueue) + 1
        BY <1>5, <1>9, <2>2, <3>1 DEF QueuedWasSent
      <3>2. CASE j \in 1..Len(InQueue)
        BY <1>5, <2>2, <3>2 DEF QueueInOrder
      <3> QED
        BY <1>5, <2>2, <3>1, <3>2
    <2> QED
      BY <2>1, <2>2 DEF QueueInOrder
  <1>12. ReceivedInOrder' /\ CutOffByRemoval'
    BY DEF ReceivedInOrder, CutOffByRemoval
  <1>13. NothingSkipped'
    BY <1>1, <1>2 DEF NothingSkipped, TypeOK
  <1> QED
    BY <1>6, <1>7, <1>8, <1>10, <1>11, <1>12, <1>13

LEMMA MsgrcvInv == ASSUME PInv, NEW g \in Gen, Msgrcv(g) PROVE PInv'
  <1> USE DEF PInv, Msgrcv
  <1> DEFINE h == Head(queue.msgs)
             r == [alert |-> h, by |-> g]
  <1>1. /\ queue \in [id : Nat, msgs : Seq(Alert)] /\ queue.id = msg_id[g]
        /\ queue.msgs # <<>> /\ received \in Seq([alert : Alert, by : Gen])
    BY DEF TypeOK, Attached
  <1>2. h \in Alert /\ r \in [alert : Alert, by : Gen] /\ Tail(queue.msgs) \in Seq(Alert)
    BY <1>1
  <1>3. queue' = [id |-> queue.id, msgs |-> Tail(queue.msgs)]
    BY <1>1
  <1>4. /\ InQueue = queue.msgs /\ InQueue' = Tail(InQueue) /\ InQueue \in Seq(Alert)
        /\ queue' \in [id : Nat, msgs : Seq(Alert)] /\ queue'.id = queue.id
    BY <1>1, <1>2, <1>3, NoQueueIsNoQueue DEF InQueue
  <1>5. /\ Len(InQueue) \in Nat /\ Len(InQueue) >= 1 /\ Len(InQueue') = Len(InQueue) - 1
        /\ \A i \in 1..Len(InQueue') : InQueue'[i] = InQueue[i + 1] /\ i + 1 \in 1..Len(InQueue)
        /\ InQueue[1] = h /\ 1 \in 1..Len(InQueue)
    BY <1>1, <1>4
  <1>6. /\ received' = Append(received, r) /\ Len(received) \in Nat
        /\ Len(received') = Len(received) + 1
        /\ \A i \in 1..Len(received) : received'[i] = received[i]
        /\ received'[Len(received) + 1] = r
        /\ r.alert = h /\ r.by = g
    BY <1>1
  <1>7. TypeOK'
    BY <1>1, <1>2, <1>4, <1>6 DEF TypeOK
  <1>8. NotStarted'
    <2>1. sensor[g] # "off"
      BY DEF NotStarted
    <2>2. ASSUME NEW i \in 1..Len(received') PROVE sensor[received'[i].by] # "off"
      <3>1. CASE i = Len(received) + 1
        BY <1>6, <2>1, <3>1
      <3>2. CASE i \in 1..Len(received)
        BY <1>6, <3>2 DEF NotStarted
      <3> QED
        BY <1>6, <2>2, <3>1, <3>2
    <2> QED
      BY <2>2 DEF NotStarted
  <1>9. IdsAreOld' /\ SentWasRaised'
    BY <1>1, <1>4, NoQueueIsNoQueue DEF IdsAreOld, SentWasRaised
  <1>10. QueuedWasSent'
    <2>1. ASSUME NEW i \in 1..Len(received') PROVE received'[i].alert \in sent
      <3>1. CASE i = Len(received) + 1
        BY <1>5, <1>6, <3>1 DEF QueuedWasSent
      <3>2. CASE i \in 1..Len(received)
        BY <1>6, <3>2 DEF QueuedWasSent
      <3> QED
        BY <1>6, <2>1, <3>1, <3>2
    <2>2. ASSUME NEW i \in 1..Len(InQueue')
          PROVE  InQueue'[i] \in sent /\ msg_id[InQueue'[i].gen] = queue.id
      BY <1>5, <2>2 DEF QueuedWasSent
    <2> QED
      BY <1>4, <2>1, <2>2 DEF QueuedWasSent
  <1>11. QueueInOrder'
    <2>1. ASSUME NEW i \in 1..Len(InQueue'), NEW j \in 1..Len(InQueue'), i < j,
                 InQueue'[i].gen = InQueue'[j].gen
          PROVE  InQueue'[i].n < InQueue'[j].n
      <3>1. /\ i + 1 \in 1..Len(InQueue) /\ j + 1 \in 1..Len(InQueue) /\ i + 1 < j + 1
            /\ InQueue'[i] = InQueue[i + 1] /\ InQueue'[j] = InQueue[j + 1]
        BY <1>5, <2>1
      <3> QED
        BY <2>1, <3>1 DEF QueueInOrder
    <2>2. ASSUME NEW i \in 1..Len(received'), NEW j \in 1..Len(InQueue'),
                 received'[i].alert.gen = InQueue'[j].gen
          PROVE  received'[i].alert.n < InQueue'[j].n
      <3>1. CASE i = Len(received) + 1
        <4>1. 1 < j + 1 /\ InQueue'[j] = InQueue[j + 1] /\ j + 1 \in 1..Len(InQueue)
          BY <1>5, <2>2
        <4>2. received'[i].alert = InQueue[1] /\ 1 \in 1..Len(InQueue)
          BY <1>5, <1>6, <3>1
        <4> QED
          BY <2>2, <4>1, <4>2 DEF QueueInOrder
      <3>2. CASE i \in 1..Len(received)
        BY <1>5, <1>6, <2>2, <3>2 DEF QueueInOrder
      <3> QED
        BY <1>6, <2>2, <3>1, <3>2
    <2> QED
      BY <2>1, <2>2 DEF QueueInOrder
  <1>12. ReceivedInOrder'
    <2>1. ASSUME NEW i \in 1..Len(received'), NEW j \in 1..Len(received'), i < j,
                 received'[i].alert.gen = received'[j].alert.gen
          PROVE  received'[i].alert.n < received'[j].alert.n
      <3>1. i \in 1..Len(received)
        BY <1>6, <2>1
      <3>2. CASE j = Len(received) + 1
        BY <1>5, <1>6, <2>1, <3>1, <3>2 DEF QueueInOrder
      <3>3. CASE j \in 1..Len(received)
        BY <1>6, <2>1, <3>1, <3>3 DEF ReceivedInOrder
      <3> QED
        BY <1>6, <2>1, <3>2, <3>3
    <2> QED
      BY <2>1 DEF ReceivedInOrder
  <1>13. CutOffByRemoval'
    <2>1. ASSUME NEW i \in 1..Len(received')
          PROVE  msg_id[received'[i].alert.gen] = msg_id[received'[i].by]
      <3>1. CASE i = Len(received) + 1
        <4>1. received'[i].alert = InQueue[1] /\ 1 \in 1..Len(InQueue) /\ received'[i].by = g
          BY <1>5, <1>6, <3>1
        <4> QED
          BY <1>1, <4>1 DEF QueuedWasSent
      <3>2. CASE i \in 1..Len(received)
        BY <1>6, <3>2 DEF CutOffByRemoval
      <3> QED
        BY <1>6, <2>1, <3>1, <3>2
    <2> QED
      BY <2>1 DEF CutOffByRemoval
  <1>14. NothingSkipped'
    BY DEF NothingSkipped
  <1> QED
    BY <1>7, <1>8, <1>9, <1>10, <1>11, <1>12, <1>13, <1>14

LEMMA RemoveInv == ASSUME PInv, NEW g \in Gen, Remove(g) PROVE PInv'
  <1> USE DEF PInv, Remove
  <1>1. InQueue' = <<>> /\ Len(InQueue') = 0
    BY DEF InQueue
  <1>2. TypeOK' /\ NotStarted' /\ IdsAreOld' /\ SentWasRaised'
    BY DEF TypeOK, NotStarted, IdsAreOld, SentWasRaised
  <1>3. QueuedWasSent' /\ QueueInOrder'
    BY <1>1 DEF QueuedWasSent, QueueInOrder
  <1>4. ReceivedInOrder' /\ CutOffByRemoval' /\ NothingSkipped'
    BY DEF ReceivedInOrder, CutOffByRemoval, NothingSkipped
  <1> QED
    BY <1>2, <1>3, <1>4

\* A process that exits takes no alert with it but the one it has in hand.
LEMMA ExitInv ==
  ASSUME PInv, NEW g \in Gen,
         MsgsndFails(g) \/ MsgrcvFails(g) \/ KillSensor(g) \/ KillListener(g)
  PROVE  PInv'
  <1> USE DEF PInv, MsgsndFails, MsgrcvFails, KillSensor, KillListener
  <1>1. TypeOK'
    BY DEF TypeOK, SensorPC, ListenerPC
  <1>2. NotStarted'
    <2>1. \A h \in Gen : /\ sensor'[h] = "off" => sensor[h] = "off"
                         /\ listener[h] = "off" => listener'[h] = "off"
      BY DEF TypeOK, SensorPC, ListenerPC
    <2>2. \A i \in 1..Len(received) : received[i].by \in Gen
      <3>1. received \in Seq([alert : Alert, by : Gen])
        BY DEF TypeOK
      <3>2. \A i \in 1..Len(received) : received[i] \in [alert : Alert, by : Gen]
        BY <3>1, SeqElement
      <3> QED
        BY <3>2
    <2>3. UNCHANGED <<received, raised>>
      OBVIOUS
    <2> QED
      BY <2>1, <2>2, <2>3 DEF NotStarted
  <1>3. IdsAreOld'
    BY DEF IdsAreOld
  <1>4. SentWasRaised'
    BY DEF SentWasRaised, TypeOK, SensorPC, Alert
  <1>5. NothingSkipped'
    BY DEF NothingSkipped, TypeOK
  <1> QED
    BY <1>1, <1>2, <1>3, <1>4, <1>5, QuietStep

\* PInv holds in every reachable state, for any number of runs of the server
\* and any capacity of the queue.
THEOREM PipelineInvariance == Spec => []PInv
  <1>1. PInv /\ [Next]_vars => PInv'
    <2> SUFFICES ASSUME PInv, [Next]_vars PROVE PInv'
      OBVIOUS
    <2>1. CASE UNCHANGED vars
      BY <2>1 DEF vars, PInv, TypeOK, NotStarted, IdsAreOld, SentWasRaised, QueuedWasSent,
                  QueueInOrder, ReceivedInOrder, CutOffByRemoval, NothingSkipped, InQueue
    <2>2. ASSUME NEW g \in Gen,
                 \/ Start(g) \/ Remove(g)
                 \/ Raise(g) \/ Send(g) \/ KillSensor(g)
                 \/ Receive(g) \/ KillListener(g)
          PROVE  PInv'
      BY <2>2, StartInv, RemoveInv, RaiseInv, MsgsndInv, MsgrcvInv, ExitInv DEF Send, Receive
    <2> QED
      BY <2>1, <2>2 DEF Next
  <1> QED
    BY <1>1, InitInv, PTL DEF Spec

\* The variables of the pipeline keep their types: in particular only raised
\* alerts are ever in the queue.
THEOREM PipelineTypes == Spec => []TypeOK
  BY PipelineInvariance, PTL DEF PInv

\* The alerts of one run are received in the order they were raised.
THEOREM OrderSafe == Spec => []ReceivedInOrder
  BY PipelineInvariance, PTL DEF PInv

\* An alert crosses from run to run only in a queue that both were attached to.
THEOREM RemovalSafe == Spec => []CutOffByRemoval
  BY PipelineInvariance, PTL DEF PInv

\* Sensors that go on have sent every alert before the one in hand.
THEOREM SkipSafe == Spec => []NothingSkipped
  BY PipelineInvariance, PTL DEF PInv

-----------------------------------------------------------------------------
(***************************************************************************)
(* AlertPipeline implements AlertChannel.                                  *)
(***************************************************************************)
Printed == [i \in 1..Len(received) |-> received[i].alert]

\* A received alert moves from the head of the channel to the end of the list.
LEMMA HandOverStep ==
  ASSUME TypeOK, NEW g \in Gen, Msgrcv(g) PROVE Channel!HandOver
  <1>1. /\ queue \in [id : Nat, msgs : Seq(Alert)] /\ queue.msgs # <<>>
        /\ received \in Seq([alert : Alert, by : Gen])
    BY DEF TypeOK, Msgrcv, Attached
  <1>2. queue' = [id |-> queue.id, msgs |-> Tail(queue.msgs)]
    BY <1>1 DEF Msgrcv
  <1>3. InQueue = queue.msgs /\ InQueue' = Tail(InQueue) /\ Head(InQueue) \in Alert
    <2>1. Tail(queue.msgs) \in Seq(Alert) /\ Head(queue.msgs) \in Alert
      BY <1>1
    <2>2. queue' \in [id : Nat, msgs : Seq(Alert)] /\ queue'.msgs = Tail(queue.msgs)
      BY <1>1, <1>2, <2>1
    <2> QED
      BY <1>1, <2>1, <2>2, NoQueueIsNoQueue DEF InQueue
  <1>4. Printed' = Append(Printed, Head(InQueue))
    <2> DEFINE r == [alert |-> Head(queue.msgs), by |-> g]
    <2>1. received' = Append(received, r) /\ r.alert = Head(InQueue)
      BY <1>3 DEF Msgrcv
    <2>2. Len(received) \in Nat /\ Len(received') = Len(received) + 1
      BY <1>1, <2>1
    <2>3. \A i \in 1..Len(received) : received'[i] = received[i]
      BY <1>1, <2>1
    <2>4. received'[Len(received) + 1] = r
      BY <1>1, <2>1
    <2> HIDE DEF r
    <2>5. \A i \in 1..Len(received) : received[i].alert \in Alert
      <3>1. \A i \in 1..Len(received) : received[i] \in [alert : Alert, by : Gen]
        BY <1>1, SeqElement
      <3> QED
        BY <3>1
    <2>6. Printed \in Seq(Alert) /\ Len(Printed) = Len(received)
      BY <2>2, <2>5 DEF Printed
    <2>7. /\ Append(Printed, Head(InQueue)) \in Seq(Alert)
          /\ Len(Append(Printed, Head(InQueue))) = Len(received) + 1
          /\ \A i \in 1..Len(received) : Append(Printed, Head(InQueue))[i] = Printed[i]
          /\ Append(Printed, Head(InQueue))[Len(received) + 1] = Head(InQueue)
      BY <1>3, <2>6
    <2>8. \A i \in 1..(Len(received) + 1) :
            Printed'[i] = received'[i].alert /\ received'[i].alert \in Alert
      BY <1>3, <2>1, <2>2, <2>3, <2>4, <2>5 DEF Printed
    <2>9. Printed' \in Seq(Alert) /\ Len(Printed') = Len(received) + 1
      BY <2>2, <2>8 DEF Printed
    <2>10. \A i \in 1..Len(Printed') : Printed'[i] = Append(Printed, Head(InQueue))[i]
      BY <2>1, <2>2, <2>3, <2>4, <2>7, <2>8, <2>9 DEF Printed
    <2> QED
      BY <2>7, <2>9, <2>10, SeqEqual
  <1> QED
    BY <1>1, <1>3, <1>4 DEF Channel!HandOver, Printed, Msgrcv

\* Whatever the processes and the kernel do, the pipeline is a channel that
\* keeps order, duplicates nothing and loses only all it holds at once.
THEOREM ImplementsChannel == Spec => ChannelSafety
  <1>1. Init => Channel!Init
    <2> SUFFICES ASSUME Init PROVE Channel!Init
      OBVIOUS
    <2>1. InQueue = <<>> /\ sent = {}
      BY DEF Init, InQueue
    <2>2. Printed = <<>>
      BY DEF Init, Printed
    <2> QED
      BY <2>1, <2>2 DEF Channel!Init, Printed
  <1>2. PInv /\ [Next]_vars => [Channel!Next]_(Channel!cvars)
    <2> SUFFICES ASSUME PInv, [Next]_vars PROVE [Channel!Next]_(Channel!cvars)
      OBVIOUS
    <2>1. ASSUME UNCHANGED <<InQueue, sent, received>>
          PROVE  UNCHANGED Channel!cvars
      BY <2>1 DEF Channel!cvars
    <2>2. CASE UNCHANGED vars
      BY <2>1, <2>2 DEF vars, InQueue
    <2>3. ASSUME NEW g \in Gen, Start(g) PROVE UNCHANGED Channel!cvars
      BY <2>1, <2>3 DEF Start, create_message_queue, InQueue
    <2>4. ASSUME NEW g \in Gen,
                 \/ Raise(g) \/ MsgsndFails(g) \/ MsgrcvFails(g)
                 \/ KillSensor(g) \/ KillListener(g)
          PROVE  UNCHANGED Channel!cvars
      BY <2>1, <2>4 DEF Raise, MsgsndFails, MsgrcvFails, KillSensor, KillListener, InQueue
    <2>5. ASSUME NEW g \in Gen, Remove(g) PROVE Channel!LoseAll
      BY <2>5 DEF Remove, InQueue, Channel!LoseAll
    <2>6. ASSUME NEW g \in Gen, Msgsnd(g) PROVE \E a \in Alert : Channel!Take(a)
      <3> DEFINE a == [gen |-> g, n |-> raised[g]]
      <3>1. queue \in [id : Nat, msgs : Seq(Alert)]
        BY <2>6 DEF Msgsnd, Attached, PInv, TypeOK
      <3>2. a \in Alert /\ a \notin sent
        BY <2>6, MaxAlertsType DEF Msgsnd, PInv, TypeOK, SentWasRaised, Alert
      <3>3. queue' = [id |-> queue.id, msgs |-> Append(queue.msgs, a)]
        BY <2>6, <3>1 DEF Msgsnd
      <3>4. InQueue = queue.msgs /\ InQueue' = Append(InQueue, a)
        <4>1. Append(queue.msgs, a) \in Seq(Alert)
          BY <3>1, <3>2
        <4>2. queue' \in [id : Nat, msgs : Seq(Alert)]
          BY <3>1, <3>3, <4>1
        <4> QED
          BY <3>1, <3>3, <4>2, NoQueueIsNoQueue DEF InQueue
      <3>5. sent' = sent \cup {a} /\ received' = received
        BY <2>6 DEF Msgsnd
      <3> QED
        BY <3>2, <3>4, <3>5 DEF Channel!Take
    <2>7. ASSUME NEW g \in Gen, Msgrcv(g) PROVE Channel!HandOver
      BY <2>7, HandOverStep DEF PInv
    <2> QED
      BY <2>2, <2>3, <2>4, <2>5, <2>6, <2>7 DEF Next, Send, Receive, Channel!Next
  <1> QED
    BY <1>1, <1>2, PipelineInvariance, PTL DEF Spec, ChannelSafety, Channel!Spec
=============================================================================
