------------------------ MODULE ServerLifecycleProofs ------------------------
(***************************************************************************)
(* Proofs about ServerLifecycle, for any sets of clients and listeners.    *)
(***************************************************************************)
EXTENDS ServerLifecycle, TLAPS

\* The invariant falls in two parts: what a process may do next, and who was
\* signalled by whom.
Processes ==
  /\ TypeOK
  /\ BeforeProcesses
  /\ EndSentFirst
  /\ QueueRemovedAfterEnd
  /\ SignalledByOwnEmergency

Chain ==
  /\ ListenerSignalledFromBelow
  /\ MainSignalledFromBelow
  /\ MainEndsFromBelow

\* The states the server starts in satisfy the inductive invariant.
LEMMA InitLInv == Init => LInv
<1> SUFFICES ASSUME Init PROVE LInv
  OBVIOUS
<1>1. TypeOK
  <2>1. presses \in 0..MaxPresses
    BY MaxPressesType DEF Init
  <2>2. sigMain \in BOOLEAN /\ msgq \in BOOLEAN
    BY Zenon DEF Init
  <2>3. /\ tcp \in [Tcp -> TcpPC] /\ held \in [Tcp -> Conn \cup {None}]
        /\ conn \in [Conn -> ConnPC] /\ emer \in [Conn -> EmerPC]
        /\ client \in [Conn -> {"idle", "connecting", "connected", "gone"}]
        /\ via \in [Conn -> Tcp \cup {None}]
    BY DEF Init, TcpPC, ConnPC, EmerPC
  <2> QED
    BY <2>1, <2>2, <2>3 DEF Init, TypeOK
<1>2. BeforeProcesses /\ EndSentFirst
  BY NoneIsNoOne DEF Init, BeforeProcesses, EndSentFirst
<1>3. ListenerSignalledFromBelow /\ MainSignalledFromBelow /\ MainEndsFromBelow
  BY DEF Init, ListenerSignalledFromBelow, MainSignalledFromBelow, MainEndsFromBelow
<1>4. QueueRemovedAfterEnd /\ SignalledByOwnEmergency
  BY DEF Init, QueueRemovedAfterEnd, SignalledByOwnEmergency
<1> QED
  BY <1>1, <1>2, <1>3, <1>4 DEF LInv

\* END sent, a process that has exited and the listener of a client that is
\* not idle stay as they are.
LEMMA EndedUnderStays ==
  ASSUME Processes, told \subseteq told',
         \A c \in Conn : conn[c] = "exit" => conn'[c] = "exit" /\ via'[c] = via[c],
         NEW l, EndedUnder(l)
  PROVE  EndedUnder(l)'
BY DEF EndedUnder

\* Every step of every process preserves what a process may do next.
LEMMA NextProcesses == Processes /\ [Next]_vars => Processes'
<1> USE NoneIsNoOne, MaxPressesType DEF Processes, TypeOK, TcpPC, ConnPC, EmerPC, BeforeProcesses,
     EndSentFirst, QueueRemovedAfterEnd, SignalledByOwnEmergency, terminal,
     clients, listeners, children, sigs
<1> SUFFICES ASSUME Processes, [Next]_vars PROVE Processes'
  OBVIOUS
<1>1. ASSUME NEW c \in Conn, NEW l \in Tcp, Connect(c, l) PROVE Processes'
  BY <1>1 DEF Connect
<1>2. ASSUME NEW c \in Conn, ClientLeaves(c) PROVE Processes'
  BY <1>2 DEF ClientLeaves
<1>3. ASSUME NEW c \in Conn, SpawnEmergency(c) PROVE Processes'
  BY <1>3 DEF SpawnEmergency
<1>4. ASSUME NEW c \in Conn, ConnSendEnd(c) PROVE Processes'
  BY <1>4 DEF ConnSendEnd, SendEnd, SendEndFails
<1>5. ASSUME NEW c \in Conn, FinishEnd(c) PROVE Processes'
  <2>1. sigTcp' \subseteq Tcp /\ told' # {} /\ UNCHANGED <<told, presses>>
    BY <1>5 DEF FinishEnd, TcpAlive
  <2>2. TypeOK'
    <3>1. conn' \in [Conn -> ConnPC]
      BY <1>5 DEF FinishEnd
    <3>2. msgq' \in BOOLEAN
      BY <1>5, Zenon DEF FinishEnd
    <3>3. UNCHANGED <<main, tcp, held, others, drain, emer, client, via, sigMain, sigConn, sigEmer>>
      BY <1>5 DEF FinishEnd
    <3> QED
      BY <2>1, <3>1, <3>2, <3>3
  <2>3. BeforeProcesses'
    BY <1>5, <2>1 DEF FinishEnd
  <2>4. (EndSentFirst /\ QueueRemovedAfterEnd)'
    BY <1>5, <2>1 DEF FinishEnd
  <2>5. SignalledByOwnEmergency'
    BY <1>5, <2>1 DEF FinishEnd
  <2> QED
    BY <2>2, <2>3, <2>4, <2>5
<1>6. ASSUME NEW c \in Conn, ConnSignal(c) PROVE Processes'
  BY <1>6 DEF ConnSignal
<1>7. ASSUME NEW c \in Conn, Arm(c) PROVE Processes'
  BY <1>7 DEF Arm
<1>8. ASSUME NEW c \in Conn, Record(c) PROVE Processes'
  BY <1>8 DEF Record
<1>9. ASSUME NEW c \in Conn, WritePipe(c) PROVE Processes'
  BY <1>9 DEF WritePipe
<1>10. ASSUME NEW c \in Conn, KillParent(c) PROVE Processes'
  BY <1>10 DEF KillParent, ConnAlive
<1>11. ASSUME NEW c \in Conn, EmerSignal(c) PROVE Processes'
  BY <1>11 DEF EmerSignal
<1>12. ASSUME NEW c \in Conn, EmerSendEnd(c) PROVE Processes'
  BY <1>12 DEF EmerSendEnd, SendEnd, SendEndFails
<1>13. ASSUME NEW c \in Conn, EmerFinishEnd(c) PROVE Processes'
  <2>1. /\ sigConn' \subseteq Conn /\ sigConn' \subseteq sigConn \cup {c}
        /\ told' # {} /\ UNCHANGED <<told, presses>>
    BY <1>13 DEF EmerFinishEnd, ConnAlive
  <2>2. TypeOK'
    <3>1. emer' \in [Conn -> EmerPC]
      BY <1>13 DEF EmerFinishEnd
    <3>2. msgq' \in BOOLEAN
      BY <1>13, Zenon DEF EmerFinishEnd
    <3>3. UNCHANGED <<main, tcp, held, others, drain, conn, client, via, sigMain, sigTcp, sigEmer>>
      BY <1>13 DEF EmerFinishEnd
    <3> QED
      BY <2>1, <3>1, <3>2, <3>3
  <2>3. BeforeProcesses'
    BY <1>13, <2>1 DEF EmerFinishEnd
  <2>4. (EndSentFirst /\ QueueRemovedAfterEnd)'
    BY <1>13, <2>1 DEF EmerFinishEnd
  <2>5. SignalledByOwnEmergency'
    BY <1>13, <2>1 DEF EmerFinishEnd
  <2> QED
    BY <2>2, <2>3, <2>4, <2>5
<1>14. ASSUME NEW c \in Conn, ServeFails(c) PROVE Processes'
  BY <1>14 DEF ServeFails
<1>15. ASSUME NEW c \in Conn, CloseCommand(c) PROVE Processes'
  BY <1>15 DEF CloseCommand
<1>16. ASSUME NEW l \in Tcp, NEW c \in Conn, Accept(l, c) PROVE Processes'
  BY <1>16 DEF Accept
<1>17. ASSUME NEW l \in Tcp, Fork(l) PROVE Processes'
  BY <1>17 DEF Fork
<1>18. ASSUME NEW l \in Tcp, CloseInParent(l) PROVE Processes'
  BY <1>18 DEF CloseInParent
<1>19. ASSUME NEW l \in Tcp, TcpSignal(l) PROVE Processes'
  BY <1>19 DEF TcpSignal, ListenerExits
<1>20. ASSUME NEW l \in Tcp, TcpSendEnd(l) PROVE Processes'
  BY <1>20 DEF TcpSendEnd, ListenerExits, SendEnd, SendEndFails
<1>21. ASSUME NEW l \in Tcp, TcpFinishEnd(l) PROVE Processes'
  <2>1. sigMain' \in BOOLEAN /\ told' # {} /\ UNCHANGED <<told, presses>>
    BY <1>21 DEF TcpFinishEnd, ListenerExits
  <2>2. TypeOK'
    <3>1. /\ tcp' \in [Tcp -> TcpPC] /\ held' \in [Tcp -> Conn \cup {None}]
          /\ client' \in [Conn -> {"idle", "connecting", "connected", "gone"}]
      BY <1>21 DEF TcpFinishEnd, ListenerExits
    <3>2. msgq' \in BOOLEAN
      BY <1>21, Zenon DEF TcpFinishEnd
    <3>3. UNCHANGED <<main, others, drain, conn, emer, via, sigTcp, sigConn, sigEmer>>
      BY <1>21 DEF TcpFinishEnd
    <3> QED
      BY <2>1, <3>1, <3>2, <3>3
  <2>3. BeforeProcesses'
    BY <1>21, <2>1 DEF TcpFinishEnd, ListenerExits
  <2>4. (EndSentFirst /\ QueueRemovedAfterEnd)'
    BY <1>21, <2>1 DEF TcpFinishEnd, ListenerExits
  <2>5. SignalledByOwnEmergency'
    BY <1>21, <2>1 DEF TcpFinishEnd, ListenerExits
  <2> QED
    BY <2>2, <2>3, <2>4, <2>5
<1>22. ASSUME NEW l \in Tcp, AcceptFails(l) PROVE Processes'
  BY <1>22 DEF AcceptFails, ListenerExits
<1>23. CASE QueueGone
  BY <1>23 DEF QueueGone
<1>24. CASE MainDone
  BY <1>24 DEF MainDone, ChildrenGone
<1>25. CASE MainSignal
  BY <1>25 DEF MainSignal
<1>26. ASSUME NEW p \in Other, OtherExits(p) PROVE Processes'
  BY <1>26 DEF OtherExits
<1>27. CASE Terminal
  BY <1>27 DEF Terminal, TcpAlive, ConnAlive, EmerAlive
<1>28. CASE UNCHANGED vars
  BY <1>28 DEF vars
<1> QED
  BY <1>1, <1>2, <1>3, <1>4, <1>5, <1>6, <1>7, <1>8, <1>9, <1>10, <1>11, <1>12, <1>13, <1>14, <1>15, <1>16, <1>17, <1>18, <1>19, <1>20, <1>21, <1>22, <1>23, <1>24, <1>25, <1>26, <1>27, <1>28
     DEF Next, ConnStep, EmerStep, TcpStep, OtherStep

\* Every step preserves who was signalled by whom.
LEMMA NextChain == Processes /\ Chain /\ [Next]_vars => Chain'
<1> USE DEF Chain, ListenerSignalledFromBelow, MainSignalledFromBelow, MainEndsFromBelow, ChildrenGone,
     terminal, clients, listeners, children, sigs
<1> SUFFICES ASSUME Processes, Chain, [Next]_vars PROVE Chain'
  OBVIOUS
<1>1. ASSUME NEW c \in Conn, NEW l \in Tcp, Connect(c, l) PROVE Chain'
  <2>1. \A k : EndedUnder(k) => EndedUnder(k)'
    BY <1>1, EndedUnderStays DEF Connect, Processes, TypeOK, BeforeProcesses
  <2> QED
    BY <1>1, <2>1 DEF Connect, Processes, TypeOK
<1>2. ASSUME NEW c \in Conn, ClientLeaves(c) PROVE Chain'
  <2>1. \A k : EndedUnder(k) => EndedUnder(k)'
    BY <1>2, EndedUnderStays DEF ClientLeaves, Processes, TypeOK, BeforeProcesses
  <2> QED
    BY <1>2, <2>1 DEF ClientLeaves, Processes, TypeOK
<1>3. ASSUME NEW c \in Conn, SpawnEmergency(c) PROVE Chain'
  <2>1. \A k : EndedUnder(k) => EndedUnder(k)'
    BY <1>3, EndedUnderStays DEF SpawnEmergency, Processes, TypeOK, BeforeProcesses
  <2> QED
    BY <1>3, <2>1 DEF SpawnEmergency, Processes, TypeOK
<1>4. ASSUME NEW c \in Conn, ConnSendEnd(c) PROVE Chain'
  <2>1. \A k : EndedUnder(k) => EndedUnder(k)'
    BY <1>4, EndedUnderStays DEF ConnSendEnd, SendEnd, SendEndFails, Processes, TypeOK, BeforeProcesses
  <2> QED
    BY <1>4, <2>1 DEF ConnSendEnd, SendEnd, SendEndFails, Processes, TypeOK
<1>5. ASSUME NEW c \in Conn, FinishEnd(c) PROVE Chain'
  <2>1. \A k : EndedUnder(k) => EndedUnder(k)'
    BY <1>5, EndedUnderStays DEF FinishEnd, TcpAlive, Processes, TypeOK, BeforeProcesses
  <2>2. /\ \A k : k = via[c] => EndedUnder(k)'
        /\ sigTcp' \subseteq sigTcp \cup {via[c]} /\ UNCHANGED <<main, tcp, others, drain, sigMain, presses>>
    BY <1>5 DEF FinishEnd, TcpAlive, EndedUnder, Processes, TypeOK, EndSentFirst
  <2> QED
    BY <2>1, <2>2
<1>6. ASSUME NEW c \in Conn, ConnSignal(c) PROVE Chain'
  <2>1. \A k : EndedUnder(k) => EndedUnder(k)'
    BY <1>6, EndedUnderStays DEF ConnSignal, Processes, TypeOK, BeforeProcesses
  <2> QED
    BY <1>6, <2>1 DEF ConnSignal, Processes, TypeOK
<1>7. ASSUME NEW c \in Conn, Arm(c) PROVE Chain'
  <2>1. \A k : EndedUnder(k) => EndedUnder(k)'
    BY <1>7, EndedUnderStays DEF Arm, Processes, TypeOK, BeforeProcesses
  <2> QED
    BY <1>7, <2>1 DEF Arm, Processes, TypeOK
<1>8. ASSUME NEW c \in Conn, Record(c) PROVE Chain'
  <2>1. \A k : EndedUnder(k) => EndedUnder(k)'
    BY <1>8, EndedUnderStays DEF Record, Processes, TypeOK, BeforeProcesses
  <2> QED
    BY <1>8, <2>1 DEF Record, Processes, TypeOK
<1>9. ASSUME NEW c \in Conn, WritePipe(c) PROVE Chain'
  <2>1. \A k : EndedUnder(k) => EndedUnder(k)'
    BY <1>9, EndedUnderStays DEF WritePipe, Processes, TypeOK, BeforeProcesses
  <2> QED
    BY <1>9, <2>1 DEF WritePipe, Processes, TypeOK
<1>10. ASSUME NEW c \in Conn, KillParent(c) PROVE Chain'
  <2>1. \A k : EndedUnder(k) => EndedUnder(k)'
    BY <1>10, EndedUnderStays DEF KillParent, ConnAlive, Processes, TypeOK, BeforeProcesses
  <2> QED
    BY <1>10, <2>1 DEF KillParent, ConnAlive, Processes, TypeOK
<1>11. ASSUME NEW c \in Conn, EmerSignal(c) PROVE Chain'
  <2>1. \A k : EndedUnder(k) => EndedUnder(k)'
    BY <1>11, EndedUnderStays DEF EmerSignal, Processes, TypeOK, BeforeProcesses
  <2> QED
    BY <1>11, <2>1 DEF EmerSignal, Processes, TypeOK
<1>12. ASSUME NEW c \in Conn, EmerSendEnd(c) PROVE Chain'
  <2>1. \A k : EndedUnder(k) => EndedUnder(k)'
    BY <1>12, EndedUnderStays DEF EmerSendEnd, SendEnd, SendEndFails, Processes, TypeOK, BeforeProcesses
  <2> QED
    BY <1>12, <2>1 DEF EmerSendEnd, SendEnd, SendEndFails, Processes, TypeOK
<1>13. ASSUME NEW c \in Conn, EmerFinishEnd(c) PROVE Chain'
  <2>1. \A k : EndedUnder(k) => EndedUnder(k)'
    BY <1>13, EndedUnderStays DEF EmerFinishEnd, ConnAlive, Processes, TypeOK, BeforeProcesses
  <2> QED
    BY <1>13, <2>1 DEF EmerFinishEnd, ConnAlive, Processes, TypeOK
<1>14. ASSUME NEW c \in Conn, ServeFails(c) PROVE Chain'
  <2>1. \A k : EndedUnder(k) => EndedUnder(k)'
    BY <1>14, EndedUnderStays DEF ServeFails, Processes, TypeOK, BeforeProcesses
  <2> QED
    BY <1>14, <2>1 DEF ServeFails, Processes, TypeOK
<1>15. ASSUME NEW c \in Conn, CloseCommand(c) PROVE Chain'
  <2>1. \A k : EndedUnder(k) => EndedUnder(k)'
    BY <1>15, EndedUnderStays DEF CloseCommand, Processes, TypeOK, BeforeProcesses
  <2> QED
    BY <1>15, <2>1 DEF CloseCommand, Processes, TypeOK
<1>16. ASSUME NEW l \in Tcp, NEW c \in Conn, Accept(l, c) PROVE Chain'
  <2>1. \A k : EndedUnder(k) => EndedUnder(k)'
    BY <1>16, EndedUnderStays DEF Accept, Processes, TypeOK, BeforeProcesses
  <2> QED
    BY <1>16, <2>1 DEF Accept, Processes, TypeOK
<1>17. ASSUME NEW l \in Tcp, Fork(l) PROVE Chain'
  <2>1. \A k : EndedUnder(k) => EndedUnder(k)'
    BY <1>17, EndedUnderStays DEF Fork, Processes, TypeOK, BeforeProcesses
  <2> QED
    BY <1>17, <2>1 DEF Fork, Processes, TypeOK
<1>18. ASSUME NEW l \in Tcp, CloseInParent(l) PROVE Chain'
  <2>1. \A k : EndedUnder(k) => EndedUnder(k)'
    BY <1>18, EndedUnderStays DEF CloseInParent, Processes, TypeOK, BeforeProcesses
  <2> QED
    BY <1>18, <2>1 DEF CloseInParent, Processes, TypeOK
<1>19. ASSUME NEW l \in Tcp, TcpSignal(l) PROVE Chain'
  <2>1. \A k : EndedUnder(k) => EndedUnder(k)'
    BY <1>19, EndedUnderStays DEF TcpSignal, ListenerExits, Processes, TypeOK, BeforeProcesses
  <2> QED
    BY <1>19, <2>1 DEF TcpSignal, ListenerExits, Processes, TypeOK
<1>20. ASSUME NEW l \in Tcp, TcpSendEnd(l) PROVE Chain'
  <2>1. \A k : EndedUnder(k) => EndedUnder(k)'
    BY <1>20, EndedUnderStays DEF TcpSendEnd, ListenerExits, SendEnd, SendEndFails, Processes, TypeOK, BeforeProcesses
  <2> QED
    BY <1>20, <2>1 DEF TcpSendEnd, ListenerExits, SendEnd, SendEndFails, Processes, TypeOK
<1>21. ASSUME NEW l \in Tcp, TcpFinishEnd(l) PROVE Chain'
  <2>1. \A k : EndedUnder(k) => EndedUnder(k)'
    BY <1>21, EndedUnderStays DEF TcpFinishEnd, ListenerExits, Processes, TypeOK, BeforeProcesses
  <2> QED
    BY <1>21, <2>1 DEF TcpFinishEnd, ListenerExits, Processes, TypeOK
<1>22. ASSUME NEW l \in Tcp, AcceptFails(l) PROVE Chain'
  <2>1. \A k : EndedUnder(k) => EndedUnder(k)'
    BY <1>22, EndedUnderStays DEF AcceptFails, ListenerExits, Processes, TypeOK, BeforeProcesses
  <2> QED
    BY <1>22, <2>1 DEF AcceptFails, ListenerExits, Processes, TypeOK
<1>23. CASE QueueGone
  <2>1. \A k : EndedUnder(k) => EndedUnder(k)'
    BY <1>23, EndedUnderStays DEF QueueGone, Processes, TypeOK, BeforeProcesses
  <2> QED
    BY <1>23, <2>1 DEF QueueGone, Processes, TypeOK
<1>24. CASE MainDone
  <2>1. \A k : EndedUnder(k) => EndedUnder(k)'
    BY <1>24, EndedUnderStays DEF MainDone, ChildrenGone, Processes, TypeOK, BeforeProcesses
  <2> QED
    BY <1>24, <2>1 DEF MainDone, ChildrenGone, Processes, TypeOK
<1>25. CASE MainSignal
  <2>1. \A k : EndedUnder(k) => EndedUnder(k)'
    BY <1>25, EndedUnderStays DEF MainSignal, Processes, TypeOK, BeforeProcesses
  <2> QED
    BY <1>25, <2>1 DEF MainSignal, Processes, TypeOK
<1>26. ASSUME NEW p \in Other, OtherExits(p) PROVE Chain'
  <2>1. \A k : EndedUnder(k) => EndedUnder(k)'
    BY <1>26, EndedUnderStays DEF OtherExits, Processes, TypeOK, BeforeProcesses
  <2> QED
    BY <1>26, <2>1 DEF OtherExits, Processes, TypeOK
<1>27. CASE Terminal
  <2>1. \A k : EndedUnder(k) => EndedUnder(k)'
    BY <1>27, EndedUnderStays DEF Terminal, TcpAlive, ConnAlive, EmerAlive, Processes, TypeOK, BeforeProcesses
  <2> QED
    BY <1>27, <2>1 DEF Terminal, TcpAlive, ConnAlive, EmerAlive, Processes, TypeOK
<1>28. CASE UNCHANGED vars
  <2>1. \A k : EndedUnder(k) => EndedUnder(k)'
    BY <1>28, EndedUnderStays DEF vars, Processes, TypeOK, BeforeProcesses
  <2> QED
    BY <1>28, <2>1 DEF vars, Processes, TypeOK
<1> QED
  BY <1>1, <1>2, <1>3, <1>4, <1>5, <1>6, <1>7, <1>8, <1>9, <1>10, <1>11, <1>12, <1>13, <1>14, <1>15, <1>16, <1>17, <1>18, <1>19, <1>20, <1>21, <1>22, <1>23, <1>24, <1>25, <1>26, <1>27, <1>28
     DEF Next, ConnStep, EmerStep, TcpStep, OtherStep

\* LInv holds in every state the server can reach.
THEOREM LifecycleInvariance == Spec => []LInv
<1>1. Init => LInv
  BY InitLInv
<1>2. LInv /\ [Next]_vars => LInv'
  BY NextProcesses, NextChain DEF LInv, Processes, Chain
<1> QED
  BY <1>1, <1>2, PTL DEF Spec

\* TypeOK: every process, pipe, signal and the queue keep to the states the
\* code can put them in, whatever the number of clients (server.c:3-709).
THEOREM LifecycleTypes == Spec => []TypeOK
<1>1. LInv => TypeOK
  BY DEF LInv
<1> QED
  BY <1>1, LifecycleInvariance, PTL

\* The message queue is removed only by an end_conn that has sent END to some
\* client, whichever process ran it.
THEOREM QueueSafe == Spec => []QueueRemovedAfterEnd
<1>1. LInv => QueueRemovedAfterEnd
  BY DEF LInv
<1> QED
  BY <1>1, LifecycleInvariance, PTL

\* Without the terminal, main exits before its last child only after one of
\* its listeners, and that one only after one of its connections, however
\* many of both there are.
THEOREM MainSafe == Spec => []MainEndsFromBelow
<1>1. LInv => MainEndsFromBelow
  BY DEF LInv
<1> QED
  BY <1>1, LifecycleInvariance, PTL

\* Without the terminal a connection gets no signal but the one of its own
\* emergency process, however many clients there are.
THEOREM ConnectionsApart == Spec => []SignalledByOwnEmergency
<1>1. LInv => SignalledByOwnEmergency
  BY DEF LInv
<1> QED
  BY <1>1, LifecycleInvariance, PTL
=============================================================================
