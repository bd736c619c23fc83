------------------------- MODULE ClientSessionProofs -------------------------
(***************************************************************************)
(* Updates are applied at most once and in order, however many requests,   *)
(* signals, losses and failures there are, over either transport.  The     *)
(* argument never looks at what the client receives.                       *)
(*                                                                         *)
(* What the client shows lags behind what it asked by no more than the     *)
(* waits it abandoned.  That argument follows the replies through the      *)
(* stream, whose messages a recv may join or tear.                         *)
(***************************************************************************)
EXTENDS ClientSession, TLAPS, SequenceTheorems, FiniteSetTheorems

LEMMA SeqElement ==
  ASSUME NEW S, NEW s \in Seq(S), NEW i \in 1..Len(s)
  PROVE  s[i] \in S
OBVIOUS

\* What Append gives, position by position.
LEMMA Appended ==
  ASSUME NEW S, NEW s \in Seq(S), NEW x \in S
  PROVE  /\ Append(s, x) \in Seq(S)
         /\ Len(Append(s, x)) = Len(s) + 1
         /\ \A i \in 1..Len(s) : Append(s, x)[i] = s[i]
         /\ Append(s, x)[Len(s) + 1] = x
OBVIOUS

\* What Tail gives, position by position.
LEMMA Tailed ==
  ASSUME NEW S, NEW s \in Seq(S), s # <<>>
  PROVE  /\ Tail(s) \in Seq(S)
         /\ Len(Tail(s)) = Len(s) - 1
         /\ \A i \in 1..Len(Tail(s)) : i + 1 \in 1..Len(s) /\ Tail(s)[i] = s[i + 1]
         /\ 1 \in 1..Len(s) /\ Head(s) = s[1]
OBVIOUS

\* A sequence without its last element.
LEMMA Shortened ==
  ASSUME NEW S, NEW s \in Seq(S), s # <<>>
  PROVE  LET t == SubSeq(s, 1, Len(s) - 1) IN
         /\ t \in Seq(S)
         /\ Len(t) = Len(s) - 1
         /\ \A i \in 1..Len(t) : i \in 1..Len(s) /\ t[i] = s[i]
<1>1. Len(s) \in Nat \ {0} BY EmptySeq
<1> DEFINE n == Len(s) - 1
<1>2. n \in Nat /\ n < Len(s) BY <1>1
<1>3. \A i \in 1..n : i \in 1..Len(s) /\ s[i] \in S BY <1>1, <1>2
<1> HIDE DEF n
<1>4. /\ SubSeq(s, 1, n) \in Seq(S)
      /\ Len(SubSeq(s, 1, n)) = IF 1 <= n THEN n - 1 + 1 ELSE 0
      /\ \A i \in 1..(n - 1 + 1) : SubSeq(s, 1, n)[i] = s[1 + i - 1]
  BY <1>2, <1>3, SubSeqProperties
<1>5. Len(SubSeq(s, 1, n)) = n BY <1>2, <1>4
<1>6. \A i \in 1..n : SubSeq(s, 1, n)[i] = s[i] BY <1>2, <1>4
<1>7. QED BY <1>3, <1>4, <1>5, <1>6 DEF n

\* Steps that touch neither queue nor history.
LEMMA QuietSteps ==
  ASSUME CInv, UNCHANGED <<toServer, applied>>, sent' \in Nat, Buffered', asked <= asked',
         pc' = "send" /\ request' # 0 =>
           \/ pc = "send" /\ request' = request
           \/ asked < request'
  PROVE  CInv'
<1>0. \A i \in 1..Len(toServer) : toServer[i].update \in Nat
  <2>1. toServer \in Seq([n : Nat, update : Nat]) BY DEF CInv, InFlight
  <2>2. \A i \in 1..Len(toServer) : toServer[i] \in [n : Nat, update : Nat] BY <2>1, SeqElement
  <2>3. QED BY <2>2
<1>1. InFlight'
  BY <1>0, SMTT(30) DEF CInv, InFlight, Buffered
<1>2. Applied'
  BY SeqElement, SMTT(30) DEF CInv, Applied, Buffered
<1>3. UpdatesOnceInOrder'
  BY DEF CInv, UpdatesOnceInOrder
<1>4. QED BY <1>1, <1>2, <1>3 DEF CInv

\* The client's own moves, signals included, other than sending.
LEMMA ClientMoves ==
  ASSUME CInv,
         \/ Connect \/ MainLoop \/ ChooseStatus \/ ChooseUpdate \/ Leave
         \/ Recv \/ Check \/ Sigint \/ Sigterm \/ StackOverflow
  PROVE  CInv'
<1> USE DEF CInv, Buffered
<1>1. CASE Connect BY <1>1, QuietSteps DEF Connect, serverVars
<1>2. CASE MainLoop BY <1>2, QuietSteps DEF MainLoop, serverVars
<1>3. CASE ChooseStatus BY <1>3, QuietSteps DEF ChooseStatus, serverVars
<1>4. CASE ChooseUpdate BY <1>4, QuietSteps DEF ChooseUpdate, serverVars
<1>5. CASE Leave BY <1>5, QuietSteps DEF Leave, serverVars
<1>6. CASE Recv BY <1>6, QuietSteps DEF Recv, serverVars
<1>7. CASE Check
  <2>1. /\ pc = "check"
        /\ pc' \in {"exit"} \/ (pc' = "loop" /\ flag_get_supply = 0)
             \/ (pc' = "send" /\ flag_get_supply = 1)
        /\ UNCHANGED <<flag_get_supply, skip_option, request, asked, sent, toServer, applied>>
    BY <1>7 DEF Check, serverVars
  <2>2. Buffered' BY <2>1
  <2>3. QED BY <2>1, <2>2, QuietSteps
<1>8. CASE Sigint BY <1>8, QuietSteps DEF Sigint, Interrupted, serverVars
<1>9. CASE Sigterm BY <1>9, QuietSteps DEF Sigterm, Interrupted, serverVars
<1>10. CASE StackOverflow BY <1>10, QuietSteps DEF StackOverflow, serverVars
<1>11. QED BY <1>1, <1>2, <1>3, <1>4, <1>5, <1>6, <1>7, <1>8, <1>9, <1>10

\* Sending puts an update behind older ones, and leaves pc # "send".
LEMMA Sending ==
  ASSUME CInv, send_message_to_server
  PROVE  CInv'
<1>1. /\ pc = "send" /\ pc' \in {"exit", "recv"} /\ sent' = sent + 1
      /\ UNCHANGED <<flag_get_supply, skip_option, request, asked, applied>>
      /\ \/ toServer' = toServer
         \/ toServer' = Append(toServer, [n |-> sent + 1, update |-> request])
  BY DEF send_message_to_server
<1>2. Buffered' /\ sent' \in Nat BY <1>1 DEF CInv, Buffered
<1>3. UpdatesOnceInOrder' BY <1>1 DEF CInv, UpdatesOnceInOrder
<1>4. CASE toServer' = toServer
  <2>1. asked <= asked' BY <1>1 DEF CInv, Buffered
  <2>2. QED BY <1>1, <1>2, <1>4, <2>1, QuietSteps
<1>5. CASE toServer' = Append(toServer, [n |-> sent + 1, update |-> request])
  <2> DEFINE r == [n |-> sent + 1, update |-> request]
  <2>1. /\ r \in [n : Nat, update : Nat] /\ r.update = request
        /\ toServer \in Seq([n : Nat, update : Nat])
    BY DEF CInv, Buffered, InFlight
  <2>2. /\ toServer' \in Seq([n : Nat, update : Nat])
        /\ Len(toServer') = Len(toServer) + 1
        /\ \A i \in 1..Len(toServer) : toServer'[i] = toServer[i]
        /\ toServer'[Len(toServer) + 1] = r
    <3> HIDE DEF r
    <3>1. toServer' = Append(toServer, r) BY <1>5 DEF r
    <3>2. QED BY <2>1, <3>1, Appended
  <2>3. \A i \in 1..Len(toServer) : toServer[i] \in [n : Nat, update : Nat]
    BY <2>1, SeqElement
  <2>4. \A i \in 1..Len(toServer') :
          (i \in 1..Len(toServer) /\ toServer'[i] = toServer[i]) \/ (i = Len(toServer) + 1 /\ toServer'[i] = r)
    <3> HIDE DEF r
    <3>1. Len(toServer) \in Nat BY <2>1
    <3>2. QED BY <2>2, <3>1
  <2> HIDE DEF r
  <2>5. InFlight'
    <3>1. \A i \in 1..Len(toServer) : toServer[i].update \in Nat BY <2>3
    <3>2. Len(toServer) \in Nat /\ request \in Nat BY <2>1 DEF CInv, Buffered
    <3>3. ASSUME NEW i \in 1..Len(toServer'), NEW j \in 1..Len(toServer'),
                 i < j, toServer'[j].update # 0
          PROVE  toServer'[i].update < toServer'[j].update
      <4>1. i \in 1..Len(toServer) /\ toServer'[i] = toServer[i]
        <5>1. i \in 1..Len(toServer)
          <6>1. Len(toServer') = Len(toServer) + 1 BY <2>2
          <6>2. QED BY <3>2, <3>3, <6>1
        <5>2. QED BY <2>2, <5>1
      <4>2. CASE j = Len(toServer) + 1 /\ toServer'[j] = r
        BY <1>1, <2>1, <3>3, <4>1, <4>2 DEF CInv, InFlight
      <4>3. CASE j \in 1..Len(toServer) /\ toServer'[j] = toServer[j]
        BY <3>3, <4>1, <4>3 DEF CInv, InFlight
      <4>4. QED BY <2>4, <4>2, <4>3
    <3>4. \A i \in 1..Len(toServer') : toServer'[i].update <= asked'
      BY <1>1, <2>1, <2>4 DEF CInv, InFlight, Buffered
    <3>5. QED BY <1>1, <2>2, <3>3, <3>4 DEF InFlight
  <2>6. Applied'
    BY <1>1, <2>1, <2>2, <2>3, <2>4 DEF CInv, Applied, Buffered
  <2>7. QED BY <1>2, <1>3, <2>5, <2>6 DEF CInv
<1>6. QED BY <1>1, <1>4, <1>5

\* A request leaves the queue, answered or not, applied or not.
LEMMA Serving ==
  ASSUME CInv, toServer # <<>>,
         UNCHANGED <<clientVars, sent, asked>>,
         \/ toServer' = Tail(toServer)
         \/ toServer' = <<>>,
         \/ applied' = applied
         \/ /\ Head(toServer).update # 0
            /\ applied' = Append(applied, Head(toServer).update)
  PROVE  CInv'
<1> DEFINE u == Head(toServer).update
<1>1. toServer \in Seq([n : Nat, update : Nat]) /\ applied \in Seq(Nat)
  BY DEF CInv, InFlight, Applied
<1>2. /\ toServer' \in Seq([n : Nat, update : Nat])
      /\ \A i \in 1..Len(toServer') : i + 1 \in 1..Len(toServer) /\ toServer'[i] = toServer[i + 1]
      /\ 1 \in 1..Len(toServer) /\ Head(toServer) = toServer[1]
  <2>1. CASE toServer' = Tail(toServer) BY <1>1, <2>1, Tailed
  <2>2. CASE toServer' = <<>> BY <1>1, <2>2, Tailed
  <2>3. QED BY <2>1, <2>2
<1>3. /\ \A i \in 1..Len(toServer) : toServer[i].update \in Nat
      /\ \A i \in 1..Len(applied) : applied[i] \in Nat
      /\ u \in Nat /\ u <= asked /\ asked \in Nat
  <2>1. \A i \in 1..Len(toServer) : toServer[i] \in [n : Nat, update : Nat]
    BY <1>1, SeqElement
  <2>2. \A i \in 1..Len(applied) : applied[i] \in Nat
    BY <1>1, SeqElement
  <2>3. \A i \in 1..Len(toServer) : toServer[i].update \in Nat BY <2>1
  <2>4. u = toServer[1].update BY <1>2
  <2>5. QED BY <1>2, <2>2, <2>3, <2>4 DEF CInv, InFlight, Buffered
<1>4. Len(toServer') \in Nat /\ Len(toServer) \in Nat /\ Len(applied) \in Nat
  BY <1>1, <1>2
<1>5. Buffered' /\ sent' \in Nat BY DEF CInv, Buffered, clientVars
<1>6. InFlight'
  <2>1. ASSUME NEW i \in 1..Len(toServer'), NEW j \in 1..Len(toServer'),
               i < j, toServer'[j].update # 0
        PROVE  toServer'[i].update < toServer'[j].update
    <3>1. i + 1 < j + 1 BY <1>4, <2>1
    <3>2. QED BY <1>2, <2>1, <3>1 DEF CInv, InFlight
  <2>2. \A i \in 1..Len(toServer') : toServer'[i].update <= asked' BY <1>2 DEF CInv, InFlight
  <2>3. pc' = "send" /\ request' # 0 => \A i \in 1..Len(toServer') : toServer'[i].update < request'
    BY <1>2 DEF CInv, InFlight, clientVars
  <2>4. QED BY <1>2, <2>1, <2>2, <2>3 DEF InFlight
<1>7. Applied' /\ UpdatesOnceInOrder'
  <2>1. CASE applied' = applied
    BY <1>2, <1>3, <1>4, <2>1 DEF CInv, Applied, UpdatesOnceInOrder, clientVars
  <2>2. CASE u # 0 /\ applied' = Append(applied, u)
    <3>1. /\ applied' \in Seq(Nat) /\ Len(applied') = Len(applied) + 1
          /\ \A i \in 1..Len(applied) : applied'[i] = applied[i]
          /\ applied'[Len(applied) + 1] = u
      <4> HIDE DEF u
      <4>1. QED BY <1>1, <1>3, <2>2, Appended
    <3>2. \A i \in 1..Len(applied') :
            (i \in 1..Len(applied) /\ applied'[i] = applied[i]) \/ (i = Len(applied) + 1 /\ applied'[i] = u)
      BY <1>4, <3>1
    <3>3. \A i \in 1..Len(applied) : applied[i] < u
      BY <1>2, <2>2 DEF CInv, Applied
    <3>4. \A j \in 1..Len(toServer') : toServer'[j].update # 0 => u < toServer'[j].update
      <4>1. SUFFICES ASSUME NEW j \in 1..Len(toServer'), toServer'[j].update # 0
                     PROVE  u < toServer'[j].update
        OBVIOUS
      <4>2. 1 < j + 1 /\ u = toServer[1].update BY <1>2, <1>4
      <4>3. QED BY <1>2, <4>1, <4>2 DEF CInv, InFlight
    <3>5. pc' = "send" /\ request' # 0 => u < request'
      BY <1>2 DEF CInv, InFlight, clientVars
    <3>6. \A i \in 1..Len(applied) : applied[i] <= asked /\ asked' = asked
      BY DEF CInv, Applied
    <3>7. /\ \A i \in 1..Len(applied), j \in 1..Len(toServer') :
                toServer'[j].update # 0 => applied[i] < toServer'[j].update
          /\ pc' = "send" /\ request' # 0 => \A i \in 1..Len(applied) : applied[i] < request'
      BY <1>2 DEF CInv, Applied, clientVars
    <3> HIDE DEF u
    <3>8. Applied' BY <1>3, <3>1, <3>2, <3>4, <3>5, <3>6, <3>7 DEF Applied
    <3>9. UpdatesOnceInOrder'
      <4>1. SUFFICES ASSUME NEW i \in 1..Len(applied'), NEW j \in 1..Len(applied'), i < j
                     PROVE  applied'[i] < applied'[j]
        BY DEF UpdatesOnceInOrder
      <4>2. i \in 1..Len(applied) /\ applied'[i] = applied[i]
        <5>1. i \in 1..Len(applied) BY <1>4, <3>1, <4>1
        <5>2. QED BY <3>1, <5>1
      <4>3. CASE j \in 1..Len(applied)
        BY <3>1, <4>1, <4>2, <4>3 DEF CInv, UpdatesOnceInOrder
      <4>4. CASE j = Len(applied) + 1 BY <3>1, <3>3, <4>2, <4>4
      <4>5. QED BY <3>2, <4>3, <4>4
    <3>10. QED BY <3>8, <3>9
  <2>3. QED BY <2>1, <2>2
<1>8. QED BY <1>5, <1>6, <1>7 DEF CInv

\* Requests lost at the end of the queue, or all of them with their server.
LEMMA Losing ==
  ASSUME CInv, UNCHANGED <<clientVars, applied, sent, asked>>,
         \/ toServer' = toServer
         \/ toServer' = <<>>
         \/ toServer # <<>> /\ toServer' = SubSeq(toServer, 1, Len(toServer) - 1)
  PROVE  CInv'
<1>1. toServer \in Seq([n : Nat, update : Nat])
  BY DEF CInv, InFlight
<1>2. /\ toServer' \in Seq([n : Nat, update : Nat])
      /\ \A i \in 1..Len(toServer') : i \in 1..Len(toServer) /\ toServer'[i] = toServer[i]
  <2>1. CASE toServer' = toServer BY <1>1, <2>1
  <2>2. CASE toServer' = <<>> BY <2>2
  <2>3. CASE toServer # <<>> /\ toServer' = SubSeq(toServer, 1, Len(toServer) - 1)
    BY <1>1, <2>3, Shortened
  <2>4. QED BY <2>1, <2>2, <2>3
<1>3. Buffered' /\ sent' \in Nat BY DEF CInv, Buffered, clientVars
<1>4. InFlight' BY <1>2 DEF CInv, InFlight, clientVars
<1>5. Applied' BY <1>2 DEF CInv, Applied, clientVars
<1>6. UpdatesOnceInOrder' BY DEF CInv, UpdatesOnceInOrder
<1>7. QED BY <1>3, <1>4, <1>5, <1>6 DEF CInv

LEMMA CInit == Init => CInv
BY DEF Init, CInv, Buffered, InFlight, Applied, UpdatesOnceInOrder

\* CInv is inductive: one case per action.
LEMMA CNext == CInv /\ [Next]_vars => CInv'
<1> SUFFICES ASSUME CInv, [Next]_vars PROVE CInv'
  OBVIOUS
<1>1. CASE \/ Connect \/ MainLoop \/ ChooseStatus \/ ChooseUpdate \/ Leave
           \/ Recv \/ Check \/ Sigint \/ Sigterm \/ StackOverflow
  BY <1>1, ClientMoves
<1>2. CASE send_message_to_server BY <1>2, Sending
<1>3. CASE Serve BY <1>3, Serving DEF Serve
<1>4. CASE ServeFails BY <1>4, Serving DEF ServeFails
<1>5. CASE EndConn BY <1>5, Losing DEF EndConn
<1>6. CASE Close BY <1>6, Losing DEF Close
<1>7. CASE Lose BY <1>7, Losing DEF Lose, serverVars
<1>8. CASE UNCHANGED vars BY <1>8, Losing DEF vars, serverVars
<1>9. QED
  BY <1>1, <1>2, <1>3, <1>4, <1>5, <1>6, <1>7, <1>8 DEF Next, ClientStep, ServerStep

\* CInv holds in every state of a client session: the buffer is only sent
\* again with a status request in it, and updates stay in order on their way.
THEOREM SessionInvariance == Spec => []CInv
<1>1. CInv /\ [Next]_vars => CInv' BY CNext
<1>2. QED BY <1>1, CInit, PTL DEF Spec

\* UpdatesOnceInOrder: an update the user chose once is never applied twice,
\* nor after a later one (client.c:124-130, server.c:347).
THEOREM UpdatesSafe == Spec => []UpdatesOnceInOrder
<1>1. CInv => UpdatesOnceInOrder BY DEF CInv
<1>2. QED BY <1>1, SessionInvariance, PTL

-----------------------------------------------------------------------------
(***************************************************************************)
(* The lag of what the client shows.                                       *)
(***************************************************************************)

\* A set of positions that has all positions before each of its own is an
\* initial segment.
LEMMA Segment ==
  ASSUME NEW m \in Nat, NEW D, D \subseteq 1..m,
         \A i \in D : \A j \in 1..i : j \in D
  PROVE  Cardinality(D) \in 0..m /\ D = 1..Cardinality(D)
<1> DEFINE k == Cardinality(D)
<1>1. IsFiniteSet(1..m) /\ Cardinality(1..m) = m BY FS_Interval
<1>2. IsFiniteSet(D) /\ k <= m
  <2>1. D \in SUBSET (1..m) OBVIOUS
  <2>2. IsFiniteSet(D) /\ Cardinality(D) <= Cardinality(1..m) BY <1>1, <2>1, FS_Subset
  <2>3. QED BY <1>1, <2>2
<1>3. k \in Nat BY <1>2, FS_CardinalityType
<1> HIDE DEF k
<1>4. \A i \in D : i <= k
  <2>1. SUFFICES ASSUME NEW i \in D PROVE i <= k
    OBVIOUS
  <2>2. i \in Nat /\ 1..i \subseteq D BY <2>1
  <2>3. Cardinality(1..i) = i BY <2>2, FS_Interval
  <2>4. Cardinality(1..i) <= k BY <1>2, <2>2, FS_Subset DEF k
  <2>5. QED BY <2>3, <2>4
<1>5. ASSUME k # 0 PROVE k \in D
  <2>1. SUFFICES ASSUME k \notin D PROVE FALSE
    OBVIOUS
  <2>2. D \subseteq 1..(k - 1) BY <1>3, <1>4, <2>1
  <2>3. IsFiniteSet(1..(k - 1)) /\ Cardinality(1..(k - 1)) = k - 1 BY <1>3, <1>5, FS_Interval
  <2>4. Cardinality(D) <= k - 1 BY <2>2, <2>3, FS_Subset
  <2>5. QED BY <1>3, <2>4 DEF k
<1>6. 1..k \subseteq D
  <2>1. CASE k = 0 BY <2>1
  <2>2. CASE k # 0 BY <1>5, <2>2
  <2>3. QED BY <2>1, <2>2
<1>7. D \subseteq 1..k BY <1>3, <1>4
<1>8. D = 1..k BY <1>6, <1>7
<1>9. k \in 0..m BY <1>2, <1>3
<1>10. QED BY <1>8, <1>9 DEF k

LEMMA Lengths == BUFFER_SIZE \in Nat /\ \A kind \in Kind : MsgLen[kind] \in Nat \ {0}
BY LengthsType

\* Ends of messages are positive and increase along a stream.
LEMMA Ends ==
  ASSUME NEW s \in Seq(Message), IsStream(s)
  PROVE  /\ Len(s) \in Nat
         /\ \A j \in 1..Len(s) : /\ s[j] \in Message
                                 /\ s[j].end \in Nat \ {0} /\ MsgLen[s[j].kind] \in Nat \ {0}
                                 /\ \A i \in 1..(j - 1) : i \in 1..Len(s) /\ s[i].end < s[j].end
<1>1. Len(s) \in Nat OBVIOUS
<1>2. SUFFICES ASSUME NEW j \in 1..Len(s)
               PROVE  /\ s[j] \in Message
                      /\ s[j].end \in Nat \ {0} /\ MsgLen[s[j].kind] \in Nat \ {0}
                      /\ \A i \in 1..(j - 1) : i \in 1..Len(s) /\ s[i].end < s[j].end
  BY <1>1
<1>3. \A i \in 1..Len(s) : s[i] \in Message BY SeqElement
<1>4. \A i \in 1..Len(s) : s[i].end \in Nat \ {0} /\ s[i].kind \in Kind BY <1>3 DEF Message
<1>5. MsgLen[s[j].kind] \in Nat \ {0} BY <1>4, Lengths
<1>6. ASSUME NEW i \in 1..(j - 1) PROVE i \in 1..Len(s) /\ s[i].end < s[j].end
  <2>1. i \in 1..Len(s) BY <1>1
  <2>2. s[i].end + MsgLen[s[j].kind] <= s[j].end BY DEF IsStream
  <2>3. s[i].end \in Nat /\ s[j].end \in Nat BY <1>4, <2>1
  <2>4. QED BY <1>5, <2>1, <2>2, <2>3
<1>7. QED BY <1>3, <1>4, <1>5, <1>6

\* Drop leaves a stream, and takes at least the first message when its end is
\* taken.
LEMMA Dropped ==
  ASSUME NEW s \in Seq(Message), IsStream(s), s # <<>>, NEW n \in Nat
  PROVE  LET t == Drop(s, n) IN
         /\ t \in Seq(Message) /\ IsStream(t)
         /\ \E k \in 0..Len(s) :
              /\ s[1].end <= n => k # 0
              /\ Len(t) = Len(s) - k
              /\ \A i \in 1..Len(t) : /\ k + i \in 1..Len(s)
                                      /\ t[i].kind = s[k + i].kind /\ t[i].n = s[k + i].n
<1> DEFINE D == {i \in 1..Len(s) : s[i].end <= n}
           k == Cardinality(D)
           t == [i \in 1..(Len(s) - k) |-> [s[k + i] EXCEPT !.end = @ - n]]
<1>1. /\ Len(s) \in Nat
      /\ \A j \in 1..Len(s) : /\ s[j] \in Message
                              /\ s[j].end \in Nat \ {0} /\ MsgLen[s[j].kind] \in Nat \ {0}
                              /\ \A i \in 1..(j - 1) : i \in 1..Len(s) /\ s[i].end < s[j].end
  BY Ends
<1>2. Len(s) # 0 BY EmptySeq
<1>3. \A i \in D : \A j \in 1..i : j \in D
  <2>1. SUFFICES ASSUME NEW i \in D, NEW j \in 1..i PROVE s[j].end <= n /\ j \in 1..Len(s)
    OBVIOUS
  <2>2. i \in 1..Len(s) /\ s[i].end <= n /\ j \in 1..Len(s) BY <1>1
  <2>3. CASE j = i BY <2>2, <2>3
  <2>4. CASE j # i
    <3>1. j \in 1..(i - 1) BY <2>2, <2>4
    <3>2. s[j].end < s[i].end BY <1>1, <2>2, <3>1
    <3>3. s[j].end \in Nat /\ s[i].end \in Nat BY <1>1, <2>2
    <3>4. QED BY <2>2, <3>2, <3>3
  <2>5. QED BY <2>3, <2>4
<1>4. k \in 0..Len(s) /\ D = 1..k
  <2>1. D \subseteq 1..Len(s) OBVIOUS
  <2> HIDE DEF D
  <2>2. QED BY <1>1, <1>3, <2>1, Segment
<1>5. s[1].end <= n => 1 \in D BY <1>1, <1>2
<1>6. k \in 0..Len(s) /\ (s[1].end <= n => k # 0) BY <1>4, <1>5
<1>7. Drop(s, n) = t BY DEF Drop
<1> HIDE DEF k
<1>8. /\ k # 0 => s[k].end <= n
      /\ \A i \in 1..(Len(s) - k) : k + i \in 1..Len(s) /\ s[k + i].end > n
  <2>1. k # 0 => k \in D BY <1>4, <1>6
  <2>2. \A i \in 1..(Len(s) - k) : k + i \in 1..Len(s) /\ k + i \notin D BY <1>1, <1>4, <1>6, SMTT(30)
  <2>3. \A i \in 1..(Len(s) - k) : s[k + i].end \in Nat BY <1>1, <2>2
  <2>4. ASSUME NEW i \in 1..(Len(s) - k) PROVE s[k + i].end > n
    <3>1. k + i \in 1..Len(s) /\ k + i \notin D /\ s[k + i].end \in Nat BY <2>2, <2>3
    <3>2. ~(s[k + i].end <= n) BY <3>1
    <3>3. QED BY <3>1, <3>2
  <2>5. QED BY <2>1, <2>2, <2>4
<1>9. \A i \in 1..(Len(s) - k) :
        /\ t[i] \in Message
        /\ t[i].kind = s[k + i].kind /\ t[i].n = s[k + i].n /\ t[i].end = s[k + i].end - n
  <2>1. SUFFICES ASSUME NEW i \in 1..(Len(s) - k)
                 PROVE  /\ t[i] \in Message
                        /\ t[i].kind = s[k + i].kind /\ t[i].n = s[k + i].n
                        /\ t[i].end = s[k + i].end - n
    OBVIOUS
  <2> DEFINE x == s[k + i]
  <2>2. x \in Message /\ x.end > n BY <1>1, <1>8
  <2>3. t[i] = [x EXCEPT !.end = @ - n] OBVIOUS
  <2> HIDE DEF x, t
  <2>4. x.end - n \in Nat \ {0} BY <2>2 DEF Message
  <2>5. t[i] = [kind |-> x.kind, n |-> x.n, end |-> x.end - n] BY <2>2, <2>3 DEF Message
  <2>6. QED BY <2>2, <2>4, <2>5 DEF Message, x
<1>10. Len(s) - k \in Nat BY <1>1, <1>6
<1>11. t \in Seq(Message) /\ Len(t) = Len(s) - k
  <2> DEFINE m == Len(s) - k
  <2>1. t = [i \in 1..m |-> t[i]] OBVIOUS
  <2>2. \A i \in 1..m : t[i] \in Message BY <1>9
  <2>3. m \in Nat BY <1>10
  <2>4. DOMAIN t = 1..m OBVIOUS
  <2> HIDE DEF m, t
  <2>5. t \in [1..m -> Message] BY <2>1, <2>2
  <2>6. QED BY <2>3, <2>4, <2>5 DEF m
<1> HIDE DEF t
<1>12. IsStream(t)
  <2>1. SUFFICES ASSUME NEW j \in 1..Len(t)
                 PROVE  /\ j = 1 => t[j].end <= MsgLen[t[j].kind]
                        /\ \A i \in 1..(j - 1) :
                             /\ t[i].end + MsgLen[t[j].kind] <= t[j].end
                             /\ i + 1 = j => t[i].end + MsgLen[t[j].kind] = t[j].end
    BY DEF IsStream
  <2>2. /\ j \in 1..(Len(s) - k) /\ k + j \in 1..Len(s)
        /\ t[j].kind = s[k + j].kind /\ t[j].end = s[k + j].end - n
        /\ s[k + j].end \in Nat /\ MsgLen[s[k + j].kind] \in Nat
    BY <1>1, <1>8, <1>9, <1>11
  <2>3. ASSUME j = 1 PROVE t[j].end <= MsgLen[t[j].kind]
    <3>1. CASE k = 0
      <4>1. k + j = 1 BY <2>3, <3>1
      <4>2. s[1].end <= MsgLen[s[1].kind] BY <2>2, <4>1 DEF IsStream
      <4> DEFINE y == s[k + j].end
                 l == MsgLen[s[k + j].kind]
      <4>3. y \in Nat /\ l \in Nat /\ y <= l /\ t[j].end = y - n /\ MsgLen[t[j].kind] = l
        BY <2>2, <4>1, <4>2
      <4> HIDE DEF y, l
      <4>4. QED BY <4>3
    <3>2. CASE k # 0
      <4>1. k \in 1..Len(s) /\ k \in 1..(k + j - 1) /\ k + 1 = k + j BY <1>6, <2>3, <3>2
      <4>2. s[k].end + MsgLen[s[k + j].kind] = s[k + j].end
        <5> DEFINE b == k + j
        <5>1. b \in 1..Len(s) /\ k \in 1..(b - 1) /\ k + 1 = b BY <2>2, <4>1
        <5> HIDE DEF b
        <5>2. s[k].end + MsgLen[s[b].kind] = s[b].end BY <5>1 DEF IsStream
        <5>3. QED BY <5>2 DEF b
      <4>3. s[k].end <= n /\ s[k].end \in Nat BY <1>1, <1>8, <3>2, <4>1
      <4> DEFINE x == s[k].end
                 y == s[k + j].end
                 l == MsgLen[s[k + j].kind]
      <4>4. x \in Nat /\ x <= n /\ y \in Nat /\ l \in Nat /\ x + l = y
            /\ t[j].end = y - n /\ MsgLen[t[j].kind] = l
        BY <2>2, <4>2, <4>3
      <4> HIDE DEF x, y, l
      <4>5. y - n <= l BY <4>4
      <4>6. QED BY <4>4, <4>5
    <3>3. QED BY <3>1, <3>2
  <2>4. ASSUME NEW i \in 1..(j - 1)
        PROVE  /\ t[i].end + MsgLen[t[j].kind] <= t[j].end
               /\ i + 1 = j => t[i].end + MsgLen[t[j].kind] = t[j].end
    <3>1. i \in 1..(Len(s) - k) /\ k + i \in 1..(k + j - 1)
      <4>1. Len(s) - k \in Nat /\ k \in Nat /\ j \in 1..(Len(s) - k) BY <1>6, <1>10, <2>2
      <4>2. QED BY <4>1
    <3>2. t[i].end = s[k + i].end - n /\ s[k + i].end \in Nat BY <1>1, <1>8, <1>9, <3>1
    <3>3. /\ s[k + i].end + MsgLen[s[k + j].kind] <= s[k + j].end
          /\ i + 1 = j => s[k + i].end + MsgLen[s[k + j].kind] = s[k + j].end
      <4> DEFINE a == k + i
                 b == k + j
      <4>0. Len(s) \in Nat BY <1>1
      <4> DEFINE m == Len(s) - k
      <4>a. m \in Nat /\ i \in 1..m /\ j \in 1..m BY <1>10, <2>2, <3>1
      <4> HIDE DEF m
      <4>1. i \in Nat /\ j \in Nat /\ k \in Nat /\ 1 <= i /\ i <= j - 1
        <5>1. i \in Nat /\ j \in Nat /\ 1 <= i BY <4>a
        <5>2. i <= j - 1 BY <5>1
        <5>3. k \in Nat BY <1>6, <4>0
        <5>4. QED BY <5>1, <5>2, <5>3
      <4>2. b \in 1..Len(s) BY <2>2
      <4>3. a \in 1..(b - 1) BY <4>1
      <4>4. i + 1 = j => a + 1 = b BY <4>1
      <4>5. /\ a \in 1..(b - 1) /\ b \in 1..Len(s)
            /\ i + 1 = j => a + 1 = b
        BY <4>2, <4>3, <4>4
      <4> HIDE DEF a, b
      <4>6. /\ s[a].end + MsgLen[s[b].kind] <= s[b].end
            /\ a + 1 = b => s[a].end + MsgLen[s[b].kind] = s[b].end
        BY <4>5 DEF IsStream
      <4>7. QED BY <4>5, <4>6 DEF a, b
    <3> DEFINE x == s[k + i].end
               y == s[k + j].end
               l == MsgLen[s[k + j].kind]
    <3>4. /\ x \in Nat /\ y \in Nat /\ l \in Nat
          /\ x + l <= y /\ (i + 1 = j => x + l = y)
          /\ t[i].end = x - n /\ t[j].end = y - n /\ MsgLen[t[j].kind] = l
      BY <2>2, <3>2, <3>3
    <3> HIDE DEF x, y, l
    <3>5. (x - n) + l <= y - n /\ (i + 1 = j => (x - n) + l = y - n) BY <3>4, SMTT(30)
    <3>6. QED BY <3>4, <3>5
  <2>5. QED BY <2>3, <2>4
<1>13. QED BY <1>6, <1>7, <1>8, <1>9, <1>11, <1>12


\* A message put behind a stream.
LEMMA Said ==
  ASSUME NEW s \in Seq(Message), IsStream(s), NEW kind \in Kind, NEW n \in 0..MaxSent
  PROVE  LET t == Say(s, kind, n) IN
         /\ t \in Seq(Message) /\ IsStream(t)
         /\ Len(t) = Len(s) + 1
         /\ \A i \in 1..Len(s) : t[i] = s[i]
         /\ t[Len(s) + 1].kind = kind /\ t[Len(s) + 1].n = n
<1> DEFINE x == [kind |-> kind, n |-> n, end |-> Waiting(s) + MsgLen[kind]]
           l == Len(s)
           t == Append(s, x)
<1>1. /\ l \in Nat
      /\ \A j \in 1..l : /\ s[j] \in Message /\ s[j].end \in Nat
                         /\ \A i \in 1..(j - 1) : s[i].end < s[j].end
  BY Ends
<1>2. MsgLen[kind] \in Nat \ {0} BY Lengths
<1>3. Waiting(s) \in Nat /\ (l = 0 => Waiting(s) = 0) /\ (l # 0 => Waiting(s) = s[l].end)
  <2>1. CASE l = 0 BY <2>1, EmptySeq DEF Waiting
  <2>2. CASE l # 0 BY <1>1, <2>2, EmptySeq DEF Waiting
  <2>3. QED BY <2>1, <2>2
<1>4. Waiting(s) + MsgLen[kind] \in Nat \ {0} BY <1>2, <1>3
<1>5. x \in Message BY <1>4 DEF Message
<1>6. x.kind = kind /\ x.n = n /\ x.end = Waiting(s) + MsgLen[kind] OBVIOUS
<1>7. t = Say(s, kind, n) BY DEF Say
<1> HIDE DEF x
<1>8. t \in Seq(Message) /\ Len(t) = l + 1 /\ (\A i \in 1..l : t[i] = s[i]) /\ t[l + 1] = x
  BY <1>5, Appended
<1> HIDE DEF t
<1>9. IsStream(t)
  <2>1. SUFFICES ASSUME NEW j \in 1..(l + 1)
                 PROVE  /\ j = 1 => t[j].end <= MsgLen[t[j].kind]
                        /\ \A i \in 1..(j - 1) :
                             /\ t[i].end + MsgLen[t[j].kind] <= t[j].end
                             /\ i + 1 = j => t[i].end + MsgLen[t[j].kind] = t[j].end
    BY <1>8 DEF IsStream
  <2>2. CASE j \in 1..l
    <3>1. t[j] = s[j] /\ \A i \in 1..(j - 1) : t[i] = s[i] BY <1>1, <1>8, <2>2
    <3>2. QED BY <2>2, <3>1 DEF IsStream
  <2>3. CASE j = l + 1
    <3>1. t[j].kind = kind /\ t[j].end = Waiting(s) + MsgLen[kind] BY <1>6, <1>8, <2>3
    <3>2. j = 1 => Waiting(s) = 0 BY <1>1, <1>3, <2>3
    <3>3. ASSUME NEW i \in 1..(j - 1)
          PROVE  t[i].end <= Waiting(s) /\ t[i].end \in Nat /\ (i + 1 = j => t[i].end = Waiting(s))
      <4>1. i \in 1..l /\ l # 0 /\ l \in 1..l BY <1>1, <2>3
      <4>2. t[i] = s[i] /\ s[i].end \in Nat /\ Waiting(s) = s[l].end BY <1>1, <1>3, <1>8, <4>1
      <4>3. CASE i = l BY <4>2, <4>3
      <4>4. CASE i # l
        <5>1. i \in 1..(l - 1) /\ i + 1 # j BY <1>1, <2>3, <4>1, <4>4
        <5>2. s[i].end < s[l].end /\ s[l].end \in Nat BY <1>1, <4>1, <5>1
        <5>3. QED BY <4>2, <5>1, <5>2
      <4>5. QED BY <4>3, <4>4
    <3>4. j = 1 => t[j].end <= MsgLen[t[j].kind] BY <1>2, <3>1, <3>2
    <3>5. \A i \in 1..(j - 1) :
             /\ t[i].end + MsgLen[t[j].kind] <= t[j].end
             /\ i + 1 = j => t[i].end + MsgLen[t[j].kind] = t[j].end
      BY <1>2, <1>3, <3>1, <3>3
    <3>6. QED BY <3>4, <3>5
  <2>4. QED BY <1>1, <2>2, <2>3
<1>10. QED BY <1>6, <1>7, <1>8, <1>9

\* The beginning of a stream.
LEMMA Cut ==
  ASSUME NEW s \in Seq(Message), IsStream(s), NEW t \in Seq(Message),
         \A i \in 1..Len(t) : i \in 1..Len(s) /\ t[i] = s[i]
  PROVE  IsStream(t)
<1>1. SUFFICES ASSUME NEW j \in 1..Len(t)
               PROVE  /\ j = 1 => t[j].end <= MsgLen[t[j].kind]
                      /\ \A i \in 1..(j - 1) :
                           /\ t[i].end + MsgLen[t[j].kind] <= t[j].end
                           /\ i + 1 = j => t[i].end + MsgLen[t[j].kind] = t[j].end
  BY DEF IsStream
<1>2. \A i \in 1..(j - 1) : i \in 1..Len(t)
  <2>1. Len(t) \in Nat OBVIOUS
  <2>2. QED BY <2>1
<1>3. j \in 1..Len(s) /\ t[j] = s[j] /\ \A i \in 1..(j - 1) : t[i] = s[i] BY <1>2
<1>4. QED BY <1>3 DEF IsStream

\* One recv takes the first message whole, if messages fit; Parsed finds it or
\* nothing.
LEMMA Taken ==
  ASSUME NEW s \in Seq(Message), IsStream(s), s # <<>>
  PROVE  /\ Take(s) \in Nat /\ (Fits => s[1].end <= Take(s))
         /\ 1 \in 1..Len(s) /\ Head(s) = s[1] /\ s[1] \in Message /\ s[1].end \in Nat
         /\ Parsed(s) = Nothing \/ Parsed(s) = s[1]
<1> DEFINE l == Len(s)
<1>1. l \in Nat /\ l # 0 BY EmptySeq
<1>2. 1 \in 1..l /\ l \in 1..l BY <1>1
<1>3. Head(s) = s[1] OBVIOUS
<1>4. /\ s[1] \in Message /\ s[1].end \in Nat /\ s[l].end \in Nat
      /\ MsgLen[s[1].kind] \in Nat
      /\ \A i \in 1..(l - 1) : s[i].end < s[l].end
  BY <1>2, Ends
<1>5. s[1].end <= s[l].end
  <2>1. CASE l = 1 BY <1>4, <2>1
  <2>2. CASE l # 1
    <3>1. 1 \in 1..(l - 1)
      <4> HIDE DEF l
      <4>1. QED BY <1>1, <2>2
    <3>2. s[1].end < s[l].end BY <1>4, <3>1
    <3>3. QED BY <1>4, <3>2
  <2>3. QED BY <2>1, <2>2
<1>6. s[1].end <= MsgLen[s[1].kind] BY <1>2 DEF IsStream
<1>7. BUFFER_SIZE \in Nat /\ (Fits => s[1].end <= BUFFER_SIZE)
  BY <1>4, <1>6, Lengths DEF Fits, Message
<1>8. Waiting(s) = s[l].end BY DEF Waiting
<1>9. Take(s) \in Nat /\ (Fits => s[1].end <= Take(s)) BY <1>4, <1>5, <1>7, <1>8 DEF Take
<1>10. Parsed(s) = Nothing \/ Parsed(s) = s[1] BY <1>3 DEF Parsed
<1>11. QED BY <1>2, <1>3, <1>4, <1>9, <1>10

LEMMA Numbers ==
  ASSUME TypeOK
  PROVE  /\ MaxSent \in Nat /\ sent \in Nat /\ abandoned \in Nat
         /\ Len(toServer) \in Nat /\ Len(toClient) \in Nat
         /\ \A i \in 1..Len(toServer) : toServer[i] \in Request /\ toServer[i].n \in Nat
         /\ \A i \in 1..Len(toClient) : toClient[i] \in Message /\ toClient[i].n \in Nat
<1>1. MaxSent \in Nat /\ sent \in Nat /\ abandoned \in Nat BY BoundsType DEF TypeOK
<1>2. toServer \in Seq(Request) /\ toClient \in Seq(Message) BY DEF TypeOK
<1>3. /\ \A i \in 1..Len(toServer) : toServer[i] \in Request
      /\ \A i \in 1..Len(toClient) : toClient[i] \in Message
  BY <1>2, SeqElement
<1>4. QED BY <1>1, <1>2, <1>3 DEF Request, Message

-----------------------------------------------------------------------------
(***************************************************************************)
(* Types, for messages of any length.                                      *)
(***************************************************************************)
LEMMA TInit == Init => TInv
<1> SUFFICES ASSUME Init PROVE TInv
  OBVIOUS
<1>1. transport \in {"tcp", "udp"} BY TransportsType DEF Init
<1>2. /\ request \in 0..MaxSent /\ depth \in Nat /\ sent \in 0..MaxSent
      /\ asked \in 0..MaxSent /\ signals \in 0..MaxSignals /\ abandoned \in 0..MaxSignals
      /\ abandoned <= signals
  BY BoundsType DEF Init
<1>3. /\ toServer \in Seq(Request) /\ toClient \in Seq(Message) /\ applied \in Seq(1..MaxSent)
      /\ IsStream(toClient)
  BY DEF Init, IsStream
<1>4. /\ flag_get_supply \in {0, 1} /\ skip_option \in {0, 1}
      /\ pc \in ClientPC /\ got \in Message \cup {Nothing} /\ refused \in BOOLEAN
      /\ server \in IF transport = "tcp" THEN ServerPC \ {"gone"} ELSE {"up", "gone"}
  BY DEF Init, ClientPC, ServerPC
<1>5. QED BY <1>1, <1>2, <1>3, <1>4 DEF TInv, TypeOK

LEMMA TQuiet ==
  ASSUME TInv, Connect \/ MainLoop \/ ChooseStatus \/ ChooseUpdate \/ Leave \/ Check \/ StackOverflow
  PROVE  TInv'
<1>1. /\ UNCHANGED <<transport, server, applied, refused, toServer, toClient, sent, signals, abandoned>>
      /\ pc' \in ClientPC
  BY DEF TInv, TypeOK, ClientPC, Connect, MainLoop, ChooseStatus, ChooseUpdate, Leave, Check,
         StackOverflow, serverVars
<1> USE DEF TInv, TypeOK, Connect, MainLoop, ChooseStatus, ChooseUpdate, Leave, Check, StackOverflow
<1>2. flag_get_supply' \in {0, 1} /\ skip_option' \in {0, 1}
  OBVIOUS
<1>3. request' \in 0..MaxSent /\ asked' \in 0..MaxSent
  BY BoundsType, SMTT(30)
<1>4. depth' \in Nat
  <2>1. depth' = depth \/ depth' = 0 \/ depth' = depth + 1
    BY SMTT(30)
  <2>2. QED BY <2>1
<1>5. got' \in Message \cup {Nothing}
  OBVIOUS
<1>6. QED BY <1>1, <1>2, <1>3, <1>4, <1>5

LEMMA TSignal ==
  ASSUME TInv, Sigint \/ Sigterm
  PROVE  TInv'
<1>1. /\ UNCHANGED <<transport, request, depth, server, applied, refused, toServer, toClient, sent, asked>>
      /\ signals < MaxSignals /\ signals' = signals + 1
      /\ flag_get_supply' \in {0, 1} /\ skip_option' \in {0, 1}
      /\ Interrupted
  BY DEF TInv, TypeOK, Sigint, Sigterm, serverVars
<1>2. signals \in Nat /\ abandoned \in Nat /\ abandoned <= signals /\ MaxSignals \in Nat
  BY BoundsType DEF TInv, TypeOK
<1>3. pc' \in ClientPC /\ got' \in Message \cup {Nothing} /\ abandoned' \in {abandoned, abandoned + 1}
  BY <1>1 DEF Interrupted, TInv, TypeOK, ClientPC
<1>4. signals' \in 0..MaxSignals /\ abandoned' \in 0..MaxSignals /\ abandoned' <= signals'
  BY <1>1, <1>2, <1>3
<1>5. QED BY <1>1, <1>3, <1>4 DEF TInv, TypeOK

LEMMA TSend ==
  ASSUME TInv, send_message_to_server
  PROVE  TInv'
<1> DEFINE r == [n |-> sent + 1, update |-> request]
<1>1. /\ sent < MaxSent /\ sent' = sent + 1
      /\ pc' \in ClientPC
      /\ toServer' = IF server \in {"up", "deaf"} THEN Append(toServer, r) ELSE toServer
      /\ server' = IF server = "fin" THEN "rst" ELSE server
      /\ UNCHANGED <<transport, flag_get_supply, skip_option, request, got, depth, applied,
                     toClient, asked, signals, abandoned>>
  BY DEF send_message_to_server, ClientPC
<1>2. refused' \in BOOLEAN BY Zenon DEF send_message_to_server
<1>3. MaxSent \in Nat /\ sent \in Nat /\ sent' \in 0..MaxSent BY <1>1, BoundsType DEF TInv, TypeOK
<1>4. r \in Request BY <1>1, <1>3 DEF TInv, TypeOK, Request
<1> HIDE DEF r
<1>5. toServer' \in Seq(Request) BY <1>1, <1>4 DEF TInv, TypeOK
<1>6. server' \in IF transport' = "tcp" THEN ServerPC \ {"gone"} ELSE {"up", "gone"}
  BY <1>1 DEF TInv, TypeOK, ServerPC
<1>7. QED BY <1>1, <1>2, <1>3, <1>5, <1>6 DEF TInv, TypeOK

LEMMA TRecv ==
  ASSUME TInv, Recv
  PROVE  TInv'
<1>1. /\ pc' = "check" /\ refused' = FALSE
      /\ UNCHANGED <<transport, flag_get_supply, skip_option, request, depth, server, applied,
                     toServer, sent, asked, signals, abandoned>>
  BY DEF Recv, serverVars
<1>2. toClient \in Seq(Message) /\ IsStream(toClient) BY DEF TInv, TypeOK
<1>3. got' \in Message \cup {Nothing} /\ toClient' \in Seq(Message) /\ IsStream(toClient')
  <2>1. CASE refused \/ toClient = <<>> BY <1>2, <2>1 DEF Recv
  <2>2. CASE ~refused /\ toClient # <<>>
    <3>1. /\ Take(toClient) \in Nat /\ Head(toClient) = toClient[1]
          /\ toClient[1] \in Message /\ toClient[1].end \in Nat
          /\ Parsed(toClient) = Nothing \/ Parsed(toClient) = toClient[1]
      BY <1>2, <2>2, Taken
    <3>2. got' = Parsed(toClient) BY <2>2 DEF Recv
    <3>3. PICK n \in Nat : toClient' = Drop(toClient, n) BY <2>2, <3>1 DEF Recv
    <3>4. toClient' \in Seq(Message) /\ IsStream(toClient') BY <1>2, <2>2, <3>3, Dropped
    <3>5. QED BY <3>1, <3>2, <3>4
  <2>3. QED BY <2>1, <2>2
<1>4. pc' \in ClientPC /\ refused' \in BOOLEAN BY <1>1 DEF ClientPC
<1>5. QED BY <1>1, <1>3, <1>4 DEF TInv, TypeOK

\* The oldest request, and what is left when it has gone.
LEMMA Oldest ==
  ASSUME TypeOK, toServer # <<>>
  PROVE  /\ Tail(toServer) \in Seq(Request)
         /\ \A i \in 1..Len(Tail(toServer)) :
              1 + i \in 1..Len(toServer) /\ Tail(toServer)[i] = toServer[1 + i]
         /\ 1 \in 1..Len(toServer) /\ Head(toServer) = toServer[1] /\ Head(toServer) \in Request
         /\ Head(toServer).update # 0 =>
              Append(applied, Head(toServer).update) \in Seq(1..MaxSent)
<1>1. toServer \in Seq(Request) /\ applied \in Seq(1..MaxSent) BY DEF TypeOK
<1>2. /\ Tail(toServer) \in Seq(Request)
      /\ \A i \in 1..Len(Tail(toServer)) : i + 1 \in 1..Len(toServer) /\ Tail(toServer)[i] = toServer[i + 1]
      /\ 1 \in 1..Len(toServer) /\ Head(toServer) = toServer[1]
  BY <1>1, Tailed
<1>3. Len(Tail(toServer)) \in Nat BY <1>2
<1>4. \A i \in 1..Len(Tail(toServer)) : i + 1 = 1 + i BY <1>3
<1>5. Head(toServer) \in Request BY <1>1, <1>2, SeqElement
<1>6. Head(toServer).update # 0 => Head(toServer).update \in 1..MaxSent
  BY <1>5, BoundsType DEF Request
<1>7. ASSUME Head(toServer).update # 0
      PROVE  Append(applied, Head(toServer).update) \in Seq(1..MaxSent)
  BY <1>1, <1>6, <1>7, Appended
<1>8. QED BY <1>2, <1>4, <1>5, <1>7

LEMMA TServer ==
  ASSUME TInv, Serve \/ ServeFails \/ EndConn \/ Close \/ Lose
  PROVE  TInv'
<1>1. toServer \in Seq(Request) /\ toClient \in Seq(Message) /\ IsStream(toClient)
      /\ applied \in Seq(1..MaxSent) /\ transport \in {"tcp", "udp"}
  BY DEF TInv, TypeOK
<1>2. UNCHANGED <<transport, clientVars, refused, sent, asked, signals, abandoned>>
  BY DEF Serve, ServeFails, EndConn, Close, Lose, serverVars
<1>3. server' \in IF transport' = "tcp" THEN ServerPC \ {"gone"} ELSE {"up", "gone"}
  BY DEF Serve, ServeFails, EndConn, Close, Lose, serverVars, TInv, TypeOK, ServerPC
<1>4. \A s \in Seq(Request) : s # <<>> => SubSeq(s, 1, Len(s) - 1) \in Seq(Request)
  BY Shortened
<1>5. \A s \in Seq(Message) : s # <<>> /\ IsStream(s) =>
        SubSeq(s, 1, Len(s) - 1) \in Seq(Message) /\ IsStream(SubSeq(s, 1, Len(s) - 1))
  BY Shortened, Cut
<1>6. ASSUME toServer # <<>>
      PROVE  /\ Tail(toServer) \in Seq(Request) /\ Head(toServer) \in Request
             /\ Head(toServer).update # 0 => Append(applied, Head(toServer).update) \in Seq(1..MaxSent)
  BY <1>6, Oldest DEF TInv
<1>7. toServer' \in Seq(Request)
  <2>1. \/ toServer' = toServer \/ toServer' = <<>>
        \/ toServer # <<>> /\ toServer' = Tail(toServer)
        \/ toServer # <<>> /\ toServer' = SubSeq(toServer, 1, Len(toServer) - 1)
    BY DEF Serve, ServeFails, EndConn, Close, Lose
  <2>2. <<>> \in Seq(Request) OBVIOUS
  <2>3. QED BY <1>1, <1>4, <1>6, <2>1, <2>2
<1>8. applied' \in Seq(1..MaxSent)
  BY <1>1, <1>6 DEF Serve, ServeFails, EndConn, Close, Lose, serverVars
<1>9. toClient' \in Seq(Message) /\ IsStream(toClient')
  <2>1. ASSUME NEW kind \in Kind, NEW n \in 0..MaxSent, toClient' = Say(toClient, kind, n)
        PROVE  toClient' \in Seq(Message) /\ IsStream(toClient')
    BY <1>1, <2>1, Said
  <2>2. CASE Serve
    <3>1. Head(toServer).n \in 0..MaxSent BY <1>6, <2>2, BoundsType DEF Serve, Request
    <3>2. PICK kind \in {"status", "updated", "denied"} : toClient' = Say(toClient, kind, Head(toServer).n)
      BY <2>2 DEF Serve
    <3>3. kind \in Kind BY DEF Kind
    <3>4. QED BY <2>1, <3>1, <3>2, <3>3
  <2>3. CASE EndConn
    <3>1. "end" \in Kind /\ 0 \in 0..MaxSent BY BoundsType DEF Kind
    <3>2. CASE toClient' = toClient BY <1>1, <3>2
    <3>3. CASE toClient' = Say(toClient, "end", 0) BY <2>1, <3>1, <3>3
    <3>4. QED BY <2>3, <3>2, <3>3 DEF EndConn
  <2>4. CASE ServeFails \/ Close BY <1>1, <2>4 DEF ServeFails, Close
  <2>5. CASE Lose BY <1>1, <1>5, <2>5 DEF Lose
  <2>6. QED BY <2>2, <2>3, <2>4, <2>5
<1>10. QED BY <1>2, <1>3, <1>7, <1>8, <1>9 DEF TInv, TypeOK, clientVars

LEMMA TNext == TInv /\ [Next]_vars => TInv'
<1> SUFFICES ASSUME TInv, [Next]_vars PROVE TInv'
  OBVIOUS
<1>1. CASE Connect \/ MainLoop \/ ChooseStatus \/ ChooseUpdate \/ Leave \/ Check \/ StackOverflow
  BY <1>1, TQuiet
<1>2. CASE Sigint \/ Sigterm BY <1>2, TSignal
<1>3. CASE send_message_to_server BY <1>3, TSend
<1>4. CASE Recv BY <1>4, TRecv
<1>5. CASE Serve \/ ServeFails \/ EndConn \/ Close \/ Lose BY <1>5, TServer
<1>6. CASE UNCHANGED vars BY <1>6 DEF vars, clientVars, serverVars, TInv, TypeOK
<1>7. QED
  BY <1>1, <1>2, <1>3, <1>4, <1>5, <1>6 DEF Next, ClientStep, ServerStep

-----------------------------------------------------------------------------
(***************************************************************************)
(* The lag, for messages that fit.                                         *)
(***************************************************************************)
LEMMA LInit == Fits /\ Init => LInv
<1> SUFFICES ASSUME Fits, Init PROVE LInv
  OBVIOUS
<1>1. TypeOK BY TInit DEF TInv
<1>2. InOrder /\ Lag /\ LagBounded BY BoundsType DEF Init, InOrder, Lag, LagBounded
<1>3. QED BY <1>1, <1>2 DEF LInv

\* Steps of the client that neither send nor receive.
LEMMA LQuiet ==
  ASSUME LInv, Connect \/ MainLoop \/ ChooseStatus \/ ChooseUpdate \/ Leave \/ Check \/ StackOverflow
  PROVE  LInv'
<1>1. /\ UNCHANGED <<transport, server, applied, refused, toServer, toClient, sent, signals, abandoned>>
      /\ pc' = "exit" \/ (pc # "recv" /\ pc' # "recv" /\ pc' # "check")
      /\ pc' \in ClientPC /\ pc # "exit"
  BY DEF LInv, TypeOK, ServerPC, ClientPC, Connect, MainLoop, ChooseStatus, ChooseUpdate, Leave, Check,
         StackOverflow, serverVars
<1>2. TypeOK' BY TQuiet DEF LInv, Lag, TInv
<1>3. InOrder' BY <1>1 DEF LInv, InOrder
<1>4. Lag'
  <2>1. CASE pc' = "exit" BY <1>1, <2>1 DEF LInv, Lag
  <2>2. CASE pc # "recv" /\ pc' # "recv" /\ pc' # "check"
    <3>1. Expected' = Expected /\ (Failing' <=> Failing) BY <1>1, <2>2 DEF Expected, Failing
    <3>2. QED BY <1>1, <2>2, <3>1 DEF LInv, Lag
  <2>3. QED BY <1>1, <2>1, <2>2
<1>5. LagBounded' BY <1>1 DEF LagBounded
<1>6. QED BY <1>2, <1>3, <1>4, <1>5 DEF LInv

\* A signal: the wait it ends is counted.
LEMMA LSignal ==
  ASSUME LInv, Sigint \/ Sigterm
  PROVE  LInv'
<1>1. /\ UNCHANGED <<transport, request, depth, server, applied, refused, toServer, toClient, sent, asked>>
      /\ signals < MaxSignals /\ signals' = signals + 1
      /\ flag_get_supply' \in {0, 1} /\ skip_option' \in {0, 1}
      /\ Interrupted
  BY DEF LInv, TypeOK, Sigint, Sigterm, serverVars
<1>2. /\ sent \in Nat /\ signals \in Nat /\ abandoned \in Nat /\ abandoned <= signals
      /\ MaxSignals \in Nat
  BY BoundsType DEF LInv, TypeOK, Lag
<1>3. InOrder' BY <1>1 DEF LInv, InOrder
<1>4. CASE UNCHANGED <<pc, got, abandoned>>
  <2>1. TypeOK' BY <1>1, <1>2, <1>4 DEF LInv, TypeOK
  <2>2. Lag' BY <1>1, <1>2, <1>4 DEF LInv, Lag, Expected, Failing
  <2>3. LagBounded' BY <1>1, <1>4 DEF LInv, LagBounded
  <2>4. QED BY <1>3, <2>1, <2>2, <2>3 DEF LInv
<1>5. CASE pc = "recv" /\ Blocked /\ pc' = "check" /\ got' = Nothing /\ abandoned' = abandoned + 1
  <2>1. TypeOK' BY <1>1, <1>2, <1>5 DEF LInv, TypeOK, ClientPC
  <2>2. Expected = sent /\ Expected' = sent + 1 /\ ~Failing
    BY <1>1, <1>5 DEF Expected, Failing, Blocked
  <2>3. \A i \in 1..Len(toServer) : toServer[i].n \in Nat
    <3>1. \A i \in 1..Len(toServer) : toServer[i] \in Request BY SeqElement DEF LInv, TypeOK
    <3>2. QED BY <3>1, BoundsType DEF Request
  <2>4. toClient = <<>> /\ ~refused BY <1>5 DEF Blocked
  <2>5. Lag' BY <1>1, <1>2, <1>5, <2>2, <2>3, <2>4 DEF LInv, Lag
  <2>6. LagBounded' BY <1>5 DEF LagBounded
  <2>7. QED BY <1>3, <2>1, <2>5, <2>6 DEF LInv
<1>6. QED BY <1>1, <1>4, <1>5 DEF Interrupted

\* A new request is the youngest, and the one now expected.
LEMMA LSend ==
  ASSUME LInv, send_message_to_server
  PROVE  LInv'
<1> DEFINE r == [n |-> sent + 1, update |-> request]
<1>1. /\ pc = "send" /\ sent < MaxSent /\ sent' = sent + 1
      /\ pc' = IF server = "rst" THEN "exit" ELSE "recv"
      /\ toServer' = IF server \in {"up", "deaf"} THEN Append(toServer, r) ELSE toServer
      /\ refused' = (server = "gone")
      /\ server' = IF server = "fin" THEN "rst" ELSE server
      /\ UNCHANGED <<transport, flag_get_supply, skip_option, request, got, depth, applied,
                     toClient, asked, signals, abandoned>>
  BY DEF send_message_to_server
<1>2. /\ MaxSent \in Nat /\ sent \in Nat /\ abandoned \in Nat
      /\ Len(toServer) \in Nat /\ Len(toClient) \in Nat
      /\ \A i \in 1..Len(toServer) : toServer[i] \in Request /\ toServer[i].n \in Nat
      /\ \A i \in 1..Len(toClient) : toClient[i] \in Message /\ toClient[i].n \in Nat
  BY Numbers DEF LInv
<1>3. r \in Request /\ r.n = sent + 1 BY <1>1, <1>2 DEF LInv, TypeOK, Request
<1>4. toServer \in Seq(Request) BY DEF LInv, TypeOK
<1> HIDE DEF r
<1>5. /\ toServer' \in Seq(Request)
      /\ \A i \in 1..Len(toServer') :
           \/ i \in 1..Len(toServer) /\ toServer'[i] = toServer[i]
           \/ i = Len(toServer) + 1 /\ toServer'[i] = r
      /\ Len(toServer') \in Nat
  <2>1. CASE server \in {"up", "deaf"}
    <3>1. toServer' = Append(toServer, r) BY <1>1, <2>1
    <3>2. /\ toServer' \in Seq(Request) /\ Len(toServer') = Len(toServer) + 1
          /\ \A i \in 1..Len(toServer) : toServer'[i] = toServer[i]
          /\ toServer'[Len(toServer) + 1] = r
      BY <1>3, <1>4, <3>1, Appended
    <3>3. QED BY <1>2, <3>2
  <2>2. CASE server \notin {"up", "deaf"} BY <1>1, <1>2, <1>4, <2>2
  <2>3. QED BY <2>1, <2>2
<1>6. TypeOK'
  <2>1. sent' \in 0..MaxSent BY <1>1, <1>2
  <2>2. pc' \in ClientPC BY <1>1 DEF ClientPC
  <2>3. server' \in IF transport' = "tcp" THEN ServerPC \ {"gone"} ELSE {"up", "gone"}
    BY <1>1 DEF LInv, TypeOK, ServerPC
  <2>4. refused' \in BOOLEAN BY <1>1
  <2>5. QED BY <1>1, <1>5, <2>1, <2>2, <2>3, <2>4 DEF LInv, TypeOK
<1>7. InOrder'
  <2>1. \A i \in 1..Len(toServer') : toServer'[i].n <= sent'
    BY <1>1, <1>2, <1>3, <1>5 DEF LInv, InOrder
  <2>2. ASSUME NEW i \in 1..Len(toServer'), NEW j \in 1..Len(toServer'), i < j
        PROVE  toServer'[i].n < toServer'[j].n
    <3>1. i \in 1..Len(toServer) /\ toServer'[i] = toServer[i]
      BY <1>2, <1>5, <2>2
    <3>2. CASE j \in 1..Len(toServer) /\ toServer'[j] = toServer[j]
      BY <2>2, <3>1, <3>2 DEF LInv, InOrder
    <3>3. CASE j = Len(toServer) + 1 /\ toServer'[j] = r
      <4>1. toServer[i].n <= sent /\ toServer[i].n \in Nat BY <1>2, <3>1 DEF LInv, InOrder
      <4>2. QED BY <1>2, <1>3, <3>1, <3>3, <4>1
    <3>4. QED BY <1>5, <3>2, <3>3
  <2>3. \A i \in 1..Len(toClient') : toClient'[i].n <= sent'
    BY <1>1, <1>2 DEF LInv, InOrder
  <2>4. ASSUME NEW i \in 1..Len(toClient'), NEW j \in 1..Len(toServer'), toClient'[i].kind # "end"
        PROVE  toClient'[i].n < toServer'[j].n
    <3>1. i \in 1..Len(toClient) /\ toClient'[i] = toClient[i] /\ toClient[i].n \in Nat BY <1>1, <1>2
    <3>2. CASE j \in 1..Len(toServer) /\ toServer'[j] = toServer[j]
      BY <2>4, <3>1, <3>2 DEF LInv, InOrder
    <3>3. CASE j = Len(toServer) + 1 /\ toServer'[j] = r
      <4>1. toClient[i].n <= sent BY <3>1 DEF LInv, InOrder
      <4>2. QED BY <1>2, <1>3, <3>1, <3>3, <4>1
    <3>4. QED BY <1>5, <3>2, <3>3
  <2>5. /\ \A i, j \in 1..Len(toClient') :
             i < j => /\ toClient'[i].kind # "end"
                      /\ toClient'[j].kind # "end" => toClient'[i].n < toClient'[j].n
        /\ server' = "up" => \A i \in 1..Len(toClient') : toClient'[i].kind # "end"
    BY <1>1 DEF LInv, InOrder
  <2>6. QED BY <2>1, <2>2, <2>3, <2>4, <2>5 DEF InOrder
<1>8. Lag'
  <2>1. Expected = sent + 1 /\ (pc' # "exit" => Expected' = sent + 1) BY <1>1 DEF Expected
  <2>2. abandoned' <= signals' /\ (refused' => server' = "gone" /\ pc' \in {"recv", "exit"})
    BY <1>1 DEF LInv, Lag
  <2>3. ASSUME pc' # "exit", server' = "up", NEW i \in 1..Len(toServer')
        PROVE  Expected' <= toServer'[i].n + abandoned'
    <3>1. server = "up" BY <1>1, <2>3
    <3>2. CASE i \in 1..Len(toServer) /\ toServer'[i] = toServer[i]
      BY <1>1, <2>1, <2>3, <3>1, <3>2 DEF LInv, Lag
    <3>3. CASE i = Len(toServer) + 1 /\ toServer'[i] = r
      BY <1>1, <1>2, <1>3, <2>1, <2>3, <3>3
    <3>4. QED BY <1>5, <3>2, <3>3
  <2>4. ASSUME pc' # "exit", ~Failing', NEW i \in 1..Len(toClient'), toClient'[i].kind # "end"
        PROVE  Expected' <= toClient'[i].n + abandoned'
    <3>1. server # "gone" BY <1>1, <2>4 DEF Failing
    <3>2. ~Failing BY <3>1 DEF Failing
    <3>3. QED BY <1>1, <2>1, <2>4, <3>2 DEF LInv, Lag
  <2>5. QED BY <2>2, <2>3, <2>4 DEF Lag
<1>9. LagBounded' BY <1>1 DEF LagBounded
<1>10. QED BY <1>6, <1>7, <1>8, <1>9 DEF LInv

\* A recv shows the oldest reply, and what stays behind it is younger; or it
\* fails, and so will every later one.
LEMMA LRecv ==
  ASSUME LInv, Recv
  PROVE  LInv'
<1>1. /\ pc = "recv" /\ ~Blocked /\ pc' = "check" /\ refused' = FALSE
      /\ UNCHANGED <<transport, flag_get_supply, skip_option, request, depth, server, applied,
                     toServer, sent, asked, signals, abandoned>>
  BY DEF Recv, serverVars
<1>2. /\ MaxSent \in Nat /\ sent \in Nat /\ abandoned \in Nat
      /\ Len(toServer) \in Nat /\ Len(toClient) \in Nat
      /\ \A i \in 1..Len(toServer) : toServer[i] \in Request /\ toServer[i].n \in Nat
      /\ \A i \in 1..Len(toClient) : toClient[i] \in Message /\ toClient[i].n \in Nat
  BY Numbers DEF LInv
<1>3. toClient \in Seq(Message) /\ IsStream(toClient) BY DEF LInv, TypeOK
<1>4. Expected = sent /\ Expected' = sent + 1 BY <1>1 DEF Expected
<1>5. ASSUME got' \in Message \cup {Nothing}, toClient' \in Seq(Message), IsStream(toClient')
      PROVE  TypeOK'
  BY <1>1, <1>5 DEF LInv, TypeOK, ClientPC
<1>6. CASE refused \/ toClient = <<>>
  <2>1. got' = Nothing /\ toClient' = toClient BY <1>6 DEF Recv
  <2>2. TypeOK' BY <1>3, <1>5, <2>1
  <2>3. InOrder' BY <1>1, <2>1 DEF LInv, InOrder
  <2>4. server # "up" /\ (Failing' \/ toClient = <<>>)
    BY <1>1, <1>6 DEF LInv, Lag, Blocked, Failing
  <2>5. Lag' BY <1>1, <2>1, <2>4 DEF LInv, Lag
  <2>6. LagBounded' BY <2>1 DEF LagBounded
  <2>7. QED BY <2>2, <2>3, <2>5, <2>6 DEF LInv
<1>7. CASE ~refused /\ toClient # <<>>
  <2>1. /\ Take(toClient) \in Nat /\ toClient[1].end <= Take(toClient)
        /\ 1 \in 1..Len(toClient) /\ Head(toClient) = toClient[1] /\ toClient[1] \in Message
        /\ toClient[1].end \in Nat
        /\ Parsed(toClient) = Nothing \/ Parsed(toClient) = toClient[1]
    BY <1>3, <1>7, Taken DEF LInv
  <2>2. got' = Nothing \/ got' = toClient[1] BY <1>7, <2>1 DEF Recv
  <2>3. PICK n \in Nat : toClient[1].end <= n /\ toClient' = Drop(toClient, n)
    <3>1. \/ toClient' = Drop(toClient, toClient[1].end)
          \/ toClient' = Drop(toClient, Take(toClient))
      BY <1>7, <2>1 DEF Recv
    <3>2. toClient[1].end <= toClient[1].end BY <2>1
    <3>3. QED BY <2>1, <3>1, <3>2
  <2>4. /\ toClient' \in Seq(Message) /\ IsStream(toClient')
        /\ \E k \in 0..Len(toClient) :
             /\ toClient[1].end <= n => k # 0
             /\ Len(toClient') = Len(toClient) - k
             /\ \A i \in 1..Len(toClient') :
                  /\ k + i \in 1..Len(toClient)
                  /\ toClient'[i].kind = toClient[k + i].kind /\ toClient'[i].n = toClient[k + i].n
    BY <1>3, <1>7, <2>3, Dropped
  <2>5. PICK k \in 1..Len(toClient) :
          \A i \in 1..Len(toClient') :
             /\ k + i \in 1..Len(toClient)
             /\ toClient'[i].kind = toClient[k + i].kind /\ toClient'[i].n = toClient[k + i].n
    <3>1. PICK k \in 0..Len(toClient) :
            /\ k # 0
            /\ \A i \in 1..Len(toClient') :
                 /\ k + i \in 1..Len(toClient)
                 /\ toClient'[i].kind = toClient[k + i].kind /\ toClient'[i].n = toClient[k + i].n
      BY <2>3, <2>4, Zenon
    <3>2. k \in 1..Len(toClient)
      <4>1. Len(toClient) \in Nat BY <1>3
      <4>2. QED BY <3>1, <4>1
    <3>3. QED BY <3>1, <3>2
  <2>6. TypeOK' BY <1>5, <2>1, <2>2, <2>4
  <2>7. Len(toClient') \in Nat BY <2>4
  <2>8. InOrder'
    <3>1. ASSUME NEW i \in 1..Len(toClient'), NEW j \in 1..Len(toClient'), i < j
          PROVE  /\ toClient'[i].kind # "end"
                 /\ toClient'[j].kind # "end" => toClient'[i].n < toClient'[j].n
      <4>1. k + i < k + j BY <1>2, <2>7, <3>1
      <4>2. QED BY <2>5, <3>1, <4>1 DEF LInv, InOrder
    <3>2. QED BY <1>1, <2>5, <3>1 DEF LInv, InOrder
  <2>9. LagBounded'
    <3>1. SUFFICES ASSUME got' # Nothing, got'.kind # "end" PROVE sent <= got'.n + abandoned
      BY <1>1 DEF LagBounded
    <3>2. got' = toClient[1] /\ toClient[1].kind # "end" BY <2>2, <3>1
    <3>3. ~Failing /\ pc # "exit" BY <1>1, <1>7 DEF Failing
    <3>4. QED BY <1>4, <2>1, <3>2, <3>3 DEF LInv, Lag
  <2>10. Lag'
    <3>1. ~Failing /\ pc # "exit" BY <1>1, <1>7 DEF Failing
    <3>2. toClient[1].kind # "end" => sent <= toClient[1].n + abandoned
      BY <1>4, <2>1, <3>1 DEF LInv, Lag
    <3>3. ASSUME server = "up", NEW i \in 1..Len(toServer)
          PROVE  sent + 1 <= toServer[i].n + abandoned
      <4>1. toClient[1].kind # "end" BY <2>1, <3>3 DEF LInv, InOrder
      <4>2. toClient[1].n < toServer[i].n BY <2>1, <4>1 DEF LInv, InOrder
      <4>3. QED BY <1>2, <2>1, <3>2, <4>1, <4>2, SMTT(30)
    <3>4. ASSUME NEW i \in 1..Len(toClient'), toClient'[i].kind # "end"
          PROVE  sent + 1 <= toClient'[i].n + abandoned
      <4>1. k + i \in 1..Len(toClient) /\ 1 < k + i BY <1>2, <2>5, <2>7
      <4>2. toClient[1].kind # "end" /\ toClient[1].n < toClient[k + i].n
        BY <2>1, <2>5, <3>4, <4>1 DEF LInv, InOrder
      <4>3. toClient'[i].n = toClient[k + i].n /\ toClient[k + i].n \in Nat /\ toClient[1].n \in Nat
        BY <1>2, <2>1, <2>5
      <4> DEFINE a == toClient[1].n
                 b == toClient[k + i].n
      <4>4. sent \in Nat /\ abandoned \in Nat /\ a \in Nat /\ b \in Nat /\ a < b /\ sent <= a + abandoned
        BY <1>2, <3>2, <4>2, <4>3
      <4> HIDE DEF a, b
      <4>5. sent + 1 <= b + abandoned BY <4>4
      <4>6. QED BY <4>3, <4>5 DEF b
    <3>5. abandoned <= signals BY DEF LInv, Lag
    <3>6. QED BY <1>1, <1>4, <3>3, <3>4, <3>5 DEF Lag
  <2>11. QED BY <2>6, <2>8, <2>9, <2>10 DEF LInv
<1>8. QED BY <1>6, <1>7

\* Steps of the server and the network that add nothing to the client's stream:
\* requests leave at one end, messages only at the far one.
LEMMA LFewer ==
  ASSUME LInv, UNCHANGED <<transport, clientVars, refused, sent, asked, signals, abandoned>>,
         toServer' \in Seq(Request), toClient' \in Seq(Message), applied' \in Seq(1..MaxSent),
         NEW d \in {0, 1},
         \A i \in 1..Len(toServer') : d + i \in 1..Len(toServer) /\ toServer'[i] = toServer[d + i],
         \A i \in 1..Len(toClient') : i \in 1..Len(toClient) /\ toClient'[i] = toClient[i],
         \/ server' = server
         \/ transport = "tcp" /\ <<server, server'>> \in {<<"up", "deaf">>, <<"deaf", "fin">>, <<"deaf", "rst">>}
         \/ transport = "udp" /\ server = "up" /\ server' = "gone"
  PROVE  LInv'
<1>1. TypeOK'
  <2>1. IsStream(toClient') BY Cut DEF LInv, TypeOK
  <2>2. server' \in IF transport' = "tcp" THEN ServerPC \ {"gone"} ELSE {"up", "gone"}
    BY DEF LInv, TypeOK, ServerPC
  <2>3. QED BY <2>1, <2>2 DEF LInv, TypeOK, clientVars
<1>2. Len(toServer') \in Nat OBVIOUS
<1>3. InOrder'
  <2>1. ASSUME NEW i \in 1..Len(toServer'), NEW j \in 1..Len(toServer'), i < j
        PROVE  toServer'[i].n < toServer'[j].n
    <3>1. d + i < d + j BY <1>2, <2>1
    <3>2. QED BY <2>1, <3>1 DEF LInv, InOrder
  <2>2. /\ \A i \in 1..Len(toServer') : toServer'[i].n <= sent'
        /\ \A i \in 1..Len(toClient') : toClient'[i].n <= sent'
        /\ \A i \in 1..Len(toClient'), j \in 1..Len(toServer') :
             toClient'[i].kind # "end" => toClient'[i].n < toServer'[j].n
    BY DEF LInv, InOrder
  <2>3. \A i, j \in 1..Len(toClient') :
          i < j => /\ toClient'[i].kind # "end"
                   /\ toClient'[j].kind # "end" => toClient'[i].n < toClient'[j].n
    BY DEF LInv, InOrder
  <2>4. server' = "up" => \A i \in 1..Len(toClient') : toClient'[i].kind # "end"
    BY DEF LInv, InOrder
  <2>5. QED BY <2>1, <2>2, <2>3, <2>4 DEF InOrder
<1>4. Lag'
  <2>1. Expected' = Expected /\ UNCHANGED <<pc, refused, abandoned, signals>> BY DEF Expected, clientVars
  <2>2. refused' => server' = "gone" /\ pc' \in {"recv", "exit"} BY <2>1 DEF LInv, Lag
  <2>3. server' = "up" => server = "up" OBVIOUS
  <2>4. ~Failing' => ~Failing BY <2>1 DEF Failing
  <2>5. pc' # "exit" /\ server' = "up" =>
          \A i \in 1..Len(toServer') : Expected' <= toServer'[i].n + abandoned'
    BY <2>1, <2>3 DEF LInv, Lag
  <2>6. pc' # "exit" /\ ~Failing' =>
          \A i \in 1..Len(toClient') :
            toClient'[i].kind # "end" => Expected' <= toClient'[i].n + abandoned'
    BY <2>1, <2>4 DEF LInv, Lag
  <2>7. abandoned' <= signals' BY <2>1 DEF LInv, Lag
  <2>8. QED BY <2>2, <2>5, <2>6, <2>7 DEF Lag
<1>5. LagBounded' BY DEF LInv, LagBounded, clientVars
<1>6. QED BY <1>1, <1>3, <1>4, <1>5 DEF LInv

\* The server sends END, or a reply younger than those before it and older
\* than the requests that remain.
LEMMA LSaid ==
  ASSUME LInv, UNCHANGED <<transport, clientVars, refused, sent, asked, signals, abandoned>>,
         server = "up", server' = "up" \/ (transport = "tcp" /\ server' = "deaf"),
         toServer' \in Seq(Request), applied' \in Seq(1..MaxSent),
         NEW d \in {0, 1},
         \A i \in 1..Len(toServer') : d + i \in 1..Len(toServer) /\ toServer'[i] = toServer[d + i],
         NEW kind \in Kind, NEW n \in 0..MaxSent, toClient' = Say(toClient, kind, n),
         n <= sent, server' = "up" <=> kind # "end",
         kind # "end" =>
           /\ \A i \in 1..Len(toClient) : toClient[i].n < n
           /\ \A j \in 1..Len(toServer') : n < toServer'[j].n
           /\ pc # "exit" => Expected <= n + abandoned
  PROVE  LInv'
<1>1. toClient \in Seq(Message) /\ IsStream(toClient) BY DEF LInv, TypeOK
<1>2. /\ toClient' \in Seq(Message) /\ IsStream(toClient')
      /\ Len(toClient') = Len(toClient) + 1
      /\ \A i \in 1..Len(toClient) : toClient'[i] = toClient[i]
      /\ toClient'[Len(toClient) + 1].kind = kind /\ toClient'[Len(toClient) + 1].n = n
  BY <1>1, Said
<1>3. Len(toClient) \in Nat /\ Len(toServer') \in Nat BY <1>1
<1>4. \A i \in 1..Len(toClient') :
        \/ i \in 1..Len(toClient) /\ toClient'[i] = toClient[i]
        \/ i = Len(toClient) + 1 /\ toClient'[i].kind = kind /\ toClient'[i].n = n
  BY <1>2, <1>3
<1>5. \A i \in 1..Len(toClient) : toClient[i].kind # "end" BY DEF LInv, InOrder
<1>6. TypeOK'
  <2>1. server' \in IF transport' = "tcp" THEN ServerPC \ {"gone"} ELSE {"up", "gone"}
    BY DEF LInv, TypeOK, ServerPC
  <2>2. QED BY <1>2, <2>1 DEF LInv, TypeOK, clientVars
<1>7. InOrder'
  <2>1. ASSUME NEW i \in 1..Len(toServer'), NEW j \in 1..Len(toServer'), i < j
        PROVE  toServer'[i].n < toServer'[j].n
    <3>1. d + i < d + j BY <1>3, <2>1
    <3>2. QED BY <2>1, <3>1 DEF LInv, InOrder
  <2>2. \A i \in 1..Len(toServer') : toServer'[i].n <= sent' BY DEF LInv, InOrder
  <2>3. \A i \in 1..Len(toClient') : toClient'[i].n <= sent' BY <1>4 DEF LInv, InOrder
  <2>4. ASSUME NEW i \in 1..Len(toClient'), NEW j \in 1..Len(toClient'), i < j
        PROVE  /\ toClient'[i].kind # "end"
               /\ toClient'[j].kind # "end" => toClient'[i].n < toClient'[j].n
    <3>1. i \in 1..Len(toClient) /\ toClient'[i] = toClient[i] BY <1>2, <1>3, <2>4
    <3>2. CASE j \in 1..Len(toClient) /\ toClient'[j] = toClient[j]
      BY <2>4, <3>1, <3>2 DEF LInv, InOrder
    <3>3. CASE j = Len(toClient) + 1 /\ toClient'[j].kind = kind /\ toClient'[j].n = n
      BY <1>5, <3>1, <3>3
    <3>4. QED BY <1>4, <3>2, <3>3
  <2>5. ASSUME NEW i \in 1..Len(toClient'), NEW j \in 1..Len(toServer'), toClient'[i].kind # "end"
        PROVE  toClient'[i].n < toServer'[j].n
    <3>1. CASE i \in 1..Len(toClient) /\ toClient'[i] = toClient[i]
      BY <2>5, <3>1 DEF LInv, InOrder
    <3>2. CASE i = Len(toClient) + 1 /\ toClient'[i].kind = kind /\ toClient'[i].n = n
      BY <2>5, <3>2
    <3>3. QED BY <1>4, <3>1, <3>2
  <2>6. server' = "up" => \A i \in 1..Len(toClient') : toClient'[i].kind # "end"
    BY <1>4, <1>5
  <2>7. QED BY <2>1, <2>2, <2>3, <2>4, <2>5, <2>6 DEF InOrder
<1>8. Lag'
  <2>1. Expected' = Expected /\ UNCHANGED <<pc, refused, abandoned, signals>> BY DEF Expected, clientVars
  <2>2. ~refused /\ ~Failing BY DEF LInv, Lag, Failing
  <2>3. pc' # "exit" =>
          \A i \in 1..Len(toServer') : Expected' <= toServer'[i].n + abandoned'
    BY <2>1 DEF LInv, Lag
  <2>4. ASSUME pc' # "exit", NEW i \in 1..Len(toClient'), toClient'[i].kind # "end"
        PROVE  Expected' <= toClient'[i].n + abandoned'
    <3>1. CASE i \in 1..Len(toClient) /\ toClient'[i] = toClient[i]
      BY <2>1, <2>2, <2>4, <3>1 DEF LInv, Lag
    <3>2. CASE i = Len(toClient) + 1 /\ toClient'[i].kind = kind /\ toClient'[i].n = n
      BY <2>1, <2>4, <3>2
    <3>3. QED BY <1>4, <3>1, <3>2
  <2>5. abandoned' <= signals' BY <2>1 DEF LInv, Lag
  <2>6. QED BY <2>1, <2>2, <2>3, <2>4, <2>5 DEF Lag
<1>9. LagBounded' BY DEF LInv, LagBounded, clientVars
<1>10. QED BY <1>6, <1>7, <1>8, <1>9 DEF LInv

LEMMA LServe ==
  ASSUME LInv, Serve
  PROVE  LInv'
<1>1. /\ server = "up" /\ toServer # <<>> /\ toServer' = Tail(toServer)
      /\ UNCHANGED <<transport, clientVars, server, refused, sent, asked, signals, abandoned>>
  BY DEF Serve
<1>2. /\ toServer' \in Seq(Request)
      /\ \A i \in 1..Len(toServer') : 1 + i \in 1..Len(toServer) /\ toServer'[i] = toServer[1 + i]
      /\ 1 \in 1..Len(toServer) /\ Head(toServer) = toServer[1] /\ Head(toServer) \in Request
      /\ Head(toServer).update # 0 => Append(applied, Head(toServer).update) \in Seq(1..MaxSent)
  BY <1>1, Oldest DEF LInv
<1> DEFINE n == toServer[1].n
<1>3. PICK kind \in {"status", "updated", "denied"} : toClient' = Say(toClient, kind, n)
  BY <1>2 DEF Serve
<1>4. applied' \in Seq(1..MaxSent) BY <1>2 DEF Serve, LInv, TypeOK
<1>5. n \in 0..MaxSent /\ n <= sent
  <2>1. n \in 1..MaxSent BY <1>2 DEF Request
  <2>2. n <= sent BY <1>2 DEF LInv, InOrder
  <2>3. QED BY <2>1, <2>2, BoundsType
<1>6. \A i \in 1..Len(toClient) : toClient[i].n < n
  BY <1>1, <1>2 DEF LInv, InOrder
<1>7. \A j \in 1..Len(toServer') : n < toServer'[j].n
  <2>1. SUFFICES ASSUME NEW j \in 1..Len(toServer') PROVE n < toServer'[j].n
    OBVIOUS
  <2>2. Len(toServer') \in Nat BY <1>2
  <2>3. 1 < 1 + j BY <2>2
  <2>4. QED BY <1>2, <2>3 DEF LInv, InOrder
<1>8. pc # "exit" => Expected <= n + abandoned BY <1>1, <1>2 DEF LInv, Lag
<1> HIDE DEF n
<1>9. kind \in Kind /\ kind # "end" /\ server' = "up" BY <1>1 DEF Kind
<1>10. QED BY <1>1, <1>2, <1>3, <1>4, <1>5, <1>6, <1>7, <1>8, <1>9, LSaid

LEMMA LOther ==
  ASSUME LInv, ServeFails \/ EndConn \/ Close \/ Lose \/ UNCHANGED vars
  PROVE  LInv'
<1>1. toServer \in Seq(Request) /\ toClient \in Seq(Message) /\ applied \in Seq(1..MaxSent)
  BY DEF LInv, TypeOK
<1>2. Len(toServer) \in Nat BY <1>1
<1>3. \A i \in 1..Len(toServer) : 0 + i \in 1..Len(toServer) /\ toServer[i] = toServer[0 + i]
  BY <1>2
<1>4. transport \in {"tcp", "udp"} BY DEF LInv, TypeOK
<1>5. CASE ServeFails
  <2>1. /\ server = "up" /\ toServer # <<>>
        /\ server' = IF transport = "tcp" THEN "deaf" ELSE "gone"
        /\ toServer' = Tail(toServer) \/ toServer' = <<>>
        /\ UNCHANGED <<transport, clientVars, refused, toClient, sent, asked, signals, abandoned>>
    BY <1>5 DEF ServeFails
  <2>2. applied' = applied \/ (Head(toServer).update # 0 /\ applied' = Append(applied, Head(toServer).update))
    BY <1>5 DEF ServeFails
  <2>3. applied' \in Seq(1..MaxSent) BY <1>1, <2>1, <2>2, Oldest DEF LInv
  <2>4. /\ toServer' \in Seq(Request)
        /\ \A i \in 1..Len(toServer') : 1 + i \in 1..Len(toServer) /\ toServer'[i] = toServer[1 + i]
    <3>1. CASE toServer' = Tail(toServer) BY <2>1, <3>1, Oldest DEF LInv
    <3>2. CASE toServer' = <<>> BY <3>2
    <3>3. QED BY <2>1, <3>1, <3>2
  <2>5. QED BY <1>1, <1>4, <2>1, <2>3, <2>4, LFewer
<1>6. CASE EndConn
  <2>1. /\ server = "up"
        /\ UNCHANGED <<transport, clientVars, applied, refused, sent, asked, signals, abandoned>>
    BY <1>6 DEF EndConn
  <2>2. CASE transport = "tcp" /\ server' = "deaf" /\ toClient' = Say(toClient, "end", 0) /\ UNCHANGED toServer
    <3>1. "end" \in Kind /\ 0 \in 0..MaxSent /\ 0 <= sent BY BoundsType DEF Kind, LInv, TypeOK
    <3>2. QED BY <1>1, <1>3, <2>1, <2>2, <3>1, LSaid
  <2>3. CASE transport = "udp" /\ server' = "gone" /\ toServer' = <<>> /\ UNCHANGED toClient
    <3>1. /\ toServer' \in Seq(Request)
          /\ \A i \in 1..Len(toServer') : 0 + i \in 1..Len(toServer) /\ toServer'[i] = toServer[0 + i]
      BY <2>3
    <3>2. QED BY <1>1, <2>1, <2>3, <3>1, LFewer
  <2>4. QED BY <1>6, <2>2, <2>3 DEF EndConn
<1>7. CASE Close
  <2>1. transport = "tcp" BY <1>4, <1>7 DEF Close, LInv, TypeOK
  <2>2. QED BY <1>1, <1>3, <1>7, <2>1, LFewer DEF Close
<1>8. CASE Lose
  <2>1. UNCHANGED <<transport, clientVars, server, applied, refused, sent, asked, signals, abandoned>>
    BY <1>8 DEF Lose, serverVars
  <2>2. /\ toServer' \in Seq(Request)
        /\ \A i \in 1..Len(toServer') : i \in 1..Len(toServer) /\ toServer'[i] = toServer[i]
    <3>1. CASE toServer' = toServer BY <1>1, <3>1
    <3>2. CASE toServer # <<>> /\ toServer' = SubSeq(toServer, 1, Len(toServer) - 1)
      BY <1>1, <3>2, Shortened
    <3>3. QED BY <1>8, <3>1, <3>2 DEF Lose
  <2>3. /\ toClient' \in Seq(Message)
        /\ \A i \in 1..Len(toClient') : i \in 1..Len(toClient) /\ toClient'[i] = toClient[i]
    <3>1. CASE toClient' = toClient BY <1>1, <3>1
    <3>2. CASE toClient # <<>> /\ toClient' = SubSeq(toClient, 1, Len(toClient) - 1)
      BY <1>1, <3>2, Shortened
    <3>3. QED BY <1>8, <3>1, <3>2 DEF Lose
  <2>4. \A i \in 1..Len(toServer') : 0 + i \in 1..Len(toServer) /\ toServer'[i] = toServer[0 + i]
    BY <1>3, <2>2
  <2>5. QED BY <1>1, <2>1, <2>2, <2>3, <2>4, LFewer
<1>9. CASE UNCHANGED vars
  BY <1>1, <1>3, <1>9, LFewer DEF vars, serverVars
<1>10. QED BY <1>5, <1>6, <1>7, <1>8, <1>9

\* LInv is inductive: one case per action.
LEMMA LNext == LInv /\ [Next]_vars => LInv'
<1> SUFFICES ASSUME LInv, [Next]_vars PROVE LInv'
  OBVIOUS
<1>1. CASE Connect \/ MainLoop \/ ChooseStatus \/ ChooseUpdate \/ Leave \/ Check \/ StackOverflow
  BY <1>1, LQuiet
<1>2. CASE Sigint \/ Sigterm BY <1>2, LSignal
<1>3. CASE send_message_to_server BY <1>3, LSend
<1>4. CASE Recv BY <1>4, LRecv
<1>5. CASE Serve BY <1>5, LServe
<1>6. CASE ServeFails \/ EndConn \/ Close \/ Lose \/ UNCHANGED vars BY <1>6, LOther
<1>7. QED
  BY <1>1, <1>2, <1>3, <1>4, <1>5, <1>6 DEF Next, ClientStep, ServerStep

\* LInv holds in every state of a client session: replies and requests keep the
\* order in which the client asked, and the oldest lags by no more than the
\* waits that signals ended.
THEOREM LagInvariance == Fits /\ Spec => []LInv
<1>1. LInv /\ [Next]_vars => LInv' BY LNext
<1>2. QED BY <1>1, LInit, PTL DEF Spec

\* LagBounded: where every message fits BUFFER_SIZE, a reply that is shown
\* lags behind the request just sent by no more requests than signals made the
\* client abandon, over TCP with replies joined or torn by recv and over UDP
\* with losses (client.c:108, comunication_handler.c:236).
THEOREM LagSafe == Fits /\ Spec => []LagBounded
<1>1. LInv => LagBounded BY DEF LInv
<1>2. QED BY <1>1, LagInvariance, PTL

\* TypeOK: every variable of a session keeps its type, and what waits in the
\* stream is whole messages but for the first, whether or not messages fit
\* the receive buffer (client.c:75-130).
THEOREM SessionTypes == Spec => []TypeOK
<1>1. TInv => TypeOK BY DEF TInv
<1>2. QED BY <1>1, TInit, TNext, PTL DEF Spec
=============================================================================
