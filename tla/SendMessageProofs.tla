-------------------------- MODULE SendMessageProofs --------------------------
(***************************************************************************)
(* send_message for every buffer size and every length of text.            *)
(***************************************************************************)
EXTENDS SendMessage, TLAPS, SequenceTheorems

\* What the wire holds after a send of the bytes d.
LEMMA Sent ==
  ASSUME NEW w \in Seq(Byte), NEW size \in Nat, NEW d \in [1..size -> Byte]
  PROVE  /\ w \o d \in Seq(Byte)
         /\ Len(w \o d) = Len(w) + size
         /\ \A i \in 1..Len(w) : (w \o d)[i] = w[i]
         /\ \A i \in 1..size : (w \o d)[Len(w) + i] = d[i]
<1>1. d \in Seq(Byte) /\ Len(d) = size OBVIOUS
<1>2. QED BY <1>1

\* A send takes size bytes from the buffer b and from behind it.
LEMMA Taken ==
  ASSUME NEW size \in Nat, NEW b \in [1..BUFFER_SIZE -> 0..MaxText],
         NEW d, d = [i \in 1..size |-> IF i <= BUFFER_SIZE THEN b[i] ELSE Junk]
  PROVE  /\ d \in [1..size -> Byte]
         /\ \A i \in 1..size : i <= BUFFER_SIZE => d[i] = b[i]
<1>1. ASSUME NEW i \in 1..size PROVE d[i] \in Byte
  <2>1. CASE i <= BUFFER_SIZE
    <3>1. i \in 1..BUFFER_SIZE BY <2>1, SizesType
    <3>2. QED BY <2>1, <3>1 DEF Byte
  <2>2. CASE ~(i <= BUFFER_SIZE) BY <2>2 DEF Byte
  <2>3. QED BY <2>1, <2>2
<1>2. QED BY <1>1

\* strncpy fills a buffer with text and NULs.
LEMMA Copied ==
  ASSUME TypeOK, NEW from \in Nat, NEW n \in Nat
  PROVE  /\ strncpy(from, n) \in [1..BUFFER_SIZE -> 0..MaxText]
         /\ \A i \in 1..BUFFER_SIZE : i <= n =>
              strncpy(from, n)[i] = IF from + i <= text THEN from + i ELSE 0
<1>1. ASSUME NEW i \in 1..BUFFER_SIZE PROVE strncpy(from, n)[i] \in 0..MaxText
  <2>1. i \in Nat /\ text \in 1..MaxText /\ MaxText \in Nat /\ socket_buffer[i] \in 0..MaxText
    BY SizesType DEF TypeOK
  <2>2. QED BY <2>1 DEF strncpy, NUL
<1>2. strncpy(from, n) = [i \in 1..BUFFER_SIZE |-> strncpy(from, n)[i]]
  BY DEF strncpy
<1>3. \A i \in 1..BUFFER_SIZE : i <= n =>
        strncpy(from, n)[i] = IF from + i <= text THEN from + i ELSE 0
  BY SizesType DEF strncpy, NUL
<1>4. QED BY <1>1, <1>2, <1>3

LEMMA SInit == Init => SInv
<1> SUFFICES ASSUME Init PROVE SInv
  OBVIOUS
<1> USE SizesType
<1>1. TypeOK
  BY DEF Init, TypeOK, NUL
<1>2. SentInOrder /\ TextThenNul
  BY DEF Init, SentInOrder, TextThenNul
<1>3. QED BY <1>1, <1>2 DEF Init, SInv, TypeOK

\* The single send of a text that fits.
LEMMA Whole == SInv /\ SendWhole => SInv'
<1> SUFFICES ASSUME SInv, SendWhole PROVE SInv'
  OBVIOUS
<1> DEFINE b == socket_buffer'
<1> DEFINE d == [i \in 1..b_size |-> IF i <= BUFFER_SIZE THEN b[i] ELSE Junk]
<1>1. /\ wire = <<>> /\ b_size \in Nat /\ b_size <= BUFFER_SIZE /\ text <= b_size
      /\ text \in 1..MaxText /\ wire \in Seq(Byte) /\ pc' = "returned"
      /\ UNCHANGED <<text, b_size, slice>> /\ BUFFER_SIZE \in Nat \ {0} /\ MaxText \in Nat
  BY SizesType DEF SInv, SendWhole, TypeOK
<1>2. /\ b \in [1..BUFFER_SIZE -> 0..MaxText]
      /\ \A i \in 1..BUFFER_SIZE : i <= b_size => b[i] = IF i <= text THEN i ELSE 0
  <2>1. b = strncpy(0, b_size) BY DEF SendWhole
  <2>2. /\ strncpy(0, b_size) \in [1..BUFFER_SIZE -> 0..MaxText]
        /\ \A i \in 1..BUFFER_SIZE : i <= b_size =>
             strncpy(0, b_size)[i] = IF 0 + i <= text THEN 0 + i ELSE 0
    BY <1>1, Copied DEF SInv
  <2>3. QED BY <1>1, <2>1, <2>2
<1>3. b[1] = 1 /\ b_size # 0 BY <1>1, <1>2
<1>4. result' \in {0, 1} /\ (result' = 1 => wire' = wire)
      /\ (result' = 0 => wire' = wire \o d)
  <2>1. send_message_to_socket(b_size) BY DEF SendWhole
  <2>2. QED BY <1>1, <1>3, <2>1 DEF send_message_to_socket, NUL
<1>5. CASE result' = 1
  <2>1. wire' = <<>> BY <1>1, <1>4, <1>5
  <2>2. TypeOK' BY <1>1, <1>2, <1>5, <2>1 DEF SInv, TypeOK
  <2>3. QED BY <1>1, <1>5, <2>1, <2>2 DEF SInv, SentInOrder, TextThenNul
<1>6. CASE result' = 0
  <2> HIDE DEF b
  <2>1. wire' = wire \o d BY <1>4, <1>6
  <2>2. /\ wire' \in Seq(Byte)
        /\ Len(wire') = Len(wire) + b_size
        /\ \A i \in 1..b_size : i <= BUFFER_SIZE => wire'[Len(wire) + i] = b[i]
    <3>1. wire \in Seq(Byte) /\ b_size \in Nat /\ b \in [1..BUFFER_SIZE -> 0..MaxText]
      BY <1>1, <1>2
    <3>2. d \in [1..b_size -> Byte] /\ \A i \in 1..b_size : i <= BUFFER_SIZE => d[i] = b[i]
      BY <3>1, Taken
    <3> HIDE DEF d
    <3>3. QED BY <2>1, <3>1, <3>2, Sent
  <2>3. Len(wire) = 0 BY <1>1
  <2>4. Len(wire') = b_size /\ \A i \in 1..b_size : wire'[i] = b[i]
    BY <1>1, <2>2, <2>3
  <2>5. \A i \in 1..b_size : wire'[i] = IF i <= text THEN i ELSE 0
    BY <1>1, <1>2, <2>4
  <2>6. SentInOrder' BY <1>1, <2>4, <2>5 DEF SentInOrder
  <2>7. TextThenNul' BY <1>1, <2>4, <2>5 DEF TextThenNul, NUL
  <2>8. TypeOK' BY <1>1, <1>2, <1>6, <2>2 DEF SInv, TypeOK, b
  <2>9. QED BY <1>1, <2>6, <2>7, <2>8 DEF SInv
<1>7. QED BY <1>4, <1>5, <1>6

\* A full part.
LEMMA Part == SInv /\ SendPart => SInv'
<1> SUFFICES ASSUME SInv, SendPart PROVE SInv'
  OBVIOUS
<1> DEFINE b == socket_buffer'
<1> DEFINE d == [i \in 1..BUFFER_SIZE |-> IF i <= BUFFER_SIZE THEN b[i] ELSE Junk]
<1>1. /\ pc = "part" /\ Len(wire) = slice /\ slice <= text /\ b_size = text /\ result = 0
      /\ text \in 1..MaxText /\ wire \in Seq(Byte) /\ slice \in Nat
      /\ UNCHANGED <<text, b_size>> /\ BUFFER_SIZE \in Nat \ {0} /\ MaxText \in Nat
  BY SizesType DEF SInv, SendPart, TypeOK
<1>2. CASE slice + BUFFER_SIZE > b_size
  <2>1. pc' = "last" /\ UNCHANGED <<slice, socket_buffer, result, wire>>
    BY <1>2 DEF SendPart
  <2>2. TypeOK' BY <1>1, <2>1 DEF SInv, TypeOK
  <2>3. SentInOrder' /\ TextThenNul' BY <1>1, <2>1 DEF SInv, SentInOrder, TextThenNul
  <2>4. QED BY <1>1, <1>2, <2>1, <2>2, <2>3 DEF SInv
<1>3. CASE ~(slice + BUFFER_SIZE > b_size)
  <2>0. slice + BUFFER_SIZE <= text BY <1>1, <1>3
  <2>1. /\ b = strncpy(slice, BUFFER_SIZE)
        /\ send_message_to_socket(BUFFER_SIZE)
        /\ IF result' = 1
           THEN pc' = "returned" /\ UNCHANGED slice
           ELSE UNCHANGED pc /\ slice' = slice + BUFFER_SIZE
    BY <1>3 DEF SendPart
  <2>2. /\ b \in [1..BUFFER_SIZE -> 0..MaxText]
        /\ \A i \in 1..BUFFER_SIZE : b[i] = slice + i
    <3>1. /\ strncpy(slice, BUFFER_SIZE) \in [1..BUFFER_SIZE -> 0..MaxText]
          /\ \A i \in 1..BUFFER_SIZE : i <= BUFFER_SIZE =>
               strncpy(slice, BUFFER_SIZE)[i] = IF slice + i <= text THEN slice + i ELSE 0
      BY <1>1, Copied DEF SInv
    <3>2. \A i \in 1..BUFFER_SIZE : i <= BUFFER_SIZE /\ slice + i <= text
      BY <1>1, <2>0
    <3>3. QED BY <2>1, <3>1, <3>2
  <2>3. b[1] # 0 BY <1>1, <2>2
  <2>4. result' \in {0, 1} /\ (result' = 1 => wire' = wire)
        /\ (result' = 0 => wire' = wire \o d)
    BY <1>1, <2>1, <2>3 DEF send_message_to_socket, NUL
  <2>5. CASE result' = 1
    <3>1. TypeOK' BY <1>1, <2>1, <2>2, <2>4, <2>5 DEF SInv, TypeOK
    <3>2. QED BY <1>1, <2>1, <2>4, <2>5, <3>1 DEF SInv, SentInOrder, TextThenNul
  <2>6. CASE result' = 0
    <3> HIDE DEF b
    <3>1. wire' = wire \o d BY <2>4, <2>6
    <3>2. /\ wire' \in Seq(Byte)
          /\ Len(wire') = Len(wire) + BUFFER_SIZE
          /\ \A i \in 1..Len(wire) : wire'[i] = wire[i]
          /\ \A i \in 1..BUFFER_SIZE : i <= BUFFER_SIZE => wire'[Len(wire) + i] = b[i]
      <4>1. wire \in Seq(Byte) /\ BUFFER_SIZE \in Nat /\ b \in [1..BUFFER_SIZE -> 0..MaxText]
        BY <1>1, <2>2
      <4>2. d \in [1..BUFFER_SIZE -> Byte] /\ \A i \in 1..BUFFER_SIZE : i <= BUFFER_SIZE => d[i] = b[i]
        BY <4>1, Taken
      <4> HIDE DEF d
      <4>3. QED BY <3>1, <4>1, <4>2, Sent
    <3>3. slice' = slice + BUFFER_SIZE /\ pc' = "part" /\ Len(wire') = slice' /\ slice' <= text
      BY <1>1, <2>0, <2>1, <2>6, <3>2
    <3>4. SentInOrder'
      <4>1. SUFFICES ASSUME NEW i \in 1..Len(wire') PROVE wire'[i] = i
        BY DEF SentInOrder
      <4>2. CASE i <= slice
        BY <1>1, <3>2, <4>2 DEF SInv, SentInOrder
      <4>3. CASE ~(i <= slice)
        <5>1. i - slice \in 1..BUFFER_SIZE /\ slice + (i - slice) = i
          BY <1>1, <3>3, <4>3
        <5>2. wire'[slice + (i - slice)] = slice + (i - slice)
          BY <1>1, <2>2, <3>2, <5>1, SMTT(30)
        <5>3. QED BY <5>1, <5>2, SMTT(30)
      <4>4. QED BY <4>2, <4>3
    <3>5. TypeOK'
      <4>1. slice' \in 0..MaxText BY <1>1, <3>3
      <4>2. QED BY <1>1, <2>2, <2>6, <3>2, <3>3, <4>1 DEF SInv, TypeOK, b
    <3>6. TextThenNul' BY <3>3 DEF TextThenNul
    <3>7. QED BY <1>1, <2>6, <3>3, <3>4, <3>5, <3>6 DEF SInv
  <2>7. QED BY <2>4, <2>5, <2>6
<1>4. QED BY <1>2, <1>3

\* The rest, and what is sent behind it.
LEMMA Last == SInv /\ SendLast => SInv'
<1> SUFFICES ASSUME SInv, SendLast PROVE SInv'
  OBVIOUS
<1> DEFINE b == socket_buffer'
<1> DEFINE d == [i \in 1..text |-> IF i <= BUFFER_SIZE THEN b[i] ELSE Junk]
<1>1. /\ Len(wire) = slice /\ slice <= text /\ text < slice + BUFFER_SIZE
      /\ text \in 1..MaxText /\ wire \in Seq(Byte) /\ slice \in Nat
      /\ pc' = "returned"
      /\ UNCHANGED <<text, b_size, slice>> /\ BUFFER_SIZE \in Nat \ {0} /\ MaxText \in Nat
  BY SizesType DEF SInv, SendLast, TypeOK
<1>2. /\ b \in [1..BUFFER_SIZE -> 0..MaxText]
      /\ \A i \in 1..BUFFER_SIZE : b[i] = IF slice + i <= text THEN slice + i ELSE 0
  <2>1. /\ strncpy(slice, BUFFER_SIZE) \in [1..BUFFER_SIZE -> 0..MaxText]
        /\ \A i \in 1..BUFFER_SIZE : i <= BUFFER_SIZE =>
             strncpy(slice, BUFFER_SIZE)[i] = IF slice + i <= text THEN slice + i ELSE 0
    BY <1>1, Copied DEF SInv
  <2>2. \A i \in 1..BUFFER_SIZE : i <= BUFFER_SIZE BY <1>1
  <2>3. QED BY <2>1, <2>2 DEF SendLast
<1>3. result' \in {0, 1}
      /\ \/ wire' = wire /\ (result' = 1 \/ b[1] = 0)
         \/ wire' = wire \o d /\ result' = 0 /\ b[1] # 0
  <2>1. send_message_to_socket(text) BY DEF SendLast
  <2>2. QED BY <1>1, <2>1, SMTT(30) DEF send_message_to_socket, NUL
<1>4. CASE wire' = wire /\ (result' = 1 \/ b[1] = 0)
  <2>1. TypeOK' BY <1>1, <1>2, <1>3, <1>4 DEF SInv, TypeOK
  <2>2. SentInOrder' BY <1>1, <1>4 DEF SInv, SentInOrder
  <2>3. TextThenNul'
    <3>1. b[1] = 0 => slice = text BY <1>1, <1>2
    <3>2. QED BY <1>1, <1>4, <3>1 DEF TextThenNul
  <2>4. QED BY <1>1, <2>1, <2>2, <2>3 DEF SInv
<1>5. CASE wire' = wire \o d /\ result' = 0 /\ b[1] # 0
  <2>0. slice < text BY <1>1, <1>2, <1>5
  <2> HIDE DEF b
  <2>1. /\ wire' \in Seq(Byte)
        /\ Len(wire') = slice + text
        /\ \A i \in 1..slice : wire'[i] = wire[i]
        /\ \A i \in 1..text : i <= BUFFER_SIZE => wire'[slice + i] = b[i]
    <3>1. wire \in Seq(Byte) /\ text \in Nat /\ b \in [1..BUFFER_SIZE -> 0..MaxText]
      BY <1>1, <1>2
    <3>2. /\ wire' \in Seq(Byte)
          /\ Len(wire') = Len(wire) + text
          /\ \A i \in 1..Len(wire) : wire'[i] = wire[i]
          /\ \A i \in 1..text : i <= BUFFER_SIZE => wire'[Len(wire) + i] = b[i]
      <4>1. d \in [1..text -> Byte] /\ \A i \in 1..text : i <= BUFFER_SIZE => d[i] = b[i]
        BY <3>1, Taken
      <4> HIDE DEF d
      <4>2. QED BY <1>5, <3>1, <4>1, Sent
    <3>3. QED BY <1>1, <3>2
  <2>2. SentInOrder'
    <3>1. SUFFICES ASSUME NEW i \in 1..Len(wire'), i <= text PROVE wire'[i] = i
      BY <1>1 DEF SentInOrder
    <3>2. CASE i <= slice
      BY <1>1, <2>1, <3>1, <3>2 DEF SInv, SentInOrder
    <3>3. CASE ~(i <= slice)
      <4>1. /\ i - slice \in 1..BUFFER_SIZE /\ i - slice \in 1..text
            /\ slice + (i - slice) = i
        BY <1>1, <2>1, <3>1, <3>3
      <4>2. wire'[slice + (i - slice)] = b[i - slice]
        BY <1>1, <2>1, <4>1
      <4>3. b[i - slice] = i BY <1>2, <3>1, <4>1
      <4>4. QED BY <4>1, <4>2, <4>3
    <3>4. QED BY <3>2, <3>3
  <2>3. TextThenNul'
    <3>1. Len(wire') >= text BY <1>1, <2>1
    <3>2. ASSUME Len(wire') > text PROVE wire'[text + 1] = 0
      <4> DEFINE k == text + 1 - slice
      <4>1. k \in 1..BUFFER_SIZE /\ slice + k = text + 1 /\ k \in 1..(text + 1)
        BY <1>1, <2>0
      <4>2. k \in 1..text BY <1>1, <2>1, <3>2
      <4> HIDE DEF k
      <4>3. b[k] = 0 BY <1>1, <1>2, <4>1
      <4>4. wire'[slice + k] = b[k] BY <1>1, <2>1, <4>1, <4>2
      <4>5. QED BY <4>1, <4>3, <4>4
    <3>3. QED BY <1>1, <3>1, <3>2 DEF TextThenNul, NUL
  <2>4. TypeOK' BY <1>1, <1>2, <1>5, <2>1 DEF SInv, TypeOK, b
  <2>5. QED BY <1>1, <2>2, <2>3, <2>4 DEF SInv
<1>6. QED BY <1>3, <1>4, <1>5

\* SInv holds throughout a call of send_message, for every buffer size, every
\* text and either way it is called.
THEOREM SendInvariance == Spec => []SInv
<1>1. SInv /\ UNCHANGED vars => SInv'
  BY DEF SInv, TypeOK, SentInOrder, TextThenNul, vars
<1>2. SInv /\ [Next]_vars => SInv'
  BY <1>1, Whole, Part, Last DEF Next
<1>3. QED BY <1>2, SInit, PTL DEF Spec

\* TypeOK: slice stays within the text, and the buffer holds text and NULs.
THEOREM SendTypes == Spec => []TypeOK
<1>1. SInv => TypeOK BY DEF SInv
<1>2. QED BY <1>1, SendInvariance, PTL

\* SentInOrder: no part is skipped, repeated or shifted
\* (comunication_handler.c:199-214).
THEOREM PartsInOrder == Spec => []SentInOrder
<1>1. SInv => SentInOrder BY DEF SInv
<1>2. QED BY <1>1, SendInvariance, PTL

\* TextThenNul: a call that returns 0 sent the whole text, and nothing of the
\* stack can be read as part of it (comunication_handler.c:213).
THEOREM TextComplete == Spec => []TextThenNul
<1>1. SInv => TextThenNul BY DEF SInv
<1>2. QED BY <1>1, SendInvariance, PTL
=============================================================================
