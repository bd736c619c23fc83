----------------------------- MODULE SendMessage -----------------------------
(***************************************************************************)
(* One call of send_message: a text goes to a socket, in one send when it  *)
(* fits the local buffer and in parts when it does not.                    *)
(*                                                                         *)
(* A byte of the text is its position, 1..text; NUL is 0; Junk is what the *)
(* stack holds behind socket_buffer.  send is taken to accept all it is    *)
(* given or to fail.                                                       *)
(***************************************************************************)
EXTENDS Naturals, Sequences

CONSTANTS BUFFER_SIZE,
          MaxText,      \* bound: length of a text
          Junk

ASSUME SizesType == BUFFER_SIZE \in Nat \ {0} /\ MaxText \in Nat /\ Junk \notin Nat

VARIABLES text,           \* strlen(json_buffer)
          b_size,
          slice,
          socket_buffer,
          pc,             \* "whole", "part", "last", or "returned"
          result,
          wire            \* all that was sent

vars == <<text, b_size, slice, socket_buffer, pc, result, wire>>

NUL == 0
Byte == 0..MaxText \cup {Junk}

TypeOK ==
  /\ text \in 1..MaxText
  /\ b_size \in Nat
  /\ slice \in 0..MaxText
  /\ socket_buffer \in [1..BUFFER_SIZE -> 0..MaxText]
  /\ pc \in {"whole", "part", "last", "returned"}
  /\ result \in {0, 1}
  /\ wire \in Seq(Byte)

\* The client gives its array of BUFFER_SIZE bytes, which holds the text and
\* its terminator; the server gives the length of the text.
Init ==
  /\ text \in 1..MaxText
  /\ b_size \in {text} \cup (IF text < BUFFER_SIZE THEN {BUFFER_SIZE} ELSE {})
  /\ slice = 0
  /\ socket_buffer = [i \in 1..BUFFER_SIZE |-> NUL]
  /\ pc = IF b_size <= BUFFER_SIZE THEN "whole" ELSE "part"
  /\ result = 0
  /\ wire = <<>>

\* Mutant of strncpy: only the text is copied, and nothing behind it.
Memcpy(from, n) ==
  [i \in 1..BUFFER_SIZE |->
     IF i <= n /\ from + i <= text THEN from + i ELSE socket_buffer[i]]

\* socket_buffer after strncpy(socket_buffer, json_buffer + from, n).
strncpy(from, n) ==
  [i \in 1..BUFFER_SIZE |->
     IF i > n THEN socket_buffer[i]
     ELSE IF from + i <= text THEN from + i ELSE NUL]

\* An empty buffer is not sent; otherwise size bytes are, wherever they lie.
send_message_to_socket(size) ==
  \/ /\ size = 0 \/ socket_buffer'[1] = NUL
     /\ result' = 0
     /\ wire' = wire
  \/ /\ size # 0 /\ socket_buffer'[1] # NUL
     /\ result' = 0
     /\ wire' = wire \o [i \in 1..size |-> IF i <= BUFFER_SIZE THEN socket_buffer'[i] ELSE Junk]
  \/ /\ size # 0 /\ socket_buffer'[1] # NUL
     /\ result' = 1
     /\ wire' = wire

\* b_size <= BUFFER_SIZE.
SendWhole ==
  /\ pc = "whole"
  /\ socket_buffer' = strncpy(0, b_size)
  /\ send_message_to_socket(b_size)
  /\ pc' = "returned"
  /\ UNCHANGED <<text, b_size, slice>>

\* Mutant of SendPart: the loop runs while a byte is left.
SendPartLate ==
  /\ pc = "part"
  /\ IF slice > b_size
     THEN pc' = "last" /\ UNCHANGED <<slice, socket_buffer, result, wire>>
     ELSE /\ socket_buffer' = strncpy(slice, BUFFER_SIZE)
          /\ send_message_to_socket(BUFFER_SIZE)
          /\ slice' = slice + BUFFER_SIZE
          /\ pc' = IF result' = 1 THEN "returned" ELSE "part"
  /\ UNCHANGED <<text, b_size>>

\* Mutant of SendPart: room is left for a terminator.
SendPartKeepsLast ==
  /\ pc = "part"
  /\ IF slice + BUFFER_SIZE > b_size
     THEN pc' = "last" /\ UNCHANGED <<slice, socket_buffer, result, wire>>
     ELSE /\ socket_buffer' = strncpy(slice, BUFFER_SIZE)
          /\ send_message_to_socket(BUFFER_SIZE)
          /\ slice' = slice + BUFFER_SIZE - 1
          /\ pc' = IF result' = 1 THEN "returned" ELSE "part"
  /\ UNCHANGED <<text, b_size>>

\* A turn of the loop, or its break.
SendPart ==
  /\ pc = "part"
  /\ IF slice + BUFFER_SIZE > b_size
     THEN pc' = "last" /\ UNCHANGED <<slice, socket_buffer, result, wire>>
     ELSE /\ socket_buffer' = strncpy(slice, BUFFER_SIZE)
          /\ send_message_to_socket(BUFFER_SIZE)
          /\ IF result' = 1
             THEN pc' = "returned" /\ UNCHANGED slice
             ELSE UNCHANGED pc /\ slice' = slice + BUFFER_SIZE
  /\ UNCHANGED <<text, b_size>>

\* The rest, sent with the length of the whole text.
SendLast ==
  /\ pc = "last"
  /\ socket_buffer' = strncpy(slice, BUFFER_SIZE)
  /\ send_message_to_socket(text)
  /\ pc' = "returned"
  /\ UNCHANGED <<text, b_size, slice>>

Next == SendWhole \/ SendPart \/ SendLast

Spec == Init /\ [][Next]_vars

-----------------------------------------------------------------------------
\* Whether send_message has returned, with 0 or with 1, or is still at it, the
\* bytes sent begin with the text in order, as far as they go: no part is
\* skipped, repeated or shifted (comunication_handler.c:199-214).
SentInOrder == \A i \in 1..Len(wire) : i <= text => wire[i] = i

\* When send_message returns 0 the whole text was sent, and the byte behind
\* it, if there is one, is a NUL: what the oversized last send takes from
\* the stack never becomes part of the string (comunication_handler.c:213).
\* There is none behind a short text of the server's, whose length leaves the
\* terminator out, nor behind a text of a whole number of buffers.
TextThenNul ==
  pc = "returned" /\ result = 0 =>
    /\ Len(wire) >= text
    /\ Len(wire) > text => wire[text + 1] = NUL

\* Why: inside the loop exactly the first slice bytes of the text were sent,
\* and the loop is left with less than a buffer of it to go.
SInv ==
  /\ TypeOK
  /\ pc = "whole" => wire = <<>> /\ b_size <= BUFFER_SIZE /\ text <= b_size
  /\ pc \in {"part", "last"} =>
       Len(wire) = slice /\ slice <= text /\ b_size = text /\ result = 0
  /\ pc = "last" => text < slice + BUFFER_SIZE
  /\ SentInOrder
  /\ TextThenNul
=============================================================================
