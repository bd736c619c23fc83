---------------------------- MODULE AlertChannel ----------------------------
(***************************************************************************)
(* What the sensors and the alert listener promise together: a channel     *)
(* that takes an alert at most once, hands the alerts over in the order in *)
(* which it took them, and loses them only all at once.                    *)
(***************************************************************************)
EXTENDS Sequences

CONSTANT Alert

VARIABLES
  taken,     \* alerts the channel accepted so far
  channel,   \* those on their way
  received   \* those handed over, in order

cvars == <<taken, channel, received>>

Init == taken = {} /\ channel = <<>> /\ received = <<>>

Take(a) ==
  /\ a \notin taken
  /\ taken' = taken \cup {a}
  /\ channel' = Append(channel, a)
  /\ UNCHANGED received

HandOver ==
  /\ channel # <<>>
  /\ received' = Append(received, Head(channel))
  /\ channel' = Tail(channel)
  /\ UNCHANGED taken

LoseAll ==
  /\ channel' = <<>>
  /\ UNCHANGED <<taken, received>>

Next == (\E a \in Alert : Take(a)) \/ HandOver \/ LoseAll

Spec == Init /\ [][Next]_cvars
=============================================================================
