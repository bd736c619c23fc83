----------------------------- MODULE MCStateFile -----------------------------
(***************************************************************************)
(* Instances of StateFile for TLC.                                         *)
(***************************************************************************)
EXTENDS StateFile, TLC

CONSTANT c1

\* Every emergency process is the child of c1.
MCParent == [e \in Emer |-> c1]

\* One or two entrances, visited in turn.
MCNextEntry ==
  [e \in Entry |-> IF Entry = {e} THEN e ELSE CHOOSE x \in Entry : x # e]

\* The text grows by a character with the first alert, by two with the amount
\* "100" and by one with a garbled event.
MCDocLen(d) ==
  10 + (IF \E e \in Entry : d.alerts[e] > 0 THEN 1 ELSE 0)
     + (IF \E i \in Item : d.supplies[i] = "100" THEN 2 ELSE 0)
     + (IF d.emergency["last_event"] = "garbled" THEN 1 ELSE 0)
=============================================================================
