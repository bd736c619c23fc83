--------------------------- MODULE SnapshotStore ---------------------------
(***************************************************************************)
(* What data/state_summary.json promises to the processes that share it.   *)
(*                                                                         *)
(* There is one current document.  A process may take a snapshot of it,    *)
(* and may later commit one edit of its snapshot as the new current        *)
(* document, or drop the snapshot.  Nothing else changes the document: no  *)
(* half-written text, no mixture of two documents.                         *)
(*                                                                         *)
(* Nothing compares the snapshot with the current document at commit time, *)
(* so commits made in between are lost: the promise is no stronger.        *)
(***************************************************************************)
CONSTANTS
  Proc,       \* the processes
  BootDoc,    \* the first document
  NoDoc,      \* no document
  Update,     \* the updates a process can make
  Edit(_, _)  \* Edit(u, d) is the result of update u on document d

VARIABLES
  current,  \* the document
  snap      \* the snapshot each process holds, or NoDoc

Init ==
  /\ current = BootDoc
  /\ snap = [p \in Proc |-> NoDoc]

Take(p) ==
  /\ snap' = [snap EXCEPT ![p] = current]
  /\ UNCHANGED current

Commit(p) ==
  /\ snap[p] # NoDoc
  /\ \E u \in Update : current' = Edit(u, snap[p])
  /\ snap' = [snap EXCEPT ![p] = NoDoc]

Drop(p) ==
  /\ snap' = [snap EXCEPT ![p] = NoDoc]
  /\ UNCHANGED current

Next == \E p \in Proc : Take(p) \/ Commit(p) \/ Drop(p)

Spec == Init /\ [][Next]_<<current, snap>>
=============================================================================
