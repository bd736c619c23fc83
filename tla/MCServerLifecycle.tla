-------------------------- MODULE MCServerLifecycle --------------------------
(***************************************************************************)
(* ServerLifecycle for TLC.                                                *)
(***************************************************************************)
EXTENDS ServerLifecycle, TLC

\* Clients differ only in name, and so do the two listeners and the children
\* that serve no TCP client.  Used by the runs that check invariants only.
Names == Permutations(Conn) \cup Permutations(Tcp) \cup Permutations(Other)
=============================================================================
