---------------------------- MODULE MCJsonBuffer ----------------------------
(***************************************************************************)
(* Three keys that differ in more than case; values of every kind, zero    *)
(* among the numbers.                                                      *)
(***************************************************************************)
EXTENDS JsonBuffer

MCKeys == {"command", "key", "value"}
MCLower == [k \in MCKeys |-> k]

Object(ms) == [json |-> [object |-> ms]]
Member(k, n) == [key |-> k, value |-> [number |-> n]]

MCTexts == {[d |-> 0], [f |-> 7], [word |-> "meat"], Object(<<>>)}
MCOthers == {[word |-> "meat"], Object(<<Member("key", 1)>>),
             Object(<<Member("value", 2), Member("command", 3)>>)}
=============================================================================
