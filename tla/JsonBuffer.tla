----------------------------- MODULE JsonBuffer -----------------------------
(***************************************************************************)
(* A text buffer to which keys are added by any sequence of calls of       *)
(* cjson_add_key_value_to_json_string and merge_json_strings, as the       *)
(* client builds a request and the server a reply.                         *)
(***************************************************************************)
EXTENDS CJson, FiniteSets

CONSTANTS Keys,
          Texts,   \* texts given as values
          Others   \* texts merged into the buffer

VARIABLES json,  \* the buffer
          ret    \* what the last call returned

vars == <<json, ret>>

Flags == SUBSET {"OVERRIDE", "INTPARSE", "OBJPARSE"}

\* The values that can get into the buffer.
Value ==
  ({NewValue(t, flags) : t \in Texts, flags \in Flags} \cup
   UNION {{m.value : m \in Range(Members(cJSON_Parse(t)))} :
            t \in {u \in Others : cJSON_Parse(u) # Null}}) \ {Null}

ASSUME KeysDiffer == \A k, l \in Keys : Lower[k] = Lower[l] => k = l
ASSUME OthersType ==
  \A t \in Others : cJSON_Parse(t) # Null => IsMapping(cJSON_Parse(t), Keys, Value)
ASSUME NullIsNoObject == Null \notin [object : Seq(MemberOf(Keys, Value))]

\* Buffers start cleared, or with bytes that are no JSON.
Init == json = [word |-> "cleared"] /\ ret = 0

Result(r) == json' = r.text /\ ret' = r.ret

Add(key, t, flags) == Result(cjson_add_key_value_to_json_string(json, key, t, flags))
Merge(t)           == Result(merge_json_strings(json, t))

Next ==
  \/ \E key \in Keys, t \in Texts, flags \in Flags : Add(key, t, flags)
  \/ \E t \in Others : Merge(t)

Spec == Init /\ [][Next]_vars

-----------------------------------------------------------------------------
\* The members as a mapping: what a key is bound to, Null when it is not there.
Bound(t, key) ==
  IF cJSON_Parse(t) = Null THEN Null
  ELSE cJSON_GetObjectItemCaseSensitive(cJSON_Parse(t), key)

\* Whatever is added and merged, no key is in the object twice, so a lookup,
\* which stops at the first, finds the last value given to it
\* (cjson_handler.c:155-167, 276-284).
UniqueKeys ==
  cJSON_Parse(json) # Null =>
    LET ms == Members(cJSON_Parse(json))
    IN  Len(ms) = Cardinality({ms[i].key : i \in 1..Len(ms)})

\* A call that adds a key binds that key, to the value its flags make of the
\* text, and no other; without OVERRIDE it binds a new key only, and a
\* text that OBJPARSE cannot parse changes nothing (cjson_handler.c:98-181).
AddBindsOneKey ==
  \A key \in Keys, t \in Texts, flags \in Flags :
    LET after == cjson_add_key_value_to_json_string(json, key, t, flags).text
        new   == NewValue(t, flags)
    IN  \A k \in Keys :
          Bound(after, k) =
            IF k = key /\ new # Null /\ ("OVERRIDE" \in flags \/ Bound(json, k) = Null)
            THEN new ELSE Bound(json, k)

\* A merge that returns 0 binds the keys of both texts, those they share as
\* the second has them; one that returns 1 leaves the buffer alone
\* (cjson_handler.c:248-293).
MergeOverrides ==
  \A t \in Others :
    LET r == merge_json_strings(json, t)
    IN  \A k \in Keys :
          Bound(r.text, k) = IF r.ret = 0 /\ Bound(t, k) # Null
                             THEN Bound(t, k) ELSE Bound(json, k)

\* Why: the buffer is cleared, or holds the text of an object that is a mapping.
IsBuffer(t) ==
  \/ t = [word |-> "cleared"]
  \/ /\ t = [json |-> [object |-> Members(cJSON_Parse(t))]]
     /\ IsMapping(cJSON_Parse(t), Keys, Value)
JInv == IsBuffer(json)
=============================================================================
