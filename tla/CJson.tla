------------------------------- MODULE CJson -------------------------------
(***************************************************************************)
(* The JSON helpers of cjson_handler.c, as operators.                      *)
(*                                                                         *)
(* A value is [number |-> n], [string |-> text] or [object |-> members],   *)
(* where members is a sequence of [key, value] in the order they are       *)
(* printed.  A text is [json |-> v], what cJSON_Print makes of v;          *)
(* [d |-> n] and [f |-> n], what "%d" and "%f" make of n; or [word |-> w], *)
(* which is neither a number nor JSON.                                     *)
(*                                                                         *)
(* Running out of memory is left out.                                      *)
(***************************************************************************)
EXTENDS Integers, Sequences, SequencesExt

CONSTANTS Lower,  \* a key in lower case
          Null    \* a NULL pointer

-----------------------------------------------------------------------------
(***************************************************************************)
(* The C library and cJSON.                                                *)
(***************************************************************************)
atof(t) == IF "d" \in DOMAIN t THEN t.d ELSE IF "f" \in DOMAIN t THEN t.f ELSE 0

cJSON_Parse(t) ==
  IF "json" \in DOMAIN t THEN t.json
  ELSE IF "word" \in DOMAIN t THEN Null ELSE [number |-> atof(t)]

Members(v) == IF "object" \in DOMAIN v THEN v.object ELSE <<>>

\* The first member with exactly this key.
cJSON_GetObjectItemCaseSensitive(v, key) ==
  LET i == SelectInSeq(Members(v), LAMBDA m : m.key = key)
  IN  IF i = 0 THEN Null ELSE Members(v)[i].value

\* Without the first member whose key is the same but for upper and lower case.
cJSON_DeleteItemFromObject(v, key) ==
  [object |-> RemoveFirstMatch(Members(v), LAMBDA m : Lower[m.key] = Lower[key])]

cJSON_AddItemToObject(v, key, item) ==
  [object |-> Append(Members(v), [key |-> key, value |-> item])]

-----------------------------------------------------------------------------
(***************************************************************************)
(* Objects that can be taken for mappings from keys to values.             *)
(***************************************************************************)

\* No key is in ms twice.
Distinct(ms) == \A i, j \in 1..Len(ms) : ms[i].key = ms[j].key => i = j

MemberOf(K, V) == [key : K, value : V]

\* Keys of K, which differ in more than case, with values of V, none of them NULL.
IsMapping(v, K, V) ==
  /\ Members(v) \in Seq(MemberOf(K, V)) /\ Distinct(Members(v))
  /\ Null \notin V
  /\ \A k, l \in K : Lower[k] = Lower[l] => k = l

-----------------------------------------------------------------------------
(***************************************************************************)
(* cjson_handler.c.                                                        *)
(***************************************************************************)
is_key_in_json_object(v, key) == cJSON_GetObjectItemCaseSensitive(v, key) # Null

\* Mutant of get_value_of_key_from_json_object: a number is taken for a string.
GetAsString(v, key) ==
  LET item == cJSON_GetObjectItemCaseSensitive(v, key)
  IN  CASE item = Null -> Null
        [] item # Null /\ "string" \in DOMAIN item -> item.string
        [] item # Null /\ "number" \in DOMAIN item -> [word |-> item.number]
        [] item # Null /\ "object" \in DOMAIN item -> [json |-> item]

\* The value of a key as a text, or Null for the error.
get_value_of_key_from_json_object(v, key) ==
  LET item == cJSON_GetObjectItemCaseSensitive(v, key)
  IN  CASE item = Null -> Null
        [] item # Null /\ "string" \in DOMAIN item -> item.string
        [] item # Null /\ "number" \in DOMAIN item -> [f |-> item.number]
        [] item # Null /\ "object" \in DOMAIN item -> [json |-> item]

get_value_of_key_from_json_string(t, key) ==
  IF t = Null \/ cJSON_Parse(t) = Null THEN Null
  ELSE get_value_of_key_from_json_object(cJSON_Parse(t), key)

\* The value to add: a number if INTPARSE finds one other than zero, an object
\* if OBJPARSE says so, else a string.
NewValue(t, flags) ==
  IF "INTPARSE" \in flags /\ atof(t) # 0 THEN [number |-> atof(t)]
  ELSE IF "OBJPARSE" \in flags THEN cJSON_Parse(t) ELSE [string |-> t]

\* Mutant of Put: the new member goes in front, and an old one stays.
PutInFront(v, key, item) ==
  [object |-> <<[key |-> key, value |-> item]>> \o Members(v)]

\* Replace or add a member.
Put(v, key, item) ==
  cJSON_AddItemToObject(
    IF is_key_in_json_object(v, key) THEN cJSON_DeleteItemFromObject(v, key) ELSE v,
    key, item)

\* Mutant of cjson_add_key_value_to_json_string: OVERRIDE is not looked at.
AddOverrides(t, key, buffer, flags) ==
  LET old == IF cJSON_Parse(t) = Null THEN [object |-> <<>>] ELSE cJSON_Parse(t)
      new == NewValue(buffer, flags)
  IN  IF new = Null THEN [ret |-> 1, text |-> t]
      ELSE [ret |-> 0, text |-> [json |-> Put(old, key, new)]]

\* The result and the text left in the buffer t.  A key that exists and may not
\* be overridden leaves the buffer alone, and 0 is returned.
cjson_add_key_value_to_json_string(t, key, buffer, flags) ==
  LET old == IF cJSON_Parse(t) = Null THEN [object |-> <<>>] ELSE cJSON_Parse(t)
      new == NewValue(buffer, flags)
  IN  IF new = Null THEN [ret |-> 1, text |-> t]
      ELSE IF is_key_in_json_object(old, key) /\ "OVERRIDE" \notin flags
      THEN [ret |-> 0, text |-> t]
      ELSE [ret |-> 0, text |-> [json |-> Put(old, key, new)]]

\* v with every member of ms put into it, one after the other.
Merged(v, ms) ==
  LET upTo[i \in 0..Len(ms)] ==
        IF i = 0 THEN v ELSE Put(upTo[i - 1], ms[i].key, ms[i].value)
  IN  upTo[Len(ms)]

\* Mutant of merge_json_strings: the texts are exchanged.
MergeExchanged(t1, t2) ==
  IF cJSON_Parse(t1) = Null \/ cJSON_Parse(t2) = Null THEN [ret |-> 1, text |-> t1]
  ELSE [ret |-> 0, text |-> [json |-> Merged(cJSON_Parse(t2), Members(cJSON_Parse(t1)))]]

merge_json_strings(t1, t2) ==
  IF cJSON_Parse(t1) = Null \/ cJSON_Parse(t2) = Null THEN [ret |-> 1, text |-> t1]
  ELSE [ret |-> 0, text |-> [json |-> Merged(cJSON_Parse(t1), Members(cJSON_Parse(t2)))]]
=============================================================================
