-------------------------- MODULE JsonBufferProofs --------------------------
(***************************************************************************)
(* A buffer behaves as a mapping from keys to values, whatever keys, texts *)
(* and objects the calls are given and however many calls there are, as    *)
(* long as keys differ in more than case.                                  *)
(***************************************************************************)
EXTENDS JsonBuffer, CJsonProofs, FunctionTheorems

\* An object that is a mapping survives being printed and parsed.
LEMMA Printed ==
  ASSUME NEW o, o = [object |-> Members(o)], IsMapping(o, Keys, Value)
  PROVE  o # Null /\ cJSON_Parse([json |-> o]) = o /\ IsBuffer([json |-> o])
<1>1. Members(o) \in Seq(MemberOf(Keys, Value)) BY DEF IsMapping
<1>2. o \in [object : Seq(MemberOf(Keys, Value))]
  <2> DEFINE ms == Members(o)
  <2>1. o = [object |-> ms] /\ ms \in Seq(MemberOf(Keys, Value)) BY <1>1
  <2> HIDE DEF ms
  <2>2. QED BY <2>1
<1>3. o # Null BY <1>2, NullIsNoObject
<1>4. cJSON_Parse([json |-> o]) = o BY DEF cJSON_Parse
<1>5. QED BY <1>3, <1>4 DEF IsBuffer

\* The object an addition starts from.
Old(t) == IF cJSON_Parse(t) = Null THEN [object |-> <<>>] ELSE cJSON_Parse(t)

\* What is in a buffer is a mapping, and a cleared buffer counts as empty.
LEMMA Read ==
  ASSUME NEW t, IsBuffer(t)
  PROVE  /\ IsMapping(Old(t), Keys, Value) /\ Old(t) = [object |-> Members(Old(t))]
         /\ \A k : Bound(t, k) = cJSON_GetObjectItemCaseSensitive(Old(t), k)
         /\ cJSON_Parse(t) # Null => cJSON_Parse(t) = Old(t)
<1>1. CASE t = [word |-> "cleared"]
  <2> DEFINE e == [object |-> <<>>]
  <2>1. cJSON_Parse(t) = Null BY <1>1 DEF cJSON_Parse
  <2>2. Old(t) = e BY <2>1 DEF Old
  <2>3. Members(e) = <<>> BY DEF Members
  <2>4. Null \notin Value BY DEF Value
  <2>5. IsMapping(e, Keys, Value) BY <2>3, <2>4, KeysDiffer DEF IsMapping, Distinct
  <2>6. e = [object |-> Members(e)] BY <2>3
  <2>7. \A k : cJSON_GetObjectItemCaseSensitive(e, k) = Null
    <3>1. Len(Members(e)) = 0 BY <2>3
    <3> HIDE DEF e
    <3>2. QED BY <3>1, NotFound
  <2> HIDE DEF e
  <2>8. QED BY <2>1, <2>2, <2>5, <2>6, <2>7 DEF Bound
<1>2. CASE t # [word |-> "cleared"]
  <2> DEFINE o == cJSON_Parse(t)
  <2>1. t = [json |-> [object |-> Members(o)]] /\ IsMapping(o, Keys, Value) BY <1>2 DEF IsBuffer
  <2>2. o = [object |-> Members(o)]
    <3> DEFINE ms == Members(o)
    <3>1. t = [json |-> [object |-> ms]] BY <2>1
    <3> HIDE DEF ms
    <3>2. cJSON_Parse(t) = [object |-> ms] BY <3>1 DEF cJSON_Parse
    <3>3. QED BY <3>2 DEF ms
  <2>3. o # Null BY <2>1, <2>2, Printed
  <2>4. Old(t) = o BY <2>3 DEF Old
  <2>5. \A k : Bound(t, k) = cJSON_GetObjectItemCaseSensitive(o, k) BY <2>3 DEF Bound
  <2> HIDE DEF o
  <2>6. QED BY <2>1, <2>2, <2>4, <2>5 DEF o
<1>3. QED BY <1>1, <1>2

\* An addition: the value of the key, those of the others, and the text.
LEMMA Adding ==
  ASSUME NEW t, IsBuffer(t), NEW key \in Keys, NEW buffer \in Texts, NEW flags \in Flags
  PROVE  LET after == cjson_add_key_value_to_json_string(t, key, buffer, flags).text
             new   == NewValue(buffer, flags)
         IN  /\ IsBuffer(after)
             /\ \A k : Bound(after, k) =
                  IF k = key /\ new # Null /\ ("OVERRIDE" \in flags \/ Bound(t, k) = Null)
                  THEN new ELSE Bound(t, k)
<1> DEFINE old == Old(t)
           new == NewValue(buffer, flags)
           after == cjson_add_key_value_to_json_string(t, key, buffer, flags).text
<1>1. /\ IsMapping(old, Keys, Value) /\ old = [object |-> Members(old)]
      /\ \A k : Bound(t, k) = cJSON_GetObjectItemCaseSensitive(old, k)
  BY Read
<1>2. is_key_in_json_object(old, key) <=> Bound(t, key) # Null
  BY <1>1 DEF is_key_in_json_object
<1>3. CASE new = Null \/ (is_key_in_json_object(old, key) /\ "OVERRIDE" \notin flags)
  <2>1. after = t BY <1>3 DEF cjson_add_key_value_to_json_string, Old
  <2>2. QED BY <1>2, <1>3, <2>1
<1>4. CASE new # Null /\ ~(is_key_in_json_object(old, key) /\ "OVERRIDE" \notin flags)
  <2> DEFINE o == Put(old, key, new)
  <2>1. after = [json |-> o] BY <1>4 DEF cjson_add_key_value_to_json_string, Old
  <2>2. new \in Value BY <1>4 DEF Value
  <2>3. /\ o = [object |-> Members(o)] /\ IsMapping(o, Keys, Value)
        /\ cJSON_GetObjectItemCaseSensitive(o, key) = new
        /\ \A k : k # key =>
             cJSON_GetObjectItemCaseSensitive(o, k) = cJSON_GetObjectItemCaseSensitive(old, k)
    <3> HIDE DEF old, new
    <3>1. QED BY <1>1, <2>2, PutUpdates
  <2> HIDE DEF o, old, new, after
  <2>4. o # Null /\ cJSON_Parse(after) = o /\ IsBuffer(after) BY <2>1, <2>3, Printed
  <2>5. \A k : Bound(after, k) = cJSON_GetObjectItemCaseSensitive(o, k) BY <2>4 DEF Bound
  <2>6. "OVERRIDE" \in flags \/ Bound(t, key) = Null BY <1>2, <1>4
  <2>7. QED BY <1>1, <1>4, <2>3, <2>4, <2>5, <2>6 DEF new, after
<1>5. QED BY <1>3, <1>4

\* A merge: the values of both, and the text.
LEMMA Merging ==
  ASSUME NEW t, IsBuffer(t), NEW u \in Others
  PROVE  LET r == merge_json_strings(t, u)
         IN  /\ IsBuffer(r.text)
             /\ \A k : Bound(r.text, k) =
                  IF r.ret = 0 /\ Bound(u, k) # Null THEN Bound(u, k) ELSE Bound(t, k)
<1> DEFINE r == merge_json_strings(t, u)
           v == cJSON_Parse(t)
           w == cJSON_Parse(u)
<1>1. CASE v = Null \/ w = Null
  <2>1. r = [ret |-> 1, text |-> t] BY <1>1 DEF merge_json_strings
  <2>2. r.ret = 1 /\ r.text = t BY <2>1
  <2> HIDE DEF r
  <2>3. QED BY <2>2 DEF r
<1>2. CASE v # Null /\ w # Null
  <2> DEFINE o == Merged(v, Members(w))
  <2>1. /\ IsMapping(v, Keys, Value) /\ v = [object |-> Members(v)]
        /\ \A k : Bound(t, k) = cJSON_GetObjectItemCaseSensitive(v, k)
    BY <1>2, Read
  <2>2. IsMapping(w, Keys, Value) BY <1>2, OthersType
  <2>3. \A k : Bound(u, k) = cJSON_GetObjectItemCaseSensitive(w, k) BY <1>2 DEF Bound
  <2>4. r = [ret |-> 0, text |-> [json |-> o]] BY <1>2 DEF merge_json_strings
  <2>5. r.ret = 0 /\ r.text = [json |-> o] BY <2>4
  <2> HIDE DEF r, v, w
  <2>6. /\ IsMapping(o, Keys, Value) /\ o = [object |-> Members(o)]
        /\ \A k : cJSON_GetObjectItemCaseSensitive(o, k) =
                    IF is_key_in_json_object(w, k) THEN cJSON_GetObjectItemCaseSensitive(w, k)
                    ELSE cJSON_GetObjectItemCaseSensitive(v, k)
    BY <2>1, <2>2, MergedUpdates
  <2> HIDE DEF o
  <2>7. o # Null /\ cJSON_Parse(r.text) = o /\ IsBuffer(r.text) BY <2>5, <2>6, Printed
  <2>8. \A k : Bound(r.text, k) = cJSON_GetObjectItemCaseSensitive(o, k) BY <2>7 DEF Bound
  <2>9. QED BY <2>1, <2>3, <2>5, <2>6, <2>7, <2>8 DEF is_key_in_json_object, r
<1>3. QED BY <1>1, <1>2

LEMMA JInit == Init => JInv
BY DEF Init, JInv, IsBuffer

LEMMA JNext == JInv /\ [Next]_vars => JInv'
<1> SUFFICES ASSUME JInv, [Next]_vars PROVE JInv'
  OBVIOUS
<1>1. ASSUME NEW key \in Keys, NEW t \in Texts, NEW flags \in Flags, Add(key, t, flags)
      PROVE  JInv'
  BY <1>1, Adding DEF Add, Result, JInv
<1>2. ASSUME NEW t \in Others, Merge(t) PROVE JInv'
  BY <1>2, Merging DEF Merge, Result, JInv
<1>3. CASE UNCHANGED vars BY <1>3 DEF vars, JInv, IsBuffer
<1>4. QED BY <1>1, <1>2, <1>3 DEF Next

\* JInv holds after any sequence of additions and merges: the buffer is cleared
\* or holds the text of an object in which every key is once and no value is
\* NULL.
THEOREM BufferInvariance == Spec => []JInv
<1>1. JInv /\ [Next]_vars => JInv' BY JNext
<1>2. QED BY <1>1, JInit, PTL DEF Spec

\* The number of keys of a mapping is the number of its members.
LEMMA Counted ==
  ASSUME NEW n \in Nat, NEW ms, Len(ms) = n, Distinct(ms)
  PROVE  n = Cardinality({ms[i].key : i \in 1..n})
<1> DEFINE S == {ms[i].key : i \in 1..n}
           f == [i \in 1..n |-> ms[i].key]
<1>1. f \in [1..n -> S] OBVIOUS
<1>2. \A i, j \in 1..n : f[i] = f[j] => i = j BY DEF Distinct
<1>3. \A x \in S : \E i \in 1..n : f[i] = x OBVIOUS
<1>4. f \in Bijection(1..n, S)
  <2> HIDE DEF f, S
  <2>1. QED BY <1>1, <1>2, <1>3, Fun_IsBij
<1>5. ExistsBijection(1..n, S) BY <1>4 DEF ExistsBijection
<1> HIDE DEF S
<1>6. Cardinality(S) = n BY <1>5, FS_CountingElements
<1>7. QED BY <1>6 DEF S

\* UniqueKeys: whatever is added and merged, no key is in the object twice
\* (cjson_handler.c:155-167, 276-284).
THEOREM KeysStayUnique == Spec => []UniqueKeys
<1>1. ASSUME JInv PROVE UniqueKeys
  <2>1. SUFFICES ASSUME cJSON_Parse(json) # Null
                 PROVE  LET ms == Members(cJSON_Parse(json))
                        IN  Len(ms) = Cardinality({ms[i].key : i \in 1..Len(ms)})
    BY DEF UniqueKeys
  <2> DEFINE ms == Members(cJSON_Parse(json))
  <2>2. IsMapping(cJSON_Parse(json), Keys, Value) BY <1>1, <2>1, Read DEF JInv
  <2>3. Distinct(ms) /\ Len(ms) \in Nat BY <2>2, Lookup DEF IsMapping
  <2> HIDE DEF ms
  <2>4. Len(ms) = Cardinality({ms[i].key : i \in 1..Len(ms)}) BY <2>3, Counted
  <2>5. QED BY <2>4 DEF ms
<1>2. QED BY <1>1, BufferInvariance, PTL

\* AddBindsOneKey: in every state the buffer can be in, a call that adds a key
\* binds that key and no other, as its flags say (cjson_handler.c:98-181).
THEOREM AdditionsExact == Spec => []AddBindsOneKey
<1>1. ASSUME JInv PROVE AddBindsOneKey
  BY <1>1, Adding DEF JInv, AddBindsOneKey
<1>2. QED BY <1>1, BufferInvariance, PTL

\* MergeOverrides: in every state the buffer can be in, a merge binds the keys
\* of both texts, those they share as the second has them
\* (cjson_handler.c:248-293).
THEOREM MergesExact == Spec => []MergeOverrides
<1>1. ASSUME JInv PROVE MergeOverrides
  BY <1>1, Merging DEF JInv, MergeOverrides
<1>2. QED BY <1>1, BufferInvariance, PTL
=============================================================================
