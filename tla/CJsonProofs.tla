----------------------------- MODULE CJsonProofs -----------------------------
(***************************************************************************)
(* What the JSON helpers do to an object of any length, for any keys that  *)
(* differ in more than case: as long as no key is in it twice, an object   *)
(* is a mapping from keys to values, and Put and Merged update it.  And    *)
(* what Put does to an object in which keys may come again, in the same    *)
(* spelling or another.                                                    *)
(*                                                                         *)
(* The recursive function in Merged needs induction on the naturals.  It   *)
(* is had here for sets of naturals, from the well-foundedness of the      *)
(* strict subset order on finite sets.                                     *)
(***************************************************************************)
EXTENDS CJson, TLAPS, SequenceTheorems, FiniteSetTheorems

\* A non-empty set of naturals has a least element.
LEMMA Least ==
  ASSUME NEW T, T \subseteq Nat, T # {}
  PROVE  \E x \in T : \A y \in T : x <= y
<1> DEFINE R == StrictSubsetOrdering(Nat)
           B == {0..n : n \in T}
<1>1. IsWellFoundedOn(R, FiniteSubsetsOf(Nat))
  BY FS_StrictSubsetOrderingWellFounded
<1>2. B \subseteq FiniteSubsetsOf(Nat) /\ B # {}
  <2>1. ASSUME NEW n \in T PROVE 0..n \in FiniteSubsetsOf(Nat)
    <3>1. IsFiniteSet(0..n) BY FS_Interval
    <3>2. 0..n \subseteq Nat OBVIOUS
    <3>3. QED BY <3>1, <3>2 DEF FiniteSubsetsOf
  <2>2. QED BY <2>1
<1>3. PICK b \in B : \A a \in B : ~(<<a, b>> \in R)
  <2> HIDE DEF R, B
  <2>1. QED BY <1>1, <1>2, WFMin
<1>4. PICK x \in T : b = 0..x
  BY <1>3
<1>5. ASSUME NEW y \in T, y < x PROVE FALSE
  <2>1. 0..y \in B /\ 0..y \subseteq 0..x /\ 0..y # 0..x
    <3>1. x \in 0..x /\ x \notin 0..y BY <1>5
    <3>2. QED BY <1>5, <3>1
  <2>2. <<0..y, 0..x>> \in R
    <3>1. 0..y \subseteq Nat /\ 0..x \subseteq Nat OBVIOUS
    <3>2. QED BY <2>1, <3>1 DEF StrictSubsetOrdering
  <2>3. QED BY <1>3, <1>4, <2>1, <2>2
<1>6. QED BY <1>5

\* Induction on the naturals, for a set.
LEMMA SetInduction ==
  ASSUME NEW S, 0 \in S, \A n \in Nat : n \in S => n + 1 \in S
  PROVE  Nat \subseteq S
<1> DEFINE T == Nat \ S
<1>1. SUFFICES ASSUME T # {} PROVE FALSE
  OBVIOUS
<1>2. PICK x \in T : \A y \in T : x <= y BY <1>1, Least
<1>3. x # 0 BY <1>2
<1>4. x - 1 \in Nat /\ x - 1 \notin T BY <1>2, <1>3
<1>5. x - 1 + 1 = x BY <1>2
<1>6. QED BY <1>2, <1>4, <1>5

-----------------------------------------------------------------------------
(***************************************************************************)
(* Looking a key up.                                                       *)
(***************************************************************************)

LEMMA MinIsLeast ==
  ASSUME NEW n \in Nat, NEW S, S \subseteq 1..n, S # {}
  PROVE  Min(S) \in S /\ \A y \in S : Min(S) <= y
<1>1. S \subseteq Nat OBVIOUS
<1>2. \E x \in S : \A y \in S : x <= y BY <1>1, Least
<1>3. QED BY <1>2 DEF Min

\* A key that is not there.
LEMMA NotFound ==
  ASSUME NEW v, NEW key, \A i \in 1..Len(Members(v)) : Members(v)[i].key # key
  PROVE  cJSON_GetObjectItemCaseSensitive(v, key) = Null
<1> DEFINE I == {i \in 1..Len(Members(v)) : Members(v)[i].key = key}
<1>1. I = {} OBVIOUS
<1>2. QED BY <1>1 DEF cJSON_GetObjectItemCaseSensitive, SelectInSeq

\* The only member with its key is found.
LEMMA SoleFound ==
  ASSUME NEW v, Len(Members(v)) \in Nat, NEW p \in 1..Len(Members(v)),
         \A i \in 1..Len(Members(v)) : Members(v)[i].key = Members(v)[p].key => i = p
  PROVE  cJSON_GetObjectItemCaseSensitive(v, Members(v)[p].key) = Members(v)[p].value
<1> DEFINE ms == Members(v)
           I == {i \in 1..Len(ms) : ms[i].key = ms[p].key}
<1>1. I = {p} OBVIOUS
<1>2. Min(I) \in I BY <1>1, MinIsLeast
<1>3. Min(I) = p BY <1>1, <1>2
<1>4. p # 0 OBVIOUS
<1>5. QED BY <1>1, <1>3, <1>4 DEF cJSON_GetObjectItemCaseSensitive, SelectInSeq

LEMMA Found ==
  ASSUME NEW v, Len(Members(v)) \in Nat, Distinct(Members(v)), NEW p \in 1..Len(Members(v))
  PROVE  cJSON_GetObjectItemCaseSensitive(v, Members(v)[p].key) = Members(v)[p].value
<1>1. \A i \in 1..Len(Members(v)) : Members(v)[i].key = Members(v)[p].key => i = p
  BY DEF Distinct
<1>2. QED BY <1>1, SoleFound

\* What is found is the value of a member with the key, if there is one.
LEMMA FoundAny ==
  ASSUME NEW v, NEW K, NEW V, Members(v) \in Seq(MemberOf(K, V)), Null \notin V, NEW key
  PROVE  /\ \/ cJSON_GetObjectItemCaseSensitive(v, key) = Null
            \/ key \in K /\ cJSON_GetObjectItemCaseSensitive(v, key) \in V
         /\ is_key_in_json_object(v, key) <=> \E i \in 1..Len(Members(v)) : Members(v)[i].key = key
<1> DEFINE ms == Members(v)
           I == {i \in 1..Len(ms) : ms[i].key = key}
           p == Min(I)
<1>1. Len(ms) \in Nat OBVIOUS
<1>2. \A i \in 1..Len(ms) : ms[i].key \in K /\ ms[i].value \in V
  <2>1. \A i \in 1..Len(ms) : ms[i] \in MemberOf(K, V) BY ElementOfSeq
  <2>2. QED BY <2>1 DEF MemberOf
<1>3. CASE I = {}
  <2>1. \A i \in 1..Len(ms) : ms[i].key # key BY <1>3
  <2>2. cJSON_GetObjectItemCaseSensitive(v, key) = Null BY <2>1, NotFound
  <2>3. QED BY <2>1, <2>2 DEF is_key_in_json_object
<1>4. CASE I # {}
  <2>1. p \in I BY <1>1, <1>4, MinIsLeast
  <2>2. p \in 1..Len(ms) /\ ms[p].key = key /\ p # 0 BY <1>1, <2>1
  <2>3. cJSON_GetObjectItemCaseSensitive(v, key) = ms[p].value
    BY <1>4, <2>2 DEF cJSON_GetObjectItemCaseSensitive, SelectInSeq
  <2> HIDE DEF p
  <2>4. QED BY <1>2, <2>2, <2>3 DEF is_key_in_json_object
<1>5. QED BY <1>3, <1>4

-----------------------------------------------------------------------------
(***************************************************************************)
(* Replacing and adding a key.                                             *)
(***************************************************************************)

\* A sequence without its element at p, position by position.
LEMMA Removed ==
  ASSUME NEW S, NEW s \in Seq(S), NEW p \in 1..Len(s)
  PROVE  /\ RemoveAt(s, p) \in Seq(S)
         /\ Len(RemoveAt(s, p)) = Len(s) - 1
         /\ \A i \in 1..(Len(s) - 1) : RemoveAt(s, p)[i] = s[IF i < p THEN i ELSE i + 1]
<1> DEFINE l == Len(s)
           a == SubSeq(s, 1, p - 1)
           b == SubSeq(s, p + 1, l)
<1>1. l \in Nat /\ p \in 1..l OBVIOUS
<1>2. \A i \in 1..l : s[i] \in S OBVIOUS
<1>3. /\ a \in Seq(S) /\ Len(a) = p - 1
      /\ \A i \in 1..(p - 1) : a[i] = s[i]
  <2>1. \A i \in 1..(p - 1) : i \in 1..l BY <1>1
  <2>2. /\ a \in Seq(S)
        /\ Len(a) = IF 1 <= p - 1 THEN p - 1 - 1 + 1 ELSE 0
        /\ \A i \in 1..(p - 1 - 1 + 1) : a[i] = s[1 + i - 1]
    BY <1>1, <1>2, <2>1, SubSeqProperties
  <2> HIDE DEF a
  <2>3. QED BY <1>1, <2>2
<1>4. /\ b \in Seq(S) /\ Len(b) = l - p
      /\ \A i \in 1..(l - p) : b[i] = s[p + i]
  <2>1. \A i \in (p + 1)..l : i \in 1..l BY <1>1
  <2>2. /\ b \in Seq(S)
        /\ Len(b) = IF p + 1 <= l THEN l - (p + 1) + 1 ELSE 0
        /\ \A i \in 1..(l - (p + 1) + 1) : b[i] = s[(p + 1) + i - 1]
    BY <1>1, <1>2, <2>1, SubSeqProperties
  <2> HIDE DEF b, l
  <2>3. QED BY <1>1, <2>2
<1>5. RemoveAt(s, p) = a \o b BY DEF RemoveAt
<1> HIDE DEF a, b, l
<1>6. /\ a \o b \in Seq(S) /\ Len(a \o b) = l - 1
      /\ \A i \in 1..(l - 1) : (a \o b)[i] = IF i <= p - 1 THEN a[i] ELSE b[i - (p - 1)]
  <2>1. /\ a \o b \in Seq(S) /\ Len(a \o b) = Len(a) + Len(b)
        /\ \A i \in 1..(Len(a) + Len(b)) :
             (a \o b)[i] = IF i <= Len(a) THEN a[i] ELSE b[i - Len(a)]
    BY <1>3, <1>4, ConcatProperties
  <2>2. Len(a) = p - 1 /\ Len(a) + Len(b) = l - 1 BY <1>1, <1>3, <1>4
  <2>3. QED BY <2>1, <2>2
<1>7. ASSUME NEW i \in 1..(l - 1)
      PROVE  (a \o b)[i] = s[IF i < p THEN i ELSE i + 1]
  <2>1. CASE i < p
    <3>1. i \in 1..(p - 1) /\ i <= p - 1 BY <1>1, <2>1
    <3>2. QED BY <1>3, <1>6, <2>1, <3>1
  <2>2. CASE ~(i < p)
    <3>1. ~(i <= p - 1) /\ i - (p - 1) \in 1..(l - p) /\ p + (i - (p - 1)) = i + 1 BY <1>1, <2>2
    <3>2. b[i - (p - 1)] = s[i + 1] BY <1>4, <3>1
    <3>3. QED BY <1>6, <2>2, <3>1, <3>2
  <2>3. QED BY <2>1, <2>2
<1>8. QED BY <1>5, <1>6, <1>7 DEF l

\* In a mapping a lookup finds the value of a key that is there.
LEMMA Lookup ==
  ASSUME NEW v, NEW K, NEW V, IsMapping(v, K, V)
  PROVE  /\ Len(Members(v)) \in Nat
         /\ \A i \in 1..Len(Members(v)) :
              /\ Members(v)[i].key \in K /\ Members(v)[i].value \in V
              /\ cJSON_GetObjectItemCaseSensitive(v, Members(v)[i].key) = Members(v)[i].value
         /\ \A k : is_key_in_json_object(v, k) <=> \E i \in 1..Len(Members(v)) : Members(v)[i].key = k
<1> DEFINE ms == Members(v)
<1>1. ms \in Seq(MemberOf(K, V)) /\ Distinct(ms) /\ Null \notin V BY DEF IsMapping
<1>2. Len(ms) \in Nat BY <1>1
<1>3. \A i \in 1..Len(ms) : ms[i] \in MemberOf(K, V) BY <1>1, ElementOfSeq
<1>4. \A i \in 1..Len(ms) : ms[i].key \in K /\ ms[i].value \in V BY <1>3 DEF MemberOf
<1>5. \A i \in 1..Len(ms) : cJSON_GetObjectItemCaseSensitive(v, ms[i].key) = ms[i].value
  BY <1>1, <1>2, Found
<1>6. ASSUME NEW k
      PROVE  is_key_in_json_object(v, k) <=> \E i \in 1..Len(ms) : ms[i].key = k
  <2>1. ASSUME NEW i \in 1..Len(ms), ms[i].key = k PROVE is_key_in_json_object(v, k)
    BY <1>1, <1>4, <1>5, <2>1 DEF is_key_in_json_object
  <2>2. ASSUME \A i \in 1..Len(ms) : ms[i].key # k PROVE ~is_key_in_json_object(v, k)
    BY <2>2, NotFound DEF is_key_in_json_object
  <2>3. QED BY <2>1, <2>2
<1>7. QED BY <1>2, <1>4, <1>5, <1>6

\* Deleting a key of a mapping removes its member and no other.
LEMMA Deleted ==
  ASSUME NEW v, NEW K, NEW V, IsMapping(v, K, V), NEW p \in 1..Len(Members(v))
  PROVE  cJSON_DeleteItemFromObject(v, Members(v)[p].key) = [object |-> RemoveAt(Members(v), p)]
<1> DEFINE ms == Members(v)
           I == {i \in 1..Len(ms) : Lower[ms[i].key] = Lower[ms[p].key]}
<1>1. /\ Len(ms) \in Nat /\ \A i \in 1..Len(ms) : ms[i].key \in K
      /\ \A k, l \in K : Lower[k] = Lower[l] => k = l
      /\ Distinct(ms)
  BY Lookup DEF IsMapping
<1>2. I = {p}
  <2>1. ASSUME NEW i \in 1..Len(ms), Lower[ms[i].key] = Lower[ms[p].key] PROVE i = p
    BY <1>1, <2>1 DEF Distinct
  <2>2. QED BY <2>1
<1>3. Min(I) \in I BY <1>1, <1>2, MinIsLeast
<1>4. Min(I) = p BY <1>2, <1>3
<1>5. \E i \in 1..Len(ms) : Lower[ms[i].key] = Lower[ms[p].key] OBVIOUS
<1>6. QED BY <1>2, <1>4, <1>5 DEF cJSON_DeleteItemFromObject, RemoveFirstMatch, SelectInSeq

\* Put binds the key to the item and leaves every other key alone; what comes
\* out is again a mapping.
LEMMA PutUpdates ==
  ASSUME NEW v, NEW K, NEW V, IsMapping(v, K, V), NEW key \in K, NEW item \in V
  PROVE  LET r == Put(v, key, item) IN
         /\ r = [object |-> Members(r)]
         /\ IsMapping(r, K, V)
         /\ cJSON_GetObjectItemCaseSensitive(r, key) = item
         /\ \A k : k # key =>
              cJSON_GetObjectItemCaseSensitive(r, k) = cJSON_GetObjectItemCaseSensitive(v, k)
<1> DEFINE ms == Members(v)
           x == [key |-> key, value |-> item]
           M == MemberOf(K, V)
           r == Put(v, key, item)
<1>1. /\ Len(ms) \in Nat /\ ms \in Seq(M) /\ Distinct(ms)
      /\ \A i \in 1..Len(ms) :
           /\ ms[i].key \in K
           /\ cJSON_GetObjectItemCaseSensitive(v, ms[i].key) = ms[i].value
      /\ \A k : is_key_in_json_object(v, k) <=> \E i \in 1..Len(ms) : ms[i].key = k
  BY Lookup DEF IsMapping
<1>2. x \in M /\ x.key = key /\ x.value = item BY DEF MemberOf
\* The members that stay, and where they were.
<1>3. \E rest \in Seq(M) :
        /\ r = [object |-> Append(rest, x)]
        /\ \A i \in 1..Len(rest) : \E j \in 1..Len(ms) : rest[i] = ms[j] /\ ms[j].key # key
        /\ \A j \in 1..Len(ms) : ms[j].key # key => \E i \in 1..Len(rest) : rest[i] = ms[j]
        /\ Distinct(rest)
  <2>1. CASE ~is_key_in_json_object(v, key)
    <3>1. r = [object |-> Append(ms, x)] BY <2>1 DEF Put, cJSON_AddItemToObject
    <3>2. \A j \in 1..Len(ms) : ms[j].key # key BY <1>1, <2>1
    <3>3. QED BY <1>1, <3>1, <3>2
  <2>2. CASE is_key_in_json_object(v, key)
    <3>1. PICK p \in 1..Len(ms) : ms[p].key = key BY <1>1, <2>2
    <3> DEFINE rest == RemoveAt(ms, p)
    <3>2. cJSON_DeleteItemFromObject(v, key) = [object |-> rest] BY <3>1, Deleted
    <3>3. Members([object |-> rest]) = rest BY DEF Members
    <3>4. r = [object |-> Append(rest, x)]
      BY <2>2, <3>2, <3>3 DEF Put, cJSON_AddItemToObject
    <3>5. /\ rest \in Seq(M) /\ Len(rest) = Len(ms) - 1
          /\ \A i \in 1..(Len(ms) - 1) : rest[i] = ms[IF i < p THEN i ELSE i + 1]
      BY <1>1, Removed
    <3> HIDE DEF rest
    <3>6. \A j \in 1..Len(ms) : ms[j].key = key => j = p BY <1>1, <3>1 DEF Distinct
    <3>7. ASSUME NEW i \in 1..Len(rest)
          PROVE  \E j \in 1..Len(ms) : rest[i] = ms[j] /\ ms[j].key # key
      <4> DEFINE j == IF i < p THEN i ELSE i + 1
      <4>1. j \in 1..Len(ms) /\ j # p /\ i \in 1..(Len(ms) - 1) BY <1>1, <3>5
      <4>2. rest[i] = ms[j] BY <3>5, <4>1
      <4> HIDE DEF j
      <4>3. QED BY <3>6, <4>1, <4>2
    <3>8. ASSUME NEW j \in 1..Len(ms), ms[j].key # key
          PROVE  \E i \in 1..Len(rest) : rest[i] = ms[j]
      <4> DEFINE i == IF j < p THEN j ELSE j - 1
      <4>1. j # p BY <3>1, <3>8
      <4>2. i \in 1..(Len(ms) - 1) /\ (IF i < p THEN i ELSE i + 1) = j BY <1>1, <4>1
      <4> HIDE DEF i
      <4>3. rest[i] = ms[j] /\ i \in 1..Len(rest) BY <3>5, <4>2
      <4>4. QED BY <4>3
    <3>9. Distinct(rest)
      <4>1. SUFFICES ASSUME NEW i \in 1..Len(rest), NEW j \in 1..Len(rest), rest[i].key = rest[j].key
                     PROVE  i = j
        BY DEF Distinct
      <4> DEFINE a == IF i < p THEN i ELSE i + 1
                 b == IF j < p THEN j ELSE j + 1
      <4>2. a \in 1..Len(ms) /\ b \in 1..Len(ms) /\ rest[i] = ms[a] /\ rest[j] = ms[b]
        BY <1>1, <3>5
      <4>3. a = b
        <5> HIDE DEF a, b
        <5>1. QED BY <1>1, <4>1, <4>2 DEF Distinct
      <4>4. i \in Nat /\ j \in Nat BY <1>1, <3>5
      <4>5. QED BY <4>3, <4>4
    <3>10. QED BY <3>4, <3>5, <3>7, <3>8, <3>9
  <2>3. QED BY <2>1, <2>2
<1>4. PICK rest \in Seq(M) :
        /\ r = [object |-> Append(rest, x)]
        /\ \A i \in 1..Len(rest) : \E j \in 1..Len(ms) : rest[i] = ms[j] /\ ms[j].key # key
        /\ \A j \in 1..Len(ms) : ms[j].key # key => \E i \in 1..Len(rest) : rest[i] = ms[j]
        /\ Distinct(rest)
  BY <1>3
<1> DEFINE rs == Append(rest, x)
<1>5. Members(r) = rs BY <1>4 DEF Members
<1> HIDE DEF r, x
<1>6. /\ rs \in Seq(M) /\ Len(rs) = Len(rest) + 1
      /\ \A i \in 1..Len(rest) : rs[i] = rest[i]
      /\ rs[Len(rest) + 1] = x
      /\ Len(rest) \in Nat
  BY <1>2
<1>7. r = [object |-> rs] BY <1>4
<1> HIDE DEF rs
<1>8. Distinct(rs)
  <2>1. SUFFICES ASSUME NEW i \in 1..Len(rs), NEW j \in 1..Len(rs), rs[i].key = rs[j].key
                 PROVE  i = j
    BY DEF Distinct
  <2>2. ASSUME NEW n \in 1..Len(rest) PROVE rs[n].key # key
    <3>1. PICK m \in 1..Len(ms) : rest[n] = ms[m] /\ ms[m].key # key BY <1>4
    <3>2. QED BY <1>6, <3>1
  <2>3. CASE i \in 1..Len(rest) /\ j \in 1..Len(rest)
    BY <1>4, <1>6, <2>1, <2>3 DEF Distinct
  <2>4. CASE i = Len(rest) + 1 BY <1>2, <1>6, <2>1, <2>2, <2>4
  <2>5. CASE j = Len(rest) + 1 BY <1>2, <1>6, <2>1, <2>2, <2>5
  <2>6. QED BY <1>6, <2>3, <2>4, <2>5
<1>9. IsMapping(r, K, V) BY <1>5, <1>6, <1>8 DEF IsMapping
<1>10. \A i \in 1..Len(rs) : cJSON_GetObjectItemCaseSensitive(r, rs[i].key) = rs[i].value
  BY <1>5, <1>9, Lookup
<1>11. cJSON_GetObjectItemCaseSensitive(r, key) = item
  <2>1. Len(rest) + 1 \in 1..Len(rs) BY <1>6
  <2>2. QED BY <1>2, <1>6, <1>10, <2>1
<1>12. ASSUME NEW k, k # key
       PROVE  cJSON_GetObjectItemCaseSensitive(r, k) = cJSON_GetObjectItemCaseSensitive(v, k)
  <2>1. CASE \E j \in 1..Len(ms) : ms[j].key = k
    <3>1. PICK j \in 1..Len(ms) : ms[j].key = k BY <2>1
    <3>2. PICK i \in 1..Len(rest) : rest[i] = ms[j] BY <1>4, <1>12, <3>1
    <3>3. i \in 1..Len(rs) /\ rs[i] = ms[j] BY <1>6, <3>2
    <3>4. QED BY <1>1, <1>10, <3>1, <3>3
  <2>2. CASE \A j \in 1..Len(ms) : ms[j].key # k
    <3>1. \A i \in 1..Len(rs) : rs[i].key # k
      <4>1. \A i \in 1..Len(rs) : i \in 1..Len(rest) \/ i = Len(rest) + 1 BY <1>6
      <4>2. \A i \in 1..Len(rest) : rs[i].key # k BY <1>4, <1>6, <2>2
      <4>3. QED BY <1>2, <1>6, <1>12, <4>1, <4>2
    <3>2. QED BY <1>5, <2>2, <3>1, NotFound
  <2>3. QED BY <2>1, <2>2
<1>13. QED BY <1>5, <1>7, <1>9, <1>11, <1>12 DEF r

\* rest is ms if the key is not there, else ms without a member whose key is the
\* same but for case.
LeavesOut(rest, ms, key) ==
  \/ rest = ms /\ \A j \in 1..Len(ms) : ms[j].key # key
  \/ \E p \in 1..Len(ms) :
       /\ Lower[ms[p].key] = Lower[key]
       /\ Len(rest) = Len(ms) - 1
       /\ \A i \in 1..(Len(ms) - 1) : rest[i] = ms[IF i < p THEN i ELSE i + 1]

\* Put leaves a member with the key at the end.  If the key was there, a member
\* whose key is the same but for case has gone, and all others have stayed.
LEMMA PutMembers ==
  ASSUME NEW v, NEW K, NEW V, Members(v) \in Seq(MemberOf(K, V)), Null \notin V,
         NEW key \in K, NEW item \in V
  PROVE  \E rest \in Seq(MemberOf(K, V)) :
           /\ Put(v, key, item) = [object |-> Append(rest, [key |-> key, value |-> item])]
           /\ LeavesOut(rest, Members(v), key)
<1> DEFINE ms == Members(v)
           x == [key |-> key, value |-> item]
           I == {i \in 1..Len(ms) : Lower[ms[i].key] = Lower[key]}
           p == Min(I)
           rest == RemoveAt(ms, p)
<1>1. Len(ms) \in Nat OBVIOUS
<1>2. is_key_in_json_object(v, key) <=> \E i \in 1..Len(ms) : ms[i].key = key BY FoundAny
<1>3. CASE ~is_key_in_json_object(v, key)
  <2>1. Put(v, key, item) = [object |-> Append(ms, x)] BY <1>3 DEF Put, cJSON_AddItemToObject
  <2>2. \A j \in 1..Len(ms) : ms[j].key # key BY <1>2, <1>3
  <2>3. QED BY <2>1, <2>2 DEF LeavesOut
<1>4. CASE is_key_in_json_object(v, key)
  <2>1. PICK q \in 1..Len(ms) : ms[q].key = key BY <1>2, <1>4
  <2>2. q \in I BY <2>1
  <2>3. p \in I BY <1>1, <2>2, MinIsLeast
  <2>4. p \in 1..Len(ms) /\ Lower[ms[p].key] = Lower[key] BY <2>3
  <2>5. cJSON_DeleteItemFromObject(v, key) = [object |-> rest]
    BY <2>2 DEF cJSON_DeleteItemFromObject, RemoveFirstMatch, SelectInSeq
  <2> HIDE DEF p
  <2>6. /\ rest \in Seq(MemberOf(K, V)) /\ Len(rest) = Len(ms) - 1
        /\ \A i \in 1..(Len(ms) - 1) : rest[i] = ms[IF i < p THEN i ELSE i + 1]
    BY <2>4, Removed
  <2>7. Members([object |-> rest]) = rest BY DEF Members
  <2>8. Put(v, key, item) = [object |-> Append(rest, x)]
    BY <1>4, <2>5, <2>7 DEF Put, cJSON_AddItemToObject
  <2> HIDE DEF rest
  <2>9. QED BY <2>4, <2>6, <2>8 DEF LeavesOut
<1>5. QED BY <1>3, <1>4

-----------------------------------------------------------------------------
(***************************************************************************)
(* Merging.                                                                *)
(***************************************************************************)

\* Merged goes through ms from its first member to its last.
LEMMA MergedSteps ==
  ASSUME NEW v, NEW ms, Len(ms) \in Nat
  PROVE  \E g : /\ Merged(v, ms) = g[Len(ms)]
                /\ g[0] = v
                /\ \A i \in 1..Len(ms) : g[i] = Put(g[i - 1], ms[i].key, ms[i].value)
<1> DEFINE Steps(g, n) ==
             g = [i \in 0..n |-> IF i = 0 THEN v ELSE Put(g[i - 1], ms[i].key, ms[i].value)]
           S == {n \in Nat : \E g : Steps(g, n)}
<1>1. 0 \in S
  <2> DEFINE g0 == [i \in 0..0 |-> v]
  <2>1. Steps(g0, 0) OBVIOUS
  <2>2. QED BY <2>1
<1>2. ASSUME NEW n \in Nat, n \in S PROVE n + 1 \in S
  <2>1. PICK g : Steps(g, n) BY <1>2
  <2> DEFINE F(f, i) == Put(f[i - 1], ms[i].key, ms[i].value)
             h == [i \in 0..(n + 1) |-> IF i = n + 1 THEN F(g, i) ELSE g[i]]
  <2>2. \A i \in 0..n : g[i] = IF i = 0 THEN v ELSE F(g, i) BY <2>1
  <2>3. \A i \in 0..n : h[i] = g[i]
    <3>1. \A i \in 0..n : i \in 0..(n + 1) /\ i # n + 1 OBVIOUS
    <3> HIDE DEF F
    <3>2. QED BY <3>1
  <2>4. ASSUME NEW i \in 0..(n + 1) PROVE h[i] = IF i = 0 THEN v ELSE F(h, i)
    <3>1. CASE i = 0
      <4>1. h[i] = g[i] /\ i \in 0..n BY <2>3, <3>1
      <4>2. QED BY <2>2, <3>1, <4>1
    <3>2. CASE i # 0
      <4>1. i - 1 \in 0..n BY <3>2
      <4>2. h[i - 1] = g[i - 1] BY <2>3, <4>1
      <4>3. F(h, i) = F(g, i) BY <4>2
      <4>4. CASE i = n + 1
        <5> HIDE DEF F
        <5>1. h[i] = F(g, i) BY <4>4
        <5>2. QED BY <3>2, <4>3, <5>1
      <4>5. CASE i # n + 1
        <5>1. i \in 0..n BY <4>5
        <5> HIDE DEF F, h
        <5>2. QED BY <2>2, <2>3, <3>2, <4>3, <5>1
      <4>6. QED BY <4>4, <4>5
    <3>3. QED BY <3>1, <3>2
  <2>5. Steps(h, n + 1)
    <3> DEFINE f == [i \in 0..(n + 1) |-> IF i = 0 THEN v ELSE F(h, i)]
    <3>1. DOMAIN h = 0..(n + 1) /\ DOMAIN f = 0..(n + 1) OBVIOUS
    <3>2. h = [i \in 0..(n + 1) |-> h[i]] OBVIOUS
    <3> HIDE DEF h, F
    <3>3. \A i \in 0..(n + 1) : h[i] = f[i] BY <2>4
    <3>4. h = f BY <3>2, <3>3
    <3>5. QED BY <3>4 DEF F
  <2> HIDE DEF h, Steps
  <2>6. \E f : Steps(f, n + 1) BY <2>5
  <2>7. QED BY <2>6
<1>3. Len(ms) \in S
  <2> HIDE DEF S
  <2>1. Nat \subseteq S BY <1>1, <1>2, SetInduction
  <2>2. QED BY <2>1
<1> DEFINE m == CHOOSE g : Steps(g, Len(ms))
<1>4. Steps(m, Len(ms)) BY <1>3
<1>5. Merged(v, ms) = m[Len(ms)] BY DEF Merged
<1> HIDE DEF m
<1>6. m[0] = v BY <1>4
<1>7. \A i \in 1..Len(ms) : m[i] = Put(m[i - 1], ms[i].key, ms[i].value)
  <2>1. \A i \in 1..Len(ms) : i \in 0..Len(ms) /\ i # 0 OBVIOUS
  <2>2. \A i \in 0..Len(ms) : m[i] = IF i = 0 THEN v ELSE Put(m[i - 1], ms[i].key, ms[i].value)
    BY <1>4
  <2>3. QED BY <2>1, <2>2
<1>8. QED BY <1>5, <1>6, <1>7

\* Merging a mapping into a mapping binds the keys of both, those they share as
\* the second has them.
LEMMA MergedUpdates ==
  ASSUME NEW v, NEW w, NEW K, NEW V, IsMapping(v, K, V), IsMapping(w, K, V)
  PROVE  LET r == Merged(v, Members(w)) IN
         /\ IsMapping(r, K, V)
         /\ v = [object |-> Members(v)] => r = [object |-> Members(r)]
         /\ \A k : cJSON_GetObjectItemCaseSensitive(r, k) =
                     IF is_key_in_json_object(w, k) THEN cJSON_GetObjectItemCaseSensitive(w, k)
                     ELSE cJSON_GetObjectItemCaseSensitive(v, k)
<1> DEFINE ms == Members(w)
           Get(u, k) == cJSON_GetObjectItemCaseSensitive(u, k)
<1>1. /\ Len(ms) \in Nat
      /\ \A i \in 1..Len(ms) : ms[i].key \in K /\ ms[i].value \in V /\ Get(w, ms[i].key) = ms[i].value
      /\ \A k : is_key_in_json_object(w, k) <=> \E i \in 1..Len(ms) : ms[i].key = k
  BY Lookup
<1>2. PICK g : /\ Merged(v, ms) = g[Len(ms)]
               /\ g[0] = v
               /\ \A i \in 1..Len(ms) : g[i] = Put(g[i - 1], ms[i].key, ms[i].value)
  <2> HIDE DEF ms
  <2>1. Len(ms) \in Nat BY <1>1
  <2>2. QED BY <2>1, MergedSteps
<1> DEFINE P(n) ==
             /\ IsMapping(g[n], K, V)
             /\ v = [object |-> Members(v)] => g[n] = [object |-> Members(g[n])]
             /\ \A k : Get(g[n], k) = IF \E i \in 1..n : ms[i].key = k THEN Get(w, k) ELSE Get(v, k)
           S == {n \in Nat : n <= Len(ms) => P(n)}
<1>3. 0 \in S
  <2>1. \A k : ~\E i \in 1..0 : ms[i].key = k OBVIOUS
  <2>2. P(0) BY <1>2, <2>1
  <2>3. QED BY <2>2
<1>4. ASSUME NEW n \in Nat, n \in S PROVE n + 1 \in S
  <2>1. SUFFICES ASSUME n + 1 <= Len(ms) PROVE P(n + 1)
    OBVIOUS
  <2> DEFINE m == n + 1
             x == ms[m]
  <2>2. m \in 1..Len(ms) /\ m - 1 = n /\ n <= Len(ms) BY <1>1, <2>1
  <2>3. P(n) BY <1>4, <2>2
  <2>4. x.key \in K /\ x.value \in V /\ Get(w, x.key) = x.value BY <1>1, <2>2
  <2>5. g[m] = Put(g[n], x.key, x.value) BY <1>2, <2>2
  <2>6. /\ g[m] = [object |-> Members(g[m])]
        /\ IsMapping(g[m], K, V)
        /\ Get(g[m], x.key) = x.value
        /\ \A k : k # x.key => Get(g[m], k) = Get(g[n], k)
    BY <2>3, <2>4, <2>5, PutUpdates
  <2>7. ASSUME NEW k
        PROVE  Get(g[m], k) = IF \E i \in 1..m : ms[i].key = k THEN Get(w, k) ELSE Get(v, k)
    <3>1. \A i \in 1..m : i \in 1..n \/ i = m OBVIOUS
    <3>2. \A i \in 1..n : i \in 1..m OBVIOUS
    <3>3. CASE k = x.key BY <2>2, <2>4, <2>6, <3>3
    <3>4. CASE k # x.key
      <4>1. (\E i \in 1..m : ms[i].key = k) <=> (\E i \in 1..n : ms[i].key = k)
        BY <3>1, <3>2, <3>4
      <4>2. QED BY <2>3, <2>6, <3>4, <4>1
    <3>5. QED BY <3>3, <3>4
  <2>8. QED BY <2>6, <2>7
<1>5. P(Len(ms))
  <2>1. Len(ms) \in S
    <3> HIDE DEF S
    <3>1. Nat \subseteq S BY <1>3, <1>4, SetInduction
    <3>2. QED BY <1>1, <3>1
  <2>2. QED BY <1>1, <2>1
<1>6. QED BY <1>1, <1>2, <1>5
=============================================================================
