------------------------- MODULE SummaryEditsProofs -------------------------
(***************************************************************************)
(* The edits made on the text are the edits of the document, and the text  *)
(* stays readable, whatever the entrances, categories, keys and amounts,   *)
(* and however the supplies are spelt; only the amounts of a supply that   *)
(* has been in use in two spellings are not told.                          *)
(***************************************************************************)
EXTENDS SummaryEdits, CJsonProofs, FunctionTheorems

Get(v, k) == cJSON_GetObjectItemCaseSensitive(v, k)

-----------------------------------------------------------------------------
(***************************************************************************)
(* The shipped file.                                                       *)
(***************************************************************************)

\* A finite set can be put in order.
LEMMA Ordered ==
  ASSUME NEW K, IsFiniteSet(K)
  PROVE  LET s == CHOOSE s \in [1..Cardinality(K) -> K] : Range(s) = K
         IN  /\ Cardinality(K) \in Nat
             /\ s \in [1..Cardinality(K) -> K] /\ Range(s) = K
             /\ \A i, j \in 1..Cardinality(K) : s[i] = s[j] => i = j
<1> DEFINE n == Cardinality(K)
           s == CHOOSE s \in [1..n -> K] : Range(s) = K
<1>1. n \in Nat /\ ExistsBijection(1..n, K) BY FS_CountingElements, FS_CardinalityType
<1>2. PICK f : f \in Bijection(1..n, K) BY <1>1 DEF ExistsBijection
<1>3. f \in [1..n -> K] /\ Range(f) = K
  BY <1>2 DEF Bijection, Surjection, Injection, Range
<1>4. s \in [1..n -> K] /\ Range(s) = K BY <1>3
<1>5. s \in Surjection(1..n, K) BY <1>4 DEF Surjection, Range
<1>6. IsFiniteSet(1..n) /\ Cardinality(1..n) = n BY <1>1, FS_Interval
<1>7. s \in Injection(1..n, K) BY <1>5, <1>6, FS_SurjSameCardinalityImpliesInj
<1>8. \A i, j \in 1..n : s[i] = s[j] => i = j BY <1>4, <1>7 DEF Injection, IsInjective
<1>9. QED BY <1>1, <1>4, <1>8

\* An object made of a function has the keys of the function, each once.
LEMMA MadeMembers ==
  ASSUME NEW K, NEW V, NEW D, D \subseteq K, IsFiniteSet(D), NEW f \in [D -> V],
         NEW o, o = ObjectOf(f)
  PROVE  /\ o \in [object : Seq(MemberOf(K, V))]
         /\ Members(o) \in Seq(MemberOf(K, V)) /\ Distinct(Members(o))
         /\ \A i \in 1..Len(Members(o)) : Members(o)[i].key \in D
         /\ \A k \in D : Get(o, k) = f[k]
<1> DEFINE n == Cardinality(D)
           s == CHOOSE s \in [1..n -> D] : Range(s) = D
           ms == [i \in 1..n |-> [key |-> s[i], value |-> f[s[i]]]]
<1>1. n \in Nat /\ s \in [1..n -> D] /\ Range(s) = D
      /\ \A i, j \in 1..n : s[i] = s[j] => i = j
  BY Ordered
<1>2. o = [object |-> ms]
  <2>1. DOMAIN f = D /\ DOMAIN s = 1..n BY <1>1
  <2>2. QED BY <2>1 DEF ObjectOf
<1> HIDE DEF n, s
<1>3. ms \in Seq(MemberOf(K, V))
  <2>1. \A i \in 1..n : ms[i] \in MemberOf(K, V) BY <1>1 DEF MemberOf
  <2>2. ms \in [1..n -> MemberOf(K, V)] BY <2>1
  <2> HIDE DEF ms
  <2>3. QED BY <1>1, <2>2
<1>4. Len(ms) = n BY <1>1
<1>5. \A i \in 1..n : ms[i].key = s[i] /\ ms[i].value = f[s[i]] OBVIOUS
<1> HIDE DEF ms
<1>6. Members(o) = ms BY <1>2 DEF Members
<1>7. Distinct(ms) BY <1>1, <1>4, <1>5 DEF Distinct
<1>8. \A i \in 1..Len(ms) : ms[i].key \in D BY <1>1, <1>4, <1>5
<1>9. ASSUME NEW k \in D PROVE Get(o, k) = f[k]
  <2>1. PICK i \in 1..n : s[i] = k BY <1>1 DEF Range
  <2>2. Get(o, ms[i].key) = ms[i].value BY <1>1, <1>4, <1>6, <1>7, <2>1, Found DEF Get
  <2>3. QED BY <1>5, <2>1, <2>2
<1>10. o \in [object : Seq(MemberOf(K, V))] BY <1>2, <1>3
<1>11. QED BY <1>3, <1>6, <1>7, <1>8, <1>9, <1>10

\* If its keys differ in more than case, it is a mapping.
LEMMA Made ==
  ASSUME NEW K, NEW V, NEW D, D \subseteq K, IsFiniteSet(D), NEW f \in [D -> V],
         Null \notin V, \A k, l \in K : Lower[k] = Lower[l] => k = l
  PROVE  /\ ObjectOf(f) \in Objects(K, V)
         /\ \A k \in D : Get(ObjectOf(f), k) = f[k]
<1> DEFINE o == ObjectOf(f)
<1>1. /\ o \in [object : Seq(MemberOf(K, V))]
      /\ Members(o) \in Seq(MemberOf(K, V)) /\ Distinct(Members(o))
      /\ \A k \in D : Get(o, k) = f[k]
  BY MadeMembers
<1> HIDE DEF o
<1>2. IsMapping(o, K, V) BY <1>1 DEF IsMapping
<1>3. o \in Objects(K, V) BY <1>1, <1>2 DEF Objects
<1>4. QED BY <1>1, <1>3 DEF o

-----------------------------------------------------------------------------
(***************************************************************************)
(* Reading a text and putting a value into it.                             *)
(***************************************************************************)

\* What is an object, and what is known of its values.
LEMMA ObjectFacts ==
  ASSUME NEW K, NEW V, NEW o \in Objects(K, V)
  PROVE  /\ o = [object |-> Members(o)] /\ DOMAIN o = {"object"}
         /\ IsMapping(o, K, V)
         /\ \A k : Get(o, k) = Null \/ (k \in K /\ Get(o, k) \in V)
<1>1. IsMapping(o, K, V) BY DEF Objects
<1>2. o = [object |-> Members(o)] /\ DOMAIN o = {"object"} BY DEF Objects, Members
<1>3. ASSUME NEW k, Get(o, k) # Null PROVE k \in K /\ Get(o, k) \in V
  <2>1. PICK i \in 1..Len(Members(o)) : Members(o)[i].key = k
    BY <1>1, <1>3, Lookup DEF is_key_in_json_object, Get
  <2>2. QED BY <1>1, <2>1, Lookup DEF Get
<1>4. QED BY <1>1, <1>2, <1>3

\* The value of a key, by its kind.
LEMMA GetText ==
  ASSUME NEW o, o # Null, [json |-> o] # Null, NEW k
  PROVE  LET item == Get(o, k)
             t    == get_value_of_key_from_json_string([json |-> o], k)
         IN  /\ item = Null => t = Null
             /\ item # Null /\ DOMAIN item = {"object"} => t = [json |-> item]
             /\ item # Null /\ item \in [number : Int] => t = [f |-> item.number]
             /\ item # Null /\ (\E w : item = [string |-> w]) => t = item.string
<1> DEFINE item == Get(o, k)
           t    == get_value_of_key_from_json_string([json |-> o], k)
<1>1. cJSON_Parse([json |-> o]) = o BY DEF cJSON_Parse
<1>2. t = get_value_of_key_from_json_object(o, k)
  BY <1>1 DEF get_value_of_key_from_json_string
<1>3. t = CASE item = Null -> Null
            [] item # Null /\ "string" \in DOMAIN item -> item.string
            [] item # Null /\ "number" \in DOMAIN item -> [f |-> item.number]
            [] item # Null /\ "object" \in DOMAIN item -> [json |-> item]
  BY <1>2 DEF get_value_of_key_from_json_object, Get
<1> HIDE DEF t, item
<1>4. item = Null => t = Null BY <1>3
<1>5. item # Null /\ DOMAIN item = {"object"} => t = [json |-> item] BY <1>3
<1>6. item # Null /\ item \in [number : Int] => t = [f |-> item.number]
  <2>1. item \in [number : Int] => DOMAIN item = {"number"} OBVIOUS
  <2>2. QED BY <1>3, <2>1
<1>7. item # Null /\ (\E w : item = [string |-> w]) => t = item.string
  <2>1. (\E w : item = [string |-> w]) => DOMAIN item = {"string"} OBVIOUS
  <2>2. QED BY <1>3, <2>1
<1>8. QED BY <1>4, <1>5, <1>6, <1>7 DEF t, item

\* A value put into an object.
LEMMA PutObject ==
  ASSUME NEW K, NEW V, NEW o \in Objects(K, V), NEW key \in K, NEW item \in V
  PROVE  LET r == Put(o, key, item)
         IN  /\ r \in Objects(K, V)
             /\ o \in Complete(K, V) => r \in Complete(K, V)
             /\ \A k : Get(r, k) = IF k = key THEN item ELSE Get(o, k)
<1> DEFINE r == Put(o, key, item)
<1>1. IsMapping(o, K, V) BY ObjectFacts
<1>2. /\ r = [object |-> Members(r)] /\ IsMapping(r, K, V)
      /\ Get(r, key) = item /\ \A k : k # key => Get(r, k) = Get(o, k)
  BY <1>1, PutUpdates DEF Get
<1> HIDE DEF r
<1>3. r \in Objects(K, V)
  <2> DEFINE ms == Members(r)
  <2>1. r = [object |-> ms] /\ ms \in Seq(MemberOf(K, V)) BY <1>2 DEF IsMapping
  <2> HIDE DEF ms
  <2>2. r \in [object : Seq(MemberOf(K, V))] BY <2>1
  <2>3. QED BY <1>2, <2>2 DEF Objects
<1>4. item # Null BY <1>1 DEF IsMapping
<1>5. ASSUME o \in Complete(K, V) PROVE r \in Complete(K, V)
  <2>1. \A k \in K : Get(o, k) # Null BY <1>5 DEF Complete, is_key_in_json_object, Get
  <2>2. \A k \in K : Get(r, k) # Null BY <1>2, <1>4, <2>1
  <2>3. QED BY <1>3, <2>2 DEF Complete, is_key_in_json_object, Get
<1>6. QED BY <1>2, <1>3, <1>5 DEF r

\* The three ways an edit adds to the text of an object.
LEMMA Additions ==
  ASSUME NEW o, o # Null, NEW key
  PROVE  /\ \A w : w # Null =>
              Added([json |-> o], key, [json |-> w], {"OVERRIDE", "OBJPARSE"})
                = [json |-> Put(o, key, w)]
         /\ \A n \in Int \ {0} : [number |-> n] # Null =>
              Added([json |-> o], key, [d |-> n], {"OVERRIDE", "INTPARSE"})
                = [json |-> Put(o, key, [number |-> n])]
         /\ \A w : [string |-> [word |-> w]] # Null =>
              Added([json |-> o], key, [word |-> w], {"OVERRIDE", "INTPARSE"})
                = [json |-> Put(o, key, [string |-> [word |-> w]])]
<1>1. cJSON_Parse([json |-> o]) = o BY DEF cJSON_Parse
<1>2. ASSUME NEW t, NEW flags, "OVERRIDE" \in flags, NEW new, NewValue(t, flags) = new, new # Null
      PROVE  Added([json |-> o], key, t, flags) = [json |-> Put(o, key, new)]
  <2>1. cjson_add_key_value_to_json_string([json |-> o], key, t, flags)
          = [ret |-> 0, text |-> [json |-> Put(o, key, new)]]
    BY <1>1, <1>2 DEF cjson_add_key_value_to_json_string
  <2> DEFINE x == [json |-> Put(o, key, new)]
  <2>2. cjson_add_key_value_to_json_string([json |-> o], key, t, flags) = [ret |-> 0, text |-> x]
    BY <2>1
  <2> HIDE DEF x
  <2>3. cjson_add_key_value_to_json_string([json |-> o], key, t, flags).text = x BY <2>2
  <2>4. QED BY <2>3 DEF Added, x
<1>3. ASSUME NEW w PROVE NewValue([json |-> w], {"OVERRIDE", "OBJPARSE"}) = w
  BY DEF NewValue, cJSON_Parse
<1>4. ASSUME NEW n \in Int \ {0}
      PROVE  NewValue([d |-> n], {"OVERRIDE", "INTPARSE"}) = [number |-> n]
  <2>1. atof([d |-> n]) = n BY DEF atof
  <2>2. QED BY <2>1 DEF NewValue
<1>5. ASSUME NEW w
      PROVE  NewValue([word |-> w], {"OVERRIDE", "INTPARSE"}) = [string |-> [word |-> w]]
  <2>1. atof([word |-> w]) = 0 BY DEF atof
  <2>2. QED BY <2>1 DEF NewValue
<1>6. QED BY <1>2, <1>3, <1>4, <1>5

-----------------------------------------------------------------------------
(***************************************************************************)
(* What is read of the text of a summary.                                  *)
(***************************************************************************)

\* The parts of a summary can be taken out of its text.
LEMMA Parts ==
  ASSUME NEW o \in SummaryObject
  PROVE  /\ o \in Objects(PartKey, Part) /\ o # Null
         /\ \A part \in PartKey :
              LET p == Get(o, part) IN
              /\ p \in Part /\ p # Null /\ [json |-> p] # Null
              /\ get_value_of_key_from_json_string([json |-> o], part) = [json |-> p]
         /\ Get(o, "alerts") \in Alerts
         /\ Get(o, "supplies") \in Supplies
         /\ Get(o, "emergency") \in Emergency
<1>1. /\ o \in Objects(PartKey, Part)
      /\ Get(o, "alerts") \in Alerts
      /\ Get(o, "supplies") \in Supplies
      /\ Get(o, "emergency") \in Emergency
  BY DEF SummaryObject, Get
<1>2. o # Null /\ [json |-> o] # Null BY NullIsNoValue, NullIsNoText
<1>3. ASSUME NEW part \in PartKey
      PROVE  /\ Get(o, part) \in Part /\ Get(o, part) # Null /\ [json |-> Get(o, part)] # Null
             /\ get_value_of_key_from_json_string([json |-> o], part) = [json |-> Get(o, part)]
  <2> DEFINE p == Get(o, part)
  <2>1. p \in Part BY <1>1 DEF PartKey, Part
  <2>2. p # Null /\ [json |-> p] # Null BY <2>1, NullIsNoValue, NullIsNoText
  <2>3. DOMAIN p = {"object"}
    BY <2>1, ObjectFacts DEF Part, Alerts, Supplies, Emergency, Complete
  <2>4. QED BY <1>2, <2>1, <2>2, <2>3, GetText
<1>4. QED BY <1>1, <1>2, <1>3

\* A counter is read as the number it is.
LEMMA CountRead ==
  ASSUME NEW o \in SummaryObject, NEW e \in Entry
  PROVE  LET count == Get(Get(o, "alerts"), e)
             t     == Read([json |-> o], "alerts", e)
         IN  count \in Count /\ t = [f |-> count.number] /\ t # Null /\ atof(t) = count.number
<1> DEFINE p == Get(o, "alerts")
           count == Get(p, e)
           t == Read([json |-> o], "alerts", e)
<1>1. p \in Complete(Entry, Count) BY Parts DEF Alerts
<1>2. count # Null BY <1>1 DEF Complete, is_key_in_json_object, Get
<1>3. count \in Count BY <1>1, <1>2, ObjectFacts DEF Complete
<1>4. p # Null /\ [json |-> p] # Null
      /\ get_value_of_key_from_json_string([json |-> o], "alerts") = [json |-> p]
  BY Parts DEF PartKey
<1>5. t = get_value_of_key_from_json_string([json |-> p], e) BY <1>4 DEF Read
<1>6. count \in [number : Int] BY <1>3, CountsType DEF Count
<1> HIDE DEF count
<1>7. t = [f |-> count.number] BY <1>2, <1>4, <1>5, <1>6, GetText DEF count
<1> HIDE DEF t
<1>8. t # Null
  <2>1. [f |-> count.number] \in [f : Int] BY <1>6
  <2>2. QED BY <1>7, <2>1, NullIsNoText
<1>9. atof(t) = count.number BY <1>7 DEF atof
<1>10. QED BY <1>3, <1>7, <1>8, <1>9 DEF count, t

\* The amount a member stands for: one that an administrator set.
AmountOf(item) == IF item = Null \/ item.number \notin Amount THEN Null ELSE item.number

\* The amounts of a category are an object, and each is a number.
LEMMA AmountsFacts ==
  ASSUME NEW m \in Amounts
  PROVE  /\ DOMAIN m = {"object"} /\ m = [object |-> Members(m)]
         /\ Members(m) \in Seq(MemberOf(Key, Number))
         /\ \A k : Get(m, k) = Null \/ Get(m, k) \in Number
<1>1. /\ DOMAIN m = {"object"} /\ m = [object |-> m.object]
      /\ m.object \in Seq(MemberOf(Key, Number))
  BY DEF Amounts
<1>2. Members(m) = m.object BY <1>1 DEF Members
<1>3. Null \notin Number BY NullIsNoValue
<1>4. ASSUME NEW k PROVE Get(m, k) = Null \/ Get(m, k) \in Number
  BY <1>1, <1>2, <1>3, FoundAny DEF Get
<1>5. QED BY <1>1, <1>2, <1>4

\* The amounts of a category are read as they are.
LEMMA AmountRead ==
  ASSUME NEW o \in SummaryObject, NEW c \in Category
  PROVE  LET amounts == Get(Get(o, "supplies"), c)
             t       == Read([json |-> o], "supplies", c)
         IN  /\ amounts \in Amounts /\ amounts # Null /\ t = [json |-> amounts] /\ t # Null
             /\ \A k : AmountIn([json |-> o], c, k) = AmountOf(Get(amounts, k))
<1> DEFINE p == Get(o, "supplies")
           amounts == Get(p, c)
           t == Read([json |-> o], "supplies", c)
<1>1. p \in Complete(Category, Amounts) BY Parts DEF Supplies
<1>2. amounts # Null BY <1>1 DEF Complete, is_key_in_json_object, Get
<1>3. amounts \in Amounts BY <1>1, <1>2, ObjectFacts DEF Complete
<1>4. p # Null /\ [json |-> p] # Null
      /\ get_value_of_key_from_json_string([json |-> o], "supplies") = [json |-> p]
  BY Parts DEF PartKey
<1>5. t = get_value_of_key_from_json_string([json |-> p], c) BY <1>4 DEF Read
<1>6. DOMAIN amounts = {"object"} BY <1>3, AmountsFacts
<1>7. [json |-> amounts] # Null BY <1>3, NullIsNoText
<1> HIDE DEF amounts
<1>8. t = [json |-> amounts] BY <1>2, <1>4, <1>5, <1>6, GetText DEF amounts
<1>9. ASSUME NEW k PROVE AmountIn([json |-> o], c, k) = AmountOf(Get(amounts, k))
  <2> DEFINE item == Get(amounts, k)
             amount == get_value_of_key_from_json_string([json |-> amounts], k)
  <2>1. AmountIn([json |-> o], c, k) =
          IF amount = Null \/ atof(amount) \notin Amount THEN Null ELSE atof(amount)
    BY <1>8 DEF AmountIn, t
  <2>2. item = Null \/ item \in Number BY <1>3, AmountsFacts
  <2>3. CASE item = Null
    <3>1. amount = Null BY <1>2, <1>7, <2>3, GetText
    <3>2. QED BY <2>1, <2>3, <3>1 DEF AmountOf
  <2>4. CASE item # Null
    <3> HIDE DEF item
    <3>1. item \in [number : Int]
      <4>1. Amount \cup {0} \subseteq Int BY AmountType
      <4>2. QED BY <2>2, <2>4, <4>1 DEF Number
    <3>2. amount = [f |-> item.number] BY <1>2, <1>7, <2>4, <3>1, GetText DEF item
    <3>3. [f |-> item.number] \in [f : Int] BY <3>1
    <3> HIDE DEF amount
    <3>4. amount # Null /\ atof(amount) = item.number BY <3>2, <3>3, NullIsNoText DEF atof
    <3>5. QED BY <2>1, <2>4, <3>4 DEF AmountOf, item
  <2>5. QED BY <2>3, <2>4
<1>10. QED BY <1>2, <1>3, <1>7, <1>8, <1>9 DEF amounts, t

\* An event is read as the text it is.
LEMMA EventRead ==
  ASSUME NEW o \in SummaryObject, NEW k \in EmergencyKey
  PROVE  LET event == Get(Get(o, "emergency"), k)
         IN  event \in Event /\ Read([json |-> o], "emergency", k) = event.string
<1> DEFINE p == Get(o, "emergency")
           event == Get(p, k)
           t == Read([json |-> o], "emergency", k)
<1>1. p \in Complete(EmergencyKey, Event) BY Parts DEF Emergency
<1>2. event # Null BY <1>1 DEF Complete, is_key_in_json_object, Get
<1>3. event \in Event BY <1>1, <1>2, ObjectFacts DEF Complete
<1>4. p # Null /\ [json |-> p] # Null
      /\ get_value_of_key_from_json_string([json |-> o], "emergency") = [json |-> p]
  BY Parts DEF PartKey
<1>5. t = get_value_of_key_from_json_string([json |-> p], k) BY <1>4 DEF Read
<1> HIDE DEF event
<1>6. event = [string |-> event.string] BY <1>3 DEF Event
<1>7. \E w : event = [string |-> w] BY <1>6
<1>8. t = event.string BY <1>2, <1>4, <1>5, <1>7, GetText DEF event
<1>9. QED BY <1>3, <1>8 DEF event, t

\* The document in the text of a summary.
CountsOf(o) == [e \in Entry |-> Get(Get(o, "alerts"), e).number - BootCount]
AmountsOf(o) == [i \in Category \X Key |-> AmountOf(Get(Get(Get(o, "supplies"), i[1]), i[2]))]
EventsOf(o) == [k \in EmergencyKey |-> Get(Get(o, "emergency"), k).string.word]

LEMMA DocumentRead ==
  ASSUME NEW o \in SummaryObject
  PROVE  Document([json |-> o]) =
           [alerts |-> CountsOf(o), supplies |-> AmountsOf(o), emergency |-> EventsOf(o)]
<1>1. [e \in Entry |-> atof(Read([json |-> o], "alerts", e)) - BootCount] = CountsOf(o)
  BY CountRead DEF CountsOf
<1>2. [i \in Category \X Key |-> AmountIn([json |-> o], i[1], i[2])] = AmountsOf(o)
  <2>1. \A i \in Category \X Key :
          AmountIn([json |-> o], i[1], i[2]) = AmountOf(Get(Get(Get(o, "supplies"), i[1]), i[2]))
    BY AmountRead
  <2>2. QED BY <2>1 DEF AmountsOf
<1>3. [k \in EmergencyKey |-> Read([json |-> o], "emergency", k).word] = EventsOf(o)
  BY EventRead DEF EventsOf
<1>4. QED BY <1>1, <1>2, <1>3 DEF Document

LEMMA CountsTyped ==
  ASSUME NEW o \in SummaryObject
  PROVE  CountsOf(o) \in [Entry -> 0..MaxAlerts]
<1>1. ASSUME NEW e \in Entry PROVE Get(Get(o, "alerts"), e).number - BootCount \in 0..MaxAlerts
  <2> DEFINE count == Get(Get(o, "alerts"), e)
  <2>1. count \in Count BY CountRead
  <2> HIDE DEF count
  <2>2. count.number \in BootCount..(BootCount + MaxAlerts) BY <2>1 DEF Count
  <2>3. count.number - BootCount \in 0..MaxAlerts BY <2>2, CountsType
  <2>4. QED BY <2>3 DEF count
<1>2. QED BY <1>1 DEF CountsOf

\* SInv says what AlwaysReadable does.
LEMMA SReadable == SInv => AlwaysReadable
<1> SUFFICES ASSUME SInv PROVE AlwaysReadable
  OBVIOUS
<1>1. PICK o \in SummaryObject : json_buffer = [json |-> o]
  BY DEF SInv
<1>2. ASSUME NEW part \in PartKey PROVE get_value_of_key_from_json_string(json_buffer, part) # Null
  <2>1. /\ get_value_of_key_from_json_string([json |-> o], part) = [json |-> Get(o, part)]
        /\ [json |-> Get(o, part)] # Null
    BY Parts
  <2>2. QED BY <1>1, <2>1
<1>3. \A e \in Entry : Read(json_buffer, "alerts", e) # Null BY <1>1, CountRead
<1>4. \A c \in Category : Read(json_buffer, "supplies", c) # Null BY <1>1, AmountRead
<1>5. CountsOf(o) \in [Entry -> 0..MaxAlerts] BY CountsTyped
<1>6. AmountsOf(o) \in [Category \X Key -> Amount \cup {Null}]
  BY DEF AmountsOf, AmountOf
<1>7. EventsOf(o) \in [EmergencyKey -> EventWord \cup {Null}]
  <2>1. ASSUME NEW k \in EmergencyKey
        PROVE  Get(Get(o, "emergency"), k).string.word \in EventWord \cup {Null}
    <3>1. Get(Get(o, "emergency"), k) \in Event BY EventRead
    <3>2. QED BY <3>1 DEF Event
  <2>2. QED BY <2>1 DEF EventsOf
<1>8. Document(json_buffer) \in Documents
  <2>1. Document(json_buffer) =
          [alerts |-> CountsOf(o), supplies |-> AmountsOf(o), emergency |-> EventsOf(o)]
    BY <1>1, DocumentRead
  <2>2. QED BY <1>5, <1>6, <1>7, <2>1 DEF Documents
<1>9. QED BY <1>2, <1>3, <1>4, <1>8 DEF AlwaysReadable

-----------------------------------------------------------------------------
(***************************************************************************)
(* The amounts of a category, in which keys may come again.                *)
(***************************************************************************)

\* The spellings in use in a category, when d is the document asked for.
Use(d, c) == {k \in Key : k \in BootKey \/ d.supplies[<<c, k>>] # Null}

\* k and another spelling of it are in U.
Rival(U, k) == k \in U /\ \E l \in U \ {k} : Lower[l] = Lower[k]

Sole(m, k) ==
  \A i, j \in 1..Len(Members(m)) : Members(m)[i].key = k /\ Members(m)[j].key = k => i = j

KeysIn(m, U) == \A i \in 1..Len(Members(m)) : Members(m)[i].key \in U

\* An amount put into a category whose keys are in U.  A key without a rival
\* keeps its one member, or gets it.
LEMMA PutAmount ==
  ASSUME NEW m \in Amounts, NEW U, U \subseteq Key, NEW key \in Key, NEW item \in Number,
         KeysIn(m, U), \A k \in Key : ~Rival(U, k) => Sole(m, k)
  PROVE  LET r == Put(m, key, item)
             W == U \cup {key}
         IN  /\ r \in Amounts /\ KeysIn(r, W)
             /\ \A k \in Key : ~Rival(W, k) =>
                  /\ Sole(r, k) /\ ~Rival(U, k)
                  /\ Get(r, k) = IF k = key THEN item ELSE Get(m, k)
<1> DEFINE ms == Members(m)
           x == [key |-> key, value |-> item]
           M == MemberOf(Key, Number)
           r == Put(m, key, item)
           W == U \cup {key}
<1>1. ms \in Seq(M) /\ Null \notin Number /\ Len(ms) \in Nat
  BY AmountsFacts, NullIsNoValue
<1>2. x \in M /\ x.key = key /\ x.value = item BY DEF MemberOf
<1>3. PICK rest \in Seq(M) : r = [object |-> Append(rest, x)] /\ LeavesOut(rest, ms, key)
  <2>1. Members(m) \in Seq(MemberOf(Key, Number)) /\ Null \notin Number BY <1>1
  <2>2. QED BY <2>1, PutMembers
<1> DEFINE rs == Append(rest, x)
<1>4. Members(r) = rs BY <1>3 DEF Members
<1> HIDE DEF r, x, M
<1>5. /\ rs \in Seq(M) /\ Len(rs) = Len(rest) + 1 /\ Len(rest) \in Nat
      /\ \A i \in 1..Len(rest) : rs[i] = rest[i]
      /\ rs[Len(rest) + 1] = x
  BY <1>2
<1>6. r = [object |-> rs] BY <1>3
<1> HIDE DEF rs
<1>7. r \in Amounts BY <1>5, <1>6 DEF Amounts, M
<1>8. \A i \in 1..Len(rs) : i \in 1..Len(rest) \/ i = Len(rest) + 1 BY <1>5
\* Where the members that stay come from.
<1>9. \E p \in 0..Len(ms) :
        /\ p = 0 => \A j \in 1..Len(ms) : ms[j].key # key
        /\ p # 0 => Lower[ms[p].key] = Lower[key]
        /\ \A i \in 1..Len(rest) : \E j \in 1..Len(ms) :
             rest[i] = ms[j] /\ j # p /\ i = IF p = 0 \/ j < p THEN j ELSE j - 1
        /\ \A j \in 1..Len(ms) : j # p => \E i \in 1..Len(rest) : rest[i] = ms[j]
  <2>1. CASE rest = ms /\ \A j \in 1..Len(ms) : ms[j].key # key
    <3>1. 0 \in 0..Len(ms) /\ \A i \in 1..Len(ms) : i # 0 BY <1>1
    <3>2. QED BY <2>1, <3>1
  <2>2. ASSUME NEW p \in 1..Len(ms), Lower[ms[p].key] = Lower[key], Len(rest) = Len(ms) - 1,
               \A i \in 1..(Len(ms) - 1) : rest[i] = ms[IF i < p THEN i ELSE i + 1]
        PROVE  /\ p \in 0..Len(ms) /\ p # 0
               /\ \A i \in 1..Len(rest) : \E j \in 1..Len(ms) :
                    rest[i] = ms[j] /\ j # p /\ i = IF p = 0 \/ j < p THEN j ELSE j - 1
               /\ \A j \in 1..Len(ms) : j # p => \E i \in 1..Len(rest) : rest[i] = ms[j]
    <3>1. p \in 0..Len(ms) /\ p # 0 BY <1>1
    <3>2. ASSUME NEW i \in 1..Len(rest)
          PROVE  \E j \in 1..Len(ms) :
                   rest[i] = ms[j] /\ j # p /\ i = IF p = 0 \/ j < p THEN j ELSE j - 1
      <4> DEFINE j == IF i < p THEN i ELSE i + 1
      <4>1. j \in 1..Len(ms) /\ j # p /\ i \in 1..(Len(ms) - 1) BY <1>1, <2>2
      <4>2. i = IF p = 0 \/ j < p THEN j ELSE j - 1 BY <1>1, <2>2
      <4>3. rest[i] = ms[j] BY <2>2, <4>1
      <4> HIDE DEF j
      <4>4. QED BY <4>1, <4>2, <4>3
    <3>3. ASSUME NEW j \in 1..Len(ms), j # p PROVE \E i \in 1..Len(rest) : rest[i] = ms[j]
      <4> DEFINE i == IF j < p THEN j ELSE j - 1
      <4>1. i \in 1..(Len(ms) - 1) /\ (IF i < p THEN i ELSE i + 1) = j BY <1>1, <3>3
      <4> HIDE DEF i
      <4>2. rest[i] = ms[j] /\ i \in 1..Len(rest) BY <2>2, <4>1
      <4>3. QED BY <4>2
    <3>4. QED BY <3>1, <3>2, <3>3
  <2>3. QED BY <1>3, <2>1, <2>2 DEF LeavesOut
<1>10. PICK p \in 0..Len(ms) :
        /\ p = 0 => \A j \in 1..Len(ms) : ms[j].key # key
        /\ p # 0 => Lower[ms[p].key] = Lower[key]
        /\ \A i \in 1..Len(rest) : \E j \in 1..Len(ms) :
             rest[i] = ms[j] /\ j # p /\ i = IF p = 0 \/ j < p THEN j ELSE j - 1
        /\ \A j \in 1..Len(ms) : j # p => \E i \in 1..Len(rest) : rest[i] = ms[j]
  BY <1>9
<1>11. \A j \in 1..Len(ms) : ms[j].key \in U BY DEF KeysIn
<1>12. p # 0 => p \in 1..Len(ms) /\ ms[p].key \in U BY <1>1, <1>10, <1>11
<1>13. KeysIn(r, W)
  <2>1. ASSUME NEW i \in 1..Len(rest) PROVE rs[i].key \in U
    <3>1. PICK j \in 1..Len(ms) : rest[i] = ms[j] BY <1>10
    <3>2. QED BY <1>5, <1>11, <3>1
  <2>2. \A i \in 1..Len(rs) : rs[i].key \in W BY <1>2, <1>5, <1>8, <2>1
  <2>3. QED BY <1>4, <2>2 DEF KeysIn
<1>14. ASSUME NEW k \in Key, ~Rival(W, k)
       PROVE  /\ Sole(r, k) /\ ~Rival(U, k)
              /\ Get(r, k) = IF k = key THEN item ELSE Get(m, k)
  <2>1. ~Rival(U, k) BY <1>14 DEF Rival
  <2>2. \A i, j \in 1..Len(ms) : ms[i].key = k /\ ms[j].key = k => i = j BY <2>1 DEF Sole
  <2>3. CASE k = key
    <3>1. p # 0 => ms[p].key = k BY <1>10, <1>12, <1>14, <2>3 DEF Rival
    <3>2. ASSUME NEW i \in 1..Len(rest) PROVE rs[i].key # k
      <4>1. PICK j \in 1..Len(ms) : rest[i] = ms[j] /\ j # p BY <1>10
      <4>2. CASE p = 0 BY <1>5, <1>10, <2>3, <4>1, <4>2
      <4>3. CASE p # 0 BY <1>5, <1>12, <2>2, <3>1, <4>1, <4>3
      <4>4. QED BY <4>2, <4>3
    <3> DEFINE q == Len(rest) + 1
    <3>3. q \in 1..Len(rs) /\ rs[q] = x BY <1>5
    <3>4. \A i \in 1..Len(rs) : rs[i].key = k => i = q BY <1>8, <3>2
    <3> HIDE DEF q
    <3>5. Sole(r, k) BY <1>4, <3>4 DEF Sole
    <3>6. rs[q].key = k /\ rs[q].value = item BY <1>2, <2>3, <3>3
    <3>7. Len(rs) \in Nat BY <1>5
    <3>8. Get(r, k) = item BY <1>4, <3>3, <3>4, <3>6, <3>7, SoleFound DEF Get
    <3>9. QED BY <2>1, <2>3, <3>5, <3>8
  <2>4. CASE k # key
    \* The member that went, if one did, is not one of k.
    <3>1. p # 0 => ms[p].key # k
      <4>1. SUFFICES ASSUME p # 0, ms[p].key = k PROVE FALSE OBVIOUS
      <4>2. k \in U /\ Lower[key] = Lower[k] BY <1>10, <1>12, <4>1
      <4>3. QED BY <1>14, <2>4, <4>2 DEF Rival
    <3>2. rs[Len(rest) + 1].key # k BY <1>2, <1>5, <2>4
    <3>3. ASSUME NEW i \in 1..Len(rs), NEW j \in 1..Len(rs), rs[i].key = k, rs[j].key = k
          PROVE  i = j
      <4>1. i \in 1..Len(rest) /\ j \in 1..Len(rest) BY <1>8, <3>2, <3>3
      <4>2. PICK a \in 1..Len(ms) :
              rest[i] = ms[a] /\ i = IF p = 0 \/ a < p THEN a ELSE a - 1
        BY <1>10, <4>1
      <4>3. PICK b \in 1..Len(ms) :
              rest[j] = ms[b] /\ j = IF p = 0 \/ b < p THEN b ELSE b - 1
        BY <1>10, <4>1
      <4>4. a = b BY <1>5, <2>2, <3>3, <4>1, <4>2, <4>3
      <4>5. QED BY <4>2, <4>3, <4>4
    <3>4. Sole(r, k) BY <1>4, <3>3 DEF Sole
    <3>5. CASE \E j \in 1..Len(ms) : ms[j].key = k
      <4>1. PICK j \in 1..Len(ms) : ms[j].key = k BY <3>5
      <4>2. j # p BY <1>1, <3>1, <4>1
      <4>3. PICK i \in 1..Len(rest) : rest[i] = ms[j] BY <1>10, <4>2
      <4>4. i \in 1..Len(rs) /\ rs[i] = ms[j] BY <1>5, <4>3
      <4>5. Get(m, k) = ms[j].value BY <1>1, <2>2, <4>1, SoleFound DEF Get
      <4>6. Len(rs) \in Nat BY <1>5
      <4>7. Get(r, k) = rs[i].value BY <1>4, <3>3, <4>1, <4>4, <4>6, SoleFound DEF Get
      <4>8. QED BY <2>1, <2>4, <3>4, <4>4, <4>5, <4>7
    <3>6. CASE \A j \in 1..Len(ms) : ms[j].key # k
      <4>1. ASSUME NEW i \in 1..Len(rest) PROVE rs[i].key # k
        <5>1. PICK j \in 1..Len(ms) : rest[i] = ms[j] BY <1>10
        <5>2. QED BY <1>5, <3>6, <5>1
      <4>2. \A i \in 1..Len(rs) : rs[i].key # k BY <1>8, <3>2, <4>1
      <4>3. Get(m, k) = Null BY <3>6, NotFound DEF Get
      <4>4. Get(r, k) = Null BY <1>4, <4>2, NotFound DEF Get
      <4>5. QED BY <2>1, <2>4, <3>4, <4>3, <4>4
    <3>7. QED BY <3>5, <3>6
  <2>5. QED BY <2>3, <2>4
<1>15. QED BY <1>7, <1>13, <1>14 DEF r

-----------------------------------------------------------------------------
(***************************************************************************)
(* The invariant and the steps.                                            *)
(***************************************************************************)

\* The amounts of category c in the summary o.
In(o, c) == Get(Get(o, "supplies"), c)

\* What SInv says of the amounts m of category c, and of the summary o.
AmountsGood(m, d, c) ==
  /\ KeysIn(m, Use(d, c))
  /\ \A k \in Key : ~Rival(Use(d, c), k) =>
       Sole(m, k) /\ AmountOf(Get(m, k)) = d.supplies[<<c, k>>]

Good(o, d) ==
  /\ d \in Documents
  /\ CountsOf(o) = d.alerts /\ EventsOf(o) = d.emergency
  /\ \A c \in Category : AmountsGood(In(o, c), d, c)

LEMMA MembersRead ==
  ASSUME NEW o \in SummaryObject, NEW c \in Category
  PROVE  Members(cJSON_Parse(Read([json |-> o], "supplies", c))) = Members(In(o, c))
<1>1. Read([json |-> o], "supplies", c) = [json |-> In(o, c)] BY AmountRead DEF In
<1>2. QED BY <1>1 DEF cJSON_Parse

LEMMA InvGood ==
  ASSUME NEW o \in SummaryObject, json_buffer = [json |-> o]
  PROVE  SInv <=> Good(o, doc)
<1>1. \A c \in Category : MembersIn(c) = Members(In(o, c)) BY MembersRead DEF MembersIn
<1>2. \A c \in Category, k \in Key : InUse(c, k) <=> k \in Use(doc, c) BY DEF InUse, Use
<1>3. \A c \in Category, k \in Key : Respelt(c, k) <=> Rival(Use(doc, c), k)
  BY <1>2 DEF Respelt, Rival, Use
<1>4. Document(json_buffer) =
        [alerts |-> CountsOf(o), supplies |-> AmountsOf(o), emergency |-> EventsOf(o)]
  BY DocumentRead
<1>5. \A c \in Category, k \in Key : AmountsOf(o)[<<c, k>>] = AmountOf(Get(In(o, c), k))
  BY DEF AmountsOf, In
<1>6. \A c \in Category : \A i \in 1..Len(Members(In(o, c))) : Members(In(o, c))[i].key \in Key
  <2>1. SUFFICES ASSUME NEW c \in Category, NEW i \in 1..Len(Members(In(o, c)))
                 PROVE  Members(In(o, c))[i].key \in Key
    OBVIOUS
  <2>2. In(o, c) \in Amounts BY AmountRead DEF In
  <2>3. Members(In(o, c)) \in Seq(MemberOf(Key, Number)) BY <2>2, AmountsFacts
  <2>4. Members(In(o, c))[i] \in MemberOf(Key, Number) BY <2>3, ElementOfSeq
  <2>5. QED BY <2>4 DEF MemberOf
<1>7. KeysInUse <=> \A c \in Category : KeysIn(In(o, c), Use(doc, c))
  BY <1>1, <1>2, <1>6 DEF KeysInUse, KeysIn
<1>8. SoleMembers <=> \A c \in Category, k \in Key : ~Rival(Use(doc, c), k) => Sole(In(o, c), k)
  BY <1>1, <1>3 DEF SoleMembers, Sole
<1>9. EditsAgree <=>
        /\ CountsOf(o) = doc.alerts /\ EventsOf(o) = doc.emergency
        /\ \A c \in Category, k \in Key : ~Rival(Use(doc, c), k) =>
             AmountOf(Get(In(o, c), k)) = doc.supplies[<<c, k>>]
  <2> DEFINE d == Document(json_buffer)
  <2>1. d.alerts = CountsOf(o) /\ d.supplies = AmountsOf(o) /\ d.emergency = EventsOf(o) BY <1>4
  <2> HIDE DEF d
  <2>2. EditsAgree <=>
          /\ d.alerts = doc.alerts /\ d.emergency = doc.emergency
          /\ \A c \in Category, k \in Key :
               ~Respelt(c, k) => d.supplies[<<c, k>>] = doc.supplies[<<c, k>>]
    BY DEF EditsAgree, d
  <2>3. QED BY <1>3, <1>5, <2>1, <2>2
<1>10. json_buffer \in [json : SummaryObject] OBVIOUS
<1>11. QED BY <1>7, <1>8, <1>9, <1>10 DEF SInv, Good, AmountsGood

LEMMA InvGoodNext ==
  ASSUME NEW o \in SummaryObject, json_buffer' = [json |-> o], Good(o, doc')
  PROVE  SInv'
<1>1. \A c \in Category : MembersIn(c)' = Members(In(o, c)) BY MembersRead DEF MembersIn
<1>2. \A c \in Category, k \in Key : InUse(c, k)' <=> k \in Use(doc', c) BY DEF InUse, Use
<1>3. \A c \in Category, k \in Key : Respelt(c, k)' <=> Rival(Use(doc', c), k)
  BY <1>2 DEF Respelt, Rival, Use
<1>4. Document(json_buffer') =
        [alerts |-> CountsOf(o), supplies |-> AmountsOf(o), emergency |-> EventsOf(o)]
  BY DocumentRead
<1>5. \A c \in Category, k \in Key : AmountsOf(o)[<<c, k>>] = AmountOf(Get(In(o, c), k))
  BY DEF AmountsOf, In
<1>6. /\ doc' \in Documents
      /\ CountsOf(o) = doc'.alerts /\ EventsOf(o) = doc'.emergency
      /\ \A c \in Category : KeysIn(In(o, c), Use(doc', c))
      /\ \A c \in Category, k \in Key : ~Rival(Use(doc', c), k) =>
           Sole(In(o, c), k) /\ AmountOf(Get(In(o, c), k)) = doc'.supplies[<<c, k>>]
  BY DEF Good, AmountsGood
<1>7. KeysInUse'
  <2>1. \A c \in Category : \A i \in 1..Len(Members(In(o, c))) :
          Members(In(o, c))[i].key \in Use(doc', c)
    BY <1>6 DEF KeysIn
  <2>2. \A c \in Category : \A i \in 1..Len(MembersIn(c)') : InUse(c, MembersIn(c)[i].key)'
    <3>1. SUFFICES ASSUME NEW c \in Category, NEW i \in 1..Len(MembersIn(c)')
                   PROVE  InUse(c, MembersIn(c)[i].key)'
      OBVIOUS
    <3>2. MembersIn(c)'[i].key \in Use(doc', c) BY <1>1, <2>1, <3>1
    <3>3. QED BY <3>2 DEF InUse, Use
  <2>3. QED BY <2>2 DEF KeysInUse
<1>8. SoleMembers'
  <2>1. SUFFICES ASSUME NEW c \in Category, NEW k \in Key, ~Respelt(c, k)',
                        NEW i \in 1..Len(MembersIn(c)'), NEW j \in 1..Len(MembersIn(c)'),
                        MembersIn(c)'[i].key = k, MembersIn(c)'[j].key = k
                 PROVE  i = j
    BY DEF SoleMembers
  <2>2. MembersIn(c)' = Members(In(o, c)) /\ Sole(In(o, c), k) BY <1>1, <1>3, <1>6, <2>1
  <2>3. QED BY <2>1, <2>2 DEF Sole
<1>9. EditsAgree'
  <2> DEFINE d == Document(json_buffer')
  <2>1. d.alerts = CountsOf(o) /\ d.supplies = AmountsOf(o) /\ d.emergency = EventsOf(o) BY <1>4
  <2> HIDE DEF d
  <2>2. /\ d.alerts = doc'.alerts /\ d.emergency = doc'.emergency
        /\ \A c \in Category, k \in Key :
             ~Respelt(c, k)' => d.supplies[<<c, k>>] = doc'.supplies[<<c, k>>]
    BY <1>3, <1>5, <1>6, <2>1
  <2>3. QED BY <2>2 DEF EditsAgree, d
<1>10. (json_buffer \in [json : SummaryObject])' OBVIOUS
<1>11. QED BY <1>6, <1>7, <1>8, <1>9, <1>10 DEF SInv

LEMMA SInit == Init => SInv
<1> DEFINE a == ObjectOf([e \in Entry |-> [number |-> BootCount]])
           m == ObjectOf([k \in BootKey |-> [number |-> 0]])
           s == ObjectOf([c \in Category |-> m])
           v == ObjectOf([k \in EmergencyKey |-> [string |-> [word |-> Null]]])
           f == [alerts |-> a, supplies |-> s, emergency |-> v]
           o == ObjectOf(f)
<1>1. a \in Alerts /\ \A e \in Entry : Get(a, e) = [number |-> BootCount]
  <2> DEFINE g == [e \in Entry |-> [number |-> BootCount]]
  <2>0. \A e \in Entry : g[e] = [number |-> BootCount] OBVIOUS
  <2>1. g \in [Entry -> Count] BY CountsType DEF Count
  <2>2. Null \notin Count BY NullIsNoValue
  <2> HIDE DEF g
  <2>3. a \in Objects(Entry, Count) /\ \A k \in Entry : Get(a, k) = g[k]
    BY <2>1, <2>2, KeysDiffer, FiniteKeys, Made DEF g
  <2> HIDE DEF a
  <2>4. \A k \in Entry : Get(a, k) # Null BY <2>1, <2>2, <2>3
  <2>5. QED BY <2>0, <2>3, <2>4 DEF Alerts, Complete, is_key_in_json_object, Get
<1>2. /\ m \in Amounts /\ KeysIn(m, BootKey)
      /\ \A k \in Key : Sole(m, k) /\ AmountOf(Get(m, k)) = Null
  <2> DEFINE g == [k \in BootKey |-> [number |-> 0]]
  <2>1. g \in [BootKey -> Number] BY DEF Number
  <2>2. \A k \in BootKey : g[k] = [number |-> 0] OBVIOUS
  <2> HIDE DEF g
  <2>3. /\ m \in [object : Seq(MemberOf(Key, Number))] /\ Distinct(Members(m))
        /\ \A i \in 1..Len(Members(m)) : Members(m)[i].key \in BootKey
        /\ \A k \in BootKey : Get(m, k) = g[k]
    <3>1. IsFiniteSet(BootKey) /\ BootKey \subseteq Key BY FiniteKeys, BootKeyType
    <3>2. m = ObjectOf(g) BY DEF g
    <3> HIDE DEF m
    <3>3. QED BY <2>1, <3>1, <3>2, MadeMembers, SMTT(30)
  <2> HIDE DEF m
  <2>4. \A k : Sole(m, k) BY <2>3 DEF Sole, Distinct
  <2>5. ASSUME NEW k \in Key PROVE AmountOf(Get(m, k)) = Null
    <3>1. CASE k \in BootKey
      <4>1. Get(m, k) = [number |-> 0] BY <2>2, <2>3, <3>1
      <4>2. 0 \notin Amount BY AmountType
      <4>3. QED BY <4>1, <4>2 DEF AmountOf
    <3>2. CASE k \notin BootKey
      <4>1. Get(m, k) = Null BY <2>3, <3>2, NotFound DEF Get
      <4>2. QED BY <4>1 DEF AmountOf
    <3>3. QED BY <3>1, <3>2
  <2>6. QED BY <2>3, <2>4, <2>5 DEF Amounts, KeysIn
<1> HIDE DEF a, m
<1>3. s \in Supplies /\ \A c \in Category : Get(s, c) = m
  <2> DEFINE g == [c \in Category |-> m]
  <2>0. \A c \in Category : g[c] = m OBVIOUS
  <2>1. g \in [Category -> Amounts] BY <1>2
  <2>2. Null \notin Amounts BY NullIsNoValue
  <2> HIDE DEF g
  <2>3. s \in Objects(Category, Amounts) /\ \A k \in Category : Get(s, k) = g[k]
    BY <2>1, <2>2, KeysDiffer, FiniteKeys, Made DEF g
  <2> HIDE DEF s
  <2>4. \A k \in Category : Get(s, k) # Null BY <2>1, <2>2, <2>3
  <2>5. QED BY <2>0, <2>3, <2>4 DEF Supplies, Complete, is_key_in_json_object, Get
<1>4. v \in Emergency /\ \A k \in EmergencyKey : Get(v, k) = [string |-> [word |-> Null]]
  <2> DEFINE g == [k \in EmergencyKey |-> [string |-> [word |-> Null]]]
  <2>0. \A k \in EmergencyKey : g[k] = [string |-> [word |-> Null]] OBVIOUS
  <2>1. g \in [EmergencyKey -> Event] BY DEF Event
  <2>2. Null \notin Event BY NullIsNoValue
  <2>3. IsFiniteSet(EmergencyKey)
    <3>1. EmergencyKey = {"last_keepalived"} \cup {"last_event"} BY DEF EmergencyKey
    <3>2. QED BY <3>1, FS_Singleton, FS_AddElement
  <2> HIDE DEF g
  <2>4. v \in Objects(EmergencyKey, Event) /\ \A k \in EmergencyKey : Get(v, k) = g[k]
    BY <2>1, <2>2, <2>3, KeysDiffer, Made DEF g
  <2> HIDE DEF v
  <2>5. \A k \in EmergencyKey : Get(v, k) # Null BY <2>1, <2>2, <2>4
  <2>6. QED BY <2>0, <2>4, <2>5 DEF Emergency, Complete, is_key_in_json_object, Get
<1> HIDE DEF s, v
<1>5. /\ o \in SummaryObject
      /\ Get(o, "alerts") = a /\ Get(o, "supplies") = s /\ Get(o, "emergency") = v
  <2>1. f \in [PartKey -> Part] BY <1>1, <1>3, <1>4 DEF PartKey, Part
  <2>2. Null \notin Part BY NullIsNoValue
  <2>3. IsFiniteSet(PartKey)
    <3>1. PartKey = ({"alerts"} \cup {"supplies"}) \cup {"emergency"} BY DEF PartKey
    <3>2. QED BY <3>1, FS_Singleton, FS_AddElement
  <2>4. f["alerts"] = a /\ f["supplies"] = s /\ f["emergency"] = v OBVIOUS
  <2> HIDE DEF f
  <2>5. o \in Objects(PartKey, Part) /\ \A k \in PartKey : Get(o, k) = f[k]
    BY <2>1, <2>2, <2>3, KeysDiffer, Made
  <2> HIDE DEF o
  <2>6. Get(o, "alerts") = a /\ Get(o, "supplies") = s /\ Get(o, "emergency") = v
    BY <2>4, <2>5 DEF PartKey
  <2>7. QED BY <1>1, <1>3, <1>4, <2>5, <2>6 DEF SummaryObject, Get
<1>6. Init => json_buffer = [json |-> o] /\ doc = Summary!BootDoc BY DEF Init, a, m, s, v
<1> HIDE DEF o, f
<1> DEFINE d == Summary!BootDoc
<1>7. /\ d = [alerts    |-> [e \in Entry |-> 0],
              supplies  |-> [i \in Category \X Key |-> Null],
              emergency |-> [k \in EmergencyKey |-> Null]]
  BY DEF Summary!BootDoc, Summary!EmergencyKey, EmergencyKey
<1> HIDE DEF d
<1>8. d \in Documents BY <1>7, CountsType DEF Documents
<1>9. CountsOf(o) = d.alerts
  <2>1. \A e \in Entry : Get(Get(o, "alerts"), e).number - BootCount = 0
    BY <1>1, <1>5, CountsType
  <2>2. CountsOf(o) = [e \in Entry |-> 0] BY <2>1 DEF CountsOf
  <2>3. QED BY <1>7, <2>2
<1>10. EventsOf(o) = d.emergency
  <2>1. \A k \in EmergencyKey : Get(Get(o, "emergency"), k).string.word = Null BY <1>4, <1>5
  <2>2. EventsOf(o) = [k \in EmergencyKey |-> Null] BY <2>1 DEF EventsOf
  <2>3. QED BY <1>7, <2>2
<1>11. ASSUME NEW c \in Category PROVE AmountsGood(In(o, c), d, c)
  <2>1. In(o, c) = m BY <1>3, <1>5 DEF In
  <2>2. \A k \in Key : d.supplies[<<c, k>>] = Null BY <1>7
  <2>3. Use(d, c) = BootKey BY <2>2, BootKeyType DEF Use
  <2>4. QED BY <1>2, <2>1, <2>2, <2>3 DEF AmountsGood
<1>12. Good(o, d) BY <1>8, <1>9, <1>10, <1>11 DEF Good
<1>13. QED BY <1>5, <1>6, <1>12, InvGood DEF d

\* A part put back into the summary.
LEMMA PutPart ==
  ASSUME NEW o \in SummaryObject, NEW part \in PartKey, NEW p,
         part = "alerts" => p \in Alerts,
         part = "supplies" => p \in Supplies,
         part = "emergency" => p \in Emergency
  PROVE  LET r == Put(o, part, p)
         IN  /\ r \in SummaryObject
             /\ \A k : Get(r, k) = IF k = part THEN p ELSE Get(o, k)
<1> DEFINE r == Put(o, part, p)
<1>1. p \in Part BY DEF PartKey, Part
<1>2. o \in Objects(PartKey, Part) BY Parts
<1>3. r \in Objects(PartKey, Part) /\ \A k : Get(r, k) = IF k = part THEN p ELSE Get(o, k)
  BY <1>1, <1>2, PutObject
<1> HIDE DEF r
<1>4. /\ Get(r, "alerts") \in Alerts
      /\ Get(r, "supplies") \in Supplies
      /\ Get(r, "emergency") \in Emergency
  BY <1>3, Parts
<1>5. r \in SummaryObject BY <1>3, <1>4 DEF SummaryObject, Get
<1>6. QED BY <1>3, <1>5 DEF r

\* set_supply_status puts one amount into one category.
LEMMA SupplyEdit ==
  ASSUME NEW o \in SummaryObject, json_buffer = [json |-> o],
         NEW c \in Category, NEW k \in Key, NEW a \in Amount, set_supply_status(c, k, [d |-> a]),
         Put(In(o, c), k, [number |-> a]) \in Amounts
  PROVE  \E r \in SummaryObject :
           /\ json_buffer' = [json |-> r]
           /\ CountsOf(r) = CountsOf(o) /\ EventsOf(r) = EventsOf(o)
           /\ \A e : In(r, e) = IF e = c THEN Put(In(o, c), k, [number |-> a]) ELSE In(o, e)
<1> DEFINE p == Get(o, "supplies")
           m == Get(p, c)
           m2 == Put(m, k, [number |-> a])
           p2 == Put(p, c, m2)
           r == Put(o, "supplies", p2)
<1>1. p \in Supplies /\ p # Null /\ o # Null
      /\ get_value_of_key_from_json_string(json_buffer, "supplies") = [json |-> p]
  BY Parts DEF PartKey
<1>2. m \in Amounts /\ m # Null /\ Read(json_buffer, "supplies", c) = [json |-> m]
  BY AmountRead
<1>3. get_value_of_key_from_json_string([json |-> p], c) = [json |-> m]
  BY <1>1, <1>2 DEF Read
<1>4. [number |-> a] \in Number /\ [number |-> a] # Null
  <2>1. [number |-> a] \in Number BY DEF Number
  <2>2. QED BY <2>1, NullIsNoValue
<1>5. m2 \in Amounts BY DEF In
<1>6. m2 # Null BY <1>5, NullIsNoValue
<1>7. p2 \in Supplies /\ \A d : Get(p2, d) = IF d = c THEN m2 ELSE Get(p, d)
  <2>1. p \in Complete(Category, Amounts) /\ p \in Objects(Category, Amounts)
    BY <1>1 DEF Supplies, Complete
  <2> HIDE DEF p, m2
  <2>2. QED BY <1>5, <2>1, PutObject DEF Supplies
<1>8. p2 # Null BY <1>7, NullIsNoValue DEF Part
<1>9. r \in SummaryObject /\ \A x : Get(r, x) = IF x = "supplies" THEN p2 ELSE Get(o, x)
  <2> HIDE DEF p2
  <2>1. QED BY <1>7, PutPart DEF PartKey
<1>10. json_buffer' = [json |-> r]
  <2>1. json_buffer' =
          Added([json |-> o], "supplies",
                Added([json |-> p], c,
                      Added([json |-> m], k, [d |-> a], {"OVERRIDE", "INTPARSE"}),
                      {"OVERRIDE", "OBJPARSE"}),
                {"OVERRIDE", "OBJPARSE"})
    BY <1>1, <1>3 DEF set_supply_status
  <2>2. a \in Int \ {0} BY AmountType
  <2> HIDE DEF p, m
  <2>3. Added([json |-> m], k, [d |-> a], {"OVERRIDE", "INTPARSE"}) = [json |-> m2]
    BY <1>2, <1>4, <2>2, Additions
  <2> HIDE DEF m2
  <2>4. Added([json |-> p], c, [json |-> m2], {"OVERRIDE", "OBJPARSE"}) = [json |-> p2]
    BY <1>1, <1>6, Additions, SMTT(30)
  <2> HIDE DEF p2
  <2>5. Added([json |-> o], "supplies", [json |-> p2], {"OVERRIDE", "OBJPARSE"}) = [json |-> r]
    BY <1>1, <1>8, Additions
  <2>6. QED BY <2>1, <2>3, <2>4, <2>5
<1> HIDE DEF r, p2, m2
<1>11. CountsOf(r) = CountsOf(o) BY <1>9 DEF CountsOf
<1>12. EventsOf(r) = EventsOf(o) BY <1>9 DEF EventsOf
<1>13. \A e : In(r, e) = IF e = c THEN Put(In(o, c), k, [number |-> a]) ELSE In(o, e)
  BY <1>7, <1>9 DEF In, m2
<1>14. QED BY <1>9, <1>10, <1>11, <1>12, <1>13

\* add_entry_to_json adds one to one counter.
LEMMA EntryEdit ==
  ASSUME NEW o \in SummaryObject, json_buffer = [json |-> o],
         NEW e \in Entry, add_entry_to_json(e)
  PROVE  \E r \in SummaryObject :
           /\ json_buffer' = [json |-> r]
           /\ (\A c : In(r, c) = In(o, c)) /\ EventsOf(r) = EventsOf(o)
           /\ CountsOf(r) = [CountsOf(o) EXCEPT ![e] = @ + 1]
<1> DEFINE p == Get(o, "alerts")
           n == Get(p, e).number
           p2 == Put(p, e, [number |-> n + 1])
           r == Put(o, "alerts", p2)
<1>1. p \in Alerts /\ p # Null /\ o # Null
      /\ get_value_of_key_from_json_string(json_buffer, "alerts") = [json |-> p]
  BY Parts DEF PartKey
<1>2. Get(p, e) \in Count /\ Read(json_buffer, "alerts", e) = [f |-> n]
      /\ atof([f |-> n]) = n
  BY CountRead
<1>3. get_value_of_key_from_json_string([json |-> p], e) = [f |-> n]
  BY <1>1, <1>2 DEF Read
<1>4. n \in BootCount..(BootCount + MaxAlerts) BY <1>2 DEF Count
<1>5. n < BootCount + MaxAlerts BY <1>1, <1>2, <1>3 DEF add_entry_to_json
<1>6. n + 1 \in BootCount..(BootCount + MaxAlerts) /\ n + 1 \in Int \ {0}
  <2> HIDE DEF n
  <2>1. QED BY <1>4, <1>5, CountsType
<1>7. [number |-> n + 1] \in Count /\ [number |-> n + 1] # Null
  <2> DEFINE n1 == n + 1
  <2>1. n1 \in BootCount..(BootCount + MaxAlerts) BY <1>6
  <2> HIDE DEF n1
  <2>2. [number |-> n1] \in Count BY <2>1 DEF Count
  <2>3. QED BY <2>2, NullIsNoValue DEF n1
<1>8. p2 \in Alerts /\ \A d : Get(p2, d) = IF d = e THEN [number |-> n + 1] ELSE Get(p, d)
  <2>1. p \in Complete(Entry, Count) /\ p \in Objects(Entry, Count)
    BY <1>1 DEF Alerts, Complete
  <2> DEFINE item == [number |-> n + 1]
  <2>2. item \in Count BY <1>7
  <2> HIDE DEF p, n, item
  <2>3. Put(p, e, item) \in Complete(Entry, Count)
        /\ \A d : Get(Put(p, e, item), d) = IF d = e THEN item ELSE Get(p, d)
    BY <2>1, <2>2, PutObject
  <2>4. QED BY <2>3 DEF Alerts, item
<1>9. p2 # Null BY <1>8, NullIsNoValue DEF Part
<1>10. r \in SummaryObject /\ \A x : Get(r, x) = IF x = "alerts" THEN p2 ELSE Get(o, x)
  <2> HIDE DEF p2
  <2>1. QED BY <1>8, PutPart DEF PartKey
<1>11. json_buffer' = [json |-> r]
  <2>1. json_buffer' =
          Added([json |-> o], "alerts",
                Added([json |-> p], e, [d |-> n + 1], {"OVERRIDE", "INTPARSE"}),
                {"OVERRIDE", "OBJPARSE"})
    BY <1>1, <1>2, <1>3 DEF add_entry_to_json
  <2> HIDE DEF p, n
  <2>2. Added([json |-> p], e, [d |-> n + 1], {"OVERRIDE", "INTPARSE"}) = [json |-> p2]
    <3> DEFINE n1 == n + 1
    <3>1. n1 \in Int \ {0} /\ [number |-> n1] # Null BY <1>6, <1>7
    <3> HIDE DEF n1
    <3>2. Added([json |-> p], e, [d |-> n1], {"OVERRIDE", "INTPARSE"})
            = [json |-> Put(p, e, [number |-> n1])]
      BY <1>1, <3>1, Additions
    <3>3. QED BY <3>2 DEF n1
  <2> HIDE DEF p2
  <2>3. Added([json |-> o], "alerts", [json |-> p2], {"OVERRIDE", "OBJPARSE"}) = [json |-> r]
    BY <1>1, <1>9, Additions
  <2>4. QED BY <2>1, <2>2, <2>3
<1> HIDE DEF r, p2
<1>12. \A c : In(r, c) = In(o, c) BY <1>10 DEF In
<1>13. EventsOf(r) = EventsOf(o) BY <1>10 DEF EventsOf
<1>14. CountsOf(r) = [CountsOf(o) EXCEPT ![e] = @ + 1]
  <2>1. ASSUME NEW d \in Entry
        PROVE  CountsOf(r)[d] = IF d = e THEN CountsOf(o)[d] + 1 ELSE CountsOf(o)[d]
    <3>1. CountsOf(r)[d] = Get(p2, d).number - BootCount BY <1>10 DEF CountsOf
    <3>2. CountsOf(o)[d] = Get(p, d).number - BootCount BY DEF CountsOf
    <3>3. CASE d = e
      <4> HIDE DEF n
      <4>1. Get(p2, d).number = n + 1 BY <1>8, <3>3
      <4>2. Get(p, d).number = n BY <3>3 DEF n
      <4>3. (n + 1) - BootCount = (n - BootCount) + 1 BY <1>4, CountsType
      <4>4. QED BY <3>1, <3>2, <3>3, <4>1, <4>2, <4>3
    <3>4. CASE d # e BY <1>8, <3>1, <3>2, <3>4
    <3>5. QED BY <3>3, <3>4
  <2>2. /\ CountsOf(r) = [d \in Entry |-> CountsOf(r)[d]]
        /\ CountsOf(o) = [d \in Entry |-> CountsOf(o)[d]]
    BY DEF CountsOf
  <2>3. QED BY <2>1, <2>2
<1>15. QED BY <1>10, <1>11, <1>12, <1>13, <1>14

\* add_event_to_json changes one text.
LEMMA EventEdit ==
  ASSUME NEW o \in SummaryObject, json_buffer = [json |-> o],
         NEW k \in EmergencyKey, NEW w \in EventWord, add_event_to_json(k, [word |-> w])
  PROVE  \E r \in SummaryObject :
           /\ json_buffer' = [json |-> r]
           /\ CountsOf(r) = CountsOf(o) /\ (\A c : In(r, c) = In(o, c))
           /\ EventsOf(r) = [EventsOf(o) EXCEPT ![k] = w]
<1> DEFINE p == Get(o, "emergency")
           item == [string |-> [word |-> w]]
           p2 == Put(p, k, item)
           r == Put(o, "emergency", p2)
<1>1. p \in Emergency /\ p # Null /\ o # Null
      /\ get_value_of_key_from_json_string(json_buffer, "emergency") = [json |-> p]
  BY Parts DEF PartKey
<1>2. item \in Event /\ item # Null
  <2>1. item \in Event BY DEF Event
  <2>2. QED BY <2>1, NullIsNoValue
<1>3. p2 \in Emergency /\ \A d : Get(p2, d) = IF d = k THEN item ELSE Get(p, d)
  <2>1. p \in Complete(EmergencyKey, Event) /\ p \in Objects(EmergencyKey, Event)
    BY <1>1 DEF Emergency, Complete
  <2> HIDE DEF p, item
  <2>2. QED BY <1>2, <2>1, PutObject DEF Emergency
<1>4. p2 # Null BY <1>3, NullIsNoValue DEF Part
<1>5. r \in SummaryObject /\ \A x : Get(r, x) = IF x = "emergency" THEN p2 ELSE Get(o, x)
  <2> HIDE DEF p2
  <2>1. QED BY <1>3, PutPart DEF PartKey
<1>6. json_buffer' = [json |-> r]
  <2>1. json_buffer' =
          Added([json |-> o], "emergency",
                Added([json |-> p], k, [word |-> w], {"OVERRIDE", "INTPARSE"}),
                {"OVERRIDE", "OBJPARSE"})
    BY <1>1 DEF add_event_to_json
  <2> HIDE DEF p
  <2>2. Added([json |-> p], k, [word |-> w], {"OVERRIDE", "INTPARSE"}) = [json |-> p2]
    BY <1>1, <1>2, Additions
  <2> HIDE DEF p2
  <2>3. Added([json |-> o], "emergency", [json |-> p2], {"OVERRIDE", "OBJPARSE"}) = [json |-> r]
    BY <1>1, <1>4, Additions
  <2>4. QED BY <2>1, <2>2, <2>3
<1> HIDE DEF r, p2
<1>7. CountsOf(r) = CountsOf(o) BY <1>5 DEF CountsOf
<1>8. \A c : In(r, c) = In(o, c) BY <1>5 DEF In
<1>9. EventsOf(r) = [EventsOf(o) EXCEPT ![k] = w]
  <2>1. ASSUME NEW d \in EmergencyKey
        PROVE  EventsOf(r)[d] = IF d = k THEN w ELSE EventsOf(o)[d]
    <3>1. EventsOf(r)[d] = Get(p2, d).string.word BY <1>5 DEF EventsOf
    <3>2. EventsOf(o)[d] = Get(p, d).string.word BY DEF EventsOf
    <3>3. item.string.word = w OBVIOUS
    <3>4. QED BY <1>3, <3>1, <3>2, <3>3
  <2>2. /\ EventsOf(r) = [d \in EmergencyKey |-> EventsOf(r)[d]]
        /\ EventsOf(o) = [d \in EmergencyKey |-> EventsOf(o)[d]]
    BY DEF EventsOf
  <2>3. QED BY <2>1, <2>2
<1>10. QED BY <1>5, <1>6, <1>7, <1>8, <1>9

LEMMA SNext == SInv /\ Next => SInv'
<1> SUFFICES ASSUME SInv, Next PROVE SInv'
  OBVIOUS
<1>1. PICK o \in SummaryObject : json_buffer = [json |-> o] BY DEF SInv
<1>2. Good(o, doc) BY <1>1, InvGood
<1>3. /\ doc = [alerts |-> doc.alerts, supplies |-> doc.supplies, emergency |-> doc.emergency]
      /\ doc.alerts \in [Entry -> 0..MaxAlerts]
      /\ doc.supplies \in [Category \X Key -> Amount \cup {Null}]
      /\ doc.emergency \in [EmergencyKey -> EventWord \cup {Null}]
      /\ CountsOf(o) = doc.alerts /\ EventsOf(o) = doc.emergency
      /\ \A c \in Category : AmountsGood(In(o, c), doc, c)
  BY <1>2 DEF Good, Documents
<1>4. ASSUME NEW e \in Entry, add_entry_to_json(e), Asked([kind |-> "entry", entry |-> e])
      PROVE  SInv'
  <2>1. PICK r \in SummaryObject :
          /\ json_buffer' = [json |-> r]
          /\ (\A c : In(r, c) = In(o, c)) /\ EventsOf(r) = EventsOf(o)
          /\ CountsOf(r) = [CountsOf(o) EXCEPT ![e] = @ + 1]
    BY <1>1, <1>4, EntryEdit
  <2>2. doc' = [doc EXCEPT !.alerts[e] = @ + 1] BY <1>4 DEF Asked, Summary!Edit
  <2>3. /\ doc'.alerts = [doc.alerts EXCEPT ![e] = @ + 1]
        /\ doc'.supplies = doc.supplies /\ doc'.emergency = doc.emergency
        /\ doc' = [alerts |-> doc'.alerts, supplies |-> doc'.supplies, emergency |-> doc'.emergency]
    BY <1>3, <2>2
  <2>4. CountsOf(r) \in [Entry -> 0..MaxAlerts] BY <2>1, CountsTyped
  <2>5. CountsOf(r) = doc'.alerts /\ EventsOf(r) = doc'.emergency BY <1>3, <2>1, <2>3
  <2>6. doc' \in Documents BY <1>3, <2>3, <2>4, <2>5 DEF Documents
  <2>7. ASSUME NEW c \in Category PROVE AmountsGood(In(r, c), doc', c)
    <3>1. Use(doc', c) = Use(doc, c) BY <2>3 DEF Use
    <3>2. AmountsGood(In(o, c), doc, c) /\ In(r, c) = In(o, c) BY <1>3, <2>1
    <3>3. QED BY <2>3, <3>1, <3>2 DEF AmountsGood
  <2>8. Good(r, doc') BY <2>5, <2>6, <2>7 DEF Good
  <2>9. QED BY <2>1, <2>8, InvGoodNext
<1>5. ASSUME NEW k \in EmergencyKey, NEW w \in EventWord, add_event_to_json(k, [word |-> w]),
             Asked([kind |-> "event", key |-> k, text |-> w])
      PROVE  SInv'
  <2>1. PICK r \in SummaryObject :
          /\ json_buffer' = [json |-> r]
          /\ CountsOf(r) = CountsOf(o) /\ (\A c : In(r, c) = In(o, c))
          /\ EventsOf(r) = [EventsOf(o) EXCEPT ![k] = w]
    BY <1>1, <1>5, EventEdit
  <2>2. doc' = [doc EXCEPT !.emergency[k] = w] BY <1>5 DEF Asked, Summary!Edit
  <2>3. /\ doc'.emergency = [doc.emergency EXCEPT ![k] = w]
        /\ doc'.supplies = doc.supplies /\ doc'.alerts = doc.alerts
        /\ doc' = [alerts |-> doc'.alerts, supplies |-> doc'.supplies, emergency |-> doc'.emergency]
    BY <1>3, <2>2
  <2>4. doc'.emergency \in [EmergencyKey -> EventWord \cup {Null}] BY <1>3, <2>3
  <2>5. CountsOf(r) = doc'.alerts /\ EventsOf(r) = doc'.emergency BY <1>3, <2>1, <2>3
  <2>6. doc' \in Documents BY <1>3, <2>3, <2>4 DEF Documents
  <2>7. ASSUME NEW c \in Category PROVE AmountsGood(In(r, c), doc', c)
    <3>1. Use(doc', c) = Use(doc, c) BY <2>3 DEF Use
    <3>2. AmountsGood(In(o, c), doc, c) /\ In(r, c) = In(o, c) BY <1>3, <2>1
    <3>3. QED BY <2>3, <3>1, <3>2 DEF AmountsGood
  <2>8. Good(r, doc') BY <2>5, <2>6, <2>7 DEF Good
  <2>9. QED BY <2>1, <2>8, InvGoodNext
<1>6. ASSUME NEW c \in Category, NEW k \in Key, NEW a \in Amount, set_supply_status(c, k, [d |-> a]),
             Asked([kind |-> "supply", item |-> <<c, k>>, amount |-> a])
      PROVE  SInv'
  <2> DEFINE m  == In(o, c)
             n  == [number |-> a]
             m2 == Put(m, k, n)
             U  == Use(doc, c)
             W  == U \cup {k}
  <2>1. m \in Amounts BY AmountRead DEF In
  <2>2. n \in Number /\ AmountOf(n) = a
    <3>1. n \in Number BY DEF Number
    <3>2. n # Null BY <3>1, NullIsNoValue
    <3>3. QED BY <3>1, <3>2 DEF AmountOf
  <2>3. /\ U \subseteq Key /\ KeysIn(m, U)
        /\ \A l \in Key : ~Rival(U, l) => Sole(m, l) /\ AmountOf(Get(m, l)) = doc.supplies[<<c, l>>]
    BY <1>3 DEF AmountsGood, Use
  <2> HIDE DEF m, n, U
  <2>4. /\ m2 \in Amounts /\ KeysIn(m2, W)
        /\ \A l \in Key : ~Rival(W, l) =>
             /\ Sole(m2, l) /\ ~Rival(U, l)
             /\ Get(m2, l) = IF l = k THEN n ELSE Get(m, l)
    <3>1. \A l \in Key : ~Rival(U, l) => Sole(m, l) BY <2>3
    <3>2. QED BY <2>1, <2>2, <2>3, <3>1, PutAmount
  <2> HIDE DEF m2
  <2>5. PICK r \in SummaryObject :
          /\ json_buffer' = [json |-> r]
          /\ CountsOf(r) = CountsOf(o) /\ EventsOf(r) = EventsOf(o)
          /\ \A e : In(r, e) = IF e = c THEN m2 ELSE In(o, e)
    BY <1>1, <1>6, <2>4, SupplyEdit DEF m2, m, n
  <2>6. doc' = [doc EXCEPT !.supplies[<<c, k>>] = a] BY <1>6 DEF Asked, Summary!Edit
  <2>7. /\ doc'.supplies = [doc.supplies EXCEPT ![<<c, k>>] = a]
        /\ doc'.alerts = doc.alerts /\ doc'.emergency = doc.emergency
        /\ doc' = [alerts |-> doc'.alerts, supplies |-> doc'.supplies, emergency |-> doc'.emergency]
    BY <1>3, <2>6
  <2>8. \A e \in Category, l \in Key :
          doc'.supplies[<<e, l>>] = IF e = c /\ l = k THEN a ELSE doc.supplies[<<e, l>>]
    <3>1. SUFFICES ASSUME NEW e \in Category, NEW l \in Key
                   PROVE  doc'.supplies[<<e, l>>] =
                            IF e = c /\ l = k THEN a ELSE doc.supplies[<<e, l>>]
      OBVIOUS
    <3>2. <<e, l>> \in Category \X Key /\ <<c, k>> \in Category \X Key OBVIOUS
    <3>3. <<e, l>> = <<c, k>> <=> e = c /\ l = k OBVIOUS
    <3>4. QED BY <1>3, <2>7, <3>2, <3>3
  <2>9. doc'.supplies \in [Category \X Key -> Amount \cup {Null}] BY <1>3, <2>7
  <2>10. doc' \in Documents BY <1>3, <2>7, <2>9 DEF Documents
  <2>11. CountsOf(r) = doc'.alerts /\ EventsOf(r) = doc'.emergency BY <1>3, <2>5, <2>7
  <2>12. AmountsGood(In(r, c), doc', c)
    <3>1. a # Null BY AmountType
    <3>2. Use(doc', c) = W BY <2>8, <3>1 DEF Use, U
    <3>3. \A l \in Key : ~Rival(W, l) => AmountOf(Get(m2, l)) = doc'.supplies[<<c, l>>]
      BY <2>2, <2>3, <2>4, <2>8
    <3>4. In(r, c) = m2 BY <2>5
    <3> HIDE DEF W
    <3>5. QED BY <2>4, <3>2, <3>3, <3>4 DEF AmountsGood
  <2>13. ASSUME NEW e \in Category, e # c PROVE AmountsGood(In(r, e), doc', e)
    <3>1. \A l \in Key : doc'.supplies[<<e, l>>] = doc.supplies[<<e, l>>] BY <2>8, <2>13
    <3>2. Use(doc', e) = Use(doc, e) BY <3>1 DEF Use
    <3>3. AmountsGood(In(o, e), doc, e) /\ In(r, e) = In(o, e) BY <1>3, <2>5, <2>13
    <3>4. QED BY <3>1, <3>2, <3>3 DEF AmountsGood
  <2>14. Good(r, doc') BY <2>10, <2>11, <2>12, <2>13 DEF Good
  <2>15. QED BY <2>5, <2>14, InvGoodNext
<1>7. QED BY <1>4, <1>5, <1>6 DEF Next

\* SInv holds after any sequence of edits, whatever the supplies are called: the
\* text is that of a summary in which every part has all the keys it must have,
\* a category holds amounts only under spellings in use, a spelling without a
\* rival at most once, and the values are those asked for.
THEOREM SummaryInvariance == Spec => []SInv
<1>1. ASSUME SInv, UNCHANGED vars PROVE SInv'
  <2>1. PICK o \in SummaryObject : json_buffer = [json |-> o] BY <1>1 DEF SInv
  <2>2. Good(o, doc) BY <1>1, <2>1, InvGood
  <2>3. json_buffer' = [json |-> o] /\ doc' = doc BY <1>1, <2>1 DEF vars
  <2>4. Good(o, doc') BY <2>2, <2>3
  <2>5. QED BY <2>3, <2>4, InvGoodNext
<1>2. QED BY <1>1, SInit, SNext, PTL DEF Spec

\* AlwaysReadable: what an edit prints, the next one can parse and finds
\* complete, also when a supply comes in two spellings
\* (supplies_data_handler.c:17-42, alert_module.c:83-109).
THEOREM SummaryReadable == Spec => []AlwaysReadable
BY SummaryInvariance, SReadable, PTL

\* EditsAgree: after any sequence of edits the text says what was asked for: each
\* counter, event and amount, but for a supply that has been in use in two
\* spellings (supplies_data_handler.c:8-44, alert_module.c:72-112,
\* emergency_handler.c:42-72).
THEOREM EditsExact == Spec => []EditsAgree
<1>1. SInv => EditsAgree BY DEF SInv
<1>2. QED BY <1>1, SummaryInvariance, PTL
=============================================================================
