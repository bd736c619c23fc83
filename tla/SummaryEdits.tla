---------------------------- MODULE SummaryEdits ----------------------------
(***************************************************************************)
(* The three edits of the state summary, made with the JSON helpers on the *)
(* text that read_file returned: an inner object is printed to a text of   *)
(* its own, changed there, and parsed back into the outer one.             *)
(*                                                                         *)
(* They are compared with the edits of StateSummary, where a document is a *)
(* record and an edit changes one field: doc is what the document would be *)
(* if every edit asked for so far had done just that.  What happens        *)
(* between read_file and write_file in other processes is StateFile's      *)
(* subject.                                                                *)
(*                                                                         *)
(* The name of a supply is free text, so an administrator may use the same *)
(* name in two spellings, which only differ in case.  A key is looked up   *)
(* in its exact spelling, but the member that an override deletes is the   *)
(* first one of any spelling.                                              *)
(***************************************************************************)
EXTENDS CJson, FiniteSets

CONSTANTS Entry, Category,
          Key,         \* supplies as an administrator spells them
          BootKey,     \* those of them in each category at first
          Amount,
          EventWord,   \* texts of events; none of them begins with a number
          BootCount,   \* alerts counted at each entrance at first
          MaxAlerts,   \* bound: alerts raised at an entrance
          MaxMembers   \* bound: amounts in a summary that is edited

VARIABLES json_buffer,
          doc          \* history: the document with the edits asked for

EmergencyKey == {"last_keepalived", "last_event"}

PartKey == {"alerts", "supplies", "emergency"}

TextLength(d) == 1
NoText == [none |-> "no document"]
TornText == [none |-> "torn"]
Summary == INSTANCE StateSummary WITH
  Item <- Category \X Key, Unset <- Null, NoDoc <- NoText, Torn <- TornText,
  DocLen <- TextLength

\* An object with the keys of f, in some order, and their values.
ObjectOf(f) ==
  LET order == CHOOSE s \in [1..Cardinality(DOMAIN f) -> DOMAIN f] : Range(s) = DOMAIN f
  IN  [object |-> [i \in DOMAIN order |-> [key |-> order[i], value |-> f[order[i]]]]]

\* The shipped file; an amount it holds is 0, which no administrator sends.
Init ==
  /\ doc = Summary!BootDoc
  /\ json_buffer = [json |-> ObjectOf(
       [alerts    |-> ObjectOf([e \in Entry |-> [number |-> BootCount]]),
        supplies  |-> ObjectOf([c \in Category |-> ObjectOf([k \in BootKey |-> [number |-> 0]])]),
        emergency |-> ObjectOf([k \in EmergencyKey |-> [string |-> [word |-> Null]]])])]

-----------------------------------------------------------------------------
Added(t, key, buffer, flags) == cjson_add_key_value_to_json_string(t, key, buffer, flags).text

Read(t, part, key) ==
  get_value_of_key_from_json_string(get_value_of_key_from_json_string(t, part), key)

\* The amounts of a category, in the order of the text.
MembersIn(c) == Members(cJSON_Parse(Read(json_buffer, "supplies", c)))

AmountsHeld == Cardinality(UNION {{c} \X DOMAIN MembersIn(c) : c \in Category})

\* Mutant of set_supply_status: the category is not put back into the supplies.
SetSupplySkipsLevel(category, key, value) ==
  LET supplies == get_value_of_key_from_json_string(json_buffer, "supplies")
      amounts  == get_value_of_key_from_json_string(supplies, category)
  IN  /\ supplies # Null /\ amounts # Null
      /\ AmountsHeld <= MaxMembers
      /\ json_buffer' =
           Added(json_buffer, "supplies",
                 Added(amounts, key, value, {"OVERRIDE", "INTPARSE"}),
                 {"OVERRIDE", "OBJPARSE"})

set_supply_status(category, key, value) ==
  LET supplies == get_value_of_key_from_json_string(json_buffer, "supplies")
      amounts  == get_value_of_key_from_json_string(supplies, category)
  IN  /\ supplies # Null /\ amounts # Null
      /\ AmountsHeld <= MaxMembers
      /\ json_buffer' =
           Added(json_buffer, "supplies",
                 Added(supplies, category,
                       Added(amounts, key, value, {"OVERRIDE", "INTPARSE"}),
                       {"OVERRIDE", "OBJPARSE"}),
                 {"OVERRIDE", "OBJPARSE"})

\* The counter comes back as "%f" text, is read by atoi and printed by "%d".
add_entry_to_json(entry) ==
  LET alerts == get_value_of_key_from_json_string(json_buffer, "alerts")
      value  == get_value_of_key_from_json_string(alerts, entry)
  IN  /\ alerts # Null /\ value # Null
      /\ atof(value) < BootCount + MaxAlerts
      /\ json_buffer' =
           Added(json_buffer, "alerts",
                 Added(alerts, entry, [d |-> atof(value) + 1], {"OVERRIDE", "INTPARSE"}),
                 {"OVERRIDE", "OBJPARSE"})

add_event_to_json(key, text) ==
  LET emergency == get_value_of_key_from_json_string(json_buffer, "emergency")
  IN  /\ emergency # Null
      /\ json_buffer' =
           Added(json_buffer, "emergency",
                 Added(emergency, key, text, {"OVERRIDE", "INTPARSE"}),
                 {"OVERRIDE", "OBJPARSE"})

Asked(op) == doc' = Summary!Edit(op, doc)

Next ==
  \/ \E c \in Category, k \in Key, a \in Amount :
       /\ set_supply_status(c, k, [d |-> a])
       /\ Asked([kind |-> "supply", item |-> <<c, k>>, amount |-> a])
  \/ \E e \in Entry :
       /\ add_entry_to_json(e)
       /\ Asked([kind |-> "entry", entry |-> e])
  \/ \E k \in EmergencyKey, w \in EventWord :
       /\ add_event_to_json(k, [word |-> w])
       /\ Asked([kind |-> "event", key |-> k, text |-> w])

vars == <<json_buffer, doc>>

Spec == Init /\ [][Next]_vars

-----------------------------------------------------------------------------
(***************************************************************************)
(* The document a reader finds in the text.                                *)
(***************************************************************************)
AmountIn(t, c, k) ==
  LET amount == get_value_of_key_from_json_string(Read(t, "supplies", c), k)
  IN  IF amount = Null \/ atof(amount) \notin Amount THEN Null ELSE atof(amount)

Document(t) ==
  [alerts    |-> [e \in Entry |-> atof(Read(t, "alerts", e)) - BootCount],
   supplies  |-> [i \in Category \X Key |-> AmountIn(t, i[1], i[2])],
   emergency |-> [k \in EmergencyKey |-> Read(t, "emergency", k).word]]

Documents == [alerts    : [Entry -> 0..MaxAlerts],
              supplies  : [Category \X Key -> Amount \cup {Null}],
              emergency : [EmergencyKey -> EventWord \cup {Null}]]

\* The text always reads as a document with all its parts: what an edit prints,
\* the next edit can parse and finds complete, so none ever fails for the
\* text's sake (supplies_data_handler.c:17-42, alert_module.c:83-109).
AlwaysReadable ==
  /\ \A part \in PartKey :
       get_value_of_key_from_json_string(json_buffer, part) # Null
  /\ \A e \in Entry : Read(json_buffer, "alerts", e) # Null
  /\ \A c \in Category : Read(json_buffer, "supplies", c) # Null
  /\ Document(json_buffer) \in Documents

\* The category holds, or has held, an amount under this spelling.
InUse(c, k) == k \in BootKey \/ doc.supplies[<<c, k>>] # Null

\* The supply is in use in this spelling and in another.
Respelt(c, k) ==
  InUse(c, k) /\ \E l \in Key \ {k} : InUse(c, l) /\ Lower[l] = Lower[k]

\* The text says what was asked for: after any edits, every counter, every event
\* and every amount reads as in the document to which each edit was applied
\* as it was asked for, in its own entrance, key or category and no other,
\* although each goes through two or three levels of printing, parsing and
\* overriding (supplies_data_handler.c:8-44, alert_module.c:72-112,
\* emergency_handler.c:42-72).  The code does not achieve it for a supply that
\* has been in use in two spellings (cjson_handler.c:160), so those are excepted.
EditsAgree ==
  LET found == Document(json_buffer)
  IN  /\ found.alerts = doc.alerts
      /\ found.emergency = doc.emergency
      /\ \A c \in Category, k \in Key :
           ~Respelt(c, k) => found.supplies[<<c, k>>] = doc.supplies[<<c, k>>]

-----------------------------------------------------------------------------
(***************************************************************************)
(* Why: at every level but the amounts the text holds an object that is a  *)
(* mapping with all the keys it must have.  Amounts may be there twice, but*)
(* only under spellings in use, and of those with no rival only once.      *)
(***************************************************************************)
Objects(K, V)  == {o \in [object : Seq(MemberOf(K, V))] : IsMapping(o, K, V)}
Complete(K, V) == {o \in Objects(K, V) : \A k \in K : is_key_in_json_object(o, k)}

Count  == [number : BootCount..(BootCount + MaxAlerts)]
Number == [number : Amount \cup {0}]
Event  == [string : [word : EventWord \cup {Null}]]

Alerts    == Complete(Entry, Count)
Amounts   == [object : Seq(MemberOf(Key, Number))]
Supplies  == Complete(Category, Amounts)
Emergency == Complete(EmergencyKey, Event)
Part      == Alerts \cup Supplies \cup Emergency

SummaryObject ==
  {o \in Objects(PartKey, Part) :
     /\ cJSON_GetObjectItemCaseSensitive(o, "alerts") \in Alerts
     /\ cJSON_GetObjectItemCaseSensitive(o, "supplies") \in Supplies
     /\ cJSON_GetObjectItemCaseSensitive(o, "emergency") \in Emergency}

ASSUME KeysDiffer ==
  \A K \in {PartKey, Entry, Category, EmergencyKey} :
    \A k, l \in K : Lower[k] = Lower[l] => k = l
ASSUME FiniteKeys == IsFiniteSet(Entry) /\ IsFiniteSet(Category) /\ IsFiniteSet(BootKey)
ASSUME BootKeyType == BootKey \subseteq Key
ASSUME AmountType == Amount \subseteq Int \ {0} /\ Null \notin Amount
ASSUME CountsType == BootCount \in Nat /\ MaxAlerts \in Nat /\ MaxMembers \in Nat
ASSUME NullIsNoValue ==
  /\ Null \notin Count \cup Number \cup Event
  /\ Null \notin Amounts \cup Part \cup SummaryObject
ASSUME NullIsNoText == Null \notin [f : Int] \cup [json : Amounts \cup Part \cup SummaryObject]

KeysInUse ==
  \A c \in Category : \A i \in 1..Len(MembersIn(c)) : InUse(c, MembersIn(c)[i].key)

SoleMembers ==
  \A c \in Category, k \in Key :
    ~Respelt(c, k) =>
      \A i, j \in 1..Len(MembersIn(c)) :
        MembersIn(c)[i].key = k /\ MembersIn(c)[j].key = k => i = j

SInv ==
  /\ json_buffer \in [json : SummaryObject]
  /\ doc \in Documents
  /\ KeysInUse /\ SoleMembers /\ EditsAgree
=============================================================================
