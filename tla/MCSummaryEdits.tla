--------------------------- MODULE MCSummaryEdits ---------------------------
(***************************************************************************)
(* Values for SummaryEdits.  All keys are in lower case, or differ in more *)
(* than case, except "Rice", which is another spelling of "rice".          *)
(***************************************************************************)
EXTENDS SummaryEdits

Fixed == {"alerts", "supplies", "emergency"} \cup Entry \cup Category \cup EmergencyKey

MCLower == [k \in Key \cup Fixed |-> IF k = "Rice" THEN "rice" ELSE k]
=============================================================================
