------------------------------- MODULE Models -------------------------------
(***************************************************************************)
(* The JSON of the bulletin board's values.  A payload is text that is     *)
(* JSON or not and, when it is, sets some of the fields; a field that is   *)
(* missing, "" or [] is not set.  Only the fields a parser insists on      *)
(* matter here: the rest of a value is kept as it is.                      *)
(***************************************************************************)

Payload(fields) == [json : BOOLEAN, set : SUBSET fields]

Parses(payload, fields) == payload.json /\ fields \subseteq payload.set

TaskFields            == {"guid", "actions", "stack"}
DesiredLRPFields      == {"process_guid", "stack", "actions"}
LRPStartAuctionFields == {"instance_guid"}
LRPStopAuctionFields  == {"process_guid"}

\* Whether each of them returns a value, or an error.
NewTaskFromJSON(payload)            == Parses(payload, TaskFields)
NewDesiredLRPFromJSON(payload)      == Parses(payload, DesiredLRPFields)
NewLRPStartAuctionFromJSON(payload) == Parses(payload, LRPStartAuctionFields)
NewLRPStopAuctionFromJSON(payload)  == Parses(payload, LRPStopAuctionFields)

\* A client writes a value with the fields it set, whatever is missing.
ToJSON(set) == [json |-> TRUE, set |-> set]
=============================================================================
