------------------------------ MODULE MCGuest ------------------------------
(***************************************************************************)
(* What a guest's data goes through besides its decimals: a behaviour is   *)
(* one of Time objects, of dates that timegm converts, or of values that   *)
(* are injected and extracted.                                             *)
(***************************************************************************)
EXTENDS MCGuestTime, MCValueMarshal, Calendar

VARIABLE part \* which of the three this behaviour is about

MCInit ==
  /\ part \in {"time", "dates", "values"}
  /\ Init /\ CalendarInit /\ MarshalInit
MCNext ==
  /\ UNCHANGED part
  /\ \/ part = "time" /\ Next /\ UNCHANGED <<dateVars, marshalVars>>
     \/ part = "dates" /\ NextDay /\ UNCHANGED <<vars, marshalVars>>
     \/ part = "values" /\ MarshalNext /\ UNCHANGED <<vars, dateVars>>
MCSpec == MCInit /\ [][MCNext]_<<vars, dateVars, marshalVars, part>>
==============================================================================
