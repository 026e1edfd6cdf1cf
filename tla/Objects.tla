------------------------------ MODULE Objects ------------------------------
(***************************************************************************)
(* JavaScript objects that are used as maps: functions from the names of   *)
(* the fields that are set to their values.                                *)
(***************************************************************************)

None == [f \in {} |-> f]
Field(name, value) == [n \in {name} |-> value]

(* {...under, ...over}: the fields of "over" win.                          *)
Over(over, under) ==
  [f \in DOMAIN over \cup DOMAIN under |-> IF f \in DOMAIN over THEN over[f] ELSE under[f]]

(* object.field ?? default.                                                *)
Or(object, field, default) == IF field \in DOMAIN object THEN object[field] ELSE default

Only(object, fields) == [f \in DOMAIN object \cap fields |-> object[f]]

=============================================================================
