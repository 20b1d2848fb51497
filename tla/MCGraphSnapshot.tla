-------------------------- MODULE MCGraphSnapshot --------------------------
(* GraphSnapshot on the two bundle nodes of MCGraphStore's long histories. *)
EXTENDS GraphSnapshot

CONSTANTS kernel, app, none

TwoIds == {kernel, app}
NoFields == [k \in {} |-> {}]
OneField == {NoFields}
MCKeys == {"OWNER", "ID"}
AnyPattern == {[labels |-> {}, props |-> NoFields]}
OneLink == {[pred |-> "REL", kind |-> none]}
AppUuid(kind, fields) == app
============================================================================
