---------------------------- MODULE MCEventStream ----------------------------
(* Instances of EventStream small enough for TLC. *)
EXTENDS EventStream

KindOf == <<"big", "schemas", "requirements", "big">>
=============================================================================
