-------------------------- MODULE MCActivityLedger --------------------------
(* An instance of ActivityLedger small enough for TLC. *)
EXTENDS ActivityLedger

TwoKeys == {"mail", "post"}
TwoCalls == {1, 2}
=============================================================================
