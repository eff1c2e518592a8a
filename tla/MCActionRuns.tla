----------------------------- MODULE MCActionRuns -----------------------------
(* Instances of ActionRuns small enough for TLC. *)
EXTENDS ActionRuns
=============================================================================
