--------------------------- MODULE MCMemoryQueues ---------------------------
(* Instances of MemoryQueues small enough for TLC. *)
EXTENDS MemoryQueues

TwoSessions == {"main", "chat"}
MainOnly == {"main"}
=============================================================================
