---------------------------- MODULE MCFactoryArc ----------------------------
(* Instances of FactoryArc small enough for TLC. *)
EXTENDS FactoryArc

\* BACKOFF_S for three stalls: each later one is longer.
Backoffs == [n \in 0..2 |-> IF n = 0 THEN 1 ELSE 2]
=============================================================================
