---------------------------- MODULE DurableWork ----------------------------
(***************************************************************************)
(* What the trigger plane promises its producers, without queues, lanes,   *)
(* turns or processes: an accepted item stays open until it is settled, it *)
(* is handed to a worker any number of times before that, it is parked     *)
(* only after enough hand-outs, and once closed it never opens again.      *)
(***************************************************************************)
EXTENDS Naturals

CONSTANTS Ids,        \* item identities, never reused
          MinTries    \* hand-outs an item gets before it may be parked

VARIABLES work,       \* work[i]: where item i is in its life
          tries       \* tries[i]: how often item i was handed out

workVars == <<work, tries>>

WorkState == {"absent", "waiting", "leased", "settled", "parked", "forgotten"}
Open == {"waiting", "leased"}
Closed == {"settled", "parked"}

WorkTypeOK == /\ work \in [Ids -> WorkState]
              /\ tries \in [Ids -> Nat]

WorkInit == /\ work = [i \in Ids |-> "absent"]
            /\ tries = [i \in Ids |-> 0]

Move(i, from, to) == /\ work[i] \in from
                     /\ work'[i] = to

Accept(i) == Move(i, {"absent"}, "waiting") /\ tries'[i] = tries[i]

\* A worker takes the item.
Lease(i) == Move(i, {"waiting"}, "leased") /\ tries'[i] = tries[i] + 1

\* A failed or interrupted worker returns it.
Return(i) == Move(i, {"leased"}, "waiting") /\ tries'[i] = tries[i]

\* It is finished, cancelled or expired.
Settle(i) == Move(i, Open, "settled") /\ tries'[i] = tries[i]

\* It failed often enough to be parked for the user.
Park(i) == /\ Move(i, {"leased"}, "parked")
           /\ tries[i] >= MinTries
           /\ tries'[i] = tries[i]

\* A closed item's record is deleted.
Forget(i) == Move(i, Closed, "forgotten") /\ tries'[i] = tries[i]

Stay(i) == work'[i] = work[i] /\ tries'[i] = tries[i]

\* Items live independent lives; one step may move several of them.
WorkNext == /\ work' \in [Ids -> WorkState]
            /\ tries' \in [Ids -> Nat]
            /\ \A i \in Ids : \/ Accept(i) \/ Lease(i) \/ Return(i)
                              \/ Settle(i) \/ Park(i) \/ Forget(i)
                              \/ Stay(i)

WorkSpec == WorkInit /\ [][WorkNext]_workVars
=============================================================================
