--------------------------- MODULE FactoryArcProofs ---------------------------
(***************************************************************************)
(* The arc's budget, its stall counter, the supervisor's single resume and *)
(* the user's stop, for any caps, backoffs and bounds.                     *)
(***************************************************************************)
EXTENDS FactoryArc, TLAPS

\* No trigger of a third party.
Quiet == Env = {}

\* A dispatched mission that is not queued yet keeps the idle clock at zero.
FreshDispatch == emitting > 0 \/ opening => ~arc.open \/ idle = 0

\* The stall counter counts the resumes since the last evidence of work.
StallsAreResumes == empty = arc.stalls

Inv == /\ TypeOK
       /\ FreshDispatch
       /\ StallsAreResumes
       /\ WithinBudget

\* Nothing of a third party is in the session, and while a stop stands the arc
\* is paused, the lane is free, and what waits is the user's or a mission that
\* was behind the stopped run.
StopInv == /\ "other" \notin others \cup turn \cup unacked
           /\ stopped # "no" => /\ arc.paused # "no"
                                /\ turn = {} /\ ~stopping
                                /\ others \subseteq {"user"}
           /\ stopped = "clean" => emitting = 0 /\ missions = 0

-----------------------------------------------------------------------------
(* The arc's operations *)

\* The session's part of the type invariant.
LaneTyped == /\ missions \in Nat /\ others \in SUBSET Kinds
             /\ turn \in Turns /\ stopping \in BOOLEAN /\ unacked \in Turns
             /\ unacked # {} => stopping /\ turn = {}

LEMMA MaxIdleNat == MaxIdle \in Nat BY BackoffAssumption

LEMMA BoundsNat == MaxQueued \in Nat /\ MaxRequests \in Nat /\ MaxCrashes \in Nat
BY CapsAssumption

LEMMA NoArcType == NoArc \in Arc /\ ~NoArc.open /\ NoArc.stalls = 0
BY DEF NoArc, Arc

\* Opening keeps the budget and the stalls, and clears the pause.
LEMMA OpenedType ==
    ASSUME TypeOK
    PROVE  /\ Opened \in Arc /\ Opened.open /\ Opened.paused = "no"
           /\ Opened.spent = arc.spent /\ Opened.stalls = arc.stalls
BY DEF TypeOK, Opened, NoArc, Arc

LEMMA CloseKeeps ==
    ASSUME Inv, Close, UNCHANGED <<up, opening, bounds>>, emitting' \in Nat,
           LaneTyped'
    PROVE  Inv'
<1>a. arc' \in Arc /\ (~arc'.open => arc' = NoArc) BY NoArcType DEF Close
<1>b. idle' \in 0..MaxIdle BY MaxIdleNat DEF Close
<1>c. up' \in BOOLEAN /\ opening' \in BOOLEAN /\ stopped' \in Stops
      /\ empty' \in Nat
  BY DEF Inv, TypeOK, Close, Stops
<1>d. requests' \in 0..MaxRequests /\ crashes' \in 0..MaxCrashes
  BY DEF Inv, TypeOK, bounds
<1>1. TypeOK' BY <1>a, <1>b, <1>c, <1>d DEF TypeOK, LaneTyped
<1> QED
  BY <1>1, NoArcType DEF Inv, Close, FreshDispatch, StallsAreResumes, WithinBudget

\* A dispatch that the wallet pays keeps the budget.
LEMMA DispatchKeeps ==
    ASSUME Inv, NEW a \in Arc, a.open, a.spent < MissionsCap,
           a.stalls < StallsCap, Dispatched(a), empty' = a.stalls,
           UNCHANGED <<up, opening, session, bounds>>, stopped' \in Stops
    PROVE  Inv'
<1>1. /\ arc' \in Arc /\ arc'.open /\ arc'.spent = a.spent + 1
      /\ arc'.stalls = a.stalls
  BY DEF Dispatched, Arc
<1>2. idle' = 0 /\ emitting' = emitting + 1 BY DEF Dispatched, Touch
<1>3. TypeOK'
  BY <1>1, <1>2, MaxIdleNat DEF Inv, TypeOK, session, queue, lane, bounds, Arc
<1>4. WithinBudget'
  BY <1>1, CapsAssumption DEF WithinBudget, Arc
<1> QED BY <1>1, <1>2, <1>3, <1>4 DEF Inv, FreshDispatch, StallsAreResumes

\* A step that changes the arc without opening, closing or paying, and shows
\* activity or leaves the idle clock alone.
LEMMA ArcKeeps ==
    ASSUME Inv, arc' \in Arc, arc'.open = arc.open, ~arc.open => arc' = arc,
           arc'.spent = arc.spent,
           \/ arc'.stalls = arc.stalls /\ empty' = empty
           \/ arc'.stalls = 0 /\ empty' = 0,
           idle' \in {0, idle},
           UNCHANGED <<up, emitting, opening, bounds>>, LaneTyped',
           stopped' \in Stops
    PROVE  Inv'
<1>1. TypeOK' BY MaxIdleNat DEF Inv, TypeOK, LaneTyped, bounds, Arc
<1>2. WithinBudget' BY CapsAssumption DEF Inv, WithinBudget, TypeOK, Arc
<1>3. FreshDispatch' BY DEF Inv, FreshDispatch
<1> QED BY <1>1, <1>2, <1>3 DEF Inv, StallsAreResumes

\* Opening or re-opening.
LEMMA OpenKeeps ==
    ASSUME Inv, arc' = Opened, idle' = 0, empty' = empty,
           UNCHANGED <<up, emitting, session, crashes>>, opening' \in BOOLEAN,
           requests' \in 0..MaxRequests, stopped' \in Stops
    PROVE  Inv'
<1>1. /\ arc' \in Arc /\ arc'.open
      /\ arc'.spent = arc.spent /\ arc'.stalls = arc.stalls
  BY OpenedType DEF Inv
<1>2. TypeOK' BY <1>1, MaxIdleNat DEF Inv, TypeOK, session, queue, lane
<1>3. arc.spent <= MissionsCap /\ arc.stalls < StallsCap
  BY CapsAssumption DEF Inv, TypeOK, WithinBudget, NoArc
<1> QED
  BY <1>1, <1>2, <1>3 DEF Inv, FreshDispatch, StallsAreResumes, WithinBudget

\* Steps that leave the arc and its counters alone.
LEMMA QuietKeeps ==
    ASSUME Inv, UNCHANGED <<arc, empty>>,
           up' \in BOOLEAN, emitting' \in 0..emitting, opening' \in {FALSE, opening},
           LaneTyped',
           requests' \in 0..MaxRequests, crashes' \in 0..MaxCrashes,
           stopped' \in Stops,
           \/ idle' = idle
           \/ idle' = 0
           \/ idle' \in 0..MaxIdle /\ emitting' = 0 /\ ~opening'
    PROVE  Inv'
<1>a. arc' \in Arc /\ (~arc'.open => arc' = NoArc) /\ empty' \in Nat
  BY DEF Inv, TypeOK
<1>b. idle' \in 0..MaxIdle BY MaxIdleNat DEF Inv, TypeOK
<1>c. emitting' \in Nat /\ (emitting' > 0 => emitting > 0) BY DEF Inv, TypeOK
<1>d. opening' \in BOOLEAN BY DEF Inv, TypeOK
<1>1. TypeOK' BY <1>a, <1>b, <1>c, <1>d DEF TypeOK, LaneTyped
<1>e. ASSUME emitting' > 0 \/ opening' PROVE ~arc'.open \/ idle' = 0
  <2>1. emitting > 0 \/ opening
    <3>1. CASE emitting' > 0 BY <3>1, <1>c
    <3>2. CASE opening' BY <3>2
    <3> QED BY <1>e, <3>1, <3>2
  <2>2. idle' = idle \/ idle' = 0 BY <1>e, <1>c
  <2> QED BY <2>1, <2>2 DEF Inv, FreshDispatch
<1>2. FreshDispatch' BY <1>e DEF FreshDispatch
<1> QED BY <1>1, <1>2 DEF Inv, StallsAreResumes, WithinBudget

-----------------------------------------------------------------------------
(* Induction *)

LEMMA InvInit == Init => Inv
<1> SUFFICES ASSUME Init PROVE Inv OBVIOUS
<1>a. arc \in Arc /\ (~arc.open => arc = NoArc) BY NoArcType DEF Init
<1>b. idle \in 0..MaxIdle /\ requests \in 0..MaxRequests /\ crashes \in 0..MaxCrashes
  BY BoundsNat, MaxIdleNat DEF Init
<1>c. turn \in Turns /\ unacked \in Turns /\ others \in SUBSET Kinds
      /\ stopped \in Stops
  BY DEF Init, Turns, Stops
<1>1. TypeOK BY <1>a, <1>b, <1>c DEF Init, TypeOK
<1> QED
  BY <1>1, NoArcType DEF Init, Inv, FreshDispatch, StallsAreResumes, WithinBudget

LEMMA RequeuedType ==
    ASSUME TypeOK, NEW rows \in Turns, Requeued(rows)
    PROVE  missions' \in Nat /\ others' \in SUBSET Kinds
BY DEF TypeOK, Requeued, Kinds, Turns

\* Every step keeps the session's types, and triggers stay claimed without a turn
\* only while a stop settles.
LEMMA LaneStep ==
    ASSUME TypeOK, [Next]_vars
    PROVE  LaneTyped'
<1>t. /\ missions \in Nat /\ others \in SUBSET Kinds /\ emitting \in Nat
      /\ turn \in Turns /\ stopping \in BOOLEAN /\ unacked \in Turns
      /\ unacked # {} => stopping /\ turn = {}
  BY DEF TypeOK
<1>e. {} \in Turns /\ {"mission"} \in Turns BY DEF Turns
<1>1. CASE UNCHANGED session
  BY <1>1, <1>t DEF LaneTyped, session, queue, lane
<1>2. CASE StartRunEmits \/ Arrives("user") \/ Arrives("other")
  <2>1. others' \in SUBSET Kinds BY <1>2, <1>t DEF StartRunEmits, Arrives, Kinds
  <2> QED BY <1>2, <2>1, <1>t DEF StartRunEmits, Arrives, LaneTyped, lane
<1>3. CASE EmitLands
  BY <1>3, <1>t DEF EmitLands, LaneTyped, lane
<1>4. CASE StartMission
  BY <1>4, <1>t, <1>e DEF StartMission, LaneIsFree, LaneTyped
<1>5. CASE StartBatch
  <2>1. turn' \in Turns /\ others' \in SUBSET Kinds
    BY <1>5, <1>t DEF StartBatch, Turns
  <2> QED BY <1>5, <2>1, <1>t DEF StartBatch, LaneIsFree, LaneTyped
<1>6. ASSUME Working, TurnLeaves, missions' \in Nat, others' \in SUBSET Kinds
      PROVE  LaneTyped'
  BY <1>6, <1>t, <1>e DEF TurnLeaves, LaneTyped
<1>7. CASE Continues \/ RunOver
  <2>1. others' \in SUBSET Kinds /\ missions' \in Nat
    BY <1>7, <1>t DEF Continues, RunOver, RunEnds, RunAwaits, RunHalts, queue, Kinds
  <2> QED BY <1>6, <1>7, <2>1 DEF Continues, RunOver, RunEnds, RunAwaits, RunHalts
<1>8. CASE TurnFails
  BY <1>6, <1>8, <1>t, RequeuedType DEF TurnFails
<1>9. CASE UserStop
  BY <1>9, <1>t DEF UserStop, Working, LaneTyped
<1>10. CASE StopSettles \/ ParkedStop
  BY <1>10, <1>t, <1>e DEF StopSettles, ParkedStop, LaneTyped, lane
<1>11. CASE Crash
  <2>1. turn \cup unacked \in Turns BY <1>t
  <2> QED BY <1>11, <2>1, <1>e, RequeuedType DEF Crash, LaneTyped
<1> QED
  BY <1>1, <1>2, <1>3, <1>4, <1>5, <1>7, <1>8, <1>9, <1>10, <1>11
  DEF Next, vars, StartRun, EmitFails, OpenDev, LaunchSuccess, Finding, Delivered,
      Unparseable, Defects, Blocked, Resume, GiveUp, Boot, Tick

LEMMA InvStep == Inv /\ [Next]_vars => Inv'
<1> SUFFICES ASSUME Inv, [Next]_vars PROVE Inv' OBVIOUS
<1> USE DEF Inv
<1>t. /\ arc \in Arc /\ emitting \in Nat
      /\ requests \in 0..MaxRequests /\ crashes \in 0..MaxCrashes
      /\ up \in BOOLEAN /\ opening \in BOOLEAN /\ stopped \in Stops
      /\ idle \in 0..MaxIdle
  BY DEF TypeOK
<1>l. LaneTyped' BY LaneStep
<1>s. "no" \in Stops /\ Standing \in Stops /\ StopAfterMission \in Stops
  BY <1>t DEF Stops, Standing, StopAfterMission
<1>1. CASE UNCHANGED vars
  BY <1>1, <1>t, <1>l, QuietKeeps DEF vars, bounds
<1>2. CASE StartRun
  <2>1. requests' \in 0..MaxRequests BY <1>2, <1>t, BoundsNat DEF StartRun, Asks
  <2>2. opening' \in BOOLEAN /\ stopped' \in Stops BY <1>2, <1>s DEF StartRun
  <2> QED BY <1>2, <2>1, <2>2, OpenKeeps DEF StartRun, Touch
<1>3. CASE StartRunEmits
  <2>1. emitting' \in 0..emitting BY <1>3, <1>t DEF StartRunEmits
  <2>2. opening' \in {FALSE, opening} BY <1>3 DEF StartRunEmits
  <2> QED BY <1>3, <1>t, <1>l, <2>1, <2>2, QuietKeeps DEF StartRunEmits, bounds
<1>4. ASSUME NEW kind \in {"user", "other"}, Arrives(kind) PROVE Inv'
  BY <1>4, <1>t, <1>l, QuietKeeps, BoundsNat DEF Arrives, Asks
<1>5. CASE EmitLands
  BY <1>5, <1>t, <1>l, QuietKeeps DEF EmitLands, bounds
<1>6. CASE EmitFails
  BY <1>6, <1>t, <1>l, QuietKeeps DEF EmitFails, bounds
<1>7. CASE StartMission
  BY <1>7, <1>t, <1>l, <1>s, QuietKeeps DEF StartMission, LaneIsFree, bounds
<1>8. CASE StartBatch
  BY <1>8, <1>t, <1>l, <1>s, QuietKeeps DEF StartBatch, LaneIsFree, bounds
<1>9. CASE OpenDev
  BY <1>9, <1>t, OpenKeeps DEF OpenDev, Touch, bounds
<1>10. CASE LaunchSuccess \/ Finding
  <2>1. /\ arc' \in Arc /\ arc'.open = arc.open /\ arc'.spent = arc.spent
        /\ arc'.stalls = 0 /\ idle' = 0 /\ empty' = 0
    BY <1>10, <1>t DEF LaunchSuccess, Finding, Progressed, ShowsWork, Touch, Arc
  <2> QED BY <1>10, <1>t, <1>l, <2>1, ArcKeeps DEF LaunchSuccess, Finding
<1>11. CASE Delivered \/ Blocked \/ GiveUp
  BY <1>11, <1>t, <1>l, CloseKeeps DEF Delivered, Blocked, GiveUp
<1>12. CASE Unparseable
  <2>1. CASE Close
    BY <1>12, <2>1, <1>t, <1>l, CloseKeeps DEF Unparseable
  <2>2. CASE arc' = [arc EXCEPT !.paused = "no", !.retried = TRUE] /\ Touch
             /\ UNCHANGED <<stopped, empty>>
    <3>1. /\ arc' \in Arc /\ arc'.open = arc.open /\ arc'.spent = arc.spent
          /\ arc'.stalls = arc.stalls
      BY <2>2, <1>t DEF Arc
    <3> QED
      BY <1>12, <2>2, <3>1, <1>t, <1>l, ArcKeeps DEF Unparseable, Touch
  <2> QED BY <1>12, <2>1, <2>2 DEF Unparseable
<1>13. CASE Defects
  <2>1. CASE Close
    BY <1>13, <2>1, <1>t, <1>l, CloseKeeps DEF Defects, Dispatched
  <2>2. CASE /\ arc.spent < MissionsCap /\ Dispatched(Found)
             /\ empty' = 0 /\ UNCHANGED stopped
    <3>1. /\ Found \in Arc /\ Found.open = arc.open
          /\ Found.spent = arc.spent /\ Found.stalls = 0
      BY <1>t DEF Found, Progressed, Arc
    <3>2. Found.open /\ Found.spent < MissionsCap /\ Found.stalls < StallsCap
      BY <1>13, <2>2, <3>1, CapsAssumption DEF Defects, Working
    <3>3. stopped' \in Stops /\ empty' = Found.stalls BY <2>2, <3>1, <1>t
    <3> QED BY <1>13, <2>2, <3>1, <3>2, <3>3, DispatchKeeps DEF Defects
  <2> QED BY <1>13, <2>1, <2>2 DEF Defects
<1>14. CASE Continues
  BY <1>14, <1>t, <1>l, QuietKeeps DEF Continues, bounds
<1>15. CASE RunEnds
  <2>1. CASE arc.paused = "question"
    <3>1. /\ arc' \in Arc /\ arc'.open = arc.open /\ arc'.spent = arc.spent
          /\ arc'.stalls = arc.stalls /\ idle' = 0
      BY <1>15, <2>1, <1>t DEF RunEnds, Touch, Arc
    <3>2. arc.open BY <2>1 DEF TypeOK, NoArc
    <3> QED BY <1>15, <3>1, <3>2, <1>t, <1>l, ArcKeeps DEF RunEnds
  <2>2. CASE arc.paused # "question"
    BY <1>15, <2>2, <1>t, <1>l, QuietKeeps DEF RunEnds, bounds
  <2> QED BY <2>1, <2>2
<1>16. CASE RunAwaits
  <2>1. /\ arc' \in Arc /\ arc'.open = arc.open /\ arc'.spent = arc.spent
        /\ arc'.stalls = arc.stalls /\ (~arc.open => arc' = arc)
    BY <1>16, <1>t DEF RunAwaits, Arc
  <2> QED BY <1>16, <2>1, <1>t, <1>l, ArcKeeps DEF RunAwaits
<1>17. CASE RunHalts
  BY <1>17, <1>t, <1>l, QuietKeeps DEF RunHalts, bounds
<1>18. CASE TurnFails
  BY <1>18, <1>t, <1>l, QuietKeeps DEF TurnFails, bounds
<1>19. CASE UserStop
  BY <1>19, <1>t, <1>l, QuietKeeps DEF UserStop, bounds
<1>20. CASE StopSettles \/ ParkedStop
  <2>1. /\ arc' \in Arc /\ arc'.open = arc.open /\ arc'.spent = arc.spent
        /\ arc'.stalls = arc.stalls /\ (~arc.open => arc' = arc)
    BY <1>20, <1>t DEF StopSettles, ParkedStop, RunStopped, PausedByUser, Arc
  <2>2. stopped' \in Stops
    BY <1>20, <1>s DEF StopSettles, ParkedStop, RunStopped
  <2> QED
    BY <1>20, <2>1, <2>2, <1>t, <1>l, ArcKeeps DEF StopSettles, ParkedStop
<1>21. CASE Resume
  <2> DEFINE a == [arc EXCEPT !.stalls = @ + 1]
  <2>1. /\ a \in Arc /\ a.open = arc.open /\ a.spent = arc.spent
        /\ a.stalls = arc.stalls + 1
    BY <1>t DEF Arc
  <2>2. a.spent < MissionsCap /\ a.stalls < StallsCap /\ a.open
    BY <1>21, <1>t, <2>1, CapsAssumption DEF Resume, Overdue, Exhausted, Arc
  <2>3. Dispatched(a) /\ empty' = empty + 1 /\ empty = arc.stalls
    BY <1>21 DEF Resume, StallsAreResumes
  <2> QED
    BY <1>21, <1>t, <2>1, <2>2, <2>3, DispatchKeeps DEF Resume
<1>22. CASE Crash
  <2>1. crashes' \in 0..MaxCrashes /\ emitting' \in 0..emitting
    BY <1>22, <1>t, BoundsNat DEF Crash
  <2> QED BY <1>22, <1>t, <1>l, <2>1, QuietKeeps DEF Crash
<1>23. CASE Boot
  BY <1>23, <1>t, <1>l, QuietKeeps DEF Boot, bounds
<1>24. CASE Tick
  BY <1>24, <1>t, <1>l, QuietKeeps, MaxIdleNat DEF Tick, bounds
<1> QED
  BY <1>1, <1>2, <1>3, <1>4, <1>5, <1>6, <1>7, <1>8, <1>9, <1>10, <1>11, <1>12,
     <1>13, <1>14, <1>15, <1>16, <1>17, <1>18, <1>19, <1>20, <1>21, <1>22,
     <1>23, <1>24 DEF Next, RunOver
-----------------------------------------------------------------------------
(* The user's stop *)

\* No step brings in a trigger of a third party.
LEMMA OthersStayOut ==
    ASSUME Quiet, TypeOK, StopInv, [Next]_vars
    PROVE  "other" \notin others' \cup turn' \cup unacked'
<1>1. CASE UNCHANGED session
  BY <1>1 DEF StopInv, session, queue, lane
<1>2. ~Arrives("other") BY DEF Arrives, Quiet
<1>3. CASE StartRunEmits \/ Arrives("user") \/ EmitLands
  BY <1>3 DEF StopInv, StartRunEmits, Arrives, EmitLands, lane
<1>4. CASE StartMission \/ StartBatch
  BY <1>4 DEF StopInv, StartMission, StartBatch
<1>5. CASE Continues \/ RunOver
  BY <1>5 DEF StopInv, Continues, RunOver, RunEnds, RunAwaits, RunHalts, TurnLeaves,
     queue
<1>6. CASE TurnFails \/ Crash
  BY <1>6 DEF StopInv, TurnFails, Crash, TurnLeaves, Requeued
<1>7. CASE UserStop \/ StopSettles \/ ParkedStop
  BY <1>7 DEF StopInv, UserStop, StopSettles, ParkedStop, lane
<1> QED
  BY <1>1, <1>2, <1>3, <1>4, <1>5, <1>6, <1>7
  DEF Next, vars, StartRun, EmitFails, OpenDev, LaunchSuccess, Finding, Delivered,
      Unparseable, Defects, Blocked, Resume, GiveUp, Boot, Tick

\* A stop that settles leaves the arc paused and nothing that starts by itself.
LEMMA SettledStop ==
    ASSUME Inv, StopInv, StopSettles \/ ParkedStop, "other" \notin others',
           stopped' # "no"
    PROVE  /\ arc'.paused # "no" /\ turn' = {} /\ ~stopping'
           /\ others' \subseteq {"user"}
           /\ stopped' = "clean" => emitting' = 0 /\ missions' = 0
<1>t. /\ arc \in Arc /\ others \in SUBSET Kinds
      /\ emitting \in Nat /\ missions \in Nat
  BY DEF Inv, TypeOK
<1>1. arc' = PausedByUser /\ stopped' = Standing /\ UNCHANGED <<emitting, missions>>
  BY DEF StopSettles, ParkedStop, RunStopped
<1>2. arc.open BY <1>1 DEF Standing
<1>3. arc'.paused # "no" BY <1>1, <1>2, <1>t DEF PausedByUser, Arc
<1>4. others' \subseteq {"user"} BY <1>t DEF StopSettles, ParkedStop, Kinds
<1>5. turn' = {} /\ ~stopping'
  BY DEF StopSettles, ParkedStop, LaneIsFree, lane
<1>6. stopped' = "clean" => emitting + missions = 0 BY <1>1 DEF Standing
<1> QED BY <1>1, <1>3, <1>4, <1>5, <1>6, <1>t

\* Whatever a step leaves standing stood before it, or is what just settled.
LEMMA StopStep ==
    ASSUME Quiet, Inv, StopInv, [Next]_vars
    PROVE  StopInv'
<1>t. /\ arc \in Arc /\ others \in SUBSET Kinds /\ (unacked = {} \/ stopping)
      /\ emitting \in Nat /\ missions \in Nat /\ stopped \in Stops
  BY DEF Inv, TypeOK
<1>1. "other" \notin others' \cup turn' \cup unacked'
  BY OthersStayOut DEF Inv
<1>2. CASE StopSettles \/ ParkedStop
  BY <1>1, <1>2, SettledStop DEF StopInv
<1>3. CASE ~(StopSettles \/ ParkedStop)
  <2> SUFFICES ASSUME stopped' # "no"
               PROVE  /\ arc'.paused # "no" /\ turn' = {} /\ ~stopping'
                      /\ others' \subseteq {"user"}
                      /\ stopped' = "clean" => emitting' = 0 /\ missions' = 0
    BY <1>1 DEF StopInv
  <2>1. stopped # "no" /\ (stopped' = "clean" => stopped = "clean")
    BY <1>3 DEF Next, vars, RunOver, StartRun, StartRunEmits, Arrives, EmitLands,
       EmitFails, StartMission, StopAfterMission, StartBatch, OpenDev,
       LaunchSuccess, Finding, Delivered, Unparseable, Defects, Blocked, Close,
       Continues, RunEnds, RunAwaits, RunHalts, TurnFails, UserStop, Resume,
       GiveUp, Crash, Boot, Tick
  <2>2. /\ arc.paused # "no" /\ turn = {} /\ ~stopping /\ unacked = {}
        /\ others \subseteq {"user"}
        /\ stopped = "clean" => emitting = 0 /\ missions = 0
    BY <2>1, <1>t DEF StopInv
  <2>3. ~StartRun /\ ~StartBatch
    BY <2>2 DEF StartRun, StartBatch
  <2>4. ~StartMission
    BY <2>2, <2>1, <1>t DEF StartMission, StopAfterMission, Stops
  <2>5. ~Working /\ ~Resume /\ ~GiveUp
    BY <2>2 DEF Working, Resume, GiveUp, Overdue
  <2>6. CASE StartRunEmits \/ Arrives("user") \/ Arrives("other")
    <3>1. others' \subseteq {"user"} /\ UNCHANGED <<arc, emitting, missions, lane>>
      BY <2>2, <2>6 DEF StartRunEmits, Arrives, Quiet
    <3> QED BY <2>1, <2>2, <3>1 DEF lane
  <2>7. CASE EmitLands \/ EmitFails
    <3>1. stopped' # "clean"
      BY <2>1, <2>2, <2>7 DEF EmitLands, EmitFails
    <3>2. UNCHANGED <<arc, others, turn, stopping>>
      BY <2>7 DEF EmitLands, EmitFails, session, queue, lane
    <3> QED BY <2>2, <3>1, <3>2
  <2>8. CASE Crash
    BY <2>1, <2>2, <2>8 DEF Crash, Requeued
  <2>9. CASE UNCHANGED <<arc, emitting, session>>
    BY <2>1, <2>2, <2>9 DEF session, queue, lane
  <2> QED
    BY <1>3, <2>3, <2>4, <2>5, <2>6, <2>7, <2>8, <2>9
    DEF Next, vars, RunOver, OpenDev, LaunchSuccess, Finding, Delivered,
        Unparseable, Defects, Blocked, Continues, RunEnds, RunAwaits, RunHalts,
        TurnFails, UserStop, Boot, Tick
<1> QED BY <1>2, <1>3

-----------------------------------------------------------------------------
(* Theorems *)

\* The arc, the session and the process are of the declared types, and an arc
\* that is not open keeps nothing.
THEOREM TypesHold == Spec => []TypeOK
<1>1. Init => Inv BY InvInit
<1>2. Inv /\ [Next]_vars => Inv' BY InvStep
<1>3. Inv => TypeOK BY DEF Inv
<1> QED BY <1>1, <1>2, <1>3, PTL DEF Spec

\* The wallet is never overdrawn, for any caps and backoffs, whatever the
\* order of reports, re-entries, pauses, lost emits and restarts.
THEOREM BudgetHolds == Spec => []WithinBudget
<1>1. Init => Inv BY InvInit
<1>2. Inv /\ [Next]_vars => Inv' BY InvStep
<1>3. Inv => WithinBudget BY DEF Inv
<1> QED BY <1>1, <1>2, <1>3, PTL DEF Spec

\* The supervisor's resumes without evidence of work stay below the cap.
THEOREM EmptyLoopsEnd == Spec => []NoEmptyLoop
<1>1. Init => Inv BY InvInit
<1>2. Inv /\ [Next]_vars => Inv' BY InvStep
<1>3. ASSUME Inv PROVE NoEmptyLoop
  <2>1. arc.stalls < StallsCap
    <3>1. CASE arc.open BY <1>3, <3>1 DEF Inv, WithinBudget
    <3>2. CASE ~arc.open
      BY <1>3, <3>2, NoArcType, CapsAssumption DEF Inv, TypeOK
    <3> QED BY <3>1, <3>2
  <2> QED BY <1>3, <2>1 DEF Inv, StallsAreResumes, NoEmptyLoop
<1> QED BY <1>1, <1>2, <1>3, PTL DEF Spec

\* A resume is dispatched only when nothing of the app runs, waits in its queue
\* or is on its way there: a dispatch restarts the idle clock, and no backoff
\* is over before a dispatched mission is queued.
THEOREM ResumesAreSingle == Spec => OneResumeAtATime
<1>1. Init => Inv BY InvInit
<1>2. Inv /\ [Next]_vars => Inv' BY InvStep
<1>3. ASSUME Inv, Resume
      PROVE  emitting = 0 /\ ~opening /\ missions = 0 /\ others = {} /\ turn = {}
  <2>1. arc.open /\ ~InFlight /\ idle >= Backoff[arc.stalls]
    BY <1>3 DEF Resume, Overdue
  <2>2. arc.stalls \in 0..(StallsCap - 1)
    BY <1>3, <2>1, CapsAssumption DEF Inv, TypeOK, Arc, WithinBudget
  <2>3. Backoff[arc.stalls] \in 1..MaxIdle BY <2>2, BackoffAssumption
  <2>4. idle # 0 BY <1>3, <2>1, <2>3, MaxIdleNat DEF Inv, TypeOK
  <2>5. ~(emitting > 0) /\ ~opening
    BY <1>3, <2>1, <2>4 DEF Inv, FreshDispatch
  <2>6. emitting = 0 BY <1>3, <2>5 DEF Inv, TypeOK
  <2>7. missions = 0 BY <1>3, <2>1 DEF Inv, TypeOK, InFlight
  <2> QED BY <2>1, <2>5, <2>6, <2>7 DEF InFlight
<1> QED BY <1>1, <1>2, <1>3, PTL DEF Spec, OneResumeAtATime

\* While a settled stop stands, the supervisor dispatches nothing and no mission
\* starts that was not dispatched before it settled, for every way in which the
\* cancelled turn ends, provided no third party starts turns.
THEOREM StopIsKept ==
    ASSUME Quiet PROVE Spec => StopHolds
<1>1. Init => Inv /\ StopInv BY InvInit DEF Init, StopInv
<1>2. Inv /\ [Next]_vars => Inv' BY InvStep
<1>3. Inv /\ StopInv /\ [Next]_vars => StopInv' BY StopStep
<1>4. ASSUME Inv, StopInv, Resume PROVE stopped = "no"
  BY <1>4 DEF StopInv, Resume, Overdue
<1>5. ASSUME Inv, StopInv, StartMission PROVE stopped # "clean"
  BY <1>5 DEF StopInv, StartMission
<1> QED BY <1>1, <1>2, <1>3, <1>4, <1>5, PTL DEF Spec, StopHolds
=============================================================================
