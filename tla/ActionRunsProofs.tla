--------------------------- MODULE ActionRunsProofs ---------------------------
(***************************************************************************)
(* What a stop leaves running, what it kills, and that no execution is     *)
(* left unrecorded, for every number of executions, turns and workers and  *)
(* every choice of kinds and of what the environment does.                 *)
(***************************************************************************)
EXTENDS ActionRuns, TLAPS

-----------------------------------------------------------------------------
(* Executions and types. *)

LEMMA JobFacts ==
    \A j \in Jobs :
        /\ j[1] \in Ids
        /\ Own(j) \in Jobs /\ Own(j)[1] = j[1] /\ IsOwn(Own(j))
        /\ Sub(j) \in Jobs /\ Sub(j)[1] = j[1] /\ ~IsOwn(Sub(j))
        /\ IsOwn(j) => Own(j) = j /\ Own(Sub(j)) = j
        /\ ~IsOwn(j) => Sub(j) = j /\ Sub(Own(j)) = j
BY DEF Jobs, Own, Sub, IsOwn

LEMMA TypeInit == Init => TypeOK
BY BoundsAssumption, JobFacts DEF Init, TypeOK, Nothing, Call, Body

LEMMA TurnTypes ==
    ASSUME TypeOK,
           StartTurn \/ SelectBatch \/ TurnLeaves \/ Settle \/ Crash \/ Boot
    PROVE  TypeOK'
<1> USE BoundsAssumption DEF TypeOK, Call, Body, kill, jobs, os, history
<1>1. CASE StartTurn BY <1>1 DEF StartTurn
<1>2. CASE SelectBatch
  <2>0. PICK chosen \in SUBSET Ids : \E k \in [chosen -> Kinds] : Batch(chosen, k)
    BY <1>2 DEF SelectBatch
  <2>1. PICK k \in [chosen -> Kinds] : Batch(chosen, k) BY <2>0
  <2>2. kind' \in [Jobs -> Kinds \cup {"none"}] BY <2>1 DEF Batch, IsOwn, Jobs
  <2>3. call' \in [Jobs -> Call] BY <2>1 DEF Batch
  <2>4. body' \in [Jobs -> Body] BY <2>1 DEF Batch, FirstStage
  <2>5. of' \in [Ids -> 0..MaxTurns] BY <2>1 DEF Batch
  <2> QED BY <1>2, <2>2, <2>3, <2>4, <2>5 DEF SelectBatch
<1>3. CASE TurnLeaves BY <1>3 DEF TurnLeaves
<1>4. CASE Settle BY <1>4 DEF Settle
<1>5. CASE Crash
  <2>1. /\ Nothing \in [Jobs -> Kinds \cup {"none"}]
        /\ Nothing \in [Jobs -> Call] /\ Nothing \in [Jobs -> Body]
    BY DEF Nothing
  <2>2. kind' = Nothing /\ call' = Nothing /\ body' = Nothing BY <1>5 DEF Crash
  <2>3. 0 \in 0..MaxTurns OBVIOUS
  <2>4. /\ turn' = turn /\ of' = of /\ proc' = proc /\ markers' = markers
        /\ up' = FALSE /\ lane' = "idle" /\ stop' = "none" /\ sweep' = "none"
        /\ todo' = {} /\ swept' = 0 /\ registry' = {}
        /\ quiet' = {} /\ spared' = {}
    BY <1>5 DEF Crash
  <2>5. /\ kind' \in [Jobs -> Kinds \cup {"none"}]
        /\ call' \in [Jobs -> Call] /\ body' \in [Jobs -> Body]
    BY <2>1, <2>2
  <2> QED BY <2>3, <2>4, <2>5
<1>6. CASE Boot BY <1>6 DEF Boot
<1> QED BY <1>1, <1>2, <1>3, <1>4, <1>5, <1>6

LEMMA JobTypes ==
    ASSUME TypeOK, NEW j \in Jobs,
           \/ WorkerTakes(j) \/ BodyReturns(j) \/ SubStarts(j) \/ Process(j)
           \/ ActionTimesOut(j) \/ CallEnds(j)
           \/ ProcExits(j) \/ Recycle(j)
    PROVE  TypeOK'
<1> USE DEF TypeOK, Call, Body, kill, jobs, os, history, Becomes, Unregister
<1>1. CASE WorkerTakes(j) BY <1>1 DEF WorkerTakes
<1>2. CASE BodyReturns(j) BY <1>2 DEF BodyReturns
<1>3. CASE SubStarts(j)
  <2>1. PICK k \in Kinds :
           /\ kind' = [kind EXCEPT ![Sub(j)] = k]
           /\ call' = [call EXCEPT ![Sub(j)] = "awaits"]
           /\ body' = [body EXCEPT ![Sub(j)] = FirstStage(k)]
    BY <1>3 DEF SubStarts
  <2> QED BY <1>3, <2>1 DEF SubStarts, FirstStage
<1>4. CASE BodySpawns(j) BY <1>4 DEF BodySpawns
<1>5. CASE BodyRegisters(j) BY <1>5 DEF BodyRegisters
<1>6. CASE BodyReaps(j) BY <1>6 DEF BodyReaps
<1>7. CASE BodyGivesUp(j) BY <1>7 DEF BodyGivesUp
<1>8. CASE ActionTimesOut(j) BY <1>8 DEF ActionTimesOut, Dequeued
<1>9. CASE CallEnds(j) BY <1>9 DEF CallEnds
<1>10. CASE ProcExits(j) BY <1>10 DEF ProcExits
<1>11. CASE Recycle(j) BY <1>11 DEF Recycle
<1> QED BY <1>1, <1>2, <1>3, <1>4, <1>5, <1>6, <1>7, <1>8, <1>9, <1>10, <1>11
        DEF Process

LEMMA StopTypes ==
    ASSUME TypeOK, RequestStop \/ RequestStopUnkilled \/ Sweeping
    PROVE  TypeOK'
<1> USE DEF TypeOK, kill, jobs, os, history
<1>1. CASE RequestStop \/ RequestStopUnkilled
  <2>1. CancelTurn => call' \in [Jobs -> Call] /\ body' \in [Jobs -> Body]
    BY DEF CancelTurn, CancelledCall, Dequeued, Call, Body
  <2>2. OutOfReach(TRUE) \subseteq Jobs /\ OutOfReach(FALSE) \subseteq Jobs
    BY DEF OutOfReach
  <2> QED BY <1>1, <2>1, <2>2 DEF RequestStop, RequestStopUnkilled
<1>2. CASE SweepTakes BY <1>2 DEF SweepTakes
<1>3. CASE \E j \in Jobs : SweepKills(j) BY <1>3 DEF SweepKills, Killed
<1>4. CASE SweepMarkers BY <1>4 DEF SweepMarkers, Killed
<1>5. CASE SweepReported BY <1>5 DEF SweepReported
<1> QED BY <1>1, <1>2, <1>3, <1>4, <1>5 DEF Sweeping

LEMMA TypeStep == TypeOK /\ [Next]_vars => TypeOK'
<1> SUFFICES ASSUME TypeOK, [Next]_vars PROVE TypeOK' OBVIOUS
<1>1. CASE UNCHANGED vars
  BY <1>1 DEF vars, kill, jobs, os, history, TypeOK
<1>2. CASE Next BY <1>2, TurnTypes, JobTypes, StopTypes DEF Next
<1> QED BY <1>1, <1>2

\* The type invariant of every reachable state.
THEOREM TypesHold == Spec => []TypeOK
<1>1. TypeOK /\ [Next]_vars => TypeOK' BY TypeStep
<1> QED BY TypeInit, <1>1, PTL DEF Spec
-----------------------------------------------------------------------------
(* The inductive invariant. *)

\* A stop is requested of a turn that has not left, its kill is for that turn,
\* and it has settled only where the lane went on.
LanesHold ==
    /\ lane # "idle" => turn > 0
    /\ lane \in {"idle", "thinks"} => stop = "none"
    /\ sweep # "none" => stop = "asked" /\ swept = turn
    /\ \A t \in quiet : t <= turn
    /\ turn \in quiet => lane = "idle"

\* Nothing is executed before it is called, and for no later turn.
CallsHold ==
    \A j \in Jobs :
        /\ TurnOf(j) <= turn
        /\ TurnOf(j) = 0 => kind[j] = "none"
        /\ kind[j] = "none" => call[j] = "none"
        /\ call[j] = "none" => body[j] = "none"
        /\ IsOwn(j) /\ ~Over(j) => Current(j) /\ lane = "acts"
        /\ stop # "none" /\ Current(j) => call[j] # "awaits"
        /\ call[j] = "cancelled" => Current(j) /\ stop # "none"

\* What a call leaves to itself is a pool process, or was out of reach.
LeftHold ==
    \A j \in Jobs :
        /\ body[j] = "queued" => call[j] = "awaits"
        /\ IsOwn(j) /\ kind[j] # "sandbox" /\ call[j] = "ended" =>
              body[j] = "over" \/ j \in spared

\* A sub-agent's function outlives the actions the sub-agent executes.
SubsHold ==
    \A j \in Jobs :
        ~IsOwn(j) =>
            /\ kind[j] \notin {"sandbox", "subagent"}
            /\ Over(j) => body[j] \in {"none", "over"}
            /\ ~Over(j) => kind[Own(j)] = "subagent" /\ body[Own(j)] = "working"

\* The stop of an execution's turn has begun, or its kill is over.
StopBegan(j) == TurnOf(j) \in quiet \/ (Current(j) /\ stop # "none")
KillOver(j) ==
    \/ TurnOf(j) \in quiet
    \/ Current(j) /\ stop = "swept"
    \/ Current(j) /\ sweep = "done"

\* A child in a pool process is marked, and killed, unless its worker had not
\* marked it when the stop came.
BoxesHold ==
    \A j \in Jobs :
        kind[j] = "sandbox" =>
            /\ body[j] = "watching" => j \in markers \/ proc[j] # "alive"
            /\ StopBegan(j) /\ body[j] \in {"working", "spawned"} => j \in spared
            /\ KillOver(j) /\ body[j] = "watching" =>
                  j \in spared \/ proc[j] # "alive"

Inv == LanesHold /\ CallsHold /\ LeftHold /\ SubsHold /\ BoxesHold

LEMMA InvInit == Init => Inv
BY JobFacts DEF Init, Nothing, Inv, LanesHold, CallsHold, LeftHold, SubsHold,
                BoxesHold, TurnOf, Current, Over, StopBegan, KillOver

LEMMA LaneKeeps ==
    ASSUME TypeOK, Inv, StartTurn \/ TurnLeaves \/ Settle \/ Crash \/ Boot
    PROVE  Inv'
<1> USE JobFacts DEF TypeOK, Inv, Call, Body, kill, jobs, os, history
<1>1. CASE StartTurn
  <2>1. LanesHold'
    BY <1>1 DEF LanesHold, StartTurn
  <2>2. CallsHold'
    BY <1>1 DEF CallsHold, TurnOf, Current, Over, StartTurn
  <2>3. LeftHold'
    BY <1>1 DEF LeftHold, StartTurn
  <2>4. SubsHold'
    BY <1>1 DEF SubsHold, Over, StartTurn
  <2>5. BoxesHold'
    BY <1>1 DEF BoxesHold, TurnOf, Current, StopBegan, KillOver, LanesHold,
                StartTurn
  <2> QED BY <2>1, <2>2, <2>3, <2>4, <2>5 DEF Inv
<1>2. CASE TurnLeaves
  <2>1. LanesHold'
    BY <1>2 DEF LanesHold, TurnLeaves
  <2>2. CallsHold'
    BY <1>2 DEF CallsHold, TurnOf, Current, Over, TurnLeaves
  <2>3. LeftHold'
    BY <1>2 DEF LeftHold, TurnLeaves
  <2>4. SubsHold'
    BY <1>2 DEF SubsHold, Over, TurnLeaves
  <2>5. BoxesHold'
    BY <1>2 DEF BoxesHold, TurnOf, Current, StopBegan, KillOver, TurnLeaves
  <2> QED BY <2>1, <2>2, <2>3, <2>4, <2>5 DEF Inv
<1>3. CASE Settle
  <2>1. LanesHold'
    BY <1>3 DEF LanesHold, Settle
  <2>2. CallsHold'
    BY <1>3 DEF CallsHold, TurnOf, Current, Over, Settle
  <2>3. LeftHold'
    BY <1>3 DEF LeftHold, Settle
  <2>4. SubsHold'
    BY <1>3 DEF SubsHold, Over, Settle
  <2>5. BoxesHold'
    BY <1>3 DEF BoxesHold, TurnOf, Current, StopBegan, KillOver, SubsHold,
                IsOwn, Settle
  <2> QED BY <2>1, <2>2, <2>3, <2>4, <2>5 DEF Inv
<1>4. CASE Crash
  <2>1. LanesHold'
    BY <1>4 DEF LanesHold, Crash, Nothing
  <2>2. CallsHold'
    BY <1>4 DEF CallsHold, TurnOf, Current, Over, Crash, Nothing
  <2>3. LeftHold'
    BY <1>4 DEF LeftHold, Crash, Nothing
  <2>4. SubsHold'
    BY <1>4 DEF SubsHold, Over, Crash, Nothing
  <2>5. BoxesHold'
    BY <1>4 DEF BoxesHold, TurnOf, Current, StopBegan, KillOver, Crash, Nothing
  <2> QED BY <2>1, <2>2, <2>3, <2>4, <2>5 DEF Inv
<1>5. CASE Boot
  <2>1. LanesHold'
    BY <1>5 DEF LanesHold, Boot
  <2>2. CallsHold'
    BY <1>5 DEF CallsHold, TurnOf, Current, Over, Boot
  <2>3. LeftHold'
    BY <1>5 DEF LeftHold, Boot
  <2>4. SubsHold'
    BY <1>5 DEF SubsHold, Over, Boot
  <2>5. BoxesHold'
    BY <1>5 DEF BoxesHold, TurnOf, Current, StopBegan, KillOver, Boot
  <2> QED BY <2>1, <2>2, <2>3, <2>4, <2>5 DEF Inv
<1> QED BY <1>1, <1>2, <1>3, <1>4, <1>5

LEMMA BodyKeeps ==
    ASSUME TypeOK, Inv, NEW j \in Jobs,
           WorkerTakes(j) \/ BodyReturns(j) \/ Process(j)
    PROVE  Inv'
<1> USE JobFacts DEF TypeOK, Inv, Call, Body, kill, jobs, os, history
<1>1. CASE WorkerTakes(j)
  <2>1. LanesHold'
    BY <1>1 DEF LanesHold, WorkerTakes, Becomes
  <2>2. CallsHold'
    BY <1>1 DEF CallsHold, TurnOf, Current, Over, WorkerTakes, Becomes
  <2>3. LeftHold'
    BY <1>1 DEF LeftHold, WorkerTakes, Becomes
  <2>4. SubsHold'
    BY <1>1 DEF SubsHold, Over, WorkerTakes, Becomes
  <2>5. BoxesHold'
    BY <1>1 DEF BoxesHold, TurnOf, Current, StopBegan, KillOver, LanesHold,
                CallsHold, LeftHold, SubsHold, Over, WorkerTakes, Becomes
  <2> QED BY <2>1, <2>2, <2>3, <2>4, <2>5 DEF Inv
<1>2. CASE BodyReturns(j)
  <2>1. LanesHold'
    BY <1>2 DEF LanesHold, BodyReturns, Becomes
  <2>2. CallsHold'
    BY <1>2 DEF CallsHold, TurnOf, Current, Over, BodyReturns, Becomes
  <2>3. LeftHold'
    BY <1>2 DEF LeftHold, BodyReturns, Becomes
  <2>4. SubsHold'
    BY <1>2 DEF SubsHold, Over, BodyReturns, Becomes
  <2>5. BoxesHold'
    BY <1>2 DEF BoxesHold, TurnOf, Current, StopBegan, KillOver, BodyReturns,
                Becomes
  <2> QED BY <2>1, <2>2, <2>3, <2>4, <2>5 DEF Inv
<1>3. CASE BodySpawns(j)
  <2>1. LanesHold'
    BY <1>3 DEF LanesHold, BodySpawns, Becomes
  <2>2. CallsHold'
    BY <1>3 DEF CallsHold, TurnOf, Current, Over, BodySpawns, Becomes
  <2>3. LeftHold'
    BY <1>3 DEF LeftHold, BodySpawns, Becomes
  <2>4. SubsHold'
    BY <1>3 DEF SubsHold, Over, BodySpawns, Becomes
  <2>5. BoxesHold'
    BY <1>3 DEF BoxesHold, TurnOf, Current, StopBegan, KillOver, BodySpawns,
                Becomes
  <2> QED BY <2>1, <2>2, <2>3, <2>4, <2>5 DEF Inv
<1>4. CASE BodyRegisters(j)
  <2>1. LanesHold'
    BY <1>4 DEF LanesHold, BodyRegisters, Becomes
  <2>2. CallsHold'
    BY <1>4 DEF CallsHold, TurnOf, Current, Over, BodyRegisters, Becomes
  <2>3. LeftHold'
    BY <1>4 DEF LeftHold, BodyRegisters, Becomes
  <2>4. SubsHold'
    BY <1>4 DEF SubsHold, Over, BodyRegisters, Becomes
  <2>5. BoxesHold'
    BY <1>4 DEF BoxesHold, TurnOf, Current, StopBegan, KillOver, LanesHold,
                BodyRegisters, Becomes
  <2> QED BY <2>1, <2>2, <2>3, <2>4, <2>5 DEF Inv
<1>5. CASE BodyReaps(j)
  <2>1. LanesHold'
    BY <1>5 DEF LanesHold, BodyReaps, Becomes, Unregister
  <2>2. CallsHold'
    BY <1>5 DEF CallsHold, TurnOf, Current, Over, BodyReaps, Becomes, Unregister
  <2>3. LeftHold'
    BY <1>5 DEF LeftHold, BodyReaps, Becomes, Unregister
  <2>4. SubsHold'
    BY <1>5 DEF SubsHold, Over, BodyReaps, Becomes, Unregister
  <2>5. BoxesHold'
    BY <1>5 DEF BoxesHold, TurnOf, Current, StopBegan, KillOver, BodyReaps,
                Becomes, Unregister
  <2> QED BY <2>1, <2>2, <2>3, <2>4, <2>5 DEF Inv
<1>6. CASE BodyGivesUp(j)
  <2>1. LanesHold'
    BY <1>6 DEF LanesHold, BodyGivesUp, Becomes, Unregister
  <2>2. CallsHold'
    BY <1>6 DEF CallsHold, TurnOf, Current, Over, BodyGivesUp, Becomes,
                Unregister
  <2>3. LeftHold'
    BY <1>6 DEF LeftHold, BodyGivesUp, Becomes, Unregister
  <2>4. SubsHold'
    BY <1>6 DEF SubsHold, Over, BodyGivesUp, Becomes, Unregister
  <2>5. BoxesHold'
    BY <1>6 DEF BoxesHold, TurnOf, Current, StopBegan, KillOver, BodyGivesUp,
                Becomes, Unregister
  <2> QED BY <2>1, <2>2, <2>3, <2>4, <2>5 DEF Inv
<1> QED BY <1>1, <1>2, <1>3, <1>4, <1>5, <1>6 DEF Process

LEMMA CallKeeps ==
    ASSUME TypeOK, Inv, NEW j \in Jobs,
           ActionTimesOut(j) \/ CallEnds(j) \/ ProcExits(j) \/ Recycle(j)
    PROVE  Inv'
<1> USE JobFacts DEF TypeOK, Inv, Call, Body, kill, jobs, os, history
<1>1. CASE ActionTimesOut(j)
  <2>1. LanesHold'
    BY <1>1 DEF LanesHold, ActionTimesOut, Becomes, Dequeued
  <2>2. CallsHold'
    BY <1>1 DEF CallsHold, TurnOf, Current, Over, ActionTimesOut, Becomes,
                Dequeued
  <2>3. LeftHold'
    BY <1>1 DEF LeftHold, ActionTimesOut, Becomes, Dequeued
  <2>4. SubsHold'
    BY <1>1 DEF SubsHold, Over, ActionTimesOut, Becomes, Dequeued
  <2>5. BoxesHold'
    BY <1>1 DEF BoxesHold, TurnOf, Current, StopBegan, KillOver,
                ActionTimesOut, Becomes, Dequeued
  <2> QED BY <2>1, <2>2, <2>3, <2>4, <2>5 DEF Inv
<1>2. CASE CallEnds(j)
  <2>1. LanesHold'
    BY <1>2 DEF LanesHold, CallEnds
  <2>2. CallsHold'
    BY <1>2 DEF CallsHold, TurnOf, Current, Over, CallEnds
  <2>3. LeftHold'
    BY <1>2 DEF LeftHold, CallEnds
  <2>4. SubsHold'
    BY <1>2 DEF SubsHold, Over, CallEnds
  <2>5. BoxesHold'
    BY <1>2 DEF BoxesHold, TurnOf, Current, StopBegan, KillOver, CallEnds
  <2> QED BY <2>1, <2>2, <2>3, <2>4, <2>5 DEF Inv
<1>3. CASE ProcExits(j)
  <2>1. LanesHold'
    BY <1>3 DEF LanesHold, ProcExits
  <2>2. CallsHold'
    BY <1>3 DEF CallsHold, TurnOf, Current, Over, ProcExits
  <2>3. LeftHold'
    BY <1>3 DEF LeftHold, ProcExits
  <2>4. SubsHold'
    BY <1>3 DEF SubsHold, Over, ProcExits
  <2>5. BoxesHold'
    BY <1>3 DEF BoxesHold, TurnOf, Current, StopBegan, KillOver, ProcExits
  <2> QED BY <2>1, <2>2, <2>3, <2>4, <2>5 DEF Inv
<1>4. CASE Recycle(j)
  <2>1. LanesHold'
    BY <1>4 DEF LanesHold, Recycle, Held
  <2>2. CallsHold'
    BY <1>4 DEF CallsHold, TurnOf, Current, Over, Recycle, Held
  <2>3. LeftHold'
    BY <1>4 DEF LeftHold, Recycle, Held
  <2>4. SubsHold'
    BY <1>4 DEF SubsHold, Over, Recycle, Held
  <2>5. BoxesHold'
    BY <1>4 DEF BoxesHold, TurnOf, Current, StopBegan, KillOver, Recycle, Held
  <2> QED BY <2>1, <2>2, <2>3, <2>4, <2>5 DEF Inv
<1> QED BY <1>1, <1>2, <1>3, <1>4

LEMMA SweepKeeps ==
    ASSUME TypeOK, Inv, Sweeping
    PROVE  Inv'
<1> USE JobFacts DEF TypeOK, Inv, Call, Body, kill, jobs, os, history
<1>1. CASE SweepTakes
  <2>1. LanesHold'
    BY <1>1 DEF LanesHold, SweepTakes
  <2>2. CallsHold'
    BY <1>1 DEF CallsHold, TurnOf, Current, Over, SweepTakes
  <2>3. LeftHold'
    BY <1>1 DEF LeftHold, SweepTakes
  <2>4. SubsHold'
    BY <1>1 DEF SubsHold, Over, SweepTakes
  <2>5. BoxesHold'
    BY <1>1 DEF BoxesHold, TurnOf, Current, StopBegan, KillOver, SweepTakes
  <2> QED BY <2>1, <2>2, <2>3, <2>4, <2>5 DEF Inv
<1>2. CASE \E j \in Jobs : SweepKills(j)
  <2>1. LanesHold'
    BY <1>2 DEF LanesHold, SweepKills, Killed
  <2>2. CallsHold'
    BY <1>2 DEF CallsHold, TurnOf, Current, Over, SweepKills, Killed
  <2>3. LeftHold'
    BY <1>2 DEF LeftHold, SweepKills, Killed
  <2>4. SubsHold'
    BY <1>2 DEF SubsHold, Over, SweepKills, Killed
  <2>5. BoxesHold'
    BY <1>2 DEF BoxesHold, TurnOf, Current, StopBegan, KillOver, SweepKills,
                Killed
  <2> QED BY <2>1, <2>2, <2>3, <2>4, <2>5 DEF Inv
<1>3. CASE SweepMarkers
  <2>1. LanesHold'
    BY <1>3 DEF LanesHold, SweepMarkers, Killed
  <2>2. CallsHold'
    BY <1>3 DEF CallsHold, TurnOf, Current, Over, SweepMarkers, Killed
  <2>3. LeftHold'
    BY <1>3 DEF LeftHold, SweepMarkers, Killed
  <2>4. SubsHold'
    BY <1>3 DEF SubsHold, Over, SweepMarkers, Killed
  <2>5. BoxesHold'
    BY <1>3 DEF BoxesHold, TurnOf, Current, StopBegan, KillOver, SweepMarkers,
                Killed
  <2> QED BY <2>1, <2>2, <2>3, <2>4, <2>5 DEF Inv
<1>4. CASE SweepReported
  <2>1. LanesHold'
    BY <1>4 DEF LanesHold, SweepReported
  <2>2. CallsHold'
    BY <1>4 DEF CallsHold, TurnOf, Current, Over, LanesHold, SweepReported
  <2>3. LeftHold'
    BY <1>4 DEF LeftHold, SweepReported
  <2>4. SubsHold'
    BY <1>4 DEF SubsHold, Over, SweepReported
  <2>5. BoxesHold'
    BY <1>4 DEF BoxesHold, TurnOf, Current, StopBegan, KillOver, LanesHold,
                SweepReported
  <2> QED BY <2>1, <2>2, <2>3, <2>4, <2>5 DEF Inv
<1> QED BY <1>1, <1>2, <1>3, <1>4 DEF Sweeping

LEMMA SelectKeeps == ASSUME TypeOK, Inv, SelectBatch PROVE Inv'
<1> USE JobFacts DEF TypeOK, Inv, Call, Body, kill, jobs, os, history
<1>1. PICK chosen \in SUBSET {i \in Ids : of[i] = 0} :
        \E k \in [chosen -> Kinds] : Batch(chosen, k)
  BY DEF SelectBatch
<1>2. PICK k \in [chosen -> Kinds] : Batch(chosen, k) BY <1>1
<1>3. \A j \in Jobs : j[1] \notin chosen \/ ~IsOwn(j) =>
        kind'[j] = kind[j] /\ call'[j] = call[j] /\ body'[j] = body[j]
  BY <1>2 DEF Batch
<1>4. \A j \in Jobs : j[1] \in chosen =>
        /\ TurnOf(j) = 0 /\ kind[j] = "none" /\ call[j] = "none" /\ body[j] = "none"
        /\ IsOwn(j) => /\ kind'[j] # "none" /\ call'[j] = "awaits"
                       /\ body'[j] \in {"queued", "working"}
                       /\ kind'[j] = "sandbox" => body'[j] = "queued"
  BY <1>2, SetsAssumption DEF Batch, CallsHold, TurnOf, FirstStage, AllKinds
<1>5. \A j \in Jobs :
        TurnOf(j)' = IF j[1] \in chosen THEN turn ELSE TurnOf(j)
  BY <1>2 DEF Batch, TurnOf
<1>6. /\ lane = "thinks" /\ lane' = "acts" /\ stop' = stop /\ turn' = turn
      /\ UNCHANGED <<sweep, todo, swept, proc, registry, markers, quiet, spared>>
  BY DEF SelectBatch
<1>7. LanesHold' BY <1>6 DEF LanesHold
<1>8. CallsHold' BY <1>3, <1>4, <1>5, <1>6 DEF CallsHold, LanesHold, Over,
                                               Current
<1>9. LeftHold' BY <1>3, <1>4, <1>6 DEF LeftHold
<1>10. SubsHold' BY <1>3, <1>4, <1>6 DEF SubsHold, Over
<1>11. BoxesHold'
  BY <1>3, <1>4, <1>5, <1>6 DEF BoxesHold, LanesHold, StopBegan, KillOver,
                                Current
<1> QED BY <1>7, <1>8, <1>9, <1>10, <1>11 DEF Inv

LEMMA StopKeeps ==
    ASSUME TypeOK, Inv, RequestStop \/ RequestStopUnkilled
    PROVE  Inv'
<1> USE JobFacts DEF TypeOK, Inv, Call, Body, kill, jobs, os, history
<1>0. CancelTurn BY DEF RequestStop, RequestStopUnkilled
<1>1. \A j \in Jobs : ~Current(j) => call'[j] = call[j] /\ body'[j] = body[j]
  BY <1>0 DEF CancelTurn, Current, IsOwn
<1>2. \A j \in Jobs : Current(j) =>
        /\ call'[j] = CancelledCall(j)
        /\ body'[j] = IF call[j] = "awaits" THEN Dequeued(j) ELSE body[j]
  BY <1>0 DEF CancelTurn, Current, IsOwn
<1>3. \A j \in Jobs : Pooled(j) => kind[j] \notin {"none", "coro", "sandbox"}
  BY DEF Pooled
<1>4. /\ lane \in {"thinks", "acts"} /\ stop = "none" /\ lane' = "acts" /\ stop' # "none"
      /\ UNCHANGED <<turn, of, kind, proc, registry, markers, quiet>>
      /\ spared \subseteq spared'
  BY DEF RequestStop, RequestStopUnkilled
<1>5. \A j \in Jobs :
        /\ Current(j) /\ Pooled(j) /\ call[j] = "expires" => j \in spared'
        /\ kind[j] = "sandbox" /\ body[j] \in {"working", "spawned"} => j \in spared'
        /\ kind[j] = "sandbox" /\ body[j] = "watching" =>
              (j \in spared' \/ (stop' = "asked" /\ sweep' = "starts"))
  BY DEF RequestStop, RequestStopUnkilled, OutOfReach, Held
<1>6. LanesHold' BY <1>4 DEF LanesHold, RequestStop, RequestStopUnkilled
<1>7. CallsHold'
  BY <1>1, <1>2, <1>3, <1>4 DEF CallsHold, LanesHold, Over, Current, TurnOf,
                                CancelledCall,
     Dequeued
<1>8. LeftHold'
  BY <1>1, <1>2, <1>3, <1>4, <1>5 DEF LeftHold, CallsHold, CancelledCall,
                                      Dequeued
<1>9. SubsHold'
  BY <1>1, <1>2, <1>3, <1>4 DEF SubsHold, LeftHold, Over, Current,
                                CancelledCall, Dequeued
<1>10. BoxesHold'
  BY <1>1, <1>2, <1>4, <1>5 DEF BoxesHold, LanesHold, CallsHold, LeftHold,
                                SubsHold, Over, StopBegan, KillOver, Current,
                                TurnOf, Dequeued
<1> QED BY <1>6, <1>7, <1>8, <1>9, <1>10 DEF Inv

LEMMA SubKeeps == ASSUME TypeOK, Inv, NEW j \in Jobs, SubStarts(j) PROVE Inv'
<1> USE JobFacts DEF TypeOK, Inv, Call, Body, kill, jobs, os, history
<1>1. PICK k \in Kinds \ {"subagent", "sandbox"} :
        /\ kind' = [kind EXCEPT ![Sub(j)] = k]
        /\ call' = [call EXCEPT ![Sub(j)] = "awaits"]
        /\ body' = [body EXCEPT ![Sub(j)] = FirstStage(k)]
  BY DEF SubStarts
<1>2. k # "none" /\ FirstStage(k) \in {"queued", "working"}
  BY SetsAssumption DEF AllKinds, FirstStage
<1>3. /\ IsOwn(j) /\ kind[j] = "subagent" /\ body[j] = "working"
      /\ kind[Sub(j)] = "none"
      /\ UNCHANGED <<lane, turn, stop, sweep, swept, of, proc, markers, quiet, spared>>
  BY DEF SubStarts
<1>4. LanesHold' BY <1>3 DEF LanesHold
<1>5. CallsHold' BY <1>1, <1>2, <1>3 DEF CallsHold, Over, Current, TurnOf, IsOwn
<1>6. LeftHold' BY <1>1, <1>2, <1>3 DEF LeftHold
<1>7. SubsHold' BY <1>1, <1>2, <1>3 DEF SubsHold, Over
<1>8. BoxesHold'
  BY <1>1, <1>3 DEF BoxesHold, StopBegan, KillOver, Current, TurnOf
<1> QED BY <1>4, <1>5, <1>6, <1>7, <1>8 DEF Inv

LEMMA InvStep == TypeOK /\ Inv /\ [Next]_vars => Inv'
<1> SUFFICES ASSUME TypeOK, Inv, [Next]_vars PROVE Inv' OBVIOUS
<1>1. CASE UNCHANGED vars
  BY <1>1 DEF vars, kill, jobs, os, history, Inv, LanesHold, CallsHold,
              LeftHold,
              SubsHold, BoxesHold, TurnOf, Current, Over, StopBegan, KillOver
<1>2. CASE Next
  BY <1>2, LaneKeeps, SelectKeeps, BodyKeeps, CallKeeps, SubKeeps, StopKeeps,
     SweepKeeps DEF Next
<1> QED BY <1>1, <1>2

LEMMA Invariance == Spec => [](TypeOK /\ Inv)
<1>1. Init => TypeOK /\ Inv BY TypeInit, InvInit
<1>2. TypeOK /\ Inv /\ [Next]_vars => (TypeOK /\ Inv)' BY TypeStep, InvStep
<1> QED BY <1>1, <1>2, PTL DEF Spec

-----------------------------------------------------------------------------
(* What they say of the program. *)

\* What is active in a stopped run was out of the stop's reach, or belongs to
\* a sub-agent that was.
THEOREM StopsAreQuiet == Spec => []StopIsQuiet
<1>1. ASSUME TypeOK, Inv, NEW j \in Jobs, IsOwn(j), TurnOf(j) \in quiet, Active(j)
      PROVE  j \in spared
  <2>1. call[j] = "ended"
    BY <1>1 DEF Inv, LanesHold, CallsHold, Active, Over, Current, TypeOK, Call
  <2>2. CASE kind[j] = "sandbox"
    BY <1>1, <2>1, <2>2 DEF Inv, BoxesHold, LeftHold, StopBegan, KillOver,
                            Active
  <2>3. CASE kind[j] # "sandbox"
    BY <1>1, <2>1, <2>3 DEF Inv, LeftHold, Active
  <2> QED BY <2>2, <2>3
<1>2. ASSUME TypeOK, Inv, NEW j \in Jobs, ~IsOwn(j), TurnOf(j) \in quiet, Active(j)
      PROVE  Own(j) \in spared
  <2>1. body[Own(j)] = "working" BY <1>2 DEF Inv, SubsHold, Active
  <2>2. IsOwn(Own(j)) /\ Own(j) \in Jobs /\ TurnOf(Own(j)) = TurnOf(j)
    BY JobFacts DEF TurnOf
  <2>3. Active(Own(j)) BY <2>1 DEF Active
  <2> QED BY <1>1, <1>2, <2>2, <2>3
<1>3. TypeOK /\ Inv => StopIsQuiet BY <1>1, <1>2 DEF StopIsQuiet
<1> QED BY <1>3, Invariance, PTL

\* Every execution of a turn is recorded before the session goes on.
THEOREM NoneSpins == Spec => []NothingSpins
<1>1. Inv => NothingSpins BY DEF Inv, CallsHold, NothingSpins
<1> QED BY <1>1, Invariance, PTL

\* A stop kills what its run, or an earlier one, has started.
THEOREM KillsStayInRun == Spec => KillsOnlyItsRun
<1>1. ASSUME TypeOK, Inv, Sweeping, NEW j \in Jobs, proc'[j] # proc[j]
      PROVE  proc[j] = "alive" /\ TurnOf(j) =< swept
  <2>1. sweep # "none"
    BY <1>1 DEF Sweeping, SweepTakes, SweepKills, SweepMarkers, SweepReported
  <2>2. TurnOf(j) =< swept BY <1>1, <2>1 DEF Inv, LanesHold, CallsHold
  <2>3. proc[j] = "alive"
    BY <1>1 DEF TypeOK, os, Sweeping, SweepTakes, SweepKills, SweepMarkers,
                SweepReported,
       Killed
  <2> QED BY <2>2, <2>3
<1>2. TypeOK /\ Inv /\ [Next]_vars =>
        [Sweeping => \A j \in Jobs : proc'[j] # proc[j] =>
            proc[j] = "alive" /\ TurnOf(j) =< swept]_vars
  BY <1>1
<1> QED BY <1>2, Invariance, PTL DEF Spec, KillsOnlyItsRun
==============================================================================
