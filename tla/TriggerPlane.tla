---------------------------- MODULE TriggerPlane ----------------------------
(***************************************************************************)
(* The durable trigger plane: the SQLite trigger table (app/triggers/      *)
(* store.py), the front door that writes and dispatches (service.py), one  *)
(* queue per session (session_queue.py) and one serial consumer loop per   *)
(* session with a global turn semaphore, user stop and session deletion    *)
(* (runtime.py), as the boot sequence of agent_base.py drives them.        *)
(*                                                                         *)
(* All of it runs on one asyncio event loop, so a step is what runs        *)
(* between two awaits; the process may die between any two steps and then  *)
(* only the table is left.                                                 *)
(***************************************************************************)
EXTENDS Integers, FiniteSets

CONSTANTS
    Sessions,     \* session ids
    Main,         \* the main session, never deleted
    Kinds,        \* <<source, origin, key>> of the triggers producers emit
    Env,          \* which of EnvOps the environment performs
    MaxRows,      \* bound: rows ever inserted
    MaxNow,       \* bound: the clock
    MaxCrashes,   \* bound: process deaths
    MaxAttempts,  \* service.MAX_ATTEMPTS
    MaxTurns,     \* runtime.DEFAULT_MAX_CONCURRENT_TURNS
    StaleAge,     \* store.STALE_TRIGGER_HOURS, in ticks
    Delays        \* how far in the future producers ask a trigger to fire

EnvOps == {"boot_emit", "crash", "fail", "stop", "clear", "delete", "reset"}

\* Sources the code treats specially; every other producer is "other".
Sources == {"run_continuation", "agent_app_crash_fix", "other"}
Exclusive == "agent_app_crash_fix"      \* the one member of EXCLUSIVE_SOURCES
Continuation == "run_continuation"

NoOrigin == "none"   \* a trigger that does not come from a telegram contact
NoKey == "none"      \* dedup_key is NULL

SourceOf(k) == k[1]
OriginOf(k) == k[2]
KeyOf(k) == k[3]

Origins == {OriginOf(k) : k \in Kinds} \cup {NoOrigin}
Keys == {KeyOf(k) : k \in Kinds} \cup {NoKey}

ASSUME SessionsAssumption == Main \in Sessions
ASSUME KindsAssumption == \A k \in Kinds : SourceOf(k) \in Sources
ASSUME EnvAssumption == Env \subseteq EnvOps
ASSUME BoundsAssumption ==
    /\ MaxRows \in Nat /\ MaxNow \in Nat /\ MaxCrashes \in Nat
    /\ MaxAttempts \in Nat \ {0} /\ MaxTurns \in Nat \ {0}
    /\ StaleAge \in Nat /\ Delays \subseteq Nat

Ids == 1..MaxRows

VARIABLES
    \* --- durable: the triggers table and the session registry
    row,       \* row[i]: the table row with id i
    lastId,    \* the AUTOINCREMENT counter
    alive,     \* sessions the session manager knows
    \* --- the process
    proc,      \* "down", "boot", "loaded" or "up"
    now,       \* the clock
    crashes,   \* how often the process died
    heap,      \* heap[s]: triggers in the session's current queue
    turn,      \* turn[s]: what the session's consumer loop is doing
    dying,     \* dying[s]: the turn of a removed lane, still unwinding
    deleting,  \* sessions whose delete_session awaits the cancelled loop
    stop,      \* stop[s]: the session's _StopSignal
    clear      \* clear[s]: a clear_session of s in progress

durable == <<row, lastId, alive>>
lanes == <<heap, turn, dying>>
control == <<deleting, stop, clear>>
vars == <<row, lastId, alive, proc, now, crashes, heap, turn, dying, deleting,
          stop, clear>>

-----------------------------------------------------------------------------
(* Types *)

Status == {"free", "PENDING", "CLAIMED", "DONE", "DEAD", "gone"}
ActiveStatus == {"PENDING", "CLAIMED"}

\* "free": not inserted yet; "gone": deleted from the table. A deleted row
\* keeps its columns here for the in-memory triggers that still name it.
Row == [status : Status, session : Sessions, source : Sources,
        origin : Origins, key : Keys, fireAt : Nat, attempts : Nat]

\* An in-memory Trigger. `copy` tells two triggers of one row apart,
\* `carries` are the rows whose work its text and payload describe.
Trig == [id : Ids, fireAt : Nat, copy : {"emitted", "rehydrated"},
         carries : SUBSET Ids]

\* "fenced": in _run_turn, waiting for a stop to settle; "capacity": waiting
\* for the semaphore; "react" and "drop" (unknown session): in react();
\* "unwinding": cancelled by a stop, still in react(); then the consumer loop
\* settles the group: "acking", "nacking" or, after a stop, "stopping".
Phase == {"none", "fenced", "capacity", "react", "drop", "unwinding",
          "acking", "nacking", "stopping"}
Turn == [phase : Phase, group : SUBSET Trig, tracked : BOOLEAN]
DyingTurn == [phase : {"none", "react", "nacking"}, group : SUBSET Trig]
NoTurn == [phase |-> "none", group |-> {}, tracked |-> FALSE]
NotDying == [phase |-> "none", group |-> {}]

TypeOK ==
    /\ row \in [Ids -> Row]
    /\ lastId \in 0..MaxRows
    /\ \A i \in Ids : row[i].status = "free" <=> i > lastId
    /\ alive \in SUBSET Sessions
    /\ proc \in {"down", "boot", "loaded", "up"}
    /\ now \in Nat
    /\ crashes \in Nat
    /\ heap \in [Sessions -> SUBSET Trig]
    /\ turn \in [Sessions -> Turn]
    /\ \A s \in Sessions : turn[s].phase = "none" => turn[s].group = {}
    /\ dying \in [Sessions -> DyingTurn]
    /\ deleting \in SUBSET Sessions
    /\ stop \in [Sessions -> {"none", "fence", "requested", "killed"}]
    /\ clear \in [Sessions -> {"none", "owner", "waiting"}]

-----------------------------------------------------------------------------
(* The table *)

Active(i) == row[i].status \in ActiveStatus
IdsOf(T) == {t.id : t \in T}

\* UPDATE ... SET status WHERE id IN ids: no guard on the old status.
SetStatus(r, ids, status) ==
    [i \in Ids |-> IF i \in ids /\ r[i].status \notin {"free", "gone"}
                   THEN [r[i] EXCEPT !.status = status] ELSE r[i]]

\* Mutations of Claimed: a retried row is not claimable; the claim is not
\* counted.
ClaimedOnce(r, ids) ==
    [i \in Ids |-> IF i \in ids /\ r[i].status = "PENDING" /\ r[i].attempts = 0
                   THEN [r[i] EXCEPT !.status = "CLAIMED", !.attempts = 1]
                   ELSE r[i]]

ClaimedUncounted(r, ids) ==
    [i \in Ids |-> IF i \in ids /\ r[i].status = "PENDING"
                   THEN [r[i] EXCEPT !.status = "CLAIMED"] ELSE r[i]]

\* store.claim: compare-and-swap from PENDING, whoever loses is not told.
Claimed(r, ids) ==
    [i \in Ids |-> IF i \in ids /\ r[i].status = "PENDING"
                   THEN [r[i] EXCEPT !.status = "CLAIMED", !.attempts = @ + 1]
                   ELSE r[i]]

\* Mutation of KeyTaken: a row that is being worked on frees its key.
KeyQueued(r, i, key) ==
    /\ key # NoKey
    /\ \E j \in Ids \ {i} : r[j].status = "PENDING" /\ r[j].key = key

\* uq_triggers_dedup_active: some other active row holds the key.
KeyTaken(r, i, key) ==
    /\ key # NoKey
    /\ \E j \in Ids \ {i} : r[j].status \in ActiveStatus /\ r[j].key = key

Source(t) == row[t.id].source
Origin(t) == row[t.id].origin
Capped(t) == IF t > MaxNow THEN MaxNow ELSE t

\* Rows with work left: claims of a dead process are reclaimed before the
\* PENDING rows are loaded. Mutation: they are not.
StillPending == {i \in Ids : row[i].status = "PENDING"}
Unfinished == {i \in Ids : Active(i)}

\* A row that is gone counts as out of attempts.
Attempts(i) == IF row[i].status = "gone" THEN MaxAttempts
               ELSE row[i].attempts

\* BACKOFF_BASE_SECONDS * 2^(attempts-1) up to BACKOFF_CAP_SECONDS, in ticks.
Backoff(attempts) == IF attempts <= 1 THEN 1 ELSE 2

-----------------------------------------------------------------------------
(* Emitting *)

FreeRow == [status |-> "free", session |-> Main, source |-> "other",
            origin |-> NoOrigin, key |-> NoKey, fireAt |-> 0, attempts |-> 0]

Init == /\ row = [i \in Ids |-> FreeRow]
        /\ lastId = 0
        /\ alive = Sessions
        /\ proc = "down"
        /\ now = 0
        /\ crashes = 0
        /\ heap = [s \in Sessions |-> {}]
        /\ turn = [s \in Sessions |-> NoTurn]
        /\ dying = [s \in Sessions |-> NotDying]
        /\ deleting = {}
        /\ stop = [s \in Sessions |-> "none"]
        /\ clear = [s \in Sessions |-> "none"]

\* The next AUTOINCREMENT id.
NewId == lastId + 1

\* TriggerService.emit over table r and queues h: INSERT, then dispatch.
\* Nothing suspends in between; a crash between the two leaves what a crash
\* right after dispatch leaves, for the queue dies with the process.
EmitOver(r, h, s, kind, at) ==
    LET i == NewId
    IN  /\ lastId < MaxRows
        /\ lastId' = i
        /\ row' = [r EXCEPT ![i] =
                     [status |-> "PENDING", session |-> s,
                      source |-> SourceOf(kind), origin |-> OriginOf(kind),
                      key |-> KeyOf(kind), fireAt |-> at, attempts |-> 0]]
        /\ heap' = [h EXCEPT ![s] = @ \cup
                     {[id |-> i, fireAt |-> at, copy |-> "emitted",
                       carries |-> {i}]}]

\* A producer outside the turns (UI, scheduler, integration, factory) emits.
\* A deduplicated emit changes nothing. Producers may name a deleted session.
Emit(s, kind, delay) ==
    /\ \/ proc \in {"loaded", "up"}
       \/ proc = "boot" /\ "boot_emit" \in Env
    /\ ~KeyTaken(row, lastId + 1, KeyOf(kind))
    /\ EmitOver(row, heap, s, kind, Capped(now + delay))
    /\ UNCHANGED <<alive, proc, now, crashes, turn, dying, control>>

\* A turn leaves react(), over table r: its run ends, or it enqueues the next
\* turn, at once or after the wait an action asked for. That continuation
\* carries the origin of the turn's trigger; the error path's carries none.
LeaveReact(r, s, group) ==
    \/ /\ row' = r
       /\ UNCHANGED <<lastId, heap>>
    \/ \E o \in {Origin(t) : t \in group}, delay \in Delays :
          EmitOver(r, heap, s, <<Continuation, o, NoKey>>, Capped(now + delay))
    \/ EmitOver(r, heap, s, <<Continuation, NoOrigin, NoKey>>, now)

-----------------------------------------------------------------------------
(* The consumer loop *)

Due(s) == {t \in heap[s] : t.fireAt <= now}

\* Mutations of Extras: a fix mission joins another trigger's turn; the drain
\* returns the base trigger once more.
ExtrasAnySource(s, base) ==
    IF Source(base) = Exclusive THEN {}
    ELSE {t \in Due(s) \ {base} : Origin(t) = Origin(base)}

ExtrasWithBase(s, base) ==
    IF Source(base) = Exclusive THEN {}
    ELSE {t \in Due(s) : Source(t) # Exclusive /\ Origin(t) = Origin(base)}

\* Everything else that is due joins the turn, except exclusive sources and
\* triggers of another contact.
Extras(s, base) ==
    IF Source(base) = Exclusive THEN {}
    ELSE {t \in Due(s) \ {base} : Source(t) # Exclusive
                                  /\ Origin(t) = Origin(base)}

\* _merge_triggers rewrites the base trigger in place.
Merged(base, extras) ==
    [base EXCEPT !.carries = @ \cup UNION {t.carries : t \in extras}]

\* Take the earliest due trigger, drain what goes with it, claim the rows and
\* start the turn's task; it waits for a stop of this session to settle.
Claim(s) ==
    /\ proc = "up"
    /\ turn[s].phase = "none"
    /\ \E base \in Due(s) :
         LET extras == Extras(s, base)
             group == {Merged(base, extras)} \cup extras
         IN  /\ \A t \in Due(s) : base.fireAt <= t.fireAt
             /\ row' = Claimed(row, IdsOf(group))
             /\ heap' = [heap EXCEPT ![s] = @ \ ({base} \cup extras)]
             /\ turn' = [turn EXCEPT ![s] =
                  [phase |-> IF stop[s] = "none" THEN "capacity" ELSE "fenced",
                   group |-> group, tracked |-> TRUE]]
    /\ UNCHANGED <<lastId, alive, proc, now, crashes, dying, control>>

SetPhase(s, phase) == turn' = [turn EXCEPT ![s].phase = phase]

\* Mutation of Unfence: the turn does not wait for the stop to settle.
UnfenceAtOnce(s) ==
    /\ turn[s].phase = "fenced"
    /\ SetPhase(s, "capacity")
    /\ UNCHANGED <<durable, proc, now, crashes, heap, dying, control>>

Unfence(s) ==
    /\ turn[s].phase = "fenced"
    /\ stop[s] = "none"
    /\ SetPhase(s, "capacity")
    /\ UNCHANGED <<durable, proc, now, crashes, heap, dying, control>>

\* Turns that hold a permit of the turn semaphore.
HoldsPermit(s) == turn[s].phase \in {"react", "drop", "unwinding"}
Permits == Cardinality({s \in Sessions : HoldsPermit(s)})
           + Cardinality({s \in Sessions : dying[s].phase = "react"})

\* The semaphore admits the turn; react() looks the session up first.
Admit(s) ==
    /\ turn[s].phase = "capacity"
    /\ Permits < MaxTurns
    /\ SetPhase(s, IF s \in alive THEN "react" ELSE "drop")
    /\ UNCHANGED <<durable, proc, now, crashes, heap, dying, control>>

TurnReturns(s) ==
    /\ \/ turn[s].phase = "react" /\ LeaveReact(row, s, turn[s].group)
       \/ turn[s].phase = "drop" /\ UNCHANGED <<row, lastId, heap>>
    /\ SetPhase(s, "acking")
    /\ UNCHANGED <<alive, proc, now, crashes, dying, control>>

TurnRaises(s) ==
    /\ "fail" \in Env
    /\ turn[s].phase = "react"
    /\ LeaveReact(row, s, turn[s].group)
    /\ SetPhase(s, "nacking")
    /\ UNCHANGED <<alive, proc, now, crashes, dying, control>>

\* Mutation of TurnUnwinds: a turn that swallows the cancellation is acked.
TurnSwallows(s) ==
    /\ turn[s].phase = "unwinding"
    /\ LeaveReact(row, s, turn[s].group)
    /\ SetPhase(s, "acking")
    /\ UNCHANGED <<alive, proc, now, crashes, dying, control>>

\* However the cancelled turn ends, _run_turn makes it a cancellation.
TurnUnwinds(s) ==
    /\ turn[s].phase = "unwinding"
    /\ LeaveReact(row, s, turn[s].group)
    /\ SetPhase(s, "stopping")
    /\ UNCHANGED <<alive, proc, now, crashes, dying, control>>

\* The turn without trigger t; the loop goes on when the group is settled.
Settled(u, t) == IF u.group = {t} THEN NoTurn
                 ELSE [u EXCEPT !.group = @ \ {t}]

\* A group is settled row by row, one commit each: the process may die between
\* two of them.
Ack(s) ==
    /\ turn[s].phase = "acking"
    /\ \E t \in turn[s].group :
         /\ row' = SetStatus(row, {t.id}, "DONE")
         /\ turn' = [turn EXCEPT ![s] = Settled(@, t)]
    /\ UNCHANGED <<lastId, alive, proc, now, crashes, heap, dying, control>>

\* TriggerService.nack: park the row, or put it back with a backoff and
\* dispatch the trigger again. A retry the dedup index refuses is logged and
\* the trigger is lost.
Nack(s, t) ==
    LET attempts == Attempts(t.id)
        at == Capped(now + Backoff(attempts))
    IN  \/ /\ attempts >= MaxAttempts
           /\ row' = SetStatus(row, {t.id}, "DEAD")
           /\ UNCHANGED heap
        \/ /\ attempts < MaxAttempts
           /\ KeyTaken(row, t.id, row[t.id].key)
           /\ UNCHANGED <<row, heap>>
        \/ /\ attempts < MaxAttempts
           /\ ~KeyTaken(row, t.id, row[t.id].key)
           /\ row' = [row EXCEPT ![t.id].status = "PENDING",
                                 ![t.id].fireAt = at]
           /\ heap' = [heap EXCEPT ![s] = @ \cup {[t EXCEPT !.fireAt = at]}]

NackOne(s) ==
    /\ turn[s].phase = "nacking"
    /\ \E t \in turn[s].group :
         /\ Nack(s, t)
         /\ turn' = [turn EXCEPT ![s] = Settled(@, t)]
    /\ UNCHANGED <<lastId, alive, proc, now, crashes, dying, control>>

-----------------------------------------------------------------------------
(* User stop and session clear *)

\* The queued continuations. Mutation: everything the session has queued.
WholeQueue(s) == heap[s]
Continuations(s) == {t \in heap[s] : Source(t) = Continuation}

\* A turn task that is registered in _turns and not done. Mutation: a turn
\* that waits for a stop or for capacity is not tracked.
InReact(s) == turn[s].tracked /\ turn[s].phase \in {"react", "drop"}
InFlight(s) == /\ turn[s].tracked
               /\ turn[s].phase \in {"fenced", "capacity", "react", "drop"}

\* request_stop up to its first wait: drop the queued continuations; cancel a
\* turn in flight, or fence the session while a parked run is finalized.
StopEffects(s) ==
    /\ proc = "up"
    /\ stop[s] = "none"
    /\ InFlight(s) \/ Continuations(s) # {}
    /\ row' = SetStatus(row, IdsOf(Continuations(s)), "DONE")
    /\ heap' = [heap EXCEPT ![s] = @ \ Continuations(s)]
    /\ \/ /\ InFlight(s)
          /\ SetPhase(s, IF turn[s].phase = "react" THEN "unwinding"
                                                    ELSE "stopping")
          /\ stop' = [stop EXCEPT ![s] = "requested"]
       \/ /\ ~InFlight(s)
          /\ stop' = [stop EXCEPT ![s] = "fence"]
          /\ UNCHANGED turn
    /\ UNCHANGED <<lastId, alive, proc, now, crashes, dying, deleting>>

\* The stop button. A request during a stop only waits for that stop.
RequestStop(s) ==
    /\ "stop" \in Env
    /\ StopEffects(s)
    /\ UNCHANGED clear

\* clear_session stops the run, then resets the session's context. The caller
\* that fenced a parked run resets it in the step that lifts the fence; every
\* other caller waits for the stop signal to settle.
\* Bound: one clear per session at a time.
ClearSession(s) ==
    /\ "clear" \in Env
    /\ clear[s] = "none"
    /\ \/ /\ StopEffects(s)
          /\ clear' = [clear EXCEPT ![s] = IF InFlight(s) THEN "waiting"
                                                          ELSE "owner"]
       \/ /\ stop[s] # "none"
          /\ clear' = [clear EXCEPT ![s] = "waiting"]
          /\ UNCHANGED <<durable, proc, now, crashes, lanes, deleting, stop>>

\* The executor has killed the session's child processes.
KillDone(s) ==
    /\ stop[s] = "requested"
    /\ stop' = [stop EXCEPT ![s] = "killed"]
    /\ UNCHANGED <<durable, proc, now, crashes, lanes, deleting, clear>>

\* The consumer settles the stopped group by user intent ...
AckStopped(s) ==
    /\ turn[s].phase = "stopping"
    /\ stop[s] = "killed"
    /\ \E t \in turn[s].group :
         /\ row' = SetStatus(row, {t.id}, "DONE")
         /\ turn' = [turn EXCEPT ![s].group = @ \ {t}]
    /\ UNCHANGED <<lastId, alive, proc, now, crashes, heap, dying, control>>

\* Mutation of StopSettles: what the dying turn enqueued stays queued.
StopKeepsQueue(s) ==
    /\ turn[s].phase = "stopping"
    /\ stop[s] = "killed"
    /\ turn[s].group = {}
    /\ turn' = [turn EXCEPT ![s] = NoTurn]
    /\ stop' = [stop EXCEPT ![s] = "none"]
    /\ UNCHANGED <<durable, proc, now, crashes, heap, dying, deleting, clear>>

\* ... then drops what the dying turn enqueued, finalizes and lifts the stop.
StopSettles(s) ==
    /\ turn[s].phase = "stopping"
    /\ stop[s] = "killed"
    /\ turn[s].group = {}
    /\ row' = SetStatus(row, IdsOf(Continuations(s)), "DONE")
    /\ heap' = [heap EXCEPT ![s] = @ \ Continuations(s)]
    /\ turn' = [turn EXCEPT ![s] = NoTurn]
    /\ stop' = [stop EXCEPT ![s] = "none"]
    /\ UNCHANGED <<lastId, alive, proc, now, crashes, dying, deleting, clear>>

\* Mutation of FenceSettles: the clear that owns the fence is not resumed.
FenceForgetsOwner(s) ==
    /\ stop[s] = "fence"
    /\ stop' = [stop EXCEPT ![s] = "none"]
    /\ UNCHANGED <<durable, proc, now, crashes, lanes, deleting, clear>>

\* The parked run's finalizer is done. A clear that owns the fence goes on
\* without suspending: it resets the context in this step.
FenceSettles(s) ==
    /\ stop[s] = "fence"
    /\ stop' = [stop EXCEPT ![s] = "none"]
    /\ clear' = [clear EXCEPT ![s] = IF @ = "owner" THEN "none" ELSE @]
    /\ UNCHANGED <<durable, proc, now, crashes, lanes, deleting>>

\* A waiting clear wakes up after the signal settled and resets the context.
ResetContext(s) ==
    /\ clear[s] = "waiting"
    /\ stop[s] = "none"
    /\ clear' = [clear EXCEPT ![s] = "none"]
    /\ UNCHANGED <<durable, proc, now, crashes, lanes, deleting, stop>>

\* STOP_SETTLE_TIMEOUT_S: the caller gives up, the lane goes on stopping.
StopTimesOut(s) ==
    /\ clear[s] = "waiting"
    /\ stop[s] # "none"
    /\ clear' = [clear EXCEPT ![s] = "none"]
    /\ UNCHANGED <<durable, proc, now, crashes, lanes, deleting, stop>>

-----------------------------------------------------------------------------
(* Deleting a session *)

\* cancel_sessions: settle the session's rows, drop its queue, its turn entry
\* and its stop signal, cancel its loop. A turn that is still in react() goes
\* on unwinding while delete_session awaits the loop; a clear of the session
\* has no signal left to wait for.
\* Bound: one deletion of a session at a time.
BeginDelete(s) ==
    LET mine == {i \in Unfinished : row[i].session = s}
    IN  /\ "delete" \in Env
        /\ proc = "up"
        /\ s \in alive \ (deleting \cup {Main})
        /\ row' = SetStatus(row, mine \cup IdsOf(heap[s]), "DONE")
        /\ heap' = [heap EXCEPT ![s] = {}]
        /\ turn' = [turn EXCEPT ![s] = NoTurn]
        /\ dying' = [dying EXCEPT ![s] =
                       IF turn[s].phase \in {"react", "unwinding"}
                       THEN [phase |-> "react", group |-> turn[s].group]
                       ELSE NotDying]
        /\ stop' = [stop EXCEPT ![s] = "none"]
        /\ clear' = [clear EXCEPT ![s] = "none"]
        /\ deleting' = deleting \cup {s}
        /\ UNCHANGED <<lastId, alive, proc, now, crashes>>

\* The removed lane's turn ends: cancelled (nothing settles), swallowing the
\* cancellation (its rows are acked), or raising (they are nacked). The loop
\* unregisters the session's turn, which by now may be a newer lane's.
DyingTurnEnds(s) ==
    /\ dying[s].phase = "react"
    /\ \/ /\ LeaveReact(row, s, dying[s].group)
          /\ dying' = [dying EXCEPT ![s] = NotDying]
       \/ /\ LeaveReact(SetStatus(row, IdsOf(dying[s].group), "DONE"),
                        s, dying[s].group)
          /\ dying' = [dying EXCEPT ![s] = NotDying]
       \/ /\ "fail" \in Env
          /\ LeaveReact(row, s, dying[s].group)
          /\ dying' = [dying EXCEPT ![s].phase = "nacking"]
    /\ turn' = [turn EXCEPT ![s].tracked = FALSE]
    /\ UNCHANGED <<alive, proc, now, crashes, control>>

\* The loop ends when the group is settled.
DyingSettled(d, t) == IF d.group = {t} THEN NotDying
                      ELSE [d EXCEPT !.group = @ \ {t}]

DyingNack(s) ==
    /\ dying[s].phase = "nacking"
    /\ \E t \in dying[s].group :
         /\ Nack(s, t)
         /\ dying' = [dying EXCEPT ![s] = DyingSettled(@, t)]
    /\ UNCHANGED <<lastId, alive, proc, now, crashes, turn, control>>

FinishDelete(s) ==
    /\ s \in deleting
    /\ dying[s] = NotDying
    /\ deleting' = deleting \ {s}
    /\ alive' = alive \ {s}
    /\ UNCHANGED <<row, lastId, proc, now, crashes, lanes, stop, clear>>

-----------------------------------------------------------------------------
(* The process *)

StartProcess ==
    /\ proc = "down"
    /\ proc' = "boot"
    /\ UNCHANGED <<durable, now, crashes, lanes, control>>

\* TriggerService.rehydrate: orphaned claims go back to PENDING, overdue rows
\* are settled, every other pending row is dispatched, and settled rows past
\* the TTL (any, here) are deleted.
Rehydrate ==
    LET pending == Unfinished
        stale == {i \in pending : now - row[i].fireAt > StaleAge}
    IN  /\ proc = "boot"
        /\ proc' = "loaded"
        /\ \E old \in SUBSET {i \in Ids : row[i].status \in {"DONE", "DEAD"}} :
             row' = [i \in Ids |->
                       IF i \in stale THEN [row[i] EXCEPT !.status = "DONE"]
                       ELSE IF i \in pending
                            THEN [row[i] EXCEPT !.status = "PENDING"]
                       ELSE IF i \in old THEN [row[i] EXCEPT !.status = "gone"]
                       ELSE row[i]]
        /\ heap' = [s \in Sessions |-> heap[s] \cup
                      {[id |-> i, fireAt |-> row[i].fireAt,
                        copy |-> "rehydrated", carries |-> {i}] :
                          i \in {j \in pending \ stale : row[j].session = s}}]
        /\ UNCHANGED <<lastId, alive, now, crashes, turn, dying, control>>

StartLoops ==
    /\ proc = "loaded"
    /\ proc' = "up"
    /\ UNCHANGED <<durable, now, crashes, lanes, control>>

\* A crash, or SessionRuntimeManager.stop at shutdown, which leaves the rows
\* of the cancelled turns claimed.
Crash ==
    /\ "crash" \in Env
    /\ proc # "down"
    /\ crashes < MaxCrashes
    /\ proc' = "down"
    /\ crashes' = crashes + 1
    /\ heap' = [s \in Sessions |-> {}]
    /\ turn' = [s \in Sessions |-> NoTurn]
    /\ dying' = [s \in Sessions |-> NotDying]
    /\ deleting' = {}
    /\ stop' = [s \in Sessions |-> "none"]
    /\ clear' = [s \in Sessions |-> "none"]
    /\ UNCHANGED <<durable, now>>

\* The agent reset wipes the table, and only the table. The chat sessions it
\* deletes first are deletions of their own; Agent App sessions survive it.
ClearStore ==
    /\ "reset" \in Env
    /\ proc = "up"
    /\ row' = [i \in Ids |-> IF row[i].status = "free" THEN row[i]
                             ELSE [row[i] EXCEPT !.status = "gone"]]
    /\ UNCHANGED <<lastId, alive, proc, now, crashes, lanes, control>>

Tick == /\ now < MaxNow
        /\ now' = now + 1
        /\ UNCHANGED <<durable, proc, crashes, lanes, control>>

-----------------------------------------------------------------------------

\* What the event loop and the threads it waits for do on their own.
Progress(s) ==
    \/ Claim(s) \/ Unfence(s) \/ Admit(s)
    \/ TurnReturns(s) \/ TurnRaises(s) \/ TurnUnwinds(s)
    \/ Ack(s) \/ NackOne(s)
    \/ KillDone(s) \/ AckStopped(s) \/ StopSettles(s) \/ FenceSettles(s)
    \/ ResetContext(s)
    \/ DyingTurnEnds(s) \/ DyingNack(s) \/ FinishDelete(s)

Boot == StartProcess \/ Rehydrate \/ StartLoops

Next ==
    \/ \E s \in Sessions :
         \/ \E kind \in Kinds, delay \in Delays : Emit(s, kind, delay)
         \/ Progress(s)
         \/ RequestStop(s)
         \/ ClearSession(s)
         \/ StopTimesOut(s)
         \/ BeginDelete(s)
    \/ Boot
    \/ Crash
    \/ ClearStore
    \/ Tick

Spec == Init /\ [][Next]_vars

\* A turn returns, the executor answers, time passes and the process comes
\* back; emits, stops, deletions and crashes need not happen.
Fairness ==
    /\ \A s \in Sessions :
         /\ WF_vars(Claim(s)) /\ WF_vars(Unfence(s)) /\ WF_vars(Admit(s))
         /\ WF_vars(TurnReturns(s) \/ TurnRaises(s) \/ TurnUnwinds(s))
         /\ WF_vars(Ack(s) \/ NackOne(s) \/ AckStopped(s))
         /\ WF_vars(KillDone(s)) /\ WF_vars(StopSettles(s))
         /\ WF_vars(FenceSettles(s)) /\ WF_vars(ResetContext(s))
         /\ WF_vars(DyingTurnEnds(s) \/ DyingNack(s))
         /\ WF_vars(FinishDelete(s))
    /\ WF_vars(Boot)
    /\ WF_vars(Tick)

FairSpec == Spec /\ Fairness

-----------------------------------------------------------------------------
(* Safety *)

\* Triggers the session's lane holds for its rows.
Held(s) == heap[s] \cup turn[s].group

\* Once the boot's recovery is done, no unfinished row waits for a restart:
\* every PENDING or CLAIMED row has a trigger in its own session's lane
\* ("from that point a crash anywhere loses nothing", service.py emit).
NoStrandedRow ==
    proc \in {"loaded", "up"} =>
        \A i \in Ids : Active(i) => i \in IdsOf(Held(row[i].session))

\* No row is delivered by two triggers ("exactly one claimant per row",
\* store.py claim).
OneCarrier ==
    \A s \in Sessions :
        /\ \A t, u \in Held(s) : t.id = u.id => t = u
        /\ heap[s] \cap turn[s].group = {}

\* What a turn has not settled yet, it has claimed: nothing settles, retries
\* or resurrects a row behind the back of the turn that runs it.
RunsOnlyClaimed ==
    \A s \in Sessions : \A t \in turn[s].group : row[t.id].status = "CLAIMED"

\* The dedup index: no two unfinished rows with one key, retries included.
UniqueKeys ==
    \A i \in Ids : Active(i) => ~KeyTaken(row, i, row[i].key)

\* A row is parked only after MAX_ATTEMPTS claims, however often the process
\* died in between (service.py nack).
ParkedWereTried ==
    \A i \in Ids : row[i].status = "DEAD" => row[i].attempts >= MaxAttempts

\* The rows a turn's text describes, merges of earlier failed turns included.
Content(s) == UNION {t.carries : t \in turn[s].group}

\* A fix mission shares its turn with nothing, and no turn mixes the messages
\* of two contacts (EXCLUSIVE_SOURCES, _compatible_message_origins).
TurnsAreApart ==
    \A s \in Sessions : \A i, j \in Content(s) :
        /\ row[i].source = Exclusive => i = j
        /\ row[i].origin = row[j].origin

-----------------------------------------------------------------------------
(* What a step may never do *)

\* While a stop of a session is settling, none of its turns starts.
StartsTurn(s) == turn[s].phase # "react" /\ turn'[s].phase = "react"
FenceHolds == [][\A s \in Sessions : StartsTurn(s) => stop[s] = "none"]_vars

\* When a stop has settled, nothing of the stopped run is left to continue.
StopEndsRun ==
    [][\A s \in Sessions : StopSettles(s) =>
          \A i \in Ids : (row[i].session = s /\ row[i].source = Continuation)
                          => row'[i].status \notin ActiveStatus]_vars

\* Queued work that is not a run's continuation is dropped only with its
\* session or by being stale at boot, never by a stop ("User messages and
\* scheduled triggers stay queued", runtime.py request_stop).
QueuedWorkIsKept ==
    [][\A i \in Ids :
          /\ row[i].status = "PENDING"
          /\ row'[i].status \notin ActiveStatus
          /\ row[i].source # Continuation
          => \/ row[i].session \in deleting' \ deleting
             \/ proc = "boot" /\ now - row[i].fireAt > StaleAge]_vars

\* A clear of a parked run resets the context before any fresh turn starts
\* (tests/test_session_clear.py, the parked-run test).
Reacting(s) == turn[s].phase \in {"react", "unwinding"}
ParkedResetIsQuiet ==
    [][\A s \in Sessions :
          FenceSettles(s) /\ clear[s] = "owner" => ~Reacting(s)]_vars

-----------------------------------------------------------------------------
(* What must happen *)

\* Every accepted trigger is eventually done, parked or deleted.
EveryTriggerSettles == \A i \in Ids : Active(i) ~> ~Active(i)

\* A stop that was requested settles, and a clear that waits for it ends.
StopsSettle == \A s \in Sessions : stop[s] # "none" ~> stop[s] = "none"
ClearsEnd == \A s \in Sessions : clear[s] # "none" ~> clear[s] = "none"

-----------------------------------------------------------------------------
(* The promise it keeps *)

WorkOf(status) ==
    CASE status = "free" -> "absent"
      [] status = "PENDING" -> "waiting"
      [] status = "CLAIMED" -> "leased"
      [] status = "DONE" -> "settled"
      [] status = "DEAD" -> "parked"
      [] status = "gone" -> "forgotten"

Promise == INSTANCE DurableWork
    WITH MinTries <- MaxAttempts,
         work <- [i \in Ids |-> WorkOf(row[i].status)],
         tries <- [i \in Ids |-> row[i].attempts]

\* Without boot-time emits, deletions and resets, the plane implements DurableWork.
KeepsPromise == Promise!WorkSpec

-----------------------------------------------------------------------------
(* A claim of the code's documentation that it does not keep *)

\* "callers must not reset context while old work can still write to it"
\* (runtime.py): no turn of the session runs when a clear resets it.
ResetIsQuiet ==
    [][\A s \in Sessions : ResetContext(s) => ~Reacting(s)]_vars
=============================================================================
