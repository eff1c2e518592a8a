------------------------------ MODULE FactoryArc ------------------------------
(***************************************************************************)
(* The supervised work on one Agent App: its arc (factory/engine/          *)
(* machine.py), the host that acts on outcome reports and the supervisor   *)
(* (factory/host_craftbot.py), with the app's session as the trigger plane *)
(* drives it and the user who asks, answers and stops.                     *)
(*                                                                         *)
(* Arcs of different apps share nothing. Everything runs on the event      *)
(* loop; the arc is saved by every step that changes it, the session's     *)
(* triggers are rows of the trigger table, and a mission that was          *)
(* dispatched but whose emit task has not run yet is only in memory.       *)
(***************************************************************************)
EXTENDS Integers

CONSTANTS
    MissionsCap,  \* MISSIONS_CAP
    StallsCap,    \* STALLS_CAP
    Backoff,      \* Backoff[n]: BACKOFF_S, in ticks
    MaxIdle,      \* bound: longer idle times are not told apart
    Env,          \* which of EnvOps happen
    MaxQueued,    \* bound: missions dispatched and not started
    MaxRequests,  \* bound: triggers of users and others
    MaxCrashes    \* bound: process deaths

\* "other": triggers that neither a user nor the arc caused, such as requests
\* of the app itself.
EnvOps == {"other"}

ASSUME CapsAssumption ==
    /\ MissionsCap \in Nat /\ StallsCap \in Nat \ {0}
    /\ Env \subseteq EnvOps
    /\ {MaxQueued, MaxRequests, MaxCrashes} \subseteq Nat

\* 20, 60 and 180 s in the code, one for every number of stalls that is
\* below STALLS_CAP.
ASSUME BackoffAssumption ==
    /\ MaxIdle \in Nat
    /\ Backoff \in [0..(StallsCap - 1) -> 1..MaxIdle]

VARIABLES
    arc,       \* arc.json
    idle,      \* time since last_activity_at
    \* --- the process
    up,        \* whether it is up
    emitting,  \* dispatched missions whose emit task has not run
    opening,   \* start_development_run has opened the arc, not yet emitted
    \* --- the app's session
    missions,  \* queued missions, which run alone
    others,    \* other kinds of triggers in the queue
    turn,      \* what the turn in flight was started by
    stopping,  \* a stop has cancelled the turn and holds the lane
    unacked,   \* what started the turn that a stop ended, still claimed
    \* --- bounds
    requests, crashes,
    \* --- history, not part of the program
    stopped,   \* whether a stop that settled stands, and what it left behind
    empty      \* resumes since the last evidence of work

queue == <<missions, others>>
lane == <<turn, stopping, unacked>>
session == <<queue, lane>>
bounds == <<requests, crashes>>
vars == <<arc, idle, up, emitting, opening, session, bounds, stopped, empty>>

\* Triggers that merge into one turn.
Kinds == {"user", "other", "continuation"}

\* What a turn can be started by: nothing, a batch, or a mission alone.
Turns == (SUBSET Kinds) \cup {{"mission"}}

\* The kind (build or modify) and the phase of an arc steer no decision.
Arc == [open : BOOLEAN, paused : {"no", "user", "question"}, spent : Nat,
        stalls : Nat, retried : BOOLEAN]

\* _fresh(): the arc "none".
NoArc == [open |-> FALSE, paused |-> "no", spent |-> 0, stalls |-> 0,
          retried |-> FALSE]

\* What is known of the last stop: none stands, it left no mission dispatched,
\* or missions were behind the run it stopped.
Stops == {"no", "clean", "behind"}

\* Absence is explicit: an arc that is not open keeps nothing.
TypeOK ==
    /\ arc \in Arc
    /\ ~arc.open => arc = NoArc
    /\ idle \in 0..MaxIdle
    /\ up \in BOOLEAN
    /\ emitting \in Nat
    /\ opening \in BOOLEAN
    /\ missions \in Nat
    /\ others \in SUBSET Kinds
    /\ turn \in Turns
    /\ stopping \in BOOLEAN
    /\ unacked \in Turns
    /\ unacked # {} => stopping /\ turn = {}
    /\ requests \in 0..MaxRequests
    /\ crashes \in 0..MaxCrashes
    /\ stopped \in Stops
    /\ empty \in Nat

Init == /\ arc = NoArc /\ idle = MaxIdle
        /\ up = TRUE
        /\ emitting = 0 /\ opening = FALSE
        /\ missions = 0 /\ others = {}
        /\ turn = {} /\ stopping = FALSE /\ unacked = {}
        /\ requests = 0 /\ crashes = 0
        /\ stopped = "no" /\ empty = 0

-----------------------------------------------------------------------------
(* The arc *)

Touch == idle' = 0

\* Mutation of Opened: asking again starts over.
OpenedAnew == [NoArc EXCEPT !.open = TRUE]

\* Arc.open: a fresh arc, or the open one without its pause.
Opened == IF arc.open THEN [arc EXCEPT !.paused = "no"]
                      ELSE [NoArc EXCEPT !.open = TRUE]

\* Arc.close: delivered, stuck or blocked, and announced.
Close == /\ arc' = NoArc /\ idle' = MaxIdle
         /\ stopped' = "no" /\ empty' = 0

\* evidence_of_work
Progressed(a) == [a EXCEPT !.stalls = 0]
ShowsWork == Touch /\ empty' = 0

\* Mutation of Dispatched: the idle clock is not restarted.
DispatchedIdle(a) ==
    /\ arc' = [a EXCEPT !.spent = @ + 1]
    /\ emitting' = emitting + 1
    /\ UNCHANGED idle

\* _emit_mission: a task that will emit the trigger, and mission_dispatched.
Dispatched(a) ==
    /\ arc' = [a EXCEPT !.spent = @ + 1]
    /\ emitting' = emitting + 1
    /\ Touch

-----------------------------------------------------------------------------
(* Requests *)

Asks == up /\ requests < MaxRequests /\ requests' = requests + 1

\* start_development_run (a build, an import, an update from the UI) opens the
\* arc, then awaits a broadcast ...
StartRun ==
    /\ Asks
    /\ ~opening
    /\ arc' = Opened /\ Touch
    /\ opening' = TRUE
    /\ stopped' = "no"
    /\ UNCHANGED <<up, emitting, session, crashes, empty>>

\* ... and emits the run's trigger, or fails to.
StartRunEmits ==
    /\ up /\ opening
    /\ opening' = FALSE
    /\ others' \in {others, others \cup {"user"}}
    /\ UNCHANGED <<arc, idle, up, emitting, missions, lane, bounds, stopped,
                   empty>>

\* A message to the app's session, or its Continue button; or another trigger.
Arrives(kind) ==
    /\ kind = "other" => "other" \in Env
    /\ Asks
    /\ others' = others \cup {kind}
    /\ UNCHANGED <<arc, idle, up, emitting, opening, missions, lane, crashes,
                   stopped, empty>>

EmitLands ==
    /\ up /\ emitting > 0
    /\ emitting' = emitting - 1
    /\ missions' = missions + 1
    /\ UNCHANGED <<arc, idle, up, opening, others, lane, bounds, stopped, empty>>

\* The emit task raises: nobody looks at it.
EmitFails ==
    /\ up /\ emitting > 0
    /\ emitting' = emitting - 1
    /\ UNCHANGED <<arc, idle, up, opening, session, bounds, stopped, empty>>

-----------------------------------------------------------------------------
(* Turns of the session *)

\* The consumer takes nothing while a turn runs or a stop settles.
LaneIsFree == up /\ turn = {} /\ ~stopping

\* A stop no longer stands when a mission behind it is under way.
StopAfterMission == IF stopped = "behind" THEN "no" ELSE stopped

\* Mutation of StartMission: that a mission starts is taken for progress.
StartMissionProgress ==
    /\ LaneIsFree /\ missions > 0
    /\ missions' = missions - 1
    /\ turn' = {"mission"}
    /\ IF arc.open THEN arc' = Progressed(arc) /\ Touch ELSE UNCHANGED <<arc, idle>>
    /\ stopped' = StopAfterMission
    /\ UNCHANGED <<up, emitting, opening, others, stopping, unacked, bounds, empty>>

\* A mission runs alone; mission_run_started restarts the idle clock.
StartMission ==
    /\ LaneIsFree /\ missions > 0
    /\ missions' = missions - 1
    /\ turn' = {"mission"}
    /\ idle' = IF arc.open THEN 0 ELSE idle
    /\ stopped' = StopAfterMission
    /\ UNCHANGED <<arc, up, emitting, opening, others, stopping, unacked, bounds,
                   empty>>

\* What is due merges. A queued request that starts stands against a stop.
StartBatch ==
    /\ LaneIsFree
    /\ turn' \in (SUBSET others) \ {{}}
    /\ others' = others \ turn'
    /\ stopped' = IF "user" \in turn' THEN "no" ELSE stopped
    /\ UNCHANGED <<arc, idle, up, emitting, opening, missions, stopping, unacked,
                   bounds, empty>>

\* A turn that was cancelled goes on until it has unwound.
Working == up /\ turn # {}

\* agent_app_notify_ready opens the dev environment and, before that, the arc.
OpenDev ==
    /\ Working
    /\ arc' = Opened /\ Touch
    /\ UNCHANGED <<up, emitting, opening, session, bounds, stopped, empty>>

LaunchSuccess ==
    /\ Working /\ arc.open
    /\ arc' = Progressed(arc) /\ ShowsWork
    /\ UNCHANGED <<up, emitting, opening, session, bounds, stopped>>

\* A cause ruled out or a verdict disputed that was not on record yet.
Finding ==
    /\ Working /\ arc.open
    /\ arc' = Progressed(arc) /\ ShowsWork
    /\ UNCHANGED <<up, emitting, opening, session, bounds, stopped>>

\* The verifier passed the app, or could not judge it: it is announced.
Delivered ==
    /\ Working /\ arc.open
    /\ Close
    /\ UNCHANGED <<up, emitting, opening, session, bounds>>

\* The first unreadable verdict asks for another, the second one is the end.
Unparseable ==
    /\ Working /\ arc.open
    /\ \/ arc.retried /\ Close
       \/ /\ ~arc.retried
          /\ arc' = [arc EXCEPT !.paused = "no", !.retried = TRUE] /\ Touch
          /\ UNCHANGED <<stopped, empty>>
    /\ UNCHANGED <<up, emitting, opening, session, bounds>>

\* record_round
Found == Progressed([arc EXCEPT !.paused = "no", !.retried = FALSE])

\* Mutation of Defects: the wallet is looked at too late.
DefectsUnpaid ==
    /\ Working /\ arc.open
    /\ emitting + missions < MaxQueued
    /\ Dispatched(Found)
    /\ empty' = 0
    /\ UNCHANGED <<up, opening, session, bounds, stopped>>

\* The verifier saw defects: a fix mission, as long as the wallet pays it.
Defects ==
    /\ Working /\ arc.open
    /\ \/ /\ arc.spent >= MissionsCap
          /\ Close
          /\ UNCHANGED emitting
       \/ /\ arc.spent < MissionsCap
          /\ emitting + missions < MaxQueued
          /\ Dispatched(Found)
          /\ empty' = 0
          /\ UNCHANGED stopped
    /\ UNCHANGED <<up, opening, session, bounds>>

\* report_blocked: only the user can decide.
Blocked ==
    /\ Working /\ arc.open
    /\ Close
    /\ UNCHANGED <<up, emitting, opening, session, bounds>>

\* The turn ends: its triggers are acknowledged, by the stop if there is one.
TurnLeaves == /\ turn' = {}
              /\ unacked' = IF stopping THEN turn ELSE {}
              /\ UNCHANGED stopping

\* The turn enqueues the run's next turn.
Continues ==
    /\ Working
    /\ TurnLeaves
    /\ others' = others \cup {"continuation"}
    /\ UNCHANGED <<arc, idle, up, emitting, opening, missions, bounds, stopped,
                   empty>>

\* on_run_end: the run that ends after a question answered it.
RunEnds ==
    /\ Working
    /\ TurnLeaves
    /\ IF arc.paused = "question"
       THEN arc' = [arc EXCEPT !.paused = "no"] /\ Touch
       ELSE UNCHANGED <<arc, idle>>
    /\ UNCHANGED <<up, emitting, opening, queue, bounds, stopped, empty>>

\* on_run_end with awaiting_answer.
RunAwaits ==
    /\ Working
    /\ TurnLeaves
    /\ arc' = IF arc.open THEN [arc EXCEPT !.paused = "question"] ELSE arc
    /\ UNCHANGED <<idle, up, emitting, opening, queue, bounds, stopped, empty>>

\* No run end is reported: the run waits at the limit prompt, a fatal error
\* halted it, its trigger has used up its attempts, or the cancellation of a
\* stop unwound the turn.
RunHalts ==
    /\ Working
    /\ TurnLeaves
    /\ UNCHANGED <<arc, idle, up, emitting, opening, queue, bounds, stopped, empty>>

\* Triggers that were claimed are queued again.
Requeued(rows) ==
    /\ missions' = missions + (IF "mission" \in rows THEN 1 ELSE 0)
    /\ others' = others \cup (rows \ {"mission"})

\* nack. A turn that fails under a stop ends as a stopped one.
TurnFails ==
    /\ Working /\ ~stopping
    /\ TurnLeaves
    /\ Requeued(turn)
    /\ UNCHANGED <<arc, idle, up, emitting, opening, bounds, stopped, empty>>

-----------------------------------------------------------------------------
(* The user's stop *)

\* pause_by_user
PausedByUser == IF arc.open /\ arc.paused = "no"
                THEN [arc EXCEPT !.paused = "user"] ELSE arc

\* What a stop that settles now leaves behind it.
Standing == IF ~arc.open THEN "no"
            ELSE IF emitting + missions = 0 THEN "clean" ELSE "behind"

\* Mutation of RunStopped: the stop is not recorded.
RunStoppedForgets ==
    /\ UNCHANGED arc
    /\ stopped' = Standing

\* _on_run_stopped records the intent.
RunStopped ==
    /\ arc' = PausedByUser
    /\ stopped' = Standing

\* request_stop purges the continuations and cancels the turn in flight. The
\* arc is not paused yet: once the turn has left, nothing of the app is in
\* flight for the supervisor until the stop settles.
UserStop ==
    /\ Working /\ ~stopping
    /\ stopping' = TRUE
    /\ others' = others \ {"continuation"}
    /\ UNCHANGED <<arc, idle, up, emitting, opening, missions, turn, unacked,
                   bounds, stopped, empty>>

\* The consumer, after the turn and the kill worker: the triggers are
\* acknowledged and what the dying turn enqueued is purged.
StopSettles ==
    /\ up /\ stopping /\ turn = {}
    /\ stopping' = FALSE /\ unacked' = {}
    /\ others' = others \ {"continuation"}
    /\ RunStopped
    /\ UNCHANGED <<idle, up, emitting, opening, missions, turn, bounds, empty>>

\* request_stop between two turns of a run, in one go.
ParkedStop ==
    /\ LaneIsFree
    /\ "continuation" \in others
    /\ others' = others \ {"continuation"}
    /\ RunStopped
    /\ UNCHANGED <<idle, up, emitting, opening, missions, lane, bounds, empty>>

-----------------------------------------------------------------------------
(* The supervisor *)

\* is_session_active
InFlight == turn # {} \/ missions > 0 \/ others # {}

\* _tick_project up to the dispatch. Every run end, opened arc and minute has
\* the supervisor look.
Overdue == /\ up
           /\ arc.open /\ arc.paused = "no"
           /\ ~InFlight
           /\ idle >= Backoff[arc.stalls]

Exhausted == arc.stalls + 1 >= StallsCap \/ arc.spent >= MissionsCap

\* bump_stall and _dispatch_resume
Resume ==
    /\ Overdue /\ ~Exhausted
    /\ Dispatched([arc EXCEPT !.stalls = @ + 1])
    /\ empty' = empty + 1
    /\ UNCHANGED <<up, opening, session, bounds, stopped>>

\* _announce_stuck
GiveUp ==
    /\ Overdue /\ Exhausted
    /\ Close
    /\ UNCHANGED <<up, emitting, opening, session, bounds>>

-----------------------------------------------------------------------------
(* The process and the clock *)

\* The claimed rows are reclaimed at the next boot, also those of a turn that a
\* stop has ended; that stop is not on record.
Crash ==
    /\ up /\ crashes < MaxCrashes
    /\ up' = FALSE
    /\ crashes' = crashes + 1
    /\ emitting' = 0 /\ opening' = FALSE
    /\ turn' = {} /\ stopping' = FALSE /\ unacked' = {}
    /\ Requeued(turn \cup unacked)
    /\ UNCHANGED <<arc, idle, requests, stopped, empty>>

\* The supervisor is started when the queues are filled again.
Boot ==
    /\ ~up
    /\ up' = TRUE
    /\ UNCHANGED <<arc, idle, emitting, opening, session, bounds, stopped, empty>>

\* A tick is 20 s: tasks that are ready run before it is over.
Tick ==
    /\ emitting = 0 /\ ~opening
    /\ idle < MaxIdle
    /\ idle' = idle + 1
    /\ UNCHANGED <<arc, up, emitting, opening, session, bounds, stopped, empty>>

RunOver == RunEnds \/ RunAwaits \/ RunHalts

Next ==
    \/ StartRun \/ StartRunEmits \/ Arrives("user") \/ Arrives("other")
    \/ EmitLands \/ EmitFails
    \/ StartMission \/ StartBatch
    \/ OpenDev \/ LaunchSuccess \/ Finding
    \/ Delivered \/ Unparseable \/ Defects \/ Blocked
    \/ Continues \/ RunOver \/ TurnFails
    \/ UserStop \/ StopSettles \/ ParkedStop
    \/ Resume \/ GiveUp
    \/ Crash \/ Boot \/ Tick

Spec == Init /\ [][Next]_vars

\* The event loop runs what is ready, the kill worker answers a stop, a dead
\* process is started again, and every run is over some time: the action and
\* token limits park it and the attempts of a trigger are counted.
Fairness ==
    /\ WF_vars(StartRunEmits)
    /\ WF_vars(EmitLands \/ EmitFails)
    /\ WF_vars(StartMission \/ StartBatch)
    /\ SF_vars(RunOver)
    /\ WF_vars(StopSettles)
    /\ WF_vars(Resume \/ GiveUp)
    /\ WF_vars(Boot)
    /\ WF_vars(Tick)

FairSpec == Spec /\ Fairness

-----------------------------------------------------------------------------
(* Properties *)

\* "A wallet, not a verdict" (machine.py, MISSIONS_CAP): the missions of an
\* arc, fixes and resumes together, across re-entries, pauses and restarts,
\* never exceed the cap; and an arc that is open still has a backoff.
WithinBudget == arc.open => arc.spent <= MissionsCap /\ arc.stalls < StallsCap

\* "Consecutive supervisor dispatches with no evidence of work between them"
\* (machine.py, STALLS_CAP) come to an end, whatever the process goes through
\* and however often the missions that achieve nothing re-enter the arc.
NoEmptyLoop == empty < StallsCap

\* The supervisor never adds a mission to work that is going on, that waits in
\* the queue, or that was dispatched an instant ago and is not queued yet.
OneResumeAtATime ==
    [][Resume => emitting = 0 /\ ~opening /\ missions = 0 /\ others = {}
                 /\ turn = {}]_vars

\* "A paused arc never auto-resumes; asking for the work again is the resume"
\* (host_craftbot.py, pause_by_user): while a stop that settled stands, the
\* supervisor dispatches nothing, and no mission starts unless one was already
\* dispatched when the stop settled; whatever the dying turn reported, enqueued
\* or left claimed, and whether a restart came in between.
StopHolds ==
    [][/\ Resume => stopped = "no"
       /\ StartMission => stopped # "clean"]_vars

\* No arc is frozen: open and not paused, it is delivered, given up or paused
\* some time, through lost emits, runs that halt, stops and restarts.
ArcSettles ==
    arc.open /\ arc.paused = "no" ~> ~arc.open \/ arc.paused # "no"

-----------------------------------------------------------------------------
(* Claims of the code's documentation that it does not keep *)

\* The supervisor's "work IS in flight; nothing to conclude" (host_craftbot.py,
\* _tick_project): it dispatches nothing while a stop is settling.
StopIsNotOvertaken == [][Resume => ~stopping]_vars

\* "A paused arc never auto-resumes" (machine.py): no mission starts after a
\* stop unless the user asks again, not even one that the supervisor dispatched
\* while the stop was settling, or that was queued before.
StopIsFinal == [][StartMission => stopped = "no"]_vars
=============================================================================
