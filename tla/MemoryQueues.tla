----------------------------- MODULE MemoryQueues -----------------------------
(***************************************************************************)
(* Messages on their way to long-term memory: every session's queue file   *)
(* EVENT_UNPROCESSED.md (event_stream/manager.py), the staging file a      *)
(* memory run works from (app/memory/unprocessed_queue.py), and the memory *)
(* run itself as turns of the main session (agent_base.py).                *)
(*                                                                         *)
(* The event loop runs the agent; the actions of a turn run in pool        *)
(* threads. Memory is enabled throughout, and a claimed trigger is settled *)
(* with its turn (TriggerPlane has the steps in between).                  *)
(***************************************************************************)
EXTENDS Integers, Sequences, FiniteSets

CONSTANTS
    Sessions,    \* session ids
    Main,        \* the main session, where memory runs happen
    Env,         \* which of EnvOps happen
    MaxEvents,   \* bound: messages ever logged
    MaxQueue     \* bound: triggers waiting in the main session

\* "again": a memory trigger while main has work; "user": messages to main;
\* "error", "limit": how its turns may end; "stop", "foreign_stop": the user
\* stops main's or another session's run; "clear": the UI's clear buffer;
\* "delete": of a session; "thread": an action of another session logs a
\* message from its pool thread; "tear": a file being written is seen half
\* written; "rotate": a queue file is over its size limit.
EnvOps == {"again", "user", "error", "limit", "stop", "foreign_stop", "crash",
           "clear", "delete", "thread", "tear", "rotate"}

ASSUME MainAssumption == Main \in Sessions
ASSUME OpsAssumption == Env \subseteq EnvOps
ASSUME LimitsAssumption == MaxEvents \in Nat /\ MaxQueue \in Nat

\* Messages of users and agents, numbered in the order of their time stamps.
Events == 1..MaxEvents

VARIABLES
    \* --- files
    queue,      \* queue[s]: events in the session's EVENT_UNPROCESSED.md
    staging,    \* events in the staging file
    staged,     \* whether the staging file exists
    distilled,  \* events that MEMORY.md takes account of
    last,       \* the latest event
    alive,      \* sessions that have a workspace directory
    \* --- the agent
    snapshot,   \* _memory_run_snapshot: the queues that were staged
    frozen,     \* _skip_unprocessed_logging
    waiting,    \* triggers in the main session's queue, by arrival
    asleep,     \* its continuation that is not due yet
    group,      \* triggers of the main session's turn
    tagged,     \* whether the turn's payload says run_source = memory
    paused,     \* the Continue/Stop prompt of a run that hit a limit is open
    \* --- inside a synchronous stretch of the event loop, and in a thread
    loop,       \* "free", "prepare" or "reconcile"
    read,       \* read[s]: queue contents the stretch has read
    batch,      \* distilled events not yet deleted from the staging file
    edit        \* what a thread is about to write to the staging file

files == <<queue, staging, staged, distilled, last, alive>>
lane == <<waiting, asleep, group, tagged, paused>>
vars == <<files, snapshot, frozen, lane, loop, read, batch, edit>>

\* A continuation carries run_source = memory ("memory_run") or not ("run").
Continuations == {"run", "memory_run"}
Triggers == {"memory", "user"} \cup Continuations
Nothing == [s \in Sessions |-> {}]
Idle == [writing |-> FALSE, left |-> {}]

TypeOK ==
    /\ queue \in [Sessions -> SUBSET (1..last)]
    /\ staging \in SUBSET (1..last)
    /\ staged \in BOOLEAN /\ (~staged => staging = {})
    /\ distilled \in SUBSET (1..last)
    /\ last \in 0..MaxEvents
    /\ alive \in SUBSET Sessions
    /\ snapshot \in SUBSET Sessions
    /\ frozen \in BOOLEAN
    /\ waiting \in Seq(Triggers)
    /\ asleep \in Continuations \cup {"none"}
    /\ group \in Seq(Triggers)
    /\ tagged \in BOOLEAN
    /\ paused \in BOOLEAN
    /\ loop \in {"free", "prepare", "reconcile"}
    /\ read \in [Sessions -> SUBSET (1..last)]
    /\ batch \in SUBSET distilled
    /\ edit \in [writing : BOOLEAN, left : SUBSET (1..last)]

Init == /\ queue = Nothing
        /\ staging = {} /\ staged = FALSE
        /\ distilled = {}
        /\ last = 0
        /\ alive = Sessions
        /\ snapshot = {} /\ frozen = FALSE
        /\ waiting = <<>> /\ asleep = "none"
        /\ group = <<>> /\ tagged = FALSE /\ paused = FALSE
        /\ loop = "free" /\ read = Nothing
        /\ batch = {} /\ edit = Idle

-----------------------------------------------------------------------------
(* Logging *)

\* rotate_md_file_if_needed drops the oldest third of the file.
Rotated(q) == {e \in q : Cardinality({d \in q : d < e})
                            >= Cardinality(q) \div 3}

\* _log_to_files: the next event enters s's queue unless logging is frozen.
Log(s) ==
    /\ last < MaxEvents
    /\ last' = last + 1
    /\ \/ frozen /\ UNCHANGED queue
       \/ ~frozen /\ queue' = [queue EXCEPT ![s] = @ \cup {last + 1}]
       \/ /\ ~frozen /\ "rotate" \in Env
          /\ queue' = [queue EXCEPT ![s] = Rotated(@) \cup {last + 1}]

\* A message of a run of session s, on the event loop. The other sessions'
\* runs are not modelled further.
Say(s) ==
    /\ loop = "free"
    /\ s \in alive
    /\ s = Main => group # <<>>
    /\ Log(s)
    /\ UNCHANGED <<staging, staged, distilled, alive, snapshot, frozen, lane,
                   loop, read, batch, edit>>

\* record_outgoing_message: an integration action records its message in the
\* main session's stream, from the pool thread it runs in.
SayFromThread ==
    /\ "thread" \in Env
    /\ Log(Main)
    /\ UNCHANGED <<staging, staged, distilled, alive, snapshot, frozen, lane,
                   loop, read, batch, edit>>

-----------------------------------------------------------------------------
(* The main session's triggers *)

\* A trigger is emitted into the session's queue, on the event loop.
Enqueued(t) ==
    /\ loop = "free"
    /\ Len(waiting) < MaxQueue
    /\ waiting' = Append(waiting, t)

\* The schedule, the startup check or the user's Process Memory button.
MemoryDue ==
    /\ "again" \in Env \/ (group = <<>> /\ waiting = <<>> /\ asleep = "none")
    /\ Enqueued("memory")
    /\ UNCHANGED <<files, snapshot, frozen, asleep, group, tagged, paused,
                   loop, read, batch, edit>>

UserMessage ==
    /\ "user" \in Env
    /\ Enqueued("user")
    /\ UNCHANGED <<files, snapshot, frozen, asleep, group, tagged, paused,
                   loop, read, batch, edit>>

\* A continuation's fire_at has come: later arrivals are behind it.
Wake ==
    /\ asleep # "none"
    /\ Enqueued(asleep)
    /\ asleep' = "none"
    /\ UNCHANGED <<files, snapshot, frozen, group, tagged, paused, loop, read,
                   batch, edit>>

\* Messages of users enter the stream when their turn starts (a batch of them
\* is one event here).
LogUserMessages(triggers) ==
    IF \E i \in DOMAIN triggers : triggers[i] = "user"
    THEN Log(Main) ELSE UNCHANGED <<last, queue>>

\* A turn without a memory trigger at its base: everything that waits is
\* merged, and only the base's payload decides about run_source.
ClaimOther ==
    /\ loop = "free" /\ group = <<>>
    /\ waiting # <<>> /\ Head(waiting) # "memory"
    /\ LogUserMessages(waiting)
    /\ group' = waiting /\ waiting' = <<>>
    /\ tagged' = (Head(waiting) = "memory_run")
    /\ UNCHANGED <<staging, staged, distilled, alive, snapshot, frozen, asleep,
                   paused, loop, read, batch, edit>>

\* build_staging: read every queue and write the staging file, if there is
\* anything to write. The turn goes on synchronously.
ClaimMemory ==
    /\ loop = "free" /\ group = <<>>
    /\ waiting # <<>> /\ Head(waiting) = "memory"
    /\ group' = waiting /\ waiting' = <<>>
    /\ loop' = "prepare" /\ read' = queue
    /\ \/ queue = Nothing /\ UNCHANGED <<staging, staged>>
       \/ /\ queue # Nothing
          /\ staging' = UNION {queue[s] : s \in Sessions}
          /\ staged' = TRUE
    /\ UNCHANGED <<queue, distilled, last, alive, snapshot, frozen, asleep,
                   tagged, paused, batch, edit>>

Taken == {s \in Sessions : read[s] # {}}

\* Nothing to process and nothing to prune: a turn with other work goes on
\* without the memory job, a turn without any ends here.
SkipMemory ==
    /\ loop = "prepare" /\ Taken = {}
    /\ loop' = "free" /\ read' = Nothing
    /\ tagged' = FALSE
    /\ \/ Len(group) > 1 /\ LogUserMessages(group) /\ UNCHANGED group
       \/ Len(group) = 1 /\ group' = <<>> /\ UNCHANGED <<last, queue>>
    /\ UNCHANGED <<staging, staged, distilled, alive, snapshot, frozen,
                   waiting, asleep, paused, batch, edit>>

\* Mutation of StartMemory: the queues are not frozen.
StartUnfrozen ==
    /\ loop = "prepare"
    /\ loop' = "free" /\ read' = Nothing
    /\ snapshot' = Taken
    /\ tagged' = TRUE /\ batch' = {}
    /\ LogUserMessages(group)
    /\ UNCHANGED <<staging, staged, distilled, alive, frozen, waiting, asleep,
                   group, paused, edit>>

\* The rest of _prepare_memory_run, if there are events or MEMORY.md is over
\* its size: remember the queues and freeze them, the batch's own user
\* messages included.
StartMemory ==
    /\ loop = "prepare"
    /\ loop' = "free" /\ read' = Nothing
    /\ snapshot' = Taken
    /\ frozen' = TRUE
    /\ tagged' = TRUE /\ batch' = {}
    /\ \/ "user" \notin {group[i] : i \in DOMAIN group} /\ UNCHANGED last
       \/ /\ "user" \in {group[i] : i \in DOMAIN group}
          /\ last < MaxEvents /\ last' = last + 1
    /\ UNCHANGED <<queue, staging, staged, distilled, alive, waiting, asleep,
                   group, paused, edit>>

-----------------------------------------------------------------------------
(* The memory-processor skill: save a batch to MEMORY.md, then delete it from
   the staging file. An agent that was told of the file may do so in any turn
   of the main session. *)

\* Actions run in threads, so they overlap with a reconciliation.
CanEdit == group # <<>> /\ staged /\ ~edit.writing /\ loop # "prepare"

\* The oldest events up to m.
Distill ==
    /\ CanEdit /\ batch = {}
    /\ \E m \in staging : batch' = {e \in staging : e <= m}
    /\ distilled' = distilled \cup batch'
    /\ UNCHANGED <<queue, staging, staged, last, alive, snapshot, frozen, lane,
                   loop, read, edit>>

\* stream_edit opens the file for writing, which truncates it ...
OpenStaging ==
    /\ "tear" \in Env
    /\ CanEdit /\ batch # {}
    /\ edit' = [writing |-> TRUE, left |-> staging \ batch]
    /\ staging' = {}
    /\ UNCHANGED <<queue, staged, distilled, last, alive, snapshot, frozen,
                   lane, loop, read, batch>>

\* ... and then writes it; a file that was unlinked meanwhile stays unlinked.
WriteStaging ==
    /\ edit.writing
    /\ edit' = Idle /\ batch' = {}
    /\ staging' = IF staged THEN edit.left ELSE staging
    /\ UNCHANGED <<queue, staged, distilled, last, alive, snapshot, frozen,
                   lane, loop, read>>

\* Both at once, where nobody reads in between.
DeleteBatch ==
    /\ CanEdit /\ batch # {}
    /\ staging' = staging \ batch /\ batch' = {}
    /\ UNCHANGED <<queue, staged, distilled, last, alive, snapshot, frozen,
                   lane, loop, read, edit>>

\* The staging file is gone: the edit fails.
EditFails ==
    /\ group # <<>> /\ ~staged /\ ~edit.writing /\ batch # {}
    /\ batch' = {}
    /\ UNCHANGED <<files, snapshot, frozen, lane, loop, read, edit>>

-----------------------------------------------------------------------------
(* The end of a turn and of a run *)

\* Unfreeze; with a snapshot, reconcile in the same stretch. Reconciliation
\* has read the queues when it comes to writing them.
Release ==
    /\ frozen' = FALSE
    /\ \/ snapshot = {} /\ UNCHANGED <<loop, read>>
       \/ snapshot # {} /\ loop' = "reconcile" /\ read' = queue

\* The turn's actions are finished and the loop is in react().
TurnOver == loop = "free" /\ group # <<>> /\ ~edit.writing

\* end_turn: _on_run_end looks for run_source in the last turn's payload.
RunEnds ==
    /\ TurnOver
    /\ group' = <<>> /\ tagged' = FALSE
    /\ \/ tagged /\ Release
       \/ ~tagged /\ UNCHANGED <<frozen, loop, read>>
    /\ UNCHANGED <<files, snapshot, waiting, asleep, paused, batch, edit>>

\* Mutation of Carried: run_source is not among RUN_CARRY_KEYS.
CarriedNever == "run"
Carried == IF tagged THEN "memory_run" ELSE "run"

\* _finalize_turn enqueues the run's next turn, at once or after a wait.
\* Bound: one continuation asleep.
RunContinues ==
    /\ TurnOver
    /\ group' = <<>> /\ tagged' = FALSE
    /\ \/ Enqueued(Carried) /\ UNCHANGED asleep
       \/ asleep = "none" /\ asleep' = Carried /\ UNCHANGED waiting
    /\ UNCHANGED <<files, snapshot, frozen, paused, loop, read, batch, edit>>

\* _handle_react_error: a recoverable error continues the run, with no payload.
RunRecovers ==
    /\ "error" \in Env
    /\ TurnOver
    /\ group' = <<>> /\ tagged' = FALSE
    /\ Enqueued("run")
    /\ UNCHANGED <<files, snapshot, frozen, asleep, paused, loop, read, batch,
                   edit>>

\* A fatal error halts the run: no continuation, no _on_run_end.
RunHalts ==
    /\ "error" \in Env
    /\ TurnOver
    /\ group' = <<>> /\ tagged' = FALSE
    /\ UNCHANGED <<files, snapshot, frozen, waiting, asleep, paused, loop,
                   read, batch, edit>>

\* A budget is used up: the run waits for the user's choice.
RunPauses ==
    /\ "limit" \in Env
    /\ TurnOver
    /\ group' = <<>> /\ tagged' = FALSE /\ paused' = TRUE
    /\ UNCHANGED <<files, snapshot, frozen, waiting, asleep, loop, read, batch,
                   edit>>

\* handle_limit_continue: a continuation with no payload.
LimitContinue ==
    /\ loop = "free" /\ paused
    /\ paused' = FALSE
    /\ Enqueued("run")
    /\ UNCHANGED <<files, snapshot, frozen, asleep, group, tagged, loop, read,
                   batch, edit>>

\* handle_limit_abort: only a message.
LimitAbort ==
    /\ loop = "free" /\ paused
    /\ paused' = FALSE
    /\ UNCHANGED <<files, snapshot, frozen, waiting, asleep, group, tagged,
                   loop, read, batch, edit>>

Waits(t) == t = asleep \/ \E i \in DOMAIN waiting : waiting[i] = t

\* What is left of a queue w without the continuations.
Purged(w) ==
    LET kept[n \in 0..Len(w)] ==
            IF n = 0 THEN <<>>
            ELSE IF w[n] \in Continuations THEN kept[n - 1]
            ELSE Append(kept[n - 1], w[n])
    IN  kept[Len(w)]

\* A stop of the main session: the turn ends when its actions have, its
\* continuations are purged, and _on_run_stopped releases the queues.
StopMain ==
    /\ "stop" \in Env
    /\ loop = "free" /\ ~edit.writing
    /\ group # <<>> \/ \E t \in Continuations : Waits(t)
    /\ group' = <<>> /\ tagged' = FALSE
    /\ waiting' = Purged(waiting)
    /\ asleep' = "none"
    /\ Release
    /\ UNCHANGED <<files, snapshot, paused, batch, edit>>

\* _on_run_stopped does the same whichever session was stopped.
StopOther ==
    /\ "foreign_stop" \in Env
    /\ loop = "free"
    /\ alive # {Main}
    /\ Release
    /\ UNCHANGED <<files, snapshot, lane, batch, edit>>

\* reconcile_sources keeps of a staged queue what is left in the staging file;
\* without a staging file, or a queue file, it keeps everything.
Kept(s) == read[s] \cap staging

\* Then the staging file is discarded and the snapshot forgotten.
Reconciled ==
    /\ loop = "reconcile"
    /\ queue' = [s \in Sessions |-> IF staged /\ s \in snapshot \cap alive
                                    THEN Kept(s) ELSE queue[s]]
    /\ staging' = {} /\ staged' = FALSE
    /\ snapshot' = {}
    /\ loop' = "free" /\ read' = Nothing
    /\ UNCHANGED <<distilled, last, alive, frozen, lane, batch, edit>>

-----------------------------------------------------------------------------
(* The user and the process *)

\* reset_all_queues (the UI's clear buffer).
ClearBuffer ==
    /\ "clear" \in Env
    /\ loop = "free"
    /\ queue' = Nothing
    /\ staging' = {} /\ staged' = FALSE
    /\ UNCHANGED <<distilled, last, alive, snapshot, frozen, lane, loop, read,
                   batch, edit>>

\* delete_session removes the session's workspace, its queue file included.
DeleteSession(s) ==
    /\ "delete" \in Env
    /\ loop = "free"
    /\ s \in alive \ {Main}
    /\ alive' = alive \ {s}
    /\ queue' = [queue EXCEPT ![s] = {}]
    /\ UNCHANGED <<staging, staged, distilled, last, snapshot, frozen, lane,
                   loop, read, batch, edit>>

\* The process dies and comes back: the files stay, a torn one too, and the
\* triggers of the turn are rehydrated with the payload they were stored with.
\* Bound: MaxQueue triggers wait after a crash as well.
Crash ==
    /\ "crash" \in Env
    /\ waiting' = group \o waiting \o
                    (IF asleep = "none" THEN <<>> ELSE <<asleep>>)
    /\ Len(waiting') <= MaxQueue
    /\ group' = <<>> /\ tagged' = FALSE /\ asleep' = "none"
    /\ snapshot' = {} /\ frozen' = FALSE
    /\ loop' = "free" /\ read' = Nothing
    /\ batch' = {} /\ edit' = Idle
    /\ UNCHANGED <<files, paused>>

Next ==
    \/ \E s \in Sessions : Say(s) \/ DeleteSession(s)
    \/ SayFromThread
    \/ MemoryDue \/ UserMessage \/ Wake
    \/ ClaimOther \/ ClaimMemory \/ SkipMemory \/ StartMemory
    \/ Distill \/ OpenStaging \/ WriteStaging \/ DeleteBatch \/ EditFails
    \/ RunEnds \/ RunContinues \/ RunRecovers \/ RunHalts
    \/ RunPauses \/ LimitContinue \/ LimitAbort
    \/ StopMain \/ StopOther \/ Reconciled
    \/ ClearBuffer \/ Crash

Spec == Init /\ [][Next]_vars

-----------------------------------------------------------------------------
(* Properties *)

\* "an event leaves its EVENT_UNPROCESSED.md only after it has been processed"
\* (unprocessed_queue.py, reconcile_sources), unless the user clears the
\* buffers or deletes the session.
KeptUntilDistilled ==
    [][\A s \in Sessions : \A e \in queue[s] \ queue'[s] :
          \/ e \in distilled
          \/ ClearBuffer
          \/ s \in alive \ alive']_vars

\* What a staged queue holds is in the staging file or distilled, as long as
\* the snapshot that will be reconciled against that file lives.
StagedIsCovered ==
    staged => \A s \in snapshot : queue[s] \subseteq staging \cup distilled

\* A run of the main session is going on or waits to go on.
RunAlive == \/ group # <<>> \/ paused
            \/ \E t \in Continuations : Waits(t)

\* The queues are frozen only while there is a run that may release them
\* ("release them when the run ends", agent_base.py _on_run_end).
FrozenOnlyInRun == frozen => RunAlive

\* What a memory run says does not enter a queue ("so this run's own events
\* don't loop back into them", agent_base.py _prepare_memory_run).
OwnEventsStayOut == [][Say(Main) /\ tagged => UNCHANGED queue]_vars
=============================================================================
