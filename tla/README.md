# CraftBot: formal models, model checking and proofs

TLA+ models of the parts of CraftBot whose correctness depends on the order in
which things happen: the durable trigger plane that every piece of agent work
goes through, and the components that feed it or run on it. Definitions carry
the names of the code they translate; `PROJECT.json` maps each of them to its
source lines.

## 1. The system

CraftBot is one Python process around one asyncio event loop. Everything the
agent does starts as a *trigger* (a user message, a schedule, a mail that came
in, the next step of a run) that is written to SQLite and then waits in the
queue of a *session*. A session is a conversation with its own consumer loop,
event stream and workspace; `main` always exists, chat and Agent App sessions
come and go.

| component | state it keeps | operations | talks to |
|---|---|---|---|
| Trigger store (`app/triggers/store.py`) | table `triggers` in `sessions.db`, partial unique index on `dedup_key` | insert, claim, ack, retry, mark_dead, cancel(_sessions), reclaim, load_pending, mark_stale, gc, clear_all | called by the service only |
| Trigger service (`app/triggers/service.py`) | none | emit, claim, ack, nack, rehydrate, cancel_sessions, on_evicted | store, runtime; called by every producer |
| Session queue (`agent_core/.../session_queue.py`) | heap of triggers, a condition, `closed` | put, get, pop_due_batch, purge, close | evictions are reported to the service |
| Session runtime (`app/triggers/runtime.py`) | queues, loops, turns, stop signals, turn semaphore | dispatch, request_stop, remove_session, start, stop, the consumer loop | `react`, service, stop finalizer |
| Agent (`app/agent_base.py`) | per-run flags, handles on all managers | react, finalize turn, error path, stop, clear, delete, reset, boot | everything |
| Activity ledger (`app/triggers/activity_log.py`) | table `activity_log`, in-flight set | begin, complete, gc | action executor |
| Memory queues (`app/memory/unprocessed_queue.py`, `event_stream/manager.py`) | one file per session, staging file, freeze flag, snapshot | log, build_staging, reconcile, discard, reset | memory runs in `main` |
| Scheduler (`app/scheduler/manager.py`) | schedules, one task per schedule, JSON file | add, remove, update, reload, fire | emits triggers; the config watcher calls reload |
| Factory (`app/factory/`) | one build arc per Agent App, supervisor | dispatch mission, run end, pause, resume | emits triggers, reads the runtime |
| Action framework (`agent_core/.../action/`: `executor.py`, `manager.py`, `cancellation.py`) | thread pool, process pool, in-flight actions, registered processes, marker files | execute one or a batch, time out, cancel, kill a session's processes | turns call it, a stop cancels and kills through it |
| Sub-agents (`app/subagent/`, action `spawn_subagent`) | registry of children | spawn, run to completion inside the parent's action, release | the action framework, under their own id |
| Event streams (`agent_core/.../event_stream.py`) | tail of events, summary, sync points, delivery marks | log, delta, fold, collapse, mark synced, clear | the router reads, folds and marks them |
| LLM interface (`agent_core/.../llm/interface.py`, `action/router.py`) | provider session histories, checkpoints | session request, fallback, reset, checkpoint, import | sends the stream, is saved and restored with the session |
| Session registry (`agent_core/.../session/manager.py`, `session_storage.py`) | sessions, their saved streams and provider histories | create, clear, delete, persist, restore | streams, runtime |
| Agent Apps (`app/agent_app/`: `manager.py`, `runner.py`, `instances.py`) | registry, status and process handle of each app, launch locks, reserved ports, the watchdog | create, launch, stop, delete, restart a crashed app | users and agents call it; each app is a server process of its own |
| MCP, skills, integrations, user interfaces, launcher | see PROJECT.json | | |

**What is hard.** The event loop interleaves producers, one consumer per
session, and user commands at every `await`; executor threads kill processes
and run actions meanwhile; the process may die between any two commits, and only
the SQLite tables and files survive; turns fail and are retried with a backoff;
users stop, clear and delete sessions whose work is in any of these states.

**What makes the parts correct.**

* Store and service: accepted work is neither lost nor kept forever; one row is
  carried by one trigger; keys are unique among unfinished rows; parking needs
  used-up attempts.
* Runtime: one turn per session; a stop ends the run and nothing else; no turn
  starts behind a stop; capacity is never leaked; exclusive sources run alone.
* Session commands: a context is reset only when nothing writes to it; a
  deletion leaves no lane behind.
* Ledger: an irreversible action is not repeated unnoticed.
* Memory: an event leaves its queue only after it was distilled, and every
  message reaches a queue.
* Scheduler: a one-time task fires once and is not lost; what was switched off
  stays off; every enabled schedule has one loop.
* Factory: an arc that should move has a mission or a pause, costs no more than
  its budget, and does not come back after the user stopped it.
* Streams and LLM sessions: history and remaining events make up the stream; a
  fold takes nothing the model has not read.
* Actions and sub-agents: when a stop has settled, nothing of its run goes on; it
  kills only what its run has left; every execution is recorded before the
  session goes on; sub-agents and their actions do not block each other for good.
* Agent Apps: one server process per app's data; one port per app; a restart of
  what crashed does no harm to what runs.

`PROJECT.json` lists the hazards at their source lines with the properties that
would catch them.

## 2. Modules

| module | models |
|---|---|
| `DurableWork` | the abstract promise of the trigger plane to its producers |
| `TriggerPlane` | store, service, session queues, session runtime and the agent's stop, clear, delete, reset and boot, in one state machine |
| `MCTriggerPlane` | its instances for TLC |
| `TriggerPlaneProofs` | theorems about `TriggerPlane`: types, the table, what a step may do; its turns: fences, merging, carriers, the refinement |
| `MemoryQueues` | the queues of messages for long-term memory, the staging file and the memory run |
| `MCMemoryQueues`, `MemoryQueuesProofs` | its instances and theorems |
| `ActivityLedger` | the ledger of irreversible actions and the calls that consult it |
| `MCActivityLedger`, `ActivityLedgerProofs` | its instance and theorems |
| `FactoryArc` | the build arc of one Agent App, its missions in the session's lane, the supervisor |
| `MCFactoryArc`, `FactoryArcProofs` | its instance and theorems |
| `Scheduler` | schedules in file and memory, their loops and fires, hot reload, the agent's threads |
| `MCScheduler`, `SchedulerProofs` | its instance and theorems |
| `EventStream` | a session's stream, its provider history, the router's decision and the restart |
| `MCEventStream`, `EventStreamProofs` | its instance and theorems |
| `ActionRuns` | the actions of a session's turns on loop, threads and processes, sub-agents inside them, the stop that ends them |
| `MCActionRuns`, `ActionRunsProofs` | its instance and theorems |
| `AppLife` | Agent Apps: launches, stops, deletions, the watchdog, server processes and ports |
| `MCAppLife`, `AppLifeProofs` | its instance and theorems |

### TriggerPlane

The four classes call each other synchronously, so they are one state machine;
a step is what runs between two suspension points of the event loop.

*State.* `row` is the table (a row's columns stay readable after deletion, so
that triggers in memory can be followed), `lastId` its AUTOINCREMENT counter,
`alive` the session registry. `heap[s]` is a session's queue, `turn[s]` what its
consumer loop does, `dying[s]` the turn of a lane that was removed while it ran,
`stop[s]` the `_StopSignal`, `clear[s]` and `deleting` commands in progress.
A trigger keeps `carries`, the rows whose work its text describes, because
`_merge_triggers` rewrites the base trigger in place and a retry takes that text
along; and `copy`, which tells the emitted from the rehydrated trigger of a row.

*A turn* goes through `fenced` (waits for a stop to settle), `capacity` (waits
for the semaphore), `react`, then `acking` or `nacking`; `unwinding` and
`stopping` are the way out after a stop. Rows are claimed before the first of
these. What `react` does is abstracted to what it may do to the plane: end the
run, or emit a continuation (now or after a wait), then return or raise.

*Actions and code.* `Emit` / `EmitOver` are `TriggerService.emit` with
`TriggerStore.insert`; `Claim` is `_consume` from `queue.get()` to the creation
of the turn task; `Unfence` and `Admit` are `_run_turn`; `TurnReturns`,
`TurnRaises`, `TurnUnwinds` are the ends of `react`; `Ack`, `NackOne`,
`AckStopped`, `StopSettles` are the rest of `_consume`; `StopEffects` is
`request_stop` up to its first wait, used by `RequestStop` and `ClearSession`;
`KillDone` is the executor's answer; `FenceSettles`, `ResetContext` and
`StopTimesOut` are the ways a waiting stop or clear ends; `BeginDelete`,
`DyingTurnEnds`, `DyingNack`, `FinishDelete` are `delete_session`; `Rehydrate`,
`StartLoops`, `Crash` (also shutdown), `ClearStore` are boot, death and reset.

*Settling a group* is a step per row, since each row has its own commit and the
process may die in between.

*Environment.* `Env` names the environment's operations a configuration uses:
`crash`, `fail` (a turn raises), `stop`, `clear`, `delete`, `reset`, and
`boot_emit` (a producer emits before rehydration). The passing runs of `core`
leave `boot_emit`, `delete` and `reset` out because with them the code does
break the property: section 5 lists each case as a finding with its run.

### MemoryQueues

*State.* `queue[s]` is a session's `EVENT_UNPROCESSED.md` as a set of numbered
events, `staging` and `staged` the staging file, `distilled` what `MEMORY.md`
takes account of, `alive` the sessions with a workspace. `snapshot` and
`frozen` are `_memory_run_snapshot` and `_skip_unprocessed_logging`. Of the main
session's lane there are the waiting triggers by kind, one sleeping
continuation, the turn's group and whether its payload is tagged
`run_source = memory`; `paused` is the Continue/Stop prompt.

*Steps.* The event loop is atomic between awaits, but files are also written by
pool threads, so a synchronous stretch that reads files and then writes them is
two steps: `ClaimMemory` (`build_staging`) and `SkipMemory` / `StartMemory`
(the rest of `_prepare_memory_run`); `Release` (unfreeze, read) and `Reconciled`
(write). No other step of the loop happens in between (`loop`), a thread's may.
`Distill`, `DeleteBatch` and `OpenStaging` / `WriteStaging` are what the
memory-processor skill does with `stream_edit`; a file edit is one step unless
the environment has `tear`. `RunEnds`, `RunContinues`, `RunRecovers`,
`RunHalts`, `RunPauses`, `LimitContinue`, `LimitAbort`, `StopMain`, `StopOther`
and `Crash` are all the ways a memory run ends, pauses or is interrupted.
`ClaimOther` merges what waits as `_merge_triggers` does: only the base trigger
decides whether the turn is tagged.

*Environment.* `Env` chooses among `again`, `user`, `error`, `limit`, `stop`,
`foreign_stop`, `crash`, `clear`, `delete`, `thread`, `tear`, `rotate`; the
module says what each is. The two passing runs split them because the code
keeps each property only in a part of the environment (section 5).

### ActivityLedger

*State.* `row[k]` is the row of an idempotency key, `inFlight` the guard's
`_in_flight`, `runs[c]` the key a call executes. `effect[k]` is history: what
is known of the key's latest execution and has not been told to the agent, and
since when. `wiped` are keys that a call was using when the agent was reset.

*Actions.* `Proceed` and `Warn` are the outcomes of `begin()` that change
something; a replayed output and the answer "already running" change nothing.
`Succeeds`, `Fails`, `IsStopped` (cancelled or timed out, which
`execute_action` reports as an error) and `OutcomeLost` (the database refuses)
are `complete()`; `Crash`, `Boot` (with `gc`), `Reset` (`clear_all`) and `Tick`
the rest. Calls of a key may come at any time, which covers every redelivery
the trigger plane can produce.

### FactoryArc

*State.* `arc` is `arc.json` (open, paused and by whom, missions spent, stalls,
whether an unparseable verdict was retried), `idle` the time since the last sign
of life, capped at `MaxIdle`. Of the app's session there are the queued missions,
the kinds of other triggers that wait, and what started the turn in flight;
`stopping` says that a stop holds the lane, `unacked` what it has not acknowledged
yet. `emitting` counts missions whose emit is a task nobody awaits, `opening` tells
that a run has opened the arc and not yet emitted. `stopped` (no stop stands, or one
that left no mission dispatched, or one with missions behind it) and `empty` are
history for the properties.

*Actions.* `StartRun` / `StartRunEmits` open the arc and queue the first run;
`Dispatched`, `EmitLands`, `EmitFails` are `_emit_mission`; `StartMission` and
`StartBatch` start turns; `OpenDev`, `LaunchSuccess`, `Finding`, `Delivered`,
`Unparseable`, `Defects`, `Blocked` are the reports a mission makes; `RunEnds`,
`RunAwaits`, `RunHalts`, `TurnFails` the ways it ends. A stop is two steps, because
the code awaits the turn and the kill worker in between: `UserStop` cancels the turn,
which may still report and enqueue until it has left; `StopSettles` acknowledges,
purges and pauses the arc. In between the lane takes nothing, but for the supervisor
the app is idle as soon as the turn has left. `ParkedStop` stops a run between two
turns, which the code does without giving way. `Tick`, `Resume`, `GiveUp` the supervisor; `Crash` and `Boot` a restart.

*Environment.* `Env` has `other`: triggers of third parties, such as requests of
the app itself.

### Scheduler

*State.* `file` and `mem` are the configuration and `_schedules`; `table` is
`_scheduler_tasks`, `task[i]` what each asyncio task of schedule `i` is doing:
an entry may name a task that is done, and a task may run without an entry.
`starting` are coroutines that were created and have not run, `reload` a reload
on its way, `pending` what a pool thread has changed and not saved, `dirty` that
the watcher has work. `row` is the one-time task's trigger, whose key lives as
long as the row is unfinished. `due` is time, `want` what was last granted.

*Steps.* A step runs from one suspension point to the next. `RunStart`,
`LoopLooks`, `Wakes`, `Fire`, `FireDeduped`, `FireEnds`, `CancelledLeaves` are a
loop; a fire is two steps because its emit takes the queue's lock after the row
is in the table. `ReloadBegins`, `ReloadCancels`, `ReloadStopped`, `ReloadLoads`
are a reload; `Add`, `UserToggles` the loop's requests; `AgentRemoves`,
`AgentDisables` with `ThreadSaves`, and `AgentEnables`, the actions that run in
a pool thread, where the event loop can come between change and save.

*Environment.* `contended` (the emit of a fire is suspended, so a cancellation
reaches it), `emit_fails`, `save_fails`, `gap` (a request gets between a
reload's cancellation and the loop's exit), `reload_race` (a reload reads the
file before a thread has saved) and `agent_enable`. The passing run has
`contended` only: section 5 says what the others break.

### EventStream

*State.* Events are numbers, and the tail is a set of them, since the code's
list keeps their order. `delivered` and `pointers` mark events of the tail,
`summary` is what `head_summary` stands for, `sync` the sync point of action
selection. `history`, `checkpoint` and `orphan` belong to the provider, `turn`
is the decision (its attempt, the prompt it began with, the one in flight),
`disk` what the session storage holds. `received`, `lost` and `strayed` are
history for the properties.

*Actions.* `Begin`, `SendDelta`, `FoldToFit`, `SendFull`, then `Decides`,
`Garbles`, `FallbackServes`, `ProviderFails`, `OverflowFolds`,
`OverflowCollapses`, `OverflowRaises` or `Cancel` are `_prompt_for_decision`,
attempt by attempt; `Fold` is `summarize_by_LLM` with all its outcomes (an LLM
summary, a pruned chunk, nothing) at any cutoff the rules allow. `Recompile`,
`SwitchProvider`, `Clear`, `PersistStream`, `PersistRun`, `Crash` and `Boot` are
what the session does around it.

*Environment.* `late_event` (another producer logs while a request is in
flight), `fallback`, `switch` and `late_answer`. The last three set history and
stream apart; `strayed` says so until the next full prompt, which has to mend it.

### ActionRuns

*State.* `lane`, `turn` and `stop` are what the session's consumer loop and its
`_StopSignal` look like from here (`TriggerPlane` has the rest of them). An
execution is named `<<i, "own">>` when it is of the turn's batch, and
`<<i, "sub">>` when a sub-agent, whose whole life is the function of execution
`<<i, "own">>`, makes it on its own loop. `call` is `execute_action` waiting,
being unwound by its timeout (`expires`) or by the stop (`cancelled`), or done;
`body` is the function: waiting for a worker, working, with a process it has
started, watching that process after registering it, over. `proc` says what the
process's pid names, `registry` and `markers` are `_procs` and the marker files;
`sweep`, `todo` are `kill_session_processes` on its thread. `quiet`, `spared`
and `swept` are history: the turns whose stop has settled, what no stop could
reach when it came, and the turn a kill is for.

*Actions and code.* `SelectBatch` is `execute_actions_parallel` (and, for one
action, `execute_action`); `WorkerTakes`, `BodyReturns`, `BodySpawns`,
`BodyRegisters`, `BodyReaps`, `BodyGivesUp` are the function on its pool;
`SubStarts` is `_dispatch_action`; `ActionTimesOut` and `CallEnds` are the two
branches of `_compat_wait_for` and the end of `execute_action`; `RequestStop`
is `request_stop` up to its first wait, with the cancel it sends to every call;
`SweepTakes`, `SweepKills`, `SweepMarkers`, `SweepReported` the kill and its
callback; `TurnLeaves` is `_run_turn`'s `finally`, `Settle` the settlement in
`_consume`. `CancelledCall` is what a cancel does to a call: one that is being
unwound by its timeout lets the executor's wait for its thread go.

*Environment.* `crash` (children and marker files survive), `kill_fails` (the
executor refuses the kill). Processes exit at any time, and a pid whose process
was reaped may come to name an unrelated program, also across crashes.

*Left out.* A kill that does not work; the moment between the check of a pid and
its kill; a process pool that is full; that a sub-agent makes more than one
action, one after the other.

### AppLife

*State.* On disk there are `registered` (the keys of `self.projects`, which each
change saves), `tree` (the projects whose directory exists) and `port`. In
memory, `status` tells `running` from everything else, `handle` is
`project.process`, `retries` the watchdog's `retry_counts`, `reserved` the
allocator's set, `lock[a]` the launch lock: its holder, then who waits.
`job[u]` is where a call of a user or an agent is, `dog` where the watchdog is;
`server[q]` what a process outside serves, booting or up. The name of a process
is used again when it is gone and nothing refers to it.

*Actions and code.* `LaunchAndVerify`, `LaunchProject` and `AutoLaunch` are the
ways into `_launch_native`; `Enters`, `Passes`, `Starts`, `LaunchFails`,
`LaunchSucceeds` are `_launch_native_locked` with `_run_launch_pipeline`, cut at
its awaits; `LaunchCancelled` is the cancellation of the task that awaits it.
`StopProject` is `stop_project`, which never suspends for a native app;
`CreateProject` / `CreateEnds` are `create_project` around the scaffolding;
`DeleteProject`, `DeleteRemoves`, `DeleteEnds` are `delete_project` around the
backup and the cancelled triggers. `Examine` is one app's turn in
`_watchdog_loop`, `DogWakes` to `DogHealthy` are the rest of it and
`_watchdog_restart`. `Restart` is a death of CraftBot with the next boot up to
`cleanup_on_startup`. `Binds` and `Exits` are the servers' own.

*Environment.* `crash`, `cancel` (a user stop or an action's timeout cancels the
launch or the creation it awaits) and `crash_in_delete` (CraftBot also dies
between a deletion's removal of the files and its removal from the registry).

*Left out.* Native apps only; shadow instances and promotion, backups, imports,
sharing, programs of others on the ports. The watchdog goes through a copy of the
table; here it may come to any registered app next. At most
`AUTO_LAUNCH_CONCURRENCY` launches run at boot; here as many as there are calls.

## 3. Runs

| run | instance | shows |
|---|---|---|
| `core` | 1 session, plain and keyed triggers, 3 rows, clock 0..2, 1 crash, 2 attempts; crash, fail, stop | one carrier per row, turns run only claimed rows, unique keys, stops keep queued work, the plane implements `DurableWork` |
| `stop` | 2 sessions, 1 permit, 3 rows; exclusive triggers, two contacts, continuations; stop, clear, fail | the stop and clear protocol, and `TurnsAreApart` through merges of merges and retries |
| `live` | 2 sessions, 2 rows, clock 0, 1 crash; crash, fail, stop, clear, delete, reset | recoverability and liveness |
| `memory_kept` | 2 sessions, 2 events, 2 waiting triggers; everything but `thread`, `tear`, `rotate` | no event leaves its queue before it was distilled, whatever ends, stops or repeats memory runs |
| `memory_freeze` | 2 sessions, 4 events, 2 waiting triggers; stop, clear, delete, thread, tear, rotate | the queues are frozen only while a run goes on, and a memory run does not log itself |
| `ledger` | 2 keys, 2 calls, clock 0..5; everything | no blind repetition, one execution at a time, no blocked key |
| `factory` | 1 arc, 4 missions, 3 stalls, 2 queued triggers, 3 requests, 2 crashes | budget, no empty loop, no doubled resume, settled stops hold, arcs settle |
| `schedule` | a one-time and a recurring schedule, 2 tasks each, 2 crashes; contended | once, never lost, off is off, one loop each, eventually |
| `stream` | 4 events (two big ones, schemas, requirements), 3 attempts, 1 crash; fallback, switch, late_answer | stream and history in step, folds take only what was read |
| `actions` | 2 executions and a sub-agent's action in each, all kinds, 2 turns, 1 worker; crash, kill_fails | a stop waits for what it can reach, kills only what its run left, leaves no record open, comes to an end |
| `apps` | 2 apps, 2 ports, 2 processes, 2 calls, 1 restart of the watchdog; crash, cancel | one known server per app, one port per app, the watchdog spares what serves |
| `boot_emit` | smallest instance that shows it | a finding |

**Bounds.** `MaxRows` bounds the rows ever inserted, `MaxNow` the clock (a due
time beyond it is capped), `MaxCrashes` the process deaths, `MaxAttempts` and
`MaxTurns` stand for 5 and 3. Three rows are the fewest in which a base trigger,
a merged one and one that arrives later coexist; two attempts tell the first
from the last; one permit for two sessions makes capacity contested; one crash
separates work before and after a recovery (a second one repeats it, as recovery
keeps no state of its own). In `MemoryQueues`, `MaxEvents` bounds the messages
ever logged and `MaxQueue` the triggers that wait; one continuation sleeps at a
time, and a crash happens only when what it returns to the queue fits. Two events
are the fewest that differ in being staged, distilled or late. A queue file has to
hold three before rotation drops one, and the fourth message is what rotates it:
hence four where `rotate` happens. In `FactoryArc`, four missions and three stalls let the stall
limit and the budget each strike first, and three requests give a stop, a second
arc and a stop of that. In `Scheduler`, two tasks of a schedule are what
`OneLoop` needs to fail, and two crashes let the second boot meet what the first
left in the file. In `EventStream`, the four events are one of each kind that a
fold treats differently and a second big one, so that one can be kept and shrunk
while another is folded; `MinKeep` stands for a constant of the code, and three
attempts are one to fold, one to collapse and one to give up. In `ActionRuns`, one
worker makes a sub-agent starve its own action (sixteen of them do in the code),
two turns let the kill of one meet the next, and a marker of a dead life of the
process meet a reused pid; executions are used up, so that calls run out and
crashes need no bound. In `AppLife`, two apps and two ports are what a mixed-up port
needs, two processes two servers of one app or one of each, and two calls beside the
watchdog every pair that competes for a lock; crashes need no bound. Crashes need
none in `ActivityLedger` either, whose
times are chosen so that window, intent expiry and deletion fall on different
ticks within `MaxNow`. Configurations with two rows are those whose
environment is widest. Deadlock is not checked: the system is quiescent when
nothing is emitted, `MemoryQueues` when its events are used up, and `AppLife` when
nobody asks for anything. In
`ActivityLedger` it is checked.

**Fairness** (`FairSpec`, run `live`). Weak fairness of what the event loop and
the executor do by themselves: a consumer takes a due trigger, a waiting turn is
admitted when a permit is free, a turn's `react` returns (every LLM call and
action has a timeout), rows are settled, the kill worker answers, the clock
advances, a dead process is started again. Nothing is assumed about producers,
users, failures and crashes. The stop timeout is not fair: a stop has to settle
without it.

`FactoryArc` (`ArcSettles`) assumes that turns end, emits land or fail, the
supervisor ticks, the kill worker answers a stop and a dead process is started
again. `Scheduler`
(`EventuallyFires`) assumes strong fairness of a schedule's loop and of reloads:
a loop that is cancelled and restarted over and over gets its turn between two
requests, since the event loop is a queue; and weak fairness of time, pool
threads and the restart.

`ActionRuns` (`StopSettles`) assumes that the loop, the kill's thread and the
workers run what is ready, that a function on a thread returns some time (its
own calls have timeouts), that `communicate` and the action itself time out.
Nothing is assumed about processes: one that never exits is killed, or given up.

`AppLife` has no liveness property: what one would promise, that a crashed app is
served again or given up, the code does not keep (section 5).

`EventStream` has no liveness property: a decision makes at most `MaxAttempts`
attempts by construction. `MemoryQueues` and `ActivityLedger` have none: a
memory run is a conversation with a model that need not come to an end, and a
refused call need not be repeated. What would be lost by that is covered as
safety: `FrozenOnlyInRun` and `InFlightIsRunning` say that nothing stays blocked
without somebody who will unblock it.

## 4. Proofs

`TriggerPlaneProofs` proves, for all sessions, producers, environments and
bounds (assumptions `SessionsAssumption`, `KindsAssumption`, `EnvAssumption`,
`BoundsAssumption`):

* `TypesInvariant`, `TypeCorrect`: types, with `LaneOK`: every trigger in a
  queue, a turn or an unwinding lane names an inserted row of its own session.
  `LaneOK` is what makes the type invariant useful: retries and settlements act
  on `row[t.id]`.
* `KeysAreUnique`: `UniqueKeys`. Only an insert and a retry open a row, both
  under the index.
* `ParkedRowsWereTried`: `ParkedWereTried`. Attempts never decrease and parking
  reads them in the step that parks.
* `NothingIsStranded`: `NoStrandedRow`, with all environment operations. It
  needs `UniqueKeys`: a nack whose retry the index refuses queues nothing, and
  that is harmless only because the index refuses closed rows alone.
* `StoppedRunsEnd`: `StopEndsRun`, from `NoStrandedRow` and `TurnsNeedLoops`
  (turns exist only while the process is up): what the purge finds in the queue
  is then everything there is in the table.

The argument is by the *shape* of a step. `StepShape` shows once, action by
action, that every step is one of four kinds: it opens no row (`QuietStep`),
inserts one and queues it (`EmitStep`), re-opens one and queues it
(`RetryStep`), or loads the table (`LoadStep`), and that triggers enter a turn
only from the same session's lane. Each invariant is then a short induction over
the four shapes. `HeldStep` adds that a step drops a row's trigger only with the
row.

The second half of the module builds on these with four more inductive invariants, each
with the environments it needs as the theorem's assumption:

* `TurnsKeepApart`: `TurnsAreApart`, in every environment. `Flow` says how
  triggers move in one step (dropped, entered, back from a failed turn, claimed,
  rehydrated); a trigger is `Pure` when all it carries has one origin, and a fix
  mission carries itself alone. `MixInv` says that every trigger of a lane is
  pure and that those of a turn agree: a merge takes compatible triggers only,
  and a retry carries what a pure trigger of the turn carried. A row's source and
  origin do not change, so that deletions and resets do no harm.
* `OneCarrierEach`: `OneCarrier`, without `boot_emit`: rehydrate is the only step
  that makes a trigger for a row that may have one, and it loads what is in the
  table while nothing is queued.
* `NothingStartsFenced`, `ParkedResetsAreQuiet`: `FenceHolds` and
  `ParkedResetIsQuiet`, without `delete`. `FenceInv`: a turn is registered for a
  stop until it has ended, and one that waits, reacts or is dropped has no stop
  over it. After a deletion the end of the removed turn unregisters its
  successor.
* `TurnsRunClaimed`: `RunsOnlyClaimed`, without `boot_emit`, `delete` and `reset`
  (`Guarded`). With one carrier per row, only the turn itself settles what it
  claimed, and what is queued is open.
* `QueuedWorkStays`: `QueuedWorkIsKept`, and `PlaneKeepsPromise`: `KeepsPromise`,
  for `Guarded` as well. `Moved(i)` lists what a step may do to one row; the
  refinement maps each case to a step of `DurableWork` or to a stutter.

`MemoryQueuesProofs` proves `StagedIsCovered` and `KeptUntilDistilled` for all
sessions and bounds, in environments without `thread`, `tear` and `rotate`
(`Quiet`): in those three the code breaks them. The invariant says that the
queues of a snapshot are frozen until they are reconciled, so that nothing
enters a staged queue, and that what a synchronous stretch has read is still
there when it writes. `FreezeHasARun` proves `FrozenOnlyInRun` when the memory run
is alone in its session and its turns do not fail (`RunsAlone`): the session then
has one trigger at most, which is the run's while the queues are frozen. Each of
the four operations it excludes breaks the property. `OwnEventsAreNotQueued`
proves `OwnEventsStayOut` when moreover no run of another session is stopped and
the process does not die (`RunsThrough`). `again`, `foreign_stop` and `crash` break
it; a stop of the run itself does not, because it takes the run's continuations out
of the lane together with the freeze (`PurgedFacts`: what a purge leaves is no
longer than the queue was and holds no continuation). `TypesHold` proves the type
invariant in every environment. `Purged` is a recursive function, so both need an
induction over the queue. The library's induction theorems take a predicate as a
parameter, which no installed prover can instantiate; `NatSet` states induction for
a *set* of numbers instead and derives it from the library's proof that `<` is
well-founded (`LeastNat`), and `PurgeExists` builds the purged prefixes with it.

`ActivityLedgerProofs` proves the type invariant, `InFlightIsRunning`,
`OneAtATime` and `NoBlindRepeat` for all keys, calls and times, from
`TimesAssumption` (an execution and the dedup window together are shorter than
an intent's life, the window shorter than a settled row's) and
`NoKeyAssumption`. The invariant `Remembered` lists where the knowledge about a
key is: in the intent of a running call, in the DONE row of a success or the
intent whose outcome was lost, or nowhere once it is too old to matter.

`FactoryArcProofs` proves types, `WithinBudget`, `NoEmptyLoop`,
`OneResumeAtATime` and, for an environment without `other` (`Quiet`), `StopHolds`,
for all caps, backoffs and bounds. The stall count is tied to the history of
dispatches and the missions spent to the arc's cap. A stop that has settled holds
(`StopInv`) because the arc is paused, the lane free and, besides requests of the
user, nothing waits but missions that were dispatched before it settled; `SettledStop`
shows that the settlement establishes this however the cancelled turn ended. What
happens before it settles is not promised: section 5.

`SchedulerProofs` proves types, `NeverLost` for environments in which saves and
emits succeed (`Reliable`), and `OffIsOff` where moreover no reload overtakes a
thread's save (`Orderly`). Both compare memory with the file: a task granted and
not fired is in the file, and what memory says of a schedule that is off differs
from the file only while a thread has yet to save it. `NoSecondLoop` proves
`OneLoop` where nothing gets between the steps of a reload (`Gapless`): a
loop that may still fire is the one in the table, and a reload waits for the one
it has told to leave. `EnabledRuns` proves `EnabledHasLoop`
where moreover the agent enables nothing that is disabled (`Undisturbed`), and
`OneFireEver` proves `FiresOnce` in environments without `gap` and `save_fails`
(`Saving`): a task that is loaded again although it has a row has a loop that will find the row,
and a task that is done is loaded no more.

`EventStreamProofs` proves types, `FoldedWasRead` and `InStep` without
`late_event` (`Alone`), for all kinds of events and bounds. `Reads` says that
delivered events were received, which is what a cutoff respects. `Together` says
that, unless the two have strayed, the history before the sync point is what a
marker covers, for the live sync point, the checkpoint and the saved state; a
fold can only be harmless for them because it resets the history with it.

`ActionRunsProofs` proves types, `StopIsQuiet`, `NothingSpins` and
`KillsOnlyItsRun` for any executions, kinds, turns, workers and environments,
from `SetsAssumption` and `BoundsAssumption`. The invariant has five parts:
`LanesHold` (a kill is for the current turn, whose stop has not settled),
`CallsHold` (a call that is not over is of the turn that acts), `LeftHold` (what
an ended call leaves behind is in a pool process or was out of reach),
`SubsHold` (a sub-agent's function outlives its action) and `BoxesHold` (a
watched pool process is marked or dead, and dead after the kill). A stop is
quiet because each of them says who still waits for an active function.

`AppLifeProofs` proves types, `OneWriter`, `PortsApart` and `SparesServing` for
any apps, ports, processes and calls, from the assumptions of `AppLife`.
`LaunchesKeepTheirLocks` is the invariant behind the first: a launch that has
begun holds its app's lock (`Locked`), and from then to its success the app has no
handle, while the process it has started serves the app it is for (`Owned`). It
needs no assumption about the environment; servers that a cancelled launch has left
behind (`Stray`) are excepted, and `NothingIsStray` proves that without `cancel`
there are none. For ports, `Born` says who has a port and that an app in creation is
in nobody else's hands, `Kept` that those who have one have it alone and reserved;
`PortsStayApart` and `WatchdogSparesServers` follow when CraftBot does not die in the
middle of a deletion. The watchdog spares what serves because of all of these: an app
that looks dead under the lock has no server of its own, and no other app's server is
on its port.

The type invariants are in no run, and neither is `ParkedWereTried`: they are proved.

Only model-checked: liveness, which is out of the prover's reach, and the
properties above in those environments of the runs that a theorem's assumption
excludes.

## 5. Findings

A run that expects a violation; `PROJECT.json` quotes the line that is
contradicted.

* `boot_emit`: producers start before rehydration, whose load then dispatches
  their rows a second time.

Further disagreements between code and documentation, met while modelling. The
first five are behaviours of the models that no property forbids; the others
appear when the named operation is added to `Env` of the named configuration,
or the named property to its properties.

* `_try_fallback` and `_finalize_session_response` (`interface.py:1650`): a
  request that a fallback provider served is marked as sent, although the
  primary's history never got it (`event_stream.py:859` says "Mark that all
  current events have been synced to the session cache."). `NothingSkipped` in
  `MCStream.cfg` shows it; `InStep` excuses it until the next full prompt.
* `remove_session` (`runtime.py:409`): an emit during a deletion gives the
  session a second consumer while the first one's turn unwinds.
* `_consume` (`runtime.py:571`): rows of a failed merged turn are retried one by
  one and do not settle together, as `runtime.py:463` says they do.
* `rehydrate` (`service.py:259`): rows of deleted sessions are dispatched to
  them and dropped, not delivered to main as `service.py:257` says.
* `reset_agent_state` (`agent_base.py:3150`): wipes the rows but not the
  in-memory queues of surviving sessions.
* `ResetIsQuiet` in `MCStop.cfg`: a clear that waited for a stop resets the
  context after the next turn has started (`agent_base.py:563`;
  `runtime.py:57` says "callers must not reset context while old work can still
  write to it").
* `FrozenOnlyInRun`: `user` in `MCMemFreeze.cfg`. A user message that is due
  before a memory run's continuation becomes the base of the merged turn; the
  tag is lost (`runtime.py:181` keeps no `run_source`), and at the run's end the
  queues of all sessions stay frozen (`agent_base.py:1653` says "release them
  when the run ends").
* `KeptUntilDistilled`: `tear` in `MCMemKept.cfg`. A stop of another session
  reconciles against a staging file that an edit has just truncated
  (`stream_edit.py:263`), and drops events nobody distilled.
* `FrozenOnlyInRun`: `error` in `MCMemFreeze.cfg`. A failing memory run halts
  without `_on_run_end`, or continues untagged; `limit` alike.
* `OwnEventsStayOut`: `foreign_stop` in `MCMemFreeze.cfg`. A stop of any session
  unfreezes the queues. The freeze itself is global too: other sessions'
  messages during a memory run enter no queue.
* `StagedIsCovered`, `KeptUntilDistilled`: `thread` in `MCMemKept.cfg`. An
  integration action logs into main from its pool thread between a read and a
  write of the queues.
* `KeptUntilDistilled`: `rotate` in `MCMemKept.cfg` with `MaxEvents = 4`. A queue
  file over 10 MB loses its oldest third.
* A cancelled or timed-out irreversible action is recorded as FAILED, so its
  repetition is not held back by a warning, although its thread may have done
  its work (`manager.py:434`); `NoBlindRepeat` counts it as known to the agent,
  which got the error.
* `FoldIsReflected` in `MCStream.cfg`: after a fold, the retry of an unparseable
  answer (`router.py:460`), or after a provider error (`router.py:517`), is built
  from the prompt that was rendered before the fold, and a full prompt carries
  what the fold took out (`router.py:137` says "a fold made while deciding [...]
  is reflected in what is sent").
* `EnabledHasLoop`: `agent_enable` in `MCSchedule.cfg`. The action
  `schedule_task_toggle` runs in a pool thread, where `asyncio.create_task`
  (`manager.py:243`) raises: the schedule is enabled in memory, has no loop and
  is not saved, against "Restart loop if enabled status changed"
  (`manager.py:240`).
* `EnabledHasLoop`, `OneLoop`, `FiresOnce`: `gap` in `MCSchedule.cfg`. A request
  that comes between a reload's cancellation of a loop and its exit makes
  `_stop_schedule_loop` raise (`manager.py:424`), which ends the reload half way
  and leaves the schedules behind it without a loop. `OffIsOff`: `reload_race`.
* `NeverLost`: `emit_fails` in `MCSchedule.cfg`: `run_count` is raised before the
  emit. `save_fails` breaks `NeverLost`, `FiresOnce` and `OffIsOff`: a failed save
  is logged and forgotten (`manager.py:787`), while `sources.py:66` promises "one
  fire, ever, per id".
* `StopIsNotOvertaken` and `StopIsFinal` in `MCFactory.cfg` (add one to its
  `PROPERTIES`). A stop pauses the arc only when it settles. Before that the consumer
  takes the cancelled turn out of `_turns` (`runtime.py:536`) and awaits the kill
  worker (`runtime.py:540`); if the supervisor looks meanwhile and the arc's last sign
  of life is old enough, it dispatches a resume (`host_craftbot.py:684-701`), or
  announces the app stuck and closes the arc. The mission is no continuation, so the
  purge leaves it, and it starts after the stop; so does a fix mission that was
  queued behind the stopped run (`machine.py:12` says "A paused arc never
  auto-resumes", and `runtime.py:256` calls `is_session_active` the "structural 'is
  work in flight' check"). Likewise, work that the user asks
  for while a stop settles is paused by it (`host_craftbot.py:412` says "asking for
  the work again is the resume"), and a crash before a stop settles forgets it:
  the next boot starts the stopped turn's triggers again.
* `StopHolds`: `other` in `MCFactory.cfg`. A turn of a third party opens the paused
  arc again.
* `FoldedWasRead`: `late_event` in `MCStream.cfg`. An event logged by another
  producer during a request is marked delivered without having been sent, and a
  fold may take it away unread (`event_stream.py:866`).
* `StopIsQuiet` without the last disjunct of `OutOfReach`: a stop that comes while
  an action is unwound after its timeout ends the executor's wait for the thread
  (`executor.py:655`), and `_compat_wait_for` swallows that cancel
  (`manager.py:72`): the thread goes on after "Run stopped.", although
  `executor.py:650` says that settlement waits for in-flight work.
* `StopIsQuiet` without the first disjunct: a pool worker that has not marked its
  child when the kill looks is not stopped, nor is any when the kill fails. No
  action the repository ships is sandboxed.

* `OneWriter` without `Stray`: `cancel` in `MCApps.cfg`. A user stop or an action's
  timeout cancels a launch during its health check; `except Exception`
  (`manager.py:1237`) does not see that, the server goes on with no handle, and
  when it is still booting the next launch finds nobody on the port and starts a
  second one on the same data. The watchdog may kill such a server later, when it
  answers.
* `PortsApart`: `crash_in_delete` in `MCApps.cfg` with three apps. CraftBot
  dies when a deletion has released the app's port, a new app has been given it, and
  the old one is still registered: the next boot knows both, and when the old one is
  deleted again it releases the new one's port, whose "lifetime is the project's"
  (`instances.py:104`).
* A server that outlasts the health check and exits later: while it lives, the
  watchdog takes it for healthy and forgets its retries (`manager.py:494`), so
  that such an app is restarted forever and never escalated, against "up to 3
  retries" (`manager.py:456`).

Seen while reading, outside of what the models tell apart: the watchdog restarts an
app that was stopped or deleted during its delay; a stop during a launch is overridden
by the launch, and an app deleted meanwhile comes up and is never stopped; a 200 from
anybody on the port makes a restart of the watchdog healthy (`manager.py:724`); a stop of an arc that
is paused by a question is not recorded, and a run parked on the limit prompt is
resumed by the supervisor (`agent_base.py:1579`); a schedule's loop that ended by
itself leaves its entry, so that enabling it later starts nothing until a
reload; threads and loop save through one `.tmp` file; the settings page writes
the configuration in place, and an empty file is read as the defaults; a restart
without a restorable provider session marks all events delivered
(`agent_base.py:3809`); `summarize_by_LLM` does not hold the lock its docstring
says it holds; `remove_session_caches` is called (`agent_base.py:1223`) and does
not exist. A stop does not kill processes that a sub-agent's actions have
registered, since those are under the sub-agent's id: it waits for them. When
sub-agents hold all sixteen workers of the thread pool, their own synchronous
actions, `sub_task_end` included, wait until the 6000 s timeout of an action
(`executor.py:37`); `ActionRuns` reaches this with one worker, and `StopSettles`
holds by that timeout alone.

`KeepsPromise` is checked without deletions: an unguarded retry may re-open a
row that a deletion has settled.

## 6. Not modelled, and why

* Inside a turn: the text of prompts, parsing, routing, what an action does. The
  plane sees how a turn ends and what it emits.
* The 15 s stop timeout is a step that may happen at any time.
* A turn that raises `CancelledError` by itself, errors of the stop finalizer,
  SQLite errors (a failed ack or nack is logged and skipped by the code).
* Priorities: among the earliest due triggers any may come first.
* Memory: the enabled switch, pruning of `MEMORY.md`, the entity judge, the order
  of events within the staging file, equal lines in two queues. Reconciliation
  writes all queues in one step.
* Ledger: stored outputs and the hash in a key; an error of `begin()`, after
  which the action runs unguarded.
* Factory: the sidecar (delivery stamps, throttles, backups), texts of briefs and
  reports, several apps, which share nothing.
* Scheduler: the master switch, edits of other fields, `queue_immediate_trigger`,
  the parsing of expressions, graceful shutdown, torn files, interleavings of two
  threads inside one dictionary operation, and the stale row that `mark_stale`
  drops after a day. An emit that is cancelled while it waits for the queue's lock
  leaves its row to the next boot (row `committed`); the model has that, and no
  property forbids it.
* Streams: notices and time stamps a fold appends, externalised messages, call
  types other than action selection, the stateless path, BytePlus and Gemini
  caches, what a summary says.
* Actions: requirements, validation, the library, outputs and their files;
  background processes of `run_shell`, which are meant to outlive the run.
* Sub-agents: their decisions, caps, compaction and streams.
* Agent Apps: shadow instances, promotion, backups, external and imported apps,
  sharing, what a launch's gates check, programs of others on the ports; two
  deletions of one app at a time, which release its port twice.
* `FAILED`, `supersede`, `update_for_fire`, `update_session`: not called.
* The components PROJECT.json lists as `not_modelled`, with the reason there.

## 7. Plan

In this order, the most important behaviour first:

1. `TriggerPlane` and its proofs (done).
2. `MemoryQueues`: log, freeze, staging, distilling, reconcile, stop, restart;
   no event leaves unprocessed (done, with proofs).
3. `ActivityLedger`: begin, complete, gc, restart and parallel batch mates
   (done, with proofs).
4. `FactoryArc`: machine, supervisor, pause; no arc is frozen (done, with
   proofs).
5. `Scheduler`: loops, catch-up, one-time fires, reload (done, with proofs).
6. `EventStream`: folds, sync points, provider history, restart (done, with
   proofs).
7. `ActionRuns`: batches, cancellation, threads, processes and sub-agents (done,
   with proofs).
8. Turns of `TriggerPlane`, the refinement of `DurableWork`, loops of
   `Scheduler`, the freeze of `MemoryQueues` (proofs done).
9. `AppLife`: launches, watchdog, ports (done, with proofs).
10. The decision loop of a sub-agent (caps, vetoes, compaction of its stream);
    shadow instances and the promotion of an Agent App.
