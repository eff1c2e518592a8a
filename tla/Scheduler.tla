------------------------------ MODULE Scheduler ------------------------------
(***************************************************************************)
(* The scheduler (scheduler/manager.py): scheduler_config.json, the        *)
(* schedules and loop tasks in memory, the trigger rows its one-time tasks *)
(* become, hot reload, and the two that change schedules, the user in the  *)
(* settings page and the agent by its actions.                             *)
(*                                                                         *)
(* One event loop runs the loops, reloads, the user's requests and         *)
(* schedule_task. The actions remove_scheduled_task and                    *)
(* schedule_task_toggle are plain functions: they run in a pool thread,    *)
(* where a step of the event loop can come before their save.              *)
(***************************************************************************)
EXTENDS Integers, FiniteSets

CONSTANTS
    Once, Recurring,  \* ids of one-time and of recurring schedules
    MaxTasks,         \* bound: asyncio tasks of one schedule
    MaxCrashes,       \* bound: process deaths
    Env               \* which of EnvOps happen

\* "contended": the emit of a fire is suspended at the queue's lock;
\* "emit_fails": the trigger table refuses the row; "save_fails": the file
\* cannot be written; "gap": something gets between a reload's cancellation of
\* a loop and that loop's exit, or between the creation of a coroutine that
\* starts a loop and its run; "reload_race": a reload reads the file before a
\* thread has saved it; "agent_enable": the agent enables a disabled schedule.
EnvOps == {"contended", "emit_fails", "save_fails", "gap", "reload_race",
           "agent_enable"}

ASSUME IdsAssumption == Once \cap Recurring = {}
ASSUME BoundsAssumption == MaxTasks \in Nat \ {0} /\ MaxCrashes \in Nat
ASSUME EnvAssumption == Env \subseteq EnvOps

Ids == Once \cup Recurring
Tasks == 1..MaxTasks

VARIABLES
    \* --- durable
    file,      \* scheduler_config.json
    row,       \* row[i]: the trigger row of a one-time task
    \* --- the process
    up,        \* whether it is up
    mem,       \* _schedules
    table,     \* _scheduler_tasks, 0 for no entry
    task,      \* task[i]: what each asyncio task of schedule i is doing
    starting,  \* schedules with a _start_schedule_loop that has not run
    reload,    \* a reload: the entries it has to stop, the one it waits for
    pending,   \* pending[i]: what a thread has changed and not yet saved
    dirty,     \* the watcher has seen the file change
    \* --- the world
    due,       \* one-time tasks whose time has come
    crashes,   \* bounded by MaxCrashes
    want       \* want[i]: the last request about schedule i that was granted,
               \* "asked" while one is under way

process == <<mem, table, task, starting, reload, pending>>
vars == <<file, row, up, process, dirty, due, crashes, want>>

\* fired: run_count > 0, which is saved for one-time tasks only.
Entry == [there : BOOLEAN, on : BOOLEAN, fired : BOOLEAN]
Absent == [there |-> FALSE, on |-> FALSE, fired |-> FALSE]

\* "start": about to look at its schedule; "ready": its sleep is over; "emit":
\* the row is in the table; "late": the same, cancelled by a thread; "pause":
\* the sleep after a fire or an error; "cancelled": about to leave.
Stages == {"start", "sleep", "ready", "emit", "late", "pause", "cancelled",
           "done"}
Live == Stages \ {"late", "cancelled", "done"}

NoReload == [on |-> FALSE, todo |-> {}, at |-> {}]

TypeOK ==
    /\ file \in [Ids -> Entry] /\ mem \in [Ids -> Entry]
    /\ row \in [Ids -> {"none", "committed", "queued", "done"}]
    /\ up \in BOOLEAN /\ dirty \in BOOLEAN
    /\ table \in [Ids -> {0} \cup Tasks]
    /\ task \in [Ids -> [Tasks -> Stages]]
    /\ starting \subseteq Ids
    /\ reload \in [on : BOOLEAN, todo : SUBSET Ids, at : SUBSET Ids]
    /\ pending \in [Ids -> {"no", "off", "gone"}]
    /\ due \subseteq Once
    /\ crashes \in 0..MaxCrashes
    /\ want \in [Ids -> {"never", "on", "asked", "off", "gone"}]

\* The process starts with a file that holds no schedules.
Idle == [i \in Ids |-> [k \in Tasks |-> "done"]]

Init == /\ file = [i \in Ids |-> Absent] /\ mem = file
        /\ row = [i \in Ids |-> "none"]
        /\ up = TRUE /\ dirty = FALSE
        /\ table = [i \in Ids |-> 0] /\ task = Idle
        /\ starting = {} /\ reload = NoReload
        /\ pending = [i \in Ids |-> "no"]
        /\ due = {} /\ crashes = 0
        /\ want = [i \in Ids |-> "never"]

-----------------------------------------------------------------------------
(* Files and tasks *)

\* _save_config: an error is logged and forgotten, and the file is what it was.
SaveOver(old) ==
    /\ file' \in {mem'} \cup (IF "save_fails" \in Env THEN {old} ELSE {})
    /\ dirty' = TRUE
Save == SaveOver(file)

\* Mutation of Loaded: tasks that are overdue are dropped.
LoadedFuture == [i \in Ids |-> IF i \in Once /\ (file[i].fired \/ i \in due)
                               THEN Absent ELSE file[i]]

\* _load_config skips one-time tasks that have fired.
Loaded == [i \in Ids |-> IF i \in Once /\ file[i].fired THEN Absent ELSE file[i]]

Enabled(schedules) == {i \in Ids : schedules[i].there /\ schedules[i].on}

Running(i) == table[i] # 0 /\ task[i][table[i]] # "done"

\* A task slot that is not in use.
Slot(i) == CHOOSE k \in Tasks : task[i][k] = "done"

\* _start_schedule_loop, for each of a set of schedules.
StartLoops(ids) ==
    LET new == {i \in ids : ~Running(i)} IN
    /\ \A i \in new : \E k \in Tasks : task[i][k] = "done"
    /\ table' = [i \in Ids |-> IF i \in new THEN Slot(i) ELSE table[i]]
    /\ task' = [i \in Ids |-> IF i \in new
                              THEN [task[i] EXCEPT ![Slot(i)] = "start"]
                              ELSE task[i]]

\* What task.cancel() makes of a stage. It reaches a fire only where that is
\* suspended.
Cancelled(stage) ==
    CASE stage \in {"done", "late"} -> stage
      [] stage = "emit" /\ "contended" \notin Env -> "late"
      [] OTHER -> "cancelled"

\* Mutation of Unplug: the entry is forgotten, the task goes on.
UnplugUncancelled(i) == table' = [table EXCEPT ![i] = 0] /\ UNCHANGED task

\* Mutation of Unplug: the task is cancelled, its entry stays.
UnplugKeepsEntry(i) ==
    IF table[i] = 0 THEN UNCHANGED <<table, task>>
    ELSE /\ task' = [task EXCEPT ![i][table[i]] = Cancelled(@)]
         /\ UNCHANGED table

\* Cancel the task in the table and forget it.
Unplug(i) ==
    IF table[i] = 0 THEN UNCHANGED <<table, task>>
    ELSE /\ task' = [task EXCEPT ![i][table[i]] = Cancelled(@)]
         /\ table' = [table EXCEPT ![i] = 0]

Firing == \E i \in Ids, k \in Tasks : task[i][k] \in {"emit", "late"}

\* What the event loop runs before anything that is asked of it later: tasks
\* that were just created, and a reload, which waits for nothing but tasks that
\* leave.
NextInLine == \/ starting # {} \/ reload.on
              \/ \E i \in Ids, k \in Tasks : task[i][k] = "start"

\* A step of the event loop outside of a fire; a request; a change by a thread.
Unfired == up /\ (~Firing \/ "contended" \in Env)
OnLoop == Unfired /\ (~NextInLine \/ "gap" \in Env)
InThread(i) == /\ up /\ (~NextInLine \/ "gap" \in Env)
               /\ mem[i].there /\ pending[i] = "no"

-----------------------------------------------------------------------------
(* Changing schedules *)

\* Mutation of Add: not saved before it fires.
AddUnsaved(i) ==
    /\ OnLoop /\ want[i] = "never"
    /\ mem' = [mem EXCEPT ![i] = [there |-> TRUE, on |-> TRUE, fired |-> FALSE]]
    /\ starting' = starting \cup {i}
    /\ want' = [want EXCEPT ![i] = "on"]
    /\ UNCHANGED <<file, row, up, table, task, reload, pending, dirty, due, crashes>>

\* schedule_task: ids are fresh.
Add(i) ==
    /\ OnLoop /\ want[i] = "never"
    /\ mem' = [mem EXCEPT ![i] = [there |-> TRUE, on |-> TRUE, fired |-> FALSE]]
    /\ starting' = starting \cup {i}
    /\ want' = [want EXCEPT ![i] = "on"]
    /\ Save
    /\ UNCHANGED <<row, up, table, task, reload, pending, due, crashes>>

\* The coroutine that add_schedule and update_schedule create.
RunStart(i) ==
    /\ Unfired /\ i \in starting
    /\ starting' = starting \ {i}
    /\ StartLoops({i})
    /\ UNCHANGED <<file, row, up, mem, reload, pending, dirty, due, crashes, want>>

\* The settings page writes to the file, then calls update_schedule.
UserToggles(i, on) ==
    /\ OnLoop /\ pending[i] = "no"
    /\ mem[i].there
    /\ mem' = [mem EXCEPT ![i].on = on]
    /\ IF on
       THEN /\ starting' = IF table[i] = 0 THEN starting \cup {i} ELSE starting
            /\ UNCHANGED <<table, task>>
       ELSE Unplug(i) /\ UNCHANGED starting
    /\ SaveOver([file EXCEPT ![i].on = file[i].there /\ on])
    /\ want' = [want EXCEPT ![i] = IF on THEN "on" ELSE "off"]
    /\ UNCHANGED <<row, up, reload, pending, due, crashes>>

\* remove_schedule ...
AgentRemoves(i) ==
    /\ InThread(i)
    /\ Unplug(i)
    /\ mem' = [mem EXCEPT ![i] = Absent]
    /\ pending' = [pending EXCEPT ![i] = "gone"]
    /\ want' = [want EXCEPT ![i] = "asked"]
    /\ UNCHANGED <<file, row, up, starting, reload, dirty, due, crashes>>

\* ... or update_schedule(enabled=False) ...
AgentDisables(i) ==
    /\ InThread(i)
    /\ Unplug(i)
    /\ mem' = [mem EXCEPT ![i].on = FALSE]
    /\ pending' = [pending EXCEPT ![i] = "off"]
    /\ want' = [want EXCEPT ![i] = "asked"]
    /\ UNCHANGED <<file, row, up, starting, reload, dirty, due, crashes>>

\* Mutation of ThreadSaves: the change is in memory only.
ThreadSavesNothing(i) ==
    /\ up /\ pending[i] # "no"
    /\ pending' = [pending EXCEPT ![i] = "no"]
    /\ want' = [want EXCEPT ![i] = pending[i]]
    /\ UNCHANGED <<file, row, up, mem, table, task, starting, reload, dirty, due,
                   crashes>>

\* ... and what it does last.
ThreadSaves(i) ==
    /\ up /\ pending[i] # "no"
    /\ pending' = [pending EXCEPT ![i] = "no"]
    /\ want' = [want EXCEPT ![i] = pending[i]]
    /\ UNCHANGED mem
    /\ Save
    /\ UNCHANGED <<row, up, table, task, starting, reload, due, crashes>>

\* update_schedule(enabled=True): without an entry in the table it has to
\* create a task, and asyncio.create_task raises in a thread, which has no
\* running loop. The action then answers with the error and nothing is saved.
AgentEnables(i) ==
    /\ InThread(i)
    /\ table[i] # 0 \/ "agent_enable" \in Env
    /\ mem' = [mem EXCEPT ![i].on = TRUE]
    /\ IF table[i] # 0 THEN Save /\ want' = [want EXCEPT ![i] = "on"]
                       ELSE UNCHANGED <<file, dirty, want>>
    /\ UNCHANGED <<row, up, table, task, starting, reload, pending, due, crashes>>

-----------------------------------------------------------------------------
(* Loops *)

Moves(i, k, stage) == task' = [task EXCEPT ![i][k] = stage]

\* The time of schedule i comes: loops that sleep until then wake up.
Due(i) ==
    /\ up
    /\ \/ \E k \in Tasks : task[i][k] = "sleep"
       \/ i \in Once \ due /\ want[i] # "never"
    /\ due' = due \cup ({i} \cap Once)
    /\ task' = [task EXCEPT ![i] = [k \in Tasks |->
                   IF @[k] = "sleep" THEN "ready" ELSE @[k]]]
    /\ UNCHANGED <<file, row, up, mem, table, starting, reload, pending, dirty,
                   crashes, want>>

\* At the top of the loop; a loop whose time has come, or had come before it
\* looked.
AtTop(i, k) == task[i][k] \in {"start", "pause"}
Awake(i, k) == task[i][k] = "ready" \/ (AtTop(i, k) /\ i \in due)

\* A recurring schedule waits for its next occurrence.
LoopLooks(i, k) ==
    /\ Unfired /\ AtTop(i, k) /\ ~Awake(i, k)
    /\ Moves(i, k, IF i \in Enabled(mem) THEN "sleep" ELSE "done")
    /\ UNCHANGED <<file, row, up, mem, table, starting, reload, pending, dirty,
                   due, crashes, want>>

\* A one-time task that has fired leaves the configuration.
Popped(i) == IF i \in Once THEN [mem EXCEPT ![i] = Absent] ELSE mem

\* The schedule is looked at again after the sleep.
Wakes(i, k) ==
    /\ Unfired /\ Awake(i, k)
    /\ i \notin Enabled(mem)
    /\ Moves(i, k, "done")
    /\ UNCHANGED <<file, row, up, mem, table, starting, reload, pending, dirty,
                   due, crashes, want>>

\* Counted as a run before the row is in the table.
Counted(i) == IF i \in Once THEN [mem EXCEPT ![i].fired = TRUE] ELSE mem

Active(i) == row[i] \in {"committed", "queued"}

Inserts(i) == row' = IF i \in Once THEN [row EXCEPT ![i] = "committed"] ELSE row

FiresAt(i, k) == Unfired /\ Awake(i, k) /\ i \in Enabled(mem)

\* _fire_schedule up to the await in emit; or emit raises, and the loop tries
\* again in a minute; or the recurring memory schedule has nothing to do.
Fire(i, k) ==
    /\ FiresAt(i, k) /\ ~Active(i)
    /\ mem' = Counted(i)
    /\ \/ Inserts(i) /\ Moves(i, k, "emit")
       \/ /\ "emit_fails" \in Env \/ i \in Recurring
          /\ Moves(i, k, "pause") /\ UNCHANGED row
    /\ UNCHANGED <<file, up, table, starting, reload, pending, dirty, due,
                   crashes, want>>

\* The row is there already: nothing is dispatched.
FireDeduped(i, k) ==
    /\ FiresAt(i, k) /\ Active(i)
    /\ mem' = Popped(i)
    /\ Save
    /\ Moves(i, k, "pause")
    /\ UNCHANGED <<row, up, table, starting, reload, pending, due, crashes, want>>

\* Mutation of FireEnds: the task is not taken out of the configuration.
FireEndsKept(i, k) ==
    /\ up /\ task[i][k] \in {"emit", "late"}
    /\ row' = IF i \in Once THEN [row EXCEPT ![i] = "queued"] ELSE row
    /\ Moves(i, k, IF task[i][k] = "late" THEN "done" ELSE "pause")
    /\ UNCHANGED <<file, up, mem, table, starting, reload, pending, dirty, due,
                   crashes, want>>

\* The trigger is in the main session's queue; the rest of _fire_schedule.
FireEnds(i, k) ==
    /\ up /\ task[i][k] \in {"emit", "late"}
    /\ row' = IF i \in Once THEN [row EXCEPT ![i] = "queued"] ELSE row
    /\ mem' = Popped(i)
    /\ IF i \in Once THEN Save ELSE UNCHANGED <<file, dirty>>
    /\ Moves(i, k, IF task[i][k] = "late" THEN "done" ELSE "pause")
    /\ UNCHANGED <<up, table, starting, reload, pending, due, crashes, want>>

CancelledLeaves(i, k) ==
    /\ up /\ task[i][k] = "cancelled"
    /\ Moves(i, k, "done")
    /\ UNCHANGED <<file, row, up, mem, table, starting, reload, pending, dirty,
                   due, crashes, want>>

\* The turn of the trigger ends. It waits for the model's answer, while the
\* loops that are ready run.
RowDone(i) ==
    /\ OnLoop /\ row[i] = "queued"
    /\ \A k \in Tasks : task[i][k] # "ready"
    /\ row' = [row EXCEPT ![i] = "done"]
    /\ UNCHANGED <<file, up, process, dirty, due, crashes, want>>

-----------------------------------------------------------------------------
(* Hot reload *)

ReloadBegins ==
    /\ OnLoop /\ dirty /\ ~reload.on
    /\ dirty' = FALSE
    /\ reload' = [on |-> TRUE, todo |-> {i \in Ids : table[i] # 0}, at |-> {}]
    /\ UNCHANGED <<file, row, up, mem, table, task, starting, pending, due,
                   crashes, want>>

\* _stop_schedule_loop: the task is cancelled and awaited ...
ReloadCancels(i) ==
    /\ Unfired /\ reload.at = {} /\ i \in reload.todo
    /\ reload' = [reload EXCEPT !.todo = @ \ {i},
                                !.at = IF table[i] = 0 THEN {} ELSE {i}]
    /\ task' = IF table[i] = 0 THEN task
               ELSE [task EXCEPT ![i][table[i]] = Cancelled(@)]
    /\ UNCHANGED <<file, row, up, mem, table, starting, pending, dirty, due,
                   crashes, want>>

\* ... and its entry deleted, which raises when there is none any more.
ReloadStopped(i) ==
    /\ up /\ reload.at = {i}
    /\ \A k \in Tasks : task[i][k] # "cancelled"
    /\ table' = [table EXCEPT ![i] = 0]
    /\ reload' = IF table[i] = 0 THEN NoReload ELSE [reload EXCEPT !.at = {}]
    /\ UNCHANGED <<file, row, up, mem, task, starting, pending, dirty, due,
                   crashes, want>>

\* The schedules are read and the loops started in one stretch.
ReloadLoads ==
    /\ Unfired /\ reload.on /\ reload.todo = {} /\ reload.at = {}
    /\ (\A i \in Ids : pending[i] = "no") \/ "reload_race" \in Env
    /\ mem' = Loaded
    /\ StartLoops(Enabled(Loaded))
    /\ reload' = NoReload
    /\ UNCHANGED <<file, row, up, starting, pending, dirty, due, crashes, want>>

-----------------------------------------------------------------------------
(* Crash and restart *)

Crash ==
    /\ up /\ crashes < MaxCrashes
    /\ up' = FALSE /\ crashes' = crashes + 1
    /\ mem' = [i \in Ids |-> Absent]
    /\ table' = [i \in Ids |-> 0] /\ task' = Idle
    /\ starting' = {} /\ reload' = NoReload
    /\ pending' = [i \in Ids |-> "no"]
    /\ dirty' = FALSE
    /\ UNCHANGED <<file, row, due, want>>

\* initialize and start; the rows are rehydrated before a loop runs.
Boot ==
    /\ ~up
    /\ up' = TRUE
    /\ mem' = Loaded
    /\ StartLoops(Enabled(Loaded))
    /\ row' = [i \in Ids |-> IF row[i] = "committed" THEN "queued" ELSE row[i]]
    /\ UNCHANGED <<file, starting, reload, pending, dirty, due, crashes, want>>

-----------------------------------------------------------------------------
LoopStep(i) == \E k \in Tasks : LoopLooks(i, k) \/ Wakes(i, k) \/ Fire(i, k)
                                \/ FireDeduped(i, k) \/ FireEnds(i, k)
                                \/ CancelledLeaves(i, k)

Reload == ReloadBegins \/ ReloadLoads
          \/ \E i \in Ids : ReloadCancels(i) \/ ReloadStopped(i)

Next ==
    \/ \E i \in Ids :
          \/ Add(i) \/ RunStart(i) \/ UserToggles(i, TRUE) \/ UserToggles(i, FALSE)
          \/ AgentRemoves(i) \/ AgentDisables(i) \/ AgentEnables(i)
          \/ ThreadSaves(i)
          \/ Due(i) \/ RowDone(i)
          \/ LoopStep(i)
    \/ Reload
    \/ Crash \/ Boot

Spec == Init /\ [][Next]_vars

\* The event loop and the pool run what is ready, time passes, and a dead
\* process is started again. A loop that is cancelled and restarted over and
\* over still gets its turn between two requests.
Fairness ==
    /\ \A i \in Ids : /\ SF_vars(RunStart(i)) /\ WF_vars(Due(i))
                      /\ SF_vars(LoopStep(i))
                      /\ WF_vars(ThreadSaves(i))
    /\ SF_vars(Reload)
    /\ WF_vars(Boot)

FairSpec == Spec /\ Fairness

-----------------------------------------------------------------------------
(* Properties *)

\* "One fire, ever, per id" (sources.py, scheduled_once_dedup_key): the work of
\* a one-time task is never done again after it was done.
FiresOnce == [][\A i \in Once : row[i] = "done" => row'[i] = "done"]_vars

\* A one-time task that was granted and has not fired survives a crash at any
\* moment: the file or the trigger table has it.
NeverLost ==
    \A i \in Once : want[i] = "on" /\ row[i] = "none" =>
        file[i].there /\ file[i].on /\ ~file[i].fired

\* What was disabled or removed does not fire any more, whatever reloads,
\* restarts and other changes follow.
OffIsOff ==
    [][\A i \in Ids : (\E k \in Tasks : task[i][k] # "emit" /\ task'[i][k] = "emit")
                      => want[i] \notin {"off", "gone"}]_vars

\* Every schedule that is enabled has a loop in the table, or is about to get
\* one from a request or a reload that is under way.
EnabledHasLoop ==
    \A i \in Enabled(mem) : \/ Running(i) \/ i \in starting \/ reload.on

\* No schedule is run by two loops.
OneLoop ==
    \A i \in Ids : Cardinality({k \in Tasks : task[i][k] \in Live}) <= 1

\* A one-time task becomes a row of the trigger table some time, however late
\* and through whatever reloads and restarts, unless it is disabled or removed.
EventuallyFires ==
    \A i \in Once : want[i] = "on" ~> row[i] # "none" \/ want[i] # "on"
=============================================================================
