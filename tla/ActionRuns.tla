------------------------------ MODULE ActionRuns ------------------------------
(***************************************************************************)
(* The actions a session's turns execute and the user's stop that ends     *)
(* them: the executor and its two pools (agent_core action/executor.py),   *)
(* the action manager's waiting, cancelling and recording (manager.py),    *)
(* the registry of processes a stop kills (cancellation.py), the           *)
(* sub-agents that run actions of their own from inside one (app/subagent),*)
(* and the session runtime's request_stop and settlement (runtime.py).     *)
(*                                                                         *)
(* The turn, its calls and the settlement are on the event loop; a body is *)
(* on a pool thread, in a pool process or, when asynchronous, on the loop; *)
(* the kill runs on a thread of asyncio's own pool. What happens to the    *)
(* triggers meanwhile is in TriggerPlane.                                  *)
(***************************************************************************)
EXTENDS Integers, FiniteSets

CONSTANTS
    Ids,       \* bound: executions of actions, named by their run_id
    Kinds,     \* which of AllKinds are executed
    Env,       \* which of EnvOps happen
    Workers,   \* threads of THREAD_POOL
    MaxTurns   \* bound: turns of the session

\* How an action runs: an async function; a sync function on a thread; one
\* that waits for a process it has registered (run_shell, grep_files); one
\* in a pool process with a marked child; spawn_subagent, on a thread.
AllKinds == {"coro", "thread", "shell", "sandbox", "subagent"}

\* The process dies; the kill cannot be started.
EnvOps == {"crash", "kill_fails"}

ASSUME SetsAssumption == Kinds \subseteq AllKinds /\ Env \subseteq EnvOps
ASSUME BoundsAssumption == Workers \in Nat /\ MaxTurns \in Nat

\* An execution of a turn's batch, and one that a sub-agent makes from it.
Jobs == Ids \X {"own", "sub"}
IsOwn(j) == j[2] = "own"
Sub(j) == <<j[1], "sub">>
Own(j) == <<j[1], "own">>

VARIABLES
    up,       \* whether the process is up
    lane,     \* what the session's consumer loop is doing
    turn,     \* its latest turn
    stop,     \* its _StopSignal: requested, and whether the kill is over
    sweep,    \* what the kill is doing
    todo,     \* handles it has taken and not looked at
    of,       \* the turn an execution belongs to, 0 before there is one
    kind, call, body,   \* of every execution
    proc,     \* what the pid of the execution's process names
    registry, \* _procs: the executions whose handle is registered
    markers,  \* marker files: they survive the process
    \* --- history, not part of the program
    quiet,    \* turns whose stop has settled: "Run stopped." was shown
    spared,   \* executions no stop could reach, as of that stop
    swept     \* the turn the current kill was started for

jobs == <<of, kind, call, body>>
kill == <<sweep, todo, swept>>
os == <<proc, registry, markers>>
history == <<quiet, spared>>
vars == <<up, lane, turn, stop, kill, jobs, os, history>>

\* execute_action: awaits its body; unwinds it after its own timeout, or
\* after the stop's cancel; has recorded its end.
Call == {"none", "awaits", "expires", "cancelled", "ended"}

\* The function: waits for a worker; runs; has started a process; has also
\* registered it and waits for it to exit; has returned or never will start.
Body == {"none", "queued", "working", "spawned", "watching", "over"}
Held == {"working", "spawned", "watching"}

TypeOK ==
    /\ up \in BOOLEAN
    /\ lane \in {"idle", "thinks", "acts", "stopped"}
    /\ turn \in 0..MaxTurns
    /\ stop \in {"none", "asked", "swept"}
    /\ sweep \in {"none", "starts", "handles", "done"}
    /\ todo \in SUBSET Jobs
    /\ of \in [Ids -> 0..MaxTurns]
    /\ kind \in [Jobs -> Kinds \cup {"none"}]
    /\ call \in [Jobs -> Call]
    /\ body \in [Jobs -> Body]
    /\ proc \in [Jobs -> {"none", "alive", "dead", "foreign"}]
    /\ registry \in SUBSET Jobs /\ markers \in SUBSET Jobs
    /\ quiet \in SUBSET (0..MaxTurns) /\ spared \in SUBSET Jobs
    /\ swept \in 0..MaxTurns

Nothing == [j \in Jobs |-> "none"]

Init == /\ up = TRUE /\ lane = "idle" /\ turn = 0
        /\ stop = "none" /\ sweep = "none" /\ todo = {} /\ swept = 0
        /\ of = [i \in Ids |-> 0]
        /\ kind = Nothing /\ call = Nothing /\ body = Nothing
        /\ proc = Nothing /\ registry = {} /\ markers = {}
        /\ quiet = {} /\ spared = {}

-----------------------------------------------------------------------------
(* The turn *)

\* Executions of the current turn's batch.
TurnOf(j) == of[j[1]]
Current(j) == TurnOf(j) = turn /\ IsOwn(j)

StartTurn ==
    /\ up
    /\ lane = "idle"
    /\ turn < MaxTurns
    /\ turn' = turn + 1
    /\ lane' = "thinks"
    /\ UNCHANGED <<up, stop, kill, jobs, os, history>>

\* The execution is handed to its pool; an async function starts at once.
FirstStage(k) == IF k = "coro" THEN "working" ELSE "queued"

\* execute_actions_parallel creates the calls of a decided batch.
Batch(chosen, k) ==
    LET New(j) == j[1] \in chosen /\ IsOwn(j) IN
    /\ of' = [i \in Ids |-> IF i \in chosen THEN turn ELSE of[i]]
    /\ kind' = [j \in Jobs |-> IF New(j) THEN k[j[1]] ELSE kind[j]]
    /\ call' = [j \in Jobs |-> IF New(j) THEN "awaits" ELSE call[j]]
    /\ body' = [j \in Jobs |-> IF New(j) THEN FirstStage(k[j[1]]) ELSE body[j]]

SelectBatch ==
    /\ lane = "thinks"
    /\ \E chosen \in (SUBSET {i \in Ids : of[i] = 0}) \ {{}} :
       \E k \in [chosen -> Kinds] : Batch(chosen, k)
    /\ lane' = "acts"
    /\ UNCHANGED <<up, turn, stop, kill, os, history>>

Over(j) == call[j] \in {"none", "ended"}

\* Mutation of TurnLeaves: a cancelled batch does not wait for its calls.
TurnLeavesAtOnce ==
    /\ lane \in {"thinks", "acts"}
    /\ stop # "none" \/ \A j \in Jobs : Current(j) => Over(j)
    /\ lane' = IF stop = "none" THEN "idle" ELSE "stopped"
    /\ UNCHANGED <<up, turn, stop, kill, jobs, os, history>>

\* The turn's task is over. Once a stop was requested _run_turn makes that a
\* cancellation, whatever the turn made of it.
TurnLeaves ==
    /\ lane \in {"thinks", "acts"}
    /\ \A j \in Jobs : Current(j) => Over(j)
    /\ lane' = IF stop = "none" THEN "idle" ELSE "stopped"
    /\ UNCHANGED <<up, turn, stop, kill, jobs, os, history>>

\* Mutation of Settle: processes_stopped is not awaited.
SettleUnswept ==
    /\ lane = "stopped"
    /\ lane' = "idle"
    /\ stop' = "none"
    /\ quiet' = quiet \cup {turn}
    /\ UNCHANGED <<up, turn, kill, jobs, os, spared>>

\* _consume settles the stopped turn and shows that the run was stopped.
Settle ==
    /\ lane = "stopped"
    /\ stop = "swept"
    /\ lane' = "idle"
    /\ stop' = "none"
    /\ quiet' = quiet \cup {turn}
    /\ UNCHANGED <<up, turn, kill, jobs, os, spared>>

-----------------------------------------------------------------------------
(* One execution *)

\* A function that runs on a thread of THREAD_POOL.
Pooled(j) == kind[j] \in {"thread", "shell", "subagent"}

WorkerIsFree ==
    Cardinality({j \in Jobs : Pooled(j) /\ body[j] \in Held}) < Workers

Becomes(j, stage) == body' = [body EXCEPT ![j] = stage]

\* The process pool has its own workers, as many as it needs here.
WorkerTakes(j) ==
    /\ body[j] = "queued"
    /\ Pooled(j) => WorkerIsFree
    /\ Becomes(j, "working")
    /\ UNCHANGED <<up, lane, turn, stop, kill, of, kind, call, os, history>>

\* Mutation of BodyReturns: a sub-agent is not driven to its end.
BodyReturnsEarly(j) ==
    /\ body[j] = "working"
    /\ kind[j] \in {"coro", "thread", "subagent"}
    /\ Becomes(j, "over")
    /\ UNCHANGED <<up, lane, turn, stop, kill, of, kind, call, os, history>>

\* run_to_completion waits for the action the sub-agent has chosen.
BodyReturns(j) ==
    /\ body[j] = "working"
    /\ kind[j] \in {"coro", "thread", "subagent"}
    /\ kind[j] = "subagent" => Over(Sub(j))
    /\ Becomes(j, "over")
    /\ UNCHANGED <<up, lane, turn, stop, kill, of, kind, call, os, history>>

\* The sub-agent executes an action on its own loop and under its own id.
SubStarts(j) ==
    /\ IsOwn(j) /\ kind[j] = "subagent"
    /\ body[j] = "working"
    /\ kind[Sub(j)] = "none"
    /\ \E k \in Kinds \ {"subagent", "sandbox"} :
          /\ kind' = [kind EXCEPT ![Sub(j)] = k]
          /\ call' = [call EXCEPT ![Sub(j)] = "awaits"]
          /\ body' = [body EXCEPT ![Sub(j)] = FirstStage(k)]
    /\ UNCHANGED <<up, lane, turn, stop, kill, of, os, history>>

\* Popen
BodySpawns(j) ==
    /\ body[j] = "working"
    /\ kind[j] \in {"shell", "sandbox"}
    /\ Becomes(j, "spawned")
    /\ proc' = [proc EXCEPT ![j] = "alive"]
    /\ UNCHANGED <<up, lane, turn, stop, kill, of, kind, call, registry, markers,
                   history>>

\* register_process, or mark_subprocess in the pool process.
BodyRegisters(j) ==
    /\ body[j] = "spawned"
    /\ Becomes(j, "watching")
    /\ IF kind[j] = "shell" THEN registry' = registry \cup {j} /\ UNCHANGED markers
                            ELSE markers' = markers \cup {j} /\ UNCHANGED registry
    /\ UNCHANGED <<up, lane, turn, stop, kill, of, kind, call, proc, history>>

\* unregister_process, unmark_subprocess
Unregister(j) == registry' = registry \ {j} /\ markers' = markers \ {j}

\* communicate() returns: the process was reaped.
BodyReaps(j) ==
    /\ body[j] = "watching"
    /\ proc[j] = "dead"
    /\ Becomes(j, "over")
    /\ Unregister(j)
    /\ UNCHANGED <<up, lane, turn, stop, kill, of, kind, call, proc, history>>

\* communicate(timeout) gives up and kills the process itself.
BodyGivesUp(j) ==
    /\ body[j] = "watching"
    /\ proc[j] = "alive"
    /\ Becomes(j, "over")
    /\ proc' = [proc EXCEPT ![j] = "dead"]
    /\ Unregister(j)
    /\ UNCHANGED <<up, lane, turn, stop, kill, of, kind, call, history>>

\* Cancelling a future whose function has not started takes it off the queue.
Dequeued(j) == IF body[j] = "queued" THEN "over" ELSE body[j]

\* Mutation of ActionTimesOut: the future is abandoned, not cancelled.
ActionTimesOutShielded(j) ==
    /\ call[j] = "awaits"
    /\ body[j] # "over"
    /\ call' = [call EXCEPT ![j] = IF kind[j] = "sandbox" THEN "ended"
                                   ELSE "expires"]
    /\ UNCHANGED <<up, lane, turn, stop, kill, of, kind, body, os, history>>

\* wait_for cancels the body and waits for it to unwind; the future of a pool
\* process is cancelled at once, whatever its worker does.
ActionTimesOut(j) ==
    /\ call[j] = "awaits"
    /\ body[j] # "over"
    /\ call' = [call EXCEPT ![j] = IF kind[j] = "sandbox" THEN "ended"
                                   ELSE "expires"]
    /\ Becomes(j, Dequeued(j))
    /\ UNCHANGED <<up, lane, turn, stop, kill, of, kind, os, history>>

\* Mutation of CallEnds: a cancelled call does not wait for its thread.
CallEndsAtOnce(j) ==
    /\ ~Over(j)
    /\ body[j] = "over" \/ call[j] = "cancelled"
    /\ call' = [call EXCEPT ![j] = "ended"]
    /\ UNCHANGED <<up, lane, turn, stop, kill, of, kind, body, os, history>>

\* The call records the outcome and returns or re-raises: when its body has
\* returned, also after a cancel, unless that is in a pool process.
CallEnds(j) ==
    /\ ~Over(j)
    /\ body[j] = "over" \/ (call[j] = "cancelled" /\ kind[j] = "sandbox")
    /\ call' = [call EXCEPT ![j] = "ended"]
    /\ UNCHANGED <<up, lane, turn, stop, kill, of, kind, body, os, history>>

-----------------------------------------------------------------------------
(* The stop *)

\* turn.cancel() reaches every call of the batch. One that is being unwound
\* already, by its timeout or by a first cancel, lets its executor stop waiting
\* for the thread.
CancelledCall(j) ==
    CASE call[j] = "awaits" -> "cancelled"
      [] call[j] \in {"expires", "cancelled"} /\ Pooled(j) -> "ended"
      [] OTHER -> call[j]

CancelTurn ==
    /\ call' = [j \in Jobs |-> IF Current(j) THEN CancelledCall(j) ELSE call[j]]
    /\ body' = [j \in Jobs |-> IF Current(j) /\ call[j] = "awaits"
                               THEN Dequeued(j) ELSE body[j]]

\* What the kill and the settlement do not reach: a process-pool worker that
\* has no marked child yet (no worker at all without a kill), and a thread
\* whose call has run into its timeout.
OutOfReach(killed) ==
    {j \in Jobs : \/ /\ kind[j] = "sandbox" /\ body[j] \in Held
                     /\ killed => body[j] # "watching"
                  \/ Current(j) /\ Pooled(j) /\ call[j] = "expires"}

\* Mutation of RequestStop: a repeated stop cancels the turn again.
RequestStopAgain ==
    /\ lane \in {"thinks", "acts"}
    /\ lane' = "acts"
    /\ CancelTurn
    /\ stop' = "asked" /\ sweep' = "starts" /\ todo' = {} /\ swept' = turn
    /\ spared' = IF stop = "none" THEN spared \cup OutOfReach(TRUE) ELSE spared
    /\ UNCHANGED <<up, turn, of, kind, os, quiet>>

\* request_stop with a turn in flight; the request for a decision is
\* cancelled like any other work. A repeated stop joins this one.
RequestStop ==
    /\ lane \in {"thinks", "acts"}
    /\ stop = "none"
    /\ lane' = "acts"
    /\ CancelTurn
    /\ stop' = "asked" /\ sweep' = "starts" /\ todo' = {} /\ swept' = turn
    /\ spared' = spared \cup OutOfReach(TRUE)
    /\ UNCHANGED <<up, turn, of, kind, os, quiet>>

\* The executor refuses the kill: processes_stopped is set all the same.
RequestStopUnkilled ==
    /\ "kill_fails" \in Env
    /\ lane \in {"thinks", "acts"}
    /\ stop = "none"
    /\ lane' = "acts"
    /\ CancelTurn
    /\ stop' = "swept"
    /\ spared' = spared \cup OutOfReach(FALSE)
    /\ UNCHANGED <<up, turn, kill, of, kind, os, quiet>>

\* kill_session_processes takes the session's handles, which do not include
\* those of its sub-agents,
SweepTakes ==
    /\ sweep = "starts"
    /\ sweep' = "handles"
    /\ todo' = {j \in registry : IsOwn(j)}
    /\ registry' = registry \ todo'
    /\ UNCHANGED <<up, lane, turn, stop, swept, jobs, proc, markers, history>>

Killed(j) == IF proc[j] = "alive" THEN "dead" ELSE proc[j]

\* kills one process after the other, unless it has exited,
SweepKills(j) ==
    /\ sweep = "handles"
    /\ j \in todo
    /\ todo' = todo \ {j}
    /\ proc' = [proc EXCEPT ![j] = Killed(j)]
    /\ UNCHANGED <<up, lane, turn, stop, sweep, swept, jobs, registry, markers,
                   history>>

\* Mutation of SweepMarkers: a marker is the pid alone.
SweepMarkersByPid ==
    /\ sweep = "handles" /\ todo = {}
    /\ sweep' = "done"
    /\ proc' = [j \in Jobs |-> IF j \in markers THEN "dead" ELSE proc[j]]
    /\ markers' = {}
    /\ UNCHANGED <<up, lane, turn, stop, todo, swept, jobs, registry, history>>

\* and then what the marker files name, if it is still what was marked.
SweepMarkers ==
    /\ sweep = "handles" /\ todo = {}
    /\ sweep' = "done"
    /\ proc' = [j \in Jobs |-> IF j \in markers THEN Killed(j) ELSE proc[j]]
    /\ markers' = {}
    /\ UNCHANGED <<up, lane, turn, stop, todo, swept, jobs, registry, history>>

\* The kill's future calls back on the loop.
SweepReported ==
    /\ sweep = "done"
    /\ sweep' = "none"
    /\ stop' = "swept"
    /\ UNCHANGED <<up, lane, turn, todo, swept, jobs, os, history>>

-----------------------------------------------------------------------------
(* The operating system *)

ProcExits(j) ==
    /\ proc[j] = "alive"
    /\ proc' = [proc EXCEPT ![j] = "dead"]
    /\ UNCHANGED <<up, lane, turn, stop, kill, jobs, registry, markers, history>>

\* The pid of a process that was reaped goes to an unrelated program.
Recycle(j) ==
    /\ proc[j] = "dead"
    /\ body[j] \notin Held
    /\ proc' = [proc EXCEPT ![j] = "foreign"]
    /\ UNCHANGED <<up, lane, turn, stop, kill, jobs, registry, markers, history>>

\* Threads die with the process; children and marker files do not.
Crash ==
    /\ "crash" \in Env
    /\ up
    /\ up' = FALSE
    /\ lane' = "idle" /\ stop' = "none"
    /\ sweep' = "none" /\ todo' = {} /\ swept' = 0
    /\ kind' = Nothing /\ call' = Nothing /\ body' = Nothing
    /\ registry' = {}
    /\ quiet' = {} /\ spared' = {}
    /\ UNCHANGED <<turn, of, proc, markers>>

Boot ==
    /\ ~up
    /\ up' = TRUE
    /\ UNCHANGED <<lane, turn, stop, kill, jobs, os, history>>

-----------------------------------------------------------------------------

Process(j) == BodySpawns(j) \/ BodyRegisters(j) \/ BodyReaps(j) \/ BodyGivesUp(j)

Sweeping ==
    \/ SweepTakes \/ SweepMarkers \/ SweepReported
    \/ \E j \in Jobs : SweepKills(j)

Next ==
    \/ StartTurn \/ SelectBatch \/ TurnLeaves \/ Settle
    \/ RequestStop \/ RequestStopUnkilled
    \/ Sweeping \/ Crash \/ Boot
    \/ \E j \in Jobs :
          \/ WorkerTakes(j) \/ BodyReturns(j) \/ SubStarts(j) \/ Process(j)
          \/ ActionTimesOut(j) \/ CallEnds(j)
          \/ ProcExits(j) \/ Recycle(j)

Spec == Init /\ [][Next]_vars

\* The loop and the threads run what is ready, a function on a thread returns
\* some time, and what waits on a process or for a worker has a timeout.
Fairness ==
    /\ WF_vars(TurnLeaves) /\ WF_vars(Settle) /\ WF_vars(Sweeping)
    /\ \A j \in Jobs :
          /\ WF_vars(WorkerTakes(j)) /\ WF_vars(BodyReturns(j))
          /\ WF_vars(Process(j))
          /\ WF_vars(ActionTimesOut(j)) /\ WF_vars(CallEnds(j))

FairSpec == Spec /\ Fairness

-----------------------------------------------------------------------------
(* Properties *)

\* Whether the function of an execution, or its process, still does things.
Active(j) == \/ body[j] \in {"queued", "working", "spawned"}
             \/ body[j] = "watching" /\ (kind[j] = "sandbox" => proc[j] = "alive")

\* "Settlement WAITS for in-flight work: the spinner runs until the last real
\* action finishes, and only then 'Run stopped.' shows" (executor.py): nothing
\* of a stopped run goes on after that, sub-agents and their actions included,
\* except what was out of reach when the stop came.
StopIsQuiet ==
    \A j \in Jobs :
        TurnOf(j) \in quiet /\ Active(j) => j \in spared \/ Own(j) \in spared

\* Every execution of a turn has recorded its end before the session goes on,
\* whatever ended the turn: no row of the user interface is left spinning and
\* none of the turn's records comes after the next turn has begun.
NothingSpins ==
    lane \in {"idle", "stopped"} => \A j \in Jobs : IsOwn(j) => Over(j)

\* A stop kills processes of the run it stops, or that earlier runs and lives
\* of the process have left behind: never one of the next run, although it is
\* another thread that kills, and never an unrelated program that has got the
\* pid of a process that died with its marker in place.
KillsOnlyItsRun ==
    [][Sweeping =>
          \A j \in Jobs : proc'[j] # proc[j] =>
              proc[j] = "alive" /\ TurnOf(j) <= swept]_vars

\* A stop comes to an end, with threads that cannot be interrupted, processes
\* that were registered too late to be killed, and sub-agents that hold the
\* workers their own actions wait for.
StopSettles == stop # "none" ~> stop = "none"
=============================================================================
