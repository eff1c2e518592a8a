------------------------------- MODULE AppLife -------------------------------
(***************************************************************************)
(* The life of Agent Apps: creation, launch, stop and deletion by users    *)
(* and agents, the watchdog that brings crashed apps back, the server      *)
(* process of each app, and the ports (app/agent_app/manager.py, runner.py *)
(* and instances.py). Apps are native ones; shadow instances, promotion,   *)
(* backups and programs of others on the ports are left out.               *)
(***************************************************************************)
EXTENDS Integers, Sequences, FiniteSets

CONSTANTS
    Apps,     \* project ids; one is never used again
    Ports,    \* the pool of live ports
    Procs,    \* bound: server processes that somebody still refers to
    Users,    \* bound: calls of users and agents at a time
    Env,      \* which of EnvOps happen
    Delays,   \* Len(WATCHDOG_RETRY_DELAYS)
    Dog,      \* the watchdog, as a holder of a launch lock
    NoApp, NoProc

\* "crash": CraftBot dies; "crash_in_delete": also while a deletion has
\* removed the files and not yet the registry entry; "cancel": a user stop or
\* the timeout of an action cancels the launch or creation it awaits.
EnvOps == {"crash", "crash_in_delete", "cancel"}

ASSUME PortsAssumption == Ports \subseteq Nat \ {0}
ASSUME NamesAssumption ==
    NoApp \notin Apps /\ NoProc \notin Procs /\ Dog \notin Users
ASSUME DelaysAssumption == Delays \in Nat
ASSUME EnvOpsAssumption == Env \subseteq EnvOps

VARIABLES
    \* --- on disk
    registered,  \* keys of self.projects, which every change saves
    tree,        \* projects whose directory exists
    port,        \* project.port, NoPort before the app was created
    \* --- in memory
    status,      \* project.status
    handle,      \* project.process
    retries,     \* retry_counts of the watchdog
    auto,        \* apps that auto_launch_projects has yet to launch
    reserved,    \* PortAllocator._reserved
    lock,        \* lock[a]: the holder of the launch lock, then who waits
    job,         \* job[u]: what a call is doing
    dog,         \* what the watchdog is doing
    \* --- outside
    server       \* server[q]: the app a process serves, and how far it is

vars == <<registered, tree, port, status, handle, retries, auto, reserved,
          lock, job, dog, server>>
disk == <<registered, tree, port>>

NoPort == 0
Tasks == Users \cup {Dog}

\* "stopped" stands for every other status: created, launching, error, ...
Status == {"stopped", "running"}

\* A launch waits for the lock, then gates the code, boots the server and
\* waits for its health; a deletion captures the data and then forgets the
\* app; a creation scaffolds it.
Steps == {"idle", "wait", "gate", "start", "health",
          "capture", "forget", "scaffold"}
Idle == [pc |-> "idle", app |-> NoApp, proc |-> NoProc]
Asleep == [pc |-> "idle", app |-> NoApp]
NoServer == [app |-> NoApp, state |-> "gone"]

TypeOK ==
    /\ registered \in SUBSET Apps
    /\ tree \in SUBSET Apps
    /\ port \in [Apps -> Ports \cup {NoPort}]
    /\ status \in [Apps -> Status]
    /\ handle \in [Apps -> Procs \cup {NoProc}]
    /\ retries \in [Apps -> 0..Delays]
    /\ auto \in SUBSET Apps
    /\ reserved \in SUBSET Ports
    /\ lock \in [Apps -> Seq(Tasks)]
    /\ job \in [Users -> [pc : Steps, app : Apps \cup {NoApp},
                          proc : Procs \cup {NoProc}]]
    /\ dog \in [pc : {"idle", "sleep", "wait", "start", "health"},
                app : Apps \cup {NoApp}]
    /\ server \in [Procs -> [app : Apps \cup {NoApp},
                             state : {"boot", "up", "gone"}]]

Init ==
    /\ registered = {} /\ tree = {}
    /\ port = [a \in Apps |-> NoPort]
    /\ status = [a \in Apps |-> "stopped"]
    /\ handle = [a \in Apps |-> NoProc]
    /\ retries = [a \in Apps |-> 0]
    /\ auto = {} /\ reserved = {}
    /\ lock = [a \in Apps |-> <<>>]
    /\ job = [u \in Users |-> Idle]
    /\ dog = Asleep
    /\ server = [q \in Procs |-> NoServer]

-----------------------------------------------------------------------------
(* Processes and ports *)

Serving(a) == {q \in Procs : server[q].app = a /\ server[q].state = "up"}
Booting(a) == {q \in Procs : server[q].app = a /\ server[q].state = "boot"}
Alive(a) == Serving(a) \cup Booting(a)
Gone(q) == server[q].state = "gone"

\* A process nothing in memory refers to.
Stray(q) == /\ ~Gone(q)
            /\ handle[server[q].app] # q
            /\ \A u \in Users : job[u].proc # q

\* Servers that listen on a's port, whosever they are.
OnPortOf(a) == {q \in Procs : /\ server[q].state = "up"
                              /\ port[server[q].app] = port[a]}

\* A process dies; the operating system knows nothing more of it.
Ended(Q) == [q \in Procs |-> IF q \in Q THEN NoServer ELSE server[q]]

\* _terminate_process of the handle, _kill_process_on_port of the port.
Killed(a) == {handle[a]} \cup OnPortOf(a)

\* project.process.poll() is not None.
HandleGone(a) == handle[a] # NoProc /\ Gone(handle[a])

\* _project_is_dead.
Dead(a) == HandleGone(a) \/ (handle[a] = NoProc /\ OnPortOf(a) = {})

\* A process that nothing in memory refers to can be a new one.
Unused(q) == /\ Gone(q)
             /\ \A a \in Apps : handle[a] # q
             /\ \A u \in Users : job[u].proc # q

\* A new server of a: it has yet to bind its port.
Boots(q, a) == /\ Unused(q)
               /\ server' = [server EXCEPT ![q] = [app |-> a, state |-> "boot"]]

\* The server binds its port, or finds it taken and exits.
Binds(q) ==
    /\ server[q].state = "boot"
    /\ \/ /\ OnPortOf(server[q].app) = {}
          /\ server' = [server EXCEPT ![q].state = "up"]
       \/ /\ OnPortOf(server[q].app) # {}
          /\ server' = Ended({q})
    /\ UNCHANGED <<disk, status, handle, retries, auto, reserved, lock, job,
                   dog>>

\* A server crashes, or fails to boot.
Exits(q) ==
    /\ ~Gone(q)
    /\ server' = Ended({q})
    /\ UNCHANGED <<disk, status, handle, retries, auto, reserved, lock, job,
                   dog>>

-----------------------------------------------------------------------------
(* The launch lock: an asyncio.Lock per project, first come, first served *)

\* Mutation of Holds: whoever waits goes on.
HoldsAll(t, a) == \E i \in 1..Len(lock[a]) : lock[a][i] = t
Holds(t, a) == lock[a] # <<>> /\ Head(lock[a]) = t
Queues(t, a) == lock' = [lock EXCEPT ![a] = Append(@, t)]
Releases(a) == lock' = [lock EXCEPT ![a] = Tail(@)]

\* A cancelled task leaves the lock, held or awaited.
Leaves(t, a) ==
    \E i \in 1..Len(lock[a]) :
        /\ lock[a][i] = t
        /\ lock' = [lock EXCEPT ![a] = SubSeq(@, 1, i - 1)
                                         \o SubSeq(@, i + 1, Len(@))]

Goes(u, pc) == job' = [job EXCEPT ![u].pc = pc]
Begins(u, pc, a) ==
    /\ job[u].pc = "idle"
    /\ job' = [job EXCEPT ![u] = [pc |-> pc, app |-> a, proc |-> NoProc]]
Finishes(u) == job' = [job EXCEPT ![u] = Idle]

-----------------------------------------------------------------------------
(* Launches *)

\* An app without its directory is refused, one with it waits for the lock.
Asks(u, a) == \/ /\ a \in tree
                 /\ Begins(u, "wait", a) /\ Queues(u, a)
              \/ a \notin tree /\ UNCHANGED <<job, lock>>

\* launch_and_verify (the agent's notify_ready), up to the launch lock.
LaunchAndVerify(u, a) ==
    /\ a \in registered
    /\ Asks(u, a)
    /\ UNCHANGED <<disk, status, handle, retries, auto, reserved, dog, server>>

\* launch_project (the user's launch button): what is running is not launched
\* again, unless its process is gone or its port is silent.
LaunchProject(u, a) ==
    /\ a \in registered
    /\ status[a] = "running" => HandleGone(a) \/ OnPortOf(a) = {}
    /\ Asks(u, a)
    /\ status' = IF status[a] = "running"
                 THEN [status EXCEPT ![a] = "stopped"] ELSE status
    /\ handle' = IF status[a] = "running" /\ HandleGone(a)
                 THEN [handle EXCEPT ![a] = NoProc] ELSE handle
    /\ UNCHANGED <<disk, retries, auto, reserved, dog, server>>

\* auto_launch_projects marks the app as launching, whatever it is by now.
AutoLaunch(u, a) ==
    /\ a \in auto
    /\ auto' = auto \ {a}
    /\ \/ /\ a \in registered
          /\ Asks(u, a)
          /\ status' = [status EXCEPT ![a] = "stopped"]
       \/ /\ a \notin registered
          /\ UNCHANGED <<job, lock, status>>
    /\ UNCHANGED <<disk, handle, retries, reserved, dog, server>>

\* _launch_native_locked with the lock: what is left of the app, and what
\* listens on its port, is killed; then the code is installed and gated.
Enters(u) ==
    LET a == job[u].app IN
    /\ job[u].pc = "wait" /\ Holds(u, a)
    /\ server' = Ended(Killed(a))
    /\ handle' = [handle EXCEPT ![a] = NoProc]
    /\ Goes(u, "gate")
    /\ UNCHANGED <<disk, status, retries, auto, reserved, lock, dog>>

\* The gate has passed: runner.start prepares the superuser and the adapter.
Passes(u) ==
    /\ job[u].pc = "gate" /\ job[u].app \in tree
    /\ Goes(u, "start")
    /\ UNCHANGED <<disk, status, handle, retries, auto, reserved, lock, dog,
                   server>>

\* The server is started.
Starts(u) ==
    /\ job[u].pc = "start"
    /\ \E q \in Procs :
          /\ Boots(q, job[u].app)
          /\ job' = [job EXCEPT ![u].pc = "health", ![u].proc = q]
    /\ UNCHANGED <<disk, status, handle, retries, auto, reserved, lock, dog>>

\* The gate, the start or the health check failed.
LaunchFails(u) ==
    LET a == job[u].app IN
    /\ job[u].pc \in {"gate", "start", "health"}
    /\ server' = Ended({job[u].proc})
    /\ status' = [status EXCEPT ![a] = "stopped"]
    /\ Releases(a) /\ Finishes(u)
    /\ UNCHANGED <<disk, handle, retries, auto, reserved, dog>>

\* It is our process that answers on the port.
LaunchSucceeds(u) ==
    LET a == job[u].app IN
    /\ job[u].pc = "health" /\ job[u].proc \in Serving(a)
    /\ handle' = [handle EXCEPT ![a] = job[u].proc]
    /\ reserved' = reserved \cup {port[a]}
    /\ status' = [status EXCEPT ![a] = "running"]
    /\ Releases(a) /\ Finishes(u)
    /\ UNCHANGED <<disk, retries, auto, dog, server>>

\* The launch is cancelled at an await: `except Exception` does not see it, and
\* the server it has started goes on.
LaunchCancelled(u) ==
    /\ "cancel" \in Env
    /\ job[u].pc \in {"wait", "gate", "start", "health"}
    /\ Leaves(u, job[u].app) /\ Finishes(u)
    /\ UNCHANGED <<disk, status, handle, retries, auto, reserved, dog, server>>

-----------------------------------------------------------------------------
(* Stop, create, delete *)

\* What stop_project does, without the launch lock.
Stopped(a) ==
    /\ server' = Ended(Killed(a))
    /\ handle' = [handle EXCEPT ![a] = NoProc]
    /\ status' = [status EXCEPT ![a] = "stopped"]

StopProject(a) ==
    /\ a \in registered
    /\ Stopped(a)
    /\ UNCHANGED <<disk, retries, auto, reserved, lock, job, dog>>

\* Mutation of Free: a port is free as long as nobody listens.
FreeNow == {p \in Ports :
               \A q \in Procs : server[q].state = "up" => port[server[q].app] # p}

\* PortAllocator.reserve: the lowest port that is neither reserved nor in use.
Free == {p \in Ports \ reserved :
            \A q \in Procs : server[q].state = "up" => port[server[q].app] # p}

\* create_project reserves a port and scaffolds the app ...
CreateProject(u, a) ==
    /\ port[a] = NoPort
    /\ Begins(u, "scaffold", a)
    /\ \E p \in Free :
          /\ \A o \in Free : p <= o
          /\ port' = [port EXCEPT ![a] = p]
          /\ reserved' = reserved \cup {p}
    /\ UNCHANGED <<registered, tree, status, handle, retries, auto, lock, dog,
                   server>>

\* ... and registers it, or returns the port; a cancelled creation keeps it.
CreateEnds(u) ==
    LET a == job[u].app IN
    /\ job[u].pc = "scaffold"
    /\ Finishes(u)
    /\ \/ /\ registered' = registered \cup {a}
          /\ tree' = tree \cup {a}
          /\ UNCHANGED <<port, reserved>>
       \/ /\ \/ reserved' = reserved \ {port[a]}
             \/ "cancel" \in Env /\ UNCHANGED reserved
          /\ port' = [port EXCEPT ![a] = NoPort]
          /\ UNCHANGED <<registered, tree>>
    /\ UNCHANGED <<status, handle, retries, auto, lock, dog, server>>

\* delete_project stops a running app and captures its data. Bound: one
\* deletion of an app at a time.
DeleteProject(u, a) ==
    /\ a \in registered
    /\ \A v \in Users : ~(job[v].app = a /\ job[v].pc \in {"capture", "forget"})
    /\ Begins(u, "capture", a)
    /\ \/ status[a] = "running" /\ Stopped(a)
       \/ status[a] # "running" /\ UNCHANGED <<server, handle, status>>
    /\ UNCHANGED <<disk, retries, auto, reserved, lock, dog>>

\* Then the port is released and the directory removed ...
DeleteRemoves(u) ==
    LET a == job[u].app IN
    /\ job[u].pc = "capture"
    /\ reserved' = reserved \ {port[a]}
    /\ tree' = tree \ {a}
    /\ Goes(u, "forget")
    /\ UNCHANGED <<registered, port, status, handle, retries, auto, lock, dog,
                   server>>

\* ... and, when the session's triggers are cancelled, the app forgotten.
DeleteEnds(u) ==
    /\ job[u].pc = "forget"
    /\ registered' = registered \ {job[u].app}
    /\ Finishes(u)
    /\ UNCHANGED <<tree, port, status, handle, retries, auto, reserved, lock,
                   dog, server>>

-----------------------------------------------------------------------------
(* The watchdog *)

DogGoes(pc) == dog' = [dog EXCEPT !.pc = pc]
Settled(a) == retries' = [retries EXCEPT ![a] = 0]

\* _watchdog_loop comes to app a: it sleeps before a restart, or escalates
\* when the restarts are used up.
Examine(a) ==
    /\ dog.pc = "idle"
    /\ a \in registered
    /\ \/ /\ status[a] # "running" \/ ~Dead(a)
          /\ Settled(a)
          /\ UNCHANGED <<dog, status, handle>>
       \/ /\ status[a] = "running" /\ Dead(a)
          /\ retries[a] < Delays
          /\ retries' = [retries EXCEPT ![a] = @ + 1]
          /\ dog' = [pc |-> "sleep", app |-> a]
          /\ UNCHANGED <<status, handle>>
       \/ /\ status[a] = "running" /\ Dead(a)
          /\ retries[a] = Delays
          /\ Settled(a)
          /\ status' = [status EXCEPT ![a] = "stopped"]
          /\ handle' = [handle EXCEPT ![a] = NoProc]
          /\ UNCHANGED dog
    /\ UNCHANGED <<disk, auto, reserved, lock, job, server>>

\* The delay is over: _watchdog_restart asks for the launch lock.
DogWakes ==
    /\ dog.pc = "sleep"
    /\ DogGoes("wait") /\ Queues(Dog, dog.app)
    /\ UNCHANGED <<disk, status, handle, retries, auto, reserved, job, server>>

\* Mutation of DogEnters: what was dead before the delay is restarted.
DogEntersBlindly ==
    LET a == dog.app IN
    /\ dog.pc = "wait" /\ Holds(Dog, a)
    /\ handle' = [handle EXCEPT ![a] = NoProc]
    /\ server' = Ended(OnPortOf(a))
    /\ DogGoes("start")
    /\ UNCHANGED <<disk, status, retries, auto, reserved, lock, job>>

\* With the lock it looks again: an app that came back is left alone, the
\* port of a dead one is cleared.
DogEnters ==
    LET a == dog.app IN
    /\ dog.pc = "wait" /\ Holds(Dog, a)
    /\ \/ /\ ~Dead(a)
          /\ Settled(a)
          /\ Releases(a) /\ dog' = Asleep
          /\ UNCHANGED <<handle, server>>
       \/ /\ Dead(a)
          /\ handle' = [handle EXCEPT ![a] = NoProc]
          /\ server' = Ended(OnPortOf(a))
          /\ DogGoes("start")
          /\ UNCHANGED <<retries, lock>>
    /\ UNCHANGED <<disk, status, auto, reserved, job>>

DogStarts ==
    /\ dog.pc = "start"
    /\ \E q \in Procs : /\ Boots(q, dog.app)
                        /\ handle' = [handle EXCEPT ![dog.app] = q]
    /\ DogGoes("health")
    /\ UNCHANGED <<disk, status, retries, auto, reserved, lock, job>>

\* The start raised, or nothing has answered in time. The handle stays.
DogFails ==
    LET a == dog.app IN
    /\ \/ dog.pc = "start"
       \/ dog.pc = "health" /\ OnPortOf(a) = {}
    /\ Releases(a) /\ dog' = Asleep
    /\ UNCHANGED <<disk, status, handle, retries, auto, reserved, job, server>>

\* Somebody answers on the port.
DogHealthy ==
    LET a == dog.app IN
    /\ dog.pc = "health" /\ OnPortOf(a) # {}
    /\ reserved' = reserved \cup {port[a]}
    /\ Settled(a)
    /\ Releases(a) /\ dog' = Asleep
    /\ UNCHANGED <<disk, status, handle, auto, job, server>>

-----------------------------------------------------------------------------
(* CraftBot dies and is started again: the ledger's processes are reaped, and
   the registry is loaded with every app stopped and its port reserved. *)

Restart ==
    /\ "crash" \in Env
    /\ "crash_in_delete" \in Env \/ \A u \in Users : job[u].pc # "forget"
    /\ port' = [a \in Apps |->
                   IF \E u \in Users : job[u].pc = "scaffold" /\ job[u].app = a
                   THEN NoPort ELSE port[a]]
    /\ status' = [a \in Apps |-> "stopped"]
    /\ handle' = [a \in Apps |-> NoProc]
    /\ retries' = [a \in Apps |-> 0]
    /\ auto' = registered
    /\ reserved' = {port[a] : a \in registered}
    /\ lock' = [a \in Apps |-> <<>>]
    /\ job' = [u \in Users |-> Idle]
    /\ dog' = Asleep
    /\ server' = [q \in Procs |-> NoServer]
    /\ UNCHANGED <<registered, tree>>

\* What a call asks for, and what it does by itself once it has begun.
Calls(u) ==
    \E a \in Apps : \/ LaunchAndVerify(u, a) \/ LaunchProject(u, a)
                   \/ AutoLaunch(u, a)
                   \/ CreateProject(u, a) \/ DeleteProject(u, a)

Proceeds(u) ==
    \/ Enters(u) \/ Passes(u) \/ Starts(u)
    \/ LaunchFails(u) \/ LaunchSucceeds(u) \/ LaunchCancelled(u)
    \/ CreateEnds(u) \/ DeleteRemoves(u) \/ DeleteEnds(u)

DogNext == \/ \E a \in Apps : Examine(a)
           \/ DogWakes \/ DogEnters \/ DogStarts \/ DogFails \/ DogHealthy

Next ==
    \/ \E u \in Users : Calls(u) \/ Proceeds(u)
    \/ \E a \in Apps : StopProject(a)
    \/ DogNext
    \/ \E q \in Procs : Binds(q) \/ Exits(q)
    \/ Restart

Spec == Init /\ [][Next]_vars

-----------------------------------------------------------------------------
(* Properties *)

\* Two server processes never work on the same app's data (_launch_lock,
\* _launch_native_locked and _watchdog_restart), unless a cancelled launch has
\* left one of them behind.
OneWriter ==
    \A a \in Apps : \A p, q \in Alive(a) : p = q \/ Stray(p) \/ Stray(q)

\* No two apps have the same port: it is "owned for the project's lifetime"
\* (instances.py, register_live).
PortsApart == \A a, b \in registered \cap tree : port[a] = port[b] => a = b

\* The watchdog never kills a server that answers ("Restarting again from here
\* would kill the app the other launch just started", _watchdog_restart),
\* unless it restarts an app that was deleted meanwhile, or nothing knows the
\* server.
SparesServing ==
    [][DogNext =>
         \A a \in registered \cap tree :
            a = dog.app \/ dog.app \in tree =>
               \A q \in Serving(a) : Stray(q) \/ q \in Serving(a)']_vars
=============================================================================
