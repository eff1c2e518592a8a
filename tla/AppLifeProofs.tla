----------------------------- MODULE AppLifeProofs -----------------------------
(***************************************************************************)
(* For any apps, ports, processes and calls: one server per app, one port  *)
(* per app, and a watchdog that kills nothing that answers, the servers    *)
(* that a cancelled launch leaves behind apart.                            *)
(***************************************************************************)
EXTENDS AppLife, TLAPS

-----------------------------------------------------------------------------
(* Types *)

\* The types of everything but the reservations.
DiskTypes ==
    /\ registered \in SUBSET Apps
    /\ tree \in SUBSET Apps
    /\ port \in [Apps -> Ports \cup {NoPort}]
    /\ auto \in SUBSET Apps

MemoryTypes ==
    /\ status \in [Apps -> Status]
    /\ handle \in [Apps -> Procs \cup {NoProc}]
    /\ retries \in [Apps -> 0..Delays]
    /\ lock \in [Apps -> Seq(Tasks)]

CallTypes ==
    /\ job \in [Users -> [pc : Steps, app : Apps \cup {NoApp},
                          proc : Procs \cup {NoProc}]]
    /\ dog \in [pc : {"idle", "sleep", "wait", "start", "health"},
                app : Apps \cup {NoApp}]
    /\ server \in [Procs -> [app : Apps \cup {NoApp},
                             state : {"boot", "up", "gone"}]]

\* Who has begun something has an app in hand; a live process serves an app.
Named ==
    /\ \A u \in Users : job[u].pc # "idle" => job[u].app \in Apps
    /\ dog.pc # "idle" => dog.app \in Apps
    /\ \A q \in Procs : ~Gone(q) => server[q].app \in Apps

Typed == DiskTypes /\ MemoryTypes /\ CallTypes /\ Named

\* A launch that has begun holds the lock of its app.
Locked ==
    /\ \A u \in Users : job[u].pc \in {"gate", "start", "health"}
                            => Holds(u, job[u].app)
    /\ dog.pc \in {"start", "health"} => Holds(Dog, dog.app)

LEMMA TypedInit == Init => Typed
<1> SUFFICES ASSUME Init PROVE Typed OBVIOUS
<1>1. DiskTypes BY DEF Init, DiskTypes
<1>2. MemoryTypes BY DelaysAssumption DEF Init, MemoryTypes, Status
<1>3. CallTypes
  BY DEF Init, CallTypes, Steps, Idle, Asleep, NoServer
<1>4. Named BY DEF Init, Named, Idle, Asleep, NoServer, Gone
<1> QED BY <1>1, <1>2, <1>3, <1>4 DEF Typed

\* A dead process serves nobody; the others are as they were.
LEMMA EndedTypes ==
    ASSUME CallTypes, NEW Q
    PROVE  /\ Ended(Q) \in [Procs -> [app : Apps \cup {NoApp},
                                      state : {"boot", "up", "gone"}]]
           /\ \A q \in Procs : Ended(Q)[q].state # "gone"
                  => q \notin Q /\ Ended(Q)[q] = server[q]
BY DEF CallTypes, Ended, NoServer

\* A call for a launch waits with the app in hand, or is refused.
LEMMA AskTypes ==
    ASSUME Typed, NEW u \in Users, NEW a \in Apps, Asks(u, a)
    PROVE  /\ job' \in [Users -> [pc : Steps, app : Apps \cup {NoApp},
                                  proc : Procs \cup {NoProc}]]
           /\ \A v \in Users : job'[v].pc # "idle" => job'[v].app \in Apps
           /\ lock' \in [Apps -> Seq(Tasks)]
<1>1. CASE UNCHANGED <<job, lock>>
  BY <1>1 DEF Typed, MemoryTypes, CallTypes, Named
<1>2. CASE Begins(u, "wait", a) /\ Queues(u, a)
  BY <1>2 DEF Begins, Queues, Typed, MemoryTypes, CallTypes, Named, Steps,
     Tasks
<1> QED BY <1>1, <1>2 DEF Asks

LEMMA CallsTyped ==
    ASSUME Typed, NEW u \in Users, Calls(u)
    PROVE  Typed'
<1>1. ASSUME NEW a \in Apps, LaunchAndVerify(u, a) PROVE Typed'
  BY <1>1, AskTypes DEF LaunchAndVerify, Typed, DiskTypes, MemoryTypes,
     CallTypes, Named, Gone, disk
<1>2. ASSUME NEW a \in Apps, LaunchProject(u, a) PROVE Typed'
  BY <1>2, AskTypes DEF LaunchProject, Typed, DiskTypes, MemoryTypes,
     CallTypes, Named, Status, Gone, disk
<1>3. ASSUME NEW a \in Apps, AutoLaunch(u, a) PROVE Typed'
  <2>1. CASE UNCHANGED <<job, lock, status>>
    BY <1>3, <2>1 DEF AutoLaunch, Typed, DiskTypes, MemoryTypes, CallTypes,
       Named, Gone, disk
  <2>2. CASE /\ Asks(u, a)
             /\ status' = [status EXCEPT ![a] = "stopped"]
    BY <1>3, <2>2, AskTypes DEF AutoLaunch, Typed, DiskTypes, MemoryTypes,
       CallTypes, Named, Status, Gone, disk
  <2> QED BY <1>3, <2>1, <2>2 DEF AutoLaunch
<1>4. ASSUME NEW a \in Apps, CreateProject(u, a) PROVE Typed'
  <2>1. Free \subseteq Ports BY DEF Free
  <2> QED BY <1>4, <2>1 DEF CreateProject, Begins, Typed, DiskTypes,
     MemoryTypes, CallTypes, Named, Steps, Gone
<1>5. ASSUME NEW a \in Apps, DeleteProject(u, a) PROVE Typed'
  <2>1. CASE UNCHANGED <<server, handle, status>>
    BY <1>5, <2>1 DEF DeleteProject, Begins, Typed, DiskTypes, MemoryTypes,
       CallTypes, Named, Steps, Gone, disk
  <2>2. CASE Stopped(a)
    BY <1>5, <2>2, EndedTypes DEF DeleteProject, Stopped, Begins, Typed,
       DiskTypes, MemoryTypes, CallTypes, Named, Steps, Status, Gone, disk
  <2> QED BY <1>5, <2>1, <2>2 DEF DeleteProject
<1> QED BY <1>1, <1>2, <1>3, <1>4, <1>5 DEF Calls

\* A sequence without one of its elements.
LEMMA LeaveTypes ==
    ASSUME Typed, NEW a \in Apps, NEW t, Leaves(t, a)
    PROVE  /\ lock' \in [Apps -> Seq(Tasks)]
           /\ \A b \in Apps : \A h : h # t /\ Holds(h, b) => Holds(h, b)'
<1>1. PICK i \in 1..Len(lock[a]) :
          /\ lock[a][i] = t
          /\ lock' = [lock EXCEPT ![a] = SubSeq(@, 1, i - 1)
                                           \o SubSeq(@, i + 1, Len(@))]
  BY DEF Leaves
<1> DEFINE s == lock[a]
           r == SubSeq(s, 1, i - 1) \o SubSeq(s, i + 1, Len(s))
<1>2. s \in Seq(Tasks) BY DEF Typed, MemoryTypes
<1>3. /\ SubSeq(s, 1, i - 1) \in Seq(Tasks)
      /\ SubSeq(s, i + 1, Len(s)) \in Seq(Tasks)
  BY <1>2
<1>4. r \in Seq(Tasks) BY <1>3
<1>5. lock' = [lock EXCEPT ![a] = r] BY <1>1
<1>6. ASSUME i # 1 PROVE r # <<>> /\ Head(r) = Head(s)
  <2>1. Len(SubSeq(s, 1, i - 1)) = i - 1 /\ i - 1 >= 1 BY <1>2, <1>6
  <2>2. SubSeq(s, 1, i - 1)[1] = s[1] BY <1>2, <1>6
  <2>3. r[1] = s[1] /\ Len(r) >= 1 BY <1>3, <2>1, <2>2
  <2>4. Len(s) >= 1 BY <1>2
  <2> HIDE DEF r, s
  <2>5. Head(s) = s[1] BY <1>2, <2>4
  <2>6. Head(r) = r[1] /\ r # <<>> BY <1>4, <2>3
  <2> QED BY <2>3, <2>5, <2>6
<1>7. ASSUME NEW b \in Apps, NEW h, h # t, Holds(h, b) PROVE Holds(h, b)'
  <2>1. CASE b = a
    <3>1. s # <<>> /\ Head(s) = h BY <1>7, <2>1 DEF Holds
    <3>2. i # 1 BY <1>1, <1>2, <1>7, <3>1
    <3>3. lock'[b] = r BY <1>5, <2>1 DEF Typed, MemoryTypes
    <3> QED BY <1>6, <3>1, <3>2, <3>3 DEF Holds
  <2>2. CASE b # a
    <3>1. lock'[b] = lock[b] BY <1>5, <2>2 DEF Typed, MemoryTypes
    <3> QED BY <1>7, <3>1 DEF Holds
  <2> QED BY <2>1, <2>2
<1> QED BY <1>4, <1>5, <1>7 DEF Typed, MemoryTypes

\* A call that goes on changes its own job; the lock it releases it held.
LEMMA ProceedsTyped ==
    ASSUME Typed, Locked, NEW u \in Users, Proceeds(u)
    PROVE  Typed'
<1> DEFINE a == job[u].app
<1>1. CASE Enters(u)
  <2>1. a \in Apps BY <1>1 DEF Enters, Typed, Named
  <2>2. server' = Ended(Killed(a)) /\ UNCHANGED <<disk, dog>>
    BY <1>1 DEF Enters
  <2>3. job' = [job EXCEPT ![u].pc = "gate"] /\ job[u].pc = "wait"
    BY <1>1 DEF Enters, Goes
  <2>4. CallTypes'
    BY <2>2, <2>3, EndedTypes DEF Typed, CallTypes, Steps
  <2>5. Named'
    BY <2>1, <2>2, <2>3, EndedTypes DEF Typed, CallTypes, Named, Gone
  <2>6. DiskTypes' /\ MemoryTypes'
    BY <1>1, <2>1 DEF Enters, Typed, DiskTypes, MemoryTypes, disk
  <2> QED BY <2>4, <2>5, <2>6 DEF Typed
<1>2. CASE Passes(u)
  BY <1>2 DEF Passes, Goes, Typed, DiskTypes, MemoryTypes, CallTypes, Named,
     Steps, Gone, disk
<1>3. CASE Starts(u)
  <2>1. a \in Apps BY <1>3 DEF Starts, Typed, Named
  <2>2. PICK q \in Procs : /\ Boots(q, a)
                           /\ job' = [job EXCEPT ![u].pc = "health",
                                                 ![u].proc = q]
    BY <1>3 DEF Starts
  <2>3. server' = [server EXCEPT ![q] = [app |-> a, state |-> "boot"]]
    BY <2>2 DEF Boots
  <2>4. CallTypes'
    <3>1. job[u] \in [pc : Steps, app : Apps \cup {NoApp},
                      proc : Procs \cup {NoProc}]
      BY DEF Typed, CallTypes
    <3>2. [job[u] EXCEPT !.pc = "health", !.proc = q]
             \in [pc : Steps, app : Apps \cup {NoApp},
                  proc : Procs \cup {NoProc}]
      BY <3>1 DEF Steps
    <3>3. job' = [job EXCEPT ![u] = [job[u] EXCEPT !.pc = "health", !.proc = q]]
      BY <2>2
    <3>4. job' \in [Users -> [pc : Steps, app : Apps \cup {NoApp},
                              proc : Procs \cup {NoProc}]]
      BY <3>2, <3>3 DEF Typed, CallTypes
    <3> QED BY <1>3, <2>1, <2>3, <3>4 DEF Starts, Typed, CallTypes
  <2>5. Named'
    BY <1>3, <2>1, <2>2, <2>3 DEF Starts, Typed, CallTypes, Named, Gone
  <2>6. DiskTypes' /\ MemoryTypes'
    BY <1>3 DEF Starts, Typed, DiskTypes, MemoryTypes, disk
  <2> QED BY <2>4, <2>5, <2>6 DEF Typed
<1>4. CASE LaunchFails(u)
  <2>1. a \in Apps /\ lock[a] # <<>>
    BY <1>4 DEF LaunchFails, Typed, Named, Locked, Holds
  <2>2. Tail(lock[a]) \in Seq(Tasks) BY <2>1 DEF Typed, MemoryTypes
  <2>3. server' = Ended({job[u].proc}) /\ UNCHANGED <<disk, dog>>
    BY <1>4 DEF LaunchFails
  <2>4. job' = [job EXCEPT ![u] = Idle] BY <1>4 DEF LaunchFails, Finishes
  <2>5. CallTypes'
    BY <2>3, <2>4, EndedTypes DEF Typed, CallTypes, Steps, Idle
  <2>6. Named'
    BY <2>3, <2>4, EndedTypes DEF Typed, CallTypes, Named, Gone, Idle
  <2>7. DiskTypes' /\ MemoryTypes'
    BY <1>4, <2>1, <2>2
    DEF LaunchFails, Releases, Typed, DiskTypes, MemoryTypes, Status, disk
  <2> QED BY <2>5, <2>6, <2>7 DEF Typed
<1>5. CASE LaunchSucceeds(u)
  <2>1. a \in Apps /\ lock[a] # <<>>
    BY <1>5 DEF LaunchSucceeds, Typed, Named, Locked, Holds
  <2>2. Tail(lock[a]) \in Seq(Tasks) BY <2>1 DEF Typed, MemoryTypes
  <2>3. job[u].proc \in Procs
    BY <1>5 DEF LaunchSucceeds, Serving
  <2>4. DiskTypes' /\ MemoryTypes'
    BY <1>5, <2>1, <2>2, <2>3
    DEF LaunchSucceeds, Releases, Typed, DiskTypes, MemoryTypes, Status, disk
  <2>5. CallTypes' /\ Named'
    BY <1>5 DEF LaunchSucceeds, Finishes, Idle, Typed, CallTypes, Named, Steps,
       Gone
  <2> QED BY <2>4, <2>5 DEF Typed
<1>6. CASE CreateEnds(u)
  <2>1. a \in Apps BY <1>6 DEF CreateEnds, Typed, Named
  <2> QED BY <1>6, <2>1 DEF CreateEnds, Finishes, Idle, Typed, DiskTypes,
      MemoryTypes, CallTypes, Named, Steps, Gone
<1>7. CASE DeleteRemoves(u)
  BY <1>7 DEF DeleteRemoves, Goes, Typed, DiskTypes, MemoryTypes, CallTypes,
     Named, Steps, Gone
<1>8. CASE DeleteEnds(u)
  BY <1>8 DEF DeleteEnds, Finishes, Idle, Typed, DiskTypes, MemoryTypes,
     CallTypes, Named, Steps, Gone
<1>9. CASE LaunchCancelled(u)
  <2>1. job[u].app \in Apps /\ job' = [job EXCEPT ![u] = Idle]
    BY <1>9 DEF LaunchCancelled, Finishes, Typed, Named
  <2>2. PICK b \in Apps : Leaves(u, b) BY <1>9, <2>1 DEF LaunchCancelled
  <2>3. lock' \in [Apps -> Seq(Tasks)] BY <2>2, LeaveTypes
  <2> QED BY <1>9, <2>1, <2>3 DEF LaunchCancelled, Idle, Typed, DiskTypes,
      MemoryTypes, CallTypes, Named, Steps, Gone, disk
<1> QED BY <1>1, <1>2, <1>3, <1>4, <1>5, <1>6, <1>7, <1>8, <1>9 DEF Proceeds

LEMMA DogTyped ==
    ASSUME Typed, Locked, DogNext
    PROVE  Typed'
<1> DEFINE a == dog.app
<1>1. ASSUME NEW b \in Apps, Examine(b) PROVE Typed'
  <2>1. DiskTypes' BY <1>1 DEF Examine, Typed, DiskTypes, disk
  <2>2. MemoryTypes'
    <3>1. retries[b] \in 0..Delays BY DEF Typed, MemoryTypes
    <3>2. \/ retries' = [retries EXCEPT ![b] = 0]
          \/ /\ retries[b] < Delays
             /\ retries' = [retries EXCEPT ![b] = @ + 1]
      BY <1>1, Zenon DEF Examine, Settled
    <3>3. retries' \in [Apps -> 0..Delays]
      <4>1. retries \in [Apps -> 0..Delays] BY DEF Typed, MemoryTypes
      <4>2. 0 \in 0..Delays BY DelaysAssumption
      <4>3. CASE retries[b] < Delays
        <5>1. retries[b] + 1 \in 0..Delays BY <3>1, <4>3, DelaysAssumption
        <5> QED BY <3>2, <4>1, <4>2, <5>1
      <4> QED BY <3>2, <4>1, <4>2, <4>3
    <3>4. /\ status' \in [Apps -> Status]
          /\ handle' \in [Apps -> Procs \cup {NoProc}]
          /\ UNCHANGED lock
      BY <1>1 DEF Examine, Typed, MemoryTypes, Status
    <3> QED BY <3>3, <3>4 DEF Typed, MemoryTypes
  <2>3. CallTypes' BY <1>1 DEF Examine, Typed, CallTypes
  <2>4. Named' BY <1>1 DEF Examine, Typed, Named, Gone
  <2> QED BY <2>1, <2>2, <2>3, <2>4 DEF Typed
<1>2. CASE DogWakes
  <2>1. a \in Apps BY <1>2 DEF DogWakes, Typed, Named
  <2>2. Append(lock[a], Dog) \in Seq(Tasks)
    BY <2>1 DEF Typed, MemoryTypes, Tasks
  <2>3. DiskTypes' /\ MemoryTypes'
    BY <1>2, <2>1, <2>2
    DEF DogWakes, Queues, Typed, DiskTypes, MemoryTypes, disk
  <2>4. CallTypes' /\ Named'
    BY <1>2, <2>1 DEF DogWakes, DogGoes, Typed, CallTypes, Named, Gone
  <2> QED BY <2>3, <2>4 DEF Typed
<1>3. CASE DogEnters
  <2>1. a \in Apps /\ lock[a] # <<>>
    BY <1>3 DEF DogEnters, Typed, Named, Holds
  <2>2. Tail(lock[a]) \in Seq(Tasks) BY <2>1 DEF Typed, MemoryTypes
  <2>3. DiskTypes' /\ MemoryTypes'
    <3>1. retries' \in [Apps -> 0..Delays]
      BY <1>3, DelaysAssumption DEF DogEnters, Settled, Typed, MemoryTypes
    <3>2. lock' \in [Apps -> Seq(Tasks)]
      BY <1>3, <2>2 DEF DogEnters, Releases, Typed, MemoryTypes
    <3> QED BY <1>3, <3>1, <3>2
        DEF DogEnters, Typed, DiskTypes, MemoryTypes, disk
  <2>4. /\ dog' = Asleep \/ dog' = [dog EXCEPT !.pc = "start"]
        /\ server' = server \/ server' = Ended(OnPortOf(a))
        /\ UNCHANGED job
    BY <1>3 DEF DogEnters, DogGoes
  <2>5. CallTypes' BY <2>4, EndedTypes DEF Typed, CallTypes, Asleep
  <2>6. Named'
    BY <2>1, <2>4, EndedTypes DEF Typed, CallTypes, Named, Gone, Asleep
  <2> QED BY <2>3, <2>5, <2>6 DEF Typed
<1>4. CASE DogStarts
  <2>1. a \in Apps BY <1>4 DEF DogStarts, Typed, Named
  <2>2. PICK q \in Procs : /\ Boots(q, a)
                           /\ handle' = [handle EXCEPT ![a] = q]
    BY <1>4 DEF DogStarts
  <2> QED BY <1>4, <2>1, <2>2 DEF DogStarts, DogGoes, Boots, Typed, DiskTypes,
      MemoryTypes, CallTypes, Named, Gone, disk
<1>5. CASE DogFails \/ DogHealthy
  <2>1. a \in Apps /\ lock[a] # <<>>
    BY <1>5 DEF DogFails, DogHealthy, Typed, Named, Locked, Holds
  <2>2. Tail(lock[a]) \in Seq(Tasks) BY <2>1 DEF Typed, MemoryTypes
  <2>3. retries' \in [Apps -> 0..Delays]
    <3>1. UNCHANGED retries \/ retries' = [retries EXCEPT ![a] = 0]
      BY <1>5, Zenon DEF DogFails, DogHealthy, Settled
    <3>2. retries \in [Apps -> 0..Delays] BY DEF Typed, MemoryTypes
    <3>3. 0 \in 0..Delays BY DelaysAssumption
    <3> QED BY <3>1, <3>2, <3>3
  <2>4. DiskTypes' /\ MemoryTypes'
    BY <1>5, <2>2, <2>3
    DEF DogFails, DogHealthy, Releases, Typed, DiskTypes, MemoryTypes, disk
  <2>5. CallTypes' /\ Named'
    BY <1>5 DEF DogFails, DogHealthy, Asleep, Typed, CallTypes, Named, Gone
  <2> QED BY <2>4, <2>5 DEF Typed
<1> QED BY <1>1, <1>2, <1>3, <1>4, <1>5 DEF DogNext

\* Every step keeps the types.
LEMMA TypedStep ==
    ASSUME Typed, Locked, [Next]_vars
    PROVE  Typed'
<1>1. ASSUME NEW a \in Apps, StopProject(a) PROVE Typed'
  <2>1. server' = Ended(Killed(a)) /\ UNCHANGED <<disk, job, dog>>
    BY <1>1 DEF StopProject, Stopped
  <2>2. DiskTypes' /\ MemoryTypes'
    BY <1>1 DEF StopProject, Stopped, Typed, DiskTypes, MemoryTypes, Status,
       disk
  <2>3. CallTypes' /\ Named'
    BY <2>1, EndedTypes DEF Typed, CallTypes, Named, Gone
  <2> QED BY <2>2, <2>3 DEF Typed
<1>2. ASSUME NEW q \in Procs, Binds(q) \/ Exits(q) PROVE Typed'
  <2>1. DiskTypes' /\ MemoryTypes'
    BY <1>2 DEF Binds, Exits, Typed, DiskTypes, MemoryTypes, disk
  <2>2. CASE server' = Ended({q})
    BY <1>2, <2>1, <2>2, EndedTypes
    DEF Binds, Exits, Typed, CallTypes, Named, Gone
  <2>3. CASE Binds(q) /\ server' = [server EXCEPT ![q].state = "up"]
    BY <2>1, <2>3 DEF Binds, Typed, CallTypes, Named, Gone
  <2> QED BY <1>2, <2>2, <2>3 DEF Binds, Exits
<1>3. CASE Restart
  BY <1>3, DelaysAssumption
  DEF Restart, Typed, DiskTypes, MemoryTypes, CallTypes, Named, Gone, Status,
      Steps, Idle, Asleep, NoServer, Tasks
<1>4. CASE UNCHANGED vars
  BY <1>4 DEF vars, disk, Typed, DiskTypes, MemoryTypes, CallTypes, Named, Gone
<1> QED
  BY <1>1, <1>2, <1>3, <1>4, CallsTyped, ProceedsTyped, DogTyped DEF Next

-----------------------------------------------------------------------------
(* The launch lock *)

\* Only one holds a lock, and who queues behind takes it from nobody.
LEMMA QueueKeeps ==
    ASSUME Typed, NEW a \in Apps, NEW t \in Tasks, Queues(t, a)
    PROVE  \A b \in Apps : \A h : Holds(h, b) => Holds(h, b)'
<1> SUFFICES ASSUME NEW b \in Apps, NEW h, Holds(h, b) PROVE Holds(h, b)'
  OBVIOUS
<1>1. lock[b] \in Seq(Tasks) /\ lock[b] # <<>> /\ Head(lock[b]) = h
  BY DEF Typed, MemoryTypes, Holds
<1>2. CASE b = a
  <2>1. lock'[b] = Append(lock[b], t)
    BY <1>2 DEF Queues, Typed, MemoryTypes
  <2> QED BY <1>1, <2>1 DEF Holds
<1>3. CASE b # a
  <2>1. lock'[b] = lock[b] BY <1>3 DEF Queues, Typed, MemoryTypes
  <2> QED BY <1>1, <2>1 DEF Holds
<1> QED BY <1>2, <1>3

\* A release is felt only by who held that lock.
LEMMA ReleaseKeeps ==
    ASSUME Typed, NEW a \in Apps, NEW t, Holds(t, a), Releases(a)
    PROVE  \A b \in Apps : \A h : h # t /\ Holds(h, b) => Holds(h, b)'
<1> SUFFICES ASSUME NEW b \in Apps, NEW h, h # t, Holds(h, b)
             PROVE  Holds(h, b)'
  OBVIOUS
<1>1. b # a BY DEF Holds
<1>2. lock'[b] = lock[b] BY <1>1 DEF Releases, Typed, MemoryTypes
<1> QED BY <1>2 DEF Holds

Launching == {"gate", "start", "health"}

\* Every launch that has begun goes on with the lock it took.
LEMMA LockedStep ==
    ASSUME Typed, Locked, [Next]_vars
    PROVE  Locked'
<1>0. /\ \A u \in Users : job[u].pc # "idle" => job[u].app \in Apps
      /\ dog.pc # "idle" => dog.app \in Apps
      /\ Dog \in Tasks /\ Dog \notin Users
  BY NamesAssumption DEF Typed, Named, Tasks
<1>1. ASSUME NEW u \in Users, NEW a \in Apps, Begins(u, "wait", a),
             Queues(u, a), UNCHANGED dog
      PROVE  Locked'
  <2>1. \A b \in Apps : \A h : Holds(h, b) => Holds(h, b)'
    BY <1>1, QueueKeeps DEF Tasks
  <2> QED BY <1>0, <1>1, <2>1 DEF Begins, Locked, Typed, CallTypes
<1>2. ASSUME NEW u \in Users, UNCHANGED <<lock, dog>>,
             \A v \in Users : v # u => job'[v] = job[v],
             job'[u].pc \in Launching =>
                /\ job'[u].app = job[u].app
                /\ job[u].pc \in Launching \/ Holds(u, job[u].app)
      PROVE  Locked'
  BY <1>2 DEF Locked, Holds, Launching
<1>3. ASSUME NEW u \in Users, Calls(u) PROVE Locked'
  <2>1. ASSUME NEW a \in Apps, UNCHANGED dog,
               UNCHANGED <<job, lock>> \/ Asks(u, a)
        PROVE  Locked'
    <3>1. CASE UNCHANGED <<job, lock>> BY <2>1, <3>1 DEF Locked, Holds
    <3>2. CASE Begins(u, "wait", a) /\ Queues(u, a) BY <1>1, <2>1, <3>2
    <3> QED BY <2>1, <3>1, <3>2 DEF Asks
  <2>2. ASSUME NEW a \in Apps,
               \/ LaunchAndVerify(u, a) \/ LaunchProject(u, a)
               \/ AutoLaunch(u, a)
        PROVE  Locked'
    BY <2>1, <2>2 DEF LaunchAndVerify, LaunchProject, AutoLaunch
  <2>3. ASSUME NEW a \in Apps,
               CreateProject(u, a) \/ DeleteProject(u, a) PROVE Locked'
    BY <1>2, <2>3
    DEF CreateProject, DeleteProject, Begins, Launching, Typed, CallTypes
  <2> QED BY <1>3, <2>1, <2>2, <2>3 DEF Calls
<1>4. ASSUME NEW u \in Users, Proceeds(u) PROVE Locked'
  <2>1. CASE Enters(u) \/ Passes(u) \/ DeleteRemoves(u)
    BY <1>2, <2>1
    DEF Enters, Passes, DeleteRemoves, Goes, Launching, Typed, CallTypes
  <2>2. CASE Starts(u)
    BY <1>2, <2>2 DEF Starts, Launching, Typed, CallTypes
  <2>3. CASE CreateEnds(u) \/ DeleteEnds(u)
    BY <1>2, <2>3
    DEF CreateEnds, DeleteEnds, Finishes, Idle, Launching, Typed, CallTypes
  <2>4. CASE LaunchFails(u) \/ LaunchSucceeds(u)
    <3>1. /\ job[u].app \in Apps /\ Holds(u, job[u].app)
          /\ Releases(job[u].app)
          /\ job' = [job EXCEPT ![u] = Idle]
          /\ UNCHANGED dog
      BY <1>0, <2>4 DEF LaunchFails, LaunchSucceeds, Finishes, Locked
    <3>2. \A b \in Apps : \A h : h # u /\ Holds(h, b) => Holds(h, b)'
      BY <3>1, ReleaseKeeps
    <3> QED BY <1>0, <3>1, <3>2 DEF Locked, Idle, Typed, CallTypes
  <2>5. CASE LaunchCancelled(u)
    <3>1. /\ job[u].app \in Apps /\ UNCHANGED dog
          /\ job' = [job EXCEPT ![u] = Idle]
      BY <1>0, <2>5 DEF LaunchCancelled, Finishes
    <3>2. PICK c \in Apps : Leaves(u, c)
      BY <2>5, <3>1 DEF LaunchCancelled
    <3>3. \A b \in Apps : \A h : h # u /\ Holds(h, b) => Holds(h, b)'
      BY <3>2, LeaveTypes
    <3> QED BY <1>0, <3>1, <3>3 DEF Locked, Idle, Typed, CallTypes
  <2> QED BY <1>4, <2>1, <2>2, <2>3, <2>4, <2>5 DEF Proceeds
<1>5. CASE DogNext
  <2>1. ASSUME NEW a \in Apps, Examine(a) PROVE Locked'
    BY <2>1 DEF Examine, Locked, Holds
  <2>2. CASE DogWakes
    <3>1. \A b \in Apps : \A h : Holds(h, b) => Holds(h, b)'
      BY <1>0, <2>2, QueueKeeps DEF DogWakes
    <3> QED BY <1>0, <2>2, <3>1
        DEF DogWakes, DogGoes, Locked, Typed, CallTypes
  <2>3. ASSUME Holds(Dog, dog.app), dog.app \in Apps, Releases(dog.app),
               dog' = Asleep, UNCHANGED job
        PROVE  Locked'
    <3>1. \A b \in Apps : \A h : h # Dog /\ Holds(h, b) => Holds(h, b)'
      BY <2>3, ReleaseKeeps
    <3> QED BY <1>0, <2>3, <3>1 DEF Locked, Asleep
  <2>4. CASE DogEnters
    <3>1. CASE ~Dead(dog.app) BY <1>0, <2>3, <2>4, <3>1 DEF DogEnters
    <3>2. CASE Dead(dog.app)
      BY <2>4, <3>2 DEF DogEnters, DogGoes, Locked, Holds, Typed, CallTypes
    <3> QED BY <3>1, <3>2
  <2>5. CASE DogStarts
    BY <2>5 DEF DogStarts, DogGoes, Locked, Holds, Typed, CallTypes
  <2>6. CASE DogFails \/ DogHealthy
    BY <1>0, <2>3, <2>6 DEF DogFails, DogHealthy, Locked
  <2> QED BY <1>5, <2>1, <2>2, <2>4, <2>5, <2>6 DEF DogNext
<1>6. CASE Restart BY <1>6 DEF Restart, Locked, Idle, Asleep
<1>7. CASE UNCHANGED <<lock, job, dog>> BY <1>7 DEF Locked, Holds
<1> QED
  BY <1>3, <1>4, <1>5, <1>6, <1>7
  DEF Next, vars, StopProject, Binds, Exits

-----------------------------------------------------------------------------
(* One server per app *)

\* A live server is known to who will end it: it is the app's handle, or the
\* process of the launch that holds the app's lock.
Known ==
    \A a \in Apps : \A q \in Alive(a) :
       \/ q = handle[a]
       \/ \E u \in Users : /\ job[u].pc = "health"
                           /\ job[u].app = a /\ job[u].proc = q

\* Only a cancelled launch leaves a server that nobody knows. While a launch
\* is under way the app has no handle.
Owned ==
    /\ "cancel" \notin Env => Known
    /\ \A u \in Users : \A a \in Apps :
          job[u].proc \in Alive(a) => job[u].app = a
    /\ \A u \in Users : job[u].pc \in Launching => handle[job[u].app] = NoProc
    /\ \A u \in Users : job[u].pc # "health" => job[u].proc = NoProc
    /\ dog.pc = "start" => handle[dog.app] = NoProc

\* What ends processes leaves fewer alive.
LEMMA EndedAlive ==
    ASSUME Typed, NEW Q, server' = Ended(Q)
    PROVE  /\ \A b \in Apps : Alive(b)' = Alive(b) \ Q
           /\ \A q \in Procs : Gone(q)' <=> (Gone(q) \/ q \in Q)
BY NamesAssumption
DEF Ended, Alive, Serving, Booting, Gone, NoServer, Typed, CallTypes

\* A new process is alive beside the others.
LEMMA BootsAlive ==
    ASSUME Typed, NEW q \in Procs, NEW a \in Apps, Boots(q, a)
    PROVE  /\ \A b \in Apps :
                  /\ Alive(b)' = Alive(b) \cup (IF b = a THEN {q} ELSE {})
                  /\ q \notin Alive(b)
           /\ \A u \in Users : job[u].proc # q
BY DEF Boots, Unused, Alive, Serving, Booting, Gone, Typed, CallTypes

\* The holder of a lock is alone with the app's handle, and with what a
\* cancelled launch has left.
LEMMA Alone ==
    ASSUME Typed, Locked, Owned, NEW a \in Apps, NEW t \in Tasks, Holds(t, a),
           t \in Users => job[t].pc # "health",
           NEW q \in Alive(a)
    PROVE  q = handle[a] \/ (Stray(q) /\ "cancel" \in Env)
<1>1. ASSUME NEW u \in Users, job[u].pc = "health", job[u].app = a PROVE FALSE
  <2>1. Holds(u, a) BY <1>1 DEF Locked
  <2> QED BY <1>1, <2>1 DEF Holds
<1>2. "cancel" \notin Env => q = handle[a] BY <1>1 DEF Owned, Known
<1>3. q \in Procs /\ ~Gone(q) /\ server[q].app = a
  BY DEF Alive, Serving, Booting, Gone
<1>4. ASSUME ~Stray(q) PROVE q = handle[a]
  <2>1. CASE \E u \in Users : job[u].proc = q
    <3>1. PICK u \in Users : job[u].proc = q BY <2>1
    <3>2. job[u].pc = "health" /\ job[u].app = a
      BY <1>3, <3>1, NamesAssumption DEF Owned
    <3> QED BY <1>1, <3>2
  <2> QED BY <1>3, <1>4, <2>1 DEF Stray
<1> QED BY <1>2, <1>4

\* Nothing is born, and what lives stays known.
LEMMA StillOwned ==
    ASSUME Typed, Owned,
           \A b \in Apps : \A q \in Alive(b)' :
               q \in Alive(b) /\ (q = handle[b] => q = handle'[b]),
           \A u \in Users : job[u].pc = "health" \/ job'[u].pc = "health"
               => job'[u] = job[u],
           \A b \in Apps : handle[b] = NoProc => handle'[b] = NoProc,
           \A u \in Users : job'[u].pc \in Launching
               => job'[u] = job[u] \/ handle'[job'[u].app] = NoProc,
           \A u \in Users : job'[u].pc # "health"
               => job'[u].proc \in {NoProc, job[u].proc},
           dog'.pc = "start" => dog' = dog \/ handle'[dog'.app] = NoProc
    PROVE  Owned'
<1>1. ASSUME NEW u \in Users, job'[u].pc \in Launching
      PROVE  handle'[job'[u].app] = NoProc
  BY <1>1 DEF Owned, Typed, Named, Launching
<1>2. ASSUME NEW u \in Users, job'[u].pc # "health"
      PROVE  job'[u].proc = NoProc
  BY <1>2 DEF Owned
<1>3. dog'.pc = "start" => handle'[dog'.app] = NoProc
  BY DEF Owned, Typed, Named
<1>4. ASSUME "cancel" \notin Env, NEW a \in Apps, NEW q \in Alive(a)'
      PROVE  \/ q = handle'[a]
             \/ \E u \in Users : /\ job'[u].pc = "health"
                                 /\ job'[u].app = a /\ job'[u].proc = q
  BY <1>4 DEF Owned, Known
<1>5. ASSUME NEW u \in Users, NEW a \in Apps, job'[u].proc \in Alive(a)'
      PROVE  job'[u].app = a
  <2>1. job'[u].proc \in Alive(a) BY <1>5
  <2>2. job'[u].proc # NoProc
    BY <2>1, NamesAssumption DEF Alive, Serving, Booting
  <2>3. job'[u] = job[u] BY <1>2, <2>2
  <2> QED BY <2>1, <2>3 DEF Owned
<1> QED BY <1>1, <1>2, <1>3, <1>4, <1>5 DEF Owned, Known

LEMMA OwnedInit == Init => Locked /\ Owned
<1> SUFFICES ASSUME Init PROVE Locked /\ Owned OBVIOUS
<1>1. \A a \in Apps : Alive(a) = {}
  BY DEF Init, Alive, Serving, Booting, NoServer
<1> QED BY <1>1 DEF Init, Locked, Owned, Known, Idle, Asleep, Launching

LEMMA OwnedCalls ==
    ASSUME Typed, Owned, NEW u \in Users, Calls(u)
    PROVE  Owned'
<1>1. ASSUME NEW a \in Apps, NEW pc \in {"wait", "scaffold", "capture"},
             Begins(u, pc, a)
      PROVE  /\ \A v \in Users : job[v].pc = "health" \/ job'[v].pc = "health"
                    => job'[v] = job[v]
             /\ \A v \in Users : job'[v].pc \in Launching => job'[v] = job[v]
             /\ \A v \in Users : job'[v].pc # "health"
                    => job'[v].proc \in {NoProc, job[v].proc}
  BY <1>1 DEF Begins, Launching, Typed, CallTypes
<1>2. ASSUME NEW a \in Apps, Asks(u, a)
      PROVE  /\ \A v \in Users : job[v].pc = "health" \/ job'[v].pc = "health"
                    => job'[v] = job[v]
             /\ \A v \in Users : job'[v].pc \in Launching => job'[v] = job[v]
             /\ \A v \in Users : job'[v].pc # "health"
                    => job'[v].proc \in {NoProc, job[v].proc}
  BY <1>1, <1>2 DEF Asks
<1>3. ASSUME NEW a \in Apps, LaunchAndVerify(u, a) \/ AutoLaunch(u, a)
      PROVE  Owned'
  <2>1. \A b \in Apps : Alive(b)' = Alive(b)
    BY <1>3 DEF LaunchAndVerify, AutoLaunch, Alive, Serving, Booting
  <2>2. UNCHANGED <<handle, dog>> /\ (UNCHANGED job \/ Asks(u, a))
    BY <1>3 DEF LaunchAndVerify, AutoLaunch
  <2>3. CASE UNCHANGED job BY <2>1, <2>2, <2>3, StillOwned
  <2>4. CASE Asks(u, a) BY <1>2, <2>1, <2>2, <2>4, StillOwned
  <2> QED BY <2>2, <2>3, <2>4
<1>4. ASSUME NEW a \in Apps, LaunchProject(u, a) PROVE Owned'
  <2>1. \A b \in Apps : Alive(b)' = Alive(b)
    BY <1>4 DEF LaunchProject, Alive, Serving, Booting
  <2>2. \/ UNCHANGED handle
        \/ HandleGone(a) /\ handle' = [handle EXCEPT ![a] = NoProc]
    BY <1>4 DEF LaunchProject
  <2>3. \A b \in Apps : handle[b] = NoProc => handle'[b] = NoProc
    BY <2>2 DEF Typed, MemoryTypes
  <2>4. \A b \in Apps : \A q \in Alive(b) : q = handle[b] => q = handle'[b]
    BY <2>2 DEF Typed, MemoryTypes, HandleGone, Gone, Alive, Serving, Booting
  <2>5. Asks(u, a) /\ UNCHANGED dog BY <1>4 DEF LaunchProject
  <2> QED BY <1>2, <2>1, <2>3, <2>4, <2>5, StillOwned
<1>5. ASSUME NEW a \in Apps, CreateProject(u, a) PROVE Owned'
  <2>1. \A b \in Apps : Alive(b)' = Alive(b)
    BY <1>5 DEF CreateProject, Alive, Serving, Booting
  <2> QED BY <1>1, <1>5, <2>1, StillOwned DEF CreateProject
<1>6. ASSUME NEW a \in Apps, DeleteProject(u, a) PROVE Owned'
  <2>1. Begins(u, "capture", a) /\ UNCHANGED dog BY <1>6 DEF DeleteProject
  <2>2. CASE UNCHANGED <<server, handle, status>>
    <3>1. \A b \in Apps : Alive(b)' = Alive(b)
      BY <2>2 DEF Alive, Serving, Booting
    <3> QED BY <1>1, <2>1, <2>2, <3>1, StillOwned
  <2>3. CASE Stopped(a)
    <3>1. \A b \in Apps : Alive(b)' = Alive(b) \ Killed(a)
      BY <2>3, EndedAlive DEF Stopped
    <3>2. handle' = [handle EXCEPT ![a] = NoProc] /\ handle[a] \in Killed(a)
      BY <2>3 DEF Stopped, Killed
    <3>3. \A b \in Apps : handle[b] = NoProc => handle'[b] = NoProc
      BY <3>2 DEF Typed, MemoryTypes
    <3>4. \A b \in Apps : \A q \in Alive(b)' :
              q \in Alive(b) /\ (q = handle[b] => q = handle'[b])
      BY <3>1, <3>2 DEF Typed, MemoryTypes
    <3> QED BY <1>1, <2>1, <3>3, <3>4, StillOwned
  <2> QED BY <1>6, <2>2, <2>3 DEF DeleteProject
<1> QED BY <1>2, <1>3, <1>4, <1>5, <1>6 DEF Calls

LEMMA OwnedProceeds ==
    ASSUME Typed, Locked, Owned, NEW u \in Users, Proceeds(u)
    PROVE  Owned'
<1> DEFINE a == job[u].app
<1>1. CASE Enters(u)
  <2>1. a \in Apps /\ Holds(u, a) /\ u \in Tasks /\ job[u].pc = "wait"
    BY <1>1 DEF Enters, Typed, Named, Tasks
  <2>2. /\ handle' = [handle EXCEPT ![a] = NoProc]
        /\ job' = [job EXCEPT ![u].pc = "gate"]
        /\ UNCHANGED dog
    BY <1>1 DEF Enters, Goes
  <2>3. \A b \in Apps : Alive(b)' = Alive(b) \ Killed(a)
    BY <1>1, EndedAlive DEF Enters
  <2>4. \A b \in Apps : \A q \in Alive(b)' :
            q \in Alive(b) /\ (q = handle[b] => q = handle'[b])
    BY <2>1, <2>2, <2>3 DEF Killed, Typed, MemoryTypes
  <2>5. \A b \in Apps : handle[b] = NoProc => handle'[b] = NoProc
    BY <2>2 DEF Typed, MemoryTypes
  <2>6. \A v \in Users : job'[v].pc \in Launching
            => job'[v] = job[v] \/ handle'[job'[v].app] = NoProc
    BY <2>1, <2>2 DEF Typed, MemoryTypes, CallTypes
  <2>7. /\ \A v \in Users : job[v].pc = "health" \/ job'[v].pc = "health"
               => job'[v] = job[v]
        /\ \A v \in Users : job'[v].pc # "health"
               => job'[v].proc \in {NoProc, job[v].proc}
    BY <2>1, <2>2 DEF Typed, CallTypes
  <2> QED BY <2>2, <2>4, <2>5, <2>6, <2>7, StillOwned
<1>2. CASE Passes(u)
  <2>1. \A b \in Apps : Alive(b)' = Alive(b)
    BY <1>2 DEF Passes, Alive, Serving, Booting
  <2>2. job' = [job EXCEPT ![u].pc = "start"] /\ job[u].pc = "gate"
    BY <1>2 DEF Passes, Goes
  <2>3. handle[job[u].app] = NoProc BY <2>2 DEF Owned, Launching
  <2>4. UNCHANGED <<handle, dog>> BY <1>2 DEF Passes
  <2> QED BY <2>1, <2>2, <2>3, <2>4, StillOwned DEF Typed, CallTypes
<1>3. CASE Starts(u)
  <2>1. a \in Apps /\ job[u].pc = "start" /\ UNCHANGED <<handle, dog>>
    BY <1>3 DEF Starts, Typed, Named
  <2>2. PICK q \in Procs : /\ Boots(q, a)
                           /\ job' = [job EXCEPT ![u].pc = "health",
                                                 ![u].proc = q]
    BY <1>3 DEF Starts
  <2>3. /\ job'[u].pc = "health" /\ job'[u].app = a /\ job'[u].proc = q
        /\ \A v \in Users : v # u => job'[v] = job[v]
    <3>1. job[u] \in [pc : Steps, app : Apps \cup {NoApp},
                      proc : Procs \cup {NoProc}]
      BY DEF Typed, CallTypes
    <3>2. job' = [job EXCEPT ![u] = [job[u] EXCEPT !.pc = "health", !.proc = q]]
      BY <2>2
    <3> QED BY <3>1, <3>2 DEF Typed, CallTypes
  <2>4. /\ \A b \in Apps :
              /\ Alive(b)' = Alive(b) \cup (IF b = a THEN {q} ELSE {})
              /\ q \notin Alive(b)
        /\ \A v \in Users : job[v].proc # q
    <3>1. PICK c \in Apps : c = a BY <2>1
    <3>2. Boots(q, c) BY <2>2, <3>1
    <3> HIDE DEF a
    <3> QED BY <3>1, <3>2, BootsAlive
  <2>5. handle[a] = NoProc BY <2>1 DEF Owned, Launching
  <2>6. ASSUME "cancel" \notin Env, NEW b \in Apps, NEW p \in Alive(b)'
        PROVE  \/ p = handle'[b]
               \/ \E v \in Users : /\ job'[v].pc = "health"
                                   /\ job'[v].app = b /\ job'[v].proc = p
    <3>1. CASE p \in Alive(b)
      BY <2>1, <2>3, <2>6, <3>1 DEF Owned, Known
    <3>2. CASE p \notin Alive(b) BY <2>3, <2>4, <2>6, <3>2
    <3> QED BY <3>1, <3>2
  <2>7. ASSUME NEW v \in Users, NEW b \in Apps, job'[v].proc \in Alive(b)'
        PROVE  job'[v].app = b
    <3>1. CASE v = u BY <2>3, <2>4, <2>7, <3>1
    <3>2. CASE v # u BY <2>3, <2>4, <2>7, <3>2 DEF Owned
    <3> QED BY <3>1, <3>2
  <2> QED BY <2>1, <2>3, <2>5, <2>6, <2>7 DEF Owned, Known
<1>4. CASE LaunchFails(u) \/ LaunchSucceeds(u)
  <2>1. /\ a \in Apps /\ Holds(u, a)
        /\ job[u].pc \in Launching
        /\ job' = [job EXCEPT ![u] = Idle]
        /\ UNCHANGED dog
    BY <1>4 DEF LaunchFails, LaunchSucceeds, Finishes, Typed, Named, Locked,
       Launching
  <2>2. handle[a] = NoProc BY <2>1 DEF Owned
  <2>3. \A v \in Users : v # u => job'[v] = job[v] BY <2>1
  <2>4. job'[u] = Idle BY <2>1 DEF Typed, CallTypes
  <2>5. ASSUME NEW v \in Users, v # u, job[v].pc \in Launching
        PROVE  job[v].app # a
    BY <2>1, <2>5 DEF Locked, Holds, Launching
  <2>6. \A v \in Users : job'[v].pc # "health" => job'[v].proc = NoProc
    BY <2>3, <2>4 DEF Owned, Idle
  <2>7. \A b \in Apps : job'[u].proc \notin Alive(b)
    BY <2>4, NamesAssumption DEF Idle, Alive, Serving, Booting
  <2>8. CASE LaunchFails(u)
    <3>1. \A b \in Apps : Alive(b)' = Alive(b) \ {job[u].proc}
      BY <2>8, EndedAlive DEF LaunchFails
    <3>2. UNCHANGED handle BY <2>8 DEF LaunchFails
    <3>3. ASSUME "cancel" \notin Env, NEW b \in Apps, NEW p \in Alive(b)'
          PROVE  \/ p = handle'[b]
                 \/ \E v \in Users : /\ job'[v].pc = "health"
                                     /\ job'[v].app = b /\ job'[v].proc = p
      BY <2>3, <3>1, <3>2, <3>3 DEF Owned, Known
    <3>4. ASSUME NEW v \in Users, NEW b \in Apps, job'[v].proc \in Alive(b)'
          PROVE  job'[v].app = b
      BY <2>3, <2>7, <3>1, <3>4 DEF Owned
    <3> QED BY <2>1, <2>3, <2>4, <2>6, <3>2, <3>3, <3>4
        DEF Owned, Known, Idle, Launching
  <2>9. CASE LaunchSucceeds(u)
    <3>1. \A b \in Apps : Alive(b)' = Alive(b)
      BY <2>9 DEF LaunchSucceeds, Alive, Serving, Booting
    <3>2. handle' = [handle EXCEPT ![a] = job[u].proc] /\ job[u].pc = "health"
      BY <2>9 DEF LaunchSucceeds
    <3>3. handle'[a] = job[u].proc /\ \A b \in Apps : b # a => handle'[b] = handle[b]
      BY <2>1, <3>2 DEF Typed, MemoryTypes
    <3>4. ASSUME "cancel" \notin Env, NEW b \in Apps, NEW p \in Alive(b)'
          PROVE  \/ p = handle'[b]
                 \/ \E v \in Users : /\ job'[v].pc = "health"
                                     /\ job'[v].app = b /\ job'[v].proc = p
      <4>1. CASE p = handle[b]
        <5>1. p # NoProc BY <3>1, <3>4, NamesAssumption DEF Alive, Serving, Booting
        <5> QED BY <2>2, <3>3, <4>1, <5>1
      <4>2. CASE \E v \in Users : /\ job[v].pc = "health"
                                  /\ job[v].app = b /\ job[v].proc = p
        BY <2>3, <3>3, <4>2
      <4> QED BY <3>1, <3>4, <4>1, <4>2 DEF Owned, Known
    <3>5. ASSUME NEW v \in Users, job'[v].pc \in Launching
          PROVE  handle'[job'[v].app] = NoProc
      <4>1. v # u BY <2>4, <3>5 DEF Idle, Launching
      <4>2. job[v].app \in Apps BY <2>3, <3>5, <4>1 DEF Typed, Named, Launching
      <4> QED BY <2>3, <2>5, <3>3, <3>5, <4>1, <4>2 DEF Owned
    <3>6. dog'.pc = "start" => handle'[dog'.app] = NoProc
      <4> SUFFICES ASSUME dog.pc = "start" PROVE handle'[dog.app] = NoProc
        BY <2>1
      <4>1. Holds(Dog, dog.app) /\ dog.app \in Apps
        BY DEF Locked, Typed, Named
      <4>2. dog.app # a BY <2>1, <4>1, NamesAssumption DEF Holds
      <4> QED BY <3>3, <4>1, <4>2 DEF Owned
    <3>7. ASSUME NEW v \in Users, NEW b \in Apps, job'[v].proc \in Alive(b)'
          PROVE  job'[v].app = b
      BY <2>3, <2>7, <3>1, <3>7 DEF Owned
    <3> QED BY <2>6, <3>4, <3>5, <3>6, <3>7 DEF Owned, Known
  <2> QED BY <1>4, <2>8, <2>9
<1>5. CASE CreateEnds(u) \/ DeleteEnds(u)
  <2>1. \A b \in Apps : Alive(b)' = Alive(b)
    BY <1>5 DEF CreateEnds, DeleteEnds, Alive, Serving, Booting
  <2>2. /\ job' = [job EXCEPT ![u] = Idle] /\ job[u].pc # "health"
        /\ UNCHANGED <<handle, dog>>
    BY <1>5 DEF CreateEnds, DeleteEnds, Finishes
  <2> QED BY <2>1, <2>2, StillOwned DEF Idle, Launching, Typed, CallTypes
<1>6. CASE DeleteRemoves(u)
  <2>1. \A b \in Apps : Alive(b)' = Alive(b)
    BY <1>6 DEF DeleteRemoves, Alive, Serving, Booting
  <2>2. /\ job' = [job EXCEPT ![u].pc = "forget"] /\ job[u].pc = "capture"
        /\ UNCHANGED <<handle, dog>>
    BY <1>6 DEF DeleteRemoves, Goes
  <2> QED BY <2>1, <2>2, StillOwned DEF Launching, Typed, CallTypes
<1>7. CASE LaunchCancelled(u)
  <2>1. /\ "cancel" \in Env /\ job' = [job EXCEPT ![u] = Idle]
        /\ UNCHANGED <<handle, dog, server>>
    BY <1>7 DEF LaunchCancelled, Finishes
  <2>2. \A b \in Apps : Alive(b)' = Alive(b)
    BY <2>1 DEF Alive, Serving, Booting
  <2>3. \A v \in Users : \/ job'[v] = job[v]
                         \/ job'[v].pc = "idle" /\ job'[v].proc = NoProc
    BY <2>1 DEF Idle, Typed, CallTypes
  <2>4. \A b \in Apps : NoProc \notin Alive(b)
    BY NamesAssumption DEF Alive, Serving, Booting
  <2> QED BY <2>1, <2>2, <2>3, <2>4 DEF Owned, Launching
<1> QED BY <1>1, <1>2, <1>3, <1>4, <1>5, <1>6, <1>7 DEF Proceeds

LEMMA OwnedDog ==
    ASSUME Typed, Locked, Owned, DogNext
    PROVE  Owned'
<1> DEFINE a == dog.app
<1>0. Dog \in Tasks /\ Dog \notin Users BY NamesAssumption DEF Tasks
<1>1. ASSUME NEW b \in Apps, Examine(b) PROVE Owned'
  <2>1. \A c \in Apps : Alive(c)' = Alive(c)
    BY <1>1 DEF Examine, Alive, Serving, Booting
  <2>2. \/ UNCHANGED handle
        \/ Dead(b) /\ handle' = [handle EXCEPT ![b] = NoProc]
    BY <1>1 DEF Examine
  <2>3. \A c \in Apps : \A q \in Alive(c) : q = handle[c] => q = handle'[c]
    BY <2>2, NamesAssumption
    DEF Typed, MemoryTypes, Dead, HandleGone, Gone, Alive, Serving, Booting
  <2>4. \A c \in Apps : handle[c] = NoProc => handle'[c] = NoProc
    BY <2>2 DEF Typed, MemoryTypes
  <2>5. UNCHANGED job /\ (dog' = dog \/ dog'.pc = "sleep")
    BY <1>1 DEF Examine
  <2> QED BY <2>1, <2>3, <2>4, <2>5, StillOwned
<1>2. CASE DogWakes
  <2>1. \A c \in Apps : Alive(c)' = Alive(c)
    BY <1>2 DEF DogWakes, Alive, Serving, Booting
  <2>2. dog'.pc = "wait" /\ UNCHANGED <<handle, job>>
    BY <1>2 DEF DogWakes, DogGoes, Typed, CallTypes
  <2> QED BY <2>1, <2>2, StillOwned
<1>3. CASE DogEnters
  <2>1. a \in Apps /\ Holds(Dog, a) /\ UNCHANGED job
    BY <1>3 DEF DogEnters, Typed, Named
  <2>2. CASE ~Dead(a)
    <3>1. UNCHANGED <<handle, server>> /\ dog' = Asleep
      BY <1>3, <2>2 DEF DogEnters
    <3>2. \A c \in Apps : Alive(c)' = Alive(c)
      BY <3>1 DEF Alive, Serving, Booting
    <3> QED BY <2>1, <3>1, <3>2, StillOwned DEF Asleep
  <2>3. CASE Dead(a)
    <3>1. /\ handle' = [handle EXCEPT ![a] = NoProc]
          /\ server' = Ended(OnPortOf(a))
          /\ dog' = [dog EXCEPT !.pc = "start"]
      BY <1>3, <2>3 DEF DogEnters, DogGoes
    <3>2. \A c \in Apps : Alive(c)' \subseteq Alive(c) BY <3>1, EndedAlive
    <3>3. \A c \in Apps : handle[c] = NoProc => handle'[c] = NoProc
      BY <3>1 DEF Typed, MemoryTypes
    <3>4. \A q \in Alive(a) : q # handle[a]
      BY <2>3, NamesAssumption
      DEF Dead, HandleGone, Gone, Alive, Serving, Booting
    <3>5. \A c \in Apps : \A q \in Alive(c)' :
              q \in Alive(c) /\ (q = handle[c] => q = handle'[c])
      BY <3>1, <3>2, <3>4 DEF Typed, MemoryTypes
    <3>6. handle'[dog'.app] = NoProc
      BY <2>1, <3>1 DEF Typed, MemoryTypes, CallTypes
    <3> QED BY <2>1, <3>3, <3>5, <3>6, StillOwned
  <2> QED BY <2>2, <2>3
<1>4. CASE DogStarts
  <2>1. a \in Apps /\ Holds(Dog, a) /\ handle[a] = NoProc /\ UNCHANGED job
    BY <1>4 DEF DogStarts, Typed, Named, Locked, Owned
  <2>2. PICK q \in Procs : /\ Boots(q, a)
                           /\ handle' = [handle EXCEPT ![a] = q]
    BY <1>4 DEF DogStarts
  <2>3. dog'.pc = "health"
    BY <1>4 DEF DogStarts, DogGoes, Typed, CallTypes
  <2>4. /\ \A b \in Apps :
              /\ Alive(b)' = Alive(b) \cup (IF b = a THEN {q} ELSE {})
              /\ q \notin Alive(b)
        /\ \A v \in Users : job[v].proc # q
    <3>1. PICK c \in Apps : c = a BY <2>1
    <3>2. Boots(q, c) BY <2>2, <3>1
    <3> HIDE DEF a
    <3> QED BY <3>1, <3>2, BootsAlive
  <2>5. "cancel" \notin Env => Alive(a) = {}
    <3>1. "cancel" \notin Env => \A p \in Alive(a) : p = handle[a]
      BY <1>0, <2>1, Alone
    <3> QED BY <2>1, <3>1, NamesAssumption DEF Alive, Serving, Booting
  <2>6. handle'[a] = q /\ \A b \in Apps : b # a => handle'[b] = handle[b]
    BY <2>1, <2>2 DEF Typed, MemoryTypes
  <2>7. ASSUME "cancel" \notin Env, NEW b \in Apps, NEW p \in Alive(b)'
        PROVE  \/ p = handle'[b]
               \/ \E v \in Users : /\ job'[v].pc = "health"
                                   /\ job'[v].app = b /\ job'[v].proc = p
    <3>1. CASE b = a BY <2>4, <2>5, <2>6, <2>7, <3>1
    <3>2. CASE b # a BY <2>1, <2>4, <2>6, <2>7, <3>2 DEF Owned, Known
    <3> QED BY <3>1, <3>2
  <2>8. ASSUME NEW v \in Users, job'[v].pc \in Launching
        PROVE  handle'[job'[v].app] = NoProc
    <3>1. Holds(v, job[v].app) /\ job[v].app \in Apps
      BY <2>1, <2>8 DEF Locked, Launching, Typed, Named
    <3>2. job[v].app # a BY <1>0, <2>1, <3>1 DEF Holds
    <3> QED BY <2>1, <2>6, <2>8, <3>1, <3>2 DEF Owned
  <2>9. ASSUME NEW v \in Users, NEW b \in Apps, job'[v].proc \in Alive(b)'
        PROVE  job'[v].app = b
    BY <2>1, <2>4, <2>9 DEF Owned
  <2> QED BY <2>1, <2>3, <2>7, <2>8, <2>9 DEF Owned, Known
<1>5. CASE DogFails \/ DogHealthy
  <2>1. \A c \in Apps : Alive(c)' = Alive(c)
    BY <1>5 DEF DogFails, DogHealthy, Alive, Serving, Booting
  <2>2. dog' = Asleep /\ UNCHANGED <<handle, job>>
    BY <1>5 DEF DogFails, DogHealthy
  <2> QED BY <2>1, <2>2, StillOwned DEF Asleep
<1> QED BY <1>1, <1>2, <1>3, <1>4, <1>5 DEF DogNext

\* Every step keeps the servers known.
LEMMA OwnedStep ==
    ASSUME Typed, Locked, Owned, [Next]_vars
    PROVE  Owned'
<1>1. ASSUME NEW a \in Apps, StopProject(a) PROVE Owned'
  <2>1. /\ server' = Ended(Killed(a)) /\ UNCHANGED <<job, dog>>
        /\ handle' = [handle EXCEPT ![a] = NoProc]
    BY <1>1 DEF StopProject, Stopped
  <2>2. \A b \in Apps : Alive(b)' = Alive(b) \ Killed(a)
    BY <2>1, EndedAlive
  <2>3. \A b \in Apps : \A q \in Alive(b)' :
            q \in Alive(b) /\ (q = handle[b] => q = handle'[b])
    BY <2>1, <2>2 DEF Killed, Typed, MemoryTypes
  <2>4. \A b \in Apps : handle[b] = NoProc => handle'[b] = NoProc
    BY <2>1 DEF Typed, MemoryTypes
  <2> QED BY <2>1, <2>3, <2>4, StillOwned
<1>2. ASSUME NEW q \in Procs, Binds(q) \/ Exits(q) PROVE Owned'
  <2>1. UNCHANGED <<handle, job, dog>> BY <1>2 DEF Binds, Exits
  <2>2. CASE server' = Ended({q})
    <3>1. \A b \in Apps : Alive(b)' = Alive(b) \ {q} BY <2>2, EndedAlive
    <3> QED BY <2>1, <3>1, StillOwned
  <2>3. CASE Binds(q) /\ server' = [server EXCEPT ![q].state = "up"]
    <3>1. \A b \in Apps : Alive(b)' = Alive(b)
      BY <2>3 DEF Binds, Alive, Serving, Booting, Typed, CallTypes
    <3> QED BY <2>1, <3>1, StillOwned
  <2> QED BY <1>2, <2>2, <2>3 DEF Binds, Exits
<1>3. CASE Restart
  <2>1. \A b \in Apps : Alive(b)' = {}
    BY <1>3 DEF Restart, Alive, Serving, Booting, NoServer
  <2> QED BY <1>3, <2>1 DEF Restart, Owned, Known, Idle, Asleep, Launching
<1>4. CASE UNCHANGED vars
  <2>1. \A b \in Apps : Alive(b)' = Alive(b)
    BY <1>4 DEF vars, Alive, Serving, Booting
  <2> QED BY <1>4, <2>1, StillOwned DEF vars
<1> QED
  BY <1>1, <1>2, <1>3, <1>4, OwnedCalls, OwnedProceeds, OwnedDog DEF Next

\* What always holds, whichever way CraftBot dies.
THEOREM LaunchesKeepTheirLocks == Spec => [](Typed /\ Locked /\ Owned)
<1>1. Init => Typed /\ Locked /\ Owned BY TypedInit, OwnedInit
<1>2. Typed /\ Locked /\ Owned /\ [Next]_vars => (Typed /\ Locked /\ Owned)'
  BY TypedStep, LockedStep, OwnedStep
<1> QED BY <1>1, <1>2, PTL DEF Spec

\* Two server processes never work on the same app's data: every live one
\* that something knows is the handle or the process of the launch that holds
\* the lock, and during a launch the app has no handle (_launch_lock in
\* _launch_native_locked and _watchdog_restart).
THEOREM OneServerPerApp == Spec => []OneWriter
<1>1. Typed /\ Locked /\ Owned => OneWriter
  <2> SUFFICES ASSUME Typed, Locked, Owned, NEW a \in Apps
               PROVE  \A p, q \in Alive(a) : p = q \/ Stray(p) \/ Stray(q)
    BY DEF OneWriter
  <2> DEFINE ByLaunch(u, q) == /\ job[u].pc = "health" /\ job[u].app = a
                               /\ job[u].proc = q
  <2>1. ASSUME NEW q \in Alive(a), ~Stray(q)
        PROVE  q # NoProc /\ (q = handle[a] \/ \E u \in Users : ByLaunch(u, q))
    <3>1. q \in Procs /\ ~Gone(q) /\ server[q].app = a
      BY DEF Alive, Serving, Booting, Gone
    <3>2. q # NoProc BY <3>1, NamesAssumption
    <3>3. CASE q = handle[a] BY <3>2, <3>3
    <3>4. CASE q # handle[a]
      <4>1. PICK u \in Users : job[u].proc = q BY <2>1, <3>1, <3>4 DEF Stray
      <4>2. job[u].pc = "health" /\ job[u].app = a BY <3>2, <4>1 DEF Owned
      <4> QED BY <3>2, <4>1, <4>2
    <3> QED BY <3>3, <3>4
  <2>2. ASSUME NEW u \in Users, NEW v \in Users, NEW p, NEW q,
               ByLaunch(u, p), ByLaunch(v, q)
        PROVE  p = q
    BY <2>2 DEF Locked, Holds
  <2>3. ASSUME NEW u \in Users, NEW q, ByLaunch(u, q) PROVE handle[a] = NoProc
    BY <2>3 DEF Owned, Launching
  <2> HIDE DEF ByLaunch
  <2> QED BY <2>1, <2>2, <2>3
<1> QED BY <1>1, LaunchesKeepTheirLocks, PTL

\* When no launch is cancelled, every live server is known, so OneWriter is
\* about all of them (_launch_native_locked stops what it fails to bring up).
THEOREM NothingIsStray ==
    ASSUME "cancel" \notin Env
    PROVE  Spec => [](\A q \in Procs : ~Stray(q))
<1>1. Typed /\ Owned => \A q \in Procs : ~Stray(q)
  <2> SUFFICES ASSUME Typed, Owned, NEW q \in Procs, ~Gone(q)
               PROVE  handle[server[q].app] = q \/ \E u \in Users : job[u].proc = q
    BY DEF Stray
  <2>1. server[q].app \in Apps BY DEF Typed, Named
  <2>2. q \in Alive(server[q].app)
    BY DEF Alive, Serving, Booting, Gone, Typed, CallTypes
  <2> QED BY <2>1, <2>2 DEF Owned, Known
<1> QED BY <1>1, LaunchesKeepTheirLocks, PTL

-----------------------------------------------------------------------------
(* Ports *)

\* An app that somebody has in hand has its port, and an app in creation is in
\* nobody else's hands.
Born ==
    /\ reserved \subseteq Ports
    /\ tree \subseteq registered
    /\ \A a \in registered : port[a] # NoPort
    /\ \A u \in Users : job[u].pc # "idle" => port[job[u].app] # NoPort
    /\ dog.pc # "idle" => port[dog.app] # NoPort
    /\ \A u \in Users : job[u].pc = "scaffold" =>
          /\ job[u].app \notin registered
          /\ \A v \in Users : job[v].pc # "idle" /\ job[v].app = job[u].app
                                 => v = u
          /\ dog.pc # "idle" => dog.app # job[u].app
    /\ \A u \in Users : job[u].pc = "forget" => job[u].app \notin tree

Filing == {"scaffold", "capture", "forget"}

\* Steps that leave the disk alone.
LEMMA StillBorn ==
    ASSUME Born, UNCHANGED disk, reserved' \subseteq Ports,
           \A u \in Users : job'[u].pc # "idle" =>
               \/ job'[u] = job[u]
               \/ /\ job'[u].pc \notin {"scaffold", "forget"}
                  /\ \/ job'[u].app \in registered
                     \/ /\ job[u].pc \notin {"idle", "scaffold"}
                        /\ job[u].app = job'[u].app,
           dog'.pc # "idle" =>
               \/ dog'.app \in registered
               \/ dog.pc # "idle" /\ dog'.app = dog.app
    PROVE  Born'
<1>1. /\ tree' \subseteq registered'
      /\ \A a \in registered' : port'[a] # NoPort
  BY DEF Born, disk
<1>2. ASSUME NEW u \in Users, job'[u].pc # "idle"
      PROVE  port'[job'[u].app] # NoPort
  BY <1>2 DEF Born, disk
<1>3. dog'.pc # "idle" => port'[dog'.app] # NoPort
  BY DEF Born, disk
<1>4. ASSUME NEW u \in Users, job'[u].pc = "scaffold"
      PROVE  /\ job'[u].app \notin registered'
             /\ \A v \in Users : job'[v].pc # "idle" /\ job'[v].app = job'[u].app
                                    => v = u
             /\ dog'.pc # "idle" => dog'.app # job'[u].app
  <2>1. job'[u] = job[u] BY <1>4
  <2>2. job[u].app \notin registered BY <1>4, <2>1 DEF Born
  <2>3. ASSUME NEW v \in Users, job'[v].pc # "idle",
               job'[v].app = job'[u].app
        PROVE  v = u
    <3>1. job[v].pc # "idle" /\ job[v].app = job[u].app
      BY <2>1, <2>2, <2>3
    <3> QED BY <1>4, <2>1, <3>1 DEF Born
  <2>4. dog'.pc # "idle" => dog'.app # job'[u].app
    BY <1>4, <2>1, <2>2 DEF Born
  <2> QED BY <2>1, <2>2, <2>3, <2>4 DEF disk
<1>5. ASSUME NEW u \in Users, job'[u].pc = "forget"
      PROVE  job'[u].app \notin tree'
  BY <1>5 DEF Born, disk
<1> QED BY <1>1, <1>2, <1>3, <1>4, <1>5 DEF Born

LEMMA BornInit == Init => Born
BY DEF Init, Born, Idle, Asleep

LEMMA BornCalls ==
    ASSUME Typed, Born, NEW u \in Users, Calls(u)
    PROVE  Born'
<1>1. ASSUME NEW a \in Apps, NEW pc \in {"wait", "capture"},
             a \in registered, Begins(u, pc, a), UNCHANGED <<disk, reserved, dog>>
      PROVE  Born'
  <2>1. \A v \in Users :
            job'[v] = job[v] \/ (job'[v].pc = pc /\ job'[v].app = a)
    <3>1. job' = [job EXCEPT ![u] = [pc |-> pc, app |-> a, proc |-> NoProc]]
      BY <1>1 DEF Begins
    <3> QED BY <3>1 DEF Typed, CallTypes
  <2>2. reserved' \subseteq Ports BY <1>1 DEF Born
  <2> QED BY <1>1, <2>1, <2>2, StillBorn
<1>2. ASSUME NEW a \in Apps, \/ LaunchAndVerify(u, a) \/ LaunchProject(u, a)
                             \/ AutoLaunch(u, a)
      PROVE  Born'
  <2>1. UNCHANGED <<disk, reserved, dog>>
    BY <1>2 DEF LaunchAndVerify, LaunchProject, AutoLaunch
  <2>4. UNCHANGED job \/ (a \in registered /\ Begins(u, "wait", a))
    BY <1>2 DEF LaunchAndVerify, LaunchProject, AutoLaunch, Asks
  <2>2. CASE UNCHANGED job BY <2>1, <2>2, StillBorn DEF Born
  <2>3. CASE a \in registered /\ Begins(u, "wait", a) BY <1>1, <2>1, <2>3
  <2> QED BY <2>2, <2>3, <2>4
<1>3. ASSUME NEW a \in Apps, CreateProject(u, a) PROVE Born'
  <2>1. PICK p \in Free : /\ port' = [port EXCEPT ![a] = p]
                          /\ reserved' = reserved \cup {p}
    BY <1>3 DEF CreateProject
  <2>2. p \in Ports /\ p # NoPort BY <2>1, PortsAssumption DEF Free, NoPort
  <2>3. /\ port'[a] # NoPort /\ \A b \in Apps : b # a => port'[b] = port[b]
        /\ port[a] = NoPort
    BY <1>3, <2>1, <2>2 DEF CreateProject, Typed, DiskTypes
  <2>4. /\ job[u].pc = "idle" /\ job'[u].pc = "scaffold" /\ job'[u].app = a
        /\ \A v \in Users : v # u => job'[v] = job[v]
        /\ UNCHANGED <<registered, tree, dog>>
    BY <1>3 DEF CreateProject, Begins, Typed, CallTypes
  <2>5. /\ a \notin registered
        /\ \A v \in Users : job[v].pc # "idle" => job[v].app # a
        /\ dog.pc # "idle" => dog.app # a
    BY <2>3 DEF Born
  <2>6. \A v \in Users : job[v].pc # "idle" => job[v].app \in Apps
    BY DEF Typed, Named
  <2>7. /\ reserved' \subseteq Ports /\ tree' \subseteq registered'
        /\ \A b \in registered' : port'[b] # NoPort
        /\ \A v \in Users : job'[v].pc # "idle" => port'[job'[v].app] # NoPort
    BY <2>1, <2>2, <2>3, <2>4, <2>6 DEF Born, Typed, DiskTypes
  <2>8. dog'.pc # "idle" => port'[dog'.app] # NoPort
    BY <2>3, <2>4, <2>5 DEF Born, Typed, Named
  <2>9. ASSUME NEW v \in Users, job'[v].pc = "scaffold"
        PROVE  /\ job'[v].app \notin registered'
               /\ \A w \in Users : job'[w].pc # "idle"
                                      /\ job'[w].app = job'[v].app => w = v
               /\ dog'.pc # "idle" => dog'.app # job'[v].app
    <3>1. CASE v = u BY <2>4, <2>5, <3>1
    <3>2. CASE v # u
      <4>1. job'[v] = job[v] BY <2>4, <3>2
      <4> QED BY <2>4, <2>5, <2>9, <3>2, <4>1 DEF Born
    <3> QED BY <3>1, <3>2
  <2>10. \A v \in Users : job'[v].pc = "forget" => job'[v].app \notin tree'
    BY <2>4 DEF Born
  <2> QED BY <2>7, <2>8, <2>9, <2>10 DEF Born
<1> QED BY <1>1, <1>2, <1>3 DEF Calls, DeleteProject

LEMMA BornProceeds ==
    ASSUME Typed, Born, NEW u \in Users, Proceeds(u)
    PROVE  Born'
<1> DEFINE a == job[u].app
<1>1. CASE Enters(u) \/ Passes(u) \/ Starts(u)
  <2>1. /\ job[u].pc \in {"wait", "gate", "start"}
        /\ UNCHANGED <<disk, reserved, dog>>
    BY <1>1 DEF Enters, Passes, Starts
  <2>2. /\ job'[u].pc \in Launching /\ job'[u].app = job[u].app
        /\ \A v \in Users : v # u => job'[v] = job[v]
    BY <1>1
    DEF Enters, Passes, Starts, Goes, Launching, Typed, CallTypes
  <2>3. reserved' \subseteq Ports BY <2>1 DEF Born
  <2>4. job[u].pc \notin {"idle", "scaffold"}
        /\ job'[u].pc \notin {"scaffold", "forget"}
    BY <2>1, <2>2 DEF Launching
  <2> QED BY <2>1, <2>2, <2>3, <2>4, StillBorn
<1>2. CASE LaunchFails(u) \/ LaunchSucceeds(u) \/ LaunchCancelled(u)
  <2>1. /\ job[u].pc # "idle" /\ job' = [job EXCEPT ![u] = Idle]
        /\ UNCHANGED <<disk, dog>>
        /\ reserved' \subseteq reserved \cup {port[job[u].app]}
    BY <1>2 DEF LaunchFails, LaunchSucceeds, LaunchCancelled, Finishes
  <2>2. port[job[u].app] \in Ports
    BY <2>1 DEF Born, Typed, Named, DiskTypes
  <2>3. reserved' \subseteq Ports BY <2>1, <2>2 DEF Born
  <2>4. \A v \in Users : job'[v] = job[v] \/ job'[v].pc = "idle"
    BY <2>1 DEF Idle, Typed, CallTypes
  <2> QED BY <2>1, <2>3, <2>4, StillBorn
<1>3. CASE CreateEnds(u)
  <2>1. /\ job[u].pc = "scaffold" /\ job'[u] = Idle /\ UNCHANGED dog
        /\ \A v \in Users : v # u => job'[v] = job[v]
    BY <1>3 DEF CreateEnds, Finishes, Typed, CallTypes
  <2>2. /\ a \in Apps /\ a \notin registered /\ a \notin tree
        /\ port[a] # NoPort
        /\ \A v \in Users : v # u /\ job[v].pc # "idle" => job[v].app # a
        /\ dog.pc # "idle" => dog.app # a
    BY <2>1 DEF Born, Typed, Named
  <2>3. /\ reserved' \subseteq Ports /\ tree' \subseteq registered'
        /\ registered' \subseteq registered \cup {a}
        /\ tree' \subseteq tree \cup {a}
        /\ \A b \in Apps : b # a => port'[b] = port[b]
        /\ a \in registered' => port'[a] # NoPort
    BY <1>3, <2>2 DEF CreateEnds, Born, Typed, DiskTypes
  <2>4. \A b \in registered' : port'[b] # NoPort
    BY <2>3 DEF Born, Typed, DiskTypes
  <2>5. ASSUME NEW v \in Users, job'[v].pc # "idle"
        PROVE  /\ v # u /\ job'[v] = job[v]
               /\ port'[job'[v].app] # NoPort
    BY <2>1, <2>2, <2>3, <2>5 DEF Idle, Born, Typed, Named
  <2>6. dog'.pc # "idle" => port'[dog'.app] # NoPort
    BY <2>1, <2>2, <2>3 DEF Born, Typed, Named
  <2>7. ASSUME NEW v \in Users, job'[v].pc = "scaffold"
        PROVE  /\ job'[v].app \notin registered'
               /\ \A w \in Users : job'[w].pc # "idle"
                                      /\ job'[w].app = job'[v].app => w = v
               /\ dog'.pc # "idle" => dog'.app # job'[v].app
    <3>1. v # u /\ job'[v] = job[v] BY <2>5, <2>7
    <3>2. job[v].app \notin registered' BY <2>2, <2>3, <2>7, <3>1 DEF Born
    <3>3. ASSUME NEW w \in Users, job'[w].pc # "idle",
                 job'[w].app = job'[v].app
          PROVE  w = v
      BY <2>5, <2>7, <3>1, <3>3 DEF Born
    <3> QED BY <2>1, <2>7, <3>1, <3>2, <3>3 DEF Born
  <2>8. ASSUME NEW v \in Users, job'[v].pc = "forget"
        PROVE  job'[v].app \notin tree'
    BY <2>2, <2>3, <2>5, <2>8 DEF Born
  <2> QED BY <2>3, <2>4, <2>5, <2>6, <2>7, <2>8 DEF Born
<1>4. CASE DeleteRemoves(u)
  <2>1. /\ job[u].pc = "capture" /\ job'[u].pc = "forget" /\ job'[u].app = a
        /\ \A v \in Users : v # u => job'[v] = job[v]
        /\ tree' = tree \ {a} /\ reserved' \subseteq reserved
        /\ UNCHANGED <<registered, port, dog>>
    BY <1>4 DEF DeleteRemoves, Goes, Typed, CallTypes
  <2>2. /\ reserved' \subseteq Ports /\ tree' \subseteq registered'
        /\ \A b \in registered' : port'[b] # NoPort
        /\ \A v \in Users : job'[v].pc # "idle" => port'[job'[v].app] # NoPort
        /\ dog'.pc # "idle" => port'[dog'.app] # NoPort
    BY <2>1 DEF Born
  <2>3. ASSUME NEW v \in Users, job'[v].pc = "scaffold"
        PROVE  /\ job'[v].app \notin registered'
               /\ \A w \in Users : job'[w].pc # "idle"
                                      /\ job'[w].app = job'[v].app => w = v
               /\ dog'.pc # "idle" => dog'.app # job'[v].app
    BY <2>1, <2>3 DEF Born
  <2>4. \A v \in Users : job'[v].pc = "forget" => job'[v].app \notin tree'
    BY <2>1 DEF Born
  <2> QED BY <2>2, <2>3, <2>4 DEF Born
<1>5. CASE DeleteEnds(u)
  <2>1. /\ job[u].pc = "forget" /\ job'[u] = Idle
        /\ \A v \in Users : v # u => job'[v] = job[v]
        /\ registered' = registered \ {a}
        /\ UNCHANGED <<tree, port, reserved, dog>>
    BY <1>5 DEF DeleteEnds, Finishes, Typed, CallTypes
  <2>2. /\ reserved' \subseteq Ports /\ tree' \subseteq registered'
        /\ \A b \in registered' : port'[b] # NoPort
        /\ dog'.pc # "idle" => port'[dog'.app] # NoPort
    BY <2>1 DEF Born
  <2>3. \A v \in Users : job'[v].pc # "idle" => job'[v] = job[v]
    BY <2>1 DEF Idle
  <2>4. ASSUME NEW v \in Users, job'[v].pc = "scaffold"
        PROVE  /\ job'[v].app \notin registered'
               /\ \A w \in Users : job'[w].pc # "idle"
                                      /\ job'[w].app = job'[v].app => w = v
               /\ dog'.pc # "idle" => dog'.app # job'[v].app
    BY <2>1, <2>3, <2>4 DEF Born
  <2>5. \A v \in Users :
            /\ job'[v].pc # "idle" => port'[job'[v].app] # NoPort
            /\ job'[v].pc = "forget" => job'[v].app \notin tree'
    BY <2>1, <2>3 DEF Born
  <2> QED BY <2>2, <2>4, <2>5 DEF Born
<1> QED BY <1>1, <1>2, <1>3, <1>4, <1>5 DEF Proceeds

LEMMA BornStep ==
    ASSUME Typed, Born, [Next]_vars
    PROVE  Born'
<1>1. ASSUME UNCHANGED <<disk, job>>, reserved' \subseteq Ports,
             \/ dog'.pc = "idle" \/ dog'.app \in registered
             \/ dog.pc # "idle" /\ dog'.app = dog.app
      PROVE  Born'
  BY <1>1, StillBorn
<1>2. CASE DogNext
  <2>1. ASSUME NEW a \in Apps, Examine(a) PROVE Born'
    <3>1. dog' = dog \/ (dog'.app = a /\ a \in registered)
      BY <2>1 DEF Examine
    <3> QED BY <1>1, <2>1, <3>1 DEF Examine, Born
  <2>2. CASE DogWakes \/ DogEnters \/ DogStarts \/ DogFails
    <3>1. /\ UNCHANGED <<disk, job, reserved>>
          /\ dog.pc # "idle"
          /\ dog' = Asleep \/ \E pc : dog' = [dog EXCEPT !.pc = pc]
      BY <2>2 DEF DogWakes, DogEnters, DogStarts, DogFails, DogGoes
    <3>2. dog'.pc = "idle" \/ dog'.app = dog.app
      BY <3>1 DEF Asleep, Typed, CallTypes
    <3> QED BY <1>1, <3>1, <3>2 DEF Born
  <2>3. CASE DogHealthy
    <3>1. dog.pc # "idle" /\ reserved' = reserved \cup {port[dog.app]}
      BY <2>3 DEF DogHealthy
    <3>2. port[dog.app] \in Ports
      BY <3>1 DEF Born, Typed, Named, DiskTypes
    <3> QED BY <1>1, <2>3, <3>1, <3>2 DEF DogHealthy, Asleep, Born
  <2> QED BY <1>2, <2>1, <2>2, <2>3 DEF DogNext
<1>3. ASSUME \/ \E a \in Apps : StopProject(a)
             \/ \E q \in Procs : Binds(q) \/ Exits(q)
             \/ UNCHANGED vars
      PROVE  Born'
  <2>1. UNCHANGED <<disk, job, reserved, dog>>
    BY <1>3 DEF StopProject, Binds, Exits, vars, disk
  <2> QED BY <1>1, <2>1 DEF Born
<1>4. CASE Restart
  <2>1. ASSUME NEW a \in registered PROVE port'[a] = port[a]
    BY <1>4, <2>1 DEF Restart, Born, Typed, DiskTypes
  <2>2. /\ reserved' = {port[a] : a \in registered}
        /\ UNCHANGED <<registered, tree>>
        /\ \A u \in Users : job'[u] = Idle
        /\ dog' = Asleep
    BY <1>4 DEF Restart
  <2>3. reserved' \subseteq Ports
    BY <2>2 DEF Born, Typed, DiskTypes
  <2> QED BY <2>1, <2>2, <2>3 DEF Born, Idle, Asleep
<1> QED BY <1>2, <1>3, <1>4, BornCalls, BornProceeds DEF Next

\* Every variable has its type in every environment (TypeOK).
THEOREM AppTypesHold == Spec => []TypeOK
<1>1. Init => Typed /\ Locked /\ Born BY TypedInit, OwnedInit, BornInit
<1>2. Typed /\ Locked /\ Born /\ [Next]_vars => (Typed /\ Locked /\ Born)'
  BY TypedStep, LockedStep, BornStep
<1>3. Typed /\ Born => TypeOK
  BY DEF Typed, DiskTypes, MemoryTypes, CallTypes, Born, TypeOK
<1> QED BY <1>1, <1>2, <1>3, PTL DEF Spec

\* The apps whose port nobody else may get.
Held == tree \cup {job[u].app : u \in {v \in Users : job[v].pc = "scaffold"}}

\* What holds unless CraftBot dies between the two halves of a deletion: the
\* ports in use are reserved and differ, an app without files is being
\* forgotten, and only one deletion is at work on an app.
Kept ==
    /\ \A a \in Held : port[a] \in reserved
    /\ \A a, b \in Held : port[a] = port[b] => a = b
    /\ \A a \in registered \ tree :
          \E u \in Users : job[u].pc = "forget" /\ job[u].app = a
    /\ \A u \in Users : job[u].pc = "capture" => job[u].app \in tree
    /\ \A u, v \in Users :
          /\ job[u].pc \in {"capture", "forget"}
          /\ job[v].pc \in {"capture", "forget"}
          => (job[u].app = job[v].app => u = v)

\* Steps of launches, stops and the watchdog.
LEMMA StillKept ==
    ASSUME Kept, UNCHANGED disk, reserved \subseteq reserved',
           \A u \in Users : \/ job'[u] = job[u]
                            \/ /\ job[u].pc \notin Filing
                               /\ job'[u].pc \notin Filing
    PROVE  Kept'
<1>1. Held' = Held BY DEF Held, Filing, disk
<1>2. \A u \in Users : job[u].pc \in Filing \/ job'[u].pc \in Filing
          => job'[u] = job[u]
  OBVIOUS
<1>3. \A a \in Held' : port'[a] \in reserved' BY <1>1 DEF Kept, disk
<1>4. \A a, b \in Held' : port'[a] = port'[b] => a = b
  BY <1>1 DEF Kept, disk
<1>5. \A a \in registered' \ tree' :
          \E u \in Users : job'[u].pc = "forget" /\ job'[u].app = a
  <2> SUFFICES ASSUME NEW a \in registered \ tree
               PROVE  \E u \in Users : job'[u].pc = "forget" /\ job'[u].app = a
    BY DEF disk
  <2>1. PICK u \in Users : job[u].pc = "forget" /\ job[u].app = a BY DEF Kept
  <2> QED BY <1>2, <2>1 DEF Filing
<1>6. \A u \in Users : job'[u].pc = "capture" => job'[u].app \in tree'
  BY <1>2 DEF Kept, Filing, disk
<1>7. \A u, v \in Users :
          /\ job'[u].pc \in {"capture", "forget"}
          /\ job'[v].pc \in {"capture", "forget"}
          => (job'[u].app = job'[v].app => u = v)
  BY <1>2 DEF Kept, Filing
<1> QED BY <1>3, <1>4, <1>5, <1>6, <1>7 DEF Kept

LEMMA KeptInit == Init => Kept
BY DEF Init, Kept, Held, Idle

LEMMA KeptCalls ==
    ASSUME Typed, Born, Kept, NEW u \in Users, Calls(u)
    PROVE  Kept'
<1>1. ASSUME NEW a \in Apps, Begins(u, "wait", a), UNCHANGED <<disk, reserved>>
      PROVE  Kept'
  <2>1. job' = [job EXCEPT ![u] = [pc |-> "wait", app |-> a, proc |-> NoProc]]
        /\ job[u].pc = "idle"
    BY <1>1 DEF Begins
  <2>2. \A v \in Users : \/ job'[v] = job[v]
                         \/ job[v].pc \notin Filing /\ job'[v].pc \notin Filing
    BY <2>1 DEF Filing, Typed, CallTypes
  <2> QED BY <1>1, <2>2, StillKept
<1>2. ASSUME NEW a \in Apps, \/ LaunchAndVerify(u, a) \/ LaunchProject(u, a)
                             \/ AutoLaunch(u, a)
      PROVE  Kept'
  <2>1. /\ UNCHANGED <<disk, reserved>>
        /\ UNCHANGED job \/ Begins(u, "wait", a)
    BY <1>2 DEF LaunchAndVerify, LaunchProject, AutoLaunch, Asks
  <2>2. CASE UNCHANGED job BY <2>1, <2>2, StillKept
  <2>3. CASE Begins(u, "wait", a) BY <1>1, <2>1, <2>3
  <2> QED BY <2>1, <2>2, <2>3
<1>3. ASSUME NEW a \in Apps, CreateProject(u, a) PROVE Kept'
  <2>1. PICK p \in Free : /\ port' = [port EXCEPT ![a] = p]
                          /\ reserved' = reserved \cup {p}
    BY <1>3 DEF CreateProject
  <2>2. /\ p \notin reserved /\ p \in Ports
        /\ port'[a] = p /\ \A b \in Apps : b # a => port'[b] = port[b]
    BY <2>1 DEF Free, Typed, DiskTypes
  <2>3. /\ job[u].pc = "idle" /\ job'[u].pc = "scaffold" /\ job'[u].app = a
        /\ \A v \in Users : v # u => job'[v] = job[v]
        /\ UNCHANGED <<registered, tree>>
    BY <1>3 DEF CreateProject, Begins, Typed, CallTypes
  <2>4. Held' = Held \cup {a} BY <2>3 DEF Held
  <2>5. Held \subseteq Apps BY DEF Held, Typed, DiskTypes, Named
  <2>6. a \notin Held BY <1>3 DEF CreateProject, Held, Born
  <2>7. \A b \in Held : port'[b] = port[b] /\ port[b] \in reserved
    BY <2>2, <2>5, <2>6 DEF Kept
  <2>8. \A b \in Held' : port'[b] \in reserved' BY <2>1, <2>2, <2>4, <2>7
  <2>9. \A b, c \in Held' : port'[b] = port'[c] => b = c
    BY <2>2, <2>4, <2>7 DEF Kept
  <2>10. \A b \in registered' \ tree' :
             \E v \in Users : job'[v].pc = "forget" /\ job'[v].app = b
    <3> SUFFICES ASSUME NEW b \in registered \ tree
                 PROVE  \E v \in Users : job'[v].pc = "forget" /\ job'[v].app = b
      BY <2>3
    <3>1. PICK v \in Users : job[v].pc = "forget" /\ job[v].app = b BY DEF Kept
    <3>2. v # u BY <2>3, <3>1
    <3> QED BY <2>3, <3>1, <3>2
  <2>11. \A v \in Users : job'[v].pc \in {"capture", "forget"}
             => job'[v] = job[v]
    BY <2>3
  <2> QED BY <2>3, <2>8, <2>9, <2>10, <2>11 DEF Kept
<1>4. ASSUME NEW a \in Apps, DeleteProject(u, a) PROVE Kept'
  <2>1. /\ job[u].pc = "idle" /\ job'[u].pc = "capture" /\ job'[u].app = a
        /\ \A v \in Users : v # u => job'[v] = job[v]
        /\ UNCHANGED <<registered, tree, port, reserved>>
    BY <1>4 DEF DeleteProject, Begins, disk, Typed, CallTypes
  <2>2. a \in registered
        /\ \A v \in Users : ~(job[v].app = a
                                /\ job[v].pc \in {"capture", "forget"})
    BY <1>4 DEF DeleteProject
  <2>3. a \in tree BY <2>2 DEF Kept
  <2>4. Held' = Held BY <2>1 DEF Held
  <2>5. \A b \in registered' \ tree' :
            \E v \in Users : job'[v].pc = "forget" /\ job'[v].app = b
    <3> SUFFICES ASSUME NEW b \in registered \ tree
                 PROVE  \E v \in Users : job'[v].pc = "forget" /\ job'[v].app = b
      BY <2>1
    <3>1. PICK v \in Users : job[v].pc = "forget" /\ job[v].app = b BY DEF Kept
    <3>2. v # u BY <2>1, <3>1
    <3> QED BY <2>1, <3>1, <3>2
  <2>6. \A v \in Users : job'[v].pc = "capture" => job'[v].app \in tree'
    BY <2>1, <2>3 DEF Kept
  <2>7. \A v, w \in Users :
            /\ job'[v].pc \in {"capture", "forget"}
            /\ job'[w].pc \in {"capture", "forget"}
            => (job'[v].app = job'[w].app => v = w)
    BY <2>1, <2>2 DEF Kept
  <2>8. /\ \A b \in Held' : port'[b] \in reserved'
        /\ \A b, c \in Held' : port'[b] = port'[c] => b = c
    BY <2>1, <2>4 DEF Kept
  <2> QED BY <2>5, <2>6, <2>7, <2>8 DEF Kept
<1> QED BY <1>2, <1>3, <1>4 DEF Calls

LEMMA KeptProceeds ==
    ASSUME Typed, Born, Kept, NEW u \in Users, Proceeds(u)
    PROVE  Kept'
<1> DEFINE a == job[u].app
<1>0. Held \subseteq Apps BY DEF Held, Typed, DiskTypes, Named
<1>1. CASE Enters(u) \/ Passes(u) \/ Starts(u)
  <2>1. /\ job[u].pc \in {"wait", "gate", "start"}
        /\ UNCHANGED <<disk, reserved>>
    BY <1>1 DEF Enters, Passes, Starts
  <2>2. /\ job'[u].pc \in Launching
        /\ \A v \in Users : v # u => job'[v] = job[v]
    BY <1>1
    DEF Enters, Passes, Starts, Goes, Launching, Typed, CallTypes
  <2>3. job[u].pc \notin Filing /\ job'[u].pc \notin Filing
    BY <2>1, <2>2 DEF Filing, Launching
  <2> QED BY <2>1, <2>2, <2>3, StillKept
<1>2. CASE LaunchFails(u) \/ LaunchSucceeds(u) \/ LaunchCancelled(u)
  <2>1. /\ job[u].pc \in Launching \cup {"wait"}
        /\ job' = [job EXCEPT ![u] = Idle]
        /\ UNCHANGED disk /\ reserved \subseteq reserved'
    BY <1>2 DEF LaunchFails, LaunchSucceeds, LaunchCancelled, Finishes,
       Launching
  <2>2. \A v \in Users : \/ job'[v] = job[v]
                         \/ job[v].pc \notin Filing /\ job'[v].pc \notin Filing
    BY <2>1 DEF Idle, Filing, Launching, Typed, CallTypes
  <2> QED BY <2>1, <2>2, StillKept
<1>3. CASE CreateEnds(u)
  <2>1. /\ job[u].pc = "scaffold" /\ job'[u] = Idle
        /\ \A v \in Users : v # u => job'[v] = job[v]
    BY <1>3 DEF CreateEnds, Finishes, Typed, CallTypes
  <2>2. /\ a \in Apps /\ a \notin registered /\ a \notin tree /\ a \in Held
        /\ \A v \in Users : v # u /\ job[v].pc # "idle" => job[v].app # a
    BY <2>1 DEF Born, Typed, Named, Held
  <2>3. \A v \in Users : job'[v].pc # "idle" => v # u /\ job'[v] = job[v]
    BY <2>1 DEF Idle
  <2>4. \A b : (\E v \in Users : job[v].pc = "forget" /\ job[v].app = b)
            => \E v \in Users : job'[v].pc = "forget" /\ job'[v].app = b
    BY <2>1
  <2>5. \A v, w \in Users :
            /\ job'[v].pc \in {"capture", "forget"}
            /\ job'[w].pc \in {"capture", "forget"}
            => (job'[v].app = job'[w].app => v = w)
    BY <2>3 DEF Kept
  <2>6. CASE /\ registered' = registered \cup {a}
             /\ tree' = tree \cup {a}
             /\ UNCHANGED <<port, reserved>>
    <3>1. Held' \subseteq Held BY <2>2, <2>3, <2>6 DEF Held
    <3>2. /\ \A b \in Held' : port'[b] \in reserved'
          /\ \A b, c \in Held' : port'[b] = port'[c] => b = c
      BY <2>6, <3>1 DEF Kept
    <3>3. \A b \in registered' \ tree' :
              \E v \in Users : job'[v].pc = "forget" /\ job'[v].app = b
      BY <2>4, <2>6 DEF Kept
    <3>4. \A v \in Users : job'[v].pc = "capture" => job'[v].app \in tree'
      BY <2>3, <2>6 DEF Kept
    <3> QED BY <2>5, <3>2, <3>3, <3>4 DEF Kept
  <2>7. CASE /\ reserved \ {port[a]} \subseteq reserved'
             /\ port' = [port EXCEPT ![a] = NoPort]
             /\ UNCHANGED <<registered, tree>>
    <3>1. Held' \subseteq Held \ {a} BY <2>2, <2>3, <2>7 DEF Held
    <3>2. \A b \in Held' :
              port'[b] = port[b] /\ port[b] \in reserved /\ port[b] # port[a]
      BY <1>0, <2>2, <2>7, <3>1 DEF Kept, Typed, DiskTypes
    <3>3. /\ \A b \in Held' : port'[b] \in reserved'
          /\ \A b, c \in Held' : port'[b] = port'[c] => b = c
      BY <2>7, <3>1, <3>2 DEF Kept
    <3>4. \A b \in registered' \ tree' :
              \E v \in Users : job'[v].pc = "forget" /\ job'[v].app = b
      BY <2>4, <2>7 DEF Kept
    <3>5. \A v \in Users : job'[v].pc = "capture" => job'[v].app \in tree'
      BY <2>3, <2>7 DEF Kept
    <3> QED BY <2>5, <3>3, <3>4, <3>5 DEF Kept
  <2> QED BY <1>3, <2>6, <2>7 DEF CreateEnds
<1>4. CASE DeleteRemoves(u)
  <2>1. /\ job[u].pc = "capture" /\ job'[u].pc = "forget" /\ job'[u].app = a
        /\ \A v \in Users : v # u => job'[v] = job[v]
        /\ tree' = tree \ {a} /\ reserved' = reserved \ {port[a]}
        /\ UNCHANGED <<registered, port>>
    BY <1>4 DEF DeleteRemoves, Goes, Typed, CallTypes
  <2>2. a \in tree /\ a \in registered /\ a \in Held
    BY <2>1 DEF Kept, Born, Held
  <2>3. Held' \subseteq Held \ {a}
    BY <2>1, <2>2 DEF Held, Born
  <2>4. /\ \A b \in Held' : port'[b] \in reserved'
        /\ \A b, c \in Held' : port'[b] = port'[c] => b = c
    BY <2>1, <2>2, <2>3 DEF Kept
  <2>5. \A b \in registered' \ tree' :
            \E v \in Users : job'[v].pc = "forget" /\ job'[v].app = b
    <3> SUFFICES ASSUME NEW b \in registered \ tree'
                 PROVE  \E v \in Users : job'[v].pc = "forget" /\ job'[v].app = b
      BY <2>1
    <3>1. CASE b = a BY <2>1, <3>1
    <3>2. CASE b # a
      <4>1. PICK v \in Users : job[v].pc = "forget" /\ job[v].app = b
        BY <2>1, <3>2 DEF Kept
      <4>2. v # u BY <2>1, <4>1
      <4> QED BY <2>1, <4>1, <4>2
    <3> QED BY <3>1, <3>2
  <2>6. \A v \in Users : job'[v].pc = "capture" => job'[v].app \in tree'
    BY <2>1 DEF Kept
  <2>7. \A v, w \in Users :
            /\ job'[v].pc \in {"capture", "forget"}
            /\ job'[w].pc \in {"capture", "forget"}
            => (job'[v].app = job'[w].app => v = w)
    BY <2>1 DEF Kept
  <2> QED BY <2>4, <2>5, <2>6, <2>7 DEF Kept
<1>5. CASE DeleteEnds(u)
  <2>1. /\ job[u].pc = "forget" /\ job'[u] = Idle
        /\ \A v \in Users : v # u => job'[v] = job[v]
        /\ registered' = registered \ {a}
        /\ UNCHANGED <<tree, port, reserved>>
    BY <1>5 DEF DeleteEnds, Finishes, Typed, CallTypes
  <2>2. \A v \in Users : job'[v].pc # "idle" => job'[v] = job[v]
    BY <2>1 DEF Idle
  <2>3. Held' = Held BY <2>1 DEF Held, Idle
  <2>4. /\ \A b \in Held' : port'[b] \in reserved'
        /\ \A b, c \in Held' : port'[b] = port'[c] => b = c
    BY <2>1, <2>3 DEF Kept
  <2>5. \A b \in registered' \ tree' :
            \E v \in Users : job'[v].pc = "forget" /\ job'[v].app = b
    <3> SUFFICES ASSUME NEW b \in registered \ tree, b # a
                 PROVE  \E v \in Users : job'[v].pc = "forget" /\ job'[v].app = b
      BY <2>1
    <3>1. PICK v \in Users : job[v].pc = "forget" /\ job[v].app = b BY DEF Kept
    <3> QED BY <2>1, <3>1
  <2>6. /\ \A v \in Users : job'[v].pc = "capture" => job'[v].app \in tree'
        /\ \A v, w \in Users :
              /\ job'[v].pc \in {"capture", "forget"}
              /\ job'[w].pc \in {"capture", "forget"}
              => (job'[v].app = job'[w].app => v = w)
    BY <2>1, <2>2 DEF Kept
  <2> QED BY <2>4, <2>5, <2>6 DEF Kept
<1> QED BY <1>1, <1>2, <1>3, <1>4, <1>5 DEF Proceeds

\* A crash that leaves no deletion half done loads exactly the apps with files.
LEMMA KeptStep ==
    ASSUME "crash_in_delete" \notin Env, Typed, Born, Kept, [Next]_vars
    PROVE  Kept'
<1>1. ASSUME UNCHANGED <<disk, job>>, reserved \subseteq reserved' PROVE Kept'
  BY <1>1, StillKept
<1>2. CASE DogNext
  <2>1. UNCHANGED <<disk, job>> /\ reserved \subseteq reserved'
    BY <1>2 DEF DogNext, Examine, DogWakes, DogEnters, DogStarts, DogFails,
       DogHealthy
  <2> QED BY <1>1, <2>1
<1>3. ASSUME \/ \E a \in Apps : StopProject(a)
             \/ \E q \in Procs : Binds(q) \/ Exits(q)
             \/ UNCHANGED vars
      PROVE  Kept'
  <2>1. UNCHANGED <<disk, job, reserved>>
    BY <1>3 DEF StopProject, Binds, Exits, vars, disk
  <2> QED BY <1>1, <2>1
<1>4. CASE Restart
  <2>1. /\ \A u \in Users : job[u].pc # "forget"
        /\ \A u \in Users : job'[u] = Idle
        /\ reserved' = {port[a] : a \in registered}
        /\ UNCHANGED <<registered, tree>>
    BY <1>4 DEF Restart
  <2>2. registered = tree BY <2>1 DEF Born, Kept
  <2>3. Held' = tree BY <2>1 DEF Held, Idle
  <2>4. ASSUME NEW a \in registered PROVE port'[a] = port[a]
    BY <1>4, <2>4 DEF Restart, Born, Typed, DiskTypes
  <2>5. /\ \A a \in Held' : port'[a] \in reserved'
        /\ \A a, b \in Held' : port'[a] = port'[b] => a = b
    BY <2>1, <2>2, <2>3, <2>4 DEF Kept, Held
  <2> QED BY <2>1, <2>2, <2>5 DEF Kept, Idle
<1> QED BY <1>2, <1>3, <1>4, KeptCalls, KeptProceeds DEF Next

\* No two apps have the same port (PortAllocator.reserve and release,
\* create_project, delete_project, _load_projects).
THEOREM PortsStayApart ==
    ASSUME "crash_in_delete" \notin Env
    PROVE  Spec => []PortsApart
<1>1. Init => Typed /\ Locked /\ Born /\ Kept
  BY TypedInit, OwnedInit, BornInit, KeptInit
<1>2. Typed /\ Locked /\ Born /\ Kept /\ [Next]_vars
          => (Typed /\ Locked /\ Born /\ Kept)'
  BY TypedStep, LockedStep, BornStep, KeptStep
<1>3. Kept => PortsApart BY DEF Kept, Held, PortsApart
<1> QED BY <1>1, <1>2, <1>3, PTL DEF Spec

\* The watchdog kills no server that answers, strays of cancelled launches
\* apart: what it calls dead has no server of its own, and nobody else is on
\* its port (_watchdog_restart looks again once it has the lock).
THEOREM WatchdogSparesServers ==
    ASSUME "crash_in_delete" \notin Env
    PROVE  Spec => SparesServing
<1> DEFINE IInv == Typed /\ Locked /\ Owned /\ Born /\ Kept
<1>1. Init => IInv BY TypedInit, OwnedInit, BornInit, KeptInit
<1>2. IInv /\ [Next]_vars => IInv'
  BY TypedStep, LockedStep, OwnedStep, BornStep, KeptStep
<1>3. ASSUME IInv, DogNext, NEW a \in registered \cap tree,
             a = dog.app \/ dog.app \in tree
      PROVE  \A q \in Serving(a) : Stray(q) \/ q \in Serving(a)'
  <2>1. CASE UNCHANGED server BY <2>1 DEF Serving
  <2>2. CASE DogStarts
    <3>1. PICK q \in Procs : Boots(q, dog.app) BY <2>2 DEF DogStarts
    <3> QED BY <3>1 DEF Boots, Unused, Gone, Serving, Typed, CallTypes
  <2>3. CASE DogEnters /\ Dead(dog.app)
    <3>1. /\ dog.app \in Apps /\ Holds(Dog, dog.app)
          /\ server' = Ended(OnPortOf(dog.app))
      BY <1>3, <2>3 DEF DogEnters, Typed, Named
    <3>2. a \in Apps BY <1>3 DEF Typed, DiskTypes
    <3>3. ASSUME NEW q \in Serving(a), ~Stray(q), q \in OnPortOf(dog.app)
          PROVE  FALSE
      <4>1. port[a] = port[dog.app] BY <3>3 DEF Serving, OnPortOf
      <4>2. a = dog.app BY <1>3, <4>1 DEF Kept, Held
      <4>3. q \in Alive(a) BY DEF Alive
      <4>4. q = handle[a]
        <5>1. Dog \in Tasks /\ Dog \notin Users
          BY NamesAssumption DEF Tasks
        <5> QED BY <1>3, <3>1, <3>2, <3>3, <4>2, <4>3, <5>1, Alone
      <4> QED BY <2>3, <3>3, <4>2, <4>4, NamesAssumption
          DEF Dead, HandleGone, Gone, Serving
    <3> QED BY <3>1, <3>3 DEF Ended, Serving
  <2> QED BY <1>3, <2>1, <2>2, <2>3
      DEF DogNext, Examine, DogWakes, DogEnters, DogFails, DogHealthy
<1>4. IInv /\ [Next]_vars
          => [DogNext =>
                \A a \in registered \cap tree :
                   a = dog.app \/ dog.app \in tree =>
                      \A q \in Serving(a) : Stray(q) \/ q \in Serving(a)']_vars
  BY <1>3
<1> QED BY <1>1, <1>2, <1>4, PTL DEF Spec, SparesServing
==============================================================================
