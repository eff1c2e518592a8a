--------------------------- MODULE SchedulerProofs ---------------------------
(***************************************************************************)
(* What the scheduler was asked for is kept: a one-time task until it is a *)
(* row of the trigger table, a stop until the schedule is enabled again.   *)
(* What is enabled has a loop, and never two. A one-time task fires once.  *)
(***************************************************************************)
EXTENDS Scheduler, FiniteSetTheorems, TLAPS

-----------------------------------------------------------------------------
(* Types *)

LEMMA AbsentType == Absent \in Entry BY DEF Absent, Entry

LEMMA IdleType == Idle \in [Ids -> [Tasks -> Stages]] BY DEF Idle, Stages

LEMMA LoadedType == ASSUME TypeOK PROVE Loaded \in [Ids -> Entry]
BY AbsentType DEF TypeOK, Loaded

LEMMA SaveType ==
    ASSUME TypeOK, mem' \in [Ids -> Entry], NEW old \in [Ids -> Entry], SaveOver(old)
    PROVE  file' \in [Ids -> Entry] /\ dirty' = TRUE
BY DEF SaveOver

LEMMA MovesType ==
    ASSUME TypeOK, NEW i \in Ids, NEW k \in Tasks, NEW stage \in Stages,
           Moves(i, k, stage)
    PROVE  task' \in [Ids -> [Tasks -> Stages]]
BY DEF TypeOK, Moves

LEMMA CancelledType == ASSUME NEW stage \in Stages PROVE Cancelled(stage) \in Stages
BY DEF Cancelled, Stages

LEMMA UnplugType ==
    ASSUME TypeOK, NEW i \in Ids, Unplug(i)
    PROVE  /\ task' \in [Ids -> [Tasks -> Stages]]
           /\ table' \in [Ids -> {0} \cup Tasks]
<1>1. CASE table[i] = 0 BY <1>1 DEF TypeOK, Unplug
<1>2. CASE table[i] # 0
  <2>1. table[i] \in Tasks BY <1>2 DEF TypeOK
  <2>2. Cancelled(task[i][table[i]]) \in Stages BY <2>1, CancelledType DEF TypeOK
  <2>3. task' = [task EXCEPT ![i][table[i]] = Cancelled(task[i][table[i]])]
    BY <1>2 DEF Unplug
  <2>4. table' = [table EXCEPT ![i] = 0] BY <1>2 DEF Unplug
  <2>5. task' \in [Ids -> [Tasks -> Stages]] BY <2>1, <2>2, <2>3 DEF TypeOK
  <2>6. table' \in [Ids -> {0} \cup Tasks] BY <2>4 DEF TypeOK
  <2> QED BY <2>5, <2>6
<1> QED BY <1>1, <1>2

LEMMA StartLoopsType ==
    ASSUME TypeOK, NEW ids \in SUBSET Ids, StartLoops(ids)
    PROVE  /\ task' \in [Ids -> [Tasks -> Stages]]
           /\ table' \in [Ids -> {0} \cup Tasks]
<1> DEFINE new == {i \in ids : ~Running(i)}
<1>1. ASSUME NEW i \in new PROVE Slot(i) \in Tasks
  <2>1. \E k \in Tasks : task[i][k] = "done" BY <1>1 DEF StartLoops
  <2> QED BY <2>1 DEF Slot
<1>2. table' = [i \in Ids |-> IF i \in new THEN Slot(i) ELSE table[i]]
  BY DEF StartLoops
<1>3. task' = [i \in Ids |-> IF i \in new
                             THEN [task[i] EXCEPT ![Slot(i)] = "start"]
                             ELSE task[i]]
  BY DEF StartLoops
<1>4. table' \in [Ids -> {0} \cup Tasks] BY <1>1, <1>2 DEF TypeOK
<1>5. task' \in [Ids -> [Tasks -> Stages]]
  <2> SUFFICES ASSUME NEW i \in Ids
               PROVE  (IF i \in new THEN [task[i] EXCEPT ![Slot(i)] = "start"]
                       ELSE task[i]) \in [Tasks -> Stages]
    BY <1>3
  <2>1. task[i] \in [Tasks -> Stages] BY DEF TypeOK
  <2>2. "start" \in Stages BY DEF Stages
  <2> QED BY <1>1, <2>1, <2>2
<1> QED BY <1>4, <1>5

LEMMA BoundsNat == MaxCrashes \in Nat BY BoundsAssumption

LEMMA TypeInit == Init => TypeOK
<1> SUFFICES ASSUME Init PROVE TypeOK OBVIOUS
<1>1. file \in [Ids -> Entry] /\ mem \in [Ids -> Entry] BY AbsentType DEF Init
<1>2. task \in [Ids -> [Tasks -> Stages]] BY IdleType DEF Init
<1>3. reload \in [on : BOOLEAN, todo : SUBSET Ids, at : SUBSET Ids]
  BY DEF Init, NoReload
<1>4. crashes \in 0..MaxCrashes BY BoundsNat DEF Init
<1> QED BY <1>1, <1>2, <1>3, <1>4 DEF Init, TypeOK

\* The five variables of a step that most actions leave alone.
LEMMA TypeFrame ==
    ASSUME TypeOK, file' \in [Ids -> Entry], mem' \in [Ids -> Entry],
           row' \in [Ids -> {"none", "committed", "queued", "done"}],
           dirty' \in BOOLEAN, table' \in [Ids -> {0} \cup Tasks],
           task' \in [Ids -> [Tasks -> Stages]], starting' \subseteq Ids,
           pending' \in [Ids -> {"no", "off", "gone"}],
           want' \in [Ids -> {"never", "on", "asked", "off", "gone"}],
           UNCHANGED <<up, reload, due, crashes>>
    PROVE  TypeOK'
BY DEF TypeOK

LEMMA SavedType ==
    ASSUME TypeOK, mem' \in [Ids -> Entry], Save
    PROVE  file' \in [Ids -> Entry] /\ dirty' \in BOOLEAN
<1>1. file \in [Ids -> Entry] BY DEF TypeOK
<1> QED BY <1>1, SaveType DEF Save

LEMMA CountedType ==
    ASSUME TypeOK, NEW i \in Ids
    PROVE  Counted(i) \in [Ids -> Entry] /\ Popped(i) \in [Ids -> Entry]
<1>1. mem \in [Ids -> Entry] /\ mem[i] \in Entry BY DEF TypeOK
<1>2. [mem[i] EXCEPT !.fired = TRUE] \in Entry BY <1>1 DEF Entry
<1> QED BY <1>1, <1>2, AbsentType DEF Counted, Popped

LEMMA RequestTypes ==
    ASSUME TypeOK, NEW i \in Ids,
           \/ Add(i) \/ RunStart(i) \/ UserToggles(i, TRUE) \/ UserToggles(i, FALSE)
           \/ AgentRemoves(i) \/ AgentDisables(i) \/ AgentEnables(i)
           \/ ThreadSaves(i)
    PROVE  TypeOK'
<1> USE TypeFrame
<1>m. mem \in [Ids -> Entry] /\ file \in [Ids -> Entry] BY DEF TypeOK
<1>n. ASSUME NEW on \in BOOLEAN, NEW s \in [Ids -> Entry]
      PROVE  [s EXCEPT ![i].on = on] \in [Ids -> Entry]
  BY <1>n DEF Entry
<1>1. CASE Add(i)
  <2>1. mem' \in [Ids -> Entry] BY <1>1, <1>m DEF Add, Entry
  <2>2. file' \in [Ids -> Entry] /\ dirty' \in BOOLEAN BY <1>1, <2>1, SavedType DEF Add
  <2> QED BY <1>1, <2>1, <2>2 DEF Add, TypeOK
<1>2. CASE RunStart(i)
  <2>1. /\ task' \in [Ids -> [Tasks -> Stages]]
        /\ table' \in [Ids -> {0} \cup Tasks]
    BY <1>2, StartLoopsType DEF RunStart
  <2> QED BY <1>2, <2>1 DEF RunStart, TypeOK
<1>3. ASSUME NEW on \in BOOLEAN, UserToggles(i, on) PROVE TypeOK'
  <2>1. mem' \in [Ids -> Entry] BY <1>3, <1>m, <1>n DEF UserToggles
  <2>2. [file EXCEPT ![i].on = file[i].there /\ on] \in [Ids -> Entry]
    <3>1. file[i].there \in BOOLEAN BY <1>m DEF Entry
    <3>2. (file[i].there /\ on) \in BOOLEAN OBVIOUS
    <3> QED BY <1>m, <1>n, <3>2
  <2>3. file' \in [Ids -> Entry] /\ dirty' \in BOOLEAN
    BY <1>3, <2>1, <2>2, SaveType DEF UserToggles
  <2>4. /\ task' \in [Ids -> [Tasks -> Stages]]
        /\ table' \in [Ids -> {0} \cup Tasks]
        /\ starting' \subseteq Ids
    <3>1. CASE on BY <1>3, <3>1 DEF UserToggles, TypeOK
    <3>2. CASE ~on
      <4>1. Unplug(i) /\ UNCHANGED starting BY <1>3, <3>2 DEF UserToggles
      <4> QED BY <4>1, UnplugType DEF TypeOK
    <3> QED BY <3>1, <3>2
  <2>5. want' \in [Ids -> {"never", "on", "asked", "off", "gone"}]
    BY <1>3 DEF UserToggles, TypeOK
  <2>6. UNCHANGED <<row, up, reload, pending, due, crashes>>
    BY <1>3 DEF UserToggles
  <2> QED BY <2>1, <2>3, <2>4, <2>5, <2>6 DEF TypeOK
<1>4. ASSUME NEW s \in Entry, mem' = [mem EXCEPT ![i] = s], Unplug(i),
             NEW p \in {"off", "gone"}, pending' = [pending EXCEPT ![i] = p],
             want' = [want EXCEPT ![i] = "asked"],
             UNCHANGED <<file, row, up, starting, reload, dirty, due, crashes>>
      PROVE  TypeOK'
  <2>1. mem' \in [Ids -> Entry] BY <1>4, <1>m
  <2>2. /\ task' \in [Ids -> [Tasks -> Stages]]
        /\ table' \in [Ids -> {0} \cup Tasks]
    BY <1>4, UnplugType
  <2>3. pending' \in [Ids -> {"no", "off", "gone"}] BY <1>4 DEF TypeOK
  <2>4. want' \in [Ids -> {"never", "on", "asked", "off", "gone"}]
    BY <1>4 DEF TypeOK
  <2> QED BY <1>4, <2>1, <2>2, <2>3, <2>4 DEF TypeOK
<1>5. CASE AgentRemoves(i) BY <1>4, <1>5, AbsentType DEF AgentRemoves
<1>6. CASE AgentDisables(i)
  <2>1. [mem[i] EXCEPT !.on = FALSE] \in Entry BY <1>m DEF Entry
  <2>2. mem' = [mem EXCEPT ![i] = [mem[i] EXCEPT !.on = FALSE]]
    BY <1>6 DEF AgentDisables
  <2> QED BY <1>4, <1>6, <2>1, <2>2 DEF AgentDisables
<1>7. CASE AgentEnables(i)
  <2>1. mem' \in [Ids -> Entry] BY <1>7, <1>m, <1>n DEF AgentEnables
  <2>2. file' \in [Ids -> Entry] /\ dirty' \in BOOLEAN
    BY <1>7, <2>1, SavedType DEF AgentEnables, TypeOK
  <2>3. want' \in [Ids -> {"never", "on", "asked", "off", "gone"}]
    BY <1>7 DEF AgentEnables, TypeOK
  <2> QED BY <1>7, <2>1, <2>2, <2>3 DEF AgentEnables, TypeOK
<1>8. CASE ThreadSaves(i)
  <2>1. file' \in [Ids -> Entry] /\ dirty' \in BOOLEAN
    BY <1>8, <1>m, SavedType DEF ThreadSaves
  <2>2. want' \in [Ids -> {"never", "on", "asked", "off", "gone"}]
    BY <1>8 DEF ThreadSaves, TypeOK
  <2>3. pending' \in [Ids -> {"no", "off", "gone"}] BY <1>8 DEF ThreadSaves, TypeOK
  <2> QED BY <1>8, <2>1, <2>2, <2>3 DEF ThreadSaves, TypeOK
<1> QED BY <1>1, <1>2, <1>3, <1>5, <1>6, <1>7, <1>8

LEMMA LoopTypes ==
    ASSUME TypeOK, NEW i \in Ids, NEW k \in Tasks,
           \/ LoopLooks(i, k) \/ Wakes(i, k) \/ Fire(i, k)
           \/ FireDeduped(i, k) \/ FireEnds(i, k) \/ CancelledLeaves(i, k)
    PROVE  TypeOK'
<1> USE TypeFrame, MovesType
<1>s. {"sleep", "done", "emit", "pause"} \subseteq Stages BY DEF Stages
<1>1. CASE LoopLooks(i, k)
  <2>1. task' \in [Ids -> [Tasks -> Stages]] BY <1>1, <1>s DEF LoopLooks
  <2> QED BY <1>1, <2>1 DEF LoopLooks, TypeOK
<1>2. CASE Wakes(i, k)
  <2>1. task' \in [Ids -> [Tasks -> Stages]] BY <1>2, <1>s DEF Wakes
  <2> QED BY <1>2, <2>1 DEF Wakes, TypeOK
<1>3. CASE Fire(i, k)
  <2>1. task' \in [Ids -> [Tasks -> Stages]] BY <1>3, <1>s DEF Fire
  <2>2. mem' \in [Ids -> Entry] BY <1>3, CountedType DEF Fire
  <2>3. row' \in [Ids -> {"none", "committed", "queued", "done"}]
    BY <1>3 DEF Fire, Inserts, TypeOK
  <2> QED BY <1>3, <2>1, <2>2, <2>3 DEF Fire, TypeOK
<1>4. CASE FireDeduped(i, k)
  <2>1. task' \in [Ids -> [Tasks -> Stages]] BY <1>4, <1>s DEF FireDeduped
  <2>2. mem' \in [Ids -> Entry] BY <1>4, CountedType DEF FireDeduped
  <2>3. file' \in [Ids -> Entry] /\ dirty' \in BOOLEAN
    BY <1>4, <2>2, SavedType DEF FireDeduped
  <2> QED BY <1>4, <2>1, <2>2, <2>3 DEF FireDeduped, TypeOK
<1>5. CASE FireEnds(i, k)
  <2>1. task' \in [Ids -> [Tasks -> Stages]] BY <1>5, <1>s DEF FireEnds
  <2>2. mem' \in [Ids -> Entry] BY <1>5, CountedType DEF FireEnds
  <2>3. file' \in [Ids -> Entry] /\ dirty' \in BOOLEAN
    BY <1>5, <2>2, SavedType DEF FireEnds, TypeOK
  <2>4. row' \in [Ids -> {"none", "committed", "queued", "done"}]
    BY <1>5 DEF FireEnds, TypeOK
  <2> QED BY <1>5, <2>1, <2>2, <2>3, <2>4 DEF FireEnds, TypeOK
<1>6. CASE CancelledLeaves(i, k)
  <2>1. task' \in [Ids -> [Tasks -> Stages]] BY <1>6, <1>s DEF CancelledLeaves
  <2> QED BY <1>6, <2>1 DEF CancelledLeaves, TypeOK
<1> QED BY <1>1, <1>2, <1>3, <1>4, <1>5, <1>6

LEMMA ReloadTypes == ASSUME TypeOK, Reload PROVE TypeOK'
<1>r. reload \in [on : BOOLEAN, todo : SUBSET Ids, at : SUBSET Ids] BY DEF TypeOK
<1>n. NoReload \in [on : BOOLEAN, todo : SUBSET Ids, at : SUBSET Ids] BY DEF NoReload
<1>1. CASE ReloadBegins
  <2>1. reload' \in [on : BOOLEAN, todo : SUBSET Ids, at : SUBSET Ids]
    BY <1>1 DEF ReloadBegins
  <2> QED BY <1>1, <2>1 DEF ReloadBegins, TypeOK
<1>2. ASSUME NEW i \in Ids, ReloadCancels(i) PROVE TypeOK'
  <2>1. reload' \in [on : BOOLEAN, todo : SUBSET Ids, at : SUBSET Ids]
    BY <1>2, <1>r DEF ReloadCancels
  <2>2. task' \in [Ids -> [Tasks -> Stages]]
    <3>1. CASE table[i] = 0 BY <1>2, <3>1 DEF ReloadCancels, TypeOK
    <3>2. CASE table[i] # 0
      <4>1. table[i] \in Tasks BY <3>2 DEF TypeOK
      <4>2. Cancelled(task[i][table[i]]) \in Stages BY <4>1, CancelledType DEF TypeOK
      <4>3. task' = [task EXCEPT ![i][table[i]] = Cancelled(task[i][table[i]])]
        BY <1>2, <3>2 DEF ReloadCancels
      <4> QED BY <4>1, <4>2, <4>3 DEF TypeOK
    <3> QED BY <3>1, <3>2
  <2> QED BY <1>2, <2>1, <2>2 DEF ReloadCancels, TypeOK
<1>3. ASSUME NEW i \in Ids, ReloadStopped(i) PROVE TypeOK'
  <2>1. reload' \in [on : BOOLEAN, todo : SUBSET Ids, at : SUBSET Ids]
    BY <1>3, <1>r, <1>n DEF ReloadStopped
  <2>2. table' \in [Ids -> {0} \cup Tasks] BY <1>3 DEF ReloadStopped, TypeOK
  <2> QED BY <1>3, <2>1, <2>2 DEF ReloadStopped, TypeOK
<1>4. CASE ReloadLoads
  <2>1. mem' \in [Ids -> Entry] BY <1>4, LoadedType DEF ReloadLoads
  <2>2. /\ task' \in [Ids -> [Tasks -> Stages]]
        /\ table' \in [Ids -> {0} \cup Tasks]
    BY <1>4, StartLoopsType DEF ReloadLoads, Enabled
  <2> QED BY <1>4, <1>n, <2>1, <2>2 DEF ReloadLoads, TypeOK
<1> QED BY <1>1, <1>2, <1>3, <1>4 DEF Reload

LEMMA CrashTypes == ASSUME TypeOK, Crash \/ Boot PROVE TypeOK'
<1>1. CASE Crash
  <2>1. mem' \in [Ids -> Entry] /\ task' \in [Ids -> [Tasks -> Stages]]
    BY <1>1, AbsentType, IdleType DEF Crash
  <2>2. crashes' \in 0..MaxCrashes BY <1>1, BoundsNat DEF Crash, TypeOK
  <2>3. reload' \in [on : BOOLEAN, todo : SUBSET Ids, at : SUBSET Ids]
    BY <1>1 DEF Crash, NoReload
  <2> QED BY <1>1, <2>1, <2>2, <2>3 DEF Crash, TypeOK
<1>2. CASE Boot
  <2>1. mem' \in [Ids -> Entry] BY <1>2, LoadedType DEF Boot
  <2>2. /\ task' \in [Ids -> [Tasks -> Stages]]
        /\ table' \in [Ids -> {0} \cup Tasks]
    BY <1>2, StartLoopsType DEF Boot, Enabled
  <2>3. row' \in [Ids -> {"none", "committed", "queued", "done"}]
    BY <1>2 DEF Boot, TypeOK
  <2> QED BY <1>2, <2>1, <2>2, <2>3 DEF Boot, TypeOK
<1> QED BY <1>1, <1>2

LEMMA TypeStep == TypeOK /\ [Next]_vars => TypeOK'
<1> SUFFICES ASSUME TypeOK, [Next]_vars PROVE TypeOK' OBVIOUS
<1>1. ASSUME NEW i \in Ids, Due(i) PROVE TypeOK'
  <2>1. due' \subseteq Once BY <1>1 DEF Due, TypeOK
  <2>2. task' \in [Ids -> [Tasks -> Stages]] BY <1>1 DEF Due, TypeOK, Stages
  <2> QED BY <1>1, <2>1, <2>2 DEF Due, TypeOK
<1>2. ASSUME NEW i \in Ids, RowDone(i) PROVE TypeOK'
  BY <1>2 DEF RowDone, TypeOK, process
<1>3. CASE UNCHANGED vars BY <1>3 DEF vars, process, TypeOK
<1> QED
  BY <1>1, <1>2, <1>3, RequestTypes, LoopTypes, ReloadTypes, CrashTypes
  DEF Next, LoopStep

\* The state of the scheduler is well typed in every reachable state, for any
\* schedules, bounds and environment (manager.py).
THEOREM TypesHold == Spec => []TypeOK
BY TypeInit, TypeStep, PTL DEF Spec

-----------------------------------------------------------------------------
(* What a one-time task was asked for is kept *)

\* The disk takes what is written to it, and so does the trigger table.
Reliable == Env \cap {"save_fails", "emit_fails"} = {}

\* As long as there is no row the task has not fired, and as long as it is
\* wanted both the file and the memory of a running process have it.
Kept(i) ==
    row[i] = "none" =>
        /\ ~mem[i].fired /\ ~file[i].fired
        /\ want[i] = "on" => /\ file[i].there /\ file[i].on
                             /\ up => mem[i].there /\ mem[i].on

KeptInv == TypeOK /\ \A i \in Once : Kept(i)

\* A save writes what is in memory.
LEMMA SavedIsMem ==
    ASSUME "save_fails" \notin Env, NEW old, SaveOver(old)
    PROVE  file' = mem'
BY DEF SaveOver

\* What a step does to one task may be anything; to another it saves what is in
\* memory, or nothing.
LEMMA KeptElsewhere ==
    ASSUME KeptInv, up, up', NEW i \in Ids,
           \A j \in Ids \ {i} : /\ mem'[j] = mem[j] /\ row'[j] = row[j]
                                /\ want'[j] = want[j]
                                /\ file'[j] = file[j] \/ file'[j] = mem[j],
           i \in Once => Kept(i)'
    PROVE  \A j \in Once : Kept(j)'
<1> SUFFICES ASSUME NEW j \in Once, j # i PROVE Kept(j)' OBVIOUS
<1>1. Kept(j) BY DEF KeptInv
<1> QED BY <1>1 DEF Kept, Ids

LEMMA KeptRequests ==
    ASSUME KeptInv, Reliable, NEW i \in Ids,
           \/ Add(i) \/ RunStart(i) \/ UserToggles(i, TRUE) \/ UserToggles(i, FALSE)
           \/ AgentRemoves(i) \/ AgentDisables(i) \/ AgentEnables(i)
           \/ ThreadSaves(i)
    PROVE  \A j \in Once : Kept(j)'
<1>m. mem \in [Ids -> Entry] /\ file \in [Ids -> Entry] BY DEF KeptInv, TypeOK
<1>k. i \in Once => Kept(i) BY DEF KeptInv
<1>w. /\ want \in [Ids -> {"never", "on", "asked", "off", "gone"}]
      /\ pending \in [Ids -> {"no", "off", "gone"}]
  BY DEF KeptInv, TypeOK
<1>s. "save_fails" \notin Env BY DEF Reliable
<1>1. CASE Add(i)
  <2>1. file' = mem' BY <1>1, <1>s, SavedIsMem DEF Add, Save
  <2>2. mem' = [mem EXCEPT ![i] = [there |-> TRUE, on |-> TRUE, fired |-> FALSE]]
    BY <1>1 DEF Add
  <2>3. i \in Once => Kept(i)' BY <2>1, <2>2, <1>m DEF Kept
  <2> QED BY <1>1, <1>m, <1>w, <2>1, <2>2, <2>3, KeptElsewhere
          DEF Add, OnLoop, Unfired
<1>2. CASE RunStart(i) BY <1>2 DEF RunStart, KeptInv, Kept
<1>3. ASSUME NEW on \in BOOLEAN, UserToggles(i, on) PROVE \A j \in Once : Kept(j)'
  <2>1. file' = mem' BY <1>3, <1>s, SavedIsMem DEF UserToggles
  <2>2. mem' = [mem EXCEPT ![i].on = on] /\ mem[i].there /\ up /\ up' = up
        /\ row' = row
    BY <1>3 DEF UserToggles, OnLoop, Unfired
  <2>3. want' = [want EXCEPT ![i] = IF on THEN "on" ELSE "off"]
    BY <1>3 DEF UserToggles
  <2>4. mem'[i] = [mem[i] EXCEPT !.on = on] BY <2>2, <1>m
  <2>5. mem'[i].there /\ mem'[i].on = on /\ mem'[i].fired = mem[i].fired
    BY <2>2, <2>4, <1>m DEF Entry
  <2>6. want'[i] = IF on THEN "on" ELSE "off" BY <2>3, <1>w
  <2>7. i \in Once => Kept(i)'
    BY <2>1, <2>2, <2>5, <2>6, <1>k DEF Kept
  <2>8. \A j \in Ids \ {i} : /\ mem'[j] = mem[j] /\ row'[j] = row[j]
                             /\ want'[j] = want[j] /\ file'[j] = mem[j]
    BY <2>1, <2>2, <2>3, <1>m, <1>w
  <2> QED BY <2>2, <2>7, <2>8, KeptElsewhere
<1>4. ASSUME NEW s \in Entry, s.fired \in {FALSE, mem[i].fired},
             mem' = [mem EXCEPT ![i] = s], want' = [want EXCEPT ![i] = "asked"],
             up, UNCHANGED <<file, row, up>>
      PROVE  \A j \in Once : Kept(j)'
  <2>1. i \in Once => Kept(i)' BY <1>4, <1>k, <1>m, <1>w DEF Kept
  <2> QED BY <1>4, <1>m, <1>w, <2>1, KeptElsewhere
<1>5. CASE AgentRemoves(i)
  BY <1>4, <1>5, AbsentType DEF AgentRemoves, InThread, Absent
<1>6. CASE AgentDisables(i)
  <2>1. [mem[i] EXCEPT !.on = FALSE] \in Entry BY <1>m DEF Entry
  <2>2. [mem[i] EXCEPT !.on = FALSE].fired = mem[i].fired BY <1>m DEF Entry
  <2>3. mem' = [mem EXCEPT ![i] = [mem[i] EXCEPT !.on = FALSE]]
    BY <1>6 DEF AgentDisables
  <2> QED BY <1>4, <1>6, <2>1, <2>2, <2>3 DEF AgentDisables, InThread
<1>7. CASE AgentEnables(i)
  <2>1. mem' = [mem EXCEPT ![i].on = TRUE] /\ mem[i].there /\ up /\ up' = up
        /\ row' = row
    BY <1>7 DEF AgentEnables, InThread
  <2>2. mem'[i] = [mem[i] EXCEPT !.on = TRUE] BY <2>1, <1>m
  <2>3. mem'[i].there /\ mem'[i].on /\ mem'[i].fired = mem[i].fired
    BY <2>1, <2>2, <1>m DEF Entry
  <2>4. \/ file' = mem' /\ want' = [want EXCEPT ![i] = "on"]
        \/ file' = file /\ want' = want
    BY <1>7, <1>s, SavedIsMem DEF AgentEnables, Save
  <2>5. i \in Once => Kept(i)' BY <2>1, <2>3, <2>4, <1>k DEF Kept
  <2>6. \A j \in Ids \ {i} : /\ mem'[j] = mem[j] /\ row'[j] = row[j]
                             /\ want'[j] = want[j]
                             /\ file'[j] = file[j] \/ file'[j] = mem[j]
    BY <2>1, <2>4, <1>m, <1>w
  <2> QED BY <2>1, <2>5, <2>6, KeptElsewhere
<1>8. CASE ThreadSaves(i)
  <2>1. file' = mem /\ mem' = mem /\ row' = row /\ up /\ up' = up
    BY <1>8, <1>s, SavedIsMem DEF ThreadSaves, Save
  <2>2. want' = [want EXCEPT ![i] = pending[i]] /\ pending[i] # "on"
    BY <1>8, <1>w DEF ThreadSaves
  <2>3. i \in Once => Kept(i)' BY <2>1, <2>2, <1>k, <1>w DEF Kept
  <2>4. \A j \in Ids \ {i} : want'[j] = want[j] BY <2>2, <1>w
  <2> QED BY <2>1, <2>3, <2>4, KeptElsewhere
<1> QED BY <1>1, <1>2, <1>3, <1>5, <1>6, <1>7, <1>8

LEMMA KeptLoops ==
    ASSUME KeptInv, Reliable, NEW i \in Ids, NEW k \in Tasks,
           \/ LoopLooks(i, k) \/ Wakes(i, k) \/ Fire(i, k)
           \/ FireDeduped(i, k) \/ FireEnds(i, k) \/ CancelledLeaves(i, k)
    PROVE  \A j \in Once : Kept(j)'
<1>m. /\ mem \in [Ids -> Entry] /\ file \in [Ids -> Entry]
      /\ row \in [Ids -> {"none", "committed", "queued", "done"}]
  BY DEF KeptInv, TypeOK
<1>k. i \in Once => Kept(i) BY DEF KeptInv
<1>s. "save_fails" \notin Env /\ "emit_fails" \notin Env BY DEF Reliable
<1>1. CASE LoopLooks(i, k) \/ Wakes(i, k) \/ CancelledLeaves(i, k)
  BY <1>1 DEF LoopLooks, Wakes, CancelledLeaves, KeptInv, Kept
<1>2. CASE Fire(i, k)
  <2>1. up /\ up' = up /\ file' = file /\ want' = want /\ mem' = Counted(i)
    BY <1>2 DEF Fire, FiresAt, Unfired
  <2>2. Inserts(i) \/ (i \in Recurring /\ row' = row) BY <1>2, <1>s DEF Fire
  <2>3. i \in Once => Kept(i)'
    BY <2>2, <1>m, IdsAssumption DEF Inserts, Kept
  <2>4. \A j \in Ids \ {i} : mem'[j] = mem[j] /\ row'[j] = row[j]
    BY <2>1, <2>2, <1>m DEF Counted, Inserts
  <2> QED BY <2>1, <2>3, <2>4, KeptElsewhere
<1>3. CASE FireDeduped(i, k)
  <2>1. up /\ up' = up /\ row' = row /\ want' = want /\ mem' = Popped(i)
        /\ file' = mem' /\ Active(i)
    BY <1>3, <1>s, SavedIsMem DEF FireDeduped, FiresAt, Unfired, Save
  <2>2. i \in Once => Kept(i)' BY <2>1 DEF Active, Kept
  <2>3. \A j \in Ids \ {i} : mem'[j] = mem[j] BY <2>1, <1>m DEF Popped
  <2> QED BY <2>1, <2>2, <2>3, KeptElsewhere
<1>4. CASE FireEnds(i, k)
  <2>1. /\ up /\ up' = up /\ want' = want /\ mem' = Popped(i)
        /\ file' = mem' \/ file' = file
    BY <1>4, <1>s, SavedIsMem DEF FireEnds, Save
  <2>2. row' = IF i \in Once THEN [row EXCEPT ![i] = "queued"] ELSE row
    BY <1>4 DEF FireEnds
  <2>3. i \in Once => Kept(i)' BY <2>2, <1>m DEF Kept
  <2>4. \A j \in Ids \ {i} : mem'[j] = mem[j] /\ row'[j] = row[j]
    BY <2>1, <2>2, <1>m DEF Popped
  <2> QED BY <2>1, <2>3, <2>4, KeptElsewhere
<1> QED BY <1>1, <1>2, <1>3, <1>4

\* Reading the file gives what is kept in it.
LEMMA KeptLoaded ==
    ASSUME KeptInv, mem' = Loaded, UNCHANGED <<file, want>>,
           \A i \in Once : row'[i] = "none" => row[i] = "none"
    PROVE  \A i \in Once : Kept(i)'
<1> SUFFICES ASSUME NEW i \in Once PROVE Kept(i)' OBVIOUS
<1>1. Kept(i) BY DEF KeptInv
<1>2. mem'[i] = IF file[i].fired THEN Absent ELSE file[i] BY DEF Loaded, Ids
<1> QED BY <1>1, <1>2 DEF Kept, Absent

LEMMA KeptInit == Init => KeptInv
<1> SUFFICES ASSUME Init PROVE KeptInv OBVIOUS
<1>1. \A i \in Once : Kept(i) BY DEF Init, Kept, Absent, Ids
<1> QED BY <1>1, TypeInit DEF KeptInv

LEMMA KeptStep == Reliable /\ KeptInv /\ [Next]_vars => KeptInv'
<1> SUFFICES ASSUME Reliable, KeptInv, [Next]_vars PROVE KeptInv' OBVIOUS
<1>t. TypeOK /\ TypeOK' BY TypeStep DEF KeptInv
<1> SUFFICES \A i \in Once : Kept(i)' BY <1>t DEF KeptInv
<1>f. ASSUME UNCHANGED <<mem, file, want, up>>,
             \A i \in Once : row'[i] = "none" => row[i] = "none"
      PROVE  \A i \in Once : Kept(i)'
  BY <1>f DEF KeptInv, Kept
<1>1. ASSUME NEW i \in Ids, Due(i) PROVE \A j \in Once : Kept(j)'
  BY <1>1, <1>f DEF Due
<1>2. ASSUME NEW i \in Ids, RowDone(i) PROVE \A j \in Once : Kept(j)'
  <2>1. \A j \in Once : row'[j] = "none" => row[j] = "none"
    BY <1>2, <1>t DEF RowDone, TypeOK, Ids
  <2> QED BY <1>2, <2>1, <1>f DEF RowDone, process
<1>3. CASE Reload
  <2>1. CASE ReloadLoads BY <2>1, KeptLoaded DEF ReloadLoads
  <2>2. CASE ReloadBegins BY <2>2, <1>f DEF ReloadBegins
  <2>3. ASSUME NEW i \in Ids, ReloadCancels(i) \/ ReloadStopped(i)
        PROVE  \A j \in Once : Kept(j)'
    BY <2>3, <1>f DEF ReloadCancels, ReloadStopped
  <2> QED BY <1>3, <2>1, <2>2, <2>3 DEF Reload
<1>4. CASE Crash
  <2> SUFFICES ASSUME NEW i \in Once PROVE Kept(i)' OBVIOUS
  <2>1. Kept(i) BY DEF KeptInv
  <2>2. mem'[i] = Absent BY <1>4 DEF Crash, Ids
  <2> QED BY <1>4, <2>1, <2>2 DEF Crash, Kept, Absent
<1>5. CASE Boot
  <2>1. \A i \in Once : row'[i] = "none" => row[i] = "none" BY <1>5 DEF Boot, Ids
  <2> QED BY <1>5, <2>1, KeptLoaded DEF Boot
<1>6. CASE UNCHANGED vars BY <1>6, <1>f DEF vars, process
<1> QED
  BY <1>1, <1>2, <1>3, <1>4, <1>5, <1>6, KeptRequests, KeptLoops
  DEF Next, LoopStep

\* A one-time task that was granted is in the file until it is a row of the
\* trigger table, as long as disk and table take what is written
\* (manager.py, _fire_schedule and _save_config).
THEOREM NothingIsLost == ASSUME Reliable PROVE Spec => []NeverLost
<1>1. Init => KeptInv BY KeptInit
<1>2. KeptInv /\ [Next]_vars => KeptInv' BY KeptStep
<1>3. KeptInv => NeverLost BY DEF KeptInv, Kept, NeverLost
<1> QED BY <1>1, <1>2, <1>3, PTL DEF Spec

-----------------------------------------------------------------------------
(* What was disabled or removed stays off *)

\* The file takes what is written to it, no reload reads it between a thread's
\* change and the save of it, and only the user enables disabled schedules.
Orderly == Env \cap {"save_fails", "reload_race", "agent_enable"} = {}

\* A schedule that is off is off in memory and in the file; one that a thread
\* is changing is off in memory.
Off(i) ==
    /\ want[i] \in {"off", "gone"} => i \notin Enabled(mem) /\ i \notin Enabled(file)
    /\ pending[i] # "no" => up /\ i \notin Enabled(mem) /\ want[i] = "asked"

OffInv == TypeOK /\ \A i \in Ids : Off(i)

\* The same, for a step that changes one schedule.
LEMMA OffElsewhere ==
    ASSUME OffInv, up' = up, NEW i \in Ids,
           \A j \in Ids \ {i} : /\ mem'[j] = mem[j] /\ pending'[j] = pending[j]
                                /\ want'[j] = want[j]
                                /\ file'[j] = file[j] \/ file'[j] = mem[j],
           Off(i)'
    PROVE  \A j \in Ids : Off(j)'
<1> SUFFICES ASSUME NEW j \in Ids, j # i PROVE Off(j)' OBVIOUS
<1>1. Off(j) BY DEF OffInv
<1> QED BY <1>1 DEF Off, Enabled

LEMMA OffRequests ==
    ASSUME OffInv, Orderly, NEW i \in Ids,
           \/ Add(i) \/ RunStart(i) \/ UserToggles(i, TRUE) \/ UserToggles(i, FALSE)
           \/ AgentRemoves(i) \/ AgentDisables(i) \/ AgentEnables(i)
           \/ ThreadSaves(i)
    PROVE  \A j \in Ids : Off(j)'
<1>m. mem \in [Ids -> Entry] /\ file \in [Ids -> Entry] BY DEF OffInv, TypeOK
<1>k. Off(i) BY DEF OffInv
<1>w. /\ want \in [Ids -> {"never", "on", "asked", "off", "gone"}]
      /\ pending \in [Ids -> {"no", "off", "gone"}]
  BY DEF OffInv, TypeOK
<1>s. "save_fails" \notin Env /\ "agent_enable" \notin Env BY DEF Orderly
<1>1. CASE Add(i)
  <2>1. file' = mem' /\ up' = up /\ pending' = pending /\ want[i] = "never"
    BY <1>1, <1>s, SavedIsMem DEF Add, Save
  <2>2. /\ mem' = [mem EXCEPT ![i] = [there |-> TRUE, on |-> TRUE, fired |-> FALSE]]
        /\ want' = [want EXCEPT ![i] = "on"]
    BY <1>1 DEF Add
  <2>3. want'[i] = "on" /\ pending[i] = "no" BY <2>1, <2>2, <1>k, <1>w DEF Off
  <2>4. Off(i)' BY <2>1, <2>3 DEF Off
  <2>5. \A j \in Ids \ {i} : mem'[j] = mem[j] /\ want'[j] = want[j]
    BY <2>2, <1>m, <1>w
  <2> QED BY <2>1, <2>4, <2>5, OffElsewhere
<1>2. CASE RunStart(i) BY <1>2 DEF RunStart, OffInv, Off, Enabled
<1>3. ASSUME NEW on \in BOOLEAN, UserToggles(i, on) PROVE \A j \in Ids : Off(j)'
  <2>1. file' = mem' /\ up' = up /\ pending' = pending /\ pending[i] = "no"
    BY <1>3, <1>s, SavedIsMem DEF UserToggles
  <2>2. mem' = [mem EXCEPT ![i].on = on] BY <1>3 DEF UserToggles
  <2>3. want' = [want EXCEPT ![i] = IF on THEN "on" ELSE "off"]
    BY <1>3 DEF UserToggles
  <2>4. mem'[i] = [mem[i] EXCEPT !.on = on] BY <2>2, <1>m
  <2>5. mem'[i].on = on BY <2>4, <1>m DEF Entry
  <2>6. want'[i] = IF on THEN "on" ELSE "off" BY <2>3, <1>w
  <2>7. Off(i)' BY <2>1, <2>5, <2>6 DEF Off, Enabled
  <2>8. \A j \in Ids \ {i} : mem'[j] = mem[j] /\ want'[j] = want[j]
    BY <2>2, <2>3, <1>m, <1>w
  <2> QED BY <2>1, <2>7, <2>8, OffElsewhere
<1>4. ASSUME NEW s \in Entry, ~(s.there /\ s.on), mem' = [mem EXCEPT ![i] = s],
             want' = [want EXCEPT ![i] = "asked"],
             NEW p, pending' = [pending EXCEPT ![i] = p],
             up, UNCHANGED <<file, up>>
      PROVE  \A j \in Ids : Off(j)'
  <2>1. want'[i] = "asked" /\ mem'[i] = s BY <1>4, <1>m, <1>w
  <2>2. Off(i)' BY <1>4, <2>1 DEF Off, Enabled
  <2>3. \A j \in Ids \ {i} : /\ mem'[j] = mem[j] /\ want'[j] = want[j]
                             /\ pending'[j] = pending[j]
    BY <1>4, <1>m, <1>w
  <2> QED BY <1>4, <2>2, <2>3, OffElsewhere
<1>5. CASE AgentRemoves(i)
  BY <1>4, <1>5, AbsentType DEF AgentRemoves, InThread, Absent
<1>6. CASE AgentDisables(i)
  <2>1. [mem[i] EXCEPT !.on = FALSE] \in Entry /\ ~[mem[i] EXCEPT !.on = FALSE].on
    BY <1>m DEF Entry
  <2>2. mem' = [mem EXCEPT ![i] = [mem[i] EXCEPT !.on = FALSE]]
    BY <1>6 DEF AgentDisables
  <2> QED BY <1>4, <1>6, <2>1, <2>2 DEF AgentDisables, InThread
<1>7. CASE AgentEnables(i)
  <2>1. /\ mem' = [mem EXCEPT ![i].on = TRUE] /\ up' = up /\ file' = mem'
        /\ pending' = pending /\ pending[i] = "no"
        /\ want' = [want EXCEPT ![i] = "on"]
    BY <1>7, <1>s, SavedIsMem DEF AgentEnables, Save, InThread
  <2>2. want'[i] = "on" BY <2>1, <1>w
  <2>3. Off(i)' BY <2>1, <2>2 DEF Off
  <2>4. \A j \in Ids \ {i} : mem'[j] = mem[j] /\ want'[j] = want[j]
    BY <2>1, <1>m, <1>w
  <2> QED BY <2>1, <2>3, <2>4, OffElsewhere
<1>8. CASE ThreadSaves(i)
  <2>1. file' = mem /\ mem' = mem /\ up' = up /\ pending[i] # "no"
    BY <1>8, <1>s, SavedIsMem DEF ThreadSaves, Save
  <2>2. /\ want' = [want EXCEPT ![i] = pending[i]]
        /\ pending' = [pending EXCEPT ![i] = "no"]
    BY <1>8 DEF ThreadSaves
  <2>3. i \notin Enabled(mem) BY <2>1, <1>k DEF Off
  <2>4. pending'[i] = "no" BY <2>2, <1>w
  <2>5. Off(i)' BY <2>1, <2>3, <2>4 DEF Off, Enabled
  <2>6. \A j \in Ids \ {i} : want'[j] = want[j] /\ pending'[j] = pending[j]
    BY <2>2, <1>w
  <2> QED BY <2>1, <2>5, <2>6, OffElsewhere
<1> QED BY <1>1, <1>2, <1>3, <1>5, <1>6, <1>7, <1>8

\* Firing enables nothing.
LEMMA OffLoops ==
    ASSUME OffInv, Orderly, NEW i \in Ids, NEW k \in Tasks,
           \/ LoopLooks(i, k) \/ Wakes(i, k) \/ Fire(i, k)
           \/ FireDeduped(i, k) \/ FireEnds(i, k) \/ CancelledLeaves(i, k)
    PROVE  \A j \in Ids : Off(j)'
<1>m. mem \in [Ids -> Entry] /\ file \in [Ids -> Entry] BY DEF OffInv, TypeOK
<1>s. "save_fails" \notin Env BY DEF Orderly
<1>1. ASSUME Enabled(mem') \subseteq Enabled(mem), file' = mem' \/ file' = file,
             UNCHANGED <<up, pending, want>>
      PROVE  \A j \in Ids : Off(j)'
  <2> SUFFICES ASSUME NEW j \in Ids PROVE Off(j)' OBVIOUS
  <2>1. Off(j) BY DEF OffInv
  <2> QED BY <1>1, <2>1 DEF Off, Enabled
<1>p. Enabled(Popped(i)) \subseteq Enabled(mem)
  <2> SUFFICES ASSUME NEW j \in Ids, Popped(i)[j].there, Popped(i)[j].on
               PROVE  mem[j].there /\ mem[j].on
    BY DEF Enabled
  <2> QED BY <1>m DEF Popped, Absent
<1>c. Enabled(Counted(i)) \subseteq Enabled(mem)
  <2> SUFFICES ASSUME NEW j \in Ids, Counted(i)[j].there, Counted(i)[j].on
               PROVE  mem[j].there /\ mem[j].on
    BY DEF Enabled
  <2>1. CASE j = i /\ i \in Once
    <3>1. Counted(i)[j] = [mem[i] EXCEPT !.fired = TRUE] BY <2>1, <1>m DEF Counted
    <3> QED BY <2>1, <3>1, <1>m DEF Entry
  <2>2. CASE ~(j = i /\ i \in Once) BY <2>2, <1>m DEF Counted
  <2> QED BY <2>1, <2>2
<1>2. CASE LoopLooks(i, k) \/ Wakes(i, k) \/ CancelledLeaves(i, k)
  BY <1>1, <1>2 DEF LoopLooks, Wakes, CancelledLeaves
<1>3. CASE Fire(i, k) BY <1>1, <1>3, <1>c DEF Fire
<1>4. CASE FireDeduped(i, k)
  BY <1>1, <1>4, <1>p, <1>s, SavedIsMem DEF FireDeduped, Save
<1>5. CASE FireEnds(i, k)
  BY <1>1, <1>5, <1>p, <1>s, SavedIsMem DEF FireEnds, Save
<1> QED BY <1>2, <1>3, <1>4, <1>5

LEMMA OffLoaded == \A i \in Enabled(Loaded) : i \in Enabled(file)
BY DEF Enabled, Loaded, Absent

LEMMA OffInit == Init => OffInv
<1> SUFFICES ASSUME Init PROVE OffInv OBVIOUS
<1>1. \A i \in Ids : Off(i) BY DEF Init, Off
<1> QED BY <1>1, TypeInit DEF OffInv

LEMMA OffStep == Orderly /\ OffInv /\ [Next]_vars => OffInv'
<1> SUFFICES ASSUME Orderly, OffInv, [Next]_vars PROVE OffInv' OBVIOUS
<1>t. TypeOK /\ TypeOK' BY TypeStep DEF OffInv
<1> SUFFICES \A i \in Ids : Off(i)' BY <1>t DEF OffInv
<1>f. ASSUME UNCHANGED <<mem, file, want, pending, up>>
      PROVE  \A i \in Ids : Off(i)'
  BY <1>f DEF OffInv, Off, Enabled
<1>1. ASSUME NEW i \in Ids, Due(i) \/ RowDone(i) PROVE \A j \in Ids : Off(j)'
  BY <1>1, <1>f DEF Due, RowDone, process
<1>2. CASE Reload
  <2>1. CASE ReloadLoads
    <3> SUFFICES ASSUME NEW i \in Ids PROVE Off(i)' OBVIOUS
    <3>1. Off(i) BY DEF OffInv
    <3>2. mem' = Loaded /\ pending' = pending /\ pending[i] = "no"
          /\ file' = file /\ want' = want
      BY <2>1 DEF ReloadLoads, Orderly
    <3>3. i \in Enabled(mem') => i \in Enabled(file) BY <3>2, OffLoaded
    <3> QED BY <3>1, <3>2, <3>3 DEF Off, Enabled
  <2>2. CASE ReloadBegins BY <2>2, <1>f DEF ReloadBegins
  <2>3. ASSUME NEW i \in Ids, ReloadCancels(i) \/ ReloadStopped(i)
        PROVE  \A j \in Ids : Off(j)'
    BY <2>3, <1>f DEF ReloadCancels, ReloadStopped
  <2> QED BY <1>2, <2>1, <2>2, <2>3 DEF Reload
<1>3. CASE Crash
  <2> SUFFICES ASSUME NEW i \in Ids PROVE Off(i)' OBVIOUS
  <2>1. Off(i) BY DEF OffInv
  <2>2. mem'[i] = Absent /\ pending'[i] = "no" BY <1>3 DEF Crash
  <2> QED BY <1>3, <2>1, <2>2 DEF Crash, Off, Enabled, Absent
<1>4. CASE Boot
  <2> SUFFICES ASSUME NEW i \in Ids PROVE Off(i)' OBVIOUS
  <2>1. Off(i) BY DEF OffInv
  <2>2. mem' = Loaded /\ pending' = pending /\ file' = file /\ want' = want /\ ~up
    BY <1>4 DEF Boot
  <2>3. i \in Enabled(mem') => i \in Enabled(file) BY <2>2, OffLoaded
  <2> QED BY <2>1, <2>2, <2>3 DEF Off, Enabled
<1>5. CASE UNCHANGED vars BY <1>5, <1>f DEF vars, process
<1> QED
  BY <1>1, <1>2, <1>3, <1>4, <1>5, OffRequests, OffLoops DEF Next, LoopStep

\* No task begins to fire.
Calm == \A i \in Ids, k \in Tasks : task'[i][k] = "emit" => task[i][k] = "emit"

LEMMA CancelledCalm == \A stage \in Stages : Cancelled(stage) # "emit"
BY DEF Cancelled, Stages

LEMMA UnplugCalm == ASSUME TypeOK, NEW i \in Ids, Unplug(i) PROVE Calm
<1>1. CASE table[i] = 0 BY <1>1 DEF Unplug, Calm
<1>2. CASE table[i] # 0
  <2>1. table[i] \in Tasks BY <1>2 DEF TypeOK
  <2>2. Cancelled(task[i][table[i]]) # "emit" BY <2>1, CancelledCalm DEF TypeOK
  <2>3. task' = [task EXCEPT ![i][table[i]] = Cancelled(task[i][table[i]])]
    BY <1>2 DEF Unplug
  <2> QED BY <2>1, <2>2, <2>3 DEF TypeOK, Calm
<1> QED BY <1>1, <1>2

LEMMA StartLoopsCalm == ASSUME TypeOK, NEW ids, StartLoops(ids) PROVE Calm
<1> SUFFICES ASSUME NEW i \in Ids, NEW k \in Tasks, task'[i][k] = "emit"
             PROVE  task[i][k] = "emit"
  BY DEF Calm
<1>1. task[i] \in [Tasks -> Stages] BY DEF TypeOK
<1>2. task'[i] \in {task[i], [task[i] EXCEPT ![Slot(i)] = "start"]} BY DEF StartLoops
<1> QED BY <1>1, <1>2

LEMMA MovesCalm ==
    ASSUME TypeOK, NEW i \in Ids, NEW k \in Tasks, NEW stage, stage # "emit",
           Moves(i, k, stage)
    PROVE  Calm
BY DEF TypeOK, Moves, Calm

\* A task that begins to fire belongs to a schedule that is enabled.
LEMMA FiresEnabled ==
    ASSUME TypeOK, [Next]_vars, NEW i \in Ids, NEW k \in Tasks,
           task[i][k] # "emit", task'[i][k] = "emit"
    PROVE  i \in Enabled(mem)
<1>n. ~Calm BY DEF Calm
<1>s. ASSUME UNCHANGED task PROVE FALSE BY <1>s
<1>1. ASSUME NEW j \in Ids,
             \/ Add(j) \/ RunStart(j) \/ UserToggles(j, TRUE)
             \/ UserToggles(j, FALSE) \/ AgentRemoves(j) \/ AgentDisables(j)
             \/ AgentEnables(j) \/ ThreadSaves(j) \/ RowDone(j)
      PROVE  FALSE
  <2>1. CASE Add(j) \/ AgentEnables(j) \/ ThreadSaves(j) \/ RowDone(j)
    BY <2>1, <1>s DEF Add, AgentEnables, ThreadSaves, RowDone, process
  <2>2. CASE RunStart(j) BY <2>2, <1>n, StartLoopsCalm DEF RunStart
  <2>3. CASE UserToggles(j, TRUE) BY <2>3, <1>s DEF UserToggles
  <2>4. CASE UserToggles(j, FALSE) BY <2>4, <1>n, UnplugCalm DEF UserToggles
  <2>5. CASE AgentRemoves(j) \/ AgentDisables(j)
    BY <2>5, <1>n, UnplugCalm DEF AgentRemoves, AgentDisables
  <2> QED BY <1>1, <2>1, <2>2, <2>3, <2>4, <2>5
<1>2. ASSUME NEW j \in Ids, Due(j) PROVE FALSE BY <1>2 DEF Due, TypeOK
<1>3. ASSUME NEW j \in Ids, NEW l \in Tasks,
             \/ LoopLooks(j, l) \/ Wakes(j, l) \/ FireDeduped(j, l)
             \/ FireEnds(j, l) \/ CancelledLeaves(j, l)
      PROVE  FALSE
  BY <1>3, <1>n, MovesCalm
  DEF LoopLooks, Wakes, FireDeduped, FireEnds, CancelledLeaves
<1>4. ASSUME NEW j \in Ids, NEW l \in Tasks, Fire(j, l) PROVE i \in Enabled(mem)
  <2>1. PICK stage : Moves(j, l, stage) BY <1>4 DEF Fire
  <2>2. i = j BY <2>1 DEF Moves, TypeOK
  <2> QED BY <1>4, <2>2 DEF Fire, FiresAt
<1>5. CASE Reload
  <2>1. ASSUME NEW j \in Ids, ReloadCancels(j) PROVE FALSE
    <3>1. CASE table[j] = 0 BY <2>1, <3>1, <1>s DEF ReloadCancels
    <3>2. CASE table[j] # 0
      <4>1. table[j] \in Tasks BY <3>2 DEF TypeOK
      <4>2. Cancelled(task[j][table[j]]) # "emit" BY <4>1, CancelledCalm DEF TypeOK
      <4>3. task' = [task EXCEPT ![j][table[j]] = Cancelled(task[j][table[j]])]
        BY <2>1, <3>2 DEF ReloadCancels
      <4> QED BY <4>1, <4>2, <4>3 DEF TypeOK
    <3> QED BY <3>1, <3>2
  <2>2. ASSUME NEW j \in Ids, ReloadStopped(j) PROVE FALSE
    BY <2>2, <1>s DEF ReloadStopped
  <2>3. CASE ReloadBegins BY <2>3, <1>s DEF ReloadBegins
  <2>4. CASE ReloadLoads BY <2>4, <1>n, StartLoopsCalm DEF ReloadLoads
  <2> QED BY <1>5, <2>1, <2>2, <2>3, <2>4 DEF Reload
<1>6. CASE Crash BY <1>6 DEF Crash, Idle
<1>7. CASE Boot BY <1>7, <1>n, StartLoopsCalm DEF Boot
<1>8. CASE UNCHANGED vars BY <1>8, <1>s DEF vars, process
<1> QED
  BY <1>1, <1>2, <1>3, <1>4, <1>5, <1>6, <1>7, <1>8 DEF Next, LoopStep

\* A schedule that was disabled or removed does not fire until it is enabled
\* again, through any reloads, restarts and changes to others (manager.py,
\* update_schedule, remove_schedule and reload).
THEOREM OffStaysOff == ASSUME Orderly PROVE Spec => OffIsOff
<1>1. Init => OffInv BY OffInit
<1>2. OffInv /\ [Next]_vars => OffInv' BY OffStep
<1>3. OffInv /\ [Next]_vars =>
        [\A i \in Ids : (\E k \in Tasks : task[i][k] # "emit" /\ task'[i][k] = "emit")
                        => want[i] \notin {"off", "gone"}]_vars
  <2> SUFFICES ASSUME OffInv, [Next]_vars, NEW i \in Ids, NEW k \in Tasks,
                      task[i][k] # "emit", task'[i][k] = "emit"
               PROVE  want[i] \notin {"off", "gone"}
    OBVIOUS
  <2>1. i \in Enabled(mem) BY FiresEnabled DEF OffInv
  <2> QED BY <2>1 DEF OffInv, Off
<1> QED BY <1>1, <1>2, <1>3, PTL DEF Spec, OffIsOff

-----------------------------------------------------------------------------
(* One loop for each schedule *)

\* Nothing gets between the steps of a reload.
Gapless == "gap" \notin Env

\* A loop that may still fire is the one in the table; one that was told to
\* leave is in the table only until the reload that told it has seen it leave.
Plugged(i) ==
    \A k \in Tasks :
        /\ task[i][k] \in Live => table[i] = k
        /\ task[i][k] \in {"late", "cancelled"} /\ table[i] = k => i \in reload.at
        /\ task[i][k] = "late" => starting = {} /\ "contended" \notin Env
        /\ up \/ task[i][k] = "done"

\* A reload starts with no loop about to be started, and stops every loop of
\* the table.
Stopping(i) ==
    /\ i \in reload.at => /\ reload.on /\ reload.at = {i}
                          /\ table[i] # 0 /\ task[i][table[i]] \notin Live
    /\ i \in reload.todo => reload.on
    /\ reload.on => /\ starting = {}
                    /\ table[i] = 0 \/ i \in reload.todo \/ i \in reload.at

\* Loops are started for enabled schedules that have none.
Unstarted(i) ==
    /\ i \in starting => table[i] = 0 /\ i \in Enabled(mem)
    /\ want[i] = "never" => table[i] = 0 /\ ~mem[i].there /\ ~file[i].there
    /\ ~up => ~mem[i].there /\ table[i] = 0 /\ starting = {} /\ ~reload.on

LoopOf(i) == Plugged(i) /\ Stopping(i) /\ Unstarted(i)
LoopInv == TypeOK /\ \A i \in Ids : LoopOf(i)

LEMMA LoopInit == Init => LoopInv
<1> SUFFICES ASSUME Init PROVE LoopInv OBVIOUS
<1>1. ASSUME NEW i \in Ids PROVE LoopOf(i)
  BY DEF Init, LoopOf, Plugged, Stopping, Unstarted, Idle, NoReload, Absent, Live
<1> QED BY <1>1, TypeInit DEF LoopInv

\* What a step does to the tasks of one schedule may be anything; those of
\* another it leaves alone.
LEMMA LoopElsewhere ==
    ASSUME LoopInv, NEW i \in Ids, LoopOf(i)',
           UNCHANGED <<up, reload>>,
           starting' \in {starting, starting \ {i}} \/
              (starting' = starting \cup {i} /\ ~reload.on /\ up
               /\ \A j \in Ids, k \in Tasks : task[j][k] # "late"),
           \A j \in Ids \ {i} : /\ task'[j] = task[j] /\ table'[j] = table[j]
                                /\ mem'[j] = mem[j] /\ want'[j] = want[j]
                                /\ file'[j] = file[j] \/ file'[j] = mem[j]
    PROVE  \A j \in Ids : LoopOf(j)'
<1> SUFFICES ASSUME NEW j \in Ids, j # i PROVE LoopOf(j)' OBVIOUS
<1>1. LoopOf(j) BY DEF LoopInv
<1>2. Plugged(j)' BY <1>1 DEF LoopOf, Plugged
<1>3. Stopping(j)' BY <1>1 DEF LoopOf, Stopping
<1>4. Unstarted(j)' BY <1>1 DEF LoopOf, Unstarted, Enabled
<1> QED BY <1>2, <1>3, <1>4 DEF LoopOf


\* A request that changes the tasks and the entry of a schedule by stopping its
\* loop.
LEMMA UnplugLoop ==
    ASSUME LoopInv, NEW i \in Ids, Unplug(i), up, ~reload.on, starting = {},
           UNCHANGED <<up, reload, starting>>,
           want'[i] # "never"
    PROVE  /\ LoopOf(i)'
           /\ \A j \in Ids \ {i} : task'[j] = task[j] /\ table'[j] = table[j]
<1>1. LoopOf(i) /\ i \notin reload.at /\ i \notin reload.todo
  BY DEF LoopInv, LoopOf, Stopping
<1>2. CASE table[i] = 0
  <2>1. UNCHANGED <<table, task>> BY <1>2 DEF Unplug
  <2> QED BY <1>1, <2>1, <1>2 DEF LoopOf, Plugged, Stopping, Unstarted
<1>3. CASE table[i] # 0
  <2>t. table[i] \in Tasks /\ task \in [Ids -> [Tasks -> Stages]]
        /\ table \in [Ids -> {0} \cup Tasks] /\ 0 \notin Tasks
    BY <1>3 DEF LoopInv, TypeOK, Tasks
  <2> DEFINE stage == Cancelled(task[i][table[i]])
  <2>1. /\ task' = [task EXCEPT ![i][table[i]] = stage]
        /\ table' = [table EXCEPT ![i] = 0]
    BY <1>3 DEF Unplug
  <2>2. stage \notin Live /\ (stage = "late" => "contended" \notin Env)
    BY <1>1, <2>t DEF Cancelled, Live, Stages, LoopOf, Plugged
  <2> HIDE DEF stage
  <2>3. \A k \in Tasks : task'[i][k] = IF k = table[i] THEN stage ELSE task[i][k]
    BY <2>1, <2>t
  <2>4. Plugged(i)' BY <1>1, <2>1, <2>2, <2>3, <2>t DEF LoopOf, Plugged
  <2>5. Stopping(i)' BY <1>1 DEF Stopping
  <2>6. Unstarted(i)' BY <2>1, <2>t DEF Unstarted
  <2> QED BY <2>1, <2>4, <2>5, <2>6, <2>t DEF LoopOf
<1> QED BY <1>2, <1>3

\* Starting a loop for a schedule that has none.
LEMMA StartLoopsLoop ==
    ASSUME TypeOK, NEW ids \in SUBSET Ids, StartLoops(ids), NEW i \in Ids,
           \A k \in Tasks : /\ task[i][k] \in Live => table[i] = k
                            /\ task[i][k] \notin {"late"}
                            /\ task[i][k] = "cancelled" => table[i] # k
    PROVE  /\ \A k \in Tasks : /\ task'[i][k] \in Live => table'[i] = k
                               /\ task'[i][k] \notin {"late"}
                               /\ task'[i][k] = "cancelled" => table'[i] # k
           /\ i \in ids \/ table'[i] = table[i]
           /\ i \in ids => table'[i] # 0 /\ task'[i][table'[i]] # "done"
<1>t. task \in [Ids -> [Tasks -> Stages]] /\ table \in [Ids -> {0} \cup Tasks]
      /\ 0 \notin Tasks
  BY DEF TypeOK, Tasks
<1>1. CASE i \in ids /\ ~Running(i)
  <2>1. Slot(i) \in Tasks /\ task[i][Slot(i)] = "done"
    <3>1. \E k \in Tasks : task[i][k] = "done" BY <1>1 DEF StartLoops
    <3> QED BY <3>1 DEF Slot
  <2>2. task'[i] = [task[i] EXCEPT ![Slot(i)] = "start"] /\ table'[i] = Slot(i)
    BY <1>1 DEF StartLoops
  <2>3. \A k \in Tasks : task[i][k] \notin Live
    BY <1>1, <1>t DEF Running, Live
  <2> QED BY <1>1, <1>t, <2>1, <2>2, <2>3
<1>2. CASE ~(i \in ids /\ ~Running(i))
  <2>1. task'[i] = task[i] /\ table'[i] = table[i] BY <1>2 DEF StartLoops
  <2> QED BY <1>2, <2>1 DEF Running
<1> QED BY <1>1, <1>2

LEMMA LoopRequests ==
    ASSUME LoopInv, Gapless, NEW i \in Ids,
           \/ Add(i) \/ RunStart(i) \/ UserToggles(i, TRUE) \/ UserToggles(i, FALSE)
           \/ AgentRemoves(i) \/ AgentDisables(i) \/ AgentEnables(i)
           \/ ThreadSaves(i)
    PROVE  \A j \in Ids : LoopOf(j)'
<1>m. /\ mem \in [Ids -> Entry] /\ file \in [Ids -> Entry]
      /\ want \in [Ids -> {"never", "on", "asked", "off", "gone"}]
      /\ table \in [Ids -> {0} \cup Tasks] /\ task \in [Ids -> [Tasks -> Stages]]
      /\ pending \in [Ids -> {"no", "off", "gone"}]
      /\ 0 \notin Tasks
  BY DEF LoopInv, TypeOK, Tasks
<1>i. LoopOf(i) BY DEF LoopInv
<1>g. ASSUME OnLoop \/ InThread(i)
      PROVE  /\ up /\ starting = {} /\ ~reload.on
             /\ OnLoop => \A j \in Ids, k \in Tasks : task[j][k] # "late"
  BY <1>g DEF OnLoop, Unfired, InThread, NextInLine, Gapless, Firing, LoopInv,
              LoopOf, Plugged
<1>f. ASSUME NEW old, old \in {file, [file EXCEPT ![i].on = file'[i].on]}, SaveOver(old),
             \A j \in Ids \ {i} : mem'[j] = mem[j]
      PROVE  \A j \in Ids \ {i} : file'[j] = file[j] \/ file'[j] = mem[j]
  BY <1>f, <1>m DEF SaveOver
<1>1. CASE Add(i)
  <2>1. /\ up /\ up' = up /\ starting' = starting \cup {i} /\ UNCHANGED <<table, task, reload>>
        /\ mem' = [mem EXCEPT ![i] = [there |-> TRUE, on |-> TRUE, fired |-> FALSE]]
        /\ want' = [want EXCEPT ![i] = "on"] /\ SaveOver(file)
        /\ want[i] = "never"
    BY <1>1, <1>g DEF Add, Save
  <2>2. \A j \in Ids \ {i} : mem'[j] = mem[j] /\ want'[j] = want[j] BY <2>1, <1>m
  <2>3. Plugged(i)' /\ Stopping(i)' BY <1>1, <1>g, <1>i, <2>1 DEF Add, LoopOf, Plugged, Stopping
  <2>4. Unstarted(i)' BY <1>i, <2>1, <1>m DEF LoopOf, Unstarted, Enabled
  <2> QED BY <1>1, <1>g, <1>f, <2>1, <2>2, <2>3, <2>4, LoopElsewhere DEF Add, LoopOf
<1>2. CASE RunStart(i)
  <2>1. /\ up /\ up' = up /\ i \in starting /\ starting' = starting \ {i}
        /\ StartLoops({i}) /\ UNCHANGED <<file, mem, reload, want>>
    BY <1>2 DEF RunStart, Unfired
  <2>2. ~reload.on /\ i \notin reload.at /\ i \notin reload.todo
        /\ \A k \in Tasks : task[i][k] # "late"
    BY <1>i, <2>1 DEF LoopOf, Stopping, Plugged
  <2>3. /\ \A k \in Tasks : /\ task[i][k] \in Live => table[i] = k
                            /\ task[i][k] \notin {"late"}
                            /\ task[i][k] = "cancelled" => table[i] # k
    BY <1>i, <2>2 DEF LoopOf, Plugged
  <2>4. /\ \A k \in Tasks : /\ task'[i][k] \in Live => table'[i] = k
                            /\ task'[i][k] \notin {"late"}
                            /\ task'[i][k] = "cancelled" => table'[i] # k
    BY <2>1, <2>3, StartLoopsLoop DEF LoopInv
  <2>5. LoopOf(i)' BY <1>i, <2>1, <2>2, <2>4 DEF LoopOf, Plugged, Stopping, Unstarted, Enabled
  <2>6. \A j \in Ids \ {i} : task'[j] = task[j] /\ table'[j] = table[j]
    BY <2>1 DEF StartLoops
  <2> QED BY <2>1, <2>5, <2>6, LoopElsewhere
<1>u. ASSUME Unplug(i), up, up' = up, ~reload.on, starting = {}, want'[i] # "never",
             UNCHANGED <<starting, reload>>,
             \A j \in Ids \ {i} : /\ mem'[j] = mem[j] /\ want'[j] = want[j]
                                  /\ file'[j] = file[j] \/ file'[j] = mem[j]
      PROVE  \A j \in Ids : LoopOf(j)'
  BY <1>u, UnplugLoop, LoopElsewhere
<1>3. ASSUME NEW on \in BOOLEAN, UserToggles(i, on) PROVE \A j \in Ids : LoopOf(j)'
  <2>1. /\ up /\ up' = up /\ starting = {} /\ ~reload.on /\ reload' = reload
        /\ mem[i].there /\ mem' = [mem EXCEPT ![i].on = on]
        /\ want' = [want EXCEPT ![i] = IF on THEN "on" ELSE "off"]
        /\ \A j \in Ids, k \in Tasks : task[j][k] # "late"
    BY <1>3, <1>g DEF UserToggles
  <2>2. \A j \in Ids \ {i} : mem'[j] = mem[j] /\ want'[j] = want[j] BY <2>1, <1>m
  <2>3. \A j \in Ids \ {i} : file'[j] = file[j] \/ file'[j] = mem[j]
    <3>1. SaveOver([file EXCEPT ![i].on = file[i].there /\ on]) BY <1>3 DEF UserToggles
    <3> QED BY <3>1, <2>2, <1>m DEF SaveOver
  <2>4. want'[i] # "never" BY <2>1, <1>m
  <2>5. CASE ~on
    BY <1>3, <1>u, <2>1, <2>2, <2>3, <2>4, <2>5 DEF UserToggles
  <2>6. CASE on
    <3>1. /\ starting' = IF table[i] = 0 THEN starting \cup {i} ELSE starting
          /\ UNCHANGED <<table, task>>
      BY <1>3, <2>6 DEF UserToggles
    <3>2. mem'[i] = [mem[i] EXCEPT !.on = on] BY <2>1, <1>m
    <3>3. mem'[i].there /\ mem'[i].on BY <2>1, <2>6, <3>2, <1>m DEF Entry
    <3>4. LoopOf(i)'
      BY <1>i, <2>1, <2>4, <3>1, <3>3 DEF LoopOf, Plugged, Stopping, Unstarted, Enabled
    <3> QED BY <2>1, <2>2, <2>3, <3>1, <3>4, LoopElsewhere
  <2> QED BY <2>5, <2>6
<1>4. CASE AgentRemoves(i) \/ AgentDisables(i)
  <2>1. /\ Unplug(i) /\ up /\ up' = up /\ ~reload.on /\ starting = {}
        /\ UNCHANGED <<starting, reload, file>>
        /\ want' = [want EXCEPT ![i] = "asked"]
        /\ \A j \in Ids \ {i} : mem'[j] = mem[j]
    BY <1>4, <1>g, <1>m DEF AgentRemoves, AgentDisables
  <2> QED BY <1>u, <2>1, <1>m
<1>5. CASE AgentEnables(i)
  <2>1. /\ up /\ up' = up /\ starting = {} /\ ~reload.on
        /\ UNCHANGED <<table, task, starting, reload>>
        /\ mem[i].there /\ mem' = [mem EXCEPT ![i].on = TRUE]
        /\ want' \in {want, [want EXCEPT ![i] = "on"]}
        /\ SaveOver(file) \/ file' = file
    BY <1>5, <1>g DEF AgentEnables, Save, InThread
  <2>2. \A j \in Ids \ {i} : /\ mem'[j] = mem[j] /\ want'[j] = want[j]
                             /\ file'[j] = file[j] \/ file'[j] = mem[j]
    BY <2>1, <1>m DEF SaveOver
  <2>3. want'[i] # "never" BY <1>i, <2>1, <1>m DEF LoopOf, Unstarted
  <2>4. LoopOf(i)' BY <1>i, <2>1, <2>3 DEF LoopOf, Plugged, Stopping, Unstarted
  <2> QED BY <2>1, <2>2, <2>4, LoopElsewhere
<1>6. CASE ThreadSaves(i)
  <2>1. /\ up /\ up' = up /\ UNCHANGED <<mem, table, task, starting, reload>>
        /\ want' = [want EXCEPT ![i] = pending[i]]
        /\ SaveOver(file)
    BY <1>6 DEF ThreadSaves, Save
  <2>2. \A j \in Ids \ {i} : want'[j] = want[j] /\ (file'[j] = file[j] \/ file'[j] = mem[j])
    BY <2>1, <1>m DEF SaveOver
  <2>3. want'[i] # "never" BY <2>1, <1>m
  <2>4. LoopOf(i)' BY <1>i, <2>1, <2>3 DEF LoopOf, Plugged, Stopping, Unstarted, Enabled
  <2> QED BY <2>1, <2>2, <2>4, LoopElsewhere
<1> QED BY <1>1, <1>2, <1>3, <1>4, <1>5, <1>6

LEMMA LoopLoops ==
    ASSUME LoopInv, NEW i \in Ids, NEW k \in Tasks,
           \/ LoopLooks(i, k) \/ Wakes(i, k) \/ Fire(i, k)
           \/ FireDeduped(i, k) \/ FireEnds(i, k) \/ CancelledLeaves(i, k)
    PROVE  \A j \in Ids : LoopOf(j)'
<1>m. /\ mem \in [Ids -> Entry] /\ file \in [Ids -> Entry]
      /\ table \in [Ids -> {0} \cup Tasks] /\ task \in [Ids -> [Tasks -> Stages]]
  BY DEF LoopInv, TypeOK
<1>i. LoopOf(i) BY DEF LoopInv
<1>n. want[i] = "never" => ~mem[i].there BY <1>i DEF LoopOf, Unstarted
<1>1. /\ up /\ up' = up /\ UNCHANGED <<table, starting, reload, want>>
      /\ \A j \in Ids \ {i} : /\ mem'[j] = mem[j]
                              /\ file'[j] = file[j] \/ file'[j] = mem[j]
      /\ mem'[i] \in {mem[i], [mem[i] EXCEPT !.fired = TRUE], Absent}
      /\ file'[i] \in {file[i], mem[i], Absent}
  BY <1>m DEF LoopLooks, Wakes, Fire, FireDeduped, FireEnds, CancelledLeaves,
              FiresAt, Unfired, Popped, Counted, Save, SaveOver
<1>2. PICK stage \in Stages \ {"late"} :
         /\ Moves(i, k, stage)
         /\ stage \in Live => task[i][k] \in Live
         /\ stage # "cancelled"
  BY DEF LoopLooks, Wakes, Fire, FireDeduped, FireEnds, CancelledLeaves,
         FiresAt, Awake, AtTop, Stages, Live
<1>3. /\ task'[i] = [task[i] EXCEPT ![k] = stage]
      /\ \A j \in Ids \ {i} : task'[j] = task[j]
  BY <1>2, <1>m DEF Moves
<1>4. Plugged(i)' BY <1>i, <1>1, <1>2, <1>3, <1>m DEF LoopOf, Plugged
<1>5. Stopping(i)' BY <1>i, <1>1, <1>2, <1>3, <1>m DEF LoopOf, Stopping, TypeOK
<1>6. mem' = mem \/ i \notin starting
  <2>1. CASE LoopLooks(i, k) \/ Wakes(i, k) \/ CancelledLeaves(i, k)
    BY <2>1 DEF LoopLooks, Wakes, CancelledLeaves
  <2>2. CASE Fire(i, k) \/ FireDeduped(i, k) \/ FireEnds(i, k)
    <3>1. task[i][k] \in Live \cup {"late"}
      BY <2>2 DEF Fire, FireDeduped, FireEnds, FiresAt, Awake, AtTop, Live, Stages
    <3>2. 0 \notin Tasks BY DEF Tasks
    <3> QED BY <1>i, <3>1, <3>2 DEF LoopOf, Plugged, Unstarted
  <2> QED BY <2>1, <2>2
<1>7. Unstarted(i)'
  <2>1. want'[i] = "never" => ~mem'[i].there /\ ~file'[i].there
    <3> SUFFICES ASSUME want[i] = "never" PROVE ~mem'[i].there /\ ~file'[i].there BY <1>1
    <3>1. ~mem[i].there /\ ~file[i].there BY <1>i DEF LoopOf, Unstarted
    <3>2. [mem[i] EXCEPT !.fired = TRUE].there = mem[i].there BY <1>m DEF Entry
    <3>3. ~Absent.there BY DEF Absent
    <3>4. ~mem'[i].there BY <1>1, <3>1, <3>2, <3>3
    <3>5. ~file'[i].there BY <1>1, <3>1, <3>3
    <3> QED BY <3>4, <3>5
  <2>2. i \in starting => i \in Enabled(mem)'
    BY <1>i, <1>6 DEF LoopOf, Unstarted, Enabled
  <2> QED BY <1>i, <1>1, <2>1, <2>2 DEF LoopOf, Unstarted
<1>8. LoopOf(i)' BY <1>4, <1>5, <1>7 DEF LoopOf
<1> QED BY <1>1, <1>3, <1>8, LoopElsewhere

\* A reload that has stopped every loop, or a process that starts, has none.
LEMMA LoopLoads ==
    ASSUME LoopInv, NEW i \in Ids, table[i] = 0,
           \A j \in Ids, k \in Tasks : task[j][k] # "late",
           mem' = Loaded, StartLoops(Enabled(Loaded)), starting = {}, starting' = {},
           reload'.on = FALSE, reload'.at = {}, reload'.todo = {}, up',
           UNCHANGED <<file, want>>
    PROVE  LoopOf(i)'
<1>t. 0 \notin Tasks BY DEF Tasks
<1>i. LoopOf(i) BY DEF LoopInv
<1>1. \A k \in Tasks : /\ task[i][k] \in Live => table[i] = k
                       /\ task[i][k] \notin {"late"}
                       /\ task[i][k] = "cancelled" => table[i] # k
  BY <1>i, <1>t DEF LoopOf, Plugged
<1>2. Enabled(Loaded) \in SUBSET Ids BY DEF Enabled
<1>3. /\ \A k \in Tasks : /\ task'[i][k] \in Live => table'[i] = k
                          /\ task'[i][k] \notin {"late"}
                          /\ task'[i][k] = "cancelled" => table'[i] # k
      /\ i \in Enabled(Loaded) \/ table'[i] = table[i]
  BY <1>1, <1>2, StartLoopsLoop DEF LoopInv
<1>4. want[i] = "never" => i \notin Enabled(Loaded) /\ ~mem'[i].there
  BY <1>i DEF LoopOf, Unstarted, Enabled, Loaded, Absent
<1>5. Unstarted(i)' BY <1>i, <1>3, <1>4 DEF LoopOf, Unstarted
<1>6. Plugged(i)' BY <1>3 DEF Plugged
<1>7. Stopping(i)' BY DEF Stopping
<1> QED BY <1>5, <1>6, <1>7 DEF LoopOf

LEMMA LoopReload == ASSUME LoopInv, Gapless, Reload PROVE \A j \in Ids : LoopOf(j)'
<1>m. /\ table \in [Ids -> {0} \cup Tasks] /\ task \in [Ids -> [Tasks -> Stages]]
      /\ reload \in [on : BOOLEAN, todo : SUBSET Ids, at : SUBSET Ids] /\ 0 \notin Tasks
  BY DEF LoopInv, TypeOK, Tasks
<1>1. CASE ReloadBegins
  <2> SUFFICES ASSUME NEW j \in Ids PROVE LoopOf(j)' OBVIOUS
  <2>1. LoopOf(j) BY DEF LoopInv
  <2>2. /\ starting = {} /\ ~reload.on
        /\ reload' = [on |-> TRUE, todo |-> {i \in Ids : table[i] # 0}, at |-> {}]
        /\ UNCHANGED <<file, up, mem, table, task, starting, want>>
        /\ up
    BY <1>1 DEF ReloadBegins, OnLoop, Unfired, NextInLine, Gapless
  <2>3. Plugged(j)' BY <2>1, <2>2 DEF LoopOf, Plugged, Stopping
  <2>4. Stopping(j)' BY <2>2 DEF Stopping
  <2>5. Unstarted(j)' BY <2>1, <2>2 DEF LoopOf, Unstarted, Enabled
  <2> QED BY <2>3, <2>4, <2>5 DEF LoopOf
<1>2. ASSUME NEW i \in Ids, ReloadCancels(i) PROVE \A j \in Ids : LoopOf(j)'
  <2> SUFFICES ASSUME NEW j \in Ids PROVE LoopOf(j)' OBVIOUS
  <2>1. LoopOf(j) /\ LoopOf(i) BY DEF LoopInv
  <2>2. /\ up /\ reload.at = {} /\ i \in reload.todo /\ reload.on /\ starting = {}
        /\ UNCHANGED <<file, up, mem, table, starting, want>>
    BY <1>2, <2>1 DEF ReloadCancels, Unfired, LoopOf, Stopping
  <2>3. /\ reload'.todo = reload.todo \ {i} /\ reload'.on = reload.on
        /\ reload'.at = IF table[i] = 0 THEN {} ELSE {i}
    BY <1>2, <1>m DEF ReloadCancels
  <2>4. Unstarted(j)' BY <2>1, <2>2, <2>3 DEF LoopOf, Unstarted, Enabled
  <2>5. CASE table[i] = 0
    <3>1. task' = task BY <1>2, <2>5 DEF ReloadCancels
    <3> QED BY <2>1, <2>2, <2>3, <2>4, <2>5, <3>1 DEF LoopOf, Plugged, Stopping
  <2>6. CASE table[i] # 0
    <3> DEFINE stage == Cancelled(task[i][table[i]])
    <3>1. task' = [task EXCEPT ![i][table[i]] = stage] BY <1>2, <2>6 DEF ReloadCancels
    <3>2. table[i] \in Tasks BY <2>6, <1>m
    <3>3. stage \notin Live /\ (stage = "late" => "contended" \notin Env)
      BY <2>1, <3>2, <1>m DEF Cancelled, Live, Stages, LoopOf, Plugged
    <3> HIDE DEF stage
    <3>4. CASE j = i
      <4>1. \A k \in Tasks : task'[i][k] = IF k = table[i] THEN stage ELSE task[i][k]
        BY <3>1, <3>2, <1>m
      <4>2. Plugged(i)' BY <2>1, <2>2, <2>3, <2>6, <3>3, <4>1 DEF LoopOf, Plugged
      <4>3. Stopping(i)' BY <2>1, <2>2, <2>3, <2>6, <3>2, <3>3, <4>1 DEF LoopOf, Stopping
      <4> QED BY <2>4, <3>4, <4>2, <4>3 DEF LoopOf
    <3>5. CASE j # i
      <4>1. task'[j] = task[j] BY <3>1, <3>5, <1>m
      <4> QED BY <2>1, <2>2, <2>3, <2>4, <2>6, <3>5, <4>1 DEF LoopOf, Plugged, Stopping
    <3> QED BY <3>4, <3>5
  <2> QED BY <2>5, <2>6
<1>3. ASSUME NEW i \in Ids, ReloadStopped(i) PROVE \A j \in Ids : LoopOf(j)'
  <2> SUFFICES ASSUME NEW j \in Ids PROVE LoopOf(j)' OBVIOUS
  <2>1. LoopOf(j) /\ LoopOf(i) BY DEF LoopInv
  <2>2. /\ up /\ reload.at = {i} /\ reload.on /\ starting = {} /\ table[i] # 0
        /\ UNCHANGED <<file, up, mem, task, starting, want>>
        /\ table' = [table EXCEPT ![i] = 0]
        /\ \A k \in Tasks : task[i][k] # "cancelled"
    BY <1>3, <2>1 DEF ReloadStopped, LoopOf, Stopping
  <2>3. /\ reload'.todo = reload.todo /\ reload'.on = reload.on /\ reload'.at = {}
    BY <1>3, <2>2, <1>m DEF ReloadStopped
  <2>4. table'[j] = IF j = i THEN 0 ELSE table[j] BY <2>2, <1>m
  <2>5. Unstarted(j)' BY <2>1, <2>2, <2>3, <2>4 DEF LoopOf, Unstarted, Enabled
  <2>6. Plugged(j)' BY <2>1, <2>2, <2>3, <2>4, <1>m DEF LoopOf, Plugged, Stopping
  <2>7. Stopping(j)' BY <2>1, <2>2, <2>3, <2>4 DEF LoopOf, Stopping
  <2> QED BY <2>5, <2>6, <2>7 DEF LoopOf
<1>4. CASE ReloadLoads
  <2>1. /\ Unfired /\ reload.on /\ reload.todo = {} /\ reload.at = {}
        /\ mem' = Loaded /\ StartLoops(Enabled(Loaded)) /\ reload' = NoReload
        /\ UNCHANGED <<file, up, starting, want>>
    BY <1>4 DEF ReloadLoads
  <2>2. ASSUME NEW j \in Ids PROVE table[j] = 0 /\ starting = {}
    BY <2>1, <2>2 DEF LoopInv, LoopOf, Stopping
  <2>3. \A j \in Ids, k \in Tasks : task[j][k] # "late"
    BY <2>1 DEF Unfired, Firing, LoopInv, LoopOf, Plugged
  <2> QED BY <2>1, <2>2, <2>3, LoopLoads DEF NoReload, Unfired
<1> QED BY <1>1, <1>2, <1>3, <1>4 DEF Reload

LEMMA LoopStepInv == Gapless /\ LoopInv /\ [Next]_vars => LoopInv'
<1> SUFFICES ASSUME Gapless, LoopInv, [Next]_vars PROVE LoopInv' OBVIOUS
<1>t. TypeOK /\ TypeOK' BY TypeStep DEF LoopInv
<1> SUFFICES \A i \in Ids : LoopOf(i)' BY <1>t DEF LoopInv
<1>1. ASSUME NEW i \in Ids, Due(i) PROVE \A j \in Ids : LoopOf(j)'
  <2> SUFFICES ASSUME NEW j \in Ids PROVE LoopOf(j)' OBVIOUS
  <2>1. LoopOf(j) BY DEF LoopInv
  <2>2. UNCHANGED <<file, up, mem, table, starting, reload, want>> BY <1>1 DEF Due
  <2>3. ASSUME NEW k \in Tasks
        PROVE  task'[j][k] = task[j][k]
               \/ (task[j][k] = "sleep" /\ task'[j][k] = "ready")
    BY <1>1, <1>t DEF Due, TypeOK
  <2>4. Plugged(j)' BY <2>1, <2>2, <2>3 DEF LoopOf, Plugged, Live, Stages
  <2>5. Stopping(j)'
    <3>1. table[j] # 0 => table[j] \in Tasks BY <1>t DEF TypeOK
    <3> QED BY <2>1, <2>2, <2>3, <3>1 DEF LoopOf, Stopping, Live, Stages
  <2>6. Unstarted(j)' BY <2>1, <2>2 DEF LoopOf, Unstarted, Enabled
  <2> QED BY <2>4, <2>5, <2>6 DEF LoopOf
<1>2. ASSUME UNCHANGED <<file, up, mem, table, task, starting, reload, want>>
      PROVE  \A j \in Ids : LoopOf(j)'
  BY <1>2 DEF LoopInv, LoopOf, Plugged, Stopping, Unstarted, Enabled
<1>3. CASE Crash
  <2> SUFFICES ASSUME NEW j \in Ids PROVE LoopOf(j)' OBVIOUS
  <2>1. LoopOf(j) BY DEF LoopInv
  <2>2. mem'[j] = Absent /\ table'[j] = 0 /\ task'[j] = [k \in Tasks |-> "done"]
        /\ starting' = {} /\ reload' = NoReload /\ file' = file /\ want' = want
    BY <1>3 DEF Crash, Idle
  <2> QED BY <2>1, <2>2
          DEF LoopOf, Plugged, Stopping, Unstarted, NoReload, Absent, Live
<1>4. CASE Boot
  <2>1. /\ ~up /\ up' /\ mem' = Loaded /\ StartLoops(Enabled(Loaded))
        /\ UNCHANGED <<file, starting, reload, want>>
    BY <1>4 DEF Boot
  <2> SUFFICES ASSUME NEW j \in Ids PROVE LoopOf(j)' OBVIOUS
  <2>2. \A i \in Ids : table[i] = 0 /\ starting = {} /\ ~reload.on
    BY <2>1 DEF LoopInv, LoopOf, Unstarted
  <2>3. reload.on = FALSE /\ reload.at = {} /\ reload.todo = {}
    <3>1. reload \in [on : BOOLEAN, todo : SUBSET Ids, at : SUBSET Ids] BY <1>t DEF TypeOK
    <3>2. \A i \in Ids : i \notin reload.at /\ i \notin reload.todo
      BY <2>2 DEF LoopInv, LoopOf, Stopping
    <3> QED BY <2>2, <3>1, <3>2
  <2>4. \A i \in Ids, k \in Tasks : task[i][k] # "late"
    BY <2>1 DEF LoopInv, LoopOf, Plugged
  <2> QED BY <2>1, <2>2, <2>3, <2>4, LoopLoads
<1>5. ASSUME NEW i \in Ids, RowDone(i) PROVE \A j \in Ids : LoopOf(j)'
  BY <1>2, <1>5 DEF RowDone, process
<1>6. CASE UNCHANGED vars BY <1>2, <1>6 DEF vars, process
<1> QED
  BY <1>1, <1>3, <1>4, <1>5, <1>6, LoopRequests, LoopLoops, LoopReload
  DEF Next, LoopStep

\* No schedule is run by two loops, however often it is changed, reloaded or
\* restarted, unless something gets between the steps of a reload (manager.py,
\* _start_schedule_loop, reload).
THEOREM NoSecondLoop == ASSUME Gapless PROVE Spec => []OneLoop
<1>1. Init => LoopInv BY LoopInit
<1>2. LoopInv /\ [Next]_vars => LoopInv' BY LoopStepInv
<1>3. LoopInv => OneLoop
  <2> SUFFICES ASSUME LoopInv, NEW i \in Ids
               PROVE  Cardinality({k \in Tasks : task[i][k] \in Live}) <= 1
    BY DEF OneLoop
  <2>1. {k \in Tasks : task[i][k] \in Live} \in SUBSET {table[i]}
    BY DEF LoopInv, LoopOf, Plugged
  <2>2. IsFiniteSet({table[i]}) /\ Cardinality({table[i]}) = 1 BY FS_Singleton
  <2> QED BY <2>1, <2>2, FS_Subset
<1> QED BY <1>1, <1>2, <1>3, PTL DEF Spec

-----------------------------------------------------------------------------
(* What is enabled runs *)

\* Nothing gets between the steps of a reload, and the agent enables nothing.
Undisturbed == Env \cap {"gap", "agent_enable"} = {}

\* Outside of a reload an enabled schedule has a loop or is about to get one, and
\* a disabled one has none to be mistaken for its loop when it is enabled again.
HasLoop(i) ==
    ~reload.on /\ mem[i].there =>
        IF mem[i].on THEN Running(i) \/ i \in starting ELSE table[i] = 0

HasInv == LoopInv /\ \A i \in Ids : HasLoop(i)

LEMMA HasInit == Init => HasInv
<1> SUFFICES ASSUME Init PROVE HasInv OBVIOUS
<1>1. \A i \in Ids : HasLoop(i) BY DEF Init, HasLoop, Absent
<1> QED BY <1>1, LoopInit DEF HasInv

LEMMA HasElsewhere ==
    ASSUME HasInv, NEW i \in Ids, HasLoop(i)', reload' = reload,
           starting \ {i} \subseteq starting',
           \A j \in Ids \ {i} : /\ task'[j] = task[j] /\ table'[j] = table[j]
                                /\ mem'[j] = mem[j]
    PROVE  \A j \in Ids : HasLoop(j)'
<1> SUFFICES ASSUME NEW j \in Ids, j # i PROVE HasLoop(j)' OBVIOUS
<1>1. HasLoop(j) BY DEF HasInv
<1> QED BY <1>1 DEF HasLoop, Running

\* Where loops are started there is one.
LEMMA StartedRuns ==
    ASSUME TypeOK, NEW ids, StartLoops(ids), NEW i \in Ids, i \in ids
    PROVE  Running(i)'
<1>1. CASE Running(i)
  <2>1. task'[i] = task[i] /\ table'[i] = table[i] BY <1>1 DEF StartLoops
  <2> QED BY <1>1, <2>1 DEF Running
<1>2. CASE ~Running(i)
  <2>1. Slot(i) \in Tasks
    <3>1. \E k \in Tasks : task[i][k] = "done" BY <1>2 DEF StartLoops
    <3> QED BY <3>1 DEF Slot
  <2>2. task'[i] = [task[i] EXCEPT ![Slot(i)] = "start"] /\ table'[i] = Slot(i)
    BY <1>2 DEF StartLoops
  <2>3. task[i] \in [Tasks -> Stages] BY DEF TypeOK
  <2>4. table'[i] # 0 BY <2>1, <2>2 DEF Tasks
  <2> QED BY <2>1, <2>2, <2>3, <2>4 DEF Running
<1> QED BY <1>1, <1>2

LEMMA HasRequests ==
    ASSUME HasInv, Undisturbed, NEW i \in Ids,
           \/ Add(i) \/ RunStart(i) \/ UserToggles(i, TRUE) \/ UserToggles(i, FALSE)
           \/ AgentRemoves(i) \/ AgentDisables(i) \/ AgentEnables(i)
           \/ ThreadSaves(i)
    PROVE  \A j \in Ids : HasLoop(j)'
<1>m. /\ mem \in [Ids -> Entry]
      /\ table \in [Ids -> {0} \cup Tasks] /\ task \in [Ids -> [Tasks -> Stages]]
  BY DEF HasInv, LoopInv, TypeOK
<1>i. HasLoop(i) /\ LoopOf(i) BY DEF HasInv, LoopInv
<1>g. ASSUME OnLoop \/ InThread(i) PROVE starting = {} /\ ~reload.on
  BY <1>g DEF OnLoop, InThread, NextInLine, Undisturbed
<1>u. ASSUME Unplug(i)
      PROVE  table'[i] = 0 /\ \A j \in Ids \ {i} : /\ task'[j] = task[j]
                                                   /\ table'[j] = table[j]
  BY <1>u, <1>m DEF Unplug
<1>1. CASE Add(i)
  <2>1. i \in starting' /\ starting \subseteq starting' /\ UNCHANGED <<table, task, reload>>
        /\ mem' = [mem EXCEPT ![i] = [there |-> TRUE, on |-> TRUE, fired |-> FALSE]]
    BY <1>1 DEF Add
  <2>2. mem'[i].on /\ \A j \in Ids \ {i} : mem'[j] = mem[j] BY <2>1, <1>m
  <2> QED BY <2>1, <2>2, HasElsewhere DEF HasLoop
<1>2. CASE RunStart(i)
  <2>1. i \in starting /\ starting' = starting \ {i} /\ StartLoops({i})
        /\ UNCHANGED <<mem, reload>>
    BY <1>2 DEF RunStart
  <2>2. Running(i)' BY <2>1, StartedRuns DEF HasInv, LoopInv
  <2>3. mem[i].on BY <1>i, <2>1 DEF LoopOf, Unstarted, Enabled
  <2>4. \A j \in Ids \ {i} : task'[j] = task[j] /\ table'[j] = table[j]
    BY <2>1 DEF StartLoops
  <2> QED BY <2>1, <2>2, <2>3, <2>4, HasElsewhere DEF HasLoop
<1>3. ASSUME NEW on \in BOOLEAN, UserToggles(i, on) PROVE \A j \in Ids : HasLoop(j)'
  <2>1. /\ starting = {} /\ ~reload.on /\ reload' = reload
        /\ mem[i].there /\ mem' = [mem EXCEPT ![i].on = on]
    BY <1>3, <1>g DEF UserToggles
  <2>2. mem'[i] = [mem[i] EXCEPT !.on = on] /\ \A j \in Ids \ {i} : mem'[j] = mem[j]
    BY <2>1, <1>m
  <2>3. mem'[i].on = on BY <2>2, <1>m DEF Entry
  <2>4. CASE ~on
    <3>1. Unplug(i) BY <1>3, <2>4 DEF UserToggles
    <3>2. HasLoop(i)' BY <1>u, <2>3, <2>4, <3>1 DEF HasLoop
    <3> QED BY <1>u, <2>1, <2>2, <3>1, <3>2, HasElsewhere
  <2>5. CASE on
    <3>1. /\ starting' = IF table[i] = 0 THEN starting \cup {i} ELSE starting
          /\ UNCHANGED <<table, task>>
      BY <1>3, <2>5 DEF UserToggles
    <3>2. HasLoop(i)' BY <1>i, <2>1, <2>3, <2>5, <3>1 DEF HasLoop, Running
    <3> QED BY <2>1, <2>2, <3>1, <3>2, HasElsewhere
  <2> QED BY <2>4, <2>5
<1>4. CASE AgentRemoves(i) \/ AgentDisables(i)
  <2>1. /\ Unplug(i) /\ UNCHANGED <<starting, reload>>
        /\ mem' \in {[mem EXCEPT ![i] = Absent], [mem EXCEPT ![i].on = FALSE]}
    BY <1>4 DEF AgentRemoves, AgentDisables
  <2>2. /\ mem'[i] \in {Absent, [mem[i] EXCEPT !.on = FALSE]}
        /\ \A j \in Ids \ {i} : mem'[j] = mem[j]
    BY <2>1, <1>m
  <2>3. ~Absent.on /\ ~[mem[i] EXCEPT !.on = FALSE].on BY <1>m DEF Absent, Entry
  <2>4. ~mem'[i].on BY <2>2, <2>3
  <2>5. HasLoop(i)' BY <1>u, <2>1, <2>4 DEF HasLoop
  <2> QED BY <1>u, <2>1, <2>2, <2>5, HasElsewhere
<1>5. CASE AgentEnables(i)
  <2>1. /\ starting = {} /\ ~reload.on /\ table[i] # 0
        /\ UNCHANGED <<table, task, starting, reload>>
        /\ mem[i].there /\ mem' = [mem EXCEPT ![i].on = TRUE]
    BY <1>5, <1>g DEF AgentEnables, InThread, Undisturbed
  <2>2. Running(i) BY <1>i, <2>1 DEF HasLoop
  <2>3. HasLoop(i)' BY <2>1, <2>2, <1>m DEF HasLoop, Running, Entry
  <2> QED BY <2>1, <2>3, <1>m, HasElsewhere
<1>6. CASE ThreadSaves(i)
  BY <1>6 DEF ThreadSaves, HasInv, HasLoop, Running
<1> QED BY <1>1, <1>2, <1>3, <1>4, <1>5, <1>6

LEMMA HasLoops ==
    ASSUME HasInv, NEW i \in Ids, NEW k \in Tasks,
           \/ LoopLooks(i, k) \/ Wakes(i, k) \/ Fire(i, k)
           \/ FireDeduped(i, k) \/ FireEnds(i, k) \/ CancelledLeaves(i, k)
    PROVE  \A j \in Ids : HasLoop(j)'
<1>m. /\ mem \in [Ids -> Entry] /\ task \in [Ids -> [Tasks -> Stages]]
      /\ table \in [Ids -> {0} \cup Tasks]
  BY DEF HasInv, LoopInv, TypeOK
<1>i. HasLoop(i) /\ LoopOf(i) BY DEF HasInv, LoopInv
<1>1. /\ UNCHANGED <<table, starting, reload>>
      /\ \A j \in Ids \ {i} : mem'[j] = mem[j]
      /\ mem'[i] \in {mem[i], [mem[i] EXCEPT !.fired = TRUE], Absent}
  BY <1>m DEF LoopLooks, Wakes, Fire, FireDeduped, FireEnds, CancelledLeaves,
              Popped, Counted
\* A loop that ends is not in the table, or its schedule is not enabled.
<1>2. PICK stage \in Stages :
         /\ Moves(i, k, stage)
         /\ stage = "done" => \/ task[i][k] \in {"late", "cancelled"}
                              \/ i \notin Enabled(mem) /\ mem' = mem
  BY DEF LoopLooks, Wakes, Fire, FireDeduped, FireEnds, CancelledLeaves, Stages
<1>3. /\ \A l \in Tasks : task'[i][l] = IF l = k THEN stage ELSE task[i][l]
      /\ \A j \in Ids \ {i} : task'[j] = task[j]
  BY <1>2, <1>m DEF Moves
<1>4. ASSUME mem'[i].there
      PROVE  mem[i].there /\ mem'[i].on = mem[i].on
  <2>1. /\ [mem[i] EXCEPT !.fired = TRUE].there = mem[i].there
        /\ [mem[i] EXCEPT !.fired = TRUE].on = mem[i].on
    BY <1>m DEF Entry
  <2>2. ~Absent.there BY DEF Absent
  <2> QED BY <1>1, <1>4, <2>1, <2>2
<1>5. ASSUME ~reload.on, Running(i), mem[i].there, mem[i].on PROVE Running(i)'
  <2>1. table[i] \in Tasks BY <1>5, <1>m DEF Running
  <2>2. i \notin reload.at BY <1>5, <1>i DEF LoopOf, Stopping
  <2>3. table[i] = k => stage # "done"
    BY <1>2, <1>5, <1>i, <2>2 DEF LoopOf, Plugged, Enabled
  <2> QED BY <1>1, <1>3, <1>5, <2>1, <2>3 DEF Running
<1>6. HasLoop(i)' BY <1>i, <1>1, <1>4, <1>5 DEF HasLoop
<1> QED BY <1>1, <1>3, <1>6, HasElsewhere

LEMMA HasStep == Undisturbed /\ HasInv /\ [Next]_vars => HasInv'
<1> SUFFICES ASSUME Undisturbed, HasInv, [Next]_vars PROVE HasInv' OBVIOUS
<1>l. LoopInv' BY LoopStepInv DEF HasInv, Undisturbed, Gapless
<1> SUFFICES \A i \in Ids : HasLoop(i)' BY <1>l DEF HasInv
<1>t. TypeOK /\ TypeOK' BY <1>l DEF HasInv, LoopInv
<1>1. ASSUME NEW i \in Ids, Due(i) PROVE \A j \in Ids : HasLoop(j)'
  <2> SUFFICES ASSUME NEW j \in Ids PROVE HasLoop(j)' OBVIOUS
  <2>1. HasLoop(j) BY DEF HasInv
  <2>2. UNCHANGED <<mem, table, starting, reload>> BY <1>1 DEF Due
  <2>3. ASSUME NEW k \in Tasks
        PROVE  task'[j][k] = task[j][k] \/ task'[j][k] = "ready"
    BY <1>1, <1>t DEF Due, TypeOK
  <2>4. table[j] # 0 => table[j] \in Tasks BY <1>t DEF TypeOK
  <2> QED BY <2>1, <2>2, <2>3, <2>4 DEF HasLoop, Running
<1>2. ASSUME UNCHANGED <<mem, table, task, starting, reload>>
      PROVE  \A j \in Ids : HasLoop(j)'
  BY <1>2 DEF HasInv, HasLoop, Running
<1>3. CASE Crash BY <1>3 DEF Crash, HasLoop, Absent
<1>4. CASE Boot
  <2>1. mem' = Loaded /\ StartLoops(Enabled(Loaded)) /\ ~up BY <1>4 DEF Boot
  <2> SUFFICES ASSUME NEW j \in Ids, mem'[j].there PROVE HasLoop(j)' BY DEF HasLoop
  <2>2. table[j] = 0 BY <2>1 DEF HasInv, LoopInv, LoopOf, Unstarted
  <2>3. CASE mem'[j].on
    <3>1. j \in Enabled(Loaded) BY <2>1, <2>3 DEF Enabled
    <3> QED BY <2>1, <2>3, <3>1, <1>t, StartedRuns DEF HasLoop
  <2>4. CASE ~mem'[j].on
    <3>1. j \notin Enabled(Loaded) BY <2>1, <2>4 DEF Enabled
    <3> QED BY <2>1, <2>2, <2>4, <3>1 DEF StartLoops, HasLoop
  <2> QED BY <2>3, <2>4
<1>5. ASSUME NEW i \in Ids, RowDone(i) PROVE \A j \in Ids : HasLoop(j)'
  BY <1>2, <1>5 DEF RowDone, process
<1>6. CASE Reload
  <2>1. CASE ReloadBegins BY <2>1 DEF ReloadBegins, HasLoop
  <2>2. ASSUME NEW i \in Ids, ReloadCancels(i) PROVE reload'.on
    <3>1. reload.on BY <2>2 DEF ReloadCancels, HasInv, LoopInv, LoopOf, Stopping
    <3> QED BY <2>2, <3>1, <1>t DEF ReloadCancels, TypeOK
  <2>3. ASSUME NEW i \in Ids, ReloadStopped(i) PROVE reload'.on
    <3>1. reload.on /\ table[i] # 0
      BY <2>3 DEF ReloadStopped, HasInv, LoopInv, LoopOf, Stopping
    <3> QED BY <2>3, <3>1, <1>t DEF ReloadStopped, TypeOK
  <2>4. CASE ReloadLoads
    <3>1. mem' = Loaded /\ StartLoops(Enabled(Loaded)) BY <2>4 DEF ReloadLoads
    <3> SUFFICES ASSUME NEW j \in Ids, mem'[j].there PROVE HasLoop(j)' BY DEF HasLoop
    <3>2. table[j] = 0
      BY <2>4 DEF ReloadLoads, HasInv, LoopInv, LoopOf, Stopping
    <3>3. CASE mem'[j].on
      <4>1. j \in Enabled(Loaded) BY <3>1, <3>3 DEF Enabled
      <4> QED BY <3>1, <3>3, <4>1, <1>t, StartedRuns DEF HasLoop
    <3>4. CASE ~mem'[j].on
      <4>1. j \notin Enabled(Loaded) BY <3>1, <3>4 DEF Enabled
      <4> QED BY <3>1, <3>2, <3>4, <4>1 DEF StartLoops, HasLoop
    <3> QED BY <3>3, <3>4
  <2> QED BY <1>6, <2>1, <2>2, <2>3, <2>4 DEF Reload, HasLoop
<1>7. CASE UNCHANGED vars BY <1>2, <1>7 DEF vars, process
<1> QED
  BY <1>1, <1>3, <1>4, <1>5, <1>6, <1>7, HasRequests, HasLoops DEF Next, LoopStep

\* An enabled schedule has a loop, or a request or a reload that is under way
\* will start one, as long as nothing gets between the steps of a reload and the
\* agent does not enable what is disabled (manager.py, update_schedule).
THEOREM EnabledRuns == ASSUME Undisturbed PROVE Spec => []EnabledHasLoop
<1>1. Init => HasInv BY HasInit
<1>2. HasInv /\ [Next]_vars => HasInv' BY HasStep
<1>3. HasInv => EnabledHasLoop BY DEF HasInv, HasLoop, EnabledHasLoop, Enabled
<1> QED BY <1>1, <1>2, <1>3, PTL DEF Spec

-----------------------------------------------------------------------------
(* One fire for each one-time task *)

\* Nothing gets between the steps of a reload, and the file takes what is
\* written to it.
Saving == Env \cap {"gap", "save_fails"} = {}

\* An entry that a restart or a reload would load.
Unspent(s) == s.there /\ ~s.fired

\* A row is inserted when the time has come.
Timely(i) ==
    /\ row[i] # "none" => i \in due /\ want[i] # "never"
    /\ \A k \in Tasks : task[i][k] = "ready" => i \in due

\* A fire that is under way is the only one, and its row is not served yet.
OneEmit(i) ==
    /\ \A k \in Tasks : task[i][k] \in {"emit", "late"} => row[i] = "committed"
    /\ \A k, l \in Tasks : task[i][k] \in {"emit", "late"}
                           /\ task[i][l] \in {"emit", "late"} => k = l

\* A task that is loaded although it has a row has a loop that is about to look
\* at it, and finds the row.
Again(i) ==
    up /\ row[i] # "none" /\ Unspent(mem[i]) =>
        /\ mem[i].on /\ ~reload.on
        /\ table[i] # 0 /\ task[i][table[i]] = "start"

\* A task the file has as disabled has no row, and no loop to insert one.
OnFile(i) ==
    Unspent(file[i]) /\ ~file[i].on =>
        /\ row[i] = "none"
        /\ mem[i].there /\ mem[i].on => table[i] = 0 /\ i \notin starting

\* A task whose row is in the queue is gone, unless it was loaded once more.
Served(i) ==
    /\ row[i] \in {"queued", "done"} =>
          /\ mem[i].there => Unspent(mem[i])
          /\ up /\ ~mem[i].there => ~Unspent(file[i])
    /\ row[i] = "done" => ~mem[i].there /\ ~Unspent(file[i])

OnceOf(i) == Timely(i) /\ OneEmit(i) /\ Again(i) /\ OnFile(i) /\ Served(i)
OnceInv == LoopInv /\ \A i \in Once : OnceOf(i)

LEMMA OnceInit == Init => OnceInv
<1> SUFFICES ASSUME Init PROVE OnceInv OBVIOUS
<1>1. ASSUME NEW i \in Once PROVE OnceOf(i)
  BY DEF Init, OnceOf, Timely, OneEmit, Again, OnFile, Served, Unspent, Idle, Absent, Ids
<1> QED BY <1>1, LoopInit DEF OnceInv

LEMMA OnceElsewhere ==
    ASSUME OnceInv, up, up' = up, NEW i \in Ids, i \in Once => OnceOf(i)', reload' = reload,
           starting' \subseteq starting \cup {i}, due' = due,
           \A j \in Ids \ {i} : /\ task'[j] = task[j] /\ table'[j] = table[j]
                                /\ mem'[j] = mem[j] /\ want'[j] = want[j]
                                /\ row'[j] = row[j]
                                /\ file'[j] = file[j] \/ file'[j] = mem[j]
    PROVE  \A j \in Once : OnceOf(j)'
<1> SUFFICES ASSUME NEW j \in Once, j # i PROVE OnceOf(j)' OBVIOUS
<1>1. OnceOf(j) /\ j \in Ids BY DEF OnceInv, Ids
<1>2. Timely(j)' BY <1>1 DEF OnceOf, Timely
<1>3. OneEmit(j)' BY <1>1 DEF OnceOf, OneEmit
<1>4. Again(j)' BY <1>1 DEF OnceOf, Again
<1>5. OnFile(j)' BY <1>1 DEF OnceOf, OnFile, Again
<1>6. Served(j)' BY <1>1 DEF OnceOf, Served, Unspent
<1> QED BY <1>2, <1>3, <1>4, <1>5, <1>6 DEF OnceOf

\* While a task that has a row is loaded, no request gets through.
LEMMA AgainHolds ==
    ASSUME OnceInv, Saving, NEW i \in Once, row[i] # "none", Unspent(mem[i]), up
    PROVE  /\ ~OnLoop /\ \A j \in Ids : ~InThread(j)
           /\ i \notin starting
<1>1. OnceOf(i) /\ LoopOf(i) /\ i \in Ids BY DEF OnceInv, LoopInv, Ids
<1>2. table[i] # 0 /\ task[i][table[i]] = "start" BY <1>1 DEF OnceOf, Again
<1>3. table[i] \in Tasks BY <1>1, <1>2 DEF OnceInv, LoopInv, TypeOK
<1>4. NextInLine BY <1>1, <1>2, <1>3 DEF NextInLine
<1> QED BY <1>1, <1>2, <1>4 DEF OnLoop, InThread, Saving, LoopOf, Unstarted

LEMMA OnceRequests ==
    ASSUME OnceInv, Saving, NEW i \in Ids,
           \/ Add(i) \/ RunStart(i) \/ UserToggles(i, TRUE) \/ UserToggles(i, FALSE)
           \/ AgentRemoves(i) \/ AgentDisables(i) \/ AgentEnables(i)
           \/ ThreadSaves(i)
    PROVE  \A j \in Once : OnceOf(j)'
<1>m. /\ mem \in [Ids -> Entry] /\ file \in [Ids -> Entry]
      /\ want \in [Ids -> {"never", "on", "asked", "off", "gone"}]
      /\ table \in [Ids -> {0} \cup Tasks] /\ task \in [Ids -> [Tasks -> Stages]]
      /\ pending \in [Ids -> {"no", "off", "gone"}]
      /\ 0 \notin Tasks
  BY DEF OnceInv, LoopInv, TypeOK, Tasks
<1>i. LoopOf(i) /\ (i \in Once => OnceOf(i)) BY DEF OnceInv, LoopInv
<1>s. "save_fails" \notin Env BY DEF Saving
<1>u. ASSUME Unplug(i)
      PROVE  /\ table'[i] = 0
             /\ \A j \in Ids \ {i} : task'[j] = task[j] /\ table'[j] = table[j]
             /\ \A k \in Tasks : \/ task'[i][k] = task[i][k]
                                 \/ task'[i][k] = "cancelled"
                                 \/ task[i][k] = "emit" /\ task'[i][k] = "late"
  <2>1. CASE table[i] = 0 BY <1>u, <2>1 DEF Unplug
  <2>2. CASE table[i] # 0
    <3> DEFINE stage == Cancelled(task[i][table[i]])
    <3>1. /\ task' = [task EXCEPT ![i][table[i]] = stage]
          /\ table' = [table EXCEPT ![i] = 0]
      BY <1>u, <2>2 DEF Unplug
    <3>2. table[i] \in Tasks BY <2>2, <1>m
    <3>3. \/ stage = task[i][table[i]] \/ stage = "cancelled"
          \/ task[i][table[i]] = "emit" /\ stage = "late"
      BY DEF Cancelled
    <3> HIDE DEF stage
    <3> QED BY <3>1, <3>2, <3>3, <1>m
  <2> QED BY <2>1, <2>2
\* Tasks of i may have been told to leave, and its entry changes but for fired.
<1>e. ASSUME NEW s \in Entry, s.there => mem[i].there /\ s.fired = mem[i].fired,
             OnLoop \/ InThread(i), mem' = [mem EXCEPT ![i] = s],
             Unplug(i) \/ UNCHANGED <<table, task>>,
             want'[i] # "never", \A j \in Ids \ {i} : want'[j] = want[j],
             file' \in {file, mem'}, up' = up, UNCHANGED <<row, reload, due>>,
             starting' \subseteq starting \cup {i},
             s.on => file' = mem' \/ (table'[i] = 0 /\ i \notin starting')
      PROVE  \A j \in Once : OnceOf(j)'
  <2>1. up BY <1>e DEF OnLoop, Unfired, InThread
  <2>2. mem'[i] = s /\ \A j \in Ids \ {i} : mem'[j] = mem[j] BY <1>e, <1>m
  <2>3. ASSUME i \in Once PROVE OnceOf(i)'
    <3>1. OnceOf(i) BY <1>i, <2>3
    <3>2. row[i] # "none" => ~Unspent(mem[i])
      BY <1>e, <2>1, <2>3, AgainHolds
    <3>3. row[i] # "none" => ~Unspent(s) BY <3>2, <1>e DEF Unspent
    <3>4. \A k \in Tasks : \/ task'[i][k] = task[i][k]
                           \/ task'[i][k] = "cancelled"
                           \/ task[i][k] = "emit" /\ task'[i][k] = "late"
      BY <1>e, <1>u
    <3>5. Timely(i)' BY <1>e, <3>1, <3>4 DEF OnceOf, Timely
    <3>6. OneEmit(i)' BY <1>e, <3>1, <3>4 DEF OnceOf, OneEmit
    <3>7. Again(i)' BY <1>e, <2>2, <3>3 DEF Again
    <3>8. OnFile(i)' BY <1>e, <2>2, <3>1, <3>3 DEF OnceOf, OnFile
    <3>9. Served(i)' BY <1>e, <2>1, <2>2, <3>1, <3>2, <3>3 DEF OnceOf, Served, Unspent
    <3> QED BY <3>5, <3>6, <3>7, <3>8, <3>9 DEF OnceOf
  <2>4. \A j \in Ids \ {i} : /\ task'[j] = task[j] /\ table'[j] = table[j]
                             /\ file'[j] = file[j] \/ file'[j] = mem[j]
    BY <1>e, <1>u, <2>2
  <2> QED BY <1>e, <2>1, <2>2, <2>3, <2>4, OnceElsewhere
<1>1. CASE Add(i)
  <2>1. /\ up /\ up' = up /\ starting' = starting \cup {i}
        /\ UNCHANGED <<row, table, task, reload, due>>
        /\ mem' = [mem EXCEPT ![i] = [there |-> TRUE, on |-> TRUE, fired |-> FALSE]]
        /\ want' = [want EXCEPT ![i] = "on"] /\ file' = mem'
        /\ want[i] = "never"
    BY <1>1, <1>s, SavedIsMem DEF Add, Save, OnLoop, Unfired
  <2>2. mem'[i].on /\ \A j \in Ids \ {i} : mem'[j] = mem[j] /\ want'[j] = want[j]
    BY <2>1, <1>m
  <2>3. ASSUME i \in Once PROVE OnceOf(i)'
    <3>1. row[i] = "none" BY <1>i, <2>1, <2>3 DEF OnceOf, Timely
    <3>2. Timely(i)' /\ OneEmit(i)' BY <1>i, <2>1, <2>3, <3>1 DEF OnceOf, Timely, OneEmit
    <3>3. Again(i)' /\ Served(i)' BY <2>1, <3>1 DEF Again, Served
    <3>4. OnFile(i)' BY <2>1, <2>2 DEF OnFile
    <3> QED BY <3>2, <3>3, <3>4 DEF OnceOf
  <2> QED BY <2>1, <2>2, <2>3, OnceElsewhere
<1>2. CASE RunStart(i)
  <2>1. /\ up /\ up' = up /\ i \in starting /\ starting' = starting \ {i}
        /\ StartLoops({i}) /\ UNCHANGED <<file, row, mem, reload, due, want>>
    BY <1>2 DEF RunStart, Unfired
  <2>2. /\ table[i] = 0 /\ i \in Enabled(mem) BY <1>i, <2>1 DEF LoopOf, Unstarted
  <2>3. Slot(i) \in Tasks
    <3>1. \E k \in Tasks : task[i][k] = "done" BY <2>1, <2>2 DEF StartLoops, Running
    <3> QED BY <3>1 DEF Slot
  <2>4. task'[i] = [task[i] EXCEPT ![Slot(i)] = "start"]
    BY <2>1, <2>2 DEF StartLoops, Running
  <2>5. \A k \in Tasks : task'[i][k] = IF k = Slot(i) THEN "start" ELSE task[i][k]
    BY <2>3, <2>4, <1>m
  <2>6. ASSUME i \in Once PROVE OnceOf(i)'
    <3>1. OnceOf(i) BY <1>i, <2>6
    <3>2. Timely(i)' /\ OneEmit(i)' BY <2>1, <2>5, <3>1 DEF OnceOf, Timely, OneEmit
    <3>3. row[i] # "none" => ~Unspent(mem[i]) BY <2>1, <2>6, AgainHolds
    <3>4. Again(i)' BY <2>1, <3>3 DEF Again
    <3>5. OnFile(i)' BY <2>1, <2>2, <3>1 DEF OnceOf, OnFile, Enabled
    <3>6. Served(i)' BY <2>1, <3>1 DEF OnceOf, Served
    <3> QED BY <3>2, <3>4, <3>5, <3>6 DEF OnceOf
  <2>7. \A j \in Ids \ {i} : task'[j] = task[j] /\ table'[j] = table[j]
    BY <2>1 DEF StartLoops
  <2> QED BY <2>1, <2>6, <2>7, OnceElsewhere
<1>o. ASSUME NEW on \in BOOLEAN
      PROVE  LET s == [mem[i] EXCEPT !.on = on]
             IN  /\ s \in Entry /\ s.there = mem[i].there /\ s.fired = mem[i].fired
                 /\ s.on = on
  BY <1>m, SMTT(20) DEF Entry
<1>3. ASSUME NEW on \in BOOLEAN, UserToggles(i, on) PROVE \A j \in Once : OnceOf(j)'
  <2> DEFINE s == [mem[i] EXCEPT !.on = on]
  <2>1. /\ OnLoop /\ up' = up /\ UNCHANGED <<row, reload, due>>
        /\ mem' = [mem EXCEPT ![i] = s]
    BY <1>3 DEF UserToggles
  <2>2. file' = mem' BY <1>3, <1>s, SavedIsMem DEF UserToggles
  <2>3. /\ Unplug(i) \/ UNCHANGED <<table, task>>
        /\ starting' \subseteq starting \cup {i}
    BY <1>3 DEF UserToggles
  <2>4. s \in Entry /\ s.there = mem[i].there /\ s.fired = mem[i].fired BY <1>o
  <2>5. want'[i] # "never" /\ \A j \in Ids \ {i} : want'[j] = want[j]
    BY <1>3, <1>m DEF UserToggles
  <2> HIDE DEF s
  <2> QED BY <1>e, <2>1, <2>2, <2>3, <2>4, <2>5
<1>4. CASE AgentRemoves(i)
  <2>1. /\ InThread(i) /\ up' = up /\ UNCHANGED <<file, row, reload, due, starting>>
        /\ mem' = [mem EXCEPT ![i] = Absent] /\ Unplug(i)
        /\ want' = [want EXCEPT ![i] = "asked"]
    BY <1>4 DEF AgentRemoves
  <2>2. Absent \in Entry /\ ~Absent.there /\ ~Absent.on /\ ~Absent.fired
    BY AbsentType DEF Absent
  <2>3. up BY <2>1 DEF InThread
  <2>4. ASSUME i \in Once PROVE OnceOf(i)'
    <3>1. OnceOf(i) BY <1>i, <2>4
    <3>2. row[i] # "none" => ~Unspent(mem[i])
      BY <2>1, <2>3, <2>4, AgainHolds
    <3>3. row[i] \in {"queued", "done"} => ~mem[i].there
      BY <3>1, <3>2 DEF OnceOf, Served
    <3>n. mem[i].there BY <2>1 DEF InThread
    <3>4. mem'[i] = Absent /\ want'[i] # "never" BY <2>1, <1>m
    <3>5. Timely(i)' BY <2>1, <3>1, <3>4, <1>u DEF OnceOf, Timely
    <3>6. OneEmit(i)' BY <2>1, <3>1, <1>u DEF OnceOf, OneEmit
    <3>7. Again(i)' BY <3>4, <2>2 DEF Again, Unspent
    <3>8. OnFile(i)' BY <2>1, <2>2, <3>1, <3>4 DEF OnceOf, OnFile
    <3>9. Served(i)' BY <2>1, <3>3, <3>n DEF Served
    <3> QED BY <3>5, <3>6, <3>7, <3>8, <3>9 DEF OnceOf
  <2>5. \A j \in Ids \ {i} : /\ task'[j] = task[j] /\ table'[j] = table[j]
                             /\ mem'[j] = mem[j] /\ want'[j] = want[j]
    BY <2>1, <1>u, <1>m
  <2> QED BY <2>1, <2>3, <2>4, <2>5, OnceElsewhere
<1>5. CASE AgentDisables(i)
  <2> DEFINE s == [mem[i] EXCEPT !.on = FALSE]
  <2>1. /\ InThread(i) /\ up' = up /\ UNCHANGED <<file, row, reload, due, starting>>
        /\ mem' = [mem EXCEPT ![i] = s] /\ Unplug(i)
        /\ want' = [want EXCEPT ![i] = "asked"]
    BY <1>5 DEF AgentDisables
  <2>2. s \in Entry /\ s.there = mem[i].there /\ s.fired = mem[i].fired /\ ~s.on
    BY <1>o
  <2> HIDE DEF s
  <2> QED BY <1>e, <2>1, <2>2, <1>m
<1>6. CASE AgentEnables(i)
  <2> DEFINE s == [mem[i] EXCEPT !.on = TRUE]
  <2>1. /\ InThread(i) /\ up' = up /\ UNCHANGED <<row, reload, due, starting, table, task>>
        /\ mem' = [mem EXCEPT ![i] = s] /\ want' \in {want, [want EXCEPT ![i] = "on"]}
    BY <1>6 DEF AgentEnables
  <2>2. s \in Entry /\ s.there = mem[i].there /\ s.fired = mem[i].fired
    BY <1>o
  <2> HIDE DEF s
  <2>3. want[i] # "never" BY <1>i, <2>1 DEF LoopOf, Unstarted, InThread
  <2>4. file' = mem' \/ (file' = file /\ table[i] = 0)
    BY <1>6, <1>s, SavedIsMem DEF AgentEnables, Save
  <2>5. starting = {} BY <2>1 DEF InThread, NextInLine, Saving
  <2> QED BY <1>e, <2>1, <2>2, <2>3, <2>4, <2>5, <1>m
<1>7. CASE ThreadSaves(i)
  <2>1. /\ up /\ up' = up /\ UNCHANGED <<row, mem, table, task, starting, reload, due>>
        /\ want' = [want EXCEPT ![i] = pending[i]] /\ file' = mem
    BY <1>7, <1>s, SavedIsMem DEF ThreadSaves, Save
  <2>2. ASSUME i \in Once PROVE OnceOf(i)'
    <3>1. OnceOf(i) BY <1>i, <2>2
    <3>2. Timely(i)' /\ OneEmit(i)' /\ Again(i)'
      BY <2>1, <3>1, <1>m DEF OnceOf, Timely, OneEmit, Again
    <3>3. OnFile(i)' BY <2>1, <3>1 DEF OnceOf, OnFile, Again
    <3>4. Served(i)' BY <2>1, <3>1 DEF OnceOf, Served, Unspent
    <3> QED BY <3>2, <3>3, <3>4 DEF OnceOf
  <2>3. \A j \in Ids \ {i} : want'[j] = want[j] BY <2>1, <1>m
  <2> QED BY <2>1, <2>2, <2>3, OnceElsewhere
<1> QED BY <1>1, <1>2, <1>3, <1>4, <1>5, <1>6, <1>7

LEMMA OnceLoops ==
    ASSUME OnceInv, Saving, NEW i \in Ids, NEW k \in Tasks,
           \/ LoopLooks(i, k) \/ Wakes(i, k) \/ Fire(i, k)
           \/ FireDeduped(i, k) \/ FireEnds(i, k) \/ CancelledLeaves(i, k)
    PROVE  \A j \in Once : OnceOf(j)'
<1>m. /\ mem \in [Ids -> Entry] /\ file \in [Ids -> Entry]
      /\ row \in [Ids -> {"none", "committed", "queued", "done"}]
      /\ table \in [Ids -> {0} \cup Tasks] /\ task \in [Ids -> [Tasks -> Stages]]
      /\ 0 \notin Tasks
  BY DEF OnceInv, LoopInv, TypeOK, Tasks
<1>i. LoopOf(i) /\ (i \in Once => OnceOf(i)) BY DEF OnceInv, LoopInv
<1>s. "save_fails" \notin Env BY DEF Saving
<1>1. /\ up /\ up' = up /\ UNCHANGED <<table, starting, reload, want, due>>
      /\ \A j \in Ids \ {i} : /\ mem'[j] = mem[j] /\ row'[j] = row[j]
                              /\ file'[j] = file[j] \/ file'[j] = mem[j]
  BY <1>m DEF LoopLooks, Wakes, Fire, FireDeduped, FireEnds, CancelledLeaves,
              FiresAt, Unfired, Popped, Counted, Save, SaveOver, Inserts
<1>2. PICK stage : Moves(i, k, stage)
  BY DEF LoopLooks, Wakes, Fire, FireDeduped, FireEnds, CancelledLeaves
<1>3. /\ task'[i] = [task[i] EXCEPT ![k] = stage]
      /\ \A j \in Ids \ {i} : task'[j] = task[j]
  BY <1>2, <1>m DEF Moves
<1>4. \A l \in Tasks : task'[i][l] = IF l = k THEN stage ELSE task[i][l]
  BY <1>3, <1>m
<1>5. ASSUME i \in Once PROVE OnceOf(i)'
  <2>i. OnceOf(i) /\ i \in Ids BY <1>i, <1>5
  <2>1. CASE LoopLooks(i, k) \/ Wakes(i, k) \/ CancelledLeaves(i, k)
    <3>1. /\ UNCHANGED <<file, row, mem>> BY <2>1 DEF LoopLooks, Wakes, CancelledLeaves
    <3>2. stage \in {"sleep", "done"}
      <4>1. Moves(i, k, "sleep") \/ Moves(i, k, "done")
        BY <2>1 DEF LoopLooks, Wakes, CancelledLeaves
      <4>2. task'[i][k] \in {"sleep", "done"} BY <4>1, <1>m DEF Moves
      <4> QED BY <4>2, <1>4
    <3>3. Timely(i)' /\ OneEmit(i)'
      BY <2>i, <1>1, <1>4, <3>1, <3>2 DEF OnceOf, Timely, OneEmit
    <3>4. OnFile(i)' /\ Served(i)' BY <2>i, <1>1, <3>1 DEF OnceOf, OnFile, Served
    <3>5. Again(i)'
      <4> SUFFICES ASSUME row[i] # "none", Unspent(mem[i])
                   PROVE  /\ mem[i].on /\ ~reload.on
                          /\ table[i] # 0 /\ task'[i][table[i]] = "start"
        BY <1>1, <3>1 DEF Again
      <4>1. /\ mem[i].on /\ ~reload.on /\ table[i] # 0 /\ task[i][table[i]] = "start"
            /\ i \in due
        BY <2>i, <1>1 DEF OnceOf, Again, Timely
      <4>2. table[i] \in Tasks BY <4>1, <1>m
      <4>3. table[i] # k
        BY <4>1, <2>1, <2>i
        DEF LoopLooks, Wakes, CancelledLeaves, Awake, AtTop, Enabled, Unspent
      <4> QED BY <4>1, <4>2, <4>3, <1>4
    <3> QED BY <3>3, <3>4, <3>5 DEF OnceOf
  <2>2. CASE Fire(i, k)
    <3>1. /\ Awake(i, k) /\ mem[i].there /\ mem[i].on /\ ~Active(i)
          /\ mem' = [mem EXCEPT ![i].fired = TRUE] /\ file' = file
      BY <2>2, <1>5 DEF Fire, FiresAt, Enabled, Counted
    <3>2. row[i] = "none"
      BY <3>1, <2>i, <1>m DEF OnceOf, Served, Active
    <3>3. task[i][k] \in Live /\ table[i] = k
      BY <3>1, <1>i DEF Awake, AtTop, Live, Stages, LoopOf, Plugged
    <3>4. i \in due BY <3>1, <2>i DEF Awake, OnceOf, Timely
    <3>5. \/ row'[i] = "committed" /\ stage = "emit"
          \/ row'[i] = "none" /\ stage = "pause"
      <4>1. \/ Inserts(i) /\ Moves(i, k, "emit")
            \/ Moves(i, k, "pause") /\ row' = row
        BY <2>2 DEF Fire
      <4>2. task'[i][k] = stage BY <1>4
      <4>3. CASE Inserts(i) /\ Moves(i, k, "emit")
        BY <4>2, <4>3, <1>5, <2>i, <1>m DEF Inserts, Moves
      <4>4. CASE Moves(i, k, "pause") /\ row' = row
        BY <4>2, <4>4, <3>2, <2>i, <1>m DEF Moves
      <4> QED BY <4>1, <4>3, <4>4
    <3>6. mem'[i].fired
      <4>1. mem'[i] = [mem[i] EXCEPT !.fired = TRUE] BY <3>1, <1>m, <2>i
      <4>2. mem[i] \in Entry BY <1>m, <2>i
      <4> QED BY <4>1, <4>2 DEF Entry
    <3>7. want[i] # "never" BY <3>1, <1>i DEF LoopOf, Unstarted
    <3>8. Timely(i)' BY <1>1, <1>4, <2>i, <3>4, <3>5, <3>7 DEF OnceOf, Timely
    <3>9. OneEmit(i)'
      BY <1>4, <2>i, <3>2, <3>5 DEF OnceOf, OneEmit
    <3>10. Again(i)' BY <3>6 DEF Again, Unspent
    <3>11. ~(Unspent(file[i]) /\ ~file[i].on)
      BY <2>i, <3>1, <3>3, <1>m DEF OnceOf, OnFile
    <3>12. OnFile(i)' BY <3>1, <3>11 DEF OnFile
    <3>13. Served(i)' BY <3>5 DEF Served
    <3> QED BY <3>8, <3>9, <3>10, <3>12, <3>13 DEF OnceOf
  <2>3. CASE FireDeduped(i, k) \/ FireEnds(i, k)
    <3>1. mem' = [mem EXCEPT ![i] = Absent] /\ file' = mem'
      BY <2>3, <1>5, <1>s, SavedIsMem DEF FireDeduped, FireEnds, Save, Popped
    <3>2. mem'[i] = Absent /\ file'[i] = Absent BY <3>1, <1>m, <2>i
    <3>3. ~Unspent(Absent) /\ ~Absent.there BY DEF Unspent, Absent
    <3>4. Again(i)' /\ OnFile(i)' /\ Served(i)'
      BY <3>2, <3>3 DEF Again, OnFile, Served
    <3>5. stage \in {"pause", "done"}
      <4>1. Moves(i, k, "pause") \/ Moves(i, k, "done")
        BY <2>3 DEF FireDeduped, FireEnds
      <4>2. task'[i][k] \in {"pause", "done"} BY <4>1, <1>m, <2>i DEF Moves
      <4> QED BY <4>2, <1>4
    <3>6. CASE FireDeduped(i, k)
      <4>1. row' = row BY <3>6 DEF FireDeduped
      <4>2. Timely(i)' /\ OneEmit(i)'
        BY <1>1, <1>4, <2>i, <3>5, <4>1 DEF OnceOf, Timely, OneEmit
      <4> QED BY <3>4, <4>2 DEF OnceOf
    <3>7. CASE FireEnds(i, k)
      <4>1. row'[i] = "queued" /\ task[i][k] \in {"emit", "late"}
        BY <3>7, <1>5, <1>m, <2>i DEF FireEnds
      <4>2. row[i] = "committed" /\ \A l \in Tasks \ {k} : task[i][l] \notin {"emit", "late"}
        BY <2>i, <4>1 DEF OnceOf, OneEmit
      <4>3. Timely(i)' BY <1>1, <1>4, <2>i, <3>5, <4>2 DEF OnceOf, Timely
      <4>4. OneEmit(i)' BY <1>4, <3>5, <4>2 DEF OneEmit
      <4> QED BY <3>4, <4>3, <4>4 DEF OnceOf
    <3> QED BY <2>3, <3>6, <3>7
  <2> QED BY <2>1, <2>2, <2>3
<1> QED BY <1>1, <1>3, <1>5, OnceElsewhere

\* A reload or a start loads what is on file, and each loop looks before
\* anything else happens.
LEMMA OnceLoads ==
    ASSUME OnceInv, NEW i \in Once, table[i] = 0, starting = {},
           mem' = Loaded, StartLoops(Enabled(Loaded)), reload' = NoReload, up',
           row'[i] = row[i] \/ (row[i] = "committed" /\ row'[i] = "queued"),
           \A k \in Tasks : task[i][k] \in {"emit", "late"} => row'[i] = row[i],
           UNCHANGED <<file, want, due, starting>>
    PROVE  OnceOf(i)'
<1>i. OnceOf(i) /\ LoopOf(i) /\ i \in Ids BY DEF OnceInv, LoopInv, Ids
<1>m. task \in [Ids -> [Tasks -> Stages]] /\ 0 \notin Tasks
      /\ row \in [Ids -> {"none", "committed", "queued", "done"}]
  BY DEF OnceInv, LoopInv, TypeOK, Tasks
<1>1. mem'[i] = IF file[i].fired THEN Absent ELSE file[i] BY <1>i DEF Loaded
<1>2. /\ Unspent(mem'[i]) <=> Unspent(file[i])
      /\ mem'[i].there => Unspent(mem'[i]) /\ mem'[i] = file[i]
  BY <1>1 DEF Unspent, Absent
<1>n. row'[i] = "none" <=> row[i] = "none" OBVIOUS
<1>3. ASSUME i \in Enabled(Loaded)
      PROVE  /\ Slot(i) \in Tasks /\ table'[i] = Slot(i)
             /\ \A k \in Tasks : task'[i][k] = IF k = Slot(i) THEN "start" ELSE task[i][k]
  <2>1. ~Running(i) BY DEF Running
  <2>2. Slot(i) \in Tasks
    <3>1. \E k \in Tasks : task[i][k] = "done" BY <1>3, <2>1 DEF StartLoops
    <3> QED BY <3>1 DEF Slot
  <2>3. task'[i] = [task[i] EXCEPT ![Slot(i)] = "start"] /\ table'[i] = Slot(i)
    BY <1>3, <1>i, <2>1 DEF StartLoops
  <2> QED BY <2>2, <2>3, <1>i, <1>m
<1>4. ASSUME i \notin Enabled(Loaded) PROVE task'[i] = task[i] /\ table'[i] = table[i]
  BY <1>4, <1>i DEF StartLoops
<1>5. \A k \in Tasks : task'[i][k] = task[i][k] \/ task'[i][k] = "start"
  BY <1>3, <1>4
<1>6. Timely(i)' BY <1>i, <1>5, <1>n DEF OnceOf, Timely
<1>7. OneEmit(i)'
  BY <1>i, <1>5 DEF OnceOf, OneEmit
<1>8. Again(i)'
  <2> SUFFICES ASSUME row'[i] # "none", Unspent(mem'[i])
               PROVE  /\ mem'[i].on /\ ~reload'.on
                      /\ table'[i] # 0 /\ task'[i][table'[i]] = "start"
    BY DEF Again
  <2>1. Unspent(file[i]) /\ mem'[i] = file[i] BY <1>2 DEF Unspent
  <2>2. file[i].on BY <1>i, <1>n, <2>1 DEF OnceOf, OnFile
  <2>3. i \in Enabled(Loaded) BY <1>i, <2>1, <2>2 DEF Enabled, Unspent
  <2> QED BY <1>3, <1>m, <2>1, <2>2, <2>3 DEF NoReload
<1>9. OnFile(i)'
  <2> SUFFICES ASSUME Unspent(file[i]), ~file[i].on
               PROVE  row[i] = "none" /\ ~mem'[i].on
    BY <1>n DEF OnFile
  <2>1. mem'[i] = file[i] BY <1>1 DEF Unspent
  <2> QED BY <1>i, <2>1 DEF OnceOf, OnFile
<1>10. Served(i)'
  BY <1>i, <1>2 DEF OnceOf, Served, Unspent
<1> QED BY <1>6, <1>7, <1>8, <1>9, <1>10 DEF OnceOf

LEMMA OnceStep == Saving /\ OnceInv /\ [Next]_vars => OnceInv'
<1> SUFFICES ASSUME Saving, OnceInv, [Next]_vars PROVE OnceInv' OBVIOUS
<1>l. LoopInv' BY LoopStepInv DEF OnceInv, Saving, Gapless
<1> SUFFICES \A i \in Once : OnceOf(i)' BY <1>l DEF OnceInv
<1>t. TypeOK /\ TypeOK' BY <1>l DEF OnceInv, LoopInv
<1>m. /\ table \in [Ids -> {0} \cup Tasks] /\ task \in [Ids -> [Tasks -> Stages]]
      /\ row \in [Ids -> {"none", "committed", "queued", "done"}]
      /\ reload \in [on : BOOLEAN, todo : SUBSET Ids, at : SUBSET Ids] /\ 0 \notin Tasks
  BY <1>t DEF TypeOK, Tasks
<1>u. ASSUME UNCHANGED <<file, row, up, mem, table, task, starting, reload, due, want>>
      PROVE  \A i \in Once : OnceOf(i)'
  BY <1>u DEF OnceInv, OnceOf, Timely, OneEmit, Again, OnFile, Served
<1>1. ASSUME NEW i \in Ids, Due(i) PROVE \A j \in Once : OnceOf(j)'
  <2> SUFFICES ASSUME NEW j \in Once PROVE OnceOf(j)' OBVIOUS
  <2>1. OnceOf(j) /\ j \in Ids BY DEF OnceInv, Ids
  <2>2. UNCHANGED <<file, row, up, mem, table, starting, reload, want>> BY <1>1 DEF Due
  <2>3. ASSUME NEW k \in Tasks
        PROVE  task'[j][k] = task[j][k]
               \/ (task[j][k] = "sleep" /\ task'[j][k] = "ready" /\ j \in due')
    BY <1>1, <1>m, <2>1 DEF Due
  <2>4. due \subseteq due' BY <1>1 DEF Due
  <2>5. Timely(j)' BY <2>1, <2>2, <2>3, <2>4 DEF OnceOf, Timely
  <2>6. OneEmit(j)' BY <2>1, <2>2, <2>3 DEF OnceOf, OneEmit
  <2>7. table[j] # 0 => table[j] \in Tasks BY <1>m, <2>1
  <2>8. Again(j)' BY <2>1, <2>2, <2>3, <2>7 DEF OnceOf, Again
  <2>9. OnFile(j)' /\ Served(j)' BY <2>1, <2>2 DEF OnceOf, OnFile, Served
  <2> QED BY <2>5, <2>6, <2>8, <2>9 DEF OnceOf
<1>2. ASSUME NEW i \in Ids, RowDone(i) PROVE \A j \in Once : OnceOf(j)'
  <2>1. /\ up /\ up' = up /\ OnLoop /\ row[i] = "queued" /\ row' = [row EXCEPT ![i] = "done"]
        /\ UNCHANGED <<file, mem, table, task, starting, reload, due, want>>
    BY <1>2 DEF RowDone, process, OnLoop, Unfired
  <2>2. ASSUME i \in Once PROVE OnceOf(i)'
    <3>1. OnceOf(i) BY <2>2 DEF OnceInv
    <3>2. ~Unspent(mem[i]) BY <2>1, <2>2, AgainHolds
    <3>3. row'[i] = "done" BY <2>1, <1>m
    <3>4. ~mem[i].there /\ ~Unspent(file[i])
      BY <2>1, <3>1, <3>2 DEF OnceOf, Served
    <3>5. \A k \in Tasks : task[i][k] \notin {"emit", "late"}
      BY <2>1, <3>1 DEF OnceOf, OneEmit
    <3> QED BY <2>1, <3>1, <3>3, <3>4, <3>5
            DEF OnceOf, Timely, OneEmit, Again, OnFile, Served, Unspent
  <2>3. \A j \in Ids \ {i} : row'[j] = row[j] BY <2>1, <1>m
  <2> QED BY <2>1, <2>2, <2>3, OnceElsewhere
<1>3. CASE Crash
  <2> SUFFICES ASSUME NEW j \in Once PROVE OnceOf(j)' OBVIOUS
  <2>1. OnceOf(j) /\ j \in Ids BY DEF OnceInv, Ids
  <2>2. /\ mem'[j] = Absent /\ task'[j] = [k \in Tasks |-> "done"] /\ ~up'
        /\ UNCHANGED <<file, row, due, want>>
    BY <1>3, <2>1 DEF Crash, Idle
  <2>3. ~Absent.there /\ ~Unspent(Absent) BY DEF Absent, Unspent
  <2> QED BY <2>1, <2>2, <2>3 DEF OnceOf, Timely, OneEmit, Again, OnFile, Served
<1>4. CASE Boot
  <2> SUFFICES ASSUME NEW j \in Once PROVE OnceOf(j)' OBVIOUS
  <2>1. OnceOf(j) /\ LoopOf(j) /\ j \in Ids BY DEF OnceInv, LoopInv, Ids
  <2>2. /\ ~up /\ up' /\ mem' = Loaded /\ StartLoops(Enabled(Loaded))
        /\ row'[j] = IF row[j] = "committed" THEN "queued" ELSE row[j]
        /\ UNCHANGED <<file, starting, reload, due, want>>
    BY <1>4, <2>1 DEF Boot
  <2>3. /\ table[j] = 0 /\ starting = {} /\ ~reload.on
        /\ \A k \in Tasks : task[j][k] = "done"
    BY <2>1, <2>2 DEF LoopOf, Unstarted, Plugged
  <2>4. \A i \in Ids : i \notin reload.at /\ i \notin reload.todo
    BY <2>3 DEF OnceInv, LoopInv, LoopOf, Stopping
  <2>5. reload = NoReload BY <2>3, <2>4, <1>m DEF NoReload
  <2>6. row'[j] = row[j] \/ (row[j] = "committed" /\ row'[j] = "queued") BY <2>2
  <2>7. \A k \in Tasks : task[j][k] \in {"emit", "late"} => row'[j] = row[j] BY <2>3
  <2> QED BY <2>2, <2>3, <2>5, <2>6, <2>7, OnceLoads
<1>5. CASE Reload
  <2>1. CASE ReloadLoads
    <3>1. /\ up /\ up' = up /\ reload.on /\ reload.todo = {} /\ reload.at = {}
          /\ mem' = Loaded /\ StartLoops(Enabled(Loaded)) /\ reload' = NoReload
          /\ UNCHANGED <<file, row, starting, due, want>>
      BY <2>1 DEF ReloadLoads, Unfired
    <3>2. ASSUME NEW j \in Once PROVE table[j] = 0 /\ starting = {}
      BY <3>1 DEF OnceInv, LoopInv, LoopOf, Stopping, Ids
    <3>3. ASSUME NEW j \in Once PROVE OnceOf(j)'
      <4>1. table[j] = 0 /\ starting = {} BY <3>2
      <4>2. row'[j] = row[j] /\ up' BY <3>1
      <4> QED BY <3>1, <4>1, <4>2, OnceLoads
    <3> QED BY <3>3
  \* Before that no task with a row is loaded.
  <2>f. ASSUME NEW i \in Ids, up, UNCHANGED <<file, row, up, mem, starting, due, want>>,
               table' \in {table, [table EXCEPT ![i] = 0]},
               \A j \in Ids, k \in Tasks : \/ task'[j][k] = task[j][k]
                                           \/ task'[j][k] = "cancelled"
                                           \/ task[j][k] = "emit" /\ task'[j][k] = "late",
               reload.on \/ OnLoop
        PROVE  \A j \in Once : OnceOf(j)'
    <3> SUFFICES ASSUME NEW j \in Once PROVE OnceOf(j)' OBVIOUS
    <3>1. OnceOf(j) /\ j \in Ids BY DEF OnceInv, Ids
    <3>2. row[j] # "none" => ~Unspent(mem[j])
      BY <2>f, <3>1, AgainHolds DEF OnceOf, Again
    <3>3. table'[j] \in {table[j], 0} BY <2>f, <3>1, <1>m
    <3>4. Timely(j)' BY <2>f, <3>1 DEF OnceOf, Timely
    <3>5. OneEmit(j)' BY <2>f, <3>1 DEF OnceOf, OneEmit
    <3>6. Again(j)' BY <2>f, <3>2 DEF Again
    <3>7. OnFile(j)' BY <2>f, <3>1, <3>3 DEF OnceOf, OnFile
    <3>8. Served(j)' BY <2>f, <3>1 DEF OnceOf, Served
    <3> QED BY <3>4, <3>5, <3>6, <3>7, <3>8 DEF OnceOf
  <2>2. CASE ReloadBegins
    <3>1. up /\ OnLoop /\ UNCHANGED <<file, row, up, mem, table, task, starting, due, want>>
      BY <2>2 DEF ReloadBegins, OnLoop, Unfired
    <3>2. CASE Ids = {} BY <3>2 DEF Ids
    <3>3. CASE Ids # {} BY <3>1, <3>3, <2>f
    <3> QED BY <3>2, <3>3
  <2>3. ASSUME NEW i \in Ids, ReloadCancels(i) PROVE \A j \in Once : OnceOf(j)'
    <3>1. /\ up /\ reload.on /\ UNCHANGED <<file, row, up, mem, table, starting, due, want>>
      BY <2>3 DEF ReloadCancels, Unfired, OnceInv, LoopInv, LoopOf, Stopping
    <3>2. CASE table[i] = 0 BY <2>3, <3>1, <3>2, <2>f DEF ReloadCancels
    <3>3. CASE table[i] # 0
      <4> DEFINE stage == Cancelled(task[i][table[i]])
      <4>1. task' = [task EXCEPT ![i][table[i]] = stage] BY <2>3, <3>3 DEF ReloadCancels
      <4>2. table[i] \in Tasks BY <3>3, <1>m
      <4>3. \/ stage = task[i][table[i]] \/ stage = "cancelled"
            \/ task[i][table[i]] = "emit" /\ stage = "late"
        BY DEF Cancelled
      <4> HIDE DEF stage
      <4>4. \A j \in Ids, k \in Tasks :
               \/ task'[j][k] = task[j][k] \/ task'[j][k] = "cancelled"
               \/ task[j][k] = "emit" /\ task'[j][k] = "late"
        BY <4>1, <4>2, <4>3, <1>m
      <4> QED BY <3>1, <4>4, <2>f
    <3> QED BY <3>2, <3>3
  <2>4. ASSUME NEW i \in Ids, ReloadStopped(i) PROVE \A j \in Once : OnceOf(j)'
    <3>1. /\ up /\ reload.on /\ UNCHANGED <<file, row, up, mem, task, starting, due, want>>
          /\ table' = [table EXCEPT ![i] = 0]
      BY <2>4 DEF ReloadStopped, OnceInv, LoopInv, LoopOf, Stopping
    <3> QED BY <3>1, <2>f
  <2> QED BY <1>5, <2>1, <2>2, <2>3, <2>4 DEF Reload
<1>6. CASE UNCHANGED vars BY <1>6, <1>u DEF vars, process
<1> QED
  BY <1>1, <1>2, <1>3, <1>4, <1>5, <1>6, OnceRequests, OnceLoops DEF Next, LoopStep

\* The work of a one-time task is done once, through reloads, restarts and a
\* crash between the row and the save, as long as the file takes what is written
\* and nothing gets between the steps of a reload (manager.py, _fire_schedule;
\* sources.py, scheduled_once_dedup_key).
THEOREM OneFireEver == ASSUME Saving PROVE Spec => FiresOnce
<1>1. Init => OnceInv BY OnceInit
<1>2. OnceInv /\ [Next]_vars => OnceInv' BY OnceStep
<1>3. OnceInv /\ [Next]_vars =>
        [\A i \in Once : row[i] = "done" => row'[i] = "done"]_vars
  <2> SUFFICES ASSUME OnceInv, [Next]_vars, NEW i \in Once, row[i] = "done"
               PROVE  row'[i] = "done"
    OBVIOUS
  <2>1. OnceOf(i) /\ ~mem[i].there /\ i \in Ids
    BY DEF OnceInv, OnceOf, Served, Ids
  <2>r. row \in [Ids -> {"none", "committed", "queued", "done"}]
    BY DEF OnceInv, LoopInv, TypeOK
  <2>2. ASSUME NEW j \in Ids, NEW k \in Tasks, Fire(j, k) PROVE row'[i] = "done"
    <3>1. j # i BY <2>1, <2>2 DEF Fire, FiresAt, Enabled
    <3> QED BY <2>2, <2>r, <3>1, <2>1 DEF Fire, Inserts
  <2>3. ASSUME NEW j \in Ids, NEW k \in Tasks, FireEnds(j, k) PROVE row'[i] = "done"
    <3>1. j # i BY <2>1, <2>3 DEF FireEnds, OnceOf, OneEmit
    <3> QED BY <2>3, <2>r, <3>1, <2>1 DEF FireEnds
  <2>4. ASSUME NEW j \in Ids, RowDone(j) PROVE row'[i] = "done"
    BY <2>4, <2>r, <2>1 DEF RowDone
  <2>5. CASE Boot BY <2>5, <2>1 DEF Boot
  <2>6. ASSUME row' = row PROVE row'[i] = "done" BY <2>6
  <2>7. CASE Reload \/ Crash \/ UNCHANGED vars
    BY <2>6, <2>7 DEF Reload, ReloadBegins, ReloadCancels, ReloadStopped,
                      ReloadLoads, Crash, vars
  <2>8. ASSUME NEW j \in Ids,
               \/ Add(j) \/ RunStart(j) \/ UserToggles(j, TRUE)
               \/ UserToggles(j, FALSE) \/ AgentRemoves(j) \/ AgentDisables(j)
               \/ AgentEnables(j) \/ ThreadSaves(j) \/ Due(j)
        PROVE  row' = row
    BY <2>8 DEF Add, RunStart, UserToggles, AgentRemoves, AgentDisables,
                AgentEnables, ThreadSaves, Due
  <2>9. ASSUME NEW j \in Ids, NEW k \in Tasks,
               \/ LoopLooks(j, k) \/ Wakes(j, k) \/ FireDeduped(j, k)
               \/ CancelledLeaves(j, k)
        PROVE  row' = row
    BY <2>9 DEF LoopLooks, Wakes, FireDeduped, CancelledLeaves
  <2> QED
    BY <2>2, <2>3, <2>4, <2>5, <2>6, <2>7, <2>8, <2>9 DEF Next, LoopStep
<1> QED BY <1>1, <1>2, <1>3, PTL DEF Spec, FiresOnce
=============================================================================
