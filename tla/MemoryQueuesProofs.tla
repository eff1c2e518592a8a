-------------------------- MODULE MemoryQueuesProofs --------------------------
(***************************************************************************)
(* No event leaves its queue before it was distilled, for any sessions and *)
(* bounds, as long as nothing touches the queue and staging files behind   *)
(* the event loop's back and no queue file outgrows its limit; and the     *)
(* freeze that a memory run puts on the queues ends with the run.          *)
(* What the user's stop leaves of the lane is shown by induction.          *)
(***************************************************************************)
EXTENDS MemoryQueues, WellFoundedInduction, TLAPS

-----------------------------------------------------------------------------
(* What a purge leaves of a queue, by induction on its length *)

\* A set of natural numbers has a least element.
LEMMA LeastNat ==
    ASSUME NEW T \in SUBSET Nat, T # {}
    PROVE  \E x \in T : \A y \in T : x <= y
<1>1. IsWellFoundedOn(OpToRel(<, Nat), Nat)
  BY NatLessThanWellFounded
<1>2. IsWellFoundedOn({ss \in Nat \X Nat : ss[1] < ss[2]}, Nat)
  BY <1>1 DEF OpToRel
<1>3. \E x \in T : \A y \in T : <<y, x>> \notin {ss \in Nat \X Nat : ss[1] < ss[2]}
  BY <1>2, WFMin
<1>4. PICK x \in T : \A y \in T : <<y, x>> \notin {ss \in Nat \X Nat : ss[1] < ss[2]}
  BY <1>3
<1>5. ASSUME NEW y \in T PROVE x <= y
  <2>1. ~ (y < x)
    BY <1>4
  <2> QED BY <2>1
<1> QED BY <1>5

\* Induction, for a set in place of a predicate.
LEMMA NatSet ==
    ASSUME NEW T \in SUBSET Nat, 0 \in T, \A n \in T : n + 1 \in T
    PROVE  T = Nat
<1> SUFFICES ASSUME T # Nat PROVE FALSE OBVIOUS
<1>1. PICK x \in Nat \ T : \A y \in Nat \ T : x <= y BY LeastNat, Nat \ T # {}
<1>2. x # 0 /\ x - 1 \in Nat OBVIOUS
<1>3. x - 1 \in T BY <1>1, <1>2
<1> QED BY <1>3, <1>1

\* One more trigger, unless it is a continuation.
Step(w, g, n) == IF w[n] \in Continuations THEN g[n - 1]
                 ELSE Append(g[n - 1], w[n])

\* g has purged the first k triggers of w.
PurgesTo(g, w, k, S) ==
    /\ g \in [0..k -> Seq(S)]
    /\ g[0] = <<>>
    /\ \A n \in 1..k : g[n] = Step(w, g, n)

\* Every prefix of a queue can be purged, step by step.
LEMMA PurgeExists ==
    ASSUME NEW S, NEW w \in Seq(S), NEW k \in Nat, k <= Len(w)
    PROVE  \E g : PurgesTo(g, w, k, S)
<1> DEFINE T == {i \in Nat : i <= Len(w) => \E g : PurgesTo(g, w, i, S)}
<1>1. 0 \in T
  <2> DEFINE e == [i \in 0..0 |-> <<>>]
  <2>1. e \in [0..0 -> Seq(S)] OBVIOUS
  <2>2. e[0] = <<>> OBVIOUS
  <2>3. \A n \in 1..0 : FALSE OBVIOUS
  <2> HIDE DEF e
  <2>4. PurgesTo(e, w, 0, S) BY <2>1, <2>2, <2>3 DEF PurgesTo
  <2> QED BY <2>4
<1>2. ASSUME NEW i \in T PROVE i + 1 \in T
  <2>0. i \in Nat OBVIOUS
  <2>1. ASSUME i + 1 <= Len(w) PROVE \E g : PurgesTo(g, w, i + 1, S)
    <3>1. i <= Len(w) BY <2>0, <2>1
    <3>2. PICK g : PurgesTo(g, w, i, S) BY <3>1
    <3> DEFINE next == IF w[i + 1] \in Continuations THEN g[i]
                       ELSE Append(g[i], w[i + 1])
               h == [n \in 0..(i + 1) |-> IF n = i + 1 THEN next ELSE g[n]]
    <3>3. w[i + 1] \in S /\ g[i] \in Seq(S) BY <2>0, <2>1, <3>2 DEF PurgesTo
    <3>4. next \in Seq(S) BY <3>3
    <3>5. h \in [0..(i + 1) -> Seq(S)] BY <3>4, <2>0, <3>2 DEF PurgesTo
    <3>6. h[0] = <<>> BY <2>0, <3>2 DEF PurgesTo
    <3>7. ASSUME NEW n \in 1..(i + 1) PROVE h[n] = Step(w, h, n)
      <4>1. n - 1 \in 0..i /\ h[n - 1] = g[n - 1] BY <2>0
      <4>2. CASE n = i + 1 BY <4>1, <4>2, <2>0 DEF Step
      <4>3. CASE n # i + 1
        <5>1. n \in 1..i /\ h[n] = g[n] BY <4>3, <2>0
        <5> QED BY <5>1, <4>1, <3>2 DEF Step, PurgesTo
      <4> QED BY <4>2, <4>3
    <3> HIDE DEF h
    <3>8. PurgesTo(h, w, i + 1, S) BY <3>5, <3>6, <3>7 DEF PurgesTo
    <3> QED BY <3>8
  <2> QED BY <2>0, <2>1
<1>3. T = Nat
  <2> HIDE DEF T
  <2>1. T \in SUBSET Nat BY DEF T
  <2> QED BY <1>1, <1>2, <2>1, NatSet
<1> QED BY <1>3

\* What purging k triggers leaves: at most as many, none of them of a run.
WellPurged(p, k, S) ==
    /\ p \in Seq(S)
    /\ Len(p) <= k
    /\ \A i \in 1..Len(p) : p[i] \notin Continuations

\* The function that Purged defines does that.
LEMMA PurgedFacts ==
    ASSUME NEW S, NEW w \in Seq(S)
    PROVE  WellPurged(Purged(w), Len(w), S)
<1> DEFINE kept == CHOOSE f : f = [n \in 0..Len(w) |->
            IF n = 0 THEN <<>>
            ELSE IF w[n] \in Continuations THEN f[n - 1]
            ELSE Append(f[n - 1], w[n])]
<1>0. Len(w) \in Nat OBVIOUS
<1>1. PICK g : PurgesTo(g, w, Len(w), S) BY PurgeExists, <1>0
<1>2. g = [n \in 0..Len(w) |->
            IF n = 0 THEN <<>>
            ELSE IF w[n] \in Continuations THEN g[n - 1]
            ELSE Append(g[n - 1], w[n])]
  <2>1. ASSUME NEW n \in 0..Len(w)
        PROVE  g[n] = IF n = 0 THEN <<>>
            ELSE IF w[n] \in Continuations THEN g[n - 1]
            ELSE Append(g[n - 1], w[n])
    <3>1. CASE n = 0 BY <3>1, <1>1 DEF PurgesTo
    <3>2. CASE n # 0
      <4>1. n \in 1..Len(w) BY <3>2, <1>0
      <4> QED BY <4>1, <3>2, <1>1 DEF PurgesTo, Step
    <3> QED BY <3>1, <3>2
  <2>2. g \in [0..Len(w) -> Seq(S)] BY <1>1 DEF PurgesTo
  <2> QED BY <2>1, <2>2
<1>3. kept = [n \in 0..Len(w) |->
            IF n = 0 THEN <<>>
            ELSE IF w[n] \in Continuations THEN kept[n - 1]
            ELSE Append(kept[n - 1], w[n])]
  BY <1>2
<1>4. Purged(w) = kept[Len(w)] BY DEF Purged
<1> HIDE DEF kept
<1> DEFINE T == {i \in Nat : i <= Len(w) => WellPurged(kept[i], i, S)}
<1>5. 0 \in T
  <2>1. kept[0] = <<>> BY <1>0, <1>3
  <2>2. WellPurged(<<>>, 0, S) BY DEF WellPurged
  <2> QED BY <2>1, <2>2
<1>6. ASSUME NEW i \in T PROVE i + 1 \in T
  <2>0. i \in Nat OBVIOUS
  <2>1. ASSUME i + 1 <= Len(w) PROVE WellPurged(kept[i + 1], i + 1, S)
    <3>1. WellPurged(kept[i], i, S) BY <2>0, <2>1
    <3>2. i + 1 \in 0..Len(w) /\ i + 1 # 0 /\ (i + 1) - 1 = i
      BY <2>0, <2>1, <1>0
    <3>3. kept[i + 1] = IF w[i + 1] \in Continuations THEN kept[i]
                        ELSE Append(kept[i], w[i + 1])
      BY <1>3, <3>2
    <3>4. w[i + 1] \in S BY <3>2
    <3>5. CASE w[i + 1] \in Continuations
      BY <2>0, <3>1, <3>3, <3>5 DEF WellPurged
    <3>6. CASE w[i + 1] \notin Continuations
      <4>1. kept[i + 1] = Append(kept[i], w[i + 1]) BY <3>3, <3>6
      <4> QED BY <4>1, <2>0, <3>1, <3>4, <3>6 DEF WellPurged
    <3> QED BY <3>5, <3>6
  <2> QED BY <2>0, <2>1
<1>7. T = Nat
  <2> HIDE DEF T
  <2>1. T \in SUBSET Nat BY DEF T
  <2> QED BY <1>5, <1>6, <2>1, NatSet
<1>8. Len(w) \in T BY <1>0, <1>7
<1> QED BY <1>4, <1>8, <1>0

-----------------------------------------------------------------------------
(* Types *)

\* The types of the files and of what memory knows of them ...
FileTypes ==
    /\ last \in 0..MaxEvents
    /\ queue \in [Sessions -> SUBSET (1..last)]
    /\ read \in [Sessions -> SUBSET (1..last)]
    /\ staging \in SUBSET (1..last)
    /\ staged \in BOOLEAN /\ (~staged => staging = {})
    /\ distilled \in SUBSET (1..last)
    /\ batch \in SUBSET distilled
    /\ edit \in [writing : BOOLEAN, left : SUBSET (1..last)]

\* ... of the agent ...
AgentTypes ==
    /\ alive \in SUBSET Sessions
    /\ snapshot \in SUBSET Sessions
    /\ frozen \in BOOLEAN
    /\ loop \in {"free", "prepare", "reconcile"}

\* ... of the main session's lane ...
LaneTypes ==
    /\ waiting \in Seq(Triggers)
    /\ asleep \in Continuations \cup {"none"}
    /\ group \in Seq(Triggers)

\* ... and of its run.
RunTypes == tagged \in BOOLEAN /\ paused \in BOOLEAN

\* A logged event is the next number, and may enter a queue.
LEMMA LogTypes ==
    ASSUME FileTypes, NEW s \in Sessions, Log(s)
    PROVE  /\ last' \in 0..MaxEvents
           /\ 1..last \subseteq 1..last'
           /\ queue' \in [Sessions -> SUBSET (1..last')]
<1>1. last' = last + 1 /\ last' \in 0..MaxEvents
  BY LimitsAssumption DEF FileTypes, Log
<1>2. 1..last \subseteq 1..last' /\ last + 1 \in 1..last'
  BY <1>1 DEF FileTypes
<1>3. queue \in [Sessions -> SUBSET (1..last')] BY <1>2 DEF FileTypes
<1>4. Rotated(queue[s]) \subseteq queue[s] BY DEF Rotated
<1>5. queue' \in [Sessions -> SUBSET (1..last')]
  <2>1. CASE UNCHANGED queue BY <1>3, <2>1
  <2>2. CASE queue' = [queue EXCEPT ![s] = @ \cup {last + 1}]
    BY <1>2, <1>3, <2>2
  <2>3. CASE queue' = [queue EXCEPT ![s] = Rotated(@) \cup {last + 1}]
    BY <1>2, <1>3, <1>4, <2>3
  <2> QED BY <2>1, <2>2, <2>3 DEF Log
<1> QED BY <1>1, <1>2, <1>5

\* The same for the messages a turn starts with.
LEMMA LogUserTypes ==
    ASSUME FileTypes, NEW w, LogUserMessages(w)
    PROVE  /\ last' \in 0..MaxEvents
           /\ 1..last \subseteq 1..last'
           /\ queue' \in [Sessions -> SUBSET (1..last')]
<1>1. CASE Log(Main) BY <1>1, LogTypes, MainAssumption
<1>2. CASE UNCHANGED <<last, queue>> BY <1>2 DEF FileTypes
<1> QED BY <1>1, <1>2 DEF LogUserMessages

\* Everything else that names events keeps its type while events are added.
LEMMA Grows ==
    ASSUME FileTypes,
           last' \in 0..MaxEvents, 1..last \subseteq 1..last',
           queue' \in [Sessions -> SUBSET (1..last')],
           UNCHANGED <<staging, staged, distilled, edit>>,
           read' \in {read, Nothing}, batch' \in {batch, {}}
    PROVE  FileTypes'
<1>1. read' \in [Sessions -> SUBSET (1..last')] BY DEF FileTypes, Nothing
<1>2. edit' \in [writing : BOOLEAN, left : SUBSET (1..last')] BY DEF FileTypes
<1> QED BY <1>1, <1>2 DEF FileTypes

\* Every step keeps the types of the files.
LEMMA FileStep ==
    ASSUME FileTypes, [Next]_vars
    PROVE  FileTypes'
<1>1. ASSUME NEW s \in Sessions, Say(s) PROVE FileTypes'
  BY <1>1, LogTypes, Grows DEF Say
<1>2. CASE SayFromThread
  BY <1>2, LogTypes, Grows, MainAssumption DEF SayFromThread
<1>3. ASSUME NEW s \in Sessions, DeleteSession(s) PROVE FileTypes'
  BY <1>3 DEF DeleteSession, FileTypes
<1>4. CASE ClaimOther BY <1>4, LogUserTypes, Grows DEF ClaimOther
<1>5. CASE ClaimMemory
  <2>1. UNION {queue[s] : s \in Sessions} \subseteq 1..last BY DEF FileTypes
  <2>2. UNCHANGED <<last, queue, distilled, batch, edit>> /\ read' = queue
    BY <1>5, Zenon DEF ClaimMemory
  <2>3. \/ UNCHANGED <<staging, staged>>
        \/ staging' \subseteq 1..last /\ staged' = TRUE
    BY <1>5, <2>1 DEF ClaimMemory
  <2>4. /\ staging' \in SUBSET (1..last')
        /\ staged' \in BOOLEAN /\ (~staged' => staging' = {})
    BY <2>2, <2>3 DEF FileTypes
  <2> QED BY <2>2, <2>4 DEF FileTypes
<1>6. CASE SkipMemory
  <2>1. CASE LogUserMessages(group)
    BY <1>6, <2>1, LogUserTypes, Grows DEF SkipMemory
  <2>2. CASE UNCHANGED <<last, queue>>
    BY <1>6, <2>2, Grows DEF SkipMemory, FileTypes
  <2> QED BY <1>6, <2>1, <2>2 DEF SkipMemory
<1>7. CASE StartMemory
  <2>1. last' \in {last, last + 1} /\ last' \in 0..MaxEvents
    BY <1>7, LimitsAssumption DEF StartMemory, FileTypes
  <2>2. 1..last \subseteq 1..last' BY <2>1 DEF FileTypes
  <2>3. queue' \in [Sessions -> SUBSET (1..last')]
    BY <1>7, <2>2 DEF StartMemory, FileTypes
  <2> QED BY <1>7, <2>1, <2>2, <2>3, Grows DEF StartMemory
<1>8. CASE Distill
  <2>1. batch' \subseteq staging BY <1>8 DEF Distill
  <2> QED BY <1>8, <2>1 DEF Distill, FileTypes
<1>9. CASE OpenStaging BY <1>9 DEF OpenStaging, FileTypes, CanEdit
<1>10. CASE WriteStaging BY <1>10 DEF WriteStaging, FileTypes, Idle
<1>11. CASE DeleteBatch \/ EditFails
  BY <1>11 DEF DeleteBatch, EditFails, FileTypes, files
<1>12. ASSUME Release, UNCHANGED <<files, batch, edit>> PROVE FileTypes'
  BY <1>12 DEF Release, FileTypes, files
<1>13. CASE RunEnds
  <2>1. CASE Release BY <1>12, <1>13, <2>1 DEF RunEnds
  <2>2. CASE UNCHANGED read
    BY <1>13, <2>2 DEF RunEnds, FileTypes, files
  <2> QED BY <1>13, <2>1, <2>2 DEF RunEnds
<1>14. CASE StopMain \/ StopOther
  BY <1>12, <1>14 DEF StopMain, StopOther
<1>15. CASE Reconciled
  <2>1. \A s \in Sessions : Kept(s) \subseteq 1..last BY DEF Kept, FileTypes
  <2>2. queue' \in [Sessions -> SUBSET (1..last)]
    BY <1>15, <2>1 DEF Reconciled, FileTypes
  <2> QED BY <1>15, <2>2 DEF Reconciled, FileTypes, Nothing
<1>16. CASE ClearBuffer BY <1>16 DEF ClearBuffer, FileTypes, Nothing
<1>17. CASE Crash BY <1>17 DEF Crash, FileTypes, files, Nothing, Idle
<1>18. CASE UNCHANGED <<files, read, batch, edit>>
  BY <1>18 DEF FileTypes, files
<1> QED
  BY <1>1, <1>2, <1>3, <1>4, <1>5, <1>6, <1>7, <1>8, <1>9, <1>10, <1>11,
     <1>13, <1>14, <1>15, <1>16, <1>17, <1>18
  DEF Next, vars, MemoryDue, UserMessage, Wake, RunContinues, RunRecovers,
      RunHalts, RunPauses, LimitContinue, LimitAbort

\* Every step keeps the types of the agent's own state.
LEMMA AgentStep ==
    ASSUME FileTypes, AgentTypes, [Next]_vars
    PROVE  AgentTypes'
<1>1. CASE \/ \E s \in Sessions : Say(s) \/ DeleteSession(s)
           \/ SayFromThread \/ MemoryDue \/ UserMessage \/ Wake
  BY <1>1 DEF Say, DeleteSession, SayFromThread, MemoryDue, UserMessage, Wake,
     AgentTypes, files
<1>2. CASE ClaimOther \/ ClaimMemory \/ SkipMemory
  BY <1>2 DEF ClaimOther, ClaimMemory, SkipMemory, AgentTypes
<1>3. CASE StartMemory BY <1>3 DEF StartMemory, AgentTypes, Taken
<1>4. CASE Distill \/ OpenStaging \/ WriteStaging \/ DeleteBatch \/ EditFails
  BY <1>4 DEF Distill, OpenStaging, WriteStaging, DeleteBatch, EditFails,
     AgentTypes, files
<1>5. CASE RunEnds \/ RunContinues \/ RunRecovers \/ RunHalts \/ RunPauses
  BY <1>5 DEF RunEnds, RunContinues, RunRecovers, RunHalts, RunPauses, Release,
     AgentTypes, files
<1>6. CASE LimitContinue \/ LimitAbort \/ StopMain \/ StopOther
  BY <1>6 DEF LimitContinue, LimitAbort, StopMain, StopOther, Release,
     AgentTypes, files
<1>7. CASE Reconciled \/ ClearBuffer \/ Crash \/ UNCHANGED vars
  BY <1>7 DEF Reconciled, ClearBuffer, Crash, vars, AgentTypes, files
<1> QED BY <1>1, <1>2, <1>3, <1>4, <1>5, <1>6, <1>7 DEF Next

\* Every step keeps the types of the lane: triggers come in one by one, and a
\* stop purges what waits.
LEMMA LaneTypesStep ==
    ASSUME LaneTypes, [Next]_vars
    PROVE  LaneTypes'
<1>0. Continuations \subseteq Triggers BY DEF Triggers
<1>1. ASSUME NEW t \in Triggers, Enqueued(t)
      PROVE  waiting' \in Seq(Triggers)
  BY <1>1 DEF Enqueued, LaneTypes
<1>2. ASSUME group' = group \/ group' = <<>> PROVE group' \in Seq(Triggers)
  <2>1. <<>> \in Seq(Triggers) OBVIOUS
  <2> QED BY <1>2, <2>1 DEF LaneTypes
<1>3. CASE MemoryDue \/ UserMessage
  BY <1>1, <1>3 DEF MemoryDue, UserMessage, LaneTypes, Triggers
<1>4. CASE Wake BY <1>0, <1>1, <1>4 DEF Wake, LaneTypes
<1>5. CASE ClaimOther BY <1>5 DEF ClaimOther, LaneTypes
<1>6. CASE ClaimMemory BY <1>6 DEF ClaimMemory, LaneTypes
<1>7. CASE SkipMemory \/ StartMemory
  <2>1. UNCHANGED <<waiting, asleep>> /\ (group' = group \/ group' = <<>>)
    BY <1>7, Zenon DEF SkipMemory, StartMemory
  <2> QED BY <1>2, <2>1 DEF LaneTypes
<1>8. CASE RunEnds BY <1>8 DEF RunEnds, LaneTypes
<1>9. CASE RunContinues
  <2>1. Carried \in Continuations BY DEF Carried, Continuations
  <2> QED BY <1>0, <1>1, <1>9, <2>1 DEF RunContinues, LaneTypes
<1>10. CASE RunRecovers \/ LimitContinue
  <2>1. "run" \in Triggers BY DEF Triggers, Continuations
  <2>2. Enqueued("run") /\ UNCHANGED asleep /\ (group' = group \/ group' = <<>>)
    BY <1>10, Zenon DEF RunRecovers, LimitContinue
  <2> QED BY <1>1, <1>2, <2>1, <2>2 DEF LaneTypes
<1>11. CASE RunHalts \/ RunPauses \/ LimitAbort
  <2>1. UNCHANGED <<waiting, asleep>> /\ (group' = group \/ group' = <<>>)
    BY <1>11, Zenon DEF RunHalts, RunPauses, LimitAbort
  <2> QED BY <1>2, <2>1 DEF LaneTypes
<1>12. CASE StopMain
  <2>1. WellPurged(waiting', Len(waiting), Triggers)
    BY <1>12, PurgedFacts DEF StopMain, LaneTypes
  <2> QED BY <1>12, <2>1 DEF StopMain, LaneTypes, WellPurged
<1>13. CASE Crash
  <2>1. CASE asleep = "none" BY <1>13, <2>1 DEF Crash, LaneTypes
  <2>2. CASE asleep # "none"
    <3>1. <<asleep>> \in Seq(Triggers) BY <1>0, <2>2 DEF LaneTypes
    <3>2. waiting' = group \o waiting \o <<asleep>> BY <1>13, <2>2 DEF Crash
    <3>3. waiting' \in Seq(Triggers) BY <3>1, <3>2 DEF LaneTypes
    <3> QED BY <1>13, <3>3 DEF Crash, LaneTypes
  <2> QED BY <2>1, <2>2
<1>14. CASE UNCHANGED lane BY <1>14 DEF LaneTypes, lane
<1> QED
  BY <1>3, <1>4, <1>5, <1>6, <1>7, <1>8, <1>9, <1>10, <1>11, <1>12, <1>13,
     <1>14
  DEF Next, vars, Say, DeleteSession, SayFromThread, Distill, OpenStaging,
      WriteStaging, DeleteBatch, EditFails, StopOther, Reconciled, ClearBuffer

\* Every step keeps the types of the run.
LEMMA RunStep ==
    ASSUME RunTypes, [Next]_vars
    PROVE  RunTypes'
<1>1. CASE UNCHANGED <<tagged, paused>> BY <1>1 DEF RunTypes
<1>2. ASSUME tagged' \in {TRUE, FALSE}, UNCHANGED paused PROVE RunTypes'
  BY <1>2 DEF RunTypes
<1>3. ASSUME tagged' = FALSE, paused' = TRUE PROVE RunTypes'
  BY <1>3 DEF RunTypes
<1>4. ASSUME UNCHANGED tagged, paused' = FALSE PROVE RunTypes'
  BY <1>4 DEF RunTypes
<1>5. CASE ClaimOther \/ SkipMemory \/ StartMemory
  BY <1>2, <1>5, Zenon DEF ClaimOther, SkipMemory, StartMemory
<1>6. CASE \/ RunEnds \/ RunContinues \/ RunRecovers \/ RunHalts \/ StopMain
           \/ Crash
  BY <1>2, <1>6, Zenon
  DEF RunEnds, RunContinues, RunRecovers, RunHalts, StopMain, Crash
<1>7. CASE RunPauses BY <1>3, <1>7, Zenon DEF RunPauses
<1>8. CASE LimitContinue \/ LimitAbort
  BY <1>4, <1>8, Zenon DEF LimitContinue, LimitAbort
<1> QED
  BY <1>1, <1>5, <1>6, <1>7, <1>8
  DEF Next, vars, lane, Say, DeleteSession, SayFromThread, MemoryDue,
      UserMessage, Wake, ClaimMemory, Distill, OpenStaging, WriteStaging,
      DeleteBatch, EditFails, StopOther, Reconciled, ClearBuffer

\* The model is well typed in every environment: a queue names events that
\* were logged, a batch events that are distilled, and the lane holds triggers
\* (event_stream/manager.py, unprocessed_queue.py, session_queue.py).
THEOREM TypesHold == Spec => []TypeOK
<1> DEFINE Types == FileTypes /\ AgentTypes /\ LaneTypes /\ RunTypes
<1>1. Init => Types
  <2> SUFFICES ASSUME Init PROVE Types OBVIOUS
  <2>1. FileTypes
    <3>1. last \in 0..MaxEvents BY LimitsAssumption DEF Init
    <3>2. Nothing \in [Sessions -> SUBSET (1..last)] BY DEF Nothing
    <3>3. edit \in [writing : BOOLEAN, left : SUBSET (1..last)]
      BY DEF Init, Idle
    <3> QED BY <3>1, <3>2, <3>3 DEF Init, FileTypes
  <2>2. AgentTypes BY DEF Init, AgentTypes
  <2>3. LaneTypes BY DEF Init, LaneTypes
  <2>4. RunTypes BY DEF Init, RunTypes
  <2> QED BY <2>1, <2>2, <2>3, <2>4
<1>2. Types /\ [Next]_vars => Types'
  BY FileStep, AgentStep, LaneTypesStep, RunStep
<1>3. Types => TypeOK
  BY DEF FileTypes, AgentTypes, LaneTypes, RunTypes, TypeOK
<1> QED BY <1>1, <1>2, <1>3, PTL DEF Spec

-----------------------------------------------------------------------------
(* Events stay until they are distilled *)

\* Nothing touches the files behind the event loop's back.
Quiet == Env \cap {"thread", "tear", "rotate"} = {}

\* What the steps of a memory run rely on: inside a synchronous stretch of the
\* loop the queues hold what it has read; the queues of a snapshot are frozen
\* until they are reconciled.
Inv ==
    /\ last \in Nat
    /\ queue \in [Sessions -> SUBSET Int]
    /\ batch \subseteq distilled
    /\ ~edit.writing
    /\ loop = "prepare" =>
          /\ read = queue
          /\ \A s \in Sessions : queue[s] \subseteq staging \cup distilled
    /\ loop = "reconcile" => read = queue
    /\ snapshot # {} => frozen \/ loop = "reconcile"
    /\ snapshot \subseteq Sessions
    /\ StagedIsCovered

\* Everything is empty at first.
LEMMA InvInit == Init => Inv
BY DEF Init, Inv, Nothing, Idle, StagedIsCovered

\* A logged event enters a queue only while nothing is frozen, and then there
\* is no snapshot to be reconciled.
LEMMA LogKeeps ==
    ASSUME Quiet, Inv, NEW s \in Sessions, Log(s), loop # "reconcile"
    PROVE  /\ last' \in Nat
           /\ queue' \in [Sessions -> SUBSET Int]
           /\ \A x \in Sessions : queue[x] \subseteq queue'[x]
           /\ snapshot # {} => queue' = queue
<1>1. last' \in Nat BY DEF Inv, Log
<1>2. CASE UNCHANGED queue
  BY <1>1, <1>2 DEF Inv
<1>3. CASE ~frozen /\ queue' = [queue EXCEPT ![s] = @ \cup {last + 1}]
  BY <1>1, <1>3 DEF Inv
<1> QED BY <1>2, <1>3 DEF Log, Quiet

\* The same for the messages a turn starts with.
LEMMA LogUserKeeps ==
    ASSUME Quiet, Inv, NEW w, LogUserMessages(w), loop # "reconcile"
    PROVE  /\ last' \in Nat
           /\ queue' \in [Sessions -> SUBSET Int]
           /\ \A x \in Sessions : queue[x] \subseteq queue'[x]
           /\ snapshot # {} => queue' = queue
<1>1. CASE Log(Main) BY <1>1, LogKeeps, MainAssumption
<1>2. CASE UNCHANGED <<last, queue>> BY <1>2 DEF Inv
<1> QED BY <1>1, <1>2 DEF LogUserMessages

\* Steps that leave the files, the snapshot, the freeze and the loop alone.
LEMMA OtherSteps ==
    ASSUME Inv, UNCHANGED <<files, snapshot, frozen, loop, read, edit>>,
           batch' \in {batch, {}}
    PROVE  Inv'
BY DEF Inv, StagedIsCovered, files

\* Unfreezing starts a reconciliation when there is a snapshot.
LEMMA ReleaseKeeps ==
    ASSUME Inv, Release, loop = "free",
           UNCHANGED <<files, snapshot, batch, edit>>
    PROVE  Inv'
BY DEF Inv, Release, StagedIsCovered, files

\* Every step of the event loop and of the pool threads keeps the invariant.
LEMMA InvStep ==
    ASSUME Quiet, Inv, [Next]_vars
    PROVE  Inv'
<1>1. CASE UNCHANGED vars
  BY <1>1, OtherSteps DEF vars, lane
<1>2. ASSUME NEW s \in Sessions, Say(s) PROVE Inv'
  BY <1>2, LogKeeps DEF Say, Inv, StagedIsCovered
<1>3. ASSUME NEW s \in Sessions, DeleteSession(s) PROVE Inv'
  BY <1>3 DEF DeleteSession, Inv, StagedIsCovered
<1>4. CASE SayFromThread BY <1>4 DEF SayFromThread, Quiet
<1>5. CASE \/ MemoryDue \/ UserMessage \/ Wake \/ EditFails
           \/ RunContinues \/ RunRecovers \/ RunHalts \/ RunPauses
           \/ LimitContinue \/ LimitAbort
  BY <1>5, OtherSteps DEF MemoryDue, UserMessage, Wake, EditFails,
     RunContinues, RunRecovers, RunHalts, RunPauses, LimitContinue, LimitAbort
<1>6. CASE ClaimOther
  BY <1>6, LogUserKeeps DEF ClaimOther, Inv, StagedIsCovered
<1>7. CASE ClaimMemory
  <2>1. CASE queue = Nothing /\ UNCHANGED <<staging, staged>>
    BY <1>7, <2>1 DEF ClaimMemory, Inv, StagedIsCovered, Nothing
  <2>2. CASE staging' = UNION {queue[s] : s \in Sessions}
    <3>1. \A s \in Sessions : queue[s] \subseteq staging' BY <2>2
    <3> QED BY <1>7, <3>1 DEF ClaimMemory, Inv, StagedIsCovered
  <2> QED BY <1>7, <2>1, <2>2 DEF ClaimMemory
<1>8. CASE SkipMemory
  <2>1. CASE LogUserMessages(group)
    BY <1>8, <2>1, LogUserKeeps DEF SkipMemory, Inv, StagedIsCovered
  <2>2. CASE UNCHANGED <<last, queue>>
    BY <1>8, <2>2 DEF SkipMemory, Inv, StagedIsCovered
  <2> QED BY <1>8, <2>1, <2>2 DEF SkipMemory
<1>9. CASE StartMemory
  BY <1>9 DEF StartMemory, Taken, Inv, StagedIsCovered
<1>10. CASE Distill
  BY <1>10 DEF Distill, CanEdit, Inv, StagedIsCovered
<1>11. CASE OpenStaging BY <1>11 DEF OpenStaging, Quiet
<1>12. CASE WriteStaging BY <1>12 DEF WriteStaging, Inv
<1>13. CASE DeleteBatch
  BY <1>13 DEF DeleteBatch, CanEdit, Inv, StagedIsCovered
<1>14. CASE RunEnds
  <2>1. CASE Release
    BY <1>14, <2>1, ReleaseKeeps DEF RunEnds, TurnOver
  <2>2. CASE UNCHANGED <<frozen, loop, read>>
    BY <1>14, <2>2, OtherSteps DEF RunEnds
  <2> QED BY <1>14, <2>1, <2>2 DEF RunEnds
<1>15. CASE StopMain BY <1>15, ReleaseKeeps DEF StopMain
<1>16. CASE StopOther BY <1>16, ReleaseKeeps DEF StopOther
<1>17. CASE Reconciled
  BY <1>17 DEF Reconciled, Kept, Inv, StagedIsCovered
<1>18. CASE ClearBuffer
  BY <1>18 DEF ClearBuffer, Nothing, Inv, StagedIsCovered
<1>19. CASE Crash
  BY <1>19 DEF Crash, files, Idle, Inv, StagedIsCovered
<1> QED
  BY <1>1, <1>2, <1>3, <1>4, <1>5, <1>6, <1>7, <1>8, <1>9, <1>10, <1>11,
     <1>12, <1>13, <1>14, <1>15, <1>16, <1>17, <1>18, <1>19 DEF Next

\* Only a reconciliation takes events out of a queue, unless the user does,
\* and it leaves those that are still in the staging file.
LEMMA KeptStep ==
    ASSUME Quiet, Inv, [Next]_vars,
           NEW s \in Sessions, NEW e \in queue[s] \ queue'[s]
    PROVE  e \in distilled \/ ClearBuffer \/ s \in alive \ alive'
<1>1. CASE Reconciled
  <2>1. staged /\ s \in snapshot /\ queue'[s] = Kept(s)
    BY <1>1 DEF Reconciled
  <2>2. e \notin staging
    BY <1>1, <2>1 DEF Reconciled, Kept, Inv
  <2> QED BY <2>1, <2>2 DEF Inv, StagedIsCovered
<1>2. ASSUME NEW x \in Sessions, DeleteSession(x) PROVE s \in alive \ alive'
  BY <1>2 DEF DeleteSession, Inv
<1>3. ASSUME NEW x \in Sessions, Say(x) PROVE FALSE
  BY <1>3, LogKeeps DEF Say
<1>4. CASE ClaimOther BY <1>4, LogUserKeeps DEF ClaimOther
<1>5. CASE SkipMemory BY <1>5, LogUserKeeps DEF SkipMemory
<1>6. CASE SayFromThread BY <1>6 DEF SayFromThread, Quiet
<1>7. CASE UNCHANGED queue BY <1>7
<1> QED
  BY <1>1, <1>2, <1>3, <1>4, <1>5, <1>6, <1>7
  DEF Next, vars, files, MemoryDue, UserMessage, Wake, ClaimMemory,
      StartMemory, Distill, OpenStaging, WriteStaging, DeleteBatch, EditFails,
      RunEnds, RunContinues, RunRecovers, RunHalts, RunPauses, LimitContinue,
      LimitAbort, StopMain, StopOther, Crash

\* What was staged and not distilled yet is still in the staging file when the
\* queues are reconciled against it.
THEOREM StagedEventsAreCovered ==
    ASSUME Quiet PROVE Spec => []StagedIsCovered
<1>1. Init => Inv BY InvInit
<1>2. Inv /\ [Next]_vars => Inv' BY InvStep
<1>3. Inv => StagedIsCovered BY DEF Inv
<1> QED BY <1>1, <1>2, <1>3, PTL DEF Spec

\* An event leaves its queue only after it was distilled.
THEOREM EventsAreKept ==
    ASSUME Quiet PROVE Spec => KeptUntilDistilled
<1>1. Init => Inv BY InvInit
<1>2. Inv /\ [Next]_vars => Inv' BY InvStep
<1>3. Inv /\ [Next]_vars =>
        [\A s \in Sessions : \A e \in queue[s] \ queue'[s] :
            \/ e \in distilled
            \/ ClearBuffer
            \/ s \in alive \ alive']_vars
  BY KeptStep
<1> QED BY <1>1, <1>2, <1>3, PTL DEF Spec, KeptUntilDistilled

-----------------------------------------------------------------------------
(* The freeze belongs to a run *)

\* Nothing joins the memory run's turns and none of them ends without the end
\* or the stop of the run.
RunsAlone == Env \cap {"again", "user", "error", "limit"} = {}

\* The session has at most one trigger, and while the queues are frozen it is
\* the memory run's turn or its continuation.
LaneInv ==
    /\ ~paused
    /\ group # <<>> => waiting = <<>> /\ asleep = "none"
    /\ waiting # <<>> => asleep = "none"
    /\ tagged => group # <<>>
    /\ loop = "prepare" => group # <<>> /\ ~tagged /\ ~frozen
    /\ frozen => tagged \/ waiting = <<"memory_run">> \/ asleep = "memory_run"

\* Nothing runs or waits at first.
LEMMA LaneInit == Init => LaneInv
BY DEF Init, LaneInv

\* A claim takes what waits into a turn, with the tag if it is a memory run's.
LEMMA LaneClaims ==
    ASSUME LaneInv, ClaimOther \/ ClaimMemory \/ SkipMemory \/ StartMemory
    PROVE  LaneInv'
<1>1. CASE ClaimOther
  <2>1. ASSUME waiting = <<"memory_run">> PROVE tagged'
    <3>1. Head(waiting) = "memory_run" BY <2>1
    <3> QED BY <1>1, <3>1, Zenon DEF ClaimOther
  <2> QED BY <1>1, <2>1 DEF ClaimOther, LaneInv
<1>2. CASE ClaimMemory
  <2>1. waiting # <<"memory_run">> BY <1>2 DEF ClaimMemory
  <2> QED BY <1>2, <2>1 DEF ClaimMemory, LaneInv
<1>3. CASE SkipMemory BY <1>3 DEF SkipMemory, LaneInv
<1>4. CASE StartMemory BY <1>4 DEF StartMemory, LaneInv
<1> QED BY <1>1, <1>2, <1>3, <1>4

\* A turn ends with the run, or the continuation keeps the tag.
LEMMA LaneTurns ==
    ASSUME RunsAlone, LaneInv,
           \/ RunEnds \/ RunContinues \/ RunRecovers \/ RunHalts \/ RunPauses
    PROVE  LaneInv'
<1>1. CASE RunEnds
  <2>1. ~frozen' BY <1>1 DEF RunEnds, TurnOver, Release, LaneInv
  <2>2. loop' # "prepare" BY <1>1 DEF RunEnds, TurnOver, Release
  <2> QED BY <1>1, <2>1, <2>2 DEF RunEnds, TurnOver, LaneInv
<1>2. CASE RunContinues
  <2>1. waiting = <<>> /\ asleep = "none" /\ loop' = "free"
    BY <1>2 DEF RunContinues, TurnOver, LaneInv
  <2>2. \/ waiting' = <<Carried>> /\ asleep' = "none"
        \/ waiting' = <<>> /\ asleep' = Carried
    BY <1>2, <2>1 DEF RunContinues, Enqueued
  <2>3. frozen' => Carried = "memory_run"
    BY <1>2, <2>1 DEF RunContinues, LaneInv, Carried
  <2> QED BY <1>2, <2>1, <2>2, <2>3 DEF RunContinues, LaneInv
<1>3. CASE RunRecovers \/ RunHalts \/ RunPauses
  BY <1>3 DEF RunRecovers, RunHalts, RunPauses, RunsAlone
<1> QED BY <1>1, <1>2, <1>3

\* The queue of triggers gets a new one only when there is none.
LEMMA LaneArrivals ==
    ASSUME RunsAlone, LaneInv,
           \/ MemoryDue \/ UserMessage \/ Wake \/ LimitContinue \/ LimitAbort
    PROVE  LaneInv'
<1>1. CASE MemoryDue
  <2>1. group = <<>> /\ waiting = <<>> /\ asleep = "none"
    BY <1>1 DEF MemoryDue, RunsAlone
  <2>2. /\ loop = "free"
        /\ UNCHANGED <<paused, group, asleep, tagged, frozen, loop>>
    BY <1>1 DEF MemoryDue, Enqueued
  <2> QED BY <2>1, <2>2 DEF LaneInv
<1>2. CASE Wake
  <2>1. waiting = <<>> /\ group = <<>> BY <1>2 DEF Wake, LaneInv
  <2>2. waiting' = <<asleep>> BY <1>2, <2>1 DEF Wake, Enqueued
  <2> QED BY <1>2, <2>1, <2>2 DEF Wake, Enqueued, LaneInv
<1>3. CASE UserMessage \/ LimitContinue \/ LimitAbort
  BY <1>3 DEF UserMessage, LimitContinue, LimitAbort, RunsAlone, LaneInv
<1> QED BY <1>1, <1>2, <1>3

\* Whatever the step, the freeze has somebody who will release it.
LEMMA LaneStep ==
    ASSUME RunsAlone, LaneInv, [Next]_vars
    PROVE  LaneInv'
<1>1. CASE UNCHANGED <<frozen, lane, loop>>
  BY <1>1 DEF LaneInv, lane
<1>2. CASE StopMain \/ StopOther
  BY <1>2 DEF StopMain, StopOther, Release, RunsAlone, LaneInv, lane
<1>3. CASE Reconciled BY <1>3 DEF Reconciled, LaneInv, lane
<1>4. CASE Crash BY <1>4 DEF Crash, LaneInv
<1> QED
  BY <1>1, <1>2, <1>3, <1>4, LaneClaims, LaneTurns, LaneArrivals
  DEF Next, vars, Say, SayFromThread, DeleteSession, Distill, OpenStaging,
      WriteStaging, DeleteBatch, EditFails, ClearBuffer

\* The queues are frozen only while a run goes on or waits to go on, as long
\* as the memory run is alone in its session and its turns do not fail
\* (agent_base.py, _prepare_memory_run and _on_run_end).
THEOREM FreezeHasARun ==
    ASSUME RunsAlone PROVE Spec => []FrozenOnlyInRun
<1>1. Init => LaneInv BY LaneInit
<1>2. LaneInv /\ [Next]_vars => LaneInv' BY LaneStep
<1>3. LaneInv => FrozenOnlyInRun
  BY DEF LaneInv, FrozenOnlyInRun, RunAlive, Waits, Continuations
<1> QED BY <1>1, <1>2, <1>3, PTL DEF Spec

-----------------------------------------------------------------------------
(* The run's own events *)

\* Nor is a run of another session stopped, and the process does not die.
RunsThrough == RunsAlone /\ Env \cap {"foreign_stop", "crash"} = {}

\* The tag means that the queues are frozen: it is set when they are frozen,
\* and the run's end clears it together with the freeze.
TagInv ==
    /\ LaneInv
    /\ waiting \in {<<>>} \cup {<<t>> : t \in Triggers}
    /\ asleep \in Continuations \cup {"none"}
    /\ tagged \/ waiting = <<"memory_run">> \/ asleep = "memory_run" => frozen

\* Nothing is tagged at first.
LEMMA TagInit == Init => TagInv
BY LaneInit DEF Init, TagInv

\* The tag moves from turn to continuation to turn.
LEMMA TagStep ==
    ASSUME RunsThrough, TagInv, [Next]_vars
    PROVE  TagInv'
<1>0. RunsAlone /\ LaneInv /\ LaneInv' BY LaneStep DEF RunsThrough, TagInv
<1>1. CASE UNCHANGED <<frozen, lane>>
  BY <1>0, <1>1 DEF TagInv, lane
<1>2. CASE ClaimOther
  <2>1. PICK t \in Triggers : waiting = <<t>> BY <1>2 DEF ClaimOther, TagInv
  <2>2. tagged' => t = "memory_run"
    <3>1. Head(waiting) = t BY <2>1
    <3> QED BY <1>2, <3>1, Zenon DEF ClaimOther
  <2> QED BY <1>0, <1>2, <2>1, <2>2 DEF ClaimOther, TagInv, LaneInv
<1>3. CASE ClaimMemory BY <1>0, <1>3 DEF ClaimMemory, TagInv, LaneInv
<1>4. CASE SkipMemory BY <1>0, <1>4 DEF SkipMemory, TagInv, LaneInv
<1>5. CASE StartMemory BY <1>0, <1>5 DEF StartMemory, TagInv
<1>6. CASE RunEnds BY <1>0, <1>6 DEF RunEnds, TurnOver, TagInv, LaneInv
<1>7. CASE RunContinues
  <2>1. waiting = <<>> /\ asleep = "none"
    BY <1>0, <1>7 DEF RunContinues, TurnOver, LaneInv
  <2>2. \/ waiting' = <<Carried>> /\ asleep' = "none"
        \/ waiting' = <<>> /\ asleep' = Carried
    BY <1>7, <2>1 DEF RunContinues, Enqueued
  <2>3. Carried \in Continuations /\ (Carried = "memory_run" => frozen)
    BY <1>7 DEF Carried, Continuations, TagInv
  <2>4. waiting' \in {<<>>} \cup {<<t>> : t \in Triggers}
    BY <2>2, <2>3 DEF Triggers
  <2>5. waiting' = <<"memory_run">> \/ asleep' = "memory_run" => frozen
    BY <2>2, <2>3
  <2>6. ~tagged' /\ UNCHANGED frozen BY <1>7 DEF RunContinues
  <2> QED BY <1>0, <2>2, <2>3, <2>4, <2>5, <2>6 DEF TagInv
<1>8. CASE MemoryDue
  <2>1. waiting = <<>> /\ asleep = "none"
    BY <1>0, <1>8 DEF MemoryDue, RunsAlone
  <2>2. waiting' = <<"memory">> BY <1>8, <2>1 DEF MemoryDue, Enqueued
  <2>3. waiting' \in {<<t>> : t \in Triggers} BY <2>2 DEF Triggers
  <2>4. UNCHANGED <<asleep, tagged, frozen>> BY <1>8 DEF MemoryDue
  <2>5. waiting' # <<"memory_run">> BY <2>2
  <2> QED BY <1>0, <2>1, <2>3, <2>4, <2>5 DEF TagInv
<1>9. CASE Wake
  <2>1. waiting = <<>> BY <1>0, <1>9 DEF Wake, LaneInv
  <2>2. waiting' = <<asleep>> /\ asleep' = "none"
    BY <1>9, <2>1 DEF Wake, Enqueued
  <2>3. asleep \in Triggers BY <1>9 DEF Wake, TagInv, Triggers
  <2> QED BY <1>0, <1>9, <2>2, <2>3 DEF Wake, TagInv
<1>10. CASE StopMain
  <2>1. waiting \in Seq(Triggers) /\ Len(waiting) <= 1
    <3>1. CASE waiting = <<>> BY <3>1
    <3>2. CASE \E t \in Triggers : waiting = <<t>> BY <3>2
    <3> QED BY <3>1, <3>2 DEF TagInv
  <2>2. WellPurged(waiting', Len(waiting), Triggers)
    BY <1>10, <2>1, PurgedFacts DEF StopMain
  <2>3. waiting' \in Seq(Triggers) /\ Len(waiting') <= 1
    BY <2>1, <2>2 DEF WellPurged
  <2>4. waiting' # <<"memory_run">>
    <3> SUFFICES ASSUME waiting' = <<"memory_run">> PROVE FALSE OBVIOUS
    <3>1. 1 \in 1..Len(waiting') /\ waiting'[1] = "memory_run" OBVIOUS
    <3> QED BY <2>2, <3>1 DEF WellPurged, Continuations
  <2>5. waiting' \in {<<>>} \cup {<<t>> : t \in Triggers}
    <3>1. CASE Len(waiting') = 0 BY <2>3, <3>1
    <3>2. CASE Len(waiting') = 1
      <4>1. waiting'[1] \in Triggers /\ waiting' = <<waiting'[1]>>
        BY <2>3, <3>2
      <4> QED BY <4>1
    <3> QED BY <2>3, <3>1, <3>2
  <2>6. asleep' = "none" /\ tagged' = FALSE BY <1>10 DEF StopMain
  <2> QED BY <1>0, <2>4, <2>5, <2>6 DEF TagInv
<1>11. CASE \/ UserMessage \/ RunRecovers \/ RunHalts \/ RunPauses
            \/ LimitContinue \/ LimitAbort \/ StopOther \/ Crash
  BY <1>0, <1>11 DEF UserMessage, RunRecovers, RunHalts, RunPauses,
     LimitContinue, LimitAbort, StopOther, Crash, RunsThrough, RunsAlone,
     LaneInv
<1> QED
  BY <1>1, <1>2, <1>3, <1>4, <1>5, <1>6, <1>7, <1>8, <1>9, <1>10, <1>11
  DEF Next, vars, Say, SayFromThread, DeleteSession, Distill, OpenStaging,
      WriteStaging, DeleteBatch, EditFails, Reconciled, ClearBuffer

\* What a memory run says stays out of the queues until the run ends, as long
\* as it is alone in its session, its turns do not fail, no other session's run
\* is stopped and the process does not die
\* (event_stream/manager.py, _log_to_files).
THEOREM OwnEventsAreNotQueued ==
    ASSUME RunsThrough PROVE Spec => OwnEventsStayOut
<1>1. Init => TagInv BY TagInit
<1>2. TagInv /\ [Next]_vars => TagInv' BY TagStep
<1>3. TagInv /\ [Next]_vars
        => [Say(Main) /\ tagged => UNCHANGED queue]_vars
  BY DEF Say, Log, TagInv
<1> QED BY <1>1, <1>2, <1>3, PTL DEF Spec, OwnEventsStayOut
=============================================================================
