------------------------- MODULE ActivityLedgerProofs -------------------------
(***************************************************************************)
(* Nothing irreversible is repeated blindly, for any keys, calls and times *)
(* with MaxRun + Window <= IntentTtl and Window <= DoneTtl.                *)
(***************************************************************************)
EXTENDS ActivityLedger, TLAPS

\* What the ledger knows of a key that no reset made it forget: the row of a
\* call under way is its intent; a success is remembered by its DONE row, or
\* by the intent whose outcome was lost, as long as it matters; so is an
\* execution that was cut.
Remembered(k) ==
    /\ Running(k) =>
          /\ effect[k].what = "running"
          /\ now - effect[k].at <= MaxRun
          /\ row[k].status = "INTENT" /\ row[k].updated_at = effect[k].at
    /\ effect[k].what = "running" => Running(k)
    /\ effect[k].what = "sent" =>
          \/ now - effect[k].at > Window
          \/ row[k].status = "DONE" /\ row[k].updated_at = effect[k].at
          \/ row[k].status = "INTENT" /\ effect[k].at - row[k].updated_at <= MaxRun
    /\ effect[k].what = "cut" =>
          \/ now - effect[k].at > IntentTtl
          \/ row[k].status = "INTENT" /\ row[k].updated_at = effect[k].at

Inv == /\ TypeOK
       /\ ~up => inFlight = {} /\ \A c \in Calls : runs[c] = NoKey
       /\ InFlightIsRunning
       /\ OneAtATime
       /\ \A k \in Keys \ wiped : Remembered(k)

LEMMA InvInit == Init => Inv
<1> SUFFICES ASSUME Init PROVE Inv OBVIOUS
<1> USE DEF Init, NoRow, NoEffect, Running
<1>1. TypeOK BY TimesAssumption DEF TypeOK, Row, Effect
<1>2. InFlightIsRunning /\ OneAtATime
  BY NoKeyAssumption DEF InFlightIsRunning, OneAtATime
<1>3. \A k \in Keys : Remembered(k) BY NoKeyAssumption DEF Remembered
<1> QED BY <1>1, <1>2, <1>3 DEF Inv

\* A key that a step does not touch stays remembered while the clock stands.
LEMMA Untouched ==
    ASSUME NEW k \in Keys, Remembered(k), now' = now,
           Running(k)' <=> Running(k), row'[k] = row[k], effect'[k] = effect[k]
    PROVE  Remembered(k)'
BY DEF Remembered

\* A new execution has an intent, is in flight, and is the only one: a key
\* under way has an INTENT row, which does not let begin() proceed.
LEMMA ProceedKeeps ==
    ASSUME Inv, NEW c \in Calls, NEW k \in Keys, Proceed(c, k)
    PROVE  Inv'
<1> USE DEF Inv
<1>1. TypeOK' BY DEF TypeOK, Proceed, Row, Effect, Stamped
<1>2. runs' = [runs EXCEPT ![c] = k] /\ runs[c] = NoKey BY DEF Proceed
<1>3. Running(k)' BY <1>2 DEF Running, TypeOK
<1>4. \A x \in Keys \ {k} : Running(x)' <=> Running(x)
  BY <1>2, NoKeyAssumption DEF Running, TypeOK
<1>5. k \notin wiped => ~Running(k)
  BY DEF Remembered, Proceed, MayProceed
<1>6. InFlightIsRunning'
  BY <1>3, <1>4 DEF InFlightIsRunning, Proceed, TypeOK
<1>7. OneAtATime'
  BY <1>2, <1>5 DEF OneAtATime, Running, Proceed, TypeOK
<1>8. Remembered(k)'
  BY <1>3, TimesAssumption DEF Remembered, Proceed, Stamped, TypeOK
<1>9. \A x \in Keys \ (wiped \cup {k}) : Remembered(x)'
  BY <1>4, Untouched DEF Proceed, TypeOK
<1>10. (~up => inFlight = {} /\ \A d \in Calls : runs[d] = NoKey)'
  BY DEF Proceed
<1> QED BY <1>1, <1>6, <1>7, <1>8, <1>9, <1>10 DEF Proceed

\* When a call leaves, its key is not being executed any more.
LEMMA LeavesKeeps ==
    ASSUME Inv, NEW c \in Calls, NEW k \in Keys,
           NEW what \in {"none", "sent", "stopped"}, Leaves(c, k, what),
           row' \in [Keys -> Row], \A x \in Keys \ {k} : row'[x] = row[x],
           k \notin wiped /\ what = "sent" =>
              \/ row'[k].status = "DONE" /\ row'[k].updated_at = now
              \/ row' = row
    PROVE  Inv'
<1> USE DEF Inv
<1>1. TypeOK' BY DEF TypeOK, Leaves, Effect, NoEffect
<1>2. runs' = [runs EXCEPT ![c] = NoKey] /\ runs[c] = k BY DEF Leaves
<1>3. \A x \in Keys \ {k} : Running(x)' <=> Running(x)
  BY <1>2, NoKeyAssumption DEF Running, TypeOK
<1>4. k \notin wiped => ~Running(k)'
  BY <1>2, NoKeyAssumption DEF Running, TypeOK, OneAtATime
<1>5. InFlightIsRunning'
  BY <1>3, <1>4 DEF InFlightIsRunning, Leaves, TypeOK
<1>6. OneAtATime'
  BY <1>2 DEF OneAtATime, Leaves, TypeOK
<1>7. k \notin wiped => Remembered(k)'
  <2> SUFFICES ASSUME k \notin wiped PROVE Remembered(k)' OBVIOUS
  <2>1. Remembered(k) /\ Running(k) BY <1>2 DEF Running
  <2>2. effect'[k] = IF what = "none" THEN NoEffect
                     ELSE [what |-> what, at |-> now]
    BY DEF Leaves, TypeOK
  <2>3. now' = now BY DEF Leaves
  <2> QED BY <1>4, <2>1, <2>2, <2>3 DEF Remembered, NoEffect
<1>8. \A x \in Keys \ (wiped \cup {k}) : Remembered(x)'
  BY <1>3, Untouched DEF Leaves, TypeOK
<1>9. (~up => inFlight = {} /\ \A d \in Calls : runs[d] = NoKey)'
  BY DEF Leaves
<1> QED BY <1>1, <1>5, <1>6, <1>7, <1>8, <1>9 DEF Leaves

\* What complete() makes of the table.
LEMMA OutcomeKeeps ==
    ASSUME TypeOK, NEW k \in Keys, NEW status \in {"DONE", "FAILED"}
    PROVE  /\ Outcome(k, status) \in [Keys -> Row]
           /\ \A x \in Keys \ {k} : Outcome(k, status)[x] = row[x]
           /\ \/ Outcome(k, status) = row
              \/ Outcome(k, status)[k] = Stamped(status)
BY DEF Outcome, Stamped, TypeOK, Row

LEMMA EndsKeep ==
    ASSUME Inv, NEW c \in Calls, NEW k \in Keys,
           \/ Succeeds(c, k) \/ Fails(c, k) \/ IsStopped(c, k)
           \/ OutcomeLost(c, k)
    PROVE  Inv'
<1>1. TypeOK BY DEF Inv
<1>2. CASE Succeeds(c, k)
  BY <1>1, <1>2, LeavesKeeps, OutcomeKeeps DEF Succeeds, Stamped
<1>3. CASE Fails(c, k)
  BY <1>1, <1>3, LeavesKeeps, OutcomeKeeps DEF Fails
<1>4. CASE IsStopped(c, k)
  BY <1>1, <1>4, LeavesKeeps, OutcomeKeeps DEF IsStopped
<1>5. CASE OutcomeLost(c, k)
  BY <1>1, <1>5, LeavesKeeps DEF OutcomeLost, TypeOK
<1> QED BY <1>2, <1>3, <1>4, <1>5

\* Only a key that is not in flight is warned about: no call is under way.
LEMMA WarnKeeps ==
    ASSUME Inv, NEW k \in Keys, Warn(k)
    PROVE  Inv'
<1> USE DEF Inv
<1>1. TypeOK' BY DEF TypeOK, Warn, Row, Effect, Stamped, NoEffect
<1>2. \A x \in Keys : Running(x)' <=> Running(x) BY DEF Warn, Running
<1>3. InFlightIsRunning' /\ OneAtATime'
  BY <1>2 DEF InFlightIsRunning, OneAtATime, TypeOK, Warn
<1>4. k \notin wiped => Remembered(k)'
  BY <1>2 DEF Remembered, Warn, NoEffect, TypeOK, InFlightIsRunning
<1>5. \A x \in Keys \ (wiped \cup {k}) : Remembered(x)'
  BY <1>2, Untouched DEF Warn, TypeOK
<1> QED BY <1>1, <1>3, <1>4, <1>5 DEF Warn

\* After a crash every intent is stale and every execution that ran is cut.
LEMMA CrashKeeps ==
    ASSUME Inv, Crash
    PROVE  Inv'
<1> USE DEF Inv
<1>1. TypeOK' BY DEF TypeOK, Crash, Effect
<1>2. \A x \in Keys : ~Running(x)' BY NoKeyAssumption DEF Crash, Running
<1>3. InFlightIsRunning' /\ OneAtATime'
  BY <1>2 DEF InFlightIsRunning, OneAtATime, TypeOK, Crash
<1>4. \A x \in Keys \ wiped : Remembered(x)'
  BY <1>2 DEF Remembered, Crash, TypeOK, Effect
<1> QED BY <1>1, <1>3, <1>4 DEF Crash

\* Housekeeping forgets only what does not matter any more.
LEMMA BootKeeps ==
    ASSUME Inv, Boot
    PROVE  Inv'
<1> USE DEF Inv
<1>1. \A x \in Keys : row'[x] = Collected(row[x]) BY DEF Boot, TypeOK
<1>2. \A r \in Row : Collected(r) \in Row
  BY DEF Collected, Row, Stamped, NoRow, TypeOK
<1>3. TypeOK' BY <1>2 DEF TypeOK, Boot
<1>4. \A x \in Keys : ~Running(x) /\ ~Running(x)'
  BY NoKeyAssumption DEF Boot, Running
<1>5. InFlightIsRunning' /\ OneAtATime'
  BY <1>4 DEF InFlightIsRunning, OneAtATime, TypeOK, Boot
<1>6. ASSUME NEW x \in Keys \ wiped PROVE Remembered(x)'
  <2>1. Remembered(x) /\ row[x] \in Row /\ effect[x] \in Effect
    BY DEF TypeOK
  <2>2. now' = now /\ effect' = effect BY DEF Boot
  <2>3. effect[x].what = "sent" => \/ now - effect[x].at > Window
                                   \/ Collected(row[x]) = row[x]
    BY <2>1, TimesAssumption DEF Remembered, Collected, Row, Effect, TypeOK
  <2>4. effect[x].what = "cut" => \/ now - effect[x].at > IntentTtl
                                  \/ Collected(row[x]) = row[x]
    BY <2>1, TimesAssumption DEF Remembered, Collected, Row, Effect, TypeOK
  <2> QED BY <1>1, <1>4, <2>1, <2>2, <2>3, <2>4 DEF Remembered
<1> QED BY <1>3, <1>5, <1>6 DEF Boot

\* A reset exempts the keys whose calls it makes the ledger forget.
LEMMA ResetKeeps ==
    ASSUME Inv, Reset
    PROVE  Inv'
<1> USE DEF Inv
<1>1. TypeOK' BY DEF TypeOK, Reset, Row, Effect, NoRow, NoEffect
<1>2. \A x \in Keys : Running(x)' <=> Running(x) BY DEF Reset, Running
<1>3. InFlightIsRunning' /\ OneAtATime'
  BY <1>2 DEF InFlightIsRunning, OneAtATime, TypeOK, Reset
<1>4. \A x \in Keys \ wiped' : Remembered(x)'
  BY <1>2 DEF Remembered, Reset, NoEffect
<1> QED BY <1>1, <1>3, <1>4 DEF Reset

LEMMA TickKeeps ==
    ASSUME Inv, Tick
    PROVE  Inv'
<1> USE DEF Inv
<1>1. TypeOK' BY DEF TypeOK, Tick
<1>2. \A x \in Keys : Running(x)' <=> Running(x) BY DEF Tick, Running
<1>3. InFlightIsRunning' /\ OneAtATime'
  BY <1>2 DEF InFlightIsRunning, OneAtATime, TypeOK, Tick
<1>4. ASSUME NEW x \in Keys \ wiped PROVE Remembered(x)'
  <2>1. Remembered(x) /\ effect[x] \in Effect /\ now \in Nat BY DEF TypeOK
  <2>2. UNCHANGED <<row, effect>> /\ now' = now + 1 BY DEF Tick
  <2>3. Running(x) => now - effect[x].at < MaxRun BY DEF Tick
  <2> QED BY <1>2, <2>1, <2>2, <2>3, TimesAssumption DEF Remembered, Effect
<1> QED BY <1>1, <1>3, <1>4 DEF Tick

LEMMA InvNext == Inv /\ [Next]_vars => Inv'
<1> SUFFICES ASSUME Inv, [Next]_vars PROVE Inv' OBVIOUS
<1>1. CASE UNCHANGED vars
  BY <1>1 DEF vars, Inv, TypeOK, InFlightIsRunning, OneAtATime, Remembered,
              Running
<1>2. CASE \E c \in Calls, k \in Keys : Proceed(c, k)
  BY <1>2, ProceedKeeps
<1>3. CASE \E c \in Calls, k \in Keys :
              \/ Succeeds(c, k) \/ Fails(c, k) \/ IsStopped(c, k)
              \/ OutcomeLost(c, k)
  BY <1>3, EndsKeep
<1>4. CASE \E k \in Keys : Warn(k) BY <1>4, WarnKeeps
<1>5. CASE Crash \/ Boot \/ Reset \/ Tick
  BY <1>5, CrashKeeps, BootKeeps, ResetKeeps, TickKeeps
<1> QED BY <1>1, <1>2, <1>3, <1>4, <1>5 DEF Next

LEMMA Invariant == Spec => []Inv
BY InvInit, InvNext, PTL DEF Spec

\* The state of the ledger is always well typed.
THEOREM LedgerTypes == Spec => []TypeOK
<1>1. Inv => TypeOK BY DEF Inv
<1> QED BY <1>1, Invariant, PTL

\* A key in flight is being executed, and the other way round.
THEOREM FlightsAreRuns == Spec => []InFlightIsRunning
<1>1. Inv => InFlightIsRunning BY DEF Inv
<1> QED BY <1>1, Invariant, PTL

\* One irreversible action never runs twice at once.
THEOREM NeverTwiceAtOnce == Spec => []OneAtATime
<1>1. Inv => OneAtATime BY DEF Inv
<1> QED BY <1>1, Invariant, PTL

\* No execution starts behind the agent's back: not while one is under way,
\* not soon after one that succeeded, and not after one that was cut unless
\* the agent was warned.
THEOREM NothingIsRepeatedBlindly == Spec => NoBlindRepeat
<1> DEFINE Step == \A c \in Calls, k \in Keys \ wiped :
          Proceed(c, k) =>
             \/ effect[k].what \in {"none", "stopped"}
             \/ effect[k].what = "sent" /\ now - effect[k].at > Window
             \/ effect[k].what = "cut" /\ now - effect[k].at > IntentTtl
<1>1. Inv /\ [Next]_vars => [Step]_vars
  <2> SUFFICES ASSUME Inv, NEW c \in Calls, NEW k \in Keys \ wiped, Proceed(c, k)
               PROVE  \/ effect[k].what \in {"none", "stopped"}
                      \/ effect[k].what = "sent" /\ now - effect[k].at > Window
                      \/ effect[k].what = "cut" /\ now - effect[k].at > IntentTtl
    OBVIOUS
  <2>1. Remembered(k) /\ effect[k] \in Effect BY DEF Inv, TypeOK
  <2>2. MayProceed(k) BY DEF Proceed
  <2> QED BY <2>1, <2>2 DEF Remembered, MayProceed, Effect
<1> QED BY <1>1, Invariant, PTL DEF Spec, NoBlindRepeat
=============================================================================
