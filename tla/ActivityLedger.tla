---------------------------- MODULE ActivityLedger ----------------------------
(***************************************************************************)
(* The ledger of irreversible actions (app/triggers/activity_log.py) and   *)
(* the calls that consult it (agent_core action/manager.py): before a      *)
(* message is sent, the ledger decides whether the same message was sent   *)
(* already, is being sent, or may have been sent by a process that died.   *)
(*                                                                         *)
(* Calls of one key come from redelivered turns, from batch mates and from *)
(* the agent's own second thoughts, so the model lets any call come at any *)
(* time. begin() is synchronous on the event loop; the action then runs    *)
(* for a while. A call that begin() refuses changes nothing unless it is   *)
(* the one that gets the warning.                                          *)
(***************************************************************************)
EXTENDS Integers

CONSTANTS
    Keys,       \* idempotency keys: session, action, hash of the inputs
    NoKey,      \* of a call slot that is free
    Calls,      \* executions that may be under way at once
    Window,     \* DONE_DEDUP_WINDOW_SECONDS
    IntentTtl,  \* intent_ttl_hours of gc
    DoneTtl,    \* done_ttl_hours of gc
    MaxRun,     \* longest execution (the action timeouts)
    MaxNow      \* bound: the clock

ASSUME NoKeyAssumption == NoKey \notin Keys

\* 600 s, 7 days, 30 days, and 100 minutes in the code.
ASSUME TimesAssumption ==
    /\ {Window, IntentTtl, DoneTtl, MaxRun, MaxNow} \subseteq Nat
    /\ MaxRun + Window <= IntentTtl
    /\ Window <= DoneTtl

VARIABLES
    now,
    up,         \* whether the process is up
    row,        \* row[k]: the table activity_log
    inFlight,   \* _in_flight
    runs,       \* runs[c]: the key that call c executes
    \* --- history, not part of the program
    effect,     \* effect[k]: what is known of k's latest execution
    wiped       \* keys in use by a call when the agent was reset

vars == <<now, up, row, inFlight, runs, effect, wiped>>

\* updated_at is the time stamp of a row.
Row == [status : {"none", "INTENT", "DONE", "FAILED"}, updated_at : Nat]

\* An execution has succeeded ("sent"), was cut by the death of the process,
\* or was stopped: cancelled by the user or timed out. "none": it failed, or
\* the agent was warned about it since.
Effect == [what : {"none", "running", "sent", "cut", "stopped"}, at : Nat]

TypeOK ==
    /\ now \in Nat
    /\ up \in BOOLEAN
    /\ row \in [Keys -> Row]
    /\ inFlight \in SUBSET Keys
    /\ runs \in [Calls -> Keys \cup {NoKey}]
    /\ effect \in [Keys -> Effect]
    /\ wiped \in SUBSET Keys

NoRow == [status |-> "none", updated_at |-> 0]
NoEffect == [what |-> "none", at |-> 0]

Init == /\ now = 0
        /\ up = TRUE
        /\ row = [k \in Keys |-> NoRow]
        /\ inFlight = {}
        /\ runs = [c \in Calls |-> NoKey]
        /\ effect = [k \in Keys |-> NoEffect]
        /\ wiped = {}

Running(k) == \E c \in Calls : runs[c] = k
Stamped(status) == [status |-> status, updated_at |-> now]

-----------------------------------------------------------------------------
(* begin() *)

\* Mutation of MayProceed: the dedup window is measured from the wrong end.
MayProceedInside(k) ==
    \/ row[k].status \in {"none", "FAILED"}
    \/ row[k].status = "DONE" /\ now - row[k].updated_at <= Window

\* Nothing known, a failed run, or a success that is long past.
MayProceed(k) ==
    \/ row[k].status \in {"none", "FAILED"}
    \/ row[k].status = "DONE" /\ now - row[k].updated_at > Window

\* Mutation of Proceed: the call is not remembered as in flight.
ProceedForgotten(c, k) ==
    /\ up
    /\ runs[c] = NoKey
    /\ MayProceed(k)
    /\ row' = [row EXCEPT ![k] = Stamped("INTENT")]
    /\ runs' = [runs EXCEPT ![c] = k]
    /\ effect' = [effect EXCEPT ![k] = [what |-> "running", at |-> now]]
    /\ UNCHANGED <<now, up, inFlight, wiped>>

\* record_intent, and the action starts.
Proceed(c, k) ==
    /\ up
    /\ runs[c] = NoKey
    /\ MayProceed(k)
    /\ row' = [row EXCEPT ![k] = Stamped("INTENT")]
    /\ inFlight' = inFlight \cup {k}
    /\ runs' = [runs EXCEPT ![c] = k]
    /\ effect' = [effect EXCEPT ![k] = [what |-> "running", at |-> now]]
    /\ UNCHANGED <<now, up, wiped>>

\* A stale INTENT: mark_uncertain_surfaced, and the call gets the warning.
Warn(k) ==
    /\ up
    /\ row[k].status = "INTENT"
    /\ k \notin inFlight
    /\ row' = [row EXCEPT ![k] = Stamped("FAILED")]
    /\ effect' = [effect EXCEPT ![k] = NoEffect]
    /\ UNCHANGED <<now, up, inFlight, runs, wiped>>

-----------------------------------------------------------------------------
(* complete() *)

\* record_outcome is an UPDATE: without a row it does nothing.
Outcome(k, status) ==
    IF row[k].status = "none" THEN row
    ELSE [row EXCEPT ![k] = Stamped(status)]

\* What both ends of a call share: the action returns and the key is no
\* longer in flight.
Leaves(c, k, what) ==
    /\ up
    /\ runs[c] = k
    /\ runs' = [runs EXCEPT ![c] = NoKey]
    /\ inFlight' = inFlight \ {k}
    /\ effect' = [effect EXCEPT ![k] = IF what = "none" THEN NoEffect
                                       ELSE [what |-> what, at |-> now]]
    /\ UNCHANGED <<now, up, wiped>>

Succeeds(c, k) == Leaves(c, k, "sent") /\ row' = Outcome(k, "DONE")

Fails(c, k) == Leaves(c, k, "none") /\ row' = Outcome(k, "FAILED")

\* Cancelled by a stop or timed out: an error for execute_action, although
\* its thread may have done all of its work.
IsStopped(c, k) == Leaves(c, k, "stopped") /\ row' = Outcome(k, "FAILED")

\* Mutation of OutcomeLost: the row would be written before the key is
\* discarded, so an error of the database leaves the key in flight.
OutcomeLostFirst(c, k) ==
    /\ up
    /\ runs[c] = k
    /\ runs' = [runs EXCEPT ![c] = NoKey]
    /\ effect' = [effect EXCEPT ![k] = [what |-> "sent", at |-> now]]
    /\ UNCHANGED <<now, up, row, inFlight, wiped>>

\* The database refuses the outcome; execute_action logs it and goes on.
OutcomeLost(c, k) == Leaves(c, k, "sent") /\ UNCHANGED row

-----------------------------------------------------------------------------
(* The process and the clock *)

\* _in_flight is gone with the process.
Crash ==
    /\ up
    /\ up' = FALSE
    /\ inFlight' = {}
    /\ runs' = [c \in Calls |-> NoKey]
    /\ effect' = [k \in Keys |-> IF effect[k].what = "running"
                                 THEN [effect[k] EXCEPT !.what = "cut"]
                                 ELSE effect[k]]
    /\ UNCHANGED <<now, row, wiped>>

\* gc at boot: stale intents become FAILED, old settled rows are deleted.
Collected(r) ==
    CASE r.status = "INTENT" /\ now - r.updated_at > IntentTtl -> Stamped("FAILED")
      [] r.status \in {"DONE", "FAILED"} /\ now - r.updated_at > DoneTtl -> NoRow
      [] OTHER -> r
Boot ==
    /\ ~up
    /\ up' = TRUE
    /\ row' = [k \in Keys |-> Collected(row[k])]
    /\ UNCHANGED <<now, inFlight, runs, effect, wiped>>

\* The agent reset clears the table, calls of surviving sessions go on.
Reset ==
    /\ up
    /\ row' = [k \in Keys |-> NoRow]
    /\ effect' = [k \in Keys |-> IF Running(k) THEN effect[k] ELSE NoEffect]
    /\ wiped' = wiped \cup {k \in Keys : Running(k)}
    /\ UNCHANGED <<now, up, inFlight, runs>>

\* An execution is over after MaxRun.
Tick ==
    /\ now < MaxNow
    /\ \A k \in Keys : Running(k) => now - effect[k].at < MaxRun
    /\ now' = now + 1
    /\ UNCHANGED <<up, row, inFlight, runs, effect, wiped>>

Next ==
    \/ \E c \in Calls, k \in Keys :
          \/ Proceed(c, k) \/ Succeeds(c, k) \/ Fails(c, k)
          \/ IsStopped(c, k) \/ OutcomeLost(c, k)
    \/ \E k \in Keys : Warn(k)
    \/ Crash \/ Boot \/ Reset \/ Tick

Spec == Init /\ [][Next]_vars

-----------------------------------------------------------------------------
(* Properties. The keys in wiped are exempt: for a call that was under way
   when the agent was reset the ledger remembers nothing. *)

\* "completed runs are never silently re-executed after a crash"
\* (agent_base.py): no execution starts while one is under way, within Window
\* of one that succeeded, or, unless the agent was warned, within IntentTtl of
\* one that the death of the process cut.
NoBlindRepeat ==
    [][\A c \in Calls, k \in Keys \ wiped :
          Proceed(c, k) =>
             \/ effect[k].what \in {"none", "stopped"}
             \/ effect[k].what = "sent" /\ now - effect[k].at > Window
             \/ effect[k].what = "cut" /\ now - effect[k].at > IntentTtl]_vars

\* A key in flight is being executed: the answer "already running, wait" is
\* never given for a call that is over, which would block its key until the
\* next restart; and a call under way is never taken for a crashed one.
InFlightIsRunning ==
    /\ \A k \in inFlight : Running(k)
    /\ \A k \in Keys \ wiped : Running(k) => k \in inFlight

\* The same action does not run twice at once.
OneAtATime ==
    \A c, d \in Calls :
        runs[c] = runs[d] /\ c # d => runs[c] \in wiped \cup {NoKey}
=============================================================================
