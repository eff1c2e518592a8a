----------------------------- MODULE EventStream -----------------------------
(***************************************************************************)
(* What the model has read: the event stream of one session                *)
(* (event_stream/event_stream.py), the provider's session history for its  *)
(* action selection (llm/interface.py), the router that sends the one to   *)
(* the other and folds the stream when a request does not fit              *)
(* (action/router.py), and what a restart restores of both.                *)
(*                                                                         *)
(* Events are numbered as they are logged. The tail is a list in the code, *)
(* and always one in the order of these numbers: events are appended, and  *)
(* a fold takes out some of a leading part, keeping the order of the rest. *)
(* So the tail is a set here, and an index into it counts its least        *)
(* elements.                                                               *)
(***************************************************************************)
EXTENDS Integers, FiniteSets, FiniteSetsExt

CONSTANTS
    MinKeep,      \* MIN_KEEP_RECENT_EVENTS
    MaxAttempts,  \* max_retries of _prompt_for_decision
    MaxEvents,    \* bound: events
    kind,         \* kind[e]: what event e is
    MaxCrashes,   \* bound: process deaths
    Env           \* which of EnvOps happen

\* "late_event": another producer logs while a request is in flight;
\* "fallback": a fallback provider serves a request the primary failed;
\* "switch": the user changes the provider while a request is in flight;
\* "late_answer": the answer to a cancelled request reaches the history.
EnvOps == {"late_event", "fallback", "switch", "late_answer"}

ASSUME BoundsAssumption ==
    /\ MinKeep \in Nat /\ MaxAttempts \in Nat \ {0}
    /\ MaxEvents \in Nat /\ MaxCrashes \in Nat
ASSUME EnvAssumption == Env \subseteq EnvOps

Events == 1..MaxEvents

\* "big": longer than MAX_EVENT_INLINE_CHARS; "schemas": of action sets;
\* "requirements": the one of PROTECTED_SUMMARY_KINDS.
ASSUME KindAssumption ==
    kind \in [Events -> {"plain", "big", "schemas", "requirements"}]

VARIABLES
    \* --- the stream
    logged,     \* the number of the last event
    tail,       \* tail_events
    delivered,  \* events of the tail marked delivered
    pointers,   \* events of the tail replaced by a pointer to a file
    summary,    \* events head_summary stands for
    sync,       \* _session_sync_points[ACTION_SELECTION]
    \* --- the provider interface
    history,    \* events in _session_histories
    checkpoint, \* _checkpoints
    orphan,     \* events in a cancelled request that may still be answered
    \* --- the router
    turn,       \* the decision being made
    \* --- session storage
    disk,
    crashes,
    \* --- history, not part of the program
    received,   \* events in a request that was answered, or that a restart
                \* took for received
    lost,       \* events a fold removed or replaced by a pointer
    strayed     \* an environment step has set the history and the stream
                \* apart since the session was last begun with a full prompt

stream == <<logged, tail, delivered, pointers, summary>>
provider == <<history, checkpoint, orphan>>
ghosts == <<received, lost, strayed>>
vars == <<stream, sync, provider, turn, disk, crashes, ghosts>>

NoSync == -1

\* Where an event stands in a list, counted from 0, and the first n of a list.
Place(list, e) == Cardinality({f \in list : f < e})
First(list, n) == {e \in list : Place(list, e) < n}

\* sync_marker(): what identifies the events before a sync point.
Marker == [point : Nat, first : Nat, last : Nat, summary : SUBSET Events]
MarkerAt(list, sum, point) ==
    LET before == First(list, point)
    IN [point |-> point, summary |-> sum,
        first |-> IF before = {} THEN 0 ELSE Min(before),
        last |-> IF before = {} THEN 0 ELSE Max(before)]

\* A saved history and the marker of the events it covers; an empty history
\* is never restored, and stands for no checkpoint.
Checkpoint == [marker : Marker, covers : SUBSET Events]
NoCheckpoint == [marker |-> MarkerAt({}, {}, 0), covers |-> {}]

\* The state of a decision: "idle" for none, "trying" at the top of an
\* attempt, "sent" while a request is in flight; "down" is a dead process.
\* original is the prompt the decision began with, prompt the one the next
\* request carries or the one in flight does; attached tells whether the
\* history the request was built from is still the session's.
Turn == [phase : {"down", "idle", "trying", "sent"}, attempt : 1..MaxAttempts,
         folded : BOOLEAN, original : SUBSET Events, prompt : SUBSET Events,
         attached : BOOLEAN]

NoTurn(phase) ==
    [phase |-> phase, attempt |-> 1, folded |-> FALSE, original |-> {},
     prompt |-> {}, attached |-> TRUE]

Disk == [tail : SUBSET Events, pointers : SUBSET Events,
         summary : SUBSET Events, llm : Checkpoint, strayed : BOOLEAN]

TypeOK ==
    /\ logged \in 0..MaxEvents
    /\ tail \subseteq 1..logged
    /\ delivered \subseteq tail /\ pointers \subseteq tail
    /\ summary \subseteq 1..logged
    /\ sync \in Nat \cup {NoSync}
    /\ history \subseteq 1..logged /\ orphan \subseteq 1..logged
    /\ checkpoint \in Checkpoint
    /\ turn \in Turn /\ disk \in Disk /\ crashes \in 0..MaxCrashes
    /\ received \subseteq Events /\ lost \subseteq Events
    /\ strayed \in BOOLEAN

Init ==
    /\ logged = 0
    /\ tail = {} /\ delivered = {} /\ pointers = {} /\ summary = {}
    /\ sync = NoSync
    /\ history = {} /\ checkpoint = NoCheckpoint /\ orphan = {}
    /\ turn = NoTurn("idle")
    /\ disk = [tail |-> {}, pointers |-> {}, summary |-> {}, llm |-> NoCheckpoint,
               strayed |-> FALSE]
    /\ crashes = 0
    /\ received = {} /\ lost = {} /\ strayed = FALSE

-----------------------------------------------------------------------------
(* The stream. *)

\* log(): the run logs its messages and the results of its actions between
\* decisions.
Log ==
    /\ \/ turn.phase = "idle"
       \/ turn.phase = "sent" /\ "late_event" \in Env
    /\ logged < MaxEvents
    /\ logged' = logged + 1
    /\ tail' = tail \cup {logged + 1}
    /\ strayed' = (strayed \/ turn.phase = "sent")
    /\ UNCHANGED <<delivered, pointers, summary, sync, provider, turn, disk,
                   crashes, received, lost>>

\* get_delta_events(): empty also when the sync point is past the tail's end.
Delta ==
    IF sync \in 0..Cardinality(tail) THEN tail \ First(tail, sync) ELSE {}

\* Mutation of Foldable: the results of the last actions are folded too.
FoldableUnread(old) ==
    /\ old \subseteq tail
    /\ \A e \in old, f \in tail : f < e => f \in old
    /\ old # {} => Cardinality(tail \ old) >= MinKeep

\* _fold_cutoff(): leading events that were delivered, leaving the most
\* recent ones; which cutoff the token budget gives is left open.
Foldable(old) ==
    /\ old \subseteq delivered
    /\ \A e \in old, f \in tail : f < e => f \in old
    /\ old # {} => Cardinality(tail \ old) >= MinKeep

Schemas(s) == {e \in s : kind[e] = "schemas"}

\* Of the events of a protected kind in the tail, the newest.
NewestProtected ==
    LET protected == {e \in tail : kind[e] = "requirements"}
    IN {e \in protected : \A f \in protected : f <= e}

\* The events `shrunk` become pointers and the events `gone` leave the tail.
\* The notice of what was folded and the new time stamp are left out.
Folds(gone, sum, shrunk) ==
    /\ tail' = tail \ gone
    /\ delivered' = delivered \ gone
    /\ pointers' = (pointers \cup shrunk) \ gone
    /\ summary' = sum
    /\ lost' = lost \cup gone \cup shrunk
    /\ UNCHANGED logged

\* summarize_by_LLM(): oversized events the fold keeps become pointers first,
\* which can only move the cutoff back. Of the events before the cutoff the
\* newest requirements and the schemas still in use stay, the other schemas
\* are dropped, and the rest is summarised, pruned when the LLM fails or there
\* is too little of it, or kept when the summary comes back empty.
Fold ==
    \E cutoff, old \in SUBSET tail :
        LET shrunk == {e \in (tail \ cutoff) \cap delivered : kind[e] = "big"}
                      \ pointers
        IN /\ Foldable(cutoff) /\ Foldable(old) /\ old \subseteq cutoff
           /\ shrunk = {} => old = cutoff
           /\ \E inUse \in SUBSET Schemas(old) :
                LET dropped == Schemas(old) \ inUse
                    chunk == old \ (Schemas(old) \cup NewestProtected)
                IN \/ chunk # {} /\ Folds({}, summary, shrunk)
                   \/ Folds(chunk \cup dropped, summary, shrunk)
                   \/ Folds(chunk \cup dropped, summary \cup chunk, shrunk)

\* collapse_undelivered_oversize(): what it would replace by pointers.
Unread == {e \in tail \ delivered : kind[e] = "big"} \ pointers

-----------------------------------------------------------------------------
(* The router. *)

\* reset_session_history(): a request still in flight keeps a list that no
\* one reads any more.
ResetHistory ==
    /\ history' = {} /\ checkpoint' = NoCheckpoint /\ orphan' = {}
    /\ sync' = NoSync
    /\ strayed' = FALSE

\* select_action(): renders the stream and enters _prompt_for_decision.
Begin ==
    /\ turn.phase = "idle" /\ tail # {}
    /\ turn' = [NoTurn("trying") EXCEPT !.original = tail, !.prompt = tail]
    /\ UNCHANGED <<stream, sync, provider, disk, crashes, ghosts>>

\* A request of the session that carries the new events only.
SendDelta ==
    /\ turn.phase = "trying" /\ sync # NoSync /\ Delta # {}
    /\ turn' = [turn EXCEPT !.phase = "sent", !.prompt = Delta]
    /\ UNCHANGED <<stream, sync, provider, disk, crashes, ghosts>>

\* The request would not fit: the stream is folded and the session begins
\* anew with what is left of it.
FoldToFit ==
    /\ turn.phase = "trying" /\ sync # NoSync /\ Delta # {} /\ ~turn.folded
    /\ Fold
    /\ ResetHistory
    /\ turn' = [turn EXCEPT !.phase = "sent", !.folded = TRUE, !.prompt = tail']
    /\ UNCHANGED <<disk, crashes, received>>

\* The first request of a session, or one with nothing new: the whole prompt.
SendFull ==
    /\ turn.phase = "trying" /\ (sync = NoSync \/ Delta = {})
    /\ ResetHistory
    /\ turn' = [turn EXCEPT !.phase = "sent"]
    /\ UNCHANGED <<stream, disk, crashes, received, lost>>

\* What follows an answered request whose session history is `known`:
\* mark_session_synced and checkpoint_session.
Marks(known, astray) ==
    /\ history' = known
    /\ sync' = Cardinality(tail)
    /\ delivered' = tail
    /\ received' = received \cup turn.prompt
    /\ strayed' = (strayed \/ astray)
    /\ checkpoint' =
         IF turn.attached
         THEN [marker |-> MarkerAt(tail, summary, Cardinality(tail)),
               covers |-> known]
         ELSE NoCheckpoint
    /\ UNCHANGED <<logged, tail, pointers, summary, orphan, disk,
                   crashes, lost>>

\* The provider appends an answered request to the list it was built from.
Answered == IF turn.attached THEN history \cup turn.prompt ELSE history

\* Another attempt with the original prompt, or the error of the last one.
Retries ==
    turn' = IF turn.attempt = MaxAttempts THEN NoTurn("idle")
            ELSE [turn EXCEPT !.phase = "trying", !.attempt = @ + 1,
                              !.prompt = turn.original, !.attached = TRUE]

Decides ==
    /\ turn.phase = "sent"
    /\ Marks(Answered, ~turn.attached)
    /\ turn' = NoTurn("idle")

\* The answer cannot be parsed.
Garbles ==
    /\ turn.phase = "sent"
    /\ Marks(Answered, ~turn.attached)
    /\ Retries

\* _try_fallback(): another provider, with a history of its own, is sent the
\* same prompt; the caller sees an answer like any other.
FallbackServes ==
    /\ "fallback" \in Env /\ turn.phase = "sent"
    /\ Marks(history, TRUE)
    /\ Retries \/ turn' = NoTurn("idle")

\* A provider error, and the failure that ends the decision at once.
ProviderFails ==
    /\ turn.phase = "sent"
    /\ Retries \/ turn' = NoTurn("idle")
    /\ UNCHANGED <<stream, sync, provider, disk, crashes, ghosts>>

\* After an overflow the loop goes on with the prompt rendered from what is
\* left, and ends when that was the last attempt.
TriesFolded ==
    turn' = IF turn.attempt = MaxAttempts THEN NoTurn("idle")
            ELSE [turn EXCEPT !.phase = "trying", !.attempt = @ + 1,
                              !.folded = TRUE, !.prompt = tail', !.attached = TRUE]

\* LLMContextOverflowError, before the request is sent or by the provider.
OverflowFolds ==
    /\ turn.phase = "sent" /\ ~turn.folded
    /\ Fold
    /\ ResetHistory
    /\ TriesFolded
    /\ UNCHANGED <<disk, crashes, received>>

OverflowCollapses ==
    /\ turn.phase = "sent" /\ turn.folded /\ Unread # {}
    /\ pointers' = pointers \cup Unread
    /\ ResetHistory
    /\ UNCHANGED tail /\ TriesFolded
    /\ UNCHANGED <<logged, delivered, summary, disk, crashes, received,
                   lost>>

OverflowRaises ==
    /\ turn.phase = "sent" /\ turn.folded /\ Unread = {}
    /\ turn' = NoTurn("idle")
    /\ UNCHANGED <<stream, sync, provider, disk, crashes, ghosts>>

\* A user stop cancels the turn; the thread that waits for the provider goes
\* on, and would append the answer to the history.
Cancel ==
    /\ turn.phase = "sent"
    /\ turn' = NoTurn("idle")
    /\ orphan' = IF "late_answer" \in Env /\ turn.attached
                 THEN orphan \cup turn.prompt ELSE orphan
    /\ UNCHANGED <<stream, sync, history, checkpoint, disk, crashes, ghosts>>

LateAnswer ==
    /\ turn.phase # "down" /\ orphan # {}
    /\ history' = history \cup orphan
    /\ orphan' = {} /\ strayed' = TRUE
    /\ UNCHANGED <<stream, sync, checkpoint, turn, disk, crashes, received, lost>>

-----------------------------------------------------------------------------
(* The session around the router. *)

\* A capability change re-registers the session and resets its sync point.
Recompile ==
    /\ turn.phase = "idle"
    /\ sync' = NoSync
    /\ UNCHANGED <<stream, provider, turn, disk, crashes, ghosts>>

\* reinitialize_llm() with another provider: histories are not reusable.
SwitchProvider ==
    /\ \/ turn.phase = "idle"
       \/ turn.phase = "sent" /\ "switch" \in Env
    /\ ResetHistory
    /\ turn' = [turn EXCEPT !.attached = turn.phase = "idle"]
    /\ UNCHANGED <<stream, disk, crashes, received, lost>>

\* clear_session(), which has stopped the run; only the stream is saved.
Clear ==
    /\ turn.phase = "idle"
    /\ tail' = {} /\ delivered' = {} /\ pointers' = {} /\ summary' = {}
    /\ ResetHistory
    /\ disk' = [disk EXCEPT !.tail = {}, !.pointers = {}, !.summary = {}]
    /\ UNCHANGED <<logged, turn, crashes, received, lost>>

SavedStream ==
    [disk EXCEPT !.tail = tail, !.pointers = pointers, !.summary = summary]

\* The persist hook of the session manager, at every change of the session.
\* Between two attempts the event loop runs nothing else. What no restart
\* within MaxCrashes reads is not saved.
PersistStream ==
    /\ turn.phase \in {"idle", "sent"} /\ crashes < MaxCrashes
    /\ disk' = SavedStream
    /\ UNCHANGED <<stream, sync, provider, turn, crashes, ghosts>>

\* A run settles: the stream, then the session's LLM state, are saved.
PersistRun ==
    /\ turn.phase = "idle" /\ crashes < MaxCrashes
    /\ disk' = [SavedStream EXCEPT !.llm = checkpoint, !.strayed = strayed]
    /\ UNCHANGED <<stream, sync, provider, turn, crashes, ghosts>>

Crash ==
    /\ turn.phase \in {"idle", "sent"} /\ crashes < MaxCrashes
    /\ crashes' = crashes + 1
    /\ turn' = NoTurn("down")
    /\ tail' = {} /\ delivered' = {} /\ pointers' = {} /\ summary' = {}
    /\ ResetHistory
    /\ UNCHANGED <<logged, disk, received, lost>>

\* Mutation of Restorable: that the tail is long enough is enough.
RestorableByLength(ck) ==
    /\ ck.covers # {}
    /\ ck.marker.point \in 0..Cardinality(disk.tail)

\* import_session() and restore_sync_point(): the saved history comes back if
\* the provider is the one that built it and the stream still has the events
\* it covers.
Restorable(ck) ==
    /\ ck.covers # {}
    /\ ck.marker.point \in 0..Cardinality(disk.tail)
    /\ MarkerAt(disk.tail, disk.summary, ck.marker.point) = ck.marker

\* _restore_sessions().
Boot ==
    /\ turn.phase = "down"
    /\ turn' = NoTurn("idle")
    /\ tail' = disk.tail /\ pointers' = disk.pointers /\ summary' = disk.summary
    /\ \/ /\ Restorable(disk.llm)
          /\ sync' = disk.llm.marker.point
          /\ history' = disk.llm.covers /\ checkpoint' = disk.llm
          /\ strayed' = disk.strayed
          /\ delivered' = First(disk.tail, disk.llm.marker.point)
       \/ /\ sync' = NoSync
          /\ history' = {} /\ checkpoint' = NoCheckpoint
          /\ strayed' = FALSE
          /\ delivered' = disk.tail
    /\ received' = received \cup delivered'
    /\ UNCHANGED <<logged, orphan, disk, crashes, lost>>

Next ==
    \/ Log
    \/ Begin \/ SendDelta \/ FoldToFit \/ SendFull
    \/ Decides \/ Garbles \/ FallbackServes \/ ProviderFails
    \/ OverflowFolds \/ OverflowCollapses \/ OverflowRaises
    \/ Cancel \/ LateAnswer
    \/ Recompile \/ SwitchProvider \/ Clear
    \/ PersistStream \/ PersistRun \/ Crash \/ Boot

Spec == Init /\ [][Next]_vars

-----------------------------------------------------------------------------
(* Properties. *)

\* Nothing is skipped: an event before the sync point, which no request will
\* carry again, is in the history the provider is sent.
NothingSkipped == sync # NoSync => First(tail, sync) \subseteq history

\* Nothing is sent twice: a request carries no event the history before it
\* holds already.
NothingTwice == turn.phase = "sent" /\ turn.attached => turn.prompt \cap history = {}

\* The provider's session and the stream stay in step, through retries, folds,
\* cancelled requests, provider changes, clears and restarts: the history and
\* the events after the sync point make up the stream, with no gap and no
\* overlap. When the environment has set the two apart, the next full prompt
\* brings them together again.
InStep == strayed \/ (NothingSkipped /\ NothingTwice)

\* A fold takes nothing from the model that it has not read: what a fold
\* summarised, pruned, dropped or replaced by a pointer was carried by a
\* request the model answered (or a restart had to take it for that).
FoldedWasRead == lost \subseteq received

\* A fold made while deciding is reflected in what is sent: no request carries
\* an event that a fold has taken out of the stream.
FoldIsReflected == turn.phase = "sent" => turn.prompt \subseteq tail
=============================================================================
