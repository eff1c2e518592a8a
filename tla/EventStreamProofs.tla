-------------------------- MODULE EventStreamProofs --------------------------
(***************************************************************************)
(* The history the provider is sent and the event stream stay in step, and *)
(* a fold takes nothing from the model that it has not read: for every     *)
(* number of events, attempts and crashes, and as long as no one else logs *)
(* while a request is in flight.                                           *)
(***************************************************************************)
EXTENDS EventStream, TLAPS, FiniteSetTheorems, WellFoundedInduction

-----------------------------------------------------------------------------
(* Lists of events. *)

LEMMA HasMin ==
    ASSUME NEW S \in SUBSET Nat, IsFiniteSet(S), S # {}
    PROVE  \E x \in S : \A y \in S : x =< y
<1> DEFINE below(x) == {y \in S : y < x}
           all == {below(x) : x \in S}
<1>1. all \subseteq FiniteSubsetsOf(S) /\ all # {}
  <2>1. \A x \in S : below(x) \in SUBSET S /\ IsFiniteSet(below(x)) BY FS_Subset
  <2> QED BY <2>1 DEF FiniteSubsetsOf
<1>2. PICK least \in all : \A T \in all : ~ (<<T, least>> \in StrictSubsetOrdering(S))
  BY <1>1, FS_StrictSubsetOrderingWellFounded, WFMin
<1>3. PICK x \in S : least = below(x) OBVIOUS
<1>4. ASSUME NEW y \in S, y < x PROVE FALSE
  <2>1. below(y) \subseteq least /\ y \in least /\ y \notin below(y)
    <3> x \in Int /\ y \in Int OBVIOUS
    <3>1. ASSUME NEW z \in below(y) PROVE z \in least
      <4> z \in Int /\ z \in S OBVIOUS
      <4>1. z < x BY <1>4
      <4> QED BY <4>1, <1>3
    <3>2. y \in least BY <1>3, <1>4
    <3>3. ~ (y < y) OBVIOUS
    <3>4. y \notin below(y) BY <3>3
    <3> HIDE DEF below
    <3> QED BY <3>1, <3>2, <3>4
  <2>2. below(y) \in SUBSET S /\ least \in SUBSET S BY <1>3
  <2>3. <<below(y), least>> \in StrictSubsetOrdering(S)
    BY <2>1, <2>2 DEF StrictSubsetOrdering
  <2> QED BY <1>2, <2>3
<1> QED BY <1>4

LEMMA HasMax ==
    ASSUME NEW S \in SUBSET Nat, IsFiniteSet(S), S # {}
    PROVE  \E x \in S : \A y \in S : x >= y
<1> DEFINE above(x) == {y \in S : y > x}
           all == {above(x) : x \in S}
<1>1. all \subseteq FiniteSubsetsOf(S) /\ all # {}
  <2>1. \A x \in S : above(x) \in SUBSET S /\ IsFiniteSet(above(x)) BY FS_Subset
  <2> QED BY <2>1 DEF FiniteSubsetsOf
<1>2. PICK least \in all : \A T \in all : ~ (<<T, least>> \in StrictSubsetOrdering(S))
  BY <1>1, FS_StrictSubsetOrderingWellFounded, WFMin
<1>3. PICK x \in S : least = above(x) OBVIOUS
<1>4. ASSUME NEW y \in S, y > x PROVE FALSE
  <2>1. above(y) \subseteq least /\ y \in least /\ y \notin above(y)
    <3> x \in Int /\ y \in Int OBVIOUS
    <3>1. ASSUME NEW z \in above(y) PROVE z \in least
      <4> z \in Int /\ z \in S OBVIOUS
      <4>1. z > x BY <1>4
      <4> QED BY <4>1, <1>3
    <3>2. y \in least BY <1>3, <1>4
    <3>3. ~ (y > y) OBVIOUS
    <3>4. y \notin above(y) BY <3>3
    <3> HIDE DEF above
    <3> QED BY <3>1, <3>2, <3>4
  <2>2. above(y) \in SUBSET S /\ least \in SUBSET S BY <1>3
  <2>3. <<above(y), least>> \in StrictSubsetOrdering(S)
    BY <2>1, <2>2 DEF StrictSubsetOrdering
  <2> QED BY <1>2, <2>3
<1> QED BY <1>4

LEMMA ExtremeTypes ==
    ASSUME NEW S \in SUBSET Nat, IsFiniteSet(S), S # {}
    PROVE  /\ Min(S) \in S /\ \A y \in S : Min(S) =< y
           /\ Max(S) \in S /\ \A y \in S : Max(S) >= y
BY HasMin, HasMax DEF Min, Max

LEMMA ListType ==
    ASSUME NEW N \in Nat, NEW list \in SUBSET (1..N)
    PROVE  IsFiniteSet(list) /\ Cardinality(list) \in Nat
<1>1. IsFiniteSet(1..N) BY FS_Interval
<1> QED BY <1>1, FS_Subset, FS_CardinalityType

LEMMA PlaceType ==
    ASSUME NEW N \in Nat, NEW list \in SUBSET (1..N), NEW e \in Int
    PROVE  /\ Place(list, e) \in Nat /\ Place(list, e) =< Cardinality(list)
           /\ e \in list => Place(list, e) < Cardinality(list)
<1> DEFINE before == {f \in list : f < e}
<1>1. IsFiniteSet(list) /\ Cardinality(list) \in Nat BY ListType
<1>2. before \in SUBSET list OBVIOUS
<1>3. IsFiniteSet(before) /\ Cardinality(before) =< Cardinality(list)
  BY <1>1, <1>2, FS_Subset
<1>4. Cardinality(before) \in Nat BY <1>3, FS_CardinalityType
<1>5. ASSUME e \in list PROVE before # list BY <1>5
<1>6. Cardinality(before) = Cardinality(list) => before = list
  BY <1>1, <1>2, FS_Subset
<1> QED BY <1>1, <1>3, <1>4, <1>5, <1>6 DEF Place

\* The whole list is its first Cardinality(list) elements.
LEMMA FirstAll ==
    ASSUME NEW N \in Nat, NEW list \in SUBSET (1..N)
    PROVE  First(list, Cardinality(list)) = list
<1>1. \A e \in list : e \in Int OBVIOUS
<1>2. \A e \in list : Place(list, e) < Cardinality(list) BY <1>1, PlaceType
<1> QED BY <1>2 DEF First

\* A new event changes no first part of the list before it.
LEMMA FirstGrown ==
    ASSUME NEW N \in Nat, NEW list \in SUBSET (1..N), NEW n \in Nat,
           n =< Cardinality(list)
    PROVE  First(list \cup {N + 1}, n) = First(list, n)
<1> DEFINE grown == list \cup {N + 1}
<1> \A e \in list : e \in Int /\ e < N + 1 OBVIOUS
<1>1. ASSUME NEW e \in list PROVE Place(grown, e) = Place(list, e)
  <2>1. {f \in grown : f < e} = {f \in list : f < e} OBVIOUS
  <2> QED BY <2>1 DEF Place
<1>2. ~ (Place(grown, N + 1) < n)
  <2>1. {f \in grown : f < N + 1} = list
    <3>1. ~ (N + 1 < N + 1) OBVIOUS
    <3> QED BY <3>1
  <2>2. Cardinality(list) \in Nat BY ListType
  <2>3. Place(grown, N + 1) = Cardinality(list) BY <2>1 DEF Place
  <2> QED BY <2>2, <2>3
<1> QED BY <1>1, <1>2 DEF First

\* A first part holds every event before one of its own.
LEMMA FirstClosed ==
    ASSUME NEW N \in Nat, NEW list \in SUBSET (1..N), NEW n \in Nat,
           NEW e \in First(list, n), NEW f \in list, f < e
    PROVE  f \in First(list, n)
<1> DEFINE below(x) == {g \in list : g < x}
<1> e \in list /\ \A g \in list : g \in Int BY DEF First
<1>1. below(f) \in SUBSET below(e)
  <2>1. ASSUME NEW g \in below(f) PROVE g < e
    <3> g \in Int /\ f \in Int /\ e \in Int /\ g < f /\ f < e OBVIOUS
    <3> QED OBVIOUS
  <2> QED BY <2>1
<1>2. IsFiniteSet(list) BY ListType
<1>3. IsFiniteSet(below(e)) BY <1>2, FS_Subset
<1>4. Cardinality(below(f)) =< Cardinality(below(e)) BY <1>1, <1>3, FS_Subset
<1>5. Place(list, e) \in Nat /\ Place(list, f) \in Nat BY PlaceType
<1> QED BY <1>4, <1>5 DEF First, Place

LEMMA MarkerType ==
    ASSUME NEW N \in Nat, N =< MaxEvents, NEW list \in SUBSET (1..N),
           NEW sum \in SUBSET Events, NEW point \in Nat
    PROVE  MarkerAt(list, sum, point) \in Marker
<1> DEFINE before == First(list, point)
<1> \A e \in list : e \in Nat OBVIOUS
<1>1. before \in SUBSET Nat /\ before \in SUBSET list BY DEF First
<1>2. IsFiniteSet(before) BY <1>1, ListType, FS_Subset
<1>3. before # {} => Min(before) \in Nat /\ Max(before) \in Nat
  BY <1>1, <1>2, ExtremeTypes
<1> HIDE DEF before
<1> QED BY <1>3 DEF MarkerAt, Marker, before

-----------------------------------------------------------------------------
(* Types. *)

\* What TypeOK needs to be inductive: the events of requests, saved streams
\* and saved histories have been logged.
Logged ==
    /\ turn.prompt \subseteq 1..logged /\ turn.original \subseteq 1..logged
    /\ checkpoint.covers \subseteq 1..logged
    /\ disk.tail \subseteq 1..logged /\ disk.pointers \subseteq disk.tail
    /\ disk.summary \subseteq 1..logged /\ disk.llm.covers \subseteq 1..logged

\* What the model was sent: all that is marked delivered; and a decision began
\* with all that is in the stream.
Reads ==
    /\ delivered \subseteq received /\ lost \subseteq received
    /\ sync # NoSync => /\ sync =< Cardinality(tail)
                        /\ First(tail, sync) \subseteq delivered
    /\ turn.phase \in {"trying", "sent"} => tail \subseteq turn.original
    /\ turn.phase = "trying" => tail \subseteq turn.prompt
    /\ turn.phase = "sent" => tail \subseteq received \cup turn.prompt

Inv == TypeOK /\ Logged /\ Reads

\* Between two answers no one else logs.
Alone == "late_event" \notin Env

LEMMA Bounds ==
    /\ MaxEvents \in Nat /\ MaxCrashes \in Nat /\ MaxAttempts \in Nat
    /\ 1 \in 1..MaxAttempts
BY BoundsAssumption

LEMMA LoggedEvents == ASSUME TypeOK PROVE logged \in Nat /\ (1..logged) \subseteq Events
BY Bounds DEF TypeOK, Events

LEMMA NoTurnType == ASSUME NEW phase \in {"down", "idle"} PROVE NoTurn(phase) \in Turn
BY Bounds DEF NoTurn, Turn

LEMMA NoCheckpointType == NoCheckpoint \in Checkpoint /\ NoCheckpoint.covers = {}
<1>1. MarkerAt({}, {}, 0) \in Marker
  <2>1. First({}, 0) = {} BY DEF First
  <2> QED BY <2>1 DEF MarkerAt, Marker
<1> QED BY <1>1 DEF NoCheckpoint, Checkpoint

LEMMA InvInit == Init => Inv
<1> SUFFICES ASSUME Init PROVE Inv OBVIOUS
<1> USE NoCheckpointType DEF Init
<1>1. turn \in Turn BY NoTurnType
<1>2. disk \in Disk BY DEF Disk
<1>3. crashes \in 0..MaxCrashes /\ logged \in 0..MaxEvents BY Bounds
<1>4. TypeOK BY <1>1, <1>2, <1>3 DEF TypeOK, NoSync
<1>5. Logged BY DEF Logged, NoTurn
<1>6. Reads BY DEF Reads, NoTurn, NoSync
<1> QED BY <1>4, <1>5, <1>6 DEF Inv

-----------------------------------------------------------------------------
(* The helpers of the actions. *)

\* A fold takes from the tail only what was delivered.
LEMMA FoldFacts ==
    ASSUME Inv, Fold
    PROVE  /\ tail' \subseteq tail /\ delivered' \subseteq delivered
           /\ delivered' \subseteq tail' /\ pointers' \subseteq tail'
           /\ summary' \subseteq 1..logged /\ logged' = logged
           /\ lost' \subseteq lost \cup delivered
<1>1. PICK gone, sum, shrunk :
        /\ Folds(gone, sum, shrunk)
        /\ gone \subseteq delivered /\ shrunk \subseteq delivered
        /\ sum \subseteq summary \cup tail
  <2>1. PICK cutoff \in SUBSET tail, old \in SUBSET tail :
          LET shrunk == {e \in (tail \ cutoff) \cap delivered : kind[e] = "big"}
                        \ pointers
          IN /\ Foldable(old)
             /\ \E inUse \in SUBSET Schemas(old) :
                  LET dropped == Schemas(old) \ inUse
                      chunk == old \ (Schemas(old) \cup NewestProtected)
                  IN \/ chunk # {} /\ Folds({}, summary, shrunk)
                     \/ Folds(chunk \cup dropped, summary, shrunk)
                     \/ Folds(chunk \cup dropped, summary \cup chunk, shrunk)
    BY DEF Fold
  <2> DEFINE shrunk == {e \in (tail \ cutoff) \cap delivered : kind[e] = "big"}
                       \ pointers
             chunk == old \ (Schemas(old) \cup NewestProtected)
  <2>2. PICK inUse \in SUBSET Schemas(old) :
          \/ Folds({}, summary, shrunk)
          \/ Folds(chunk \cup (Schemas(old) \ inUse), summary, shrunk)
          \/ Folds(chunk \cup (Schemas(old) \ inUse), summary \cup chunk, shrunk)
    BY <2>1
  <2>3. old \subseteq delivered /\ Schemas(old) \subseteq old
    BY <2>1 DEF Foldable, Schemas
  <2>4. shrunk \subseteq delivered /\ chunk \subseteq old OBVIOUS
  <2> HIDE DEF shrunk, chunk
  <2> QED BY <2>2, <2>3, <2>4
<1>2. delivered \subseteq tail /\ pointers \subseteq tail /\ summary \subseteq 1..logged
      /\ tail \subseteq 1..logged
  BY DEF Inv, TypeOK
<1> QED BY <1>1, <1>2 DEF Folds

LEMMA ResetFacts ==
    ASSUME ResetHistory
    PROVE  /\ history' = {} /\ checkpoint' \in Checkpoint /\ checkpoint'.covers = {}
           /\ orphan' = {} /\ sync' = NoSync /\ strayed' = FALSE
BY NoCheckpointType DEF ResetHistory

LEMMA RetriesFacts ==
    ASSUME Inv, Retries
    PROVE  /\ turn' \in Turn
           /\ \/ turn' = NoTurn("idle")
              \/ /\ turn'.phase = "trying"
                 /\ turn'.prompt = turn.original /\ turn'.original = turn.original
<1>1. CASE turn.attempt = MaxAttempts BY <1>1, NoTurnType DEF Retries
<1>2. CASE turn.attempt # MaxAttempts
  <2>1. turn \in Turn BY DEF Inv, TypeOK
  <2>2. turn.attempt + 1 \in 1..MaxAttempts BY <1>2, <2>1, Bounds DEF Turn
  <2>3. turn' = [turn EXCEPT !.phase = "trying", !.attempt = @ + 1,
                             !.prompt = turn.original, !.attached = TRUE]
    BY <1>2 DEF Retries
  <2> QED BY <2>1, <2>2, <2>3 DEF Turn
<1> QED BY <1>1, <1>2

LEMMA TriesFoldedFacts ==
    ASSUME Inv, TriesFolded, tail' \subseteq tail
    PROVE  /\ turn' \in Turn
           /\ \/ turn' = NoTurn("idle")
              \/ /\ turn'.phase = "trying"
                 /\ turn'.prompt = tail' /\ turn'.original = turn.original
<1>1. CASE turn.attempt = MaxAttempts BY <1>1, NoTurnType DEF TriesFolded
<1>2. CASE turn.attempt # MaxAttempts
  <2>1. turn \in Turn BY DEF Inv, TypeOK
  <2>2. turn.attempt + 1 \in 1..MaxAttempts BY <1>2, <2>1, Bounds DEF Turn
  <2>3. turn' = [turn EXCEPT !.phase = "trying", !.attempt = @ + 1,
                             !.folded = TRUE, !.prompt = tail', !.attached = TRUE]
    BY <1>2 DEF TriesFolded
  <2>4. tail' \subseteq Events BY LoggedEvents DEF Inv, TypeOK
  <2> QED BY <2>1, <2>2, <2>3, <2>4 DEF Turn
<1> QED BY <1>1, <1>2

LEMMA MarksFacts ==
    ASSUME Inv, turn.phase = "sent", NEW known \in SUBSET (1..logged),
           NEW astray \in BOOLEAN, Marks(known, astray),
           turn' \in Turn, turn'.prompt \subseteq 1..logged,
           turn'.original \subseteq 1..logged,
           turn'.phase \in {"idle", "trying"},
           turn'.phase = "trying" =>
             tail \subseteq turn'.prompt /\ tail \subseteq turn'.original
    PROVE  Inv'
<1>1. TypeOK /\ Logged /\ Reads BY DEF Inv
<1> DEFINE all == Cardinality(tail)
<1>2. logged \in Nat /\ logged =< MaxEvents /\ tail \in SUBSET (1..logged)
  BY <1>1, Bounds DEF TypeOK
<1>3. all \in Nat BY <1>2, ListType
<1>4. MarkerAt(tail, summary, all) \in Marker
  BY <1>1, <1>2, <1>3, LoggedEvents, MarkerType DEF TypeOK
<1>5. known \in SUBSET Events BY <1>1, LoggedEvents
<1>6. checkpoint' \in Checkpoint /\ checkpoint'.covers \subseteq 1..logged
  BY <1>4, <1>5, NoCheckpointType DEF Marks, Checkpoint
<1>7. received' \subseteq Events
  BY <1>1, LoggedEvents DEF Marks, TypeOK, Logged
<1>8. strayed' \in BOOLEAN BY <1>1 DEF Marks, TypeOK
<1>9. TypeOK' BY <1>1, <1>3, <1>6, <1>7, <1>8 DEF TypeOK, Marks
<1>10. Logged' BY <1>1, <1>6 DEF Logged, Marks
<1>11. First(tail, all) \subseteq tail BY DEF First
<1>12. Reads' BY <1>1, <1>3, <1>11 DEF Reads, Marks, NoSync
<1> QED BY <1>9, <1>10, <1>12 DEF Inv

\* A reset of the provider's session, with the stream as it was.
LEMMA ResetKeeps ==
    ASSUME Inv, ResetHistory, UNCHANGED <<stream, disk, crashes, received, lost>>,
           turn' \in Turn, turn'.prompt = turn.prompt, turn'.original = turn.original,
           turn'.phase \in {turn.phase, "sent"},
           turn'.phase = "sent" => tail \subseteq turn.prompt \cup received,
           turn'.phase # turn.phase => tail \subseteq turn.original
    PROVE  Inv'
<1>1. TypeOK /\ Logged /\ Reads BY DEF Inv
<1>2. TypeOK' BY <1>1, ResetFacts DEF TypeOK, stream, NoSync
<1>3. Logged' BY <1>1, ResetFacts DEF Logged, stream
<1>4. Reads' BY <1>1, ResetFacts DEF Reads, stream, NoSync
<1> QED BY <1>2, <1>3, <1>4 DEF Inv

\* A smaller stream and a reset of the provider's session.
LEMMA ShrinkKeeps ==
    ASSUME Inv, ResetHistory, UNCHANGED <<logged, disk, crashes, received>>,
           tail' \subseteq tail, delivered' \subseteq delivered,
           delivered' \subseteq tail', pointers' \subseteq tail',
           summary' \subseteq 1..logged, lost' \subseteq lost \cup delivered,
           turn' \in Turn, turn'.phase \in {"idle", "trying", "sent"},
           turn'.prompt \subseteq tail' \/ turn'.prompt = {},
           turn'.original \subseteq 1..logged,
           turn'.phase # "idle" =>
             turn'.prompt = tail' /\ tail' \subseteq turn'.original
    PROVE  Inv'
<1>1. TypeOK /\ Logged /\ Reads BY DEF Inv
<1>2. delivered \subseteq tail /\ delivered \subseteq received BY <1>1 DEF TypeOK, Reads
<1>3. lost' \subseteq received BY <1>1, <1>2 DEF Reads
<1>4. TypeOK'
  <2>1. tail' \subseteq 1..logged BY <1>1 DEF TypeOK
  <2>2. lost' \subseteq Events BY <1>1, <1>3 DEF TypeOK
  <2> QED BY <1>1, <2>1, <2>2, ResetFacts DEF TypeOK, NoSync
<1>5. Logged' BY <1>1, ResetFacts DEF Logged, TypeOK
<1>6. Reads' BY <1>1, <1>2, <1>3, ResetFacts DEF Reads, NoSync
<1> QED BY <1>4, <1>5, <1>6 DEF Inv

-----------------------------------------------------------------------------
(* The steps. *)

LEMMA LogKeeps == ASSUME Alone, Inv, Log PROVE Inv'
<1>1. TypeOK /\ Logged /\ Reads BY DEF Inv
<1>2. turn.phase = "idle" BY DEF Log, Alone
<1>3. logged \in Nat /\ logged < MaxEvents /\ MaxEvents \in Nat
  BY <1>1, Bounds DEF Log, TypeOK
<1>4. logged' = logged + 1 /\ tail' = tail \cup {logged + 1} BY DEF Log
<1>5. (1..logged) \subseteq (1..logged') /\ logged' \in 0..MaxEvents
      /\ logged + 1 \in 1..logged'
  BY <1>3, <1>4
<1>6. TypeOK'
  <2>1. tail' \subseteq 1..logged' BY <1>1, <1>4, <1>5 DEF TypeOK
  <2>2. strayed' \in BOOLEAN BY <1>1 DEF Log, TypeOK
  <2> QED BY <1>1, <1>4, <1>5, <2>1, <2>2 DEF Log, TypeOK, provider
<1>7. Logged' BY <1>1, <1>5 DEF Log, Logged, provider
<1>8. Reads'
  <2>1. CASE sync = NoSync BY <1>1, <1>2, <2>1 DEF Log, Reads, provider, NoSync
  <2>2. CASE sync # NoSync
    <3>1. tail \in SUBSET (1..logged) /\ sync \in Nat /\ sync =< Cardinality(tail)
      BY <1>1, <2>2 DEF TypeOK, Reads
    <3>2. First(tail', sync) = First(tail, sync) BY <1>3, <1>4, <3>1, FirstGrown
    <3>3. Cardinality(tail) =< Cardinality(tail') /\ Cardinality(tail) \in Nat
          /\ Cardinality(tail') \in Nat
      <4>1. tail' \in SUBSET (1..(logged + 1)) /\ tail \in SUBSET tail'
        BY <1>4, <1>5, <3>1
      <4>2. IsFiniteSet(tail') /\ Cardinality(tail') \in Nat
        BY <1>3, <4>1, ListType
      <4> QED BY <1>3, <3>1, <4>1, <4>2, FS_Subset, ListType
    <3>4. sync =< Cardinality(tail') BY <3>1, <3>3
    <3> QED BY <1>1, <1>2, <3>2, <3>4 DEF Log, Reads
  <2> QED BY <2>1, <2>2
<1> QED BY <1>6, <1>7, <1>8 DEF Inv

\* Steps of the router that leave the stream and the session alone.
LEMMA TurnKeeps ==
    ASSUME Inv, UNCHANGED <<stream, sync, provider, disk, crashes, ghosts>>,
           turn' \in Turn, turn'.prompt \subseteq 1..logged,
           turn'.original \subseteq 1..logged,
           turn'.phase \in {"trying", "sent"} => tail \subseteq turn'.original,
           turn'.phase = "trying" => tail \subseteq turn'.prompt,
           turn'.phase = "sent" => tail \subseteq received \cup turn'.prompt
    PROVE  Inv'
<1>1. TypeOK /\ Logged /\ Reads BY DEF Inv
<1>2. TypeOK' BY <1>1 DEF TypeOK, stream, provider, ghosts
<1>3. Logged' BY <1>1 DEF Logged, stream, provider
<1>4. Reads' BY <1>1 DEF Reads, stream, ghosts
<1> QED BY <1>2, <1>3, <1>4 DEF Inv

LEMMA BeginKeeps == ASSUME Inv, Begin PROVE Inv'
<1>1. tail \subseteq Events /\ tail \subseteq 1..logged
  BY LoggedEvents DEF Inv, TypeOK
<1>2. turn' \in Turn /\ turn'.phase = "trying" /\ turn'.prompt = tail
      /\ turn'.original = tail
  BY <1>1, Bounds DEF Begin, NoTurn, Turn
<1> QED BY <1>1, <1>2, TurnKeeps DEF Begin

LEMMA SendDeltaKeeps == ASSUME Inv, SendDelta PROVE Inv'
<1>1. TypeOK /\ Logged /\ Reads BY DEF Inv
<1>2. Delta \subseteq tail /\ tail \subseteq 1..logged /\ tail \subseteq Events
  BY <1>1, LoggedEvents DEF Delta, TypeOK
<1>3. turn' = [turn EXCEPT !.phase = "sent", !.prompt = Delta] BY DEF SendDelta
<1>4. turn' \in Turn /\ turn'.phase = "sent" /\ turn'.prompt = Delta
      /\ turn'.original = turn.original
  BY <1>1, <1>2, <1>3 DEF TypeOK, Turn
<1>5. tail \ First(tail, sync) \subseteq Delta BY DEF SendDelta, Delta
<1>6. First(tail, sync) \subseteq received BY <1>1 DEF SendDelta, Reads
<1>7. tail \subseteq received \cup Delta BY <1>5, <1>6
<1>8. tail \subseteq turn.original /\ turn.original \subseteq 1..logged
  BY <1>1 DEF SendDelta, Reads, Logged
<1> QED BY <1>2, <1>4, <1>7, <1>8, TurnKeeps DEF SendDelta

LEMMA FoldToFitKeeps == ASSUME Inv, FoldToFit PROVE Inv'
<1>1. TypeOK /\ Logged /\ Reads BY DEF Inv
<1>2. tail' \subseteq tail /\ tail' \subseteq Events
  BY <1>1, FoldFacts, LoggedEvents DEF FoldToFit, TypeOK
<1>3. turn' = [turn EXCEPT !.phase = "sent", !.folded = TRUE, !.prompt = tail']
  BY DEF FoldToFit
<1>4. turn' \in Turn /\ turn'.phase = "sent" /\ turn'.prompt = tail'
      /\ turn'.original = turn.original
  BY <1>1, <1>2, <1>3 DEF TypeOK, Turn
<1>5. tail \subseteq turn.original /\ turn.original \subseteq 1..logged
  BY <1>1 DEF FoldToFit, Reads, Logged
<1> QED BY <1>2, <1>4, <1>5, FoldFacts, ShrinkKeeps DEF FoldToFit

LEMMA SendFullKeeps == ASSUME Inv, SendFull PROVE Inv'
<1>1. TypeOK /\ Logged /\ Reads BY DEF Inv
<1>2. turn' = [turn EXCEPT !.phase = "sent"] BY DEF SendFull
<1>3. turn' \in Turn /\ turn'.phase = "sent" /\ turn'.prompt = turn.prompt
      /\ turn'.original = turn.original
  BY <1>1, <1>2 DEF TypeOK, Turn
<1>4. tail \subseteq turn.prompt /\ tail \subseteq turn.original
  BY <1>1 DEF SendFull, Reads
<1> QED BY <1>3, <1>4, ResetKeeps DEF SendFull

\* After an answer the decision is over, or tried again with the prompt it
\* began with.
LEMMA AfterAnswer ==
    ASSUME Inv, turn.phase = "sent", Retries \/ turn' = NoTurn("idle")
    PROVE  /\ turn' \in Turn /\ turn'.prompt \subseteq 1..logged
           /\ turn'.original \subseteq 1..logged
           /\ turn'.phase \in {"idle", "trying"}
           /\ turn'.phase = "trying" =>
                tail \subseteq turn'.prompt /\ tail \subseteq turn'.original
<1>1. Logged /\ Reads BY DEF Inv
<1>2. CASE turn' = NoTurn("idle") BY <1>2, NoTurnType DEF NoTurn
<1>3. CASE Retries BY <1>1, <1>3, RetriesFacts DEF Logged, Reads, NoTurn
<1> QED BY <1>2, <1>3

LEMMA AnsweredType == ASSUME Inv PROVE Answered \in SUBSET (1..logged)
BY DEF Inv, TypeOK, Logged, Answered

LEMMA AttachedType == ASSUME Inv PROVE turn.attached \in BOOLEAN
BY DEF Inv, TypeOK, Turn

LEMMA AnswersKeep ==
    ASSUME Inv, Decides \/ Garbles \/ FallbackServes PROVE Inv'
<1>1. CASE Decides
  BY <1>1, AfterAnswer, AnsweredType, AttachedType, MarksFacts DEF Decides
<1>2. CASE Garbles
  BY <1>2, AfterAnswer, AnsweredType, AttachedType, MarksFacts DEF Garbles
<1>3. CASE FallbackServes
  <2>1. history \in SUBSET (1..logged) BY DEF Inv, TypeOK
  <2> QED BY <1>3, <2>1, AfterAnswer, MarksFacts DEF FallbackServes
<1> QED BY <1>1, <1>2, <1>3

LEMMA FailsKeeps == ASSUME Inv, ProviderFails PROVE Inv'
BY AfterAnswer, TurnKeeps DEF ProviderFails

\* The loop goes on with what a fold or a collapse left.
LEMMA OverflowKeeps ==
    ASSUME Inv, turn.phase = "sent", TriesFolded, ResetHistory,
           UNCHANGED <<logged, disk, crashes, received>>,
           tail' \subseteq tail, delivered' \subseteq delivered,
           delivered' \subseteq tail', pointers' \subseteq tail',
           summary' \subseteq 1..logged, lost' \subseteq lost \cup delivered
    PROVE  Inv'
<1>1. Logged /\ Reads BY DEF Inv
<1>2. tail \subseteq turn.original /\ turn.original \subseteq 1..logged
  BY <1>1 DEF Logged, Reads
<1>3. CASE turn' = NoTurn("idle") BY <1>3, NoTurnType, ShrinkKeeps DEF NoTurn
<1>4. CASE turn' # NoTurn("idle") BY <1>2, <1>4, TriesFoldedFacts, ShrinkKeeps
<1> QED BY <1>3, <1>4

LEMMA OverflowsKeep ==
    ASSUME Inv, OverflowFolds \/ OverflowCollapses \/ OverflowRaises PROVE Inv'
<1>1. CASE OverflowFolds BY <1>1, FoldFacts, OverflowKeeps DEF OverflowFolds
<1>2. CASE OverflowCollapses
  <2>1. Unread \subseteq tail BY DEF Unread
  <2>2. delivered \subseteq tail /\ pointers \subseteq tail /\ summary \subseteq 1..logged
    BY DEF Inv, TypeOK
  <2> QED BY <1>2, <2>1, <2>2, OverflowKeeps DEF OverflowCollapses
<1>3. CASE OverflowRaises
  BY <1>3, NoTurnType, TurnKeeps DEF OverflowRaises, NoTurn
<1> QED BY <1>1, <1>2, <1>3

LEMMA CancelKeeps == ASSUME Inv, Cancel \/ LateAnswer PROVE Inv'
<1>1. TypeOK /\ Logged /\ Reads BY DEF Inv
<1>2. CASE Cancel
  <2>1. turn' \in Turn /\ turn'.phase = "idle" /\ turn'.prompt = {}
        /\ turn'.original = {}
    BY <1>2, NoTurnType DEF Cancel, NoTurn
  <2>2. orphan' \subseteq 1..logged BY <1>1, <1>2 DEF Cancel, TypeOK, Logged
  <2>3. TypeOK' BY <1>1, <1>2, <2>1, <2>2 DEF Cancel, TypeOK, stream, ghosts
  <2>4. Logged' BY <1>1, <1>2, <2>1 DEF Cancel, Logged, stream
  <2>5. Reads' BY <1>1, <1>2, <2>1 DEF Cancel, Reads, stream, ghosts
  <2> QED BY <2>3, <2>4, <2>5 DEF Inv
<1>3. CASE LateAnswer
  <2>1. TypeOK' BY <1>1, <1>3 DEF LateAnswer, TypeOK, stream
  <2>2. Logged' BY <1>1, <1>3 DEF LateAnswer, Logged, stream
  <2>3. Reads' BY <1>1, <1>3 DEF LateAnswer, Reads, stream
  <2> QED BY <2>1, <2>2, <2>3 DEF Inv
<1> QED BY <1>2, <1>3

LEMMA SessionKeeps ==
    ASSUME Inv, Recompile \/ SwitchProvider \/ Clear PROVE Inv'
<1>1. TypeOK /\ Logged /\ Reads BY DEF Inv
<1>2. CASE Recompile
  <2>1. TypeOK' BY <1>1, <1>2 DEF Recompile, TypeOK, stream, provider, ghosts
  <2>2. Logged' BY <1>1, <1>2 DEF Recompile, Logged, stream, provider
  <2>3. Reads' BY <1>1, <1>2 DEF Recompile, Reads, stream, ghosts
  <2> QED BY <2>1, <2>2, <2>3 DEF Inv
<1>3. CASE SwitchProvider
  <2>1. turn' \in Turn /\ turn'.phase = turn.phase /\ turn'.prompt = turn.prompt
        /\ turn'.original = turn.original
    BY <1>1, <1>3 DEF SwitchProvider, TypeOK, Turn
  <2>2. turn.phase = "sent" => tail \subseteq turn.prompt \cup received
    BY <1>1 DEF Reads
  <2> QED BY <1>3, <2>1, <2>2, ResetKeeps DEF SwitchProvider
<1>4. CASE Clear
  <2>1. disk' = [disk EXCEPT !.tail = {}, !.pointers = {}, !.summary = {}]
    BY <1>4 DEF Clear
  <2>2. disk' \in Disk /\ disk'.tail = {} /\ disk'.pointers = {}
        /\ disk'.summary = {} /\ disk'.llm = disk.llm
    BY <1>1, <2>1 DEF TypeOK, Disk
  <2>3. TypeOK'
    BY <1>1, <1>4, <2>2, ResetFacts DEF Clear, TypeOK, NoSync
  <2>4. Logged' BY <1>1, <1>4, <2>2, ResetFacts DEF Clear, Logged
  <2>5. Reads' BY <1>1, <1>4, ResetFacts DEF Clear, Reads, NoSync
  <2> QED BY <2>3, <2>4, <2>5 DEF Inv
<1> QED BY <1>2, <1>3, <1>4

LEMMA SavedType ==
    ASSUME Inv
    PROVE  /\ SavedStream \in Disk
           /\ SavedStream.tail = tail /\ SavedStream.pointers = pointers
           /\ SavedStream.summary = summary /\ SavedStream.llm = disk.llm
<1>1. disk \in Disk BY DEF Inv, TypeOK
<1>2. tail \subseteq Events /\ pointers \subseteq Events /\ summary \subseteq Events
  BY LoggedEvents DEF Inv, TypeOK
<1> QED BY <1>1, <1>2 DEF SavedStream, Disk

LEMMA PersistKeeps == ASSUME Inv, PersistStream \/ PersistRun PROVE Inv'
<1>1. TypeOK /\ Logged /\ Reads BY DEF Inv
<1>2. /\ disk' \in Disk
      /\ disk'.tail = tail /\ disk'.pointers = pointers /\ disk'.summary = summary
      /\ disk'.llm \in {disk.llm, checkpoint}
  <2>1. CASE PersistStream BY <2>1, SavedType DEF PersistStream
  <2>2. CASE PersistRun
    <3>1. disk' = [SavedStream EXCEPT !.llm = checkpoint, !.strayed = strayed]
      BY <2>2 DEF PersistRun
    <3>2. checkpoint \in Checkpoint /\ strayed \in BOOLEAN BY <1>1 DEF TypeOK
    <3> QED BY <3>1, <3>2, SavedType DEF Disk
  <2> QED BY <2>1, <2>2
<1>3. UNCHANGED <<stream, sync, provider, turn, crashes, ghosts>>
  BY DEF PersistStream, PersistRun
<1>4. TypeOK' BY <1>1, <1>2, <1>3 DEF TypeOK, stream, provider, ghosts
<1>5. Logged'
  <2>1. pointers \subseteq tail /\ tail \subseteq 1..logged /\ summary \subseteq 1..logged
    BY <1>1 DEF TypeOK
  <2> QED BY <1>1, <1>2, <1>3, <2>1 DEF Logged, stream, provider
<1>6. Reads' BY <1>1, <1>3 DEF Reads, stream, ghosts
<1> QED BY <1>4, <1>5, <1>6 DEF Inv

LEMMA CrashKeeps == ASSUME Inv, Crash PROVE Inv'
<1>1. TypeOK /\ Logged /\ Reads BY DEF Inv
<1>2. turn' \in Turn /\ turn'.phase = "down" /\ turn'.prompt = {}
      /\ turn'.original = {}
  BY NoTurnType DEF Crash, NoTurn
<1>3. crashes' \in 0..MaxCrashes BY <1>1, Bounds DEF Crash, TypeOK
<1>4. TypeOK' BY <1>1, <1>2, <1>3, ResetFacts DEF Crash, TypeOK, NoSync
<1>5. Logged' BY <1>1, <1>2, ResetFacts DEF Crash, Logged
<1>6. Reads' BY <1>1, <1>2, ResetFacts DEF Crash, Reads, NoSync
<1> QED BY <1>4, <1>5, <1>6 DEF Inv

LEMMA BootKeeps == ASSUME Inv, Boot PROVE Inv'
<1>1. TypeOK /\ Logged /\ Reads BY DEF Inv
<1>2. turn' \in Turn /\ turn'.phase = "idle" /\ turn'.prompt = {}
      /\ turn'.original = {}
  BY NoTurnType DEF Boot, NoTurn
<1>3. disk \in Disk /\ disk.llm \in Checkpoint BY <1>1 DEF TypeOK, Disk
<1>4. tail' = disk.tail /\ pointers' = disk.pointers /\ summary' = disk.summary
      /\ received' = received \cup delivered'
  BY DEF Boot
<1>5. disk.tail \subseteq 1..logged /\ disk.pointers \subseteq disk.tail
      /\ disk.summary \subseteq 1..logged
  BY <1>1 DEF Logged
<1>6. CASE /\ Restorable(disk.llm)
           /\ sync' = disk.llm.marker.point
           /\ history' = disk.llm.covers /\ checkpoint' = disk.llm
           /\ strayed' = disk.strayed
           /\ delivered' = First(disk.tail, disk.llm.marker.point)
  <2>1. delivered' \subseteq disk.tail BY <1>6 DEF First
  <2>2. disk.llm.marker.point \in Nat BY <1>3 DEF Checkpoint, Marker
  <2>3. Cardinality(disk.tail) \in Nat
    <3>1. logged \in Nat BY <1>1, LoggedEvents
    <3> QED BY <1>5, <3>1, ListType
  <2>4. disk.llm.marker.point =< Cardinality(disk.tail)
    BY <1>6, <2>2, <2>3 DEF Restorable
  <2>5. disk.llm.covers \subseteq 1..logged /\ disk.strayed \in BOOLEAN
    BY <1>1, <1>3 DEF Logged, Disk
  <2>6. received' \subseteq Events
    BY <1>1, <1>4, <1>5, <2>1, LoggedEvents DEF TypeOK
  <2>7. TypeOK'
    BY <1>1, <1>2, <1>3, <1>4, <1>5, <1>6, <2>1, <2>2, <2>5, <2>6
    DEF Boot, TypeOK
  <2>8. Logged' BY <1>1, <1>2, <1>6, <2>5 DEF Boot, Logged
  <2>9. Reads'
    BY <1>1, <1>2, <1>4, <1>6, <2>4 DEF Boot, Reads
  <2> QED BY <2>7, <2>8, <2>9 DEF Inv
<1>7. CASE /\ sync' = NoSync
           /\ history' = {} /\ checkpoint' = NoCheckpoint
           /\ strayed' = FALSE
           /\ delivered' = disk.tail
  <2>1. received' \subseteq Events
    BY <1>1, <1>4, <1>5, <1>7, LoggedEvents DEF TypeOK
  <2>2. TypeOK'
    BY <1>1, <1>2, <1>4, <1>5, <1>7, <2>1, NoCheckpointType
    DEF Boot, TypeOK, NoSync
  <2>3. Logged' BY <1>1, <1>2, <1>7, NoCheckpointType DEF Boot, Logged
  <2>4. Reads' BY <1>1, <1>2, <1>4, <1>7 DEF Boot, Reads, NoSync
  <2> QED BY <2>2, <2>3, <2>4 DEF Inv
<1> QED BY <1>6, <1>7 DEF Boot

LEMMA StutterKeeps == ASSUME Inv, UNCHANGED vars PROVE Inv'
<1>1. TypeOK /\ Logged /\ Reads BY DEF Inv
<1> USE DEF vars, stream, provider, ghosts
<1>2. TypeOK' BY <1>1 DEF TypeOK
<1>3. Logged' BY <1>1 DEF Logged
<1>4. Reads' BY <1>1 DEF Reads
<1> QED BY <1>2, <1>3, <1>4 DEF Inv

LEMMA InvStep == Alone /\ Inv /\ [Next]_vars => Inv'
BY LogKeeps, BeginKeeps, SendDeltaKeeps, FoldToFitKeeps, SendFullKeeps,
   AnswersKeep, FailsKeeps, OverflowsKeep, CancelKeeps, SessionKeeps,
   PersistKeeps, CrashKeeps, BootKeeps, StutterKeeps
DEF Next

-----------------------------------------------------------------------------
(* The provider's session and the stream. *)

\* The sync point parts the tail into what the history holds and what it does
\* not.
Synced ==
    sync # NoSync => /\ First(tail, sync) \subseteq history
                     /\ history \cap tail \subseteq First(tail, sync)

\* The history and the request that follows it make up the stream.
Carried ==
    turn.phase = "sent" /\ turn.attached =>
      /\ tail \subseteq history \cup turn.prompt
      /\ turn.prompt \cap history = {}

\* Of a list of events, a saved history covers those up to the last one of its
\* marker.
Fits(ck, list, astray) ==
    ~astray /\ ck.covers # {} =>
      \A e \in list : e =< ck.marker.last <=> e \in ck.covers

Covered ==
    /\ checkpoint.marker.last =< logged /\ disk.llm.marker.last =< logged
    /\ Fits(checkpoint, tail, strayed)
    /\ Fits(disk.llm, tail, disk.strayed)
    /\ Fits(disk.llm, disk.tail, disk.strayed)

Together == (strayed \/ (Synced /\ Carried)) /\ Covered

LEMMA FitsLess ==
    ASSUME NEW ck, NEW list, NEW less \in SUBSET list, NEW astray,
           Fits(ck, list, astray)
    PROVE  Fits(ck, less, astray)
BY DEF Fits

LEMMA FitsNone ==
    ASSUME NEW ck, ck.covers = {} PROVE \A list, astray : Fits(ck, list, astray)
BY DEF Fits

LEMMA NoMarker == NoCheckpoint.marker.last = 0
<1>1. First({}, 0) = {} BY DEF First
<1> QED BY <1>1 DEF NoCheckpoint, MarkerAt

LEMMA TogetherInit == Init => Together
<1> SUFFICES ASSUME Init PROVE Together OBVIOUS
<1>1. checkpoint = NoCheckpoint /\ disk.llm = NoCheckpoint /\ logged = 0
      /\ sync = NoSync /\ turn.phase = "idle"
  BY DEF Init, NoTurn
<1>2. \A list, astray : Fits(NoCheckpoint, list, astray)
  BY NoCheckpointType, FitsNone
<1>3. Covered BY <1>1, <1>2, NoMarker DEF Covered
<1> QED BY <1>1, <1>3 DEF Together, Synced, Carried

\* A reset of the provider's session, the tail being the same or smaller.
LEMMA TogetherReset ==
    ASSUME Inv, Together, ResetHistory, tail' \subseteq tail,
           UNCHANGED <<logged, disk>>,
           turn'.phase = "sent" /\ turn'.attached => tail' \subseteq turn'.prompt
    PROVE  Together'
<1>1. /\ history' = {} /\ sync' = NoSync /\ checkpoint' = NoCheckpoint
      /\ checkpoint'.covers = {} /\ checkpoint'.marker.last = 0
  BY NoCheckpointType, NoMarker DEF ResetHistory
<1>2. 0 =< logged BY DEF Inv, TypeOK
<1>3. Fits(checkpoint', tail', strayed') BY <1>1, FitsNone
<1>4. Fits(disk.llm, tail', disk.strayed) BY FitsLess DEF Together, Covered
<1>5. Covered' BY <1>1, <1>2, <1>3, <1>4 DEF Together, Covered
<1>6. Synced' /\ Carried' BY <1>1 DEF Synced, Carried
<1> QED BY <1>5, <1>6 DEF Together

\* A step of the router that leaves the stream and the session alone.
LEMMA TogetherTurn ==
    ASSUME Together, UNCHANGED <<stream, sync, history, checkpoint, disk, strayed>>,
           ~strayed => Carried'
    PROVE  Together'
BY DEF Together, Synced, Covered, stream

LEMMA TogetherLog == ASSUME Inv, Together, Log PROVE Together'
<1>1. /\ logged \in Nat /\ tail \in SUBSET (1..logged)
      /\ checkpoint \in Checkpoint /\ disk.llm \in Checkpoint
      /\ checkpoint.covers \subseteq 1..logged
      /\ disk.llm.covers \subseteq 1..logged
      /\ history \subseteq 1..logged
  BY LoggedEvents DEF Inv, TypeOK, Logged, Disk
<1>2. /\ logged' = logged + 1 /\ tail' = tail \cup {logged + 1}
      /\ UNCHANGED <<sync, history, checkpoint, turn, disk>>
      /\ strayed' = (strayed \/ turn.phase = "sent")
  BY DEF Log, provider
<1>3. logged + 1 \notin 1..logged BY <1>1
<1>4. ASSUME NEW ck \in {checkpoint, disk.llm}, NEW before, NEW after,
             Fits(ck, tail, before), ~after => ~before
      PROVE  Fits(ck, tail', after)
  <2>1. ck.marker.last \in Nat /\ ck.covers \subseteq 1..logged
    BY <1>1 DEF Checkpoint, Marker
  <2>2. ck.marker.last =< logged BY DEF Together, Covered
  <2>3. logged + 1 \notin ck.covers BY <1>3, <2>1
  <2>4. ~ (logged + 1 =< ck.marker.last) BY <1>1, <2>1, <2>2
  <2> QED BY <1>2, <1>4, <2>3, <2>4 DEF Fits
<1>5. Covered'
  <2>1. Fits(checkpoint, tail', strayed') BY <1>2, <1>4 DEF Together, Covered
  <2>2. Fits(disk.llm, tail', disk.strayed) BY <1>4 DEF Together, Covered
  <2>3. checkpoint.marker.last =< logged' /\ disk.llm.marker.last =< logged'
    <3>1. checkpoint.marker.last \in Nat /\ disk.llm.marker.last \in Nat
      BY <1>1 DEF Checkpoint, Marker
    <3> QED BY <1>1, <1>2, <3>1 DEF Together, Covered
  <2> QED BY <1>2, <2>1, <2>2, <2>3 DEF Together, Covered
<1>6. ASSUME ~strayed' PROVE Synced' /\ Carried'
  <2>1. ~strayed /\ turn.phase # "sent" BY <1>2, <1>6
  <2>2. Synced BY <2>1 DEF Together
  <2>3. Carried' BY <1>2, <2>1 DEF Carried
  <2>4. ASSUME sync # NoSync PROVE First(tail', sync) = First(tail, sync)
    <3>1. sync \in Nat /\ sync =< Cardinality(tail)
      BY <2>4 DEF Inv, TypeOK, Reads
    <3> QED BY <1>1, <1>2, <3>1, FirstGrown
  <2>5. history \cap tail' = history \cap tail BY <1>1, <1>2, <1>3
  <2> QED BY <1>2, <2>2, <2>3, <2>4, <2>5 DEF Synced
<1> QED BY <1>5, <1>6 DEF Together

\* An answer: what was sent with it joins the history.
LEMMA TogetherMarks ==
    ASSUME Inv, Together, turn.phase = "sent",
           NEW known \in SUBSET (1..logged), NEW astray \in BOOLEAN,
           Marks(known, astray),
           ~astray => turn.attached /\ known = history \cup turn.prompt,
           turn'.phase \in {"idle", "trying"}
    PROVE  Together'
<1> DEFINE all == Cardinality(tail)
<1>1. logged \in Nat /\ tail \in SUBSET (1..logged)
  BY LoggedEvents DEF Inv, TypeOK
<1>2. First(tail, all) = tail BY <1>1, FirstAll
<1>3. IsFiniteSet(tail) /\ tail \in SUBSET Nat
  <2>1. \A e \in tail : e \in Nat BY <1>1
  <2> QED BY <1>1, <2>1, ListType
<1>4. tail # {} => /\ Max(tail) \in tail /\ \A e \in tail : e =< Max(tail)
  <2>1. tail # {} => Max(tail) \in tail /\ \A e \in tail : Max(tail) >= e
    BY <1>3, ExtremeTypes
  <2>2. \A e \in tail : e \in Nat BY <1>3
  <2> QED BY <2>1, <2>2
<1>5. UNCHANGED <<logged, tail, disk>> /\ history' = known
      /\ strayed' = (strayed \/ astray) /\ sync' = all
  BY DEF Marks
<1>6. ASSUME ~strayed' PROVE tail \subseteq known
  BY <1>5, <1>6 DEF Together, Carried
<1>7. checkpoint'.marker.last =< logged
  <2>1. CASE turn.attached
    <3>1. checkpoint'.marker.last = IF tail = {} THEN 0 ELSE Max(tail)
      BY <1>2, <2>1 DEF Marks, MarkerAt
    <3>2. tail # {} => Max(tail) \in 1..logged BY <1>1, <1>4
    <3> QED BY <1>1, <3>1, <3>2
  <2>2. CASE ~turn.attached BY <1>1, <2>2, NoMarker DEF Marks
  <2> QED BY <2>1, <2>2
<1>8. Fits(checkpoint', tail, strayed')
  <2>1. CASE turn.attached
    <3>1. checkpoint'.covers = known
          /\ checkpoint'.marker.last = IF tail = {} THEN 0 ELSE Max(tail)
      BY <1>2, <2>1 DEF Marks, MarkerAt
    <3> QED BY <1>4, <1>6, <3>1 DEF Fits
  <2>2. CASE ~turn.attached BY <2>2, NoCheckpointType, FitsNone DEF Marks
  <2> QED BY <2>1, <2>2
<1>9. Covered' BY <1>5, <1>7, <1>8 DEF Together, Covered
<1>10. ASSUME ~strayed' PROVE Synced' /\ Carried'
  BY <1>2, <1>5, <1>6, <1>10 DEF Synced, Carried
<1> QED BY <1>9, <1>10 DEF Together

LEMMA TogetherAnswers ==
    ASSUME Inv, Together, Decides \/ Garbles \/ FallbackServes PROVE Together'
<1>1. ~(~turn.attached) => turn.attached /\ Answered = history \cup turn.prompt
  BY DEF Answered
<1>2. (~turn.attached) \in BOOLEAN OBVIOUS
<1>3. CASE Decides
  BY <1>1, <1>2, <1>3, AfterAnswer, AnsweredType, TogetherMarks DEF Decides
<1>4. CASE Garbles
  BY <1>1, <1>2, <1>4, AfterAnswer, AnsweredType, TogetherMarks DEF Garbles
<1>5. CASE FallbackServes
  <2>1. history \in SUBSET (1..logged) BY DEF Inv, TypeOK
  <2> QED BY <1>5, <2>1, AfterAnswer, TogetherMarks DEF FallbackServes
<1> QED BY <1>3, <1>4, <1>5

LEMMA TogetherRouter ==
    ASSUME Inv, Together,
           \/ Begin \/ SendDelta \/ FoldToFit \/ SendFull \/ ProviderFails
           \/ OverflowFolds \/ OverflowCollapses \/ OverflowRaises
    PROVE  Together'
<1>0. TypeOK /\ Logged /\ Reads BY DEF Inv
<1> turn \in Turn BY <1>0 DEF TypeOK
<1>1. CASE Begin
  <2>1. turn'.phase # "sent" BY <1>1, Bounds DEF Begin, NoTurn
  <2> QED BY <1>1, <2>1, TogetherTurn DEF Begin, provider, ghosts, Carried
<1>2. CASE SendDelta
  <2>1. turn'.prompt = Delta BY <1>2 DEF SendDelta, Turn
  <2>2. Delta = tail \ First(tail, sync) BY <1>2 DEF SendDelta, Delta
  <2>3. Delta \subseteq tail BY <2>2
  <2>4. ASSUME ~strayed PROVE Carried'
    <3>1. First(tail, sync) \subseteq history
          /\ history \cap tail \subseteq First(tail, sync)
      BY <1>2, <2>4 DEF SendDelta, Together, Synced
    <3>2. tail \subseteq history \cup Delta /\ Delta \cap history = {}
      BY <2>2, <3>1
    <3> QED BY <1>2, <2>1, <3>2 DEF SendDelta, Carried, stream, provider
  <2> QED BY <1>2, <2>4, TogetherTurn DEF SendDelta, provider, ghosts
<1>3. CASE FoldToFit
  <2>1. turn'.prompt = tail' BY <1>3 DEF FoldToFit, Turn
  <2> QED BY <1>3, <2>1, FoldFacts, TogetherReset DEF FoldToFit
<1>4. CASE SendFull
  <2>1. turn'.prompt = turn.prompt BY <1>4 DEF SendFull, Turn
  <2>2. tail \subseteq turn.prompt BY <1>0, <1>4 DEF SendFull, Reads
  <2> QED BY <1>4, <2>1, <2>2, TogetherReset DEF SendFull, stream
<1>5. CASE ProviderFails
  <2>1. turn'.phase # "sent" BY <1>5, AfterAnswer DEF ProviderFails
  <2> QED BY <1>5, <2>1, TogetherTurn DEF ProviderFails, provider, ghosts, Carried
<1>6. CASE OverflowFolds
  <2>1. tail' \subseteq tail /\ logged' = logged
    BY <1>6, FoldFacts DEF OverflowFolds
  <2>2. turn'.phase # "sent"
    BY <1>6, <2>1, TriesFoldedFacts DEF OverflowFolds, NoTurn
  <2> QED BY <1>6, <2>1, <2>2, TogetherReset DEF OverflowFolds
<1>7. CASE OverflowCollapses
  <2>1. turn'.phase # "sent"
    BY <1>7, TriesFoldedFacts DEF OverflowCollapses, NoTurn
  <2> QED BY <1>7, <2>1, TogetherReset DEF OverflowCollapses
<1>8. CASE OverflowRaises
  <2>1. turn'.phase # "sent" BY <1>8 DEF OverflowRaises, NoTurn
  <2> QED BY <1>8, <2>1, TogetherTurn DEF OverflowRaises, provider, ghosts, Carried
<1> QED BY <1>1, <1>2, <1>3, <1>4, <1>5, <1>6, <1>7, <1>8

LEMMA TogetherSession ==
    ASSUME Inv, Together,
           Cancel \/ LateAnswer \/ Recompile \/ SwitchProvider \/ Clear
    PROVE  Together'
<1> turn \in Turn /\ disk \in Disk BY DEF Inv, TypeOK
<1>1. CASE Cancel
  <2>1. turn'.phase # "sent" BY <1>1 DEF Cancel, NoTurn
  <2> QED BY <1>1, <2>1, TogetherTurn DEF Cancel, ghosts, Carried
<1>2. CASE LateAnswer
  <2>1. strayed' /\ UNCHANGED <<logged, tail, checkpoint, disk>>
    BY <1>2 DEF LateAnswer, stream
  <2>2. Fits(checkpoint, tail, strayed') BY <2>1 DEF Fits
  <2> QED BY <2>1, <2>2 DEF Together, Covered
<1>3. CASE Recompile
  BY <1>3 DEF Recompile, Together, Synced, Carried, Covered, stream, provider, ghosts
<1>4. CASE SwitchProvider
  <2>1. turn'.attached => turn'.phase # "sent"
    BY <1>4 DEF SwitchProvider, Turn
  <2> QED BY <1>4, <2>1, TogetherReset DEF SwitchProvider, stream
<1>5. CASE Clear
  <2>1. /\ history' = {} /\ sync' = NoSync /\ checkpoint' = NoCheckpoint
        /\ checkpoint'.covers = {} /\ checkpoint'.marker.last = 0
        /\ tail' = {} /\ logged' = logged /\ turn' = turn
    BY <1>5, NoCheckpointType, NoMarker DEF Clear, ResetHistory
  <2>2. disk'.tail = {} /\ disk'.llm = disk.llm /\ disk'.strayed = disk.strayed
    BY <1>5 DEF Clear, Disk
  <2>3. 0 =< logged BY DEF Inv, TypeOK
  <2>4. Covered' BY <2>1, <2>2, <2>3 DEF Together, Covered, Fits
  <2> QED BY <2>1, <2>4 DEF Together, Synced, Carried
<1> QED BY <1>1, <1>2, <1>3, <1>4, <1>5

LEMMA TogetherDisk ==
    ASSUME Inv, Together, PersistStream \/ PersistRun \/ Crash PROVE Together'
<1> disk \in Disk BY DEF Inv, TypeOK
<1>1. CASE PersistStream
  <2>1. disk'.tail = tail /\ disk'.llm = disk.llm /\ disk'.strayed = disk.strayed
    BY <1>1 DEF PersistStream, SavedStream, Disk
  <2> QED BY <1>1, <2>1
      DEF PersistStream, Together, Synced, Carried, Covered, stream, provider, ghosts
<1>2. CASE PersistRun
  <2>1. disk' = [SavedStream EXCEPT !.llm = checkpoint, !.strayed = strayed]
    BY <1>2 DEF PersistRun
  <2>2. disk'.tail = tail /\ disk'.llm = checkpoint /\ disk'.strayed = strayed
    BY <2>1, SavedType DEF Disk
  <2> QED BY <1>2, <2>2
      DEF PersistRun, Together, Synced, Carried, Covered, stream, provider, ghosts
<1>3. CASE Crash
  <2>1. turn'.phase # "sent" BY <1>3 DEF Crash, NoTurn
  <2> QED BY <1>3, <2>1, TogetherReset DEF Crash
<1> QED BY <1>1, <1>2, <1>3

\* A marker that still identifies the events before its sync point identifies
\* the ones the saved history covers.
LEMMA TogetherBoot == ASSUME Inv, Together, Boot PROVE Together'
<1> DEFINE ck == disk.llm
           list == disk.tail
           before == First(list, ck.marker.point)
<1>1. /\ logged \in Nat /\ list \in SUBSET (1..logged) /\ ck \in Checkpoint
      /\ ck.marker.point \in Nat
  BY LoggedEvents DEF Inv, TypeOK, Logged, Disk, Checkpoint, Marker
<1>2. Fits(ck, list, disk.strayed) BY DEF Together, Covered
<1>3. /\ tail' = list /\ UNCHANGED <<logged, disk>> /\ turn'.phase = "idle"
  BY DEF Boot, NoTurn
<1>4. CASE Restorable(ck) /\ sync' = ck.marker.point
           /\ history' = ck.covers /\ checkpoint' = ck /\ strayed' = disk.strayed
  <2>1. Covered' BY <1>2, <1>3, <1>4 DEF Together, Covered
  <2>2. ASSUME ~disk.strayed
        PROVE  before \subseteq ck.covers /\ ck.covers \cap list \subseteq before
    <3>1. \A e \in list : e =< ck.marker.last <=> e \in ck.covers
      BY <1>2, <1>4, <2>2 DEF Fits, Restorable
    <3>2. ck.marker.last = IF before = {} THEN 0 ELSE Max(before)
      <4>1. MarkerAt(list, disk.summary, ck.marker.point) = ck.marker
        BY <1>4 DEF Restorable
      <4>2. MarkerAt(list, disk.summary, ck.marker.point).last
              = IF before = {} THEN 0 ELSE Max(before)
        BY DEF MarkerAt
      <4> QED BY <4>1, <4>2
    <3>3. before \subseteq list /\ \A e \in list : e \in Nat /\ e > 0
      BY <1>1 DEF First
    <3>4. CASE before = {}
      <4>1. \A e \in list : ~ (e =< 0) BY <3>3
      <4> QED BY <3>1, <3>2, <3>4, <4>1
    <3>5. CASE before # {}
      <4>1. IsFiniteSet(list) BY <1>1, ListType
      <4>2. IsFiniteSet(before) /\ before \in SUBSET Nat BY <3>3, <4>1, FS_Subset
      <4>3. Max(before) \in before /\ \A e \in before : Max(before) >= e
        BY <3>5, <4>2, ExtremeTypes
      <4>4. ASSUME NEW e \in before PROVE e \in ck.covers
        <5>1. e \in list /\ e \in Nat /\ Max(before) \in Nat BY <3>3, <4>3
        <5>2. e =< Max(before) BY <4>3, <5>1
        <5> QED BY <3>1, <3>2, <3>5, <5>1, <5>2
      <4>5. ASSUME NEW e \in list, e \in ck.covers PROVE e \in before
        <5>1. e =< Max(before) BY <3>1, <3>2, <3>5, <4>5
        <5>2. e \in Nat /\ Max(before) \in Nat BY <3>3, <4>3
        <5>3. CASE e = Max(before) BY <4>3, <5>3
        <5>4. CASE e < Max(before) BY <1>1, <4>3, <5>4, FirstClosed
        <5> QED BY <5>1, <5>2, <5>3, <5>4
      <4> QED BY <4>4, <4>5
    <3> QED BY <3>4, <3>5
  <2>3. strayed' \/ (Synced' /\ Carried')
    BY <1>3, <1>4, <2>2 DEF Synced, Carried
  <2> QED BY <2>1, <2>3 DEF Together
<1>5. CASE sync' = NoSync /\ history' = {} /\ checkpoint' = NoCheckpoint
           /\ strayed' = FALSE
  <2>1. checkpoint'.covers = {} /\ checkpoint'.marker.last = 0
    BY <1>5, NoCheckpointType, NoMarker
  <2>2. Fits(checkpoint', tail', strayed') BY <2>1, FitsNone
  <2>3. 0 =< logged BY <1>1
  <2>4. Covered' BY <1>2, <1>3, <2>1, <2>2, <2>3 DEF Together, Covered
  <2> QED BY <1>3, <1>5, <2>4 DEF Together, Synced, Carried
<1> QED BY <1>4, <1>5 DEF Boot

LEMMA TogetherStutter == ASSUME Together, UNCHANGED vars PROVE Together'
BY DEF Together, Synced, Carried, Covered, vars, stream, provider, ghosts

LEMMA TogetherStep == Inv /\ Together /\ [Next]_vars => Together'
BY TogetherLog, TogetherAnswers, TogetherRouter, TogetherSession, TogetherDisk,
   TogetherBoot, TogetherStutter
DEF Next

-----------------------------------------------------------------------------

\* TypeOK holds of every reachable state; it is proved together with what the
\* model has read, so under the same assumption.
THEOREM TypesHold == ASSUME Alone PROVE Spec => []TypeOK
<1>1. Inv => TypeOK BY DEF Inv
<1> QED BY <1>1, InvInit, InvStep, PTL DEF Spec

\* A fold takes nothing from the model that it has not read (_fold_cutoff),
\* as long as only the run itself logs to its stream.
THEOREM FoldsWereRead == ASSUME Alone PROVE Spec => []FoldedWasRead
<1>1. Inv => FoldedWasRead BY DEF Inv, Reads, FoldedWasRead
<1> QED BY <1>1, InvInit, InvStep, PTL DEF Spec

\* The provider's session and the stream stay in step, through retries, folds,
\* cancelled requests, clears and restarts, until the environment sets them
\* apart, and again after the next full prompt (_prompt_for_decision,
\* restore_sync_point).
THEOREM StaysInStep == ASSUME Alone PROVE Spec => []InStep
<1>1. Together => InStep
  BY DEF Together, Synced, Carried, InStep, NothingSkipped, NothingTwice
<1> QED BY <1>1, InvInit, InvStep, TogetherInit, TogetherStep, PTL DEF Spec
=============================================================================
