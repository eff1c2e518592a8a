------------------------- MODULE TriggerPlaneProofs -------------------------
(***************************************************************************)
(* Proofs about TriggerPlane for every set of sessions, every environment  *)
(* and every bound. IInv is the inductive invariant.                       *)
(***************************************************************************)
EXTENDS TriggerPlane, TLAPS

USE DEF Ids

Table == [Ids -> Row]

-----------------------------------------------------------------------------
(* What the table's operators change *)

LEMMA RowStatus ==
    ASSUME NEW x \in Row, NEW st \in Status
    PROVE  /\ [x EXCEPT !.status = st] \in Row
           /\ [x EXCEPT !.status = st].status = st
           /\ [x EXCEPT !.status = st].session = x.session
           /\ [x EXCEPT !.status = st].source = x.source
           /\ [x EXCEPT !.status = st].key = x.key
           /\ [x EXCEPT !.status = st].attempts = x.attempts
BY DEF Row

LEMMA SetStatusFacts ==
    ASSUME NEW r \in Table, NEW ids, NEW st \in Status \ {"free"},
           NEW i \in Ids
    PROVE  LET x == r[i]
               y == SetStatus(r, ids, st)[i]
           IN  /\ y \in Row
               /\ y.session = x.session /\ y.source = x.source
               /\ y.key = x.key /\ y.attempts = x.attempts
               /\ y.status \in {x.status, st}
               /\ x.status \in {"free", "gone"} => y = x
               /\ i \in ids /\ x.status \notin {"free", "gone"}
                    => y.status = st
               /\ i \notin ids => y = x
<1> DEFINE x == r[i]
<1>1. x \in Row BY DEF Table
<1>2. SetStatus(r, ids, st)[i] =
        IF i \in ids /\ x.status \notin {"free", "gone"}
        THEN [x EXCEPT !.status = st] ELSE x
  BY DEF SetStatus
<1> HIDE DEF x
<1>3. QED BY <1>1, <1>2, RowStatus DEF x

LEMMA SetStatusType ==
    ASSUME NEW r \in Table, NEW ids, NEW st \in Status \ {"free"}
    PROVE  SetStatus(r, ids, st) \in Table
<1>1. \A i \in Ids : SetStatus(r, ids, st)[i] \in Row BY SetStatusFacts
<1>2. QED BY <1>1 DEF Table, SetStatus

LEMMA ClaimedFacts ==
    ASSUME NEW r \in Table, NEW ids, NEW i \in Ids
    PROVE  LET x == r[i]
               y == Claimed(r, ids)[i]
           IN  /\ y \in Row
               /\ y.session = x.session /\ y.source = x.source
               /\ y.key = x.key /\ y.attempts >= x.attempts
               /\ y.status = x.status
                    \/ (x.status = "PENDING" /\ y.status = "CLAIMED")
<1> DEFINE x == r[i]
<1>1. x \in Row BY DEF Table
<1>2. Claimed(r, ids)[i] =
        IF i \in ids /\ x.status = "PENDING"
        THEN [x EXCEPT !.status = "CLAIMED", !.attempts = @ + 1] ELSE x
  BY DEF Claimed
<1> DEFINE z == [x EXCEPT !.status = "CLAIMED", !.attempts = @ + 1]
<1> HIDE DEF x
<1>3. /\ z \in Row
      /\ z.session = x.session /\ z.source = x.source
      /\ z.key = x.key /\ z.attempts >= x.attempts
      /\ z.status = "CLAIMED"
  <2>1. x.attempts \in Nat /\ x.attempts + 1 \in Nat BY <1>1 DEF Row
  <2>2. z.attempts = x.attempts + 1 BY <1>1 DEF Row
  <2>3. z.attempts >= x.attempts BY <2>1, <2>2
  <2>4. z \in Row BY <1>1, <2>1 DEF Row, Status
  <2>5. z.session = x.session /\ z.source = x.source BY <1>1 DEF Row
  <2>6. z.key = x.key BY <1>1 DEF Row
  <2>7. z.status = "CLAIMED" BY <1>1 DEF Row
  <2>8. QED BY <2>3, <2>4, <2>5, <2>6, <2>7
<1>4. x \in Row /\ x.attempts >= x.attempts
  <2>1. x.attempts \in Nat BY <1>1 DEF Row
  <2>2. QED BY <2>1, <1>1
<1> HIDE DEF z
<1>5. CASE i \in ids /\ x.status = "PENDING"
  <2>1. Claimed(r, ids)[i] = z BY <1>2, <1>5 DEF z
  <2>2. QED BY <2>1, <1>3, <1>5 DEF x
<1>6. CASE ~(i \in ids /\ x.status = "PENDING")
  <2>1. Claimed(r, ids)[i] = x BY <1>2, <1>6
  <2>2. QED BY <2>1, <1>4 DEF x
<1>7. QED BY <1>5, <1>6

LEMMA ClaimedType ==
    ASSUME NEW r \in Table, NEW ids
    PROVE  Claimed(r, ids) \in Table
<1>1. \A i \in Ids : Claimed(r, ids)[i] \in Row BY ClaimedFacts
<1>2. QED BY <1>1 DEF Table, Claimed

-----------------------------------------------------------------------------
(* What emitting and settling do to the table and the queues *)

\* A row with this key was inserted into table r and queued in session s.
Emitted(r, s, key) ==
    \E t \in Trig :
        /\ t.id = lastId + 1
        /\ lastId' = t.id
        /\ row' \in Table
        /\ row'[t.id].status = "PENDING"
        /\ row'[t.id].session = s
        /\ row'[t.id].key = key
        /\ \A j \in Ids \ {t.id} : row'[j] = r[j]
        /\ heap' = [heap EXCEPT ![s] = @ \cup {t}]

LEMMA EmitFacts ==
    ASSUME TypeOK, NEW r \in Table, NEW s \in Sessions, NEW kind,
           SourceOf(kind) \in Sources, OriginOf(kind) \in Origins,
           KeyOf(kind) \in Keys, NEW at \in Nat,
           EmitOver(r, heap, s, kind, at)
    PROVE  Emitted(r, s, KeyOf(kind))
<1> DEFINE i == lastId + 1
           x == [status |-> "PENDING", session |-> s,
                 source |-> SourceOf(kind), origin |-> OriginOf(kind),
                 key |-> KeyOf(kind), fireAt |-> at, attempts |-> 0]
           t == [id |-> i, fireAt |-> at, copy |-> "emitted",
                 carries |-> {i}]
<1>1. i \in Ids /\ lastId' = i
  BY BoundsAssumption DEF TypeOK, EmitOver, NewId
<1>2. x \in Row BY DEF Row, Status
<1>3. row' = [r EXCEPT ![i] = x] BY DEF EmitOver, NewId
<1>4. t \in Trig BY <1>1 DEF Trig
<1>5. heap' = [heap EXCEPT ![s] = @ \cup {t}] BY DEF EmitOver, NewId
<1>6. x.status = "PENDING" /\ x.session = s /\ x.key = KeyOf(kind) /\ t.id = i
  OBVIOUS
<1> HIDE DEF x, t
<1>7. row' \in Table BY <1>1, <1>2, <1>3 DEF Table
<1>8. row'[i] = x /\ \A j \in Ids \ {i} : row'[j] = r[j]
  BY <1>1, <1>3 DEF Table
<1>9. QED BY <1>1, <1>4, <1>5, <1>6, <1>7, <1>8 DEF Emitted

LEMMA LeaveReactFacts ==
    ASSUME TypeOK, NEW r \in Table, NEW s \in Sessions,
           NEW group \in SUBSET Trig, LeaveReact(r, s, group)
    PROVE  \/ row' = r /\ UNCHANGED <<lastId, heap>>
           \/ Emitted(r, s, NoKey)
<1>1. NoOrigin \in Origins /\ NoKey \in Keys /\ Continuation \in Sources
  BY DEF Origins, Keys, Continuation, Sources
<1>2. now \in Nat BY DEF TypeOK
<1>3. CASE row' = r /\ UNCHANGED <<lastId, heap>> BY <1>3
<1>4. ASSUME NEW o \in Origins, NEW at \in Nat,
             EmitOver(r, heap, s, <<Continuation, o, NoKey>>, at)
      PROVE  Emitted(r, s, NoKey)
  <2> DEFINE kind == <<Continuation, o, NoKey>>
  <2>1. SourceOf(kind) = Continuation /\ OriginOf(kind) = o /\ KeyOf(kind) = NoKey
    BY DEF SourceOf, OriginOf, KeyOf
  <2> HIDE DEF kind
  <2>2. QED BY <1>1, <1>4, <2>1, EmitFacts DEF kind
<1>5. \A t \in group : Origin(t) \in Origins
  BY DEF Origin, TypeOK, Trig, Row
<1>6. \A d \in Delays : Capped(now + d) \in Nat
  BY <1>2, BoundsAssumption DEF Capped
<1>7. QED BY <1>1, <1>2, <1>3, <1>4, <1>5, <1>6 DEF LeaveReact

-----------------------------------------------------------------------------
(* The shape of a step: every action changes the table in one of four ways   *)

\* The triggers of a session: queued, in its turn or in its removed lane.
Lane(s) == heap[s] \cup turn[s].group \cup dying[s].group

\* A trigger names an inserted row of its own session.
LaneOK == \A s \in Sessions : \A t \in Lane(s) :
             t.id <= lastId /\ row[t.id].session = s

\* Table r opens no row, forgets no attempt and parks only exhausted rows.
Quiet(r) ==
    /\ r \in Table
    /\ \A i \in Ids :
         /\ r[i].session = row[i].session
         /\ r[i].source = row[i].source
         /\ r[i].key = row[i].key
         /\ r[i].attempts >= row[i].attempts
         /\ r[i].status = "free" <=> row[i].status = "free"
         /\ r[i].status \in ActiveStatus => row[i].status \in ActiveStatus
         /\ r[i].status = "DEAD" =>
              row[i].status = "DEAD" \/ row[i].attempts >= MaxAttempts

QuietStep ==
    /\ Quiet(row')
    /\ lastId' = lastId
    /\ heap' \in [Sessions -> SUBSET Trig]
    /\ \A s \in Sessions : heap'[s] \subseteq heap[s]

EmitStep ==
    \E r \in Table, s \in Sessions, key \in Keys :
        Quiet(r) /\ ~KeyTaken(row, lastId + 1, key) /\ Emitted(r, s, key)

\* The row of t, which was in the lane of s, is PENDING and queued again.
RetryStep ==
    \E s \in Sessions : \E t \in Lane(s), u \in Trig :
        /\ u.id = t.id
        /\ ~KeyTaken(row, t.id, row[t.id].key)
        /\ row' \in Table
        /\ row'[t.id].status = "PENDING"
        /\ row'[t.id].session = row[t.id].session
        /\ row'[t.id].key = row[t.id].key
        /\ \A j \in Ids \ {t.id} : row'[j] = row[j]
        /\ lastId' = lastId
        /\ heap' = [heap EXCEPT ![s] = @ \cup {u}]

\* Rehydrate: every row that stays open is queued in its session.
LoadStep ==
    /\ proc = "boot"
    /\ Quiet(row')
    /\ lastId' = lastId
    /\ heap' \in [Sessions -> SUBSET Trig]
    /\ \A s \in Sessions : \A t \in heap'[s] :
         t \in heap[s] \/ (Active(t.id) /\ row[t.id].session = s)
    /\ \A i \in Ids : Active(i)' => i \in IdsOf(heap'[row[i].session])

TableStep == QuietStep \/ EmitStep \/ RetryStep \/ LoadStep

\* No trigger enters a turn but from the same session's lane.
LanesFrom ==
    /\ turn' \in [Sessions -> Turn]
    /\ \A s \in Sessions : turn'[s].phase = "none" => turn'[s].group = {}
    /\ dying' \in [Sessions -> DyingTurn]
    /\ \A s \in Sessions : \A t \in turn'[s].group \cup dying'[s].group :
         \E u \in Lane(s) : u.id = t.id

RestOK ==
    /\ alive \in SUBSET Sessions
    /\ proc \in {"down", "boot", "loaded", "up"}
    /\ now \in Nat
    /\ crashes \in Nat
    /\ deleting \in SUBSET Sessions
    /\ stop \in [Sessions -> {"none", "fence", "requested", "killed"}]
    /\ clear \in [Sessions -> {"none", "owner", "waiting"}]

LEMMA QuietRow == ASSUME TypeOK PROVE Quiet(row)
<1>1. \A i \in Ids : row[i].attempts \in Nat BY DEF TypeOK, Row
<1>2. \A i \in Ids : row[i].attempts >= row[i].attempts BY <1>1
<1>3. QED BY <1>2 DEF Quiet, TypeOK, Table

\* A row may be parked when its attempts are used up.
LEMMA QuietSetStatus ==
    ASSUME TypeOK, NEW ids, NEW st \in {"DONE", "DEAD"},
           st = "DEAD" => \A i \in ids \cap Ids :
                \/ row[i].attempts >= MaxAttempts
                \/ row[i].status = "gone"
    PROVE  Quiet(SetStatus(row, ids, st))
<1> DEFINE r == SetStatus(row, ids, st)
<1>1. st \in Status \ {"free"} /\ row \in Table BY DEF Status, TypeOK, Table
<1>2. r \in Table BY <1>1, SetStatusType
<1>3. ASSUME NEW i \in Ids
      PROVE  /\ r[i].session = row[i].session
             /\ r[i].source = row[i].source
             /\ r[i].key = row[i].key
             /\ r[i].attempts = row[i].attempts
             /\ row[i].attempts \in Nat
             /\ r[i].status \in {row[i].status, st}
             /\ row[i].status \in {"free", "gone"} => r[i] = row[i]
             /\ i \notin ids => r[i] = row[i]
  <2>1. row[i].attempts \in Nat BY <1>1, <1>3 DEF Table, Row
  <2>2. QED BY <1>1, <1>3, <2>1, SetStatusFacts
<1> HIDE DEF r
<1>4. ASSUME NEW i \in Ids
      PROVE  r[i].status = "DEAD" =>
               row[i].status = "DEAD" \/ row[i].attempts >= MaxAttempts
  BY <1>3
<1>5. ASSUME NEW i \in Ids
      PROVE  /\ r[i].attempts >= row[i].attempts
             /\ r[i].status = "free" <=> row[i].status = "free"
             /\ r[i].status \in ActiveStatus => row[i].status \in ActiveStatus
  BY <1>3 DEF ActiveStatus
<1>6. QED BY <1>2, <1>3, <1>4, <1>5 DEF Quiet, r

LEMMA QuietClaimed == ASSUME TypeOK, NEW ids PROVE Quiet(Claimed(row, ids))
<1>1. row \in Table BY DEF TypeOK, Table
<1>2. Claimed(row, ids) \in Table BY <1>1, ClaimedType
<1>3. QED BY <1>1, <1>2, ClaimedFacts DEF Quiet, ActiveStatus

LEMMA LeaveReactStep ==
    ASSUME TypeOK, NEW r, Quiet(r), NEW s \in Sessions,
           NEW group \in SUBSET Trig, LeaveReact(r, s, group)
    PROVE  QuietStep \/ EmitStep
<1>1. r \in Table BY DEF Quiet
<1>2. CASE row' = r /\ UNCHANGED <<lastId, heap>>
  BY <1>2 DEF QuietStep, TypeOK
<1>3. CASE Emitted(r, s, NoKey)
  <2>1. NoKey \in Keys BY DEF Keys
  <2>2. ~KeyTaken(row, lastId + 1, NoKey) BY DEF KeyTaken
  <2>3. QED BY <1>1, <1>3, <2>1, <2>2 DEF EmitStep
<1>4. QED BY <1>1, <1>2, <1>3, LeaveReactFacts

LEMMA NackStep ==
    ASSUME TypeOK, LaneOK, NEW s \in Sessions, NEW t \in Lane(s), Nack(s, t),
           lastId' = lastId
    PROVE  QuietStep \/ RetryStep
<1> DEFINE at == Capped(now + Backoff(Attempts(t.id)))
           u == [t EXCEPT !.fireAt = at]
<1>1. t \in Trig /\ t.id \in Ids
  BY DEF Lane, TypeOK, Turn, DyingTurn, Trig
<1>2. CASE /\ Attempts(t.id) >= MaxAttempts
           /\ row' = SetStatus(row, {t.id}, "DEAD")
           /\ UNCHANGED heap
  <2>1. row[t.id].attempts >= MaxAttempts \/ row[t.id].status = "gone"
    BY <1>2 DEF Attempts
  <2>2. Quiet(row') BY <1>2, <2>1, QuietSetStatus
  <2>3. QED BY <1>2, <2>2 DEF QuietStep, TypeOK
<1>3. CASE UNCHANGED <<row, heap>>
  BY <1>3, QuietRow DEF QuietStep, TypeOK
<1>4. CASE /\ ~KeyTaken(row, t.id, row[t.id].key)
           /\ row' = [row EXCEPT ![t.id].status = "PENDING",
                                 ![t.id].fireAt = at]
           /\ heap' = [heap EXCEPT ![s] = @ \cup {u}]
  <2>1. at \in Nat
    BY BoundsAssumption DEF Capped, Backoff, TypeOK
  <2>2. u \in Trig /\ u.id = t.id BY <1>1, <2>1 DEF Trig
  <2> DEFINE x == row[t.id]
             y == [x EXCEPT !.status = "PENDING", !.fireAt = at]
  <2>3. x \in Row /\ row \in Table BY <1>1 DEF TypeOK, Table
  <2>4. row' = [row EXCEPT ![t.id] = y]
    BY <1>1, <1>4, <2>3 DEF Table
  <2> HIDE DEF x, u, at
  <2>5. /\ y \in Row /\ y.status = "PENDING"
        /\ y.session = x.session /\ y.key = x.key
    BY <2>1, <2>3 DEF Row, Status
  <2> HIDE DEF y
  <2>6. /\ row' \in Table /\ row'[t.id] = y
        /\ \A j \in Ids \ {t.id} : row'[j] = row[j]
    BY <1>1, <2>3, <2>4, <2>5 DEF Table
  <2>7. heap' = [heap EXCEPT ![s] = @ \cup {u}] BY <1>4 DEF u, at
  <2>8. QED
    BY <1>4, <2>2, <2>5, <2>6, <2>7 DEF RetryStep, x
<1>5. QED BY <1>2, <1>3, <1>4 DEF Nack

-----------------------------------------------------------------------------
(* What the actions do to turns *)

LEMMA SameLanes ==
    ASSUME TypeOK, UNCHANGED <<turn, dying>> PROVE LanesFrom
BY DEF LanesFrom, TypeOK, Lane

LEMMA TurnChange ==
    ASSUME TypeOK, UNCHANGED dying, NEW s \in Sessions, NEW u \in Turn,
           turn' = [turn EXCEPT ![s] = u],
           \A t \in u.group : \E v \in Lane(s) : v.id = t.id,
           u.phase = "none" => u.group = {}
    PROVE  LanesFrom
<1>1. turn' \in [Sessions -> Turn] BY DEF TypeOK
<1>2. \A q \in Sessions : turn'[q] = IF q = s THEN u ELSE turn[q]
  BY DEF TypeOK
<1>3. QED BY <1>1, <1>2 DEF LanesFrom, Lane, TypeOK

LEMMA PhaseChange ==
    ASSUME TypeOK, UNCHANGED dying, NEW s \in Sessions,
           NEW phase \in Phase \ {"none"}, SetPhase(s, phase)
    PROVE  LanesFrom
<1> DEFINE u == [turn[s] EXCEPT !.phase = phase]
<1>1. turn[s] \in Turn BY DEF TypeOK
<1>2. u \in Turn /\ u.group = turn[s].group /\ u.phase = phase
  BY <1>1 DEF Turn
<1>3. turn' = [turn EXCEPT ![s] = u] BY DEF SetPhase, TypeOK
<1> HIDE DEF u
<1>4. QED BY <1>2, <1>3, TurnChange DEF Lane

LEMMA TurnSettled ==
    ASSUME TypeOK, UNCHANGED dying, NEW s \in Sessions, NEW t,
           turn' = [turn EXCEPT ![s] = Settled(@, t)]
    PROVE  LanesFrom
<1> DEFINE u == Settled(turn[s], t)
<1>1. turn[s] \in Turn BY DEF TypeOK
<1>2. NoTurn \in Turn /\ NoTurn.group = {} BY DEF NoTurn, Turn, Phase
<1>3. /\ u \in Turn /\ u.group \subseteq turn[s].group
      /\ u.phase = "none" => u.group = {}
  <2> DEFINE v == [turn[s] EXCEPT !.group = @ \ {t}]
  <2>1. /\ v \in Turn /\ v.group \subseteq turn[s].group
        /\ v.phase = turn[s].phase
    BY <1>1 DEF Turn
  <2> HIDE DEF v
  <2>2. u = NoTurn \/ u = v BY DEF Settled, v
  <2>3. turn[s].phase = "none" => turn[s].group = {} BY DEF TypeOK
  <2> HIDE DEF u
  <2>4. QED BY <1>2, <2>1, <2>2, <2>3
<1>4. turn' = [turn EXCEPT ![s] = u] BY DEF TypeOK
<1> HIDE DEF u
<1>5. QED BY <1>3, <1>4, TurnChange DEF Lane

Shape == TableStep /\ LanesFrom /\ RestOK'

LEMMA StillShape ==
    ASSUME TypeOK, UNCHANGED <<row, lastId, heap, turn, dying>>, RestOK'
    PROVE  Shape
<1>1. QuietStep BY QuietRow DEF QuietStep, TypeOK
<1>2. QED BY <1>1, SameLanes DEF Shape, TableStep

LEMMA EmitShape ==
    ASSUME TypeOK, NEW s \in Sessions, NEW kind \in Kinds, NEW delay \in Delays,
           Emit(s, kind, delay)
    PROVE  Shape
<1>1. /\ SourceOf(kind) \in Sources /\ OriginOf(kind) \in Origins
      /\ KeyOf(kind) \in Keys
  BY KindsAssumption DEF Origins, Keys
<1>2. Capped(now + delay) \in Nat BY BoundsAssumption DEF Capped, TypeOK
<1>3. row \in Table /\ Quiet(row) BY QuietRow DEF TypeOK, Table
<1>4. Emitted(row, s, KeyOf(kind)) BY <1>1, <1>2, <1>3, EmitFacts DEF Emit
<1>5. EmitStep BY <1>1, <1>3, <1>4 DEF EmitStep, Emit
<1>6. LanesFrom BY SameLanes DEF Emit
<1>7. RestOK' BY DEF RestOK, TypeOK, Emit, control
<1>8. QED BY <1>5, <1>6, <1>7 DEF Shape, TableStep

LEMMA ClaimShape ==
    ASSUME TypeOK, NEW s \in Sessions, Claim(s) PROVE Shape
<1> PICK base \in Due(s) :
      LET extras == Extras(s, base)
          group == {Merged(base, extras)} \cup extras
      IN  /\ row' = Claimed(row, IdsOf(group))
          /\ heap' = [heap EXCEPT ![s] = @ \ ({base} \cup extras)]
          /\ turn' = [turn EXCEPT ![s] =
               [phase |-> IF stop[s] = "none" THEN "capacity" ELSE "fenced",
                group |-> group, tracked |-> TRUE]]
  BY DEF Claim
<1> DEFINE extras == Extras(s, base)
           group == {Merged(base, extras)} \cup extras
           u == [phase |-> IF stop[s] = "none" THEN "capacity" ELSE "fenced",
                 group |-> group, tracked |-> TRUE]
<1>1. Due(s) \subseteq heap[s] /\ heap[s] \subseteq Trig
  BY DEF Due, TypeOK
<1>2. extras \subseteq Due(s) BY DEF Extras
<1>3. Merged(base, extras) \in Trig /\ Merged(base, extras).id = base.id
  <2> DEFINE c == base.carries \cup UNION {t.carries : t \in extras}
  <2>1. base \in Trig BY <1>1
  <2>2. \A t \in extras : t.carries \in SUBSET Ids BY <1>1, <1>2 DEF Trig
  <2>3. c \in SUBSET Ids BY <2>1, <2>2 DEF Trig
  <2>4. Merged(base, extras) = [base EXCEPT !.carries = c]
    BY <2>1 DEF Merged, Trig
  <2> HIDE DEF c
  <2>5. QED BY <2>1, <2>3, <2>4 DEF Trig
<1> HIDE DEF extras
<1>4. group \in SUBSET Trig BY <1>1, <1>2, <1>3
<1>5. \A t \in group : \E v \in Lane(s) : v.id = t.id
  BY <1>1, <1>2, <1>3 DEF Lane
<1> HIDE DEF group
<1>6. u \in Turn /\ u.group = group /\ u.phase # "none"
  BY <1>4 DEF Turn, Phase
<1>7. LanesFrom
  <2>1. turn' = [turn EXCEPT ![s] = u] /\ UNCHANGED dying
    BY DEF Claim, extras, group
  <2> HIDE DEF u
  <2>2. QED BY <1>5, <1>6, <2>1, TurnChange
<1>8. Quiet(row') BY QuietClaimed
<1>9. /\ heap' \in [Sessions -> SUBSET Trig]
      /\ \A q \in Sessions : heap'[q] \subseteq heap[q]
  BY DEF TypeOK
<1>10. QuietStep BY <1>8, <1>9 DEF QuietStep, Claim
<1>11. RestOK' BY DEF RestOK, TypeOK, Claim, control
<1>12. QED BY <1>7, <1>10, <1>11 DEF Shape, TableStep

LEMMA TurnShape ==
    ASSUME TypeOK, LaneOK, NEW s \in Sessions,
           \/ Unfence(s) \/ Admit(s)
           \/ TurnReturns(s) \/ TurnRaises(s) \/ TurnUnwinds(s)
    PROVE  Shape
<1>1. Quiet(row) BY QuietRow
<1>2. turn[s].group \in SUBSET Trig BY DEF TypeOK, Turn
<1>3. {"capacity", "react", "drop", "acking", "nacking", "stopping"}
        \subseteq Phase \ {"none"}
  BY DEF Phase
<1>4. LanesFrom
  BY <1>3, PhaseChange DEF Unfence, Admit, TurnReturns, TurnRaises, TurnUnwinds
<1>5. RestOK'
  BY DEF RestOK, TypeOK, Unfence, Admit, TurnReturns, TurnRaises, TurnUnwinds,
         control, durable
<1>6. QuietStep \/ EmitStep
  <2>1. CASE UNCHANGED <<row, lastId, heap>>
    BY <1>1, <2>1 DEF QuietStep, TypeOK
  <2>2. CASE LeaveReact(row, s, turn[s].group)
    BY <1>1, <1>2, <2>2, LeaveReactStep
  <2>3. QED
    BY <2>1, <2>2
       DEF Unfence, Admit, TurnReturns, TurnRaises, TurnUnwinds, durable
<1>7. QED BY <1>4, <1>5, <1>6 DEF Shape, TableStep

LEMMA SettleShape ==
    ASSUME TypeOK, LaneOK, NEW s \in Sessions, Ack(s) \/ NackOne(s)
    PROVE  Shape
<1>1. PICK t \in turn[s].group :
        /\ turn' = [turn EXCEPT ![s] = Settled(@, t)]
        /\ \/ row' = SetStatus(row, {t.id}, "DONE") /\ UNCHANGED heap
           \/ Nack(s, t)
  BY DEF Ack, NackOne
<1>2. t \in Lane(s) BY DEF Lane
<1>3. UNCHANGED <<lastId, dying>> BY DEF Ack, NackOne
<1>4. LanesFrom BY <1>1, <1>3, TurnSettled
<1>5. RestOK' BY DEF RestOK, TypeOK, Ack, NackOne, control
<1>6. CASE row' = SetStatus(row, {t.id}, "DONE") /\ UNCHANGED heap
  <2>1. Quiet(row') BY <1>6, QuietSetStatus
  <2>2. QuietStep BY <1>3, <1>6, <2>1 DEF QuietStep, TypeOK
  <2>3. QED BY <1>4, <1>5, <2>2 DEF Shape, TableStep
<1>7. CASE Nack(s, t)
  <2>1. QuietStep \/ RetryStep BY <1>2, <1>3, <1>7, NackStep
  <2>2. QED BY <1>4, <1>5, <2>1 DEF Shape, TableStep
<1>8. QED BY <1>1, <1>6, <1>7

LEMMA StopEffectsShape ==
    ASSUME TypeOK, NEW s \in Sessions, StopEffects(s)
    PROVE  QuietStep /\ LanesFrom
<1>1. row' = SetStatus(row, IdsOf(Continuations(s)), "DONE") /\ lastId' = lastId
  BY DEF StopEffects
<1>2. Quiet(row') BY <1>1, QuietSetStatus
<1>3. /\ heap' \in [Sessions -> SUBSET Trig]
      /\ \A q \in Sessions : heap'[q] \subseteq heap[q]
  BY DEF StopEffects, TypeOK
<1>4. {"unwinding", "stopping"} \subseteq Phase \ {"none"} BY DEF Phase
<1>5. LanesFrom BY <1>4, PhaseChange, SameLanes DEF StopEffects
<1>6. QED BY <1>1, <1>2, <1>3, <1>5 DEF QuietStep

LEMMA StopShape ==
    ASSUME TypeOK, NEW s \in Sessions,
           \/ RequestStop(s) \/ ClearSession(s) \/ StopTimesOut(s)
           \/ KillDone(s) \/ FenceSettles(s) \/ ResetContext(s)
    PROVE  Shape
<1>1. RestOK'
  <2>1. CASE StopEffects(s)
    BY <2>1
       DEF RestOK, TypeOK, RequestStop, ClearSession, StopTimesOut, KillDone,
           FenceSettles, ResetContext, StopEffects, control, durable
  <2>2. CASE ~StopEffects(s)
    BY <2>2
       DEF RestOK, TypeOK, RequestStop, ClearSession, StopTimesOut, KillDone,
           FenceSettles, ResetContext, control, durable
  <2>3. QED BY <2>1, <2>2
<1>2. CASE StopEffects(s)
  BY <1>1, <1>2, StopEffectsShape DEF Shape, TableStep
<1>3. CASE UNCHANGED <<row, lastId, heap, turn, dying>>
  BY <1>1, <1>3, StillShape
<1>4. QED
  BY <1>2, <1>3
     DEF RequestStop, ClearSession, StopTimesOut, KillDone, FenceSettles,
         ResetContext, durable, lanes

LEMMA StoppedShape ==
    ASSUME TypeOK, NEW s \in Sessions, AckStopped(s) \/ StopSettles(s)
    PROVE  Shape
<1>1. RestOK'
  BY DEF RestOK, TypeOK, AckStopped, StopSettles, control
<1>2. CASE AckStopped(s)
  <2> PICK t \in turn[s].group :
         /\ row' = SetStatus(row, {t.id}, "DONE")
         /\ turn' = [turn EXCEPT ![s].group = @ \ {t}]
    BY <1>2 DEF AckStopped
  <2> DEFINE u == [turn[s] EXCEPT !.group = @ \ {t}]
  <2>1. Quiet(row') BY QuietSetStatus
  <2>2. QuietStep BY <1>2, <2>1 DEF QuietStep, AckStopped, TypeOK
  <2>3. turn[s] \in Turn BY DEF TypeOK
  <2>4. u \in Turn /\ u.group \subseteq turn[s].group
        /\ u.phase = "stopping"
    BY <1>2, <2>3 DEF Turn, AckStopped
  <2>5. turn' = [turn EXCEPT ![s] = u] BY DEF TypeOK
  <2> HIDE DEF u
  <2>6. LanesFrom BY <1>2, <2>4, <2>5, TurnChange DEF Lane, AckStopped
  <2>7. QED BY <1>1, <2>2, <2>6 DEF Shape, TableStep
<1>3. CASE StopSettles(s)
  <2>1. Quiet(row') BY <1>3, QuietSetStatus DEF StopSettles
  <2>2. /\ heap' \in [Sessions -> SUBSET Trig]
        /\ \A q \in Sessions : heap'[q] \subseteq heap[q]
    BY <1>3 DEF StopSettles, TypeOK
  <2>3. NoTurn \in Turn /\ NoTurn.group = {} BY DEF NoTurn, Turn, Phase
  <2>4. turn' = [turn EXCEPT ![s] = NoTurn] /\ UNCHANGED dying
    BY <1>3 DEF StopSettles
  <2>5. LanesFrom BY <2>3, <2>4, TurnChange
  <2>6. QED
    BY <1>1, <1>3, <2>1, <2>2, <2>5
       DEF Shape, TableStep, QuietStep, StopSettles
<1>4. QED BY <1>2, <1>3

LEMMA DyingChange ==
    ASSUME TypeOK, NEW s \in Sessions, NEW d \in DyingTurn,
           dying' = [dying EXCEPT ![s] = d],
           \A t \in d.group : t \in Lane(s),
           turn' \in [Sessions -> Turn],
           \A q \in Sessions :
              /\ turn'[q].group \subseteq turn[q].group
              /\ turn'[q].phase = "none" => turn'[q].group = {}
    PROVE  LanesFrom
<1>1. dying' \in [Sessions -> DyingTurn] BY DEF TypeOK
<1>2. \A q \in Sessions : dying'[q] = IF q = s THEN d ELSE dying[q]
  BY DEF TypeOK
<1>3. QED BY <1>1, <1>2 DEF LanesFrom, Lane, TypeOK

LEMMA DeleteShape ==
    ASSUME TypeOK, LaneOK, NEW s \in Sessions,
           BeginDelete(s) \/ DyingTurnEnds(s) \/ DyingNack(s) \/ FinishDelete(s)
    PROVE  Shape
<1>1. RestOK'
  BY DEF RestOK, TypeOK, BeginDelete, DyingTurnEnds, DyingNack, FinishDelete,
         control, lanes
<1>2. turn[s] \in Turn /\ dying[s] \in DyingTurn BY DEF TypeOK
<1>3. NotDying \in DyingTurn /\ NotDying.group = {}
  BY DEF NotDying, DyingTurn
<1>4. CASE BeginDelete(s)
  <2> DEFINE d == IF turn[s].phase \in {"react", "unwinding"}
                  THEN [phase |-> "react", group |-> turn[s].group]
                  ELSE NotDying
  <2>1. Quiet(row') BY <1>4, QuietSetStatus DEF BeginDelete
  <2>2. /\ heap' \in [Sessions -> SUBSET Trig]
        /\ \A q \in Sessions : heap'[q] \subseteq heap[q]
    BY <1>4 DEF BeginDelete, TypeOK
  <2>3. QuietStep BY <1>4, <2>1, <2>2 DEF QuietStep, BeginDelete
  <2>4. d \in DyingTurn /\ \A t \in d.group : t \in Lane(s)
    BY <1>2, <1>3 DEF DyingTurn, Turn, Lane
  <2>5. dying' = [dying EXCEPT ![s] = d] BY <1>4 DEF BeginDelete
  <2>6. NoTurn \in Turn /\ NoTurn.group = {} BY DEF NoTurn, Turn, Phase
  <2>7. /\ turn' \in [Sessions -> Turn]
        /\ \A q \in Sessions :
              /\ turn'[q].group \subseteq turn[q].group
              /\ turn'[q].phase = "none" => turn'[q].group = {}
    BY <1>4, <2>6 DEF BeginDelete, TypeOK
  <2> HIDE DEF d
  <2>8. LanesFrom BY <2>4, <2>5, <2>7, DyingChange
  <2>9. QED BY <1>1, <2>3, <2>8 DEF Shape, TableStep
<1>5. CASE DyingTurnEnds(s)
  <2> DEFINE settled == SetStatus(row, IdsOf(dying[s].group), "DONE")
  <2>1. Quiet(row) /\ Quiet(settled) BY QuietRow, QuietSetStatus
  <2>2. dying[s].group \in SUBSET Trig BY <1>2 DEF DyingTurn
  <2>3. \/ LeaveReact(row, s, dying[s].group)
        \/ LeaveReact(settled, s, dying[s].group)
    BY <1>5 DEF DyingTurnEnds
  <2> HIDE DEF settled
  <2>4. QuietStep \/ EmitStep BY <2>1, <2>2, <2>3, LeaveReactStep
  <2> DEFINE nacking == [dying[s] EXCEPT !.phase = "nacking"]
             u == [turn[s] EXCEPT !.tracked = FALSE]
  <2>5. nacking \in DyingTurn /\ nacking.group = dying[s].group
    BY <1>2 DEF DyingTurn
  <2>6. u \in Turn /\ u.group = turn[s].group /\ u.phase = turn[s].phase
    BY <1>2 DEF Turn
  <2>7. turn' = [turn EXCEPT ![s] = u] BY <1>5 DEF DyingTurnEnds, TypeOK
  <2>8. \/ dying' = [dying EXCEPT ![s] = NotDying]
        \/ dying' = [dying EXCEPT ![s] = nacking]
    BY <1>5 DEF DyingTurnEnds, TypeOK
  <2> HIDE DEF nacking, u
  <2>9. /\ turn' \in [Sessions -> Turn]
        /\ \A q \in Sessions :
              /\ turn'[q].group \subseteq turn[q].group
              /\ turn'[q].phase = "none" => turn'[q].group = {}
    BY <2>6, <2>7 DEF TypeOK
  <2>10. LanesFrom BY <1>3, <2>5, <2>8, <2>9, DyingChange DEF Lane
  <2>11. QED BY <1>1, <2>4, <2>10 DEF Shape, TableStep
<1>6. CASE DyingNack(s)
  <2> PICK t \in dying[s].group :
         /\ Nack(s, t)
         /\ dying' = [dying EXCEPT ![s] = DyingSettled(@, t)]
    BY <1>6 DEF DyingNack
  <2>1. QuietStep \/ RetryStep
    BY <1>6, NackStep DEF DyingNack, Lane
  <2> DEFINE rest == [dying[s] EXCEPT !.group = @ \ {t}]
             d == DyingSettled(dying[s], t)
  <2>2. rest \in DyingTurn /\ rest.group \subseteq dying[s].group
    BY <1>2 DEF DyingTurn
  <2>3. dying' = [dying EXCEPT ![s] = d] BY DEF TypeOK
  <2> HIDE DEF rest
  <2>4. d \in DyingTurn /\ d.group \subseteq dying[s].group
    <3>1. d = NotDying \/ d = rest BY DEF DyingSettled, rest
    <3>2. QED BY <1>3, <2>2, <3>1
  <2> HIDE DEF d
  <2>5. /\ turn' \in [Sessions -> Turn]
        /\ \A q \in Sessions :
              /\ turn'[q].group \subseteq turn[q].group
              /\ turn'[q].phase = "none" => turn'[q].group = {}
    BY <1>6 DEF DyingNack, TypeOK
  <2>6. LanesFrom BY <2>3, <2>4, <2>5, DyingChange DEF Lane
  <2>7. QED BY <1>1, <2>1, <2>6 DEF Shape, TableStep
<1>7. CASE FinishDelete(s)
  BY <1>1, <1>7, StillShape DEF FinishDelete, lanes
<1>8. QED BY <1>4, <1>5, <1>6, <1>7

LEMMA RehydrateStep == ASSUME TypeOK, Rehydrate PROVE LoadStep
<1> DEFINE pending == Unfinished
           stale == {i \in pending : now - row[i].fireAt > StaleAge}
           T(i) == [id |-> i, fireAt |-> row[i].fireAt,
                    copy |-> "rehydrated", carries |-> {i}]
           mine(s) == {j \in pending \ stale : row[j].session = s}
<1> PICK old \in SUBSET {i \in Ids : row[i].status \in {"DONE", "DEAD"}} :
      row' = [i \in Ids |->
                IF i \in stale THEN [row[i] EXCEPT !.status = "DONE"]
                ELSE IF i \in pending THEN [row[i] EXCEPT !.status = "PENDING"]
                ELSE IF i \in old THEN [row[i] EXCEPT !.status = "gone"]
                ELSE row[i]]
  BY DEF Rehydrate
<1>1. heap' = [s \in Sessions |-> heap[s] \cup {T(i) : i \in mine(s)}]
  BY DEF Rehydrate
<1>2. \A i \in pending : i \in Ids /\ Active(i) BY DEF Unfinished
<1>3. stale \subseteq pending OBVIOUS
<1>4. \A i \in Ids : i \notin pending => ~Active(i) BY DEF Unfinished
<1> HIDE DEF pending, stale
<1>5. ASSUME NEW i \in Ids
      PROVE  /\ row'[i] \in Row
             /\ row'[i].session = row[i].session
             /\ row'[i].source = row[i].source
             /\ row'[i].key = row[i].key
             /\ row'[i].attempts >= row[i].attempts
             /\ row'[i].status = "free" <=> row[i].status = "free"
             /\ row'[i].status \in ActiveStatus => i \in pending \ stale
             /\ row'[i].status = "DEAD" => row[i].status = "DEAD"
  <2> DEFINE x == row[i]
             y(st) == [x EXCEPT !.status = st]
  <2>1. x \in Row BY DEF TypeOK
  <2>2. x.attempts \in Nat BY <2>1 DEF Row
  <2>3. \/ i \in stale /\ row'[i] = y("DONE")
        \/ i \in pending \ stale /\ row'[i] = y("PENDING")
        \/ i \in old /\ row'[i] = y("gone")
        \/ i \notin pending /\ row'[i] = x
    OBVIOUS
  <2>4. i \in pending => x.status \in ActiveStatus BY <1>2 DEF Active
  <2>5. i \notin pending => x.status \notin ActiveStatus BY <1>4 DEF Active
  <2>6. i \in old => x.status \in {"DONE", "DEAD"} OBVIOUS
  <2> HIDE DEF x
  <2>7. \A st \in Status :
          /\ y(st) \in Row /\ y(st).status = st
          /\ y(st).session = x.session /\ y(st).source = x.source
          /\ y(st).key = x.key /\ y(st).attempts = x.attempts
    BY <2>1, RowStatus
  <2> HIDE DEF y
  <2>8. /\ row'[i] \in Row
        /\ row'[i].session = x.session /\ row'[i].source = x.source
        /\ row'[i].key = x.key /\ row'[i].attempts = x.attempts
    BY <2>1, <2>3, <2>7 DEF Status
  <2>9. \/ i \in stale /\ row'[i].status = "DONE"
        \/ i \in pending \ stale /\ row'[i].status = "PENDING"
        \/ i \in old /\ row'[i].status = "gone"
        \/ i \notin pending /\ row'[i].status = x.status
    BY <2>3, <2>7 DEF Status
  <2>10. /\ row'[i].status = "free" <=> x.status = "free"
         /\ row'[i].status \in ActiveStatus => i \in pending \ stale
         /\ row'[i].status = "DEAD" => x.status = "DEAD"
    BY <1>3, <2>4, <2>5, <2>6, <2>9 DEF ActiveStatus
  <2>11. QED BY <2>2, <2>8, <2>10 DEF x
<1>6. row' \in Table BY <1>5 DEF Table
<1>7. Quiet(row')
  BY <1>2, <1>5, <1>6 DEF Quiet, Active
<1>8. ASSUME NEW s \in Sessions, NEW i \in mine(s)
      PROVE  T(i) \in Trig /\ T(i).id = i /\ i \in Ids /\ Active(i)
             /\ row[i].session = s
  <2>1. i \in Ids /\ Active(i) /\ row[i].session = s BY <1>2
  <2>2. row[i].fireAt \in Nat BY <2>1 DEF TypeOK, Row
  <2>3. QED BY <2>1, <2>2 DEF Trig
<1>9. \A i \in Ids : Active(i)' => i \in mine(row[i].session)
  BY <1>5 DEF Active
<1> HIDE DEF T, mine
<1>10. heap' \in [Sessions -> SUBSET Trig] BY <1>1, <1>8 DEF TypeOK
<1>11. ASSUME NEW s \in Sessions, NEW t \in heap'[s]
       PROVE  t \in heap[s] \/ (Active(t.id) /\ row[t.id].session = s)
  BY <1>1, <1>8
<1>12. ASSUME NEW i \in Ids, Active(i)'
       PROVE  i \in IdsOf(heap'[row[i].session])
  <2>1. row[i].session \in Sessions BY DEF TypeOK, Row
  <2>2. T(i) \in heap'[row[i].session] /\ T(i).id = i
    BY <1>1, <1>8, <1>9, <1>12, <2>1
  <2>3. QED BY <2>2 DEF IdsOf
<1>13. proc = "boot" /\ lastId' = lastId BY DEF Rehydrate
<1>14. QED BY <1>7, <1>10, <1>11, <1>12, <1>13 DEF LoadStep

LEMMA ProcessShape ==
    ASSUME TypeOK, Boot \/ Crash \/ ClearStore \/ Tick
    PROVE  Shape
<1>1. RestOK'
  BY DEF RestOK, TypeOK, Boot, StartProcess, Rehydrate, StartLoops, Crash,
         ClearStore, Tick, control, durable
<1>2. CASE Rehydrate
  <2>1. LanesFrom BY <1>2, SameLanes DEF Rehydrate
  <2>2. QED BY <1>1, <1>2, <2>1, RehydrateStep DEF Shape, TableStep
<1>3. CASE Crash
  <2>1. Quiet(row') BY <1>3, QuietRow DEF Crash, durable, Quiet
  <2>2. QuietStep BY <1>3, <2>1 DEF QuietStep, Crash, durable
  <2>3. /\ NoTurn \in Turn /\ NoTurn.group = {}
        /\ NotDying \in DyingTurn /\ NotDying.group = {}
    BY DEF NoTurn, Turn, Phase, NotDying, DyingTurn
  <2>4. LanesFrom BY <1>3, <2>3 DEF LanesFrom, Crash
  <2>5. QED BY <1>1, <2>2, <2>4 DEF Shape, TableStep
<1>4. CASE ClearStore
  <2>1. ASSUME NEW i \in Ids
        PROVE  /\ row'[i] \in Row
               /\ row'[i].session = row[i].session
               /\ row'[i].source = row[i].source
               /\ row'[i].key = row[i].key
               /\ row'[i].attempts >= row[i].attempts
               /\ \/ row'[i].status = row[i].status /\ row[i].status = "free"
                  \/ row'[i].status = "gone" /\ row[i].status # "free"
    <3> DEFINE x == row[i]
               y == [x EXCEPT !.status = "gone"]
    <3>1. x \in Row BY DEF TypeOK
    <3>2. x.attempts \in Nat /\ x.attempts >= x.attempts
      <4>1. x.attempts \in Nat BY <3>1 DEF Row
      <4>2. QED BY <4>1
    <3>3. row'[i] = IF x.status = "free" THEN x ELSE y
      BY <1>4 DEF ClearStore
    <3> HIDE DEF x
    <3>4. /\ y \in Row /\ y.status = "gone"
          /\ y.session = x.session /\ y.source = x.source
          /\ y.key = x.key /\ y.attempts = x.attempts
      BY <3>1, RowStatus DEF Status
    <3> HIDE DEF y
    <3>5. QED BY <3>1, <3>2, <3>3, <3>4 DEF x
  <2>2. row' \in Table BY <1>4, <2>1 DEF Table, ClearStore
  <2>3. Quiet(row') BY <2>1, <2>2 DEF Quiet, ActiveStatus
  <2>4. QuietStep BY <1>4, <2>3 DEF QuietStep, ClearStore, lanes, TypeOK
  <2>5. LanesFrom BY <1>4, SameLanes DEF ClearStore, lanes
  <2>6. QED BY <1>1, <2>4, <2>5 DEF Shape, TableStep
<1>5. CASE StartProcess \/ StartLoops \/ Tick
  BY <1>1, <1>5, StillShape DEF StartProcess, StartLoops, Tick, durable, lanes
<1>6. QED BY <1>2, <1>3, <1>4, <1>5 DEF Boot

\* Every step changes the table in one of the four ways and lets triggers into
\* turns only from their own lane.
LEMMA StepShape == ASSUME TypeOK, LaneOK, [Next]_vars PROVE Shape
<1>1. ASSUME NEW s \in Sessions, Progress(s) PROVE Shape
  BY <1>1, ClaimShape, TurnShape, SettleShape, StoppedShape, StopShape,
     DeleteShape DEF Progress
<1>2. CASE UNCHANGED vars
  <2>1. RestOK' BY <1>2 DEF vars, RestOK, TypeOK
  <2>2. QED BY <1>2, <2>1, StillShape DEF vars
<1>3. QED
  BY <1>1, <1>2, EmitShape, StopShape, DeleteShape, ProcessShape DEF Next

-----------------------------------------------------------------------------
(* What every shape of step preserves *)

LEMMA LanesKept ==
    ASSUME TypeOK, LaneOK, Shape, lastId' >= lastId,
           \A i \in Ids : row'[i].session = row[i].session \/ i > lastId,
           \A s \in Sessions : \A t \in heap'[s] :
              \/ \E u \in Lane(s) : u.id = t.id
              \/ t \in Trig /\ t.id <= lastId' /\ row'[t.id].session = s
    PROVE  LaneOK'
<1>1. ASSUME NEW s \in Sessions, NEW u \in Lane(s)
      PROVE  u.id \in Ids /\ u.id <= lastId' /\ row'[u.id].session = s
  <2>1. u.id \in Ids BY DEF Lane, TypeOK, Turn, DyingTurn, Trig
  <2>2. u.id <= lastId /\ row[u.id].session = s BY DEF LaneOK
  <2>3. /\ lastId \in Int /\ lastId' \in Int /\ u.id \in Int
        /\ MaxRows \in Nat
    BY <2>1, BoundsAssumption
       DEF TypeOK, Shape, TableStep, QuietStep, EmitStep, RetryStep, LoadStep,
           Emitted, Trig
  <2>4. ~(u.id > lastId) /\ u.id <= lastId' BY <2>2, <2>3
  <2>5. QED BY <2>1, <2>2, <2>4
<1>2. ASSUME NEW s \in Sessions, NEW t \in Lane(s)'
      PROVE  t.id <= lastId' /\ row'[t.id].session = s
  <2>1. CASE t \in heap'[s] BY <1>1, <2>1
  <2>2. CASE t \in turn'[s].group \cup dying'[s].group
    <3>1. PICK u \in Lane(s) : u.id = t.id BY <2>2 DEF Shape, LanesFrom
    <3>2. QED BY <1>1, <3>1
  <2>3. QED BY <2>1, <2>2 DEF Lane
<1>3. QED BY <1>2 DEF LaneOK

LEMMA ShapeTypes == ASSUME TypeOK, LaneOK, Shape PROVE TypeOK' /\ LaneOK'
<1>1. RestOK' /\ LanesFrom BY DEF Shape
<1>2. lastId \in Nat /\ lastId <= MaxRows /\ MaxRows \in Nat
  BY BoundsAssumption DEF TypeOK
<1>3. ASSUME NEW s \in Sessions, NEW t \in Lane(s)
      PROVE  t \in Trig /\ t.id \in Ids /\ t.id <= lastId
             /\ row[t.id].session = s
  BY DEF LaneOK, Lane, TypeOK, Turn, DyingTurn, Trig
<1>4. CASE QuietStep \/ LoadStep
  <2>1. Quiet(row') /\ lastId' = lastId /\ heap' \in [Sessions -> SUBSET Trig]
    BY <1>4 DEF QuietStep, LoadStep
  <2>2. \A i \in Ids : row'[i].status = "free" <=> i > lastId'
    BY <2>1 DEF Quiet, TypeOK
  <2>3. TypeOK'
    BY <1>1, <1>2, <2>1, <2>2
       DEF TypeOK, RestOK, LanesFrom, Quiet, Table
  <2>4. ASSUME NEW s \in Sessions, NEW t \in heap'[s]
        PROVE  \/ \E u \in Lane(s) : u.id = t.id
               \/ t \in Trig /\ t.id <= lastId' /\ row'[t.id].session = s
    <3>1. t \in Trig /\ t.id \in Ids BY <2>1 DEF Trig
    <3>2. CASE t \in heap[s] BY <3>2 DEF Lane
    <3>3. CASE Active(t.id) /\ row[t.id].session = s
      <4>1. row[t.id].status # "free" BY <3>3 DEF Active, ActiveStatus
      <4>2. ~(t.id > lastId) BY <3>1, <4>1 DEF TypeOK
      <4>3. t.id <= lastId' BY <1>2, <2>1, <3>1, <4>2
      <4>4. QED BY <2>1, <3>1, <3>3, <4>3 DEF Quiet
    <3>4. QED BY <1>4, <3>2, <3>3 DEF QuietStep, LoadStep
  <2>5. LaneOK' BY <1>2, <2>1, <2>4, LanesKept DEF Quiet
  <2>6. QED BY <2>3, <2>5
<1>5. CASE EmitStep
  <2>1. PICK r \in Table, s \in Sessions, key \in Keys :
           Quiet(r) /\ Emitted(r, s, key)
    BY <1>5 DEF EmitStep
  <2>2. PICK t \in Trig :
        /\ t.id = lastId + 1 /\ lastId' = t.id /\ row' \in Table
        /\ row'[t.id].status = "PENDING" /\ row'[t.id].session = s
        /\ \A j \in Ids \ {t.id} : row'[j] = r[j]
        /\ heap' = [heap EXCEPT ![s] = @ \cup {t}]
    BY <2>1 DEF Emitted
  <2>3. t.id \in Ids BY DEF Trig
  <2>4. \A i \in Ids : row'[i].status = "free" <=> i > lastId'
    <3> SUFFICES ASSUME NEW i \in Ids
                 PROVE  row'[i].status = "free" <=> i > lastId'
      OBVIOUS
    <3>1. CASE i = t.id BY <1>2, <2>2, <3>1
    <3>2. CASE i # t.id
      <4>1. row'[i].status = "free" <=> row[i].status = "free"
        BY <2>1, <2>2, <3>2 DEF Quiet
      <4>2. row[i].status = "free" <=> i > lastId BY DEF TypeOK
      <4>3. QED BY <1>2, <2>2, <3>2, <4>1, <4>2
    <3>3. QED BY <3>1, <3>2
  <2>5. lastId' \in 0..MaxRows BY <1>2, <2>2, <2>3
  <2>6. heap' \in [Sessions -> SUBSET Trig] BY <2>2 DEF TypeOK
  <2>7. TypeOK'
    BY <1>1, <2>2, <2>4, <2>5, <2>6 DEF TypeOK, RestOK, LanesFrom, Table
  <2>8. \A i \in Ids : row'[i].session = row[i].session \/ i > lastId
    BY <1>2, <2>1, <2>2 DEF Quiet
  <2>9. lastId' >= lastId BY <1>2, <2>2
  <2>10. ASSUME NEW q \in Sessions, NEW u \in heap'[q]
         PROVE  \/ \E v \in Lane(q) : v.id = u.id
                \/ u \in Trig /\ u.id <= lastId' /\ row'[u.id].session = q
    <3>1. CASE q = s /\ u = t BY <1>2, <2>2, <3>1
    <3>2. CASE u \in heap[q] BY <3>2 DEF Lane
    <3>3. QED BY <2>2, <3>1, <3>2 DEF TypeOK
  <2>11. LaneOK' BY <2>8, <2>9, <2>10, LanesKept
  <2>12. QED BY <2>7, <2>11
<1>6. CASE RetryStep
  <2>1. PICK s \in Sessions, t \in Trig, u \in Trig :
        /\ t \in Lane(s) /\ u.id = t.id /\ row' \in Table
        /\ row'[t.id].status = "PENDING"
        /\ row'[t.id].session = row[t.id].session
        /\ \A j \in Ids \ {t.id} : row'[j] = row[j]
        /\ lastId' = lastId
        /\ heap' = [heap EXCEPT ![s] = @ \cup {u}]
    BY <1>3, <1>6 DEF RetryStep
  <2>2. \A i \in Ids : row'[i].status = "free" <=> i > lastId'
    <3> SUFFICES ASSUME NEW i \in Ids
                 PROVE  row'[i].status = "free" <=> i > lastId'
      OBVIOUS
    <3>1. CASE i = t.id BY <1>2, <1>3, <2>1, <3>1
    <3>2. CASE i # t.id BY <2>1, <3>2 DEF TypeOK
    <3>3. QED BY <3>1, <3>2
  <2>3. heap' \in [Sessions -> SUBSET Trig] BY <2>1 DEF TypeOK
  <2>4. TypeOK'
    BY <1>1, <1>2, <2>1, <2>2, <2>3 DEF TypeOK, RestOK, LanesFrom, Table
  <2>5. \A i \in Ids : row'[i].session = row[i].session BY <2>1
  <2>6. ASSUME NEW q \in Sessions, NEW v \in heap'[q]
        PROVE  \E w \in Lane(q) : w.id = v.id
    BY <2>1 DEF TypeOK, Lane
  <2>7. LaneOK' BY <1>2, <2>1, <2>5, <2>6, LanesKept
  <2>8. QED BY <2>4, <2>7
<1>7. QED BY <1>4, <1>5, <1>6 DEF Shape, TableStep

LEMMA InitTypes == ASSUME Init PROVE TypeOK /\ LaneOK
<1>1. FreeRow \in Row /\ FreeRow.status = "free"
  BY SessionsAssumption
     DEF FreeRow, Row, Status, Sources, Origins, Keys
<1>2. NoTurn \in Turn /\ NoTurn.group = {}
  BY DEF NoTurn, Turn, Phase
<1>3. NotDying \in DyingTurn /\ NotDying.group = {}
  BY DEF NotDying, DyingTurn
<1>4. 0 \in 0..MaxRows /\ \A i \in Ids : i > 0
  BY BoundsAssumption
<1>5. TypeOK BY <1>1, <1>2, <1>3, <1>4 DEF Init, TypeOK
<1>6. LaneOK BY <1>2, <1>3 DEF Init, LaneOK, Lane
<1>7. QED BY <1>5, <1>6

\* Every state is well typed, and a trigger in a lane names a row that was
\* inserted for that lane's session.
THEOREM TypesInvariant == Spec => [](TypeOK /\ LaneOK)
<1>1. Init => TypeOK /\ LaneOK BY InitTypes
<1>2. TypeOK /\ LaneOK /\ [Next]_vars => (TypeOK /\ LaneOK)'
  BY StepShape, ShapeTypes
<1>3. QED BY <1>1, <1>2, PTL DEF Spec

\* The table, the queues, the turns and the signals keep their types.
THEOREM TypeCorrect == Spec => []TypeOK
BY TypesInvariant, PTL

-----------------------------------------------------------------------------
(* The dedup index and the dead letters *)

LEMMA UniqueKeysStep ==
    ASSUME TypeOK, LaneOK, UniqueKeys, Shape PROVE UniqueKeys'
<1>1. ASSUME NEW i \in Ids, NEW j \in Ids, i # j, Active(i), Active(j),
             row[i].key = row[j].key
      PROVE  row[i].key = NoKey
  BY <1>1 DEF UniqueKeys, KeyTaken, Active
<1> SUFFICES ASSUME NEW i \in Ids, NEW j \in Ids, i # j,
                    row'[i].status \in ActiveStatus,
                    row'[j].status \in ActiveStatus,
                    row'[i].key = row'[j].key
             PROVE  row'[i].key = NoKey
  BY DEF UniqueKeys, KeyTaken, Active
<1>2. CASE Quiet(row')
  BY <1>1, <1>2 DEF Quiet, Active
<1>3. CASE EmitStep
  <2>1. PICK r \in Table, key \in Keys, t \in Trig :
        /\ Quiet(r) /\ ~KeyTaken(row, lastId + 1, key)
        /\ t.id = lastId + 1
        /\ row'[t.id].key = key
        /\ \A k \in Ids \ {t.id} : row'[k] = r[k]
    BY <1>3 DEF EmitStep, Emitted
  <2>2. ASSUME NEW k \in Ids, k # t.id, row'[k].status \in ActiveStatus
        PROVE  Active(k) /\ row'[k].key = row[k].key
    BY <2>1, <2>2 DEF Quiet, Active
  <2>3. ASSUME NEW k \in Ids, k # t.id, row'[k].status \in ActiveStatus,
               row'[k].key = row'[t.id].key
        PROVE  row'[k].key = NoKey
    BY <2>1, <2>2, <2>3 DEF KeyTaken, Active
  <2>4. QED BY <1>1, <2>2, <2>3
<1>4. CASE RetryStep
  <2>1. PICK t \in Ids :
        /\ ~KeyTaken(row, t, row[t].key)
        /\ row'[t].key = row[t].key
        /\ \A k \in Ids \ {t} : row'[k] = row[k]
    BY <1>4 DEF RetryStep, Trig
  <2>2. ASSUME NEW k \in Ids, k # t, row'[k].status \in ActiveStatus,
               row'[k].key = row'[t].key
        PROVE  row'[k].key = NoKey
    BY <2>1, <2>2 DEF KeyTaken
  <2>3. QED BY <1>1, <2>1, <2>2 DEF Active
<1>5. QED BY <1>2, <1>3, <1>4 DEF Shape, TableStep, QuietStep, LoadStep

LEMMA ParkedStep ==
    ASSUME TypeOK, LaneOK, ParkedWereTried, Shape PROVE ParkedWereTried'
<1> SUFFICES ASSUME NEW i \in Ids, row'[i].status = "DEAD"
             PROVE  row'[i].attempts >= MaxAttempts
  BY DEF ParkedWereTried
<1>1. ASSUME NEW r, Quiet(r), r[i].status = "DEAD"
      PROVE  r[i].attempts >= MaxAttempts
  <2>1. row[i].attempts >= MaxAttempts BY <1>1 DEF Quiet, ParkedWereTried
  <2>2. row[i].attempts \in Nat /\ r[i].attempts \in Nat /\ MaxAttempts \in Nat
    BY <1>1, BoundsAssumption DEF TypeOK, Quiet, Table, Row
  <2>3. r[i].attempts >= row[i].attempts BY <1>1 DEF Quiet
  <2>4. QED BY <2>1, <2>2, <2>3
<1>2. CASE Quiet(row') BY <1>1, <1>2
<1>3. CASE EmitStep
  <2>1. PICK r \in Table, t \in Trig :
        /\ Quiet(r)
        /\ row'[t.id].status = "PENDING"
        /\ \A k \in Ids \ {t.id} : row'[k] = r[k]
    BY <1>3 DEF EmitStep, Emitted
  <2>2. i # t.id BY <2>1
  <2>3. QED BY <1>1, <2>1, <2>2
<1>4. CASE RetryStep
  <2>1. PICK t \in Trig :
        /\ row'[t.id].status = "PENDING"
        /\ \A k \in Ids \ {t.id} : row'[k] = row[k]
    BY <1>4 DEF RetryStep, LaneOK, Lane, TypeOK, Turn, DyingTurn
  <2>2. i # t.id BY <2>1
  <2>3. QED BY <2>1, <2>2 DEF ParkedWereTried
<1>5. QED BY <1>2, <1>3, <1>4 DEF Shape, TableStep, QuietStep, LoadStep

LEMMA InitKeys == ASSUME Init PROVE UniqueKeys /\ ParkedWereTried
BY DEF Init, UniqueKeys, ParkedWereTried, Active, ActiveStatus, FreeRow

\* Whatever is emitted, retried, cancelled, reclaimed or wiped, no two
\* unfinished rows share a dedup key.
THEOREM KeysAreUnique == Spec => []UniqueKeys
<1>1. Init => UniqueKeys BY InitKeys
<1>2. TypeOK /\ LaneOK /\ UniqueKeys /\ [Next]_vars => UniqueKeys'
  BY StepShape, UniqueKeysStep
<1>3. QED BY <1>1, <1>2, TypesInvariant, PTL DEF Spec

\* A row is dead-lettered only after MAX_ATTEMPTS claims.
THEOREM ParkedRowsWereTried == Spec => []ParkedWereTried
<1>1. Init => ParkedWereTried BY InitKeys
<1>2. TypeOK /\ LaneOK /\ ParkedWereTried /\ [Next]_vars => ParkedWereTried'
  BY StepShape, ParkedStep
<1>3. QED BY <1>1, <1>2, TypesInvariant, PTL DEF Spec

-----------------------------------------------------------------------------
(* Recoverability: no unfinished row is left without a trigger *)

NextHeld(s) == heap'[s] \cup turn'[s].group

\* A step drops a row's trigger only with the row.
KeepsHeld ==
    \A i \in Ids :
        /\ row'[i].status \in ActiveStatus
        /\ i \in IdsOf(Held(row[i].session))
        => i \in IdsOf(NextHeld(row[i].session))

\* It is enough that every trigger that leaves its lane leaves a closed row.
LEMMA HeldOrClosed ==
    ASSUME TypeOK,
           \A s \in Sessions : \A t \in Held(s) :
              \/ \E u \in NextHeld(s) : u.id = t.id
              \/ row[t.id].session = s => row'[t.id].status \notin ActiveStatus
    PROVE  KeepsHeld
<1> SUFFICES ASSUME NEW i \in Ids, row'[i].status \in ActiveStatus,
                    i \in IdsOf(Held(row[i].session))
             PROVE  i \in IdsOf(NextHeld(row[i].session))
  BY DEF KeepsHeld
<1>1. row[i].session \in Sessions BY DEF TypeOK, Row
<1>2. PICK t \in Held(row[i].session) : t.id = i BY DEF IdsOf
<1>3. PICK u \in NextHeld(row[i].session) : u.id = i BY <1>1, <1>2
<1>4. QED BY <1>3 DEF IdsOf

LEMMA HeldGrows ==
    ASSUME TypeOK,
           \A s \in Sessions : heap[s] \subseteq heap'[s],
           \A s \in Sessions : turn[s].group \subseteq turn'[s].group
    PROVE  KeepsHeld
BY HeldOrClosed DEF NextHeld, Held

LEMMA HeldIds ==
    ASSUME TypeOK, NEW s \in Sessions, NEW t \in Held(s)
    PROVE  t \in Trig /\ t.id \in Ids
BY DEF NextHeld, Held, TypeOK, Turn, Trig

\* A settled row is closed.
LEMMA SetStatusCloses ==
    ASSUME TypeOK, NEW ids, NEW st \in {"DONE", "DEAD"}, NEW i \in ids \cap Ids
    PROVE  SetStatus(row, ids, st)[i].status \notin ActiveStatus
<1>1. row \in Table /\ st \in Status \ {"free"} BY DEF TypeOK, Table, Status
<1>2. i \in Ids OBVIOUS
<1> DEFINE y == SetStatus(row, ids, st)[i]
<1>3. /\ row[i].status \in {"free", "gone"} => y = row[i]
      /\ row[i].status \notin {"free", "gone"} => y.status = st
  BY <1>1, <1>2, SetStatusFacts
<1> HIDE DEF y
<1>4. y.status \notin ActiveStatus BY <1>3 DEF ActiveStatus
<1>5. QED BY <1>4 DEF y

LEMMA ClaimHeld ==
    ASSUME TypeOK, NEW s \in Sessions, Claim(s) PROVE KeepsHeld
<1> PICK base \in Due(s) :
      LET extras == Extras(s, base)
          group == {Merged(base, extras)} \cup extras
      IN  /\ heap' = [heap EXCEPT ![s] = @ \ ({base} \cup extras)]
          /\ turn' = [turn EXCEPT ![s] =
               [phase |-> IF stop[s] = "none" THEN "capacity" ELSE "fenced",
                group |-> group, tracked |-> TRUE]]
  BY DEF Claim
<1> DEFINE extras == Extras(s, base)
           m == Merged(base, extras)
           u == [phase |-> IF stop[s] = "none" THEN "capacity" ELSE "fenced",
                 group |-> {m} \cup extras, tracked |-> TRUE]
<1>1. m.id = base.id BY DEF Merged, Due, TypeOK, Trig
<1>2. turn[s].group = {} BY DEF Claim, TypeOK
<1>3. u.group = {m} \cup extras OBVIOUS
<1>4. turn' = [turn EXCEPT ![s] = u] OBVIOUS
<1>5. heap' = [heap EXCEPT ![s] = @ \ ({base} \cup extras)] OBVIOUS
<1> HIDE DEF m, u, extras
<1>6. ASSUME NEW q \in Sessions, NEW t \in Held(q)
      PROVE  \E v \in NextHeld(q) : v.id = t.id
  <2>1. CASE q # s BY <1>4, <1>5, <2>1 DEF NextHeld, Held, TypeOK
  <2>2. CASE q = s
    <3>1. t \in heap[s] BY <1>2, <2>2 DEF NextHeld, Held
    <3>2. /\ NextHeld(s) = (heap[s] \ ({base} \cup extras)) \cup {m} \cup extras
      BY <1>3, <1>4, <1>5 DEF NextHeld, Held, TypeOK
    <3>3. QED BY <1>1, <2>2, <3>1, <3>2
  <2>3. QED BY <2>1, <2>2
<1>7. QED BY <1>6, HeldOrClosed

LEMMA TurnHeld ==
    ASSUME TypeOK, NEW s \in Sessions,
           \/ Unfence(s) \/ Admit(s)
           \/ TurnReturns(s) \/ TurnRaises(s) \/ TurnUnwinds(s)
    PROVE  KeepsHeld
<1>1. turn[s].group \in SUBSET Trig /\ row \in Table
  BY DEF TypeOK, Turn, Table
<1>2. \A q \in Sessions : heap[q] \subseteq heap'[q]
  BY <1>1, LeaveReactFacts
     DEF Unfence, Admit, TurnReturns, TurnRaises, TurnUnwinds, Emitted, TypeOK
<1>3. PICK phase : SetPhase(s, phase)
  BY DEF Unfence, Admit, TurnReturns, TurnRaises, TurnUnwinds
<1>4. \A q \in Sessions : turn'[q].group = turn[q].group
  BY <1>3 DEF SetPhase, TypeOK, Turn
<1>5. QED BY <1>2, <1>4, HeldGrows

\* A nack closes the row, or queues it again; the dedup index refuses only a
\* row that is closed already.
LEMMA NackHeld ==
    ASSUME TypeOK, UniqueKeys, NEW s \in Sessions, NEW t \in Trig, Nack(s, t)
    PROVE  /\ \A q \in Sessions : heap[q] \subseteq heap'[q]
           /\ \/ row'[t.id].status \notin ActiveStatus
              \/ \E u \in heap'[s] : u.id = t.id
<1>0. t.id \in Ids BY DEF Trig
<1> DEFINE at == Capped(now + Backoff(Attempts(t.id)))
           u == [t EXCEPT !.fireAt = at]
<1>1. CASE row' = SetStatus(row, {t.id}, "DEAD") /\ UNCHANGED heap
  BY <1>0, <1>1, SetStatusCloses
<1>2. CASE KeyTaken(row, t.id, row[t.id].key) /\ UNCHANGED <<row, heap>>
  BY <1>0, <1>2 DEF UniqueKeys, Active
<1>3. CASE heap' = [heap EXCEPT ![s] = @ \cup {u}]
  <2>1. u.id = t.id BY DEF Trig
  <2> HIDE DEF u
  <2>2. QED BY <1>3, <2>1 DEF TypeOK
<1>4. QED BY <1>1, <1>2, <1>3 DEF Nack

LEMMA SettleHeld ==
    ASSUME TypeOK, UniqueKeys, NEW s \in Sessions, Ack(s) \/ NackOne(s)
    PROVE  KeepsHeld
<1>1. PICK t \in turn[s].group :
        /\ turn' = [turn EXCEPT ![s] = Settled(@, t)]
        /\ \/ row' = SetStatus(row, {t.id}, "DONE") /\ UNCHANGED heap
           \/ Nack(s, t)
  BY DEF Ack, NackOne
<1>2. t \in Trig /\ t.id \in Ids BY DEF TypeOK, Turn, Trig
<1>3. \A q \in Sessions : heap[q] \subseteq heap'[q]
  BY <1>1, <1>2, NackHeld
<1>4. \/ row'[t.id].status \notin ActiveStatus
      \/ \E u \in heap'[s] : u.id = t.id
  BY <1>1, <1>2, NackHeld, SetStatusCloses
<1>5. \A q \in Sessions : turn[q].group \subseteq turn'[q].group \cup
                             (IF q = s THEN {t} ELSE {})
  <2>1. turn[s].group \subseteq Settled(turn[s], t).group \cup {t}
    BY DEF Settled, TypeOK, Turn
  <2>2. QED BY <1>1, <2>1 DEF TypeOK
<1>6. QED BY <1>3, <1>4, <1>5, HeldOrClosed DEF Held, NextHeld

LEMMA StopEffectsHeld ==
    ASSUME TypeOK, NEW s \in Sessions,
           row' = SetStatus(row, IdsOf(Continuations(s)), "DONE"),
           heap' = [heap EXCEPT ![s] = @ \ Continuations(s)],
           \A q \in Sessions : turn[q].group \subseteq turn'[q].group
    PROVE  KeepsHeld
<1>1. ASSUME NEW q \in Sessions, NEW t \in Held(q)
      PROVE  t \in NextHeld(q) \/ row'[t.id].status \notin ActiveStatus
  <2>1. t.id \in Ids BY HeldIds
  <2>2. CASE q = s /\ t \in Continuations(s)
    <3>1. t.id \in IdsOf(Continuations(s)) BY <2>2 DEF IdsOf
    <3>2. QED BY <2>1, <3>1, SetStatusCloses
  <2>3. CASE ~(q = s /\ t \in Continuations(s))
    BY <2>3 DEF Held, NextHeld, TypeOK
  <2>4. QED BY <2>2, <2>3
<1>2. QED BY <1>1, HeldOrClosed

LEMMA StopHeld ==
    ASSUME TypeOK, NEW s \in Sessions,
           \/ RequestStop(s) \/ ClearSession(s) \/ StopTimesOut(s)
           \/ KillDone(s) \/ FenceSettles(s) \/ ResetContext(s)
    PROVE  KeepsHeld
<1>1. CASE StopEffects(s)
  <2>1. \A q \in Sessions : turn[q].group \subseteq turn'[q].group
    BY <1>1 DEF StopEffects, SetPhase, TypeOK, Turn
  <2>2. QED BY <1>1, <2>1, StopEffectsHeld DEF StopEffects
<1>2. CASE UNCHANGED <<heap, turn>> BY <1>2, HeldGrows
<1>3. QED
  BY <1>1, <1>2
     DEF RequestStop, ClearSession, StopTimesOut, KillDone, FenceSettles,
         ResetContext, lanes

LEMMA StoppedHeld ==
    ASSUME TypeOK, NEW s \in Sessions, AckStopped(s) \/ StopSettles(s)
    PROVE  KeepsHeld
<1>1. CASE AckStopped(s)
  <2> PICK t \in turn[s].group :
         /\ row' = SetStatus(row, {t.id}, "DONE")
         /\ turn' = [turn EXCEPT ![s].group = @ \ {t}]
    BY <1>1 DEF AckStopped
  <2>1. t.id \in Ids BY DEF TypeOK, Turn, Trig
  <2>2. row'[t.id].status \notin ActiveStatus BY <2>1, SetStatusCloses
  <2>3. \A q \in Sessions : turn[q].group \subseteq turn'[q].group \cup {t}
    BY DEF TypeOK, Turn
  <2>4. UNCHANGED heap BY <1>1 DEF AckStopped
  <2>5. QED BY <2>2, <2>3, <2>4, HeldOrClosed DEF Held, NextHeld
<1>2. CASE StopSettles(s)
  <2>1. \A q \in Sessions : turn[q].group \subseteq turn'[q].group
    BY <1>2 DEF StopSettles, TypeOK
  <2>2. QED BY <1>2, <2>1, StopEffectsHeld DEF StopSettles
<1>3. QED BY <1>1, <1>2

LEMMA DeleteHeld ==
    ASSUME TypeOK, UniqueKeys, NEW s \in Sessions,
           BeginDelete(s) \/ DyingTurnEnds(s) \/ DyingNack(s) \/ FinishDelete(s)
    PROVE  KeepsHeld
<1>1. CASE BeginDelete(s)
  <2> DEFINE mine == {i \in Unfinished : row[i].session = s}
  <2>1. row' = SetStatus(row, mine \cup IdsOf(heap[s]), "DONE")
    BY <1>1 DEF BeginDelete
  <2>2. ASSUME NEW i \in Ids, row[i].session = s
        PROVE  row'[i].status \notin ActiveStatus
    <3>1. CASE i \in mine BY <2>1, <3>1, SetStatusCloses
    <3>2. CASE i \notin mine
      <4>1. ~Active(i) BY <2>2, <3>2 DEF Unfinished
      <4>2. Quiet(row') BY <2>1, QuietSetStatus
      <4>3. QED BY <4>1, <4>2 DEF Quiet, Active
    <3>3. QED BY <3>1, <3>2
  <2>3. ASSUME NEW q \in Sessions, NEW t \in Held(q), row[t.id].session = q
        PROVE  t \in NextHeld(q) \/ row'[t.id].status \notin ActiveStatus
    <3>1. t.id \in Ids BY HeldIds
    <3>2. CASE q = s BY <2>2, <2>3, <3>1, <3>2
    <3>3. CASE q # s BY <1>1, <3>3 DEF BeginDelete, Held, NextHeld, TypeOK
    <3>4. QED BY <3>2, <3>3
  <2>4. QED BY <2>3, HeldOrClosed
<1>2. CASE DyingTurnEnds(s)
  <2>1. row \in Table /\ dying[s].group \in SUBSET Trig
    BY DEF TypeOK, DyingTurn, Table
  <2>2. SetStatus(row, IdsOf(dying[s].group), "DONE") \in Table
    BY <2>1, SetStatusType DEF Status
  <2>3. \A q \in Sessions : heap[q] \subseteq heap'[q]
    BY <1>2, <2>1, <2>2, LeaveReactFacts DEF DyingTurnEnds, Emitted, TypeOK
  <2>4. \A q \in Sessions : turn[q].group \subseteq turn'[q].group
    BY <1>2 DEF DyingTurnEnds, TypeOK, Turn
  <2>5. QED BY <2>3, <2>4, HeldGrows
<1>3. CASE DyingNack(s)
  <2>1. PICK t \in dying[s].group : Nack(s, t) BY <1>3 DEF DyingNack
  <2>2. t \in Trig BY DEF TypeOK, DyingTurn
  <2>3. \A q \in Sessions : heap[q] \subseteq heap'[q] BY <2>1, <2>2, NackHeld
  <2>4. \A q \in Sessions : turn[q].group \subseteq turn'[q].group
    BY <1>3 DEF DyingNack
  <2>5. QED BY <2>3, <2>4, HeldGrows
<1>4. CASE FinishDelete(s) BY <1>4, HeldGrows DEF FinishDelete, lanes
<1>5. QED BY <1>1, <1>2, <1>3, <1>4

LEMMA HeldStep ==
    ASSUME TypeOK, LaneOK, UniqueKeys, Next, proc' \in {"loaded", "up"}
    PROVE  Rehydrate \/ (KeepsHeld /\ proc \in {"loaded", "up"})
                     \/ (KeepsHeld /\ UNCHANGED proc)
<1>1. ASSUME NEW s \in Sessions, Progress(s) PROVE KeepsHeld /\ UNCHANGED proc
  <2>1. KeepsHeld
    BY <1>1, ClaimHeld, TurnHeld, SettleHeld, StopHeld, StoppedHeld, DeleteHeld
       DEF Progress
  <2>2. UNCHANGED proc
    BY <1>1
       DEF Progress, Claim, Unfence, Admit, TurnReturns, TurnRaises,
           TurnUnwinds, Ack, NackOne, KillDone, AckStopped, StopSettles,
           FenceSettles, ResetContext, DyingTurnEnds, DyingNack, FinishDelete
  <2>3. QED BY <2>1, <2>2
<1>2. ASSUME NEW s \in Sessions,
             RequestStop(s) \/ ClearSession(s) \/ StopTimesOut(s)
      PROVE  KeepsHeld /\ UNCHANGED proc
  <2>1. KeepsHeld BY <1>2, StopHeld
  <2>2. UNCHANGED proc
    BY <1>2 DEF RequestStop, ClearSession, StopTimesOut, StopEffects
  <2>3. QED BY <2>1, <2>2
<1>3. ASSUME NEW s \in Sessions, BeginDelete(s)
      PROVE  KeepsHeld /\ UNCHANGED proc
  BY <1>3, DeleteHeld DEF BeginDelete
<1>4. ASSUME NEW s \in Sessions, NEW kind \in Kinds, NEW delay \in Delays,
             Emit(s, kind, delay)
      PROVE  KeepsHeld /\ UNCHANGED proc
  <2>1. \A q \in Sessions : heap[q] \subseteq heap'[q]
    BY <1>4 DEF Emit, EmitOver, TypeOK
  <2>2. QED BY <1>4, <2>1, HeldGrows DEF Emit
<1>5. CASE ClearStore
  <2>1. KeepsHeld BY <1>5, HeldGrows DEF ClearStore, lanes
  <2>2. QED BY <1>5, <2>1 DEF ClearStore
<1>6. CASE StartProcess \/ StartLoops \/ Crash \/ Tick
  <2>1. StartLoops \/ Tick BY <1>6 DEF StartProcess, Crash
  <2>2. KeepsHeld BY <2>1, HeldGrows DEF StartLoops, Tick, lanes
  <2>3. QED BY <2>1, <2>2 DEF StartLoops, Tick
<1>7. QED BY <1>1, <1>2, <1>3, <1>4, <1>5, <1>6 DEF Next, Boot

\* Every row that a step leaves open was open and held, or is the one row the
\* step queues.
LEMMA NoStrandedStep ==
    ASSUME TypeOK, LaneOK, UniqueKeys, NoStrandedRow, Next,
           proc' \in {"loaded", "up"}
    PROVE  NoStrandedRow'
<1> SUFFICES ASSUME NEW i \in Ids, row'[i].status \in ActiveStatus
             PROVE  i \in IdsOf(NextHeld(row'[i].session))
  BY DEF NoStrandedRow, Active, Held, IdsOf, NextHeld
<1>0. Shape BY StepShape
<1>1. CASE Rehydrate
  <2>1. LoadStep BY <1>1, RehydrateStep
  <2>2. i \in IdsOf(heap'[row[i].session])
    BY <2>1 DEF LoadStep, Active
  <2>3. row'[i].session = row[i].session BY <2>1 DEF LoadStep, Quiet
  <2>4. QED BY <2>2, <2>3 DEF NextHeld, IdsOf
<1>2. CASE KeepsHeld /\ proc \in {"loaded", "up"}
  <2>1. ASSUME row[i].status \in ActiveStatus,
               row'[i].session = row[i].session
        PROVE  i \in IdsOf(NextHeld(row'[i].session))
    BY <1>2, <2>1 DEF KeepsHeld, NoStrandedRow, Active
  <2>2. CASE Quiet(row') BY <2>1, <2>2 DEF Quiet
  <2>3. CASE EmitStep
    <3>1. PICK r \in Table, s \in Sessions, t \in Trig :
            /\ Quiet(r)
            /\ row'[t.id].session = s
            /\ \A j \in Ids \ {t.id} : row'[j] = r[j]
            /\ heap' = [heap EXCEPT ![s] = @ \cup {t}]
      BY <2>3 DEF EmitStep, Emitted
    <3>2. CASE i = t.id
      <4>1. t \in heap'[s] BY <3>1 DEF TypeOK
      <4>2. QED BY <3>1, <3>2, <4>1 DEF NextHeld, IdsOf
    <3>3. CASE i # t.id BY <2>1, <3>1, <3>3 DEF Quiet
    <3>4. QED BY <3>2, <3>3
  <2>4. CASE RetryStep
    <3>1. PICK s \in Sessions, t \in Trig, u \in Trig :
            /\ t \in Lane(s) /\ u.id = t.id
            /\ row'[t.id].session = row[t.id].session
            /\ \A j \in Ids \ {t.id} : row'[j] = row[j]
            /\ heap' = [heap EXCEPT ![s] = @ \cup {u}]
      <4>1. \A s \in Sessions : Lane(s) \subseteq Trig
        BY DEF Lane, TypeOK, Turn, DyingTurn
      <4>2. QED BY <2>4, <4>1 DEF RetryStep
    <3>2. CASE i = t.id
      <4>1. u \in heap'[s] BY <3>1 DEF TypeOK
      <4>2. row'[i].session = s BY <3>1, <3>2 DEF LaneOK
      <4>3. QED BY <3>1, <3>2, <4>1, <4>2 DEF NextHeld, IdsOf
    <3>3. CASE i # t.id BY <2>1, <3>1, <3>3
    <3>4. QED BY <3>2, <3>3
  <2>5. QED BY <1>0, <2>2, <2>3, <2>4 DEF Shape, TableStep, QuietStep, LoadStep
<1>3. CASE KeepsHeld /\ UNCHANGED proc BY <1>2, <1>3
<1>4. QED BY <1>1, <1>2, <1>3, HeldStep

\* From the end of the boot's recovery to the next crash, every PENDING or
\* CLAIMED row has a trigger in its session's lane, whatever is stopped,
\* cleared, deleted, retried or wiped in between.
THEOREM NothingIsStranded == Spec => []NoStrandedRow
<1>1. Init => NoStrandedRow BY DEF Init, NoStrandedRow
<1>2. TypeOK /\ LaneOK /\ UniqueKeys /\ NoStrandedRow /\ [Next]_vars
        => NoStrandedRow'
  <2> SUFFICES ASSUME TypeOK, LaneOK, UniqueKeys, NoStrandedRow, [Next]_vars
               PROVE  NoStrandedRow'
    OBVIOUS
  <2>1. CASE UNCHANGED vars
    BY <2>1 DEF vars, NoStrandedRow, Active, Held, IdsOf, durable, lanes, control
  <2>2. CASE Next /\ proc' \in {"loaded", "up"} BY <2>2, NoStrandedStep
  <2>3. CASE proc' \notin {"loaded", "up"} BY <2>3 DEF NoStrandedRow
  <2>4. QED BY <2>1, <2>2, <2>3
<1>3. QED BY <1>1, <1>2, TypesInvariant, KeysAreUnique, PTL DEF Spec

-----------------------------------------------------------------------------
(* A settled stop ends the run *)

\* Turns run only while the consumer loops do.
TurnsNeedLoops ==
    proc # "up" => \A s \in Sessions : turn[s].phase = "none"

LEMMA TurnsNeedLoopsStep ==
    ASSUME TypeOK, TurnsNeedLoops, [Next]_vars PROVE TurnsNeedLoops'
<1> SUFFICES ASSUME proc' # "up", NEW s \in Sessions
             PROVE  turn'[s].phase = "none"
  BY DEF TurnsNeedLoops
<1>1. CASE Crash BY <1>1 DEF Crash, NoTurn
<1>2. CASE UNCHANGED vars BY <1>2 DEF vars, TurnsNeedLoops, lanes
<1>3. CASE Boot \/ ClearStore \/ Tick
  BY <1>3 DEF Boot, StartProcess, Rehydrate, StartLoops, ClearStore, Tick,
              TurnsNeedLoops, lanes
<1>4. ASSUME NEW q \in Sessions, Progress(q) PROVE turn'[s].phase = "none"
  <2>1. UNCHANGED proc
    BY <1>4
       DEF Progress, Claim, Unfence, Admit, TurnReturns, TurnRaises,
           TurnUnwinds, Ack, NackOne, KillDone, AckStopped, StopSettles,
           FenceSettles, ResetContext, DyingTurnEnds, DyingNack, FinishDelete
  <2>2. \A u \in Sessions : turn[u].phase = "none"
    BY <2>1 DEF TurnsNeedLoops
  <2>3. UNCHANGED turn \/ turn' = [turn EXCEPT ![q].tracked = FALSE]
    BY <1>4, <2>1, <2>2
       DEF Progress, Claim, Unfence, Admit, TurnReturns, TurnRaises,
           TurnUnwinds, Ack, NackOne, KillDone, AckStopped, StopSettles,
           FenceSettles, ResetContext, DyingTurnEnds, DyingNack, FinishDelete,
           lanes
  <2>4. QED BY <2>2, <2>3 DEF TypeOK, Turn
<1>5. ASSUME NEW q \in Sessions,
             \/ \E kind \in Kinds, delay \in Delays : Emit(q, kind, delay)
             \/ RequestStop(q) \/ ClearSession(q) \/ StopTimesOut(q)
             \/ BeginDelete(q)
      PROVE  turn'[s].phase = "none"
  <2>1. UNCHANGED proc
    BY <1>5 DEF Emit, RequestStop, ClearSession, StopTimesOut, StopEffects,
                BeginDelete
  <2>2. UNCHANGED turn
    BY <1>5, <2>1
       DEF Emit, RequestStop, ClearSession, StopTimesOut, StopEffects,
           BeginDelete, lanes
  <2>3. QED BY <2>1, <2>2 DEF TurnsNeedLoops
<1>6. QED BY <1>1, <1>2, <1>3, <1>4, <1>5 DEF Next

LEMMA TurnsNeedLoopsAlways == Spec => []TurnsNeedLoops
<1>1. Init => TurnsNeedLoops BY DEF Init, TurnsNeedLoops, NoTurn
<1>2. TypeOK /\ TurnsNeedLoops /\ [Next]_vars => TurnsNeedLoops'
  BY TurnsNeedLoopsStep
<1>3. QED BY <1>1, <1>2, TypesInvariant, PTL DEF Spec

LEMMA StopSettlesClean ==
    ASSUME TypeOK, NoStrandedRow, TurnsNeedLoops,
           NEW s \in Sessions, StopSettles(s), NEW i \in Ids,
           row[i].session = s, row[i].source = Continuation
    PROVE  row'[i].status \notin ActiveStatus
<1>1. row' = SetStatus(row, IdsOf(Continuations(s)), "DONE")
  BY DEF StopSettles
<1>2. CASE Active(i)
  <2>1. proc = "up" /\ turn[s].group = {}
    BY DEF StopSettles, TurnsNeedLoops
  <2>2. PICK t \in heap[s] : t.id = i
    BY <1>2, <2>1 DEF NoStrandedRow, Held, IdsOf
  <2>3. t \in Continuations(s) BY <2>2 DEF Continuations, Source
  <2>4. i \in IdsOf(Continuations(s)) BY <2>2, <2>3 DEF IdsOf
  <2>5. QED BY <1>1, <2>4, SetStatusCloses
<1>3. CASE ~Active(i)
  <2>1. Quiet(row') BY <1>1, QuietSetStatus
  <2>2. QED BY <1>3, <2>1 DEF Quiet, Active
<1>4. QED BY <1>2, <1>3

\* When the consumer settles a stopped turn, no continuation of the session is
\* left anywhere: neither queued, nor claimed, nor only in the table.
THEOREM StoppedRunsEnd == Spec => StopEndsRun
<1>1. TypeOK /\ NoStrandedRow /\ TurnsNeedLoops /\ [Next]_vars
        => [\A s \in Sessions : StopSettles(s) =>
              \A i \in Ids : (row[i].session = s /\ row[i].source = Continuation)
                              => row'[i].status \notin ActiveStatus]_vars
  BY StopSettlesClean
<1>2. QED
  BY <1>1, TypesInvariant, NothingIsStranded, TurnsNeedLoopsAlways, PTL
     DEF Spec, StopEndsRun

-----------------------------------------------------------------------------
(* What a turn consists of, who delivers a row, what a fence holds back, and
   the promise the plane keeps. Most of it needs an environment without the
   operations that break it. *)

-----------------------------------------------------------------------------
(* Fences *)

Undeleted == "delete" \notin Env

\* A turn that a stop could have reached has been reached.
FenceOf(s) ==
    /\ dying[s].phase = "none"
    /\ turn[s].phase # "none" => turn[s].tracked
    /\ turn[s].phase \in {"capacity", "react", "drop"} => stop[s] = "none"
    /\ turn[s].phase = "unwinding" => stop[s] \in {"requested", "killed"}

FenceInv == TypeOK /\ \A s \in Sessions : FenceOf(s)

\* A step in one session's lane leaves the others alone.
LEMMA FenceElsewhere ==
    ASSUME FenceInv, NEW s \in Sessions, FenceOf(s)',
           NEW u, turn' = [turn EXCEPT ![s] = u],
           NEW x, stop' = [stop EXCEPT ![s] = x],
           NEW d, dying' = [dying EXCEPT ![s] = d]
    PROVE  \A q \in Sessions : FenceOf(q)'
BY DEF FenceInv, FenceOf, TypeOK

LEMMA FenceStays ==
    ASSUME FenceInv, NEW s \in Sessions, UNCHANGED <<turn, stop, dying>>
    PROVE  FenceOf(s)'
BY DEF FenceInv, FenceOf

LEMMA ClaimedTurn ==
    ASSUME NEW s \in Sessions, Claim(s)
    PROVE  \E u : /\ turn' = [turn EXCEPT ![s] = u]
                  /\ u.phase = IF stop[s] = "none" THEN "capacity" ELSE "fenced"
                  /\ u.tracked
<1> PICK group :
      turn' = [turn EXCEPT ![s] =
        [phase |-> IF stop[s] = "none" THEN "capacity" ELSE "fenced",
         group |-> group, tracked |-> TRUE]]
  BY DEF Claim
<1> DEFINE u == [phase |-> IF stop[s] = "none" THEN "capacity" ELSE "fenced",
                 group |-> group, tracked |-> TRUE]
<1>1. u.tracked OBVIOUS
<1>2. u.phase = IF stop[s] = "none" THEN "capacity" ELSE "fenced" OBVIOUS
<1>3. turn' = [turn EXCEPT ![s] = u] OBVIOUS
<1> HIDE DEF u
<1>4. QED BY <1>1, <1>2, <1>3

LEMMA FenceTurn ==
    ASSUME FenceInv, NEW s \in Sessions,
           \/ Claim(s) \/ Unfence(s) \/ Admit(s)
           \/ TurnReturns(s) \/ TurnRaises(s) \/ TurnUnwinds(s)
           \/ Ack(s) \/ NackOne(s) \/ AckStopped(s)
    PROVE  \A q \in Sessions : FenceOf(q)'
<1>0. FenceOf(s) /\ turn[s] \in Turn BY DEF FenceInv, TypeOK
<1>1. UNCHANGED <<stop, dying>>
  BY DEF Claim, Unfence, Admit, TurnReturns, TurnRaises, TurnUnwinds, Ack,
         NackOne, AckStopped, control
<1>2. stop' = [stop EXCEPT ![s] = stop[s]] /\ dying' = [dying EXCEPT ![s] = dying[s]]
  BY <1>1 DEF FenceInv, TypeOK
<1>3. ASSUME NEW u, turn' = [turn EXCEPT ![s] = u],
             u.phase # "none" => u.tracked,
             u.phase \in {"capacity", "react", "drop"} => stop[s] = "none",
             u.phase = "unwinding" => stop[s] \in {"requested", "killed"}
      PROVE  \A q \in Sessions : FenceOf(q)'
  <2>1. FenceOf(s)' BY <1>0, <1>1, <1>3 DEF FenceOf, FenceInv, TypeOK
  <2>2. QED BY <1>2, <1>3, <2>1, FenceElsewhere
<1>4. ASSUME NEW phase, SetPhase(s, phase), turn[s].phase # "none",
             phase \in {"capacity", "react", "drop"} => stop[s] = "none",
             phase # "unwinding"
      PROVE  \A q \in Sessions : FenceOf(q)'
  <2> DEFINE u == [turn[s] EXCEPT !.phase = phase]
  <2>1. u.phase = phase /\ u.tracked = turn[s].tracked BY <1>0 DEF Turn
  <2>2. turn' = [turn EXCEPT ![s] = u] BY <1>4 DEF SetPhase, FenceInv, TypeOK
  <2> HIDE DEF u
  <2>3. QED BY <1>0, <1>3, <1>4, <2>1, <2>2 DEF FenceOf
<1>5. CASE Claim(s)
  <2>1. PICK u : /\ turn' = [turn EXCEPT ![s] = u]
                 /\ u.phase = IF stop[s] = "none" THEN "capacity" ELSE "fenced"
                 /\ u.tracked
    BY <1>5, ClaimedTurn
  <2>2. QED BY <1>3, <2>1
<1>6. CASE Unfence(s) BY <1>4, <1>6 DEF Unfence
<1>7. CASE Admit(s) BY <1>0, <1>4, <1>7 DEF Admit, FenceOf
<1>8. CASE TurnReturns(s) BY <1>4, <1>8 DEF TurnReturns
<1>9. CASE TurnRaises(s) BY <1>4, <1>9 DEF TurnRaises
<1>10. CASE TurnUnwinds(s) BY <1>4, <1>10 DEF TurnUnwinds
<1>11. CASE Ack(s) \/ NackOne(s)
  <2>1. PICK t : turn' = [turn EXCEPT ![s] = Settled(@, t)]
    BY <1>11 DEF Ack, NackOne
  <2> DEFINE u == Settled(turn[s], t)
             v == [turn[s] EXCEPT !.group = @ \ {t}]
  <2>2. v.phase = turn[s].phase /\ v.tracked = turn[s].tracked
    BY <1>0 DEF Turn
  <2>3. u = NoTurn \/ u = v BY DEF Settled
  <2>4. turn' = [turn EXCEPT ![s] = u] BY <2>1 DEF FenceInv, TypeOK
  <2> HIDE DEF u, v
  <2>5. QED BY <1>0, <1>3, <2>2, <2>3, <2>4 DEF FenceOf, NoTurn
<1>12. CASE AckStopped(s)
  <2>1. PICK t : turn' = [turn EXCEPT ![s].group = @ \ {t}]
    BY <1>12 DEF AckStopped
  <2> DEFINE v == [turn[s] EXCEPT !.group = @ \ {t}]
  <2>2. v.phase = turn[s].phase /\ v.tracked = turn[s].tracked
    BY <1>0 DEF Turn
  <2>3. turn' = [turn EXCEPT ![s] = v] BY <2>1 DEF FenceInv, TypeOK
  <2> HIDE DEF v
  <2>4. QED BY <1>0, <1>3, <2>2, <2>3 DEF FenceOf
<1>13. QED
  BY <1>5, <1>6, <1>7, <1>8, <1>9, <1>10, <1>11, <1>12

\* A stop that finds a turn cancels it, and fences the session otherwise.
LEMMA FenceStop ==
    ASSUME FenceInv, NEW s \in Sessions, StopEffects(s)
    PROVE  \A q \in Sessions : FenceOf(q)'
<1>0. FenceOf(s) /\ turn[s] \in Turn /\ turn[s].phase \in Phase
  BY DEF FenceInv, TypeOK, Turn
<1>1. dying' = [dying EXCEPT ![s] = dying[s]] /\ UNCHANGED dying
  BY DEF StopEffects, FenceInv, TypeOK
<1>2. CASE /\ InFlight(s)
           /\ SetPhase(s, IF turn[s].phase = "react" THEN "unwinding"
                                                     ELSE "stopping")
           /\ stop' = [stop EXCEPT ![s] = "requested"]
  <2> DEFINE phase == IF turn[s].phase = "react" THEN "unwinding"
                                                 ELSE "stopping"
             u == [turn[s] EXCEPT !.phase = phase]
  <2>1. u.phase = phase /\ u.tracked = turn[s].tracked BY <1>0 DEF Turn
  <2>2. turn' = [turn EXCEPT ![s] = u] BY <1>2 DEF SetPhase, FenceInv, TypeOK
  <2> HIDE DEF u
  <2>3. FenceOf(s)'
    BY <1>0, <1>1, <1>2, <2>1, <2>2 DEF FenceOf, InFlight, FenceInv, TypeOK
  <2>4. QED BY <1>1, <1>2, <2>2, <2>3, FenceElsewhere
<1>3. CASE ~InFlight(s) /\ stop' = [stop EXCEPT ![s] = "fence"] /\ UNCHANGED turn
  <2>1. turn' = [turn EXCEPT ![s] = turn[s]] BY <1>3 DEF FenceInv, TypeOK
  <2>2. turn[s].phase \notin {"capacity", "react", "drop"}
    BY <1>0, <1>3 DEF InFlight, FenceOf
  <2>3. turn[s].phase # "unwinding" BY <1>0 DEF StopEffects, FenceOf
  <2>4. FenceOf(s)' BY <1>0, <1>1, <1>3, <2>2, <2>3 DEF FenceOf
  <2>5. QED BY <1>1, <1>3, <2>1, <2>4, FenceElsewhere
<1>4. QED BY <1>2, <1>3 DEF StopEffects

LEMMA FenceSignal ==
    ASSUME FenceInv, NEW s \in Sessions,
           KillDone(s) \/ StopSettles(s) \/ FenceSettles(s)
    PROVE  \A q \in Sessions : FenceOf(q)'
<1>0. FenceOf(s) BY DEF FenceInv
<1>1. dying' = [dying EXCEPT ![s] = dying[s]] /\ UNCHANGED dying
  BY DEF KillDone, StopSettles, FenceSettles, lanes, FenceInv, TypeOK
<1>2. CASE StopSettles(s)
  <2>1. /\ turn' = [turn EXCEPT ![s] = NoTurn]
        /\ stop' = [stop EXCEPT ![s] = "none"]
    BY <1>2 DEF StopSettles
  <2>2. FenceOf(s)' BY <1>0, <1>1, <2>1 DEF FenceOf, NoTurn, FenceInv, TypeOK
  <2>3. QED BY <1>1, <2>1, <2>2, FenceElsewhere
<1>3. CASE KillDone(s) \/ FenceSettles(s)
  <2>1. PICK x \in {"killed", "none"} :
          /\ stop' = [stop EXCEPT ![s] = x]
          /\ x = "killed" => stop[s] = "requested"
          /\ x = "none" => stop[s] = "fence"
    BY <1>3 DEF KillDone, FenceSettles
  <2>2. turn' = [turn EXCEPT ![s] = turn[s]] /\ UNCHANGED turn
    BY <1>3 DEF KillDone, FenceSettles, lanes, FenceInv, TypeOK
  <2>3. FenceOf(s)' BY <1>0, <1>1, <2>1, <2>2 DEF FenceOf, FenceInv, TypeOK
  <2>4. QED BY <1>1, <2>1, <2>2, <2>3, FenceElsewhere
<1>4. QED BY <1>2, <1>3

LEMMA FenceStep ==
    ASSUME Undeleted, FenceInv, [Next]_vars
    PROVE  \A q \in Sessions : FenceOf(q)'
<1>1. CASE UNCHANGED <<turn, stop, dying>> BY <1>1, FenceStays
<1>2. ASSUME NEW s \in Sessions, Progress(s)
      PROVE  \A q \in Sessions : FenceOf(q)'
  <2>1. dying[s].phase = "none" BY DEF FenceInv, FenceOf
  <2>2. ~DyingTurnEnds(s) /\ ~DyingNack(s)
    BY <2>1 DEF DyingTurnEnds, DyingNack
  <2>3. CASE ResetContext(s) \/ FinishDelete(s)
    BY <1>1, <2>3 DEF ResetContext, FinishDelete, lanes
  <2>4. QED BY <1>2, <2>2, <2>3, FenceTurn, FenceSignal DEF Progress
<1>3. ASSUME NEW s \in Sessions,
             RequestStop(s) \/ ClearSession(s) \/ StopTimesOut(s)
      PROVE  \A q \in Sessions : FenceOf(q)'
  <2>1. StopEffects(s) \/ UNCHANGED <<turn, stop, dying>>
    BY <1>3 DEF RequestStop, ClearSession, StopTimesOut, lanes
  <2>2. QED BY <1>1, <2>1, FenceStop
<1>4. ASSUME NEW s \in Sessions, NEW kind \in Kinds, NEW delay \in Delays,
             Emit(s, kind, delay)
      PROVE  UNCHANGED <<turn, stop, dying>>
  BY <1>4 DEF Emit, control
<1>5. ASSUME NEW s \in Sessions, BeginDelete(s) PROVE FALSE
  BY <1>5 DEF BeginDelete, Undeleted
<1>6. CASE Crash BY <1>6 DEF Crash, FenceOf, NoTurn, NotDying
<1>7. CASE Boot \/ ClearStore \/ Tick
  BY <1>1, <1>7
     DEF Boot, StartProcess, Rehydrate, StartLoops, ClearStore, Tick, lanes,
         control
<1>8. CASE UNCHANGED vars BY <1>1, <1>8 DEF vars
<1>9. QED BY <1>1, <1>2, <1>3, <1>4, <1>5, <1>6, <1>7, <1>8 DEF Next

LEMMA FenceAlways == ASSUME Undeleted PROVE Spec => []FenceInv
<1>1. Init => \A s \in Sessions : FenceOf(s)
  BY DEF Init, FenceOf, NoTurn, NotDying
<1>2. TypeOK /\ (\A s \in Sessions : FenceOf(s)) /\ [Next]_vars
        => (\A s \in Sessions : FenceOf(s))'
  BY FenceStep DEF FenceInv
<1>3. QED BY <1>1, <1>2, TypeCorrect, PTL DEF Spec, FenceInv

\* Only the semaphore starts a turn.
LEMMA StartIsAdmit ==
    ASSUME TypeOK, [Next]_vars, NEW s \in Sessions, StartsTurn(s)
    PROVE  turn[s].phase = "capacity"
<1>0. turn[s] \in Turn BY DEF TypeOK
<1>1. turn'[s].phase = "react" /\ turn[s].phase # "react" BY DEF StartsTurn
<1>2. \A q \in Sessions : \A u : turn' = [turn EXCEPT ![q] = u] =>
        q = s /\ u.phase = "react"
  BY <1>1 DEF TypeOK
<1>3. \A q \in Sessions : \A phase : SetPhase(q, phase) => q = s /\ phase = "react"
  BY <1>0, <1>1 DEF TypeOK, SetPhase, Turn
<1>4. turn' # turn BY <1>1
<1>5. ASSUME NEW q \in Sessions, Progress(q) PROVE turn[s].phase = "capacity"
  <2>1. CASE Claim(q)
    <3>1. PICK u : /\ turn' = [turn EXCEPT ![q] = u]
                   /\ u.phase = IF stop[q] = "none" THEN "capacity"
                                                    ELSE "fenced"
      BY <2>1, ClaimedTurn
    <3>2. QED BY <1>2, <3>1
  <2>2. CASE Admit(q) BY <1>3, <2>2 DEF Admit
  <2>3. CASE \/ Unfence(q) \/ TurnReturns(q) \/ TurnRaises(q)
             \/ TurnUnwinds(q)
    BY <1>3, <2>3 DEF Unfence, TurnReturns, TurnRaises, TurnUnwinds
  <2>4. CASE Ack(q) \/ NackOne(q) \/ AckStopped(q)
    <3>1. PICK t : \/ turn' = [turn EXCEPT ![q] = Settled(@, t)]
                   \/ turn' = [turn EXCEPT ![q].group = @ \ {t}]
      BY <2>4 DEF Ack, NackOne, AckStopped
    <3> DEFINE v == [turn[q] EXCEPT !.group = @ \ {t}]
    <3>2. turn[q] \in Turn BY DEF TypeOK
    <3>3. v.phase = turn[q].phase BY <3>2 DEF Turn
    <3>4. turn' = [turn EXCEPT ![q] = NoTurn] \/ turn' = [turn EXCEPT ![q] = v]
      BY <3>1 DEF TypeOK, Settled
    <3> HIDE DEF v
    <3>5. QED BY <1>1, <1>2, <3>3, <3>4 DEF NoTurn
  <2>5. CASE StopSettles(q)
    <3>1. turn' = [turn EXCEPT ![q] = NoTurn] BY <2>5 DEF StopSettles
    <3>2. NoTurn.phase # "react" BY DEF NoTurn
    <3>3. QED BY <1>2, <3>1, <3>2
  <2>6. CASE DyingTurnEnds(q)
    <3>1. turn' = [turn EXCEPT ![q].tracked = FALSE]
      BY <2>6 DEF DyingTurnEnds
    <3>2. \A x \in Sessions : turn'[x].phase = turn[x].phase
      BY <3>1 DEF TypeOK, Turn
    <3>3. QED BY <1>1, <3>2
  <2>7. CASE \/ KillDone(q) \/ FenceSettles(q) \/ ResetContext(q)
             \/ DyingNack(q) \/ FinishDelete(q)
    BY <1>4, <2>7
       DEF KillDone, FenceSettles, ResetContext, DyingNack, FinishDelete, lanes
  <2>8. QED BY <1>5, <2>1, <2>2, <2>3, <2>4, <2>5, <2>6, <2>7 DEF Progress
<1>6. ASSUME NEW q \in Sessions,
             RequestStop(q) \/ ClearSession(q) \/ StopTimesOut(q)
      PROVE  FALSE
  <2>1. StopEffects(q) \/ UNCHANGED turn
    BY <1>6 DEF RequestStop, ClearSession, StopTimesOut, lanes
  <2>2. QED BY <1>3, <1>4, <2>1 DEF StopEffects
<1>7. ASSUME NEW q \in Sessions,
             \/ \E kind \in Kinds, delay \in Delays : Emit(q, kind, delay)
             \/ BeginDelete(q)
      PROVE  FALSE
  <2>1. NoTurn.phase # "react" BY DEF NoTurn
  <2>2. UNCHANGED turn \/ turn' = [turn EXCEPT ![q] = NoTurn]
    BY <1>7 DEF Emit, BeginDelete
  <2>3. QED BY <1>2, <1>4, <2>1, <2>2
<1>8. ASSUME Boot \/ Crash \/ ClearStore \/ Tick PROVE FALSE
  BY <1>1, <1>4, <1>8
     DEF Boot, StartProcess, Rehydrate, StartLoops, Crash, ClearStore, Tick,
         lanes, NoTurn
<1>9. CASE UNCHANGED vars BY <1>4, <1>9 DEF vars
<1>10. QED BY <1>5, <1>6, <1>7, <1>8, <1>9 DEF Next

\* While a stop of a session is settling, none of its turns starts, unless a
\* session may be deleted: the end of a removed lane's turn unregisters the
\* turn of the lane that replaced it, and a stop then does not see it.
THEOREM NothingStartsFenced == ASSUME Undeleted PROVE Spec => FenceHolds
<1>1. FenceInv /\ [Next]_vars
        => [\A s \in Sessions : StartsTurn(s) => stop[s] = "none"]_vars
  BY StartIsAdmit DEF FenceInv, FenceOf
<1>2. QED BY <1>1, FenceAlways, PTL DEF Spec, FenceHolds

\* The clear that fenced a parked run resets the context while no turn of the
\* session reacts.
THEOREM ParkedResetsAreQuiet ==
    ASSUME Undeleted PROVE Spec => ParkedResetIsQuiet
<1>1. FenceInv /\ [Next]_vars
        => [\A s \in Sessions :
              FenceSettles(s) /\ clear[s] = "owner" => ~Reacting(s)]_vars
  BY DEF FenceInv, FenceOf, FenceSettles, Reacting
<1>2. QED BY <1>1, FenceAlways, PTL DEF Spec, ParkedResetIsQuiet

-----------------------------------------------------------------------------
(* How triggers move *)

\* A row was inserted over table r, and its trigger queued in session s.
Entered(r, s) ==
    \E t \in Trig :
        /\ t.id = lastId + 1 /\ lastId' = t.id
        /\ t.carries = {t.id}
        /\ heap' = [heap EXCEPT ![s] = @ \cup {t}]
        /\ row'[t.id].status = "PENDING" /\ row'[t.id].attempts = 0
        /\ \A j \in Ids \ {t.id} : row'[j] = r[j]

LEMMA EmitEnters ==
    ASSUME TypeOK, NEW r \in Table, NEW s \in Sessions, NEW kind,
           NEW at \in Nat, EmitOver(r, heap, s, kind, at)
    PROVE  Entered(r, s)
<1> DEFINE i == lastId + 1
           x == [status |-> "PENDING", session |-> s,
                 source |-> SourceOf(kind), origin |-> OriginOf(kind),
                 key |-> KeyOf(kind), fireAt |-> at, attempts |-> 0]
           t == [id |-> i, fireAt |-> at, copy |-> "emitted",
                 carries |-> {i}]
<1>1. i \in Ids /\ lastId' = i
  <2>1. lastId < MaxRows /\ lastId' = i BY DEF EmitOver, NewId
  <2>2. lastId \in 0..MaxRows /\ MaxRows \in Nat
    BY BoundsAssumption DEF TypeOK
  <2>3. QED BY <2>1, <2>2
<1>2. row' = [r EXCEPT ![i] = x] BY DEF EmitOver, NewId
<1>3. heap' = [heap EXCEPT ![s] = @ \cup {t}] BY DEF EmitOver, NewId
<1>4. t \in Trig BY <1>1 DEF Trig
<1>5. x.status = "PENDING" /\ x.attempts = 0 /\ t.id = i /\ t.carries = {t.id}
  OBVIOUS
<1> HIDE DEF x, t
<1>6. row'[i] = x /\ \A j \in Ids \ {i} : row'[j] = r[j]
  BY <1>1, <1>2 DEF Table
<1>7. QED BY <1>1, <1>3, <1>4, <1>5, <1>6 DEF Entered

LEMMA LeaveEnters ==
    ASSUME TypeOK, NEW r \in Table, NEW s \in Sessions, NEW group,
           LeaveReact(r, s, group)
    PROVE  (row' = r /\ UNCHANGED <<lastId, heap>>) \/ Entered(r, s)
<1>0. now \in Nat BY BoundsAssumption DEF TypeOK
<1>1. now \in Nat /\ \A d \in Delays : Capped(now + d) \in Nat
  BY <1>0, BoundsAssumption DEF Capped
<1>2. QED BY <1>1, EmitEnters DEF LeaveReact

\* A row was opened again, and its trigger put back in the queue of s.
PutBack(s, t) ==
    \E u \in Trig :
        /\ u.id = t.id /\ u.carries = t.carries
        /\ heap' = [heap EXCEPT ![s] = @ \cup {u}]
        /\ row'[t.id].status = "PENDING"
        /\ row'[t.id].attempts = row[t.id].attempts
        /\ row'[t.id].source = row[t.id].source
        /\ row'[t.id].origin = row[t.id].origin
        /\ \A j \in Ids \ {t.id} : row'[j] = row[j]

LEMMA NackMoves ==
    ASSUME TypeOK, NEW s \in Sessions, NEW t \in Trig, Nack(s, t)
    PROVE  \/ /\ Attempts(t.id) >= MaxAttempts
              /\ row' = SetStatus(row, {t.id}, "DEAD")
              /\ UNCHANGED heap
           \/ UNCHANGED <<row, heap>>
           \/ PutBack(s, t)
<1> DEFINE at == Capped(now + Backoff(Attempts(t.id)))
           u == [t EXCEPT !.fireAt = at]
           y == [row[t.id] EXCEPT !.status = "PENDING", !.fireAt = at]
<1>1. CASE /\ row' = [row EXCEPT ![t.id].status = "PENDING",
                                 ![t.id].fireAt = at]
           /\ heap' = [heap EXCEPT ![s] = @ \cup {u}]
  <2>1. t.id \in Ids /\ row[t.id] \in Row BY DEF Trig, TypeOK
  <2>2. at \in Nat BY BoundsAssumption DEF Capped, Backoff, TypeOK
  <2>3. u \in Trig /\ u.id = t.id /\ u.carries = t.carries BY <2>2 DEF Trig
  <2>4. row' = [row EXCEPT ![t.id] = y] BY <1>1, <2>1 DEF TypeOK
  <2>5. heap' = [heap EXCEPT ![s] = @ \cup {u}] BY <1>1
  <2> HIDE DEF at, u
  <2>6. /\ y.status = "PENDING" /\ y.attempts = row[t.id].attempts
        /\ y.source = row[t.id].source /\ y.origin = row[t.id].origin
    BY <2>1 DEF Row
  <2> HIDE DEF y
  <2>7. row'[t.id] = y /\ \A j \in Ids \ {t.id} : row'[j] = row[j]
    BY <2>1, <2>4 DEF TypeOK
  <2>8. QED BY <2>3, <2>5, <2>6, <2>7 DEF PutBack
<1>2. QED BY <1>1 DEF Nack

\* A turn loses triggers or passes them to the removed lane; no turn gets any.
GroupsShrink ==
    \A s \in Sessions :
        /\ turn'[s].group \subseteq turn[s].group
        /\ \/ dying'[s].group \subseteq dying[s].group
           \/ turn'[s].group = {} /\ dying'[s].group \subseteq turn[s].group

QueuesShrink == \A s \in Sessions : heap'[s] \subseteq heap[s]

Drop == GroupsShrink /\ QueuesShrink
Enter == GroupsShrink /\ \E r \in Table, s \in Sessions : Entered(r, s)
Back == /\ GroupsShrink
        /\ \E s \in Sessions : \E t \in Trig :
             /\ PutBack(s, t)
             /\ \/ /\ t \in turn[s].group \ turn'[s].group
                   /\ UNCHANGED dying
                \/ t \in dying[s].group \ dying'[s].group

Flow == Drop \/ Enter \/ Back \/ Rehydrate \/ \E s \in Sessions : Claim(s)

LEMMA SettledGroup ==
    ASSUME NEW u \in Turn, NEW t
    PROVE  /\ Settled(u, t).group = u.group \ {t}
           /\ Settled(u, t).phase \in {u.phase, "none"}
<1> DEFINE v == [u EXCEPT !.group = @ \ {t}]
<1>1. v.group = u.group \ {t} /\ v.phase = u.phase BY DEF Turn
<1>2. NoTurn.group = {} /\ NoTurn.phase = "none" BY DEF NoTurn
<1>3. Settled(u, t) = IF u.group = {t} THEN NoTurn ELSE v BY DEF Settled
<1> HIDE DEF v
<1>4. QED BY <1>1, <1>2, <1>3

LEMMA SettleGroups ==
    ASSUME TypeOK, NEW s \in Sessions, NEW t,
           \/ turn' = [turn EXCEPT ![s] = Settled(@, t)]
           \/ turn' = [turn EXCEPT ![s].group = @ \ {t}]
    PROVE  \A q \in Sessions :
             turn'[q].group = IF q = s THEN turn[q].group \ {t}
                                       ELSE turn[q].group
<1> DEFINE v == [turn[s] EXCEPT !.group = @ \ {t}]
<1>1. turn[s] \in Turn BY DEF TypeOK
<1>2. v.group = turn[s].group \ {t} BY <1>1 DEF Turn
<1>3. \/ turn' = [turn EXCEPT ![s] = Settled(turn[s], t)]
      \/ turn' = [turn EXCEPT ![s] = v]
  BY DEF TypeOK
<1> HIDE DEF v
<1>4. Settled(turn[s], t).group = turn[s].group \ {t} BY <1>1, SettledGroup
<1>5. QED BY <1>2, <1>3, <1>4 DEF TypeOK

LEMMA DyingSettledGroup ==
    ASSUME NEW d \in DyingTurn, NEW t
    PROVE  DyingSettled(d, t).group = d.group \ {t}
<1> DEFINE v == [d EXCEPT !.group = @ \ {t}]
<1>1. v.group = d.group \ {t} BY DEF DyingTurn
<1>2. NotDying.group = {} BY DEF NotDying
<1>3. DyingSettled(d, t) = IF d.group = {t} THEN NotDying ELSE v
  BY DEF DyingSettled
<1> HIDE DEF v
<1>4. QED BY <1>1, <1>2, <1>3

LEMMA PhaseGroups ==
    ASSUME TypeOK, NEW s \in Sessions, NEW phase, SetPhase(s, phase)
    PROVE  \A q \in Sessions : turn'[q].group = turn[q].group
BY DEF SetPhase, TypeOK, Turn

LEMMA TurnFlow ==
    ASSUME TypeOK, NEW s \in Sessions,
           \/ Unfence(s) \/ Admit(s)
           \/ TurnReturns(s) \/ TurnRaises(s) \/ TurnUnwinds(s)
    PROVE  Flow
<1>1. row \in Table BY DEF TypeOK, Table
<1>2. PICK phase : SetPhase(s, phase)
  BY DEF Unfence, Admit, TurnReturns, TurnRaises, TurnUnwinds
<1>3. UNCHANGED dying
  BY DEF Unfence, Admit, TurnReturns, TurnRaises, TurnUnwinds
<1>4. GroupsShrink BY <1>2, <1>3, PhaseGroups DEF GroupsShrink
<1>5. UNCHANGED heap \/ Entered(row, s)
  BY <1>1, LeaveEnters
     DEF Unfence, Admit, TurnReturns, TurnRaises, TurnUnwinds
<1>6. QED BY <1>1, <1>4, <1>5 DEF Flow, Drop, Enter, QueuesShrink

LEMMA SettleFlow ==
    ASSUME TypeOK, NEW s \in Sessions, Ack(s) \/ NackOne(s) \/ AckStopped(s)
    PROVE  Flow
<1>1. PICK t \in turn[s].group :
        /\ \/ turn' = [turn EXCEPT ![s] = Settled(@, t)]
           \/ turn' = [turn EXCEPT ![s].group = @ \ {t}]
        /\ UNCHANGED heap \/ Nack(s, t)
  BY DEF Ack, NackOne, AckStopped
<1>2. turn[s] \in Turn /\ t \in Trig BY DEF TypeOK, Turn
<1>3. \A q \in Sessions :
        turn'[q].group = IF q = s THEN turn[q].group \ {t} ELSE turn[q].group
  BY <1>1, SettleGroups
<1>4. UNCHANGED dying BY DEF Ack, NackOne, AckStopped
<1>5. GroupsShrink BY <1>3, <1>4 DEF GroupsShrink
<1>6. UNCHANGED heap \/ PutBack(s, t) BY <1>1, <1>2, NackMoves
<1>7. t \in turn[s].group \ turn'[s].group BY <1>3
<1>8. QED BY <1>2, <1>4, <1>5, <1>6, <1>7 DEF Flow, Drop, Back, QueuesShrink

LEMMA StopFlow ==
    ASSUME TypeOK, NEW s \in Sessions,
           \/ RequestStop(s) \/ ClearSession(s) \/ StopTimesOut(s)
           \/ KillDone(s) \/ StopSettles(s) \/ FenceSettles(s)
           \/ ResetContext(s)
    PROVE  Flow
<1>1. CASE StopEffects(s)
  <2>1. QueuesShrink BY <1>1 DEF StopEffects, QueuesShrink, TypeOK
  <2>2. UNCHANGED turn \/ \E phase : SetPhase(s, phase)
    BY <1>1 DEF StopEffects
  <2>3. GroupsShrink
    BY <1>1, <2>2, PhaseGroups DEF GroupsShrink, StopEffects
  <2>4. QED BY <2>1, <2>3 DEF Flow, Drop
<1>2. CASE StopSettles(s)
  <2>1. QueuesShrink BY <1>2 DEF StopSettles, QueuesShrink, TypeOK
  <2>2. GroupsShrink BY <1>2 DEF StopSettles, GroupsShrink, NoTurn, TypeOK
  <2>3. QED BY <2>1, <2>2 DEF Flow, Drop
<1>3. CASE UNCHANGED <<heap, turn, dying>>
  BY <1>3 DEF Flow, Drop, GroupsShrink, QueuesShrink
<1>4. QED
  BY <1>1, <1>2, <1>3
     DEF RequestStop, ClearSession, StopTimesOut, KillDone, FenceSettles,
         ResetContext, lanes

LEMMA DeleteFlow ==
    ASSUME TypeOK, NEW s \in Sessions,
           BeginDelete(s) \/ DyingTurnEnds(s) \/ DyingNack(s) \/ FinishDelete(s)
    PROVE  Flow
<1>0. /\ turn[s] \in Turn /\ dying[s] \in DyingTurn
      /\ NotDying.group = {} /\ NoTurn.group = {}
  BY DEF TypeOK, NotDying, NoTurn
<1>1. CASE BeginDelete(s)
  <2>1. QueuesShrink BY <1>1 DEF BeginDelete, QueuesShrink, TypeOK
  <2> DEFINE d == IF turn[s].phase \in {"react", "unwinding"}
                  THEN [phase |-> "react", group |-> turn[s].group]
                  ELSE NotDying
  <2>2. d.group \subseteq turn[s].group BY <1>0
  <2>3. dying' = [dying EXCEPT ![s] = d] /\ turn' = [turn EXCEPT ![s] = NoTurn]
    BY <1>1 DEF BeginDelete
  <2> HIDE DEF d
  <2>4. GroupsShrink BY <1>0, <2>2, <2>3 DEF GroupsShrink, TypeOK
  <2>5. QED BY <2>1, <2>4 DEF Flow, Drop
<1>2. CASE DyingTurnEnds(s)
  <2>1. \A q \in Sessions : turn'[q].group = turn[q].group
    BY <1>2 DEF DyingTurnEnds, TypeOK, Turn
  <2>2. \A q \in Sessions : dying'[q].group \subseteq dying[q].group
    BY <1>0, <1>2 DEF DyingTurnEnds, TypeOK, DyingTurn
  <2>3. row \in Table /\ SetStatus(row, IdsOf(dying[s].group), "DONE") \in Table
    BY SetStatusType DEF TypeOK, Table, Status
  <2>4. UNCHANGED heap \/ \E r \in Table : Entered(r, s)
    BY <1>2, <2>3, LeaveEnters DEF DyingTurnEnds
  <2>5. GroupsShrink BY <2>1, <2>2 DEF GroupsShrink
  <2>6. CASE UNCHANGED heap BY <2>5, <2>6 DEF Flow, Drop, QueuesShrink
  <2>7. CASE \E r \in Table : Entered(r, s) BY <2>5, <2>7 DEF Flow, Enter
  <2>8. QED BY <2>4, <2>6, <2>7
<1>3. CASE DyingNack(s)
  <2>1. PICK t \in dying[s].group :
          Nack(s, t) /\ dying' = [dying EXCEPT ![s] = DyingSettled(@, t)]
    BY <1>3 DEF DyingNack
  <2>2. t \in Trig BY <1>0 DEF DyingTurn
  <2>3. \A q \in Sessions :
          dying'[q].group = IF q = s THEN dying[q].group \ {t}
                                     ELSE dying[q].group
    BY <1>0, <2>1, DyingSettledGroup DEF TypeOK
  <2>4. GroupsShrink BY <1>3, <2>3 DEF GroupsShrink, DyingNack
  <2>5. UNCHANGED heap \/ PutBack(s, t) BY <2>1, <2>2, NackMoves
  <2>6. t \in dying[s].group \ dying'[s].group BY <2>3
  <2>7. QED BY <2>2, <2>4, <2>5, <2>6 DEF Flow, Drop, Back, QueuesShrink
<1>4. CASE FinishDelete(s)
  BY <1>4 DEF FinishDelete, lanes, Flow, Drop, GroupsShrink, QueuesShrink
<1>5. QED BY <1>1, <1>2, <1>3, <1>4

LEMMA FlowStep == ASSUME TypeOK, [Next]_vars PROVE Flow
<1>1. ASSUME NEW s \in Sessions, Progress(s) PROVE Flow
  BY <1>1, TurnFlow, SettleFlow, StopFlow, DeleteFlow DEF Progress, Flow
<1>2. ASSUME NEW s \in Sessions, NEW kind \in Kinds, NEW delay \in Delays,
             Emit(s, kind, delay)
      PROVE  Flow
  <2>1. Capped(now + delay) \in Nat BY BoundsAssumption DEF Capped, TypeOK
  <2>2. row \in Table BY DEF TypeOK, Table
  <2>3. Entered(row, s) BY <1>2, <2>1, <2>2, EmitEnters DEF Emit
  <2>4. QED BY <1>2, <2>2, <2>3 DEF Emit, Flow, Enter, GroupsShrink
<1>3. CASE Crash
  BY <1>3
     DEF Crash, Flow, Drop, GroupsShrink, QueuesShrink, NoTurn, NotDying
<1>4. CASE StartProcess \/ StartLoops \/ ClearStore \/ Tick \/ UNCHANGED vars
  BY <1>4
     DEF StartProcess, StartLoops, ClearStore, Tick, lanes, vars, Flow, Drop,
         GroupsShrink, QueuesShrink
<1>5. QED
  BY <1>1, <1>2, <1>3, <1>4, StopFlow, DeleteFlow DEF Next, Boot, Flow

-----------------------------------------------------------------------------
(* What a turn consists of *)

\* The columns a row is inserted with stay as they are.
Columns(r) == \A i \in Ids : /\ r[i].source = row[i].source
                             /\ r[i].origin = row[i].origin

RowStep == \/ UNCHANGED lastId /\ Columns(row')
           \/ \E r \in Table, s \in Sessions : Columns(r) /\ Entered(r, s)

LEMMA RowColumns ==
    ASSUME NEW x \in Row, NEW y, NEW st,
           y = x \/ y = [x EXCEPT !.status = st]
    PROVE  y.source = x.source /\ y.origin = x.origin
BY DEF Row

LEMMA SetStatusColumns ==
    ASSUME TypeOK, NEW ids, NEW st PROVE Columns(SetStatus(row, ids, st))
<1> SUFFICES ASSUME NEW i \in Ids
             PROVE  LET y == SetStatus(row, ids, st)[i]
                    IN  y.source = row[i].source /\ y.origin = row[i].origin
  BY DEF Columns
<1>1. row[i] \in Row BY DEF TypeOK
<1>2. \/ SetStatus(row, ids, st)[i] = row[i]
      \/ SetStatus(row, ids, st)[i] = [row[i] EXCEPT !.status = st]
  BY DEF SetStatus
<1>3. QED BY <1>1, <1>2, RowColumns

LEMMA ClaimedColumns ==
    ASSUME TypeOK, NEW ids PROVE Columns(Claimed(row, ids))
<1> SUFFICES ASSUME NEW i \in Ids
             PROVE  LET y == Claimed(row, ids)[i]
                    IN  y.source = row[i].source /\ y.origin = row[i].origin
  BY DEF Columns
<1> DEFINE x == row[i]
<1>1. x \in Row BY DEF TypeOK
<1>2. \/ Claimed(row, ids)[i] = x
      \/ Claimed(row, ids)[i] =
           [x EXCEPT !.status = "CLAIMED", !.attempts = x.attempts + 1]
  BY DEF Claimed
<1> HIDE DEF x
<1>3. /\ [x EXCEPT !.status = "CLAIMED",
                   !.attempts = x.attempts + 1].source = x.source
      /\ [x EXCEPT !.status = "CLAIMED",
                   !.attempts = x.attempts + 1].origin = x.origin
  BY <1>1 DEF Row
<1>4. QED BY <1>2, <1>3 DEF x

LEMMA NackColumns ==
    ASSUME TypeOK, NEW s \in Sessions, NEW t \in Trig, Nack(s, t)
    PROVE  Columns(row')
<1>1. CASE row' = SetStatus(row, {t.id}, "DEAD") BY <1>1, SetStatusColumns
<1>2. CASE UNCHANGED row BY <1>2 DEF Columns
<1>3. CASE PutBack(s, t) BY <1>3 DEF PutBack, Columns
<1>4. QED BY <1>1, <1>2, <1>3, NackMoves

LEMMA LeaveRowStep ==
    ASSUME TypeOK, NEW r \in Table, Columns(r), NEW s \in Sessions, NEW group,
           LeaveReact(r, s, group)
    PROVE  RowStep
BY LeaveEnters DEF RowStep

LEMMA RowStepAlways == ASSUME TypeOK, [Next]_vars PROVE RowStep
<1>0. row \in Table /\ Columns(row) BY DEF TypeOK, Table, Columns
<1>1. ASSUME UNCHANGED <<row, lastId>> PROVE RowStep
  BY <1>0, <1>1 DEF RowStep, Columns
<1>2. ASSUME NEW ids, NEW st, UNCHANGED lastId, row' = SetStatus(row, ids, st)
      PROVE  RowStep
  BY <1>2, SetStatusColumns DEF RowStep
<1>3. ASSUME NEW s \in Sessions, NEW kind \in Kinds, NEW delay \in Delays,
             Emit(s, kind, delay)
      PROVE  RowStep
  <2>1. Capped(now + delay) \in Nat BY BoundsAssumption DEF Capped, TypeOK
  <2>2. Entered(row, s) BY <1>0, <1>3, <2>1, EmitEnters DEF Emit
  <2>3. QED BY <1>0, <2>2 DEF RowStep
<1>4. ASSUME NEW s \in Sessions, Progress(s) PROVE RowStep
  <2>1. CASE Claim(s)
    <3>1. \E ids : row' = Claimed(row, ids) BY <2>1 DEF Claim
    <3>2. QED BY <2>1, <3>1, ClaimedColumns DEF RowStep, Claim
  <2>2. CASE Unfence(s) \/ Admit(s) \/ KillDone(s) \/ FenceSettles(s)
             \/ ResetContext(s) \/ FinishDelete(s)
    BY <1>1, <2>2
       DEF Unfence, Admit, KillDone, FenceSettles, ResetContext, FinishDelete,
           durable
  <2>3. CASE TurnReturns(s) \/ TurnRaises(s) \/ TurnUnwinds(s)
    <3>1. \/ UNCHANGED <<row, lastId>>
          \/ LeaveReact(row, s, turn[s].group)
      BY <2>3 DEF TurnReturns, TurnRaises, TurnUnwinds
    <3>2. QED BY <1>0, <1>1, <3>1, LeaveRowStep
  <2>4. CASE Ack(s) \/ AckStopped(s) \/ StopSettles(s)
    BY <1>2, <2>4 DEF Ack, AckStopped, StopSettles
  <2>5. CASE NackOne(s) \/ DyingNack(s)
    <3>1. PICK t \in turn[s].group \cup dying[s].group : Nack(s, t)
      BY <2>5 DEF NackOne, DyingNack
    <3>2. t \in Trig BY DEF TypeOK, Turn, DyingTurn
    <3>3. Columns(row') BY <3>1, <3>2, NackColumns
    <3>4. QED BY <2>5, <3>3 DEF RowStep, NackOne, DyingNack
  <2>6. CASE DyingTurnEnds(s)
    <3> DEFINE settled == SetStatus(row, IdsOf(dying[s].group), "DONE")
    <3>1. settled \in Table /\ Columns(settled)
      BY <1>0, SetStatusType, SetStatusColumns DEF Status
    <3>2. \/ LeaveReact(row, s, dying[s].group)
          \/ LeaveReact(settled, s, dying[s].group)
      BY <2>6 DEF DyingTurnEnds
    <3> HIDE DEF settled
    <3>3. QED BY <1>0, <3>1, <3>2, LeaveRowStep
  <2>7. QED BY <1>4, <2>1, <2>2, <2>3, <2>4, <2>5, <2>6 DEF Progress
<1>5. ASSUME NEW s \in Sessions,
             RequestStop(s) \/ ClearSession(s) \/ StopTimesOut(s)
      PROVE  RowStep
  <2>1. CASE StopEffects(s) BY <1>2, <2>1 DEF StopEffects
  <2>2. CASE UNCHANGED <<row, lastId>> BY <1>1, <2>2
  <2>3. QED
    BY <1>5, <2>1, <2>2
       DEF RequestStop, ClearSession, StopTimesOut, durable
<1>6. ASSUME NEW s \in Sessions, BeginDelete(s) PROVE RowStep
  BY <1>2, <1>6 DEF BeginDelete
<1>7. CASE Rehydrate
  <2>1. ASSUME NEW i \in Ids
        PROVE  row'[i].source = row[i].source /\ row'[i].origin = row[i].origin
    <3>1. \/ row'[i] = row[i]
          \/ row'[i] = [row[i] EXCEPT !.status = "DONE"]
          \/ row'[i] = [row[i] EXCEPT !.status = "PENDING"]
          \/ row'[i] = [row[i] EXCEPT !.status = "gone"]
      BY <1>7 DEF Rehydrate
    <3>2. row[i] \in Row BY DEF TypeOK
    <3>3. QED BY <3>1, <3>2, RowColumns
  <2>2. QED BY <1>7, <2>1 DEF RowStep, Columns, Rehydrate
<1>8. CASE ClearStore
  <2>1. ASSUME NEW i \in Ids
        PROVE  row'[i].source = row[i].source /\ row'[i].origin = row[i].origin
    <3>1. row'[i] = row[i] \/ row'[i] = [row[i] EXCEPT !.status = "gone"]
      BY <1>8 DEF ClearStore
    <3>2. row[i] \in Row BY DEF TypeOK
    <3>3. QED BY <3>1, <3>2, RowColumns
  <2>2. QED BY <1>8, <2>1 DEF RowStep, Columns, ClearStore
<1>9. CASE StartProcess \/ StartLoops \/ Crash \/ Tick \/ UNCHANGED vars
  BY <1>1, <1>9 DEF StartProcess, StartLoops, Crash, Tick, durable, vars
<1>10. QED
  BY <1>3, <1>4, <1>5, <1>6, <1>7, <1>8, <1>9 DEF Next, Boot

LEMMA KeptColumns ==
    ASSUME TypeOK, RowStep, NEW i \in Ids, i <= lastId
    PROVE  /\ row'[i].source = row[i].source
           /\ row'[i].origin = row[i].origin
           /\ i <= lastId'
<1>1. lastId \in Int /\ i \in Int BY BoundsAssumption DEF TypeOK
<1>2. CASE UNCHANGED lastId /\ Columns(row') BY <1>2 DEF Columns
<1>3. ASSUME NEW r \in Table, NEW s \in Sessions, Columns(r), Entered(r, s)
      PROVE  /\ row'[i].source = row[i].source
             /\ row'[i].origin = row[i].origin
             /\ i <= lastId'
  <2>1. lastId' = lastId + 1 /\ i # lastId + 1 BY <1>1, <1>3 DEF Entered
  <2>2. row'[i] = r[i] BY <1>3, <2>1 DEF Entered
  <2>3. QED BY <1>1, <1>3, <2>1, <2>2 DEF Columns
<1>4. QED BY <1>2, <1>3 DEF RowStep

\* The rows a trigger carries go together: one contact, and a fix mission
\* only by itself.
Pure(t) ==
    /\ t.id \in t.carries
    /\ \A i \in t.carries :
         /\ i <= lastId
         /\ row[i].origin = row[t.id].origin
         /\ row[i].source = Exclusive => t.carries = {t.id}

\* So do the triggers of a turn.
Mixed(s) ==
    /\ \A t \in Lane(s) : Pure(t)
    /\ \A t, u \in turn[s].group :
         /\ row[t.id].origin = row[u.id].origin
         /\ row[t.id].source = Exclusive => t = u

MixInv == TypeOK /\ LaneOK /\ \A s \in Sessions : Mixed(s)

LEMMA LaneTypes ==
    ASSUME TypeOK, NEW s \in Sessions, NEW t \in Lane(s)
    PROVE  t \in Trig /\ t.id \in Ids /\ t.carries \in SUBSET Ids
BY DEF Lane, TypeOK, Turn, DyingTurn, Trig

\* A trigger that carries what another one did is as pure, and so is a new
\* one, which carries its own row.
LEMMA PureKept ==
    ASSUME TypeOK, RowStep, NEW t, NEW u, u.id \in Ids, u.carries \in SUBSET Ids,
           Pure(u), t.id = u.id, t.carries = u.carries
    PROVE  Pure(t)'
<1>1. ASSUME NEW i \in u.carries
      PROVE  /\ i <= lastId'
             /\ row'[i].origin = row[i].origin
             /\ row'[i].source = row[i].source
  BY <1>1, KeptColumns DEF Pure
<1>2. u.id \in u.carries BY DEF Pure
<1>3. QED BY <1>1, <1>2 DEF Pure

LEMMA PureNew ==
    ASSUME NEW t, t.carries = {t.id}, t.id <= lastId' PROVE Pure(t)'
BY DEF Pure

LEMMA MixedKept ==
    ASSUME MixInv, RowStep,
           GroupsShrink,
           NEW s \in Sessions, \A t \in heap'[s] : Pure(t)'
    PROVE  Mixed(s)'
<1>0. TypeOK BY DEF MixInv
<1>1. turn'[s].group \subseteq turn[s].group
      /\ dying'[s].group \subseteq dying[s].group \cup turn[s].group
  BY DEF GroupsShrink
<1>2. ASSUME NEW t \in Lane(s) PROVE Pure(t)'
  <2>1. Pure(t) BY DEF MixInv, Mixed
  <2>2. QED BY <1>0, <2>1, LaneTypes, PureKept
<1>3. \A t \in Lane(s)' : Pure(t)' BY <1>1, <1>2 DEF Lane
<1>4. ASSUME NEW t \in turn'[s].group, NEW u \in turn'[s].group
      PROVE  /\ row'[t.id].origin = row'[u.id].origin
             /\ row'[t.id].source = Exclusive => t = u
  <2>1. t \in Lane(s) /\ u \in Lane(s) BY <1>1 DEF Lane
  <2>2. /\ t.id \in Ids /\ t.id <= lastId
        /\ u.id \in Ids /\ u.id <= lastId
    BY <1>0, <2>1, LaneTypes DEF MixInv, LaneOK
  <2>3. /\ row'[t.id].origin = row[t.id].origin
        /\ row'[u.id].origin = row[u.id].origin
        /\ row'[t.id].source = row[t.id].source
    BY <1>0, <2>2, KeptColumns
  <2>4. QED BY <1>1, <2>3 DEF MixInv, Mixed
<1>5. QED BY <1>3, <1>4 DEF Mixed

\* The consumer merges triggers of one contact, and no exclusive ones.
LEMMA ClaimMixed ==
    ASSUME MixInv, RowStep, NEW s \in Sessions, Claim(s)
    PROVE  \A q \in Sessions : Mixed(q)'
<1> PICK base \in Due(s) :
      LET extras == Extras(s, base)
          group == {Merged(base, extras)} \cup extras
      IN  /\ row' = Claimed(row, IdsOf(group))
          /\ heap' = [heap EXCEPT ![s] = @ \ ({base} \cup extras)]
          /\ turn' = [turn EXCEPT ![s] =
               [phase |-> IF stop[s] = "none" THEN "capacity" ELSE "fenced",
                group |-> group, tracked |-> TRUE]]
  BY DEF Claim
<1> PICK extras : extras = Extras(s, base) OBVIOUS
<1> PICK m : m = Merged(base, extras) OBVIOUS
<1> DEFINE c == base.carries \cup UNION {t.carries : t \in extras}
           u == [phase |-> IF stop[s] = "none" THEN "capacity" ELSE "fenced",
                 group |-> {m} \cup extras, tracked |-> TRUE]
<1>0. TypeOK BY DEF MixInv
<1>1. heap' = [heap EXCEPT ![s] = @ \ ({base} \cup extras)] OBVIOUS
<1>2. turn' = [turn EXCEPT ![s] = u] /\ u.group = {m} \cup extras OBVIOUS
<1>3. base \in Lane(s) /\ base \in Trig
  BY <1>0, LaneTypes DEF Due, Lane
<1>4. m.id = base.id /\ m.carries = c BY <1>3 DEF Merged, Trig
<1>5. \A t \in extras :
        /\ t \in Lane(s) /\ row[t.id].origin = row[base.id].origin
        /\ row[t.id].source # Exclusive /\ row[base.id].source # Exclusive
  BY DEF Extras, Due, Lane, Source, Origin
<1>6. UNCHANGED dying BY DEF Claim
<1> HIDE DEF u
<1>7. ASSUME NEW q \in Sessions, NEW t \in Lane(q) PROVE Pure(t) /\ Pure(t)'
  <2>1. Pure(t) BY DEF MixInv, Mixed
  <2>2. QED BY <1>0, <2>1, LaneTypes, PureKept
<1>8. ASSUME NEW t \in Lane(s)
      PROVE  /\ t.id \in Ids /\ t.carries \in SUBSET Ids
             /\ t.id <= lastId /\ t.id \in t.carries
             /\ row'[t.id].origin = row[t.id].origin
             /\ row'[t.id].source = row[t.id].source
             /\ \A i \in t.carries :
                  /\ i <= lastId' /\ row'[i].origin = row[t.id].origin
                  /\ row'[i].source = Exclusive => t.carries = {t.id}
  <2>1. /\ t.id \in Ids /\ t.carries \in SUBSET Ids
        /\ t.id <= lastId /\ t.id \in t.carries
    BY <1>0, <1>7, LaneTypes DEF MixInv, LaneOK, Pure
  <2>2. /\ row'[t.id].origin = row[t.id].origin
        /\ row'[t.id].source = row[t.id].source
    BY <1>0, <2>1, KeptColumns
  <2>3. QED BY <1>7, <2>1, <2>2 DEF Pure
<1>9. Pure(m)'
  <2>1. base.id \in c BY <1>3, <1>8
  <2>2. ASSUME NEW i \in c
        PROVE  /\ i <= lastId' /\ row'[i].origin = row'[base.id].origin
               /\ row'[i].source = Exclusive => c = {base.id}
    <3>1. CASE extras = {}
      <4>1. c = base.carries BY <3>1
      <4>2. QED BY <1>3, <1>8, <4>1
    <3>2. CASE extras # {}
      <4>1. row[base.id].source # Exclusive BY <1>5, <3>2
      <4>2. ASSUME NEW t \in Lane(s), i \in t.carries,
                   row[t.id].source # Exclusive,
                   row[t.id].origin = row[base.id].origin
            PROVE  /\ i <= lastId' /\ row'[i].origin = row'[base.id].origin
                   /\ row'[i].source # Exclusive
        <5>1. i <= lastId' /\ row'[i].origin = row'[base.id].origin
          BY <1>3, <1>8, <4>2
        <5>2. row'[i].source = Exclusive => i = t.id BY <1>8, <4>2
        <5>3. QED BY <1>8, <4>2, <5>1, <5>2
      <4>3. CASE i \in base.carries BY <1>3, <4>1, <4>2, <4>3
      <4>4. CASE i \notin base.carries
        <5>1. PICK t \in extras : i \in t.carries BY <4>4
        <5>2. QED BY <1>5, <4>2, <5>1
      <4>5. QED BY <4>3, <4>4
    <3>3. QED BY <3>1, <3>2
  <2> HIDE DEF c
  <2>3. QED BY <1>4, <2>1, <2>2 DEF Pure
<1>10. ASSUME NEW q \in Sessions, q # s PROVE Mixed(q)'
  <2>1. heap'[q] = heap[q] /\ turn'[q] = turn[q]
    BY <1>0, <1>1, <1>2, <1>10 DEF TypeOK
  <2>2. Lane(q)' = Lane(q) BY <1>6, <2>1 DEF Lane
  <2>3. ASSUME NEW t \in turn[q].group
        PROVE  /\ row'[t.id].origin = row[t.id].origin
               /\ row'[t.id].source = row[t.id].source
    <3>1. t \in Lane(q) BY DEF Lane
    <3>2. t.id \in Ids /\ t.id <= lastId
      BY <1>0, <3>1, LaneTypes DEF MixInv, LaneOK
    <3>3. QED BY <1>0, <3>2, KeptColumns
  <2>4. \A t \in Lane(q)' : Pure(t)' BY <1>7, <2>2
  <2>5. ASSUME NEW t \in turn'[q].group, NEW v \in turn'[q].group
        PROVE  /\ row'[t.id].origin = row'[v.id].origin
               /\ row'[t.id].source = Exclusive => t = v
    <3>1. t \in turn[q].group /\ v \in turn[q].group BY <2>1
    <3>2. /\ row[t.id].origin = row[v.id].origin
          /\ row[t.id].source = Exclusive => t = v
      BY <3>1 DEF MixInv, Mixed
    <3>3. QED BY <2>3, <3>1, <3>2
  <2>6. QED BY <2>4, <2>5 DEF Mixed
<1>11. Mixed(s)'
  <2>1. turn'[s] = u /\ heap'[s] \subseteq heap[s]
    BY <1>0, <1>1, <1>2 DEF TypeOK
  <2>2. ASSUME NEW t \in Lane(s)' PROVE Pure(t)'
    <3>1. t \in Lane(s) \/ t = m BY <1>2, <1>5, <1>6, <2>1 DEF Lane
    <3>2. QED BY <1>7, <1>9, <3>1
  <2>3. ASSUME NEW t \in turn'[s].group
        PROVE  /\ row'[t.id].origin = row[base.id].origin
               /\ row'[t.id].source = Exclusive => extras = {} /\ t = m
    <3>1. CASE t = m BY <1>3, <1>4, <1>5, <1>8, <3>1
    <3>2. CASE t \in extras BY <1>5, <1>8, <3>2
    <3>3. QED BY <1>2, <2>1, <3>1, <3>2
  <2>4. QED BY <1>2, <2>1, <2>2, <2>3 DEF Mixed
<1>12. QED BY <1>10, <1>11

LEMMA MixStep ==
    ASSUME MixInv, [Next]_vars PROVE \A s \in Sessions : Mixed(s)'
<1>0. TypeOK /\ RowStep /\ Flow BY RowStepAlways, FlowStep DEF MixInv
<1>1. ASSUME NEW s \in Sessions, NEW t \in heap[s] PROVE Pure(t)'
  <2>1. t \in Lane(s) BY DEF Lane
  <2>2. Pure(t) BY <2>1 DEF MixInv, Mixed
  <2>3. QED BY <1>0, <2>1, <2>2, LaneTypes, PureKept
<1>2. CASE Drop BY <1>0, <1>1, <1>2, MixedKept DEF Drop, QueuesShrink
<1>3. CASE Enter
  <2>1. PICK r \in Table, s \in Sessions, t \in Trig :
          /\ lastId' = t.id /\ t.carries = {t.id}
          /\ heap' = [heap EXCEPT ![s] = @ \cup {t}]
    BY <1>3 DEF Enter, Entered
  <2>2. t.id <= lastId' BY <2>1 DEF Trig
  <2>3. Pure(t)' BY <2>1, <2>2, PureNew
  <2>4. \A q \in Sessions : heap'[q] \subseteq heap[q] \cup {t}
    BY <1>0, <2>1 DEF TypeOK
  <2>5. QED BY <1>0, <1>1, <1>3, <2>3, <2>4, MixedKept DEF Enter
<1>4. CASE Back
  <2>1. PICK s \in Sessions, t \in Trig, u \in Trig :
          /\ t \in turn[s].group \/ t \in dying[s].group
          /\ u.id = t.id /\ u.carries = t.carries
          /\ heap' = [heap EXCEPT ![s] = @ \cup {u}]
    BY <1>4 DEF Back, PutBack
  <2>2. t \in Lane(s) BY <2>1 DEF Lane
  <2>3. Pure(t) BY <2>2 DEF MixInv, Mixed
  <2>4. Pure(u)' BY <1>0, <2>1, <2>2, <2>3, LaneTypes, PureKept
  <2>5. \A q \in Sessions : heap'[q] \subseteq heap[q] \cup {u}
    BY <1>0, <2>1 DEF TypeOK
  <2>6. QED BY <1>0, <1>1, <1>4, <2>4, <2>5, MixedKept DEF Back
<1>5. CASE Rehydrate
  <2>1. GroupsShrink /\ UNCHANGED lastId
    BY <1>5 DEF Rehydrate, GroupsShrink
  <2>2. ASSUME NEW s \in Sessions, NEW t \in heap'[s] \ heap[s]
        PROVE  t.id <= lastId' /\ t.carries = {t.id}
    <3>1. PICK i \in Unfinished :
            t = [id |-> i, fireAt |-> row[i].fireAt,
                 copy |-> "rehydrated", carries |-> {i}]
      BY <1>5, <2>2 DEF Rehydrate
    <3>2. row[i].status # "free" BY DEF Unfinished, Active, ActiveStatus
    <3>3. ~(i > lastId) BY <1>0, <3>2 DEF TypeOK, Unfinished
    <3>4. i \in Int /\ lastId \in Int
      BY <1>0, BoundsAssumption DEF TypeOK, Unfinished
    <3>5. QED BY <2>1, <3>1, <3>3, <3>4
  <2>3. \A s \in Sessions : \A t \in heap'[s] : Pure(t)'
    BY <1>1, <2>2, PureNew
  <2>4. QED BY <1>0, <2>1, <2>3, MixedKept
<1>6. CASE \E s \in Sessions : Claim(s) BY <1>0, <1>6, ClaimMixed
<1>7. QED BY <1>0, <1>2, <1>3, <1>4, <1>5, <1>6 DEF Flow

LEMMA MixAlways == Spec => []MixInv
<1>1. Init => \A s \in Sessions : Mixed(s)
  BY DEF Init, Mixed, Lane, NoTurn, NotDying
<1>2. TypeOK /\ LaneOK /\ (\A s \in Sessions : Mixed(s)) /\ [Next]_vars
        => (\A s \in Sessions : Mixed(s))'
  BY MixStep DEF MixInv
<1>3. QED BY <1>1, <1>2, TypesInvariant, PTL DEF Spec, MixInv

\* No turn mixes the messages of two contacts, and a fix mission shares its
\* turn with nothing, whatever was merged, retried or loaded twice before.
THEOREM TurnsKeepApart == Spec => []TurnsAreApart
<1>1. MixInv => TurnsAreApart
  <2> SUFFICES ASSUME MixInv, NEW s \in Sessions,
                      NEW i \in Content(s), NEW j \in Content(s)
               PROVE  /\ row[i].source = Exclusive => i = j
                      /\ row[i].origin = row[j].origin
    BY DEF TurnsAreApart
  <2>1. PICK t \in turn[s].group, u \in turn[s].group :
          i \in t.carries /\ j \in u.carries
    BY DEF Content
  <2>2. Pure(t) /\ Pure(u) BY DEF MixInv, Mixed, Lane
  <2>3. row[i].origin = row[j].origin BY <2>1, <2>2 DEF MixInv, Mixed, Pure
  <2>4. ASSUME row[i].source = Exclusive PROVE i = j
    <3>1. t.carries = {t.id} BY <2>1, <2>2, <2>4 DEF Pure
    <3>2. row[t.id].source = Exclusive BY <2>1, <2>4, <3>1
    <3>3. t = u BY <3>2 DEF MixInv, Mixed
    <3>4. QED BY <2>1, <3>1, <3>3
  <2>5. QED BY <2>3, <2>4
<1>2. QED BY <1>1, MixAlways, PTL

-----------------------------------------------------------------------------
(* Who delivers a row *)

BootFirst == "boot_emit" \notin Env

\* A row has one trigger of the session, and it is in one place.
Apart(s) ==
    /\ \A t, u \in Lane(s) : t.id = u.id => t = u
    /\ heap[s] \cap turn[s].group = {}
    /\ heap[s] \cap dying[s].group = {}
    /\ turn[s].group \cap dying[s].group = {}

\* Before the boot has loaded the table there are no triggers.
NothingQueued ==
    proc \notin {"loaded", "up"} =>
        \A s \in Sessions : heap[s] = {} /\ dying[s] = NotDying

CarrierInv == /\ TypeOK /\ LaneOK /\ TurnsNeedLoops
              /\ NothingQueued /\ \A s \in Sessions : Apart(s)

LEMMA ApartShrinks ==
    ASSUME GroupsShrink, NEW s \in Sessions, Apart(s), heap'[s] \subseteq heap[s]
    PROVE  Apart(s)'
<1>1. /\ turn'[s].group \subseteq turn[s].group
      /\ \/ dying'[s].group \subseteq dying[s].group
         \/ turn'[s].group = {} /\ dying'[s].group \subseteq turn[s].group
  BY DEF GroupsShrink
<1>2. \A t \in Lane(s)' : t \in Lane(s) BY <1>1 DEF Lane
<1>3. \A t, u \in Lane(s)' : t.id = u.id => t = u BY <1>2 DEF Apart
<1>4. /\ heap'[s] \cap turn'[s].group = {}
      /\ heap'[s] \cap dying'[s].group = {}
      /\ turn'[s].group \cap dying'[s].group = {}
  BY <1>1 DEF Apart
<1>5. QED BY <1>3, <1>4 DEF Apart

\* A trigger joins the queue when no other of its row is in the lane.
LEMMA ApartGrows ==
    ASSUME GroupsShrink, NEW s \in Sessions, Apart(s), NEW u,
           heap'[s] \subseteq heap[s] \cup {u},
           \A t \in heap[s] \cup turn'[s].group \cup dying'[s].group :
              t.id # u.id
    PROVE  Apart(s)'
<1>1. /\ turn'[s].group \subseteq turn[s].group
      /\ \/ dying'[s].group \subseteq dying[s].group
         \/ turn'[s].group = {} /\ dying'[s].group \subseteq turn[s].group
  BY DEF GroupsShrink
<1>2. \A t \in Lane(s)' : t = u \/ (t \in Lane(s) /\ t.id # u.id)
  BY <1>1 DEF Lane
<1>3. \A t, v \in Lane(s)' : t.id = v.id => t = v BY <1>2 DEF Apart
<1>4. u \notin turn'[s].group /\ u \notin dying'[s].group OBVIOUS
<1>5. /\ heap'[s] \cap turn'[s].group = {}
      /\ heap'[s] \cap dying'[s].group = {}
      /\ turn'[s].group \cap dying'[s].group = {}
  BY <1>1, <1>4 DEF Apart
<1>6. QED BY <1>3, <1>5 DEF Apart

LEMMA ClaimApart ==
    ASSUME CarrierInv, NEW s \in Sessions, Claim(s)
    PROVE  \A q \in Sessions : Apart(q)'
<1>0. TypeOK /\ Apart(s) BY DEF CarrierInv
<1> PICK base \in Due(s) :
      LET extras == Extras(s, base)
          group == {Merged(base, extras)} \cup extras
      IN  /\ heap' = [heap EXCEPT ![s] = @ \ ({base} \cup extras)]
          /\ turn' = [turn EXCEPT ![s] =
               [phase |-> IF stop[s] = "none" THEN "capacity" ELSE "fenced",
                group |-> group, tracked |-> TRUE]]
  BY DEF Claim
<1> PICK extras : extras = Extras(s, base) OBVIOUS
<1> PICK m : m = Merged(base, extras) OBVIOUS
<1> DEFINE u == [phase |-> IF stop[s] = "none" THEN "capacity" ELSE "fenced",
                 group |-> {m} \cup extras, tracked |-> TRUE]
<1>1. heap' = [heap EXCEPT ![s] = @ \ ({base} \cup extras)] OBVIOUS
<1>2. turn' = [turn EXCEPT ![s] = u] /\ u.group = {m} \cup extras OBVIOUS
<1>3. base \in heap[s] /\ base \in Trig BY <1>0 DEF Due, TypeOK
<1>4. m.id = base.id BY <1>3 DEF Merged, Trig
<1>5. extras \subseteq heap[s] \ {base} BY DEF Extras, Due
<1>6. UNCHANGED dying BY DEF Claim
<1> HIDE DEF u
<1>7. ASSUME NEW q \in Sessions, q # s PROVE Apart(q)'
  <2>1. heap'[q] = heap[q] /\ turn'[q] = turn[q] /\ dying'[q] = dying[q]
    BY <1>0, <1>1, <1>2, <1>6, <1>7 DEF TypeOK
  <2>2. Apart(q) BY DEF CarrierInv
  <2>3. QED BY <2>1, <2>2 DEF Apart, Lane
<1>8. /\ heap'[s] = heap[s] \ ({base} \cup extras)
      /\ turn'[s].group = {m} \cup extras
      /\ dying'[s].group = dying[s].group
  BY <1>0, <1>1, <1>2, <1>6 DEF TypeOK
<1>9. ASSUME NEW t \in Lane(s), t.id = base.id PROVE t = base
  BY <1>0, <1>3, <1>9 DEF Apart, Lane
<1>10. \A t \in heap'[s] \cup extras \cup dying[s].group :
         t \in Lane(s) /\ t.id # m.id
  <2>1. base \notin dying[s].group BY <1>0, <1>3 DEF Apart
  <2>2. QED BY <1>4, <1>5, <1>8, <1>9, <2>1 DEF Lane
<1>11. \A t, v \in Lane(s)' : t.id = v.id => t = v
  BY <1>0, <1>8, <1>10 DEF Apart, Lane
<1>12. /\ heap'[s] \cap turn'[s].group = {}
       /\ heap'[s] \cap dying'[s].group = {}
       /\ turn'[s].group \cap dying'[s].group = {}
  BY <1>0, <1>5, <1>8, <1>10 DEF Apart
<1>13. Apart(s)' BY <1>11, <1>12 DEF Apart
<1>14. QED BY <1>7, <1>13

\* The load is the first to queue anything, and it queues a row once.
LEMMA LoadApart ==
    ASSUME CarrierInv, Rehydrate PROVE \A s \in Sessions : Apart(s)'
<1> DEFINE T(i) == [id |-> i, fireAt |-> row[i].fireAt,
                    copy |-> "rehydrated", carries |-> {i}]
<1> SUFFICES ASSUME NEW s \in Sessions PROVE Apart(s)'
  OBVIOUS
<1>1. turn'[s].group = {} /\ dying'[s].group = {} /\ heap[s] = {}
  BY DEF CarrierInv, NothingQueued, TurnsNeedLoops, Rehydrate, NotDying, TypeOK
<1>2. \A t \in heap'[s] : \E i \in Ids : t = T(i)
  BY <1>1 DEF Rehydrate, Unfinished
<1>3. \A t, u \in heap'[s] : t.id = u.id => t = u
  <2>1. \A i \in Ids : T(i).id = i OBVIOUS
  <2> HIDE DEF T
  <2>2. QED BY <1>2, <2>1
<1>4. QED BY <1>1, <1>3 DEF Apart, Lane

LEMMA ApartStep ==
    ASSUME CarrierInv, [Next]_vars PROVE \A s \in Sessions : Apart(s)'
<1>0. TypeOK /\ Flow BY FlowStep DEF CarrierInv
<1>1. ASSUME NEW s \in Sessions PROVE Apart(s) BY DEF CarrierInv
<1>2. CASE Drop BY <1>1, <1>2, ApartShrinks DEF Drop, QueuesShrink
<1>3. CASE Enter
  <2>1. PICK s \in Sessions, t \in Trig :
          t.id = lastId + 1 /\ heap' = [heap EXCEPT ![s] = @ \cup {t}]
    BY <1>3 DEF Enter, Entered
  <2>2. GroupsShrink BY <1>3 DEF Enter
  <2>3. \A q \in Sessions \ {s} : heap'[q] \subseteq heap[q]
    BY <1>0, <2>1 DEF TypeOK
  <2>4. heap'[s] \subseteq heap[s] \cup {t} BY <1>0, <2>1 DEF TypeOK
  <2>5. ASSUME NEW u \in Lane(s) PROVE u.id # t.id
    <3>1. u.id \in Ids BY <1>0, LaneTypes
    <3>2. u.id <= lastId BY DEF CarrierInv, LaneOK
    <3>3. lastId \in Int /\ u.id \in Int
      BY <1>0, <3>1, BoundsAssumption DEF TypeOK
    <3>4. QED BY <2>1, <3>2, <3>3
  <2>6. \A u \in heap[s] \cup turn'[s].group \cup dying'[s].group : u \in Lane(s)
    BY <2>2 DEF GroupsShrink, Lane
  <2>7. Apart(s)' BY <1>1, <2>2, <2>4, <2>5, <2>6, ApartGrows
  <2>8. QED BY <1>1, <2>2, <2>3, <2>7, ApartShrinks
<1>4. CASE Back
  <2>1. PICK s \in Sessions, t \in Trig, u \in Trig :
          /\ \/ t \in turn[s].group \ turn'[s].group /\ UNCHANGED dying
             \/ t \in dying[s].group \ dying'[s].group
          /\ u.id = t.id
          /\ heap' = [heap EXCEPT ![s] = @ \cup {u}]
    BY <1>4 DEF Back, PutBack
  <2>2. GroupsShrink BY <1>4 DEF Back
  <2>3. \A q \in Sessions \ {s} : heap'[q] \subseteq heap[q]
    BY <1>0, <2>1 DEF TypeOK
  <2>4. heap'[s] \subseteq heap[s] \cup {u} BY <1>0, <2>1 DEF TypeOK
  <2>5. t \in Lane(s) BY <2>1 DEF Lane
  <2>6. ASSUME NEW v \in Lane(s), v.id = u.id PROVE v = t
    BY <1>1, <2>1, <2>5, <2>6 DEF Apart
  <2>7. t \notin heap[s] BY <1>1, <2>1 DEF Apart
  <2>8. t \notin turn'[s].group /\ t \notin dying'[s].group
    BY <1>1, <2>1, <2>2 DEF Apart, GroupsShrink
  <2>9. \A v \in heap[s] \cup turn'[s].group \cup dying'[s].group : v \in Lane(s)
    BY <2>2 DEF GroupsShrink, Lane
  <2>10. Apart(s)' BY <1>1, <2>2, <2>4, <2>6, <2>7, <2>8, <2>9, ApartGrows
  <2>11. QED BY <1>1, <2>2, <2>3, <2>10, ApartShrinks
<1>5. CASE Rehydrate BY <1>5, LoadApart
<1>6. CASE \E s \in Sessions : Claim(s) BY <1>6, ClaimApart
<1>7. QED BY <1>0, <1>2, <1>3, <1>4, <1>5, <1>6 DEF Flow

\* Nothing is emitted, run or retried before the load.
LEMMA NothingQueuedStep ==
    ASSUME BootFirst, CarrierInv, [Next]_vars PROVE NothingQueued'
<1> SUFFICES ASSUME proc' \notin {"loaded", "up"}, NEW s \in Sessions
             PROVE  heap'[s] = {} /\ dying'[s] = NotDying
  BY DEF NothingQueued
<1>0. TypeOK /\ TurnsNeedLoops BY DEF CarrierInv
<1>1. CASE Crash BY <1>1 DEF Crash
<1>2. ASSUME UNCHANGED <<proc, dying>>,
             \A q \in Sessions : heap'[q] \subseteq heap[q]
      PROVE  heap'[s] = {} /\ dying'[s] = NotDying
  BY <1>2 DEF CarrierInv, NothingQueued
<1>3. CASE UNCHANGED vars BY <1>2, <1>3 DEF vars
<1>4. CASE Boot \/ ClearStore \/ Tick
  <2>1. proc = "down" /\ proc' = "boot" => StartProcess
    BY <1>4 DEF Boot, StartProcess, Rehydrate, StartLoops, ClearStore, Tick
  <2>2. CASE StartProcess
    BY <2>2 DEF StartProcess, lanes, CarrierInv, NothingQueued
  <2>3. CASE ClearStore \/ Tick
    BY <1>2, <2>3 DEF ClearStore, Tick, lanes
  <2>4. QED BY <1>4, <2>2, <2>3 DEF Boot, Rehydrate, StartLoops
<1>5. ASSUME NEW q \in Sessions, Progress(q)
      PROVE  heap'[s] = {} /\ dying'[s] = NotDying
  <2>1. UNCHANGED proc
    BY <1>5
       DEF Progress, Claim, Unfence, Admit, TurnReturns, TurnRaises,
           TurnUnwinds, Ack, NackOne, KillDone, AckStopped, StopSettles,
           FenceSettles, ResetContext, DyingTurnEnds, DyingNack, FinishDelete
  <2>2. turn[q].phase = "none" /\ dying[q] = NotDying
    BY <1>0, <2>1 DEF TurnsNeedLoops, CarrierInv, NothingQueued
  <2>3. proc # "up" BY <2>1
  <2>4. \/ KillDone(q) \/ FenceSettles(q) \/ ResetContext(q) \/ FinishDelete(q)
    BY <1>5, <2>2, <2>3
       DEF Progress, Claim, Unfence, Admit, TurnReturns, TurnRaises,
           TurnUnwinds, Ack, NackOne, AckStopped, StopSettles, DyingTurnEnds,
           DyingNack, NotDying
  <2>5. QED
    BY <1>2, <2>1, <2>4
       DEF KillDone, FenceSettles, ResetContext, FinishDelete, lanes
<1>6. ASSUME NEW q \in Sessions,
             \/ \E kind \in Kinds, delay \in Delays : Emit(q, kind, delay)
             \/ BeginDelete(q)
      PROVE  FALSE
  <2>1. CASE BeginDelete(q) BY <2>1 DEF BeginDelete
  <2>2. CASE \E kind \in Kinds, delay \in Delays : Emit(q, kind, delay)
    BY <2>2 DEF Emit, BootFirst
  <2>3. QED BY <1>6, <2>1, <2>2
<1>7. ASSUME NEW q \in Sessions,
             RequestStop(q) \/ ClearSession(q) \/ StopTimesOut(q)
      PROVE  heap'[s] = {} /\ dying'[s] = NotDying
  <2>1. CASE StopEffects(q)
    BY <2>1 DEF StopEffects
  <2>2. CASE UNCHANGED <<proc, heap, dying>> BY <1>2, <2>2
  <2>3. QED
    BY <1>7, <2>1, <2>2
       DEF RequestStop, ClearSession, StopTimesOut, lanes
<1>8. QED BY <1>1, <1>3, <1>4, <1>5, <1>6, <1>7 DEF Next

LEMMA CarrierAlways == ASSUME BootFirst PROVE Spec => []CarrierInv
<1> DEFINE J == NothingQueued /\ \A s \in Sessions : Apart(s)
<1>1. Init => J
  BY DEF Init, NothingQueued, Apart, Lane, NoTurn, NotDying
<1>2. TypeOK /\ LaneOK /\ TurnsNeedLoops /\ J /\ [Next]_vars => J'
  BY ApartStep, NothingQueuedStep DEF CarrierInv
<1>3. TypeOK /\ LaneOK /\ TurnsNeedLoops /\ J => CarrierInv BY DEF CarrierInv
<1> HIDE DEF J
<1>4. QED
  BY <1>1, <1>2, <1>3, TypesInvariant, TurnsNeedLoopsAlways, PTL DEF Spec

\* Unless producers emit before the boot has loaded the table, no row is
\* delivered by two triggers: not after a merge, a retry, a stop, a deletion,
\* a wipe of the table or a crash.
THEOREM OneCarrierEach == ASSUME BootFirst PROVE Spec => []OneCarrier
<1>1. CarrierInv => OneCarrier
  BY DEF CarrierInv, Apart, OneCarrier, Held, Lane
<1>2. QED BY <1>1, CarrierAlways, PTL

-----------------------------------------------------------------------------
(* What is queued is open, what runs is claimed *)

\* The operations that settle rows behind the back of a turn do not happen.
Guarded == Env \cap {"boot_emit", "delete", "reset"} = {}

Worked(s) ==
    /\ dying[s] = NotDying
    /\ \A t \in heap[s] : row[t.id].status = "PENDING"
    /\ \A t \in turn[s].group : row[t.id].status = "CLAIMED"

WorkInv == CarrierInv /\ \A s \in Sessions : Worked(s)

LEMMA OneOfId ==
    ASSUME CarrierInv, NEW s \in Sessions, NEW t \in Lane(s),
           NEW q \in Sessions, NEW u \in Lane(q), t.id = u.id
    PROVE  s = q /\ t = u
<1>1. row[t.id].session = s /\ row[u.id].session = q BY DEF CarrierInv, LaneOK
<1>2. Apart(s) BY DEF CarrierInv
<1>3. QED BY <1>1, <1>2 DEF Apart

\* Triggers keep their places while their rows keep their states.
LEMMA WorkedKept ==
    ASSUME WorkInv, UNCHANGED dying,
           \A s \in Sessions : \A t \in heap'[s] :
              \/ t \in heap[s] /\ row'[t.id].status = row[t.id].status
              \/ row'[t.id].status = "PENDING",
           \A s \in Sessions : \A t \in turn'[s].group :
              \/ t \in turn[s].group /\ row'[t.id].status = row[t.id].status
              \/ row'[t.id].status = "CLAIMED"
    PROVE  \A s \in Sessions : Worked(s)'
BY DEF WorkInv, Worked

\* Rows are settled whose triggers leave.
LEMMA WorkedSettles ==
    ASSUME WorkInv, UNCHANGED dying, QueuesShrink, GroupsShrink,
           NEW ids, NEW st \in {"DONE", "DEAD"}, row' = SetStatus(row, ids, st),
           \A s \in Sessions : \A t \in heap'[s] \cup turn'[s].group : t.id \notin ids
    PROVE  \A s \in Sessions : Worked(s)'
<1>0. TypeOK BY DEF WorkInv, CarrierInv
<1>1. \A i \in Ids : i \notin ids => row'[i] = row[i]
  BY DEF SetStatus
<1>2. ASSUME NEW s \in Sessions, NEW t \in heap'[s] \cup turn'[s].group
      PROVE  row'[t.id].status = row[t.id].status
  <2>1. t \in Lane(s) BY DEF QueuesShrink, GroupsShrink, Lane
  <2>2. t.id \in Ids BY <1>0, <2>1, LaneTypes
  <2>3. QED BY <1>1, <2>2
<1>3. QED BY <1>2, WorkedKept DEF QueuesShrink, GroupsShrink

\* One row of a turn is settled or parked.
LEMMA WorkedOneSettles ==
    ASSUME WorkInv, UNCHANGED <<dying, heap>>, GroupsShrink,
           NEW s \in Sessions, NEW t \in turn[s].group \ turn'[s].group,
           NEW st \in {"DONE", "DEAD"}, row' = SetStatus(row, {t.id}, st)
    PROVE  \A q \in Sessions : Worked(q)'
<1>1. CarrierInv /\ Apart(s) /\ t \in Lane(s) BY DEF WorkInv, CarrierInv, Lane
<1>2. ASSUME NEW q \in Sessions, NEW u \in heap'[q] \cup turn'[q].group
      PROVE  u.id # t.id
  <2>1. u \in Lane(q) BY DEF GroupsShrink, Lane
  <2>2. SUFFICES ASSUME u.id = t.id PROVE FALSE OBVIOUS
  <2>3. q = s /\ u = t BY <1>1, <2>1, <2>2, OneOfId
  <2>4. QED BY <1>1, <2>3 DEF Apart
<1>3. QED BY <1>2, WorkedSettles DEF QueuesShrink

\* The queued continuations are dropped, and their rows settled.
LEMMA WorkedDrops ==
    ASSUME WorkInv, UNCHANGED dying, GroupsShrink, NEW s \in Sessions,
           row' = SetStatus(row, IdsOf(Continuations(s)), "DONE"),
           heap' = [heap EXCEPT ![s] = @ \ Continuations(s)]
    PROVE  \A q \in Sessions : Worked(q)'
<1>1. CarrierInv /\ Apart(s) /\ TypeOK BY DEF WorkInv, CarrierInv
<1>2. QueuesShrink BY <1>1 DEF QueuesShrink, TypeOK
<1>3. ASSUME NEW q \in Sessions, NEW u \in heap'[q] \cup turn'[q].group,
             u.id \in IdsOf(Continuations(s))
      PROVE  FALSE
  <2>1. PICK c \in Continuations(s) : c.id = u.id BY <1>3 DEF IdsOf
  <2>2. c \in heap[s] /\ c \notin heap'[s]
    BY <1>1 DEF Continuations, TypeOK
  <2>3. c \in Lane(s) /\ u \in Lane(q)
    BY <1>2, <2>2 DEF GroupsShrink, QueuesShrink, Lane
  <2>4. q = s /\ u = c BY <1>1, <2>1, <2>3, OneOfId
  <2>5. u \in turn[s].group BY <2>2, <2>4 DEF GroupsShrink
  <2>6. QED BY <1>1, <2>2, <2>4, <2>5 DEF Apart
<1>4. QED BY <1>2, <1>3, WorkedSettles

LEMMA WorkedClaim ==
    ASSUME WorkInv, NEW s \in Sessions, Claim(s)
    PROVE  \A q \in Sessions : Worked(q)'
<1>0. CarrierInv /\ TypeOK BY DEF WorkInv, CarrierInv
<1> PICK base \in Due(s) :
      LET extras == Extras(s, base)
          group == {Merged(base, extras)} \cup extras
      IN  /\ row' = Claimed(row, IdsOf(group))
          /\ heap' = [heap EXCEPT ![s] = @ \ ({base} \cup extras)]
          /\ turn' = [turn EXCEPT ![s] =
               [phase |-> IF stop[s] = "none" THEN "capacity" ELSE "fenced",
                group |-> group, tracked |-> TRUE]]
  BY DEF Claim
<1> PICK extras : extras = Extras(s, base) OBVIOUS
<1> PICK m : m = Merged(base, extras) OBVIOUS
<1> DEFINE group == {m} \cup extras
           ids == IdsOf(group)
           u == [phase |-> IF stop[s] = "none" THEN "capacity" ELSE "fenced",
                 group |-> group, tracked |-> TRUE]
<1>1. /\ row' = Claimed(row, ids)
      /\ heap' = [heap EXCEPT ![s] = @ \ ({base} \cup extras)]
      /\ turn' = [turn EXCEPT ![s] = u] /\ u.group = group
      /\ UNCHANGED dying
  BY DEF Claim
<1>2. base \in heap[s] /\ base \in Trig /\ extras \subseteq heap[s]
  BY <1>0 DEF Due, Extras, TypeOK
<1>3. m.id = base.id BY <1>2 DEF Merged, Trig
<1>4. \A i \in ids : \E t \in {base} \cup extras : t.id = i
  BY <1>3 DEF IdsOf
<1> HIDE DEF u
<1>5. /\ heap'[s] = heap[s] \ ({base} \cup extras) /\ turn'[s].group = group
      /\ \A q \in Sessions \ {s} : heap'[q] = heap[q] /\ turn'[q] = turn[q]
  BY <1>0, <1>1 DEF TypeOK
<1>6. \A i \in Ids : i \notin ids => row'[i] = row[i]
  BY <1>1 DEF Claimed
<1>7. ASSUME NEW q \in Sessions, NEW t \in Lane(q), t.id \in ids
      PROVE  q = s /\ t \in {base} \cup extras
  <2>1. PICK v \in {base} \cup extras : v.id = t.id BY <1>4, <1>7
  <2>2. v \in Lane(s) BY <1>2 DEF Lane
  <2>3. QED BY <1>0, <2>1, <2>2, OneOfId
<1>8. ASSUME NEW q \in Sessions, NEW t \in heap'[q]
      PROVE  t \in heap[q] /\ row'[t.id].status = row[t.id].status
  <2>1. t \in heap[q] BY <1>5
  <2>2. t \in Lane(q) BY <2>1 DEF Lane
  <2>3. t.id \in Ids BY <1>0, <2>2, LaneTypes
  <2>4. t.id \notin ids BY <1>5, <1>7, <2>2
  <2>5. QED BY <1>6, <2>1, <2>3, <2>4
<1>9. ASSUME NEW q \in Sessions, NEW t \in turn'[q].group
      PROVE  \/ t \in turn[q].group /\ row'[t.id].status = row[t.id].status
             \/ row'[t.id].status = "CLAIMED"
  <2>1. CASE q # s
    <3>1. t \in turn[q].group BY <1>5, <2>1
    <3>2. t \in Lane(q) BY <3>1 DEF Lane
    <3>3. t.id \in Ids BY <1>0, <3>2, LaneTypes
    <3>4. t.id \notin ids BY <1>7, <2>1, <3>2
    <3>5. QED BY <1>6, <3>1, <3>3, <3>4
  <2>2. CASE q = s
    <3>1. t.id \in ids BY <1>5, <2>2 DEF IdsOf
    <3>2. PICK v \in heap[s] : v.id = t.id BY <1>2, <1>4, <3>1
    <3>3. row[t.id].status = "PENDING" BY <3>2 DEF WorkInv, Worked
    <3>4. t.id \in Ids BY <1>0, <3>2, LaneTypes DEF Lane
    <3> DEFINE x == row[t.id]
    <3>5. row'[t.id] = [x EXCEPT !.status = "CLAIMED", !.attempts = @ + 1]
      BY <1>1, <3>1, <3>3, <3>4 DEF Claimed
    <3>6. x \in Row BY <1>0, <3>4 DEF TypeOK
    <3> HIDE DEF x
    <3>7. QED BY <3>5, <3>6 DEF Row
  <2>3. QED BY <2>1, <2>2
<1>10. QED BY <1>1, <1>8, <1>9, WorkedKept

\* A new row is open and queued.
LEMMA WorkedEnters ==
    ASSUME WorkInv, UNCHANGED dying, NEW s \in Sessions, Entered(row, s),
           \A q \in Sessions : turn'[q].group = turn[q].group
    PROVE  \A q \in Sessions : Worked(q)'
<1>0. TypeOK /\ LaneOK BY DEF WorkInv, CarrierInv
<1>1. PICK t \in Trig :
        /\ t.id = lastId + 1 /\ row'[t.id].status = "PENDING"
        /\ heap' = [heap EXCEPT ![s] = @ \cup {t}]
        /\ \A j \in Ids \ {t.id} : row'[j] = row[j]
  BY DEF Entered
<1>2. ASSUME NEW q \in Sessions, NEW u \in Lane(q)
      PROVE  row'[u.id].status = row[u.id].status
  <2>1. u.id \in Ids /\ u.id <= lastId BY <1>0, LaneTypes DEF LaneOK
  <2>2. lastId \in Int BY <1>0, BoundsAssumption DEF TypeOK
  <2>3. u.id # t.id BY <1>1, <2>1, <2>2
  <2>4. QED BY <1>1, <2>1, <2>3
<1>3. \A q \in Sessions : heap'[q] \subseteq heap[q] \cup {t}
  BY <1>0, <1>1 DEF TypeOK
<1>4. QED BY <1>1, <1>2, <1>3, WorkedKept DEF Lane

\* A retried row is open and queued, and its trigger has left the turn.
LEMMA WorkedBack ==
    ASSUME WorkInv, UNCHANGED dying, GroupsShrink, NEW s \in Sessions,
           NEW t \in turn[s].group \ turn'[s].group, PutBack(s, t)
    PROVE  \A q \in Sessions : Worked(q)'
<1>0. CarrierInv /\ TypeOK /\ t \in Lane(s) BY DEF WorkInv, CarrierInv, Lane
<1>1. PICK u \in Trig :
        /\ u.id = t.id /\ row'[u.id].status = "PENDING"
        /\ heap' = [heap EXCEPT ![s] = @ \cup {u}]
        /\ \A j \in Ids \ {t.id} : row'[j] = row[j]
  BY DEF PutBack
<1>2. ASSUME NEW q \in Sessions, NEW v \in Lane(q), v.id # t.id
      PROVE  row'[v.id].status = row[v.id].status
  BY <1>0, <1>1, <1>2, LaneTypes
<1>3. ASSUME NEW q \in Sessions, NEW v \in turn'[q].group
      PROVE  v \in turn[q].group /\ v.id # t.id
  <2>1. v \in turn[q].group BY DEF GroupsShrink
  <2>2. v.id = t.id => q = s /\ v = t BY <1>0, <2>1, OneOfId DEF Lane
  <2>3. QED BY <2>1, <2>2
<1>4. \A q \in Sessions : heap'[q] \subseteq heap[q] \cup {u}
  BY <1>0, <1>1 DEF TypeOK
<1>5. ASSUME NEW q \in Sessions, NEW v \in heap'[q]
      PROVE  \/ v \in heap[q] /\ row'[v.id].status = row[v.id].status
             \/ row'[v.id].status = "PENDING"
  <2>1. CASE v.id = t.id BY <1>1, <2>1
  <2>2. CASE v.id # t.id
    <3>1. v \in heap[q] BY <1>1, <1>4, <2>2
    <3>2. QED BY <1>2, <2>2, <3>1 DEF Lane
  <2>3. QED BY <2>1, <2>2
<1>6. ASSUME NEW q \in Sessions, NEW v \in turn'[q].group
      PROVE  v \in turn[q].group /\ row'[v.id].status = row[v.id].status
  BY <1>2, <1>3 DEF Lane
<1>7. QED BY <1>5, <1>6, WorkedKept

LEMMA WorkedTurn ==
    ASSUME WorkInv, NEW s \in Sessions,
           \/ Unfence(s) \/ Admit(s)
           \/ TurnReturns(s) \/ TurnRaises(s) \/ TurnUnwinds(s)
    PROVE  \A q \in Sessions : Worked(q)'
<1>0. TypeOK BY DEF WorkInv, CarrierInv
<1>1. row \in Table BY <1>0 DEF TypeOK, Table
<1>2. \E phase : SetPhase(s, phase)
  BY DEF Unfence, Admit, TurnReturns, TurnRaises, TurnUnwinds
<1>3. \A q \in Sessions : turn'[q].group = turn[q].group
  BY <1>0, <1>2, PhaseGroups
<1>4. UNCHANGED dying
  BY DEF Unfence, Admit, TurnReturns, TurnRaises, TurnUnwinds
<1>5. CASE UNCHANGED <<row, heap>> BY <1>3, <1>4, <1>5, WorkedKept
<1>6. CASE Entered(row, s) BY <1>3, <1>4, <1>6, WorkedEnters
<1>7. UNCHANGED <<row, heap>> \/ Entered(row, s)
  BY <1>0, <1>1, LeaveEnters
     DEF Unfence, Admit, TurnReturns, TurnRaises, TurnUnwinds, durable
<1>8. QED BY <1>5, <1>6, <1>7

LEMMA WorkedSettle ==
    ASSUME WorkInv, NEW s \in Sessions, Ack(s) \/ NackOne(s) \/ AckStopped(s)
    PROVE  \A q \in Sessions : Worked(q)'
<1>0. TypeOK BY DEF WorkInv, CarrierInv
<1>1. PICK t \in turn[s].group :
        /\ \/ turn' = [turn EXCEPT ![s] = Settled(@, t)]
           \/ turn' = [turn EXCEPT ![s].group = @ \ {t}]
        /\ \/ UNCHANGED heap /\ row' = SetStatus(row, {t.id}, "DONE")
           \/ Nack(s, t)
  BY DEF Ack, NackOne, AckStopped
<1>2. turn[s] \in Turn /\ t \in Trig BY <1>0 DEF TypeOK, Turn
<1>3. \A q \in Sessions :
        turn'[q].group = IF q = s THEN turn[q].group \ {t} ELSE turn[q].group
  BY <1>0, <1>1, SettleGroups
<1>4. UNCHANGED dying BY DEF Ack, NackOne, AckStopped
<1>5. GroupsShrink BY <1>3, <1>4 DEF GroupsShrink
<1>6. t \in turn[s].group \ turn'[s].group BY <1>3
<1>7. CASE \E st \in {"DONE", "DEAD"} :
             UNCHANGED heap /\ row' = SetStatus(row, {t.id}, st)
  BY <1>4, <1>5, <1>6, <1>7, WorkedOneSettles
<1>8. CASE UNCHANGED <<row, heap>>
  BY <1>4, <1>5, <1>8, WorkedKept DEF GroupsShrink
<1>9. CASE PutBack(s, t) BY <1>4, <1>5, <1>6, <1>9, WorkedBack
<1>10. QED BY <1>0, <1>1, <1>2, <1>7, <1>8, <1>9, NackMoves

LEMMA WorkedStop ==
    ASSUME WorkInv, NEW s \in Sessions,
           \/ RequestStop(s) \/ ClearSession(s) \/ StopTimesOut(s)
           \/ KillDone(s) \/ StopSettles(s) \/ FenceSettles(s)
           \/ ResetContext(s)
    PROVE  \A q \in Sessions : Worked(q)'
<1>0. TypeOK BY DEF WorkInv, CarrierInv
<1>1. CASE StopEffects(s)
  <2>1. UNCHANGED turn \/ \E phase : SetPhase(s, phase)
    BY <1>1 DEF StopEffects
  <2>2. GroupsShrink
    BY <1>0, <1>1, <2>1, PhaseGroups DEF GroupsShrink, StopEffects
  <2>3. QED BY <1>1, <2>2, WorkedDrops DEF StopEffects
<1>2. CASE StopSettles(s)
  <2>1. GroupsShrink
    BY <1>0, <1>2 DEF StopSettles, GroupsShrink, NoTurn, TypeOK
  <2>2. QED BY <1>2, <2>1, WorkedDrops DEF StopSettles
<1>3. CASE UNCHANGED <<row, heap, turn, dying>> BY <1>3, WorkedKept
<1>4. QED
  BY <1>1, <1>2, <1>3
     DEF RequestStop, ClearSession, StopTimesOut, KillDone, FenceSettles,
         ResetContext, lanes, durable

\* The load queues what it has put back to PENDING.
LEMMA WorkedLoad ==
    ASSUME WorkInv, Rehydrate PROVE \A s \in Sessions : Worked(s)'
<1>0. TypeOK /\ UNCHANGED <<turn, dying>>
  BY DEF WorkInv, CarrierInv, Rehydrate
<1>1. \A s \in Sessions : heap[s] = {} /\ turn[s].group = {}
  BY DEF WorkInv, CarrierInv, NothingQueued, TurnsNeedLoops, Rehydrate, TypeOK
<1>2. ASSUME NEW s \in Sessions, NEW t \in heap'[s]
      PROVE  row'[t.id].status = "PENDING"
  <2> DEFINE stale == {i \in Unfinished : now - row[i].fireAt > StaleAge}
  <2>1. PICK i \in Unfinished \ stale :
          t = [id |-> i, fireAt |-> row[i].fireAt,
               copy |-> "rehydrated", carries |-> {i}]
    BY <1>1 DEF Rehydrate
  <2>2. t.id = i /\ i \in Ids BY <2>1 DEF Unfinished
  <2>3. row'[i] = [row[i] EXCEPT !.status = "PENDING"]
    BY <2>2 DEF Rehydrate
  <2>4. row[i] \in Row BY <1>0, <2>2 DEF TypeOK
  <2>5. QED BY <2>2, <2>3, <2>4 DEF Row
<1>3. QED BY <1>0, <1>1, <1>2, WorkedKept

LEMMA WorkedStep ==
    ASSUME Guarded, WorkInv, [Next]_vars PROVE \A s \in Sessions : Worked(s)'
<1>0. TypeOK /\ \A s \in Sessions : dying[s] = NotDying
  BY DEF WorkInv, CarrierInv, Worked
<1>1. CASE UNCHANGED <<row, heap, turn, dying>> BY <1>1, WorkedKept
<1>2. ASSUME NEW s \in Sessions, Progress(s)
      PROVE  \A q \in Sessions : Worked(q)'
  <2>1. ~DyingTurnEnds(s) /\ ~DyingNack(s)
    BY <1>0 DEF DyingTurnEnds, DyingNack, NotDying
  <2>2. CASE FinishDelete(s) BY <1>1, <2>2 DEF FinishDelete, lanes
  <2>3. QED
    BY <1>2, <2>1, <2>2, WorkedClaim, WorkedTurn, WorkedSettle, WorkedStop
       DEF Progress
<1>3. ASSUME NEW s \in Sessions, NEW kind \in Kinds, NEW delay \in Delays,
             Emit(s, kind, delay)
      PROVE  \A q \in Sessions : Worked(q)'
  <2>1. Capped(now + delay) \in Nat
    BY <1>0, BoundsAssumption DEF Capped, TypeOK
  <2>2. row \in Table BY <1>0 DEF TypeOK, Table
  <2>3. Entered(row, s) BY <1>0, <1>3, <2>1, <2>2, EmitEnters DEF Emit
  <2>4. QED BY <1>3, <2>3, WorkedEnters DEF Emit
<1>4. ASSUME NEW s \in Sessions, BeginDelete(s) PROVE FALSE
  BY <1>4 DEF BeginDelete, Guarded
<1>5. CASE ClearStore BY <1>5 DEF ClearStore, Guarded
<1>6. CASE Crash BY <1>6 DEF Crash, Worked, NoTurn
<1>7. CASE Rehydrate BY <1>7, WorkedLoad
<1>8. CASE StartProcess \/ StartLoops \/ Tick \/ UNCHANGED vars
  BY <1>1, <1>8 DEF StartProcess, StartLoops, Tick, lanes, durable, vars
<1>9. QED
  BY <1>2, <1>3, <1>4, <1>5, <1>6, <1>7, <1>8, WorkedStop DEF Next, Boot

LEMMA WorkAlways == ASSUME Guarded PROVE Spec => []WorkInv
<1> DEFINE J == \A s \in Sessions : Worked(s)
<1>0. BootFirst BY DEF Guarded, BootFirst
<1>1. Init => J BY DEF Init, Worked, NoTurn
<1>2. CarrierInv /\ J /\ [Next]_vars => J' BY WorkedStep DEF WorkInv
<1>3. CarrierInv /\ J <=> WorkInv BY DEF WorkInv
<1>4. Spec => []CarrierInv BY <1>0, CarrierAlways
<1> HIDE DEF J
<1>5. QED BY <1>1, <1>2, <1>3, <1>4, PTL DEF Spec

\* What a turn has not settled yet, it has claimed: unless a session is
\* deleted, the table is wiped or producers emit before the load, nothing
\* settles or retries a row behind the back of the turn that runs it.
THEOREM TurnsRunClaimed == ASSUME Guarded PROVE Spec => []RunsOnlyClaimed
<1>1. WorkInv => RunsOnlyClaimed BY DEF WorkInv, Worked, RunsOnlyClaimed
<1>2. QED BY <1>1, WorkAlways, PTL

-----------------------------------------------------------------------------
(* What becomes of a row *)

Stale(i) == proc = "boot" /\ now - row[i].fireAt > StaleAge

\* The life of a row, one step of it.
Moved(i) ==
    LET x == row[i]
        y == row'[i]
    IN  \/ y.status = x.status /\ y.attempts = x.attempts
        \/ x.status = "free" /\ y.status = "PENDING" /\ y.attempts = 0
        \/ /\ x.status = "PENDING" /\ y.status = "CLAIMED"
           /\ y.attempts = x.attempts + 1
        \/ /\ y.attempts = x.attempts
           /\ \/ x.status = "CLAIMED" /\ y.status \in {"PENDING", "DONE"}
              \/ /\ x.status = "PENDING" /\ y.status = "DONE"
                 /\ x.source = Continuation \/ Stale(i)
              \/ /\ x.status = "CLAIMED" /\ y.status = "DEAD"
                 /\ x.attempts >= MaxAttempts
              \/ x.status \in {"DONE", "DEAD"} /\ y.status = "gone"

LEMMA MovedSame ==
    ASSUME UNCHANGED row PROVE \A i \in Ids : Moved(i)
BY DEF Moved

\* A row is settled when it is claimed, or is a dropped continuation.
LEMMA MovedSettles ==
    ASSUME TypeOK, NEW ids, row' = SetStatus(row, ids, "DONE"),
           \A i \in ids \cap Ids :
              \/ row[i].status = "CLAIMED"
              \/ row[i].status = "PENDING" /\ row[i].source = Continuation
    PROVE  \A i \in Ids : Moved(i)
<1> SUFFICES ASSUME NEW i \in Ids PROVE Moved(i) OBVIOUS
<1>1. row \in Table BY DEF TypeOK, Table
<1>2. /\ row'[i].attempts = row[i].attempts
      /\ row'[i].status \in {row[i].status, "DONE"}
      /\ i \notin ids => row'[i] = row[i]
  BY <1>1, SetStatusFacts DEF Status
<1>3. CASE i \in ids BY <1>2, <1>3 DEF Moved
<1>4. CASE i \notin ids BY <1>2, <1>4 DEF Moved
<1>5. QED BY <1>3, <1>4

LEMMA MovedDrops ==
    ASSUME WorkInv, NEW s \in Sessions,
           row' = SetStatus(row, IdsOf(Continuations(s)), "DONE")
    PROVE  \A i \in Ids : Moved(i)
<1>1. TypeOK BY DEF WorkInv, CarrierInv
<1>2. ASSUME NEW i \in IdsOf(Continuations(s))
      PROVE  row[i].status = "PENDING" /\ row[i].source = Continuation
  <2>1. PICK t \in heap[s] : t.id = i /\ row[t.id].source = Continuation
    BY DEF IdsOf, Continuations, Source
  <2>2. QED BY <2>1 DEF WorkInv, Worked
<1>3. QED BY <1>1, <1>2, MovedSettles

LEMMA MovedClaim ==
    ASSUME WorkInv, NEW ids, row' = Claimed(row, ids)
    PROVE  \A i \in Ids : Moved(i)
<1> SUFFICES ASSUME NEW i \in Ids PROVE Moved(i) OBVIOUS
<1> DEFINE x == row[i]
<1>1. x \in Row BY DEF WorkInv, CarrierInv, TypeOK
<1>2. row'[i] = IF i \in ids /\ x.status = "PENDING"
                THEN [x EXCEPT !.status = "CLAIMED", !.attempts = @ + 1] ELSE x
  BY DEF Claimed
<1> HIDE DEF x
<1>3. \/ row'[i] = x
      \/ /\ x.status = "PENDING" /\ row'[i].status = "CLAIMED"
         /\ row'[i].attempts = x.attempts + 1
  BY <1>1, <1>2 DEF Row
<1>4. QED BY <1>3 DEF Moved, x

LEMMA MovedNack ==
    ASSUME WorkInv, NEW s \in Sessions, NEW t \in turn[s].group, Nack(s, t)
    PROVE  \A i \in Ids : Moved(i)
<1>0. TypeOK /\ row[t.id].status = "CLAIMED"
  BY DEF WorkInv, CarrierInv, Worked
<1>1. t \in Trig /\ t.id \in Ids BY <1>0 DEF TypeOK, Turn, Trig
<1>2. CASE Attempts(t.id) >= MaxAttempts /\ row' = SetStatus(row, {t.id}, "DEAD")
  <2>1. row[t.id].attempts >= MaxAttempts BY <1>0, <1>2 DEF Attempts
  <2>2. ASSUME NEW i \in Ids PROVE Moved(i)
    <3>1. row \in Table BY <1>0 DEF TypeOK, Table
    <3>2. /\ row'[i].attempts = row[i].attempts
          /\ row'[i].status \in {row[i].status, "DEAD"}
          /\ i # t.id => row'[i] = row[i]
      BY <1>2, <3>1, SetStatusFacts DEF Status
    <3>3. CASE i = t.id BY <1>0, <2>1, <3>2, <3>3 DEF Moved
    <3>4. CASE i # t.id BY <3>2, <3>4 DEF Moved
    <3>5. QED BY <3>3, <3>4
  <2>3. QED BY <2>2
<1>3. CASE UNCHANGED row BY <1>3, MovedSame
<1>4. CASE PutBack(s, t)
  <2>1. /\ row'[t.id].status = "PENDING"
        /\ row'[t.id].attempts = row[t.id].attempts
        /\ \A i \in Ids \ {t.id} : row'[i] = row[i]
    BY <1>4 DEF PutBack
  <2>2. QED BY <1>0, <2>1 DEF Moved
<1>5. QED BY <1>0, <1>1, <1>2, <1>3, <1>4, NackMoves

LEMMA MovedEnters ==
    ASSUME TypeOK, NEW s \in Sessions, Entered(row, s)
    PROVE  \A i \in Ids : Moved(i)
<1>1. PICK t \in Trig :
        /\ t.id = lastId + 1
        /\ row'[t.id].status = "PENDING" /\ row'[t.id].attempts = 0
        /\ \A j \in Ids \ {t.id} : row'[j] = row[j]
  BY DEF Entered
<1>2. t.id \in Ids /\ lastId \in Int
  BY BoundsAssumption DEF TypeOK, Trig
<1>3. t.id > lastId BY <1>1, <1>2
<1>4. row[t.id].status = "free" BY <1>2, <1>3 DEF TypeOK
<1>5. QED BY <1>1, <1>4 DEF Moved

LEMMA MovedLoad ==
    ASSUME TypeOK, Rehydrate PROVE \A i \in Ids : Moved(i)
<1> SUFFICES ASSUME NEW i \in Ids PROVE Moved(i) OBVIOUS
<1> DEFINE x == row[i]
           y == row'[i]
<1>1. x \in Row BY DEF TypeOK
<1>2. \/ y = x
      \/ Active(i) /\ Stale(i) /\ y = [x EXCEPT !.status = "DONE"]
      \/ Active(i) /\ y = [x EXCEPT !.status = "PENDING"]
      \/ x.status \in {"DONE", "DEAD"} /\ y = [x EXCEPT !.status = "gone"]
  BY DEF Rehydrate, Unfinished, Stale
<1>3. Active(i) <=> x.status \in {"PENDING", "CLAIMED"}
  BY DEF Active, ActiveStatus
<1> HIDE DEF x, y
<1>4. /\ y.attempts = x.attempts
      /\ \/ y.status = x.status
         \/ Active(i) /\ Stale(i) /\ y.status = "DONE"
         \/ Active(i) /\ y.status = "PENDING"
         \/ x.status \in {"DONE", "DEAD"} /\ y.status = "gone"
  BY <1>1, <1>2 DEF Row
<1>5. QED BY <1>3, <1>4 DEF Moved, x, y

LEMMA MovedStep ==
    ASSUME Guarded, WorkInv, [Next]_vars PROVE \A i \in Ids : Moved(i)
<1>0. TypeOK /\ row \in Table /\ \A s \in Sessions : dying[s] = NotDying
  BY DEF WorkInv, CarrierInv, Worked, TypeOK, Table
<1>1. ASSUME NEW s \in Sessions, Progress(s) PROVE \A i \in Ids : Moved(i)
  <2>1. ~DyingTurnEnds(s) /\ ~DyingNack(s)
    BY <1>0 DEF DyingTurnEnds, DyingNack, NotDying
  <2>2. CASE Claim(s)
    <3>1. \E ids : row' = Claimed(row, ids) BY <2>2 DEF Claim
    <3>2. QED BY <3>1, MovedClaim
  <2>3. CASE TurnReturns(s) \/ TurnRaises(s) \/ TurnUnwinds(s)
    <3>1. UNCHANGED row \/ Entered(row, s)
      BY <1>0, <2>3, LeaveEnters DEF TurnReturns, TurnRaises, TurnUnwinds
    <3>2. QED BY <1>0, <3>1, MovedSame, MovedEnters
  <2>4. CASE Ack(s) \/ AckStopped(s)
    <3>1. PICK t \in turn[s].group : row' = SetStatus(row, {t.id}, "DONE")
      BY <2>4 DEF Ack, AckStopped
    <3>2. row[t.id].status = "CLAIMED" BY DEF WorkInv, Worked
    <3>3. QED BY <1>0, <3>1, <3>2, MovedSettles
  <2>5. CASE NackOne(s)
    <3>1. PICK t \in turn[s].group : Nack(s, t) BY <2>5 DEF NackOne
    <3>2. QED BY <3>1, MovedNack
  <2>6. CASE StopSettles(s) BY <2>6, MovedDrops DEF StopSettles
  <2>7. CASE \/ Unfence(s) \/ Admit(s) \/ KillDone(s) \/ FenceSettles(s)
             \/ ResetContext(s) \/ FinishDelete(s)
    BY <2>7, MovedSame
       DEF Unfence, Admit, KillDone, FenceSettles, ResetContext, FinishDelete,
           durable
  <2>8. QED
    BY <1>1, <2>1, <2>2, <2>3, <2>4, <2>5, <2>6, <2>7 DEF Progress
<1>2. ASSUME NEW s \in Sessions, NEW kind \in Kinds, NEW delay \in Delays,
             Emit(s, kind, delay)
      PROVE  \A i \in Ids : Moved(i)
  <2>1. Capped(now + delay) \in Nat
    BY <1>0, BoundsAssumption DEF Capped, TypeOK
  <2>2. Entered(row, s) BY <1>0, <1>2, <2>1, EmitEnters DEF Emit
  <2>3. QED BY <1>0, <2>2, MovedEnters
<1>3. ASSUME NEW s \in Sessions,
             RequestStop(s) \/ ClearSession(s) \/ StopTimesOut(s)
      PROVE  \A i \in Ids : Moved(i)
  <2>1. CASE StopEffects(s) BY <2>1, MovedDrops DEF StopEffects
  <2>2. CASE UNCHANGED row BY <2>2, MovedSame
  <2>3. QED
    BY <1>3, <2>1, <2>2
       DEF RequestStop, ClearSession, StopTimesOut, durable
<1>4. ASSUME NEW s \in Sessions, BeginDelete(s) PROVE FALSE
  BY <1>4 DEF BeginDelete, Guarded
<1>5. CASE ClearStore BY <1>5 DEF ClearStore, Guarded
<1>6. CASE Rehydrate BY <1>0, <1>6, MovedLoad
<1>7. CASE StartProcess \/ StartLoops \/ Crash \/ Tick \/ UNCHANGED vars
  BY <1>7, MovedSame DEF StartProcess, StartLoops, Crash, Tick, durable, vars
<1>8. QED
  BY <1>1, <1>2, <1>3, <1>4, <1>5, <1>6, <1>7 DEF Next, Boot

\* Queued work that is not a run's continuation is dropped only by being
\* stale at boot: never by a stop or a clear, nor by what happens to the turn.
THEOREM QueuedWorkStays == ASSUME Guarded PROVE Spec => QueuedWorkIsKept
<1>1. WorkInv /\ [Next]_vars =>
        [\A i \in Ids :
           /\ row[i].status = "PENDING"
           /\ row'[i].status \notin ActiveStatus
           /\ row[i].source # Continuation
           => \/ row[i].session \in deleting' \ deleting
              \/ proc = "boot" /\ now - row[i].fireAt > StaleAge]_vars
  BY MovedStep DEF Moved, Stale, ActiveStatus
<1>2. QED BY <1>1, WorkAlways, PTL DEF Spec, QueuedWorkIsKept

-----------------------------------------------------------------------------
(* The promise *)

\* A row that was never inserted was never claimed.
Unused == \A i \in Ids : row[i].status = "free" => row[i].attempts = 0

LEMMA UnusedStep ==
    ASSUME Unused, \A i \in Ids : Moved(i) PROVE Unused'
BY DEF Unused, Moved

LEMMA PromiseStep ==
    ASSUME WorkInv, WorkInv', Unused, \A i \in Ids : Moved(i)
    PROVE  Promise!WorkNext
<1> DEFINE work == [i \in Ids |-> WorkOf(row[i].status)]
           tries == [i \in Ids |-> row[i].attempts]
<1>0. TypeOK /\ TypeOK' BY DEF WorkInv, CarrierInv
<1>1. /\ WorkOf("free") = "absent" /\ WorkOf("PENDING") = "waiting"
      /\ WorkOf("CLAIMED") = "leased" /\ WorkOf("DONE") = "settled"
      /\ WorkOf("DEAD") = "parked" /\ WorkOf("gone") = "forgotten"
  BY DEF WorkOf
<1>2. \A st \in Status : WorkOf(st) \in Promise!WorkState
  BY <1>1 DEF Status, Promise!WorkState
<1>3. \A i \in Ids : /\ row[i].status \in Status /\ row'[i].status \in Status
                     /\ row[i].attempts \in Nat /\ row'[i].attempts \in Nat
  BY <1>0 DEF TypeOK, Row
<1>4. work' \in [Ids -> Promise!WorkState] /\ tries' \in [Ids -> Nat]
  BY <1>2, <1>3
<1>5. ASSUME NEW i \in Ids
      PROVE  \/ Promise!Accept(i) \/ Promise!Lease(i) \/ Promise!Return(i)
             \/ Promise!Settle(i) \/ Promise!Park(i) \/ Promise!Forget(i)
             \/ Promise!Stay(i)
  <2>1. /\ work[i] = WorkOf(row[i].status) /\ work'[i] = WorkOf(row'[i].status)
        /\ tries[i] = row[i].attempts /\ tries'[i] = row'[i].attempts
    OBVIOUS
  <2> HIDE DEF work, tries
  <2>2. Moved(i) /\ (row[i].status = "free" => row[i].attempts = 0)
    BY DEF Unused
  <2>3. \/ work[i] = "absent" /\ work'[i] = "waiting" /\ tries'[i] = tries[i]
        \/ work[i] = "waiting" /\ work'[i] = "leased" /\ tries'[i] = tries[i] + 1
        \/ work[i] = "leased" /\ work'[i] = "waiting" /\ tries'[i] = tries[i]
        \/ /\ work[i] \in {"waiting", "leased"} /\ work'[i] = "settled"
           /\ tries'[i] = tries[i]
        \/ /\ work[i] = "leased" /\ work'[i] = "parked"
           /\ tries[i] >= MaxAttempts /\ tries'[i] = tries[i]
        \/ /\ work[i] \in {"settled", "parked"} /\ work'[i] = "forgotten"
           /\ tries'[i] = tries[i]
        \/ work'[i] = work[i] /\ tries'[i] = tries[i]
    BY <1>1, <2>1, <2>2 DEF Moved
  <2>4. QED
    BY <2>3
       DEF Promise!Accept, Promise!Lease, Promise!Return, Promise!Settle,
           Promise!Park, Promise!Forget, Promise!Stay, Promise!Move,
           Promise!Open, Promise!Closed, work, tries
<1>6. QED BY <1>4, <1>5 DEF Promise!WorkNext

\* Unless a session is deleted, the table is wiped or producers emit before
\* the load, the plane implements the abstract specification: what it accepted
\* stays open until it is settled, is parked only after MAX_ATTEMPTS claims,
\* and never opens again.
THEOREM PlaneKeepsPromise == ASSUME Guarded PROVE Spec => KeepsPromise
<1>1. Init => Promise!WorkInit /\ Unused
  BY DEF Init, FreeRow, WorkOf, Unused, Promise!WorkInit
<1>2. WorkInv /\ [Next]_vars => \A i \in Ids : Moved(i) BY MovedStep
<1>3. WorkInv /\ Unused /\ [Next]_vars => Unused' BY <1>2, UnusedStep
<1>4. WorkInv /\ WorkInv' /\ Unused /\ [Next]_vars
        => [Promise!WorkNext]_(Promise!workVars)
  BY <1>2, PromiseStep
<1>5. QED
  BY <1>1, <1>3, <1>4, WorkAlways, PTL
     DEF Spec, KeepsPromise, Promise!WorkSpec

=============================================================================
