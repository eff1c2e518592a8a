--------------------------- MODULE MCTriggerPlane ---------------------------
(* Instances of TriggerPlane small enough for TLC. *)
EXTENDS TriggerPlane

\* A user message or other plain trigger, one with a dedup key, a fix
\* mission, a pressed Continue button, and messages of two telegram contacts.
Plain == <<"other", NoOrigin, NoKey>>
Keyed == <<"other", NoOrigin, "k">>
Fix == <<Exclusive, NoOrigin, NoKey>>
Resume == <<Continuation, NoOrigin, NoKey>>
FromA == <<"other", "A", NoKey>>
FromB == <<"other", "B", NoKey>>

PlainKinds == {Plain}
KeyedKinds == {Plain, Keyed}
PileKinds == {Fix, Resume, FromA, FromB}

Now == {0}
NowOrLater == {0, 1}

MainOnly == {"main"}
TwoSessions == {"main", "chat"}
=============================================================================
