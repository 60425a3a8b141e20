--------------------------- MODULE AuthorisedRuns ---------------------------
(* What saved assessments promise about authorisation, with no store, no     *)
(* clones and no goroutines: people affirm, assessments are deleted for      *)
(* good, and a run begins only on an affirmation that covers it.             *)
EXTENDS Naturals

CONSTANTS Ids, People, Day

VARIABLES
    live,      \* the assessments that exist
    spent,     \* the identifiers ever given to one
    affirmed,  \* every affirmation given: who, for what, when, how many days
    runs       \* every run begun, numbered

avars == <<live, spent, affirmed, runs>>

AInit == live = {} /\ spent = {} /\ affirmed = {} /\ runs = {}

\* a covers a run asked for at `asked` and begun at `begun`.
Covers(a, r) ==
    a.id = r.def /\ a.op = r.op /\ a.at <= r.created /\ r.asked < a.at + a.days * Day

\* One person gives one affirmation for id.
Affirms(id) ==
    \E a \in affirmed' :
        /\ affirmed' = affirmed \cup {a}
        /\ a.id = id /\ a.op \in People

\* A person saves an assessment, affirming it for the first time.
Save(id) ==
    /\ id \in Ids \ spent
    /\ live' = live \cup {id} /\ spent' = spent \cup {id}
    /\ Affirms(id)
    /\ UNCHANGED runs

\* A person renews the authorisation of an assessment that exists.
Affirm(id) ==
    /\ id \in live
    /\ Affirms(id)
    /\ UNCHANGED <<live, spent, runs>>

Remove(id) ==
    /\ id \in live
    /\ live' = live \ {id}
    /\ UNCHANGED <<spent, affirmed, runs>>

\* A run begins.  Its assessment may have been deleted since it was asked for.
Begin(id) ==
    /\ \E r \in runs' :
        /\ runs' = runs \cup {r}
        /\ r.def = id /\ \A q \in runs : q.n < r.n
        /\ \E a \in affirmed : Covers(a, r)
    /\ UNCHANGED <<live, spent, affirmed>>

ANext == \E id \in Ids : Save(id) \/ Affirm(id) \/ Remove(id) \/ Begin(id)

ASpec == AInit /\ [][ANext]_avars
=============================================================================
