------------------------------ MODULE Findings ------------------------------
(* What is computed from findings without keeping state: the ranks, the fold *)
(* of two reports of one condition, the order and cap of a list, and the     *)
(* comparison of two runs with what is told of it to a person and a SIEM.    *)
(*                                                                           *)
(* A finding is identified by target, port, category and signature; here the *)
(* identity is a value of Ids and a run's findings are a function of it.     *)
(* Scores, references, evidence and texts are carried along by the code and  *)
(* decide nothing modelled here.                                             *)
EXTENDS Integers, FiniteSets

CONSTANTS
    Ids,        \* identities of findings
    Tools,      \* names of the checks that report them
    NoFinding   \* an identity that was not reported

Severities  == {"critical", "high", "medium", "low", "info"}
Confidences == {"confirmed", "likely", "potential"}
Statuses    == {"open", "manual_review", "informational"}

Finding == [sev : Severities, conf : Confidences, tools : (SUBSET Tools) \ {{}},
            status : Statuses]

ASSUME NoFindingAssumption == NoFinding \notin Finding

Reported(fs) == {id \in DOMAIN fs : fs[id] # NoFinding}

SeverityRank(s) ==
    CASE s = "critical" -> 5 [] s = "high" -> 4 [] s = "medium" -> 3
      [] s = "low" -> 2 [] s = "info" -> 1 [] OTHER -> 0

ConfidenceRank(c) ==
    CASE c = "confirmed" -> 3 [] c = "likely" -> 2 [] c = "potential" -> 1
      [] OTHER -> 0

\* Mutant: promoted past the top.
PromotePast(c) == IF c = "potential" THEN "likely" ELSE "certain"

\* One step, and never past confirmed.
Promote(c) == IF c = "potential" THEN "likely" ELSE "confirmed"

Worse(s, t)  == IF SeverityRank(t) > SeverityRank(s) THEN t ELSE s
Surer(c, d)  == IF ConfidenceRank(d) > ConfidenceRank(c) THEN d ELSE c

\* Mutant: a tool that repeats itself corroborates.
MergeRepeated(f, g) ==
    [f EXCEPT !.tools = @ \cup g.tools, !.sev = Worse(@, g.sev),
              !.conf = Promote(Surer(@, g.conf))]

\* Two reports of one condition: the worse severity, the surer confidence and
\* one step more if a tool is new, and a call for review that sticks.
Merge(f, g) ==
    [tools  |-> f.tools \cup g.tools,
     sev    |-> Worse(f.sev, g.sev),
     conf   |-> IF g.tools \subseteq f.tools THEN Surer(f.conf, g.conf)
                ELSE Promote(Surer(f.conf, g.conf)),
     status |-> IF g.status = "manual_review" THEN g.status ELSE f.status]

-----------------------------------------------------------------------------
(* Order and cap of a list                                                   *)

\* Severity, then confidence, then the rest of the identity, which precedes, an
\* order of Ids, stands for.
Before(fs, precedes, i, j) ==
    LET si == SeverityRank(fs[i].sev)     sj == SeverityRank(fs[j].sev)
        ci == ConfidenceRank(fs[i].conf)  cj == ConfidenceRank(fs[j].conf)
    IN \/ si > sj
       \/ si = sj /\ ci > cj
       \/ si = sj /\ ci = cj /\ <<i, j>> \in precedes

\* What a tier shows of a ranked list; a limit of 0 is no limit.
ApplyCap(fs, precedes, limit) ==
    {i \in Reported(fs) : limit <= 0
        \/ Cardinality({j \in Reported(fs) : Before(fs, precedes, j, i)}) < limit}

-----------------------------------------------------------------------------
(* The comparison of two runs                                                *)

\* Where one identity stands, given what either run reported for it.
Change(was, is) ==
    IF was = NoFinding THEN "new"
    ELSE IF is = NoFinding THEN "resolved"
    ELSE IF SeverityRank(is.sev) > SeverityRank(was.sev) THEN "regressed"
    ELSE IF SeverityRank(is.sev) < SeverityRank(was.sev) THEN "improved"
    ELSE "persisting"

\* A first run has no history: what it found is there, not new.
Compare(hasBaseline, base, cur) ==
    IF hasBaseline
    THEN [id \in Reported(base) \cup Reported(cur) |-> Change(base[id], cur[id])]
    ELSE [id \in Reported(cur) |-> "persisting"]

Of(entries, change) == {id \in DOMAIN entries : entries[id] = change}
GotWorse(entries)   == Of(entries, "new") \cup Of(entries, "regressed")
Changed(entries)    == {id \in DOMAIN entries : entries[id] # "persisting"}

\* Mutant: a regression beside a resolved finding is left out.
HeadlineGood(hasBaseline, entries) ==
    LET some(change) == Of(entries, change) # {} IN
    IF ~hasBaseline THEN "first"
    ELSE IF some("new") THEN "new"
    ELSE IF some("resolved") THEN "resolved"
    ELSE IF some("regressed") THEN "regressed" ELSE "no change"

\* The sentence of a notification, as what it claims.
Headline(hasBaseline, entries) ==
    LET some(change) == Of(entries, change) # {} IN
    IF ~hasBaseline THEN "first"
    ELSE IF some("new") THEN IF some("regressed") THEN "new and regressed" ELSE "new"
    ELSE IF some("regressed") THEN "regressed"
    ELSE IF some("resolved")
         THEN IF some("improved") THEN "resolved and improved" ELSE "resolved"
    ELSE IF some("improved") THEN "improved" ELSE "no change"

ShouldSend(rule, hasBaseline, entries) ==
    CASE rule = "never" -> FALSE
      [] rule = "worse" -> GotWorse(entries) # {}
      [] OTHER -> ~hasBaseline \/ Changed(entries) # {}

\* What the SIEM is told of one entry; it has seen nothing before a first run.
Event(hasBaseline, change) ==
    IF ~hasBaseline \/ change \in {"new", "regressed"} THEN "opened"
    ELSE IF change = "resolved" THEN "resolved" ELSE "none"
=============================================================================
