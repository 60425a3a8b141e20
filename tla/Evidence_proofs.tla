--------------------------- MODULE Evidence_proofs ---------------------------
(* What Evidence guarantees whatever the checks report, the number of runs,  *)
(* of those under way at once, of sinks and of faults: types, a correlation  *)
(* that neither loses nor invents, and notifications that claim no progress. *)
EXTENDS Evidence, FiniteSetTheorems, WellFoundedInduction, TLAPS

-----------------------------------------------------------------------------
(* The latest of some runs                                                   *)

\* The order of the naturals, as the relation the library's theorem is about.
Less == {p \in Nat \X Nat : p[1] < p[2]}

\* A set of naturals that is not empty has a least element.
LEMMA HasLeast == ASSUME NEW S \in SUBSET Nat, S # {} PROVE \E x \in S : \A y \in S : x <= y
<1>1. IsWellFoundedOn(Less, Nat)
  BY NatLessThanWellFounded DEF OpToRel, Less
<1>2. PICK x \in S : \A y \in S : ~(<<y, x>> \in Less)
  BY <1>1, WFMin
<1>3. ASSUME NEW y \in S PROVE x <= y
  <2>1. <<y, x>> \in Nat \X Nat /\ <<y, x>>[1] = y /\ <<y, x>>[2] = x
    OBVIOUS
  <2> QED BY <1>2, <2>1 DEF Less
<1> QED BY <1>3

\* The latest of a set of runs is the last of them, if there is any.
LEMMA LatestIsOne ==
    ASSUME NEW S \in SUBSET RunIds
    PROVE  IF S = {} THEN Latest(S) = 0
           ELSE Latest(S) \in S /\ \A i \in S : i <= Latest(S)
<1>1. CASE S = {}
  BY <1>1 DEF Latest
<1>2. CASE S # {}
  <2> DEFINE T == {MaxRuns - s : s \in S}
  <2>0. ASSUME NEW s \in S PROVE s \in Nat /\ MaxRuns - s \in Nat /\ MaxRuns - s \in T
    BY BoundAssumption DEF RunIds
  <2>1. T \in SUBSET Nat /\ T # {}
    BY <1>2, <2>0
  <2>2. PICK x \in T : \A y \in T : x <= y
    BY <2>1, HasLeast
  <2>3. PICK j \in S : x = MaxRuns - j
    BY <2>2
  <2> HIDE DEF T
  <2>4. ASSUME NEW i \in S PROVE i <= j
    <3>1. x <= MaxRuns - i /\ i \in Nat /\ j \in Nat
      BY <2>0, <2>2
    <3> QED BY <2>3, <3>1, BoundAssumption
  <2> QED BY <1>2, <2>4 DEF Latest
<1> QED BY <1>1, <1>2

-----------------------------------------------------------------------------
(* The operators of Findings                                                 *)

\* The grades are ranked one to five, and one to three.
LEMMA Ranks ==
    /\ \A s \in Severities : SeverityRank(s) \in 1..5
    /\ \A c \in Confidences : ConfidenceRank(c) \in 1..3
BY DEF Severities, Confidences, SeverityRank, ConfidenceRank

\* Two reports of one condition are folded into the worse severity,
LEMMA WorseOf ==
    ASSUME NEW s \in Severities, NEW t \in Severities
    PROVE  /\ Worse(s, t) \in {s, t}
           /\ SeverityRank(s) <= SeverityRank(Worse(s, t))
           /\ SeverityRank(t) <= SeverityRank(Worse(s, t))
BY Ranks DEF Worse

\* the surer confidence,
LEMMA SurerOf ==
    ASSUME NEW c \in Confidences, NEW d \in Confidences
    PROVE  /\ Surer(c, d) \in {c, d}
           /\ ConfidenceRank(c) <= ConfidenceRank(Surer(c, d))
           /\ ConfidenceRank(d) <= ConfidenceRank(Surer(c, d))
BY Ranks DEF Surer

\* which is raised by one step at most, and never past confirmed.
LEMMA PromoteOf ==
    ASSUME NEW c \in Confidences
    PROVE  /\ Promote(c) \in Confidences
           /\ ConfidenceRank(c) <= ConfidenceRank(Promote(c))
           /\ ConfidenceRank(Promote(c)) <= ConfidenceRank(c) + 1
BY DEF Promote, Confidences, ConfidenceRank

\* A fold of findings is a finding.
LEMMA MergeType ==
    ASSUME NEW f \in Finding, NEW g \in Finding
    PROVE  Merge(f, g) \in Finding
<1>1. /\ f.sev \in Severities /\ g.sev \in Severities
      /\ f.conf \in Confidences /\ g.conf \in Confidences
      /\ f.tools \in (SUBSET Tools) \ {{}} /\ g.tools \in (SUBSET Tools) \ {{}}
      /\ f.status \in Statuses /\ g.status \in Statuses
  BY DEF Finding
<1>2. /\ Worse(f.sev, g.sev) \in Severities
      /\ Surer(f.conf, g.conf) \in Confidences /\ Promote(Surer(f.conf, g.conf)) \in Confidences
  BY <1>1, WorseOf, SurerOf, PromoteOf
<1>3. f.tools \cup g.tools \in (SUBSET Tools) \ {{}}
  BY <1>1
<1> QED BY <1>1, <1>2, <1>3 DEF Merge, Finding

\* What FoldedJustly says of one finding and the reports it was folded from.
Just(f, from) ==
    IF from = {} THEN f = NoFinding
    ELSE /\ f.tools = UNION {g.tools : g \in from}
         /\ f.sev \in {g.sev : g \in from}
         /\ \A g \in from : /\ SeverityRank(g.sev) <= SeverityRank(f.sev)
                            /\ ConfidenceRank(g.conf) <= ConfidenceRank(f.conf)
                            /\ g.status = "manual_review" => f.status = g.status
         /\ \E g \in from : ConfidenceRank(f.conf)
                <= ConfidenceRank(g.conf) + Cardinality(f.tools) - 1

\* The first report stands for itself.
LEMMA FirstIsJust ==
    ASSUME NEW g \in Finding, NEW x, g.tools = {x}
    PROVE  Just(g, {g}) /\ IsFiniteSet(g.tools)
<1>1. IsFiniteSet(g.tools) /\ Cardinality(g.tools) = 1
  BY FS_Singleton
<1>2. SeverityRank(g.sev) \in 1..5 /\ ConfidenceRank(g.conf) \in 1..3
  BY Ranks DEF Finding
<1> QED BY <1>1, <1>2 DEF Just

\* A further report, of one tool, is folded in justly.
LEMMA MergeIsJust ==
    ASSUME NEW f \in Finding, NEW g \in Finding, NEW x, g.tools = {x},
           NEW from \in SUBSET Finding, from # {}, Just(f, from), IsFiniteSet(f.tools)
    PROVE  Just(Merge(f, g), from \cup {g}) /\ IsFiniteSet(Merge(f, g).tools)
<1> DEFINE m == Merge(f, g)
           all == from \cup {g}
<1>1. /\ f.sev \in Severities /\ g.sev \in Severities
      /\ f.conf \in Confidences /\ g.conf \in Confidences /\ f.tools # {}
      /\ \A h \in from : h.sev \in Severities /\ h.conf \in Confidences
  BY DEF Finding
<1>2. /\ f.tools = UNION {h.tools : h \in from}
      /\ f.sev \in {h.sev : h \in from}
      /\ \A h \in from : /\ SeverityRank(h.sev) <= SeverityRank(f.sev)
                         /\ ConfidenceRank(h.conf) <= ConfidenceRank(f.conf)
                         /\ h.status = "manual_review" => f.status = h.status
      /\ \E h \in from : ConfidenceRank(f.conf)
             <= ConfidenceRank(h.conf) + Cardinality(f.tools) - 1
  BY DEF Just
<1>3. /\ m.tools = f.tools \cup {x} /\ m.sev = Worse(f.sev, g.sev)
      /\ m.conf = IF x \in f.tools THEN Surer(f.conf, g.conf)
                  ELSE Promote(Surer(f.conf, g.conf))
      /\ m.status = IF g.status = "manual_review" THEN g.status ELSE f.status
  BY DEF Merge
<1> HIDE DEF m
<1>4. m.tools = UNION {h.tools : h \in all}
  BY <1>2, <1>3
<1>5. /\ m.sev \in {h.sev : h \in all}
      /\ \A h \in all : SeverityRank(h.sev) <= SeverityRank(m.sev)
  <2>1. /\ m.sev \in {f.sev, g.sev} /\ SeverityRank(f.sev) <= SeverityRank(m.sev)
        /\ SeverityRank(g.sev) <= SeverityRank(m.sev) /\ m.sev \in Severities
    BY <1>1, <1>3, WorseOf
  <2>2. ASSUME NEW h \in from PROVE SeverityRank(h.sev) <= SeverityRank(m.sev)
    BY <1>1, <1>2, <2>1, Ranks
  <2> QED BY <1>2, <2>1, <2>2
<1>6. \A h \in all : h.status = "manual_review" => m.status = h.status
  BY <1>2, <1>3
<1>7. /\ Surer(f.conf, g.conf) \in {f.conf, g.conf}
      /\ Surer(f.conf, g.conf) \in Confidences /\ m.conf \in Confidences
      /\ ConfidenceRank(Surer(f.conf, g.conf)) <= ConfidenceRank(m.conf)
      /\ ConfidenceRank(m.conf)
             <= ConfidenceRank(Surer(f.conf, g.conf)) + (IF x \in f.tools THEN 0 ELSE 1)
  <2>1. /\ Surer(f.conf, g.conf) \in {f.conf, g.conf}
        /\ Surer(f.conf, g.conf) \in Confidences
    BY <1>1, SurerOf
  <2> DEFINE c == Surer(f.conf, g.conf)
  <2> HIDE DEF c
  <2>2. /\ Promote(c) \in Confidences /\ ConfidenceRank(c) \in 1..3
        /\ ConfidenceRank(c) <= ConfidenceRank(Promote(c))
        /\ ConfidenceRank(Promote(c)) <= ConfidenceRank(c) + 1
    BY <2>1, PromoteOf, Ranks DEF c
  <2>3. CASE x \in f.tools
    BY <1>3, <2>1, <2>2, <2>3 DEF c
  <2>4. CASE x \notin f.tools
    BY <1>3, <2>1, <2>2, <2>4 DEF c
  <2> QED BY <2>3, <2>4
<1>8. \A h \in all : ConfidenceRank(h.conf) <= ConfidenceRank(m.conf)
  <2>1. /\ ConfidenceRank(f.conf) <= ConfidenceRank(m.conf)
        /\ ConfidenceRank(g.conf) <= ConfidenceRank(m.conf)
    BY <1>1, <1>7, SurerOf, Ranks
  <2>2. ASSUME NEW h \in from PROVE ConfidenceRank(h.conf) <= ConfidenceRank(m.conf)
    BY <1>1, <1>2, <1>7, <2>1, Ranks
  <2> QED BY <2>1, <2>2
<1>9. /\ IsFiniteSet(m.tools) /\ Cardinality(f.tools) \in Nat \ {0}
      /\ Cardinality(m.tools) = Cardinality(f.tools) + (IF x \in f.tools THEN 0 ELSE 1)
  <2>1. Cardinality(f.tools) \in Nat \ {0}
    BY <1>1, FS_CardinalityType, FS_EmptySet
  <2>2. /\ IsFiniteSet(f.tools \cup {x})
        /\ Cardinality(f.tools \cup {x})
               = IF x \in f.tools THEN Cardinality(f.tools) ELSE Cardinality(f.tools) + 1
    BY FS_AddElement
  <2> QED BY <1>3, <2>1, <2>2
<1>10. \E h \in all : ConfidenceRank(m.conf)
             <= ConfidenceRank(h.conf) + Cardinality(m.tools) - 1
  <2>1. CASE Surer(f.conf, g.conf) = g.conf
    <3>1. ConfidenceRank(m.conf) <= ConfidenceRank(g.conf) + Cardinality(m.tools) - 1
      BY <1>1, <1>7, <1>9, <2>1, Ranks
    <3> QED BY <3>1
  <2>2. CASE Surer(f.conf, g.conf) = f.conf
    <3>1. PICK h \in from :
              ConfidenceRank(f.conf) <= ConfidenceRank(h.conf) + Cardinality(f.tools) - 1
      BY <1>2
    <3>2. ConfidenceRank(m.conf) <= ConfidenceRank(h.conf) + Cardinality(m.tools) - 1
      BY <1>1, <1>7, <1>9, <2>2, <3>1, Ranks
    <3> QED BY <3>2
  <2> QED BY <1>7, <2>1, <2>2
<1>11. all # {}
  OBVIOUS
<1> QED BY <1>4, <1>5, <1>6, <1>8, <1>9, <1>10, <1>11 DEF Just, m

-----------------------------------------------------------------------------
(* The inductive invariant                                                   *)

\* A run under way is on record, and not as completed until it has tried to
\* write that; from then on its findings do not change.
OnRecord ==
    \A k \in RunIds :
        /\ run[k].pc # "gone" => k \in DOMAIN jobs
        /\ k \in Completed => run[k].pc \notin {"correlate", "finish"}

\* What a run is compared with stands.
BaselineStands ==
    \A k \in RunIds :
        run[k].pc \in {"export", "notify"} => run[k].base \in {0} \cup Completed

\* So does what a notification speaks of.
NoticeStands ==
    notice # NoNotice => /\ notice.of \in DOMAIN jobs /\ run[notice.of].pc = "gone"
                         /\ notice.base \in {0} \cup Completed

\* Every fold is a just one, and its tools can be counted.
Folded(r) ==
    /\ r.pending \subseteq r.reports
    /\ \A id \in Ids :
        /\ Just(r.found[id], StatedFor(r, id))
        /\ StatedFor(r, id) # {} => r.found[id] \in Finding /\ IsFiniteSet(r.found[id].tools)

Tallied == \A k \in RunIds : run[k].pc # "gone" => Folded(run[k])

Inv == TypeOK /\ OnRecord /\ BaselineStands /\ NoticeStands /\ NoticesHonest /\ Tallied

\* What has been folded so far, as a property of the reports and the findings.
LEMMA TalliedIsJust == Tallied => FoldedJustly
BY DEF Tallied, Folded, FoldedJustly, UnderWay, Just

\* A fresh directory: no run.
LEMMA InvInit == Init => Inv
<1> SUFFICES ASSUME Init PROVE Inv
  OBVIOUS
<1>1. Nothing \in Found /\ Gone \in Run /\ Gone.pc = "gone"
  BY BoundAssumption DEF Nothing, Found, Gone, Run
<1>2. TypeOK
  <2>1. jobs \in Seq(Job) /\ Len(jobs) <= MaxRuns
    BY BoundAssumption DEF Init
  <2>2. stored \in [RunIds -> Found] /\ run \in [RunIds -> Run]
    BY <1>1 DEF Init
  <2> QED BY <2>1, <2>2 DEF Init, TypeOK
<1>3. \A k \in RunIds : run[k].pc = "gone"
  BY <1>1 DEF Init
<1>4. notice = NoNotice /\ notice.headline = "none" /\ DOMAIN jobs = {}
  BY DEF Init, NoNotice
<1>5. Completed = {}
  BY <1>4 DEF Completed
<1>6. NoticeStands /\ NoticesHonest
  BY <1>4 DEF NoticeStands, NoticesHonest
<1>7. OnRecord /\ BaselineStands /\ Tallied
  BY <1>3, <1>5 DEF OnRecord, BaselineStands, Tallied
<1> QED BY <1>2, <1>6, <1>7 DEF Inv

-----------------------------------------------------------------------------
(* Steps                                                                     *)

\* Runs are numbered as they begin.
LEMMA JobsAre ==
    ASSUME Inv
    PROVE  /\ jobs \in Seq(Job) /\ Len(jobs) \in 0..MaxRuns /\ DOMAIN jobs = 1..Len(jobs)
           /\ DOMAIN jobs \subseteq RunIds /\ Completed \subseteq DOMAIN jobs
           /\ \A k \in DOMAIN jobs : jobs[k] \in Job
BY BoundAssumption DEF Inv, TypeOK, RunIds, Completed

\* A run that goes on and leaves the records, the findings and the notice.
LEMMA RunGoesOn ==
    ASSUME Inv, NEW k \in RunIds, NEW r \in Run, Goes(k, r), run[k].pc # "gone",
           r.pc \in {"correlate", "finish"} => run[k].pc \in {"correlate", "finish"},
           r.pc \in {"export", "notify"} => r.base \in {0} \cup Completed,
           r.pc # "gone" => Folded(r),
           UNCHANGED <<jobs, stored, notice>>, faults' \in Nat, overlapped' \in BOOLEAN,
           open' \in [Sinks -> [Ids -> Severities \cup {"closed"}]],
           astray' \in [Sinks -> SUBSET Ids]
    PROVE  Inv'
<1>1. /\ run' \in [RunIds -> Run] /\ run'[k] = r
      /\ \A m \in RunIds : m # k => run'[m] = run[m]
  BY DEF Goes, Inv, TypeOK
<1>2. TypeOK'
  BY <1>1 DEF Inv, TypeOK
<1>3. Completed' = Completed /\ NoticesHonest'
  BY DEF Completed, Inv, NoticesHonest, BaselineFindings
<1>4. OnRecord' /\ BaselineStands'
  BY <1>1, <1>3 DEF Inv, OnRecord, BaselineStands
<1>5. NoticeStands'
  BY <1>1, <1>3, JobsAre DEF Inv, NoticeStands
<1>6. Tallied'
  BY <1>1 DEF Inv, Tallied
<1> QED BY <1>2, <1>3, <1>4, <1>5, <1>6 DEF Inv

\* What is told of a comparison is about findings.
LEMMA TransitionsAre ==
    ASSUME Inv, NEW k \in RunIds, NEW b \in 0..MaxRuns
    PROVE  /\ Transitions(k, b) \in SUBSET Ids
           /\ DOMAIN EntriesOf(k, b) \in SUBSET Ids
<1>1. stored[k] \in Found /\ BaselineFindings(b) \in Found
  BY DEF Inv, TypeOK, BaselineFindings, RunIds, Nothing, Found
<1> QED BY <1>1 DEF Transitions, EntriesOf, Compare, Reported, Found

\* What is new or worse was found.
LEMMA ChangeOf ==
    ASSUME NEW was, NEW is, was # NoFinding \/ is # NoFinding,
           Change(was, is) \in {"new", "regressed"}
    PROVE  is # NoFinding
BY DEF Change

\* A finding that is opened is one the run has.
LEMMA OpenedIsFound ==
    ASSUME Inv, NEW k \in RunIds, NEW b \in 0..MaxRuns, NEW id \in Transitions(k, b),
           Event(b # 0, EntriesOf(k, b)[id]) = "opened"
    PROVE  id \in Ids /\ stored[k][id] \in Finding
<1>1. stored[k] \in Found /\ BaselineFindings(b) \in Found
  BY DEF Inv, TypeOK, BaselineFindings, RunIds, Nothing, Found
<1>2. id \in DOMAIN EntriesOf(k, b) /\ id \in Ids
  BY TransitionsAre DEF Transitions
<1>3. stored[k][id] # NoFinding
  <2>1. CASE b = 0
    BY <1>1, <1>2, <2>1 DEF EntriesOf, Compare, Reported
  <2>2. CASE b # 0
    <3>1. EntriesOf(k, b)[id] = Change(BaselineFindings(b)[id], stored[k][id])
          /\ (BaselineFindings(b)[id] # NoFinding \/ stored[k][id] # NoFinding)
      BY <1>1, <1>2, <2>2 DEF EntriesOf, Compare, Reported
    <3>2. EntriesOf(k, b)[id] \in {"new", "regressed"}
      BY <2>2 DEF Event
    <3> QED BY <3>1, <3>2, ChangeOf
  <2> QED BY <2>1, <2>2
<1> QED BY <1>1, <1>2, <1>3 DEF Found

\* What a receiver holds stays of its type.
LEMMA ToldType ==
    ASSUME Inv, NEW s \in Sinks, NEW k \in RunIds, NEW b \in 0..MaxRuns
    PROVE  Told(s, k, b) \in [Ids -> Severities \cup {"closed"}]
<1>1. ASSUME NEW id \in Ids, id \in Transitions(k, b),
             Event(b # 0, EntriesOf(k, b)[id]) = "opened"
      PROVE  stored[k][id].sev \in Severities
  BY <1>1, OpenedIsFound DEF Finding
<1>2. open[s] \in [Ids -> Severities \cup {"closed"}]
  BY DEF Inv, TypeOK
<1> QED BY <1>1, <1>2 DEF Told

\* A run's goroutine that leaves its reports and findings alone still has them.
LEMMA SameFold ==
    ASSUME NEW r, NEW q, Folded(r), q.reports = r.reports, q.pending = r.pending,
           q.found = r.found
    PROVE  Folded(q)
BY DEF Folded, StatedFor

\* A step of the process, with what every step leaves in place.
LEMMA Stands ==
    ASSUME Inv, Completed \subseteq Completed', DOMAIN jobs \subseteq DOMAIN jobs',
           \A m \in DOMAIN jobs : run[m].pc = "gone" => run'[m].pc = "gone",
           \A m \in RunIds : run'[m].pc \in {"export", "notify"} =>
               run[m].pc \in {"export", "notify"} /\ run'[m].base = run[m].base,
           UNCHANGED notice,
           \A m \in Completed : stored'[m] = stored[m],
           notice # NoNotice => stored'[notice.of] = stored[notice.of]
    PROVE  BaselineStands' /\ NoticeStands' /\ NoticesHonest'
<1>1. BaselineStands' /\ NoticeStands'
  BY DEF Inv, BaselineStands, NoticeStands
<1>2. NoticesHonest'
  <2>1. CASE notice = NoNotice
    BY <2>1 DEF NoticesHonest, NoNotice
  <2>2. CASE notice # NoNotice
    <3>1. BaselineFindings(notice.base)' = BaselineFindings(notice.base)
      BY <2>2 DEF Inv, NoticeStands, BaselineFindings
    <3> QED BY <2>2, <3>1 DEF Inv, NoticesHonest
  <2> QED BY <2>1, <2>2
<1> QED BY <1>1, <1>2

\* A run that begins has found nothing, and nobody knows of it.
LEMMA BeginInv == Inv /\ Begin => Inv'
<1> SUFFICES ASSUME Inv, Begin PROVE Inv'
  OBVIOUS
<1> DEFINE k == Len(jobs) + 1
           j == [state |-> "running", base |-> 0]
<1>1. PICK reports \in SUBSET Reports :
          Goes(k, [Gone EXCEPT !.pc = "correlate", !.reports = reports, !.pending = reports])
  BY DEF Begin
<1> DEFINE r == [Gone EXCEPT !.pc = "correlate", !.reports = reports, !.pending = reports]
<1>2. /\ jobs' = Append(jobs, j) /\ Len(jobs) < MaxRuns
      /\ UNCHANGED <<stored, open, notice, faults, astray>>
      /\ overlapped' \in BOOLEAN
  BY DEF Begin, Inv, TypeOK
<1>3. j \in Job /\ j.state = "running"
  BY BoundAssumption DEF Job
<1> HIDE DEF j
<1>4. /\ k \in RunIds /\ k \notin DOMAIN jobs /\ jobs' \in Seq(Job) /\ Len(jobs') = k
      /\ DOMAIN jobs' = DOMAIN jobs \cup {k} /\ jobs'[k] = j
      /\ \A m \in DOMAIN jobs : jobs'[m] = jobs[m]
  BY <1>2, <1>3, JobsAre, BoundAssumption DEF RunIds
<1>5. Nothing \in Found /\ \A id \in Ids : Nothing[id] = NoFinding
  BY DEF Nothing, Found
<1>6. /\ r \in Run /\ r.pc = "correlate" /\ r.reports = reports /\ r.pending = reports
      /\ r.found = Nothing
  <2>1. Gone \in Run /\ Gone.found = Nothing
    BY <1>5, BoundAssumption DEF Gone, Run
  <2>2. reports \in SUBSET Reports
    BY <1>1
  <2> QED BY <2>1, <2>2 DEF Run
<1> HIDE DEF r
<1>7. Folded(r)
  BY <1>5, <1>6 DEF Folded, StatedFor, Just
<1>8. /\ run' \in [RunIds -> Run] /\ run'[k] = r
      /\ \A m \in RunIds : m # k => run'[m] = run[m]
  BY <1>1, <1>4, <1>6 DEF Goes, Inv, TypeOK, r
<1>9. run[k].pc = "gone"
  BY <1>4 DEF Inv, OnRecord
<1>10. Completed' = Completed
  BY <1>3, <1>4 DEF Completed
<1>11. TypeOK'
  BY <1>2, <1>4, <1>8, BoundAssumption DEF Inv, TypeOK, RunIds
<1>12. OnRecord'
  BY <1>4, <1>8, <1>10, JobsAre DEF Inv, OnRecord
<1>13. BaselineStands' /\ NoticeStands' /\ NoticesHonest'
  BY <1>2, <1>4, <1>6, <1>8, <1>10, JobsAre, Stands
<1>14. Tallied'
  BY <1>7, <1>8 DEF Inv, Tallied
<1> QED BY <1>11, <1>12, <1>13, <1>14 DEF Inv

\* One report is folded in.
LEMMA CorrelateInv == ASSUME Inv, NEW k \in RunIds, Correlate(k) PROVE Inv'
<1> DEFINE r == run[k]
<1>1. PICK p \in r.pending :
        Goes(k, [r EXCEPT !.pending = @ \ {p}, !.found[p.id] =
                     IF r.found[p.id] = NoFinding THEN p.finding
                     ELSE Merge(r.found[p.id], p.finding)])
  BY DEF Correlate
<1> DEFINE g == p.finding
           f == IF r.found[p.id] = NoFinding THEN g ELSE Merge(r.found[p.id], g)
           q == [r EXCEPT !.pending = @ \ {p}, !.found[p.id] = f]
<1>2. /\ r \in Run /\ r.pc = "correlate" /\ Folded(r) /\ r.found \in Found
      /\ r.pending \subseteq r.reports
      /\ UNCHANGED <<jobs, stored, open, notice, faults, astray, overlapped>>
  BY DEF Correlate, Inv, TypeOK, Tallied, Run, Folded
<1>3. p.id \in Ids /\ g \in Finding /\ \E x \in Tools : g.tools = {x}
  BY <1>2, ReportAssumption DEF Run, Report
<1>4. Goes(k, q)
  BY <1>1, Zenon
<1> DEFINE from == StatedFor(r, p.id)
<1>5. from \in SUBSET Finding
  BY <1>2, ReportAssumption DEF StatedFor, Run, Report
<1>6. /\ from = {} => r.found[p.id] = NoFinding
      /\ from # {} => /\ r.found[p.id] \in Finding /\ IsFiniteSet(r.found[p.id].tools)
                      /\ Just(r.found[p.id], from)
  BY <1>2, <1>3 DEF Folded, Just
<1>7. f \in Finding /\ IsFiniteSet(f.tools) /\ Just(f, from \cup {g})
  <2>1. CASE from = {}
    <3>1. f = g /\ from \cup {g} = {g}
      BY <1>6, <2>1
    <3> QED BY <1>3, <3>1, FirstIsJust
  <2>2. CASE from # {}
    <3> DEFINE h == r.found[p.id]
    <3>1. f = Merge(h, g)
      BY <1>6, <2>2, NoFindingAssumption
    <3>2. h \in Finding /\ IsFiniteSet(h.tools) /\ Just(h, from)
      BY <1>6, <2>2
    <3>3. PICK x \in Tools : g.tools = {x}
      BY <1>3
    <3> HIDE DEF f, h, from, g
    <3>4. Just(Merge(h, g), from \cup {g}) /\ IsFiniteSet(Merge(h, g).tools)
      BY <1>3, <1>5, <2>2, <3>2, <3>3, MergeIsJust
    <3>5. Merge(h, g) \in Finding
      BY <1>3, <3>2, MergeType
    <3> QED BY <3>1, <3>4, <3>5
  <2> QED BY <2>1, <2>2
<1> HIDE DEF f
<1>8. /\ q \in Run /\ q.pc = "correlate" /\ q.reports = r.reports /\ q.pending = r.pending \ {p}
      /\ q.found[p.id] = f /\ \A id \in Ids : id # p.id => q.found[id] = r.found[id]
  <2>1. [r.found EXCEPT ![p.id] = f] \in Found
    BY <1>2, <1>7 DEF Found
  <2> QED BY <1>2, <1>3, <2>1 DEF Run, Found
<1> HIDE DEF q
<1>9. /\ StatedFor(q, p.id) = from \cup {g}
      /\ \A id \in Ids : id # p.id => StatedFor(q, id) = StatedFor(r, id)
  BY <1>2, <1>8 DEF StatedFor
<1>10. Folded(q)
  <2>1. ASSUME NEW id \in Ids
        PROVE  /\ Just(q.found[id], StatedFor(q, id))
               /\ StatedFor(q, id) # {} =>
                      q.found[id] \in Finding /\ IsFiniteSet(q.found[id].tools)
    <3>1. CASE id = p.id
      BY <1>7, <1>8, <1>9, <3>1
    <3>2. CASE id # p.id
      BY <1>2, <1>8, <1>9, <3>2 DEF Folded
    <3> QED BY <3>1, <3>2
  <2> QED BY <1>2, <1>8, <2>1 DEF Folded
<1> QED BY <1>2, <1>4, <1>8, <1>10, RunGoesOn DEF Inv, TypeOK

\* The findings of a run are stored while nobody compares with them.
LEMMA StoreInv == ASSUME Inv, NEW k \in RunIds, StoreFindings(k) PROVE Inv'
<1> DEFINE r == run[k]
           q(state) == [r EXCEPT !.pc = "finish", !.state = state]
<1>1. PICK state \in {"completed", "failed"} : Goes(k, q(state))
  BY DEF StoreFindings
<1>2. /\ r.pc = "correlate" /\ r \in Run /\ Folded(r)
      /\ stored' = [stored EXCEPT ![k] = r.found] \/ stored' = stored
      /\ faults' \in Nat /\ UNCHANGED <<jobs, open, notice, astray, overlapped>>
  BY DEF StoreFindings, Fault, Inv, TypeOK, Tallied
<1> DEFINE t == q(state)
<1>3. /\ t \in Run /\ t.pc = "finish" /\ t.reports = r.reports /\ t.pending = r.pending
      /\ t.found = r.found
  BY <1>2 DEF Run
<1>4. Goes(k, t)
  BY <1>1
<1> HIDE DEF t, q
<1>5. /\ run' \in [RunIds -> Run] /\ run'[k] = t
      /\ \A m \in RunIds : m # k => run'[m] = run[m]
  BY <1>3, <1>4 DEF Goes, Inv, TypeOK
<1>6. /\ stored' \in [RunIds -> Found]
      /\ \A m \in RunIds : m # k => stored'[m] = stored[m]
  BY <1>2 DEF Inv, TypeOK, Run
<1>7. Completed' = Completed /\ k \notin Completed /\ k \in DOMAIN jobs
  BY <1>2 DEF Completed, Inv, OnRecord
<1>8. TypeOK'
  BY <1>2, <1>5, <1>6 DEF Inv, TypeOK
<1>9. OnRecord'
  BY <1>2, <1>3, <1>5, <1>7 DEF Inv, OnRecord
<1>10. notice # NoNotice => notice.of \in RunIds /\ notice.of # k
  BY <1>2, JobsAre DEF Inv, NoticeStands
<1>11. BaselineStands' /\ NoticeStands' /\ NoticesHonest'
  BY <1>2, <1>3, <1>5, <1>6, <1>7, <1>10, JobsAre, Stands
<1>12. Tallied'
  BY <1>2, <1>3, <1>5, SameFold DEF Inv, Tallied
<1> QED BY <1>8, <1>9, <1>11, <1>12 DEF Inv

\* A step that writes the record of a run which has gone past its scan: no
\* completed run is lost, and nothing is written but the record.
LEMMA RecordWritten ==
    ASSUME Inv, NEW k \in RunIds, NEW j \in Job, NEW r \in Run,
           run[k].pc \in {"finish", "export"},
           jobs' = [jobs EXCEPT ![k] = j] \/ jobs' = jobs, Goes(k, r),
           k \in Completed => j.state = "completed",
           r.pc \in {"gone", "compare", "notify"},
           r.pc = "notify" => run[k].pc = "export" /\ r.base = run[k].base,
           r.pc # "gone" => Folded(r),
           UNCHANGED <<stored, open, notice, astray, overlapped>>, faults' \in Nat
    PROVE  Inv'
<1>1. /\ run' \in [RunIds -> Run] /\ run'[k] = r
      /\ \A m \in RunIds : m # k => run'[m] = run[m]
  BY DEF Goes, Inv, TypeOK
<1>2. k \in DOMAIN jobs
  BY DEF Inv, OnRecord
<1>3. /\ jobs' \in Seq(Job) /\ Len(jobs') = Len(jobs) /\ DOMAIN jobs' = DOMAIN jobs
      /\ \A m \in DOMAIN jobs : m # k => jobs'[m] = jobs[m]
      /\ jobs'[k] = j \/ jobs'[k] = jobs[k]
  BY <1>2, JobsAre
<1>4. /\ Completed \subseteq Completed'
      /\ \A m \in Completed' : m = k \/ m \in Completed
  BY <1>2, <1>3 DEF Completed
<1>5. TypeOK'
  BY <1>1, <1>3 DEF Inv, TypeOK
<1>6. OnRecord'
  BY <1>1, <1>3, <1>4 DEF Inv, OnRecord
<1>7. notice # NoNotice => notice.of \in RunIds
  BY JobsAre DEF Inv, NoticeStands
<1>8. BaselineStands' /\ NoticeStands' /\ NoticesHonest'
  BY <1>1, <1>3, <1>4, <1>7, JobsAre, Stands
<1>9. Tallied'
  BY <1>1 DEF Inv, Tallied
<1> QED BY <1>5, <1>6, <1>8, <1>9 DEF Inv

\* The outcome of a run is written, or not.
LEMMA FinishInv == ASSUME Inv, NEW k \in RunIds, Finish(k) PROVE Inv'
<1> DEFINE r == run[k]
           j == [jobs[k] EXCEPT !.state = r.state]
<1>1. /\ r.pc = "finish" /\ r \in Run /\ Folded(r) /\ k \in DOMAIN jobs /\ k \notin Completed
      /\ UNCHANGED <<stored, open, notice, astray, overlapped>>
  BY DEF Finish, Inv, TypeOK, Tallied, OnRecord
<1>2. PICK ok \in BOOLEAN :
          /\ IF ok THEN jobs' = [jobs EXCEPT ![k].state = r.state] /\ UNCHANGED faults
             ELSE Fault /\ UNCHANGED jobs
          /\ Goes(k, IF r.state = "completed" THEN [r EXCEPT !.pc = "compare", !.recorded = ok]
                     ELSE Gone)
  BY DEF Finish
<1> DEFINE t == IF r.state = "completed" THEN [r EXCEPT !.pc = "compare", !.recorded = ok]
                ELSE Gone
<1>3. Gone \in Run /\ Gone.pc = "gone"
  BY BoundAssumption DEF Gone, Run, Nothing, Found
<1>4. j \in Job /\ j.state = r.state
  BY <1>1, JobsAre DEF Job, Run
<1>5. faults' \in Nat /\ (jobs' = [jobs EXCEPT ![k] = j] \/ jobs' = jobs)
  BY <1>2 DEF Fault, Inv, TypeOK
<1>6. /\ t \in Run /\ t.pc \in {"compare", "gone"}
      /\ t.pc # "gone" => t.reports = r.reports /\ t.pending = r.pending /\ t.found = r.found
  BY <1>1, <1>3 DEF Run
<1>7. t.pc # "gone" => Folded(t)
  BY <1>1, <1>6, SameFold
<1>8. Goes(k, t)
  BY <1>2
<1> HIDE DEF t, j
<1> QED BY <1>1, <1>4, <1>5, <1>6, <1>7, <1>8, RecordWritten

\* The baseline is a completed run, or there is none.
LEMMA CompareInv == ASSUME Inv, NEW k \in RunIds, CompareRun(k) PROVE Inv'
<1> DEFINE r == run[k]
           b == LastCompleted(k)
           to == IF Transitions(k, b) = {} THEN {} ELSE Sinks
           q == [r EXCEPT !.base = b, !.to = to, !.pc = "export"]
<1>1. /\ r.pc = "compare" /\ r \in Run /\ Folded(r) /\ Goes(k, q)
      /\ UNCHANGED <<jobs, stored, open, notice, faults, astray, overlapped>>
  BY DEF CompareRun, Inv, TypeOK, Tallied
<1>2. b \in {0} \cup Completed
  <2>1. Completed \ {k} \in SUBSET RunIds
    BY JobsAre
  <2> QED BY <2>1, LatestIsOne DEF LastCompleted
<1>3. b \in 0..MaxRuns
  BY <1>2, JobsAre, BoundAssumption DEF RunIds
<1>4. to \in SUBSET Sinks
  OBVIOUS
<1> HIDE DEF b, to
<1>5. /\ q \in Run /\ q.pc = "export" /\ q.base = b /\ q.reports = r.reports
      /\ q.pending = r.pending /\ q.found = r.found
  BY <1>1, <1>3, <1>4 DEF Run
<1> HIDE DEF q
<1>6. Folded(q)
  BY <1>1, <1>5, SameFold
<1> QED BY <1>1, <1>2, <1>5, <1>6, RunGoesOn DEF Inv, TypeOK

\* A sink is told of findings by their severity, or misses them.
LEMMA SendInv == ASSUME Inv, NEW k \in RunIds, Send(k) PROVE Inv'
<1> DEFINE r == run[k]
<1>1. /\ r.pc = "export" /\ r \in Run /\ Folded(r)
      /\ UNCHANGED <<jobs, stored, notice, overlapped>>
  BY DEF Send, Inv, TypeOK, Tallied
<1>2. PICK s \in r.to, arrives \in BOOLEAN :
        /\ IF arrives THEN open' = [open EXCEPT ![s] = Told(s, k, r.base)] /\ UNCHANGED faults
           ELSE Fault /\ UNCHANGED open
        /\ Goes(k, [r EXCEPT !.to = @ \ {s}])
        /\ astray' = [astray EXCEPT ![s] =
               IF arrives /\ r.recorded THEN @ \ Transitions(k, r.base)
               ELSE @ \cup Transitions(k, r.base)]
  BY DEF Send
<1>3. /\ s \in Sinks /\ r.base \in 0..MaxRuns /\ r.base \in {0} \cup Completed
  BY <1>1, <1>2 DEF Run, Inv, BaselineStands
<1>4. /\ Told(s, k, r.base) \in [Ids -> Severities \cup {"closed"}]
      /\ Transitions(k, r.base) \in SUBSET Ids
  BY <1>3, ToldType, TransitionsAre
<1>5. faults' \in Nat /\ open' \in [Sinks -> [Ids -> Severities \cup {"closed"}]]
  <2> DEFINE told == Told(s, k, r.base)
  <2>1. told \in [Ids -> Severities \cup {"closed"}]
    BY <1>4
  <2>2. open' = [open EXCEPT ![s] = told] \/ open' = open
    BY <1>2
  <2>3. faults' \in Nat
    BY <1>2 DEF Fault, Inv, TypeOK
  <2> HIDE DEF told
  <2> QED BY <2>1, <2>2, <2>3 DEF Inv, TypeOK
<1>6. astray' \in [Sinks -> SUBSET Ids]
  BY <1>2, <1>3, <1>4 DEF Inv, TypeOK
<1> DEFINE q == [r EXCEPT !.to = @ \ {s}]
<1>7. /\ q \in Run /\ q.pc = "export" /\ q.base = r.base /\ q.reports = r.reports
      /\ q.pending = r.pending /\ q.found = r.found
  BY <1>1 DEF Run
<1>8. Goes(k, q)
  BY <1>2
<1> HIDE DEF q
<1>9. Folded(q)
  BY <1>1, <1>7, SameFold
<1> QED BY <1>1, <1>3, <1>5, <1>6, <1>7, <1>8, <1>9, RunGoesOn DEF Inv, TypeOK

\* Noting the baseline says of the run that it completed.
LEMMA NoteInv == ASSUME Inv, NEW k \in RunIds, NoteBaseline(k) PROVE Inv'
<1> DEFINE r == run[k]
           j == [state |-> "completed", base |-> r.base]
           q == [r EXCEPT !.pc = "notify"]
<1>1. /\ r.pc = "export" /\ r \in Run /\ Folded(r) /\ Goes(k, q)
      /\ UNCHANGED <<stored, open, notice, astray, overlapped>>
      /\ jobs' = [jobs EXCEPT ![k] = j] \/ jobs' = jobs
      /\ faults' \in Nat
  BY DEF NoteBaseline, Fault, Inv, TypeOK, Tallied
<1>2. j \in Job /\ j.state = "completed"
  BY <1>1 DEF Job, Run
<1>3. /\ q \in Run /\ q.pc = "notify" /\ q.base = r.base /\ q.reports = r.reports
      /\ q.pending = r.pending /\ q.found = r.found
  BY <1>1 DEF Run
<1> HIDE DEF q, j
<1>4. Folded(q)
  BY <1>1, <1>3, SameFold
<1> QED BY <1>1, <1>2, <1>3, <1>4, RecordWritten

\* The comparison with b gets a headline that reports no news.
Silent(b, entries) ==
    Headline(b # 0, entries)
        \in {"resolved and improved", "resolved", "improved", "no change"}

\* A headline that reports no news is one of a comparison without any.
LEMMA NoNews ==
    ASSUME NEW b, NEW entries, Silent(b, entries)
    PROVE  b # 0 /\ \A id \in DOMAIN entries : entries[id] \notin {"new", "regressed"}
<1>1. b # 0 /\ Of(entries, "new") = {} /\ Of(entries, "regressed") = {}
  BY DEF Silent, Headline
<1> QED BY <1>1 DEF Of

\* A comparison without news is of findings that were there and are no worse.
LEMMA NotWorse ==
    ASSUME Inv, NEW k \in RunIds, NEW b \in 1..MaxRuns,
           \A id \in DOMAIN EntriesOf(k, b) : EntriesOf(k, b)[id] \notin {"new", "regressed"},
           NEW id \in Reported(stored[k])
    PROVE  /\ BaselineFindings(b)[id] # NoFinding
           /\ SeverityRank(stored[k][id].sev) <= SeverityRank(BaselineFindings(b)[id].sev)
<1> DEFINE was == BaselineFindings(b)
           is == stored[k]
<1>1. was \in Found /\ is \in Found
  BY DEF Inv, TypeOK, BaselineFindings, RunIds
<1>2. b # 0
  BY BoundAssumption
<1> HIDE DEF was, is
<1>3. id \in Ids /\ is[id] # NoFinding /\ id \in DOMAIN EntriesOf(k, b)
      /\ EntriesOf(k, b)[id] = Change(was[id], is[id])
  BY <1>1, <1>2 DEF EntriesOf, Compare, Reported, Found, was, is
<1>4. Change(was[id], is[id]) \notin {"new", "regressed"}
  BY <1>3
<1>5. was[id] # NoFinding /\ ~(SeverityRank(is[id].sev) > SeverityRank(was[id].sev))
  BY <1>3, <1>4 DEF Change
<1>6. is[id] \in Finding /\ was[id] \in Finding
  BY <1>1, <1>3, <1>5 DEF Found
<1>7. SeverityRank(is[id].sev) \in 1..5 /\ SeverityRank(was[id].sev) \in 1..5
  BY <1>6, Ranks DEF Finding
<1> QED BY <1>5, <1>7 DEF was, is

\* So a headline that reports no news is of such findings.
LEMMA NothingWorse ==
    ASSUME Inv, NEW k \in RunIds, NEW b \in 0..MaxRuns, Silent(b, EntriesOf(k, b))
    PROVE  \A id \in Reported(stored[k]) :
               /\ BaselineFindings(b)[id] # NoFinding
               /\ SeverityRank(stored[k][id].sev) <= SeverityRank(BaselineFindings(b)[id].sev)
<1>1. b # 0 /\ \A i \in DOMAIN EntriesOf(k, b) :
                  EntriesOf(k, b)[i] \notin {"new", "regressed"}
  BY NoNews
<1>2. b \in 1..MaxRuns
  BY <1>1, BoundAssumption
<1> QED BY <1>1, <1>2, NotWorse

\* A notification claims of a run what the comparison it was given says.
LEMMA NotifyInv == ASSUME Inv, NEW k \in RunIds, Notify(k) PROVE Inv'
<1> DEFINE r == run[k]
           entries == EntriesOf(k, r.base)
           n == [of |-> k, base |-> r.base, headline |-> Headline(r.base # 0, entries)]
<1>1. /\ r.pc = "notify" /\ Goes(k, Gone) /\ notice' \in {n, notice}
      /\ UNCHANGED <<jobs, stored, open, faults, astray, overlapped>>
  BY DEF Notify
<1>2. /\ r.base \in {0} \cup Completed /\ k \in DOMAIN jobs /\ r.base \in 0..MaxRuns
  BY <1>1 DEF Inv, BaselineStands, OnRecord, TypeOK, Run
<1>3. Gone \in Run /\ Gone.pc = "gone"
  BY BoundAssumption DEF Gone, Run, Nothing, Found
<1>4. /\ run' \in [RunIds -> Run] /\ run'[k] = Gone
      /\ \A m \in RunIds : m # k => run'[m] = run[m]
  BY <1>1, <1>3 DEF Goes, Inv, TypeOK
<1>5. n \in Notice
  <2> DEFINE h == Headline(r.base # 0, entries)
  <2>1. h \in {"first", "new and regressed", "new", "regressed",
               "resolved and improved", "resolved", "improved", "no change"}
    BY DEF Headline
  <2>2. n = [of |-> k, base |-> r.base, headline |-> h]
    OBVIOUS
  <2> HIDE DEF h, n
  <2> QED BY <1>2, <2>1, <2>2 DEF Notice
<1>6. Silent(r.base, entries) =>
        \A id \in Reported(stored[k]) :
            /\ BaselineFindings(r.base)[id] # NoFinding
            /\ SeverityRank(stored[k][id].sev)
                   <= SeverityRank(BaselineFindings(r.base)[id].sev)
  BY <1>2, NothingWorse
<1>7. /\ n.of = k /\ n.base = r.base
      /\ n.headline \in {"resolved and improved", "resolved", "improved", "no change"} =>
             Silent(r.base, entries)
  BY DEF Silent
<1> HIDE DEF n, entries
<1>8. Completed' = Completed
  BY <1>1 DEF Completed
<1>9. TypeOK'
  BY <1>1, <1>4, <1>5 DEF Inv, TypeOK
<1>10. OnRecord' /\ BaselineStands' /\ Tallied'
  BY <1>1, <1>3, <1>4, <1>8 DEF Inv, OnRecord, BaselineStands, Tallied
<1>11. NoticeStands'
  <2>1. CASE notice' = n
    BY <1>1, <1>2, <1>3, <1>4, <1>7, <1>8, <2>1 DEF NoticeStands
  <2>2. CASE notice' = notice
    BY <1>1, <1>3, <1>4, <1>8, <2>2, JobsAre DEF Inv, NoticeStands
  <2> QED BY <1>1, <2>1, <2>2
<1>12. NoticesHonest'
  <2>1. CASE notice' = n
    BY <1>1, <1>6, <1>7, <2>1 DEF NoticesHonest, BaselineFindings
  <2>2. CASE notice' = notice
    BY <1>1, <2>2 DEF Inv, NoticesHonest, BaselineFindings
  <2> QED BY <1>1, <2>1, <2>2
<1> QED BY <1>9, <1>10, <1>11, <1>12 DEF Inv

\* After a stop no run is under way; what is stored stays.
LEMMA StopInv == Inv /\ Stop => Inv'
<1> SUFFICES ASSUME Inv, Stop PROVE Inv'
  OBVIOUS
<1>1. /\ run' = [k \in RunIds |-> Gone] /\ faults' \in Nat
      /\ astray' = [s \in Sinks |-> astray[s] \cup UNION {Unsent(s, k) : k \in RunIds}]
      /\ UNCHANGED <<jobs, stored, open, notice, overlapped>>
  BY DEF Stop, Fault, Inv, TypeOK
<1>2. Gone \in Run /\ Gone.pc = "gone"
  BY BoundAssumption DEF Gone, Run, Nothing, Found
<1>3. run' \in [RunIds -> Run] /\ \A k \in RunIds : run'[k].pc = "gone"
  BY <1>1, <1>2
<1>4. ASSUME NEW s \in Sinks, NEW k \in RunIds PROVE Unsent(s, k) \in SUBSET Ids
  <2>1. run[k].base \in 0..MaxRuns
    BY DEF Inv, TypeOK, Run
  <2>2. LastCompleted(k) \in 0..MaxRuns
    <3>1. Completed \ {k} \in SUBSET RunIds
      BY JobsAre
    <3> QED BY <3>1, LatestIsOne, BoundAssumption DEF LastCompleted, RunIds
  <2>3. Transitions(k, run[k].base) \in SUBSET Ids
        /\ Transitions(k, LastCompleted(k)) \in SUBSET Ids
    BY <2>1, <2>2, TransitionsAre
  <2> QED BY <2>3 DEF Unsent
<1>5. astray' \in [Sinks -> SUBSET Ids]
  <2>1. ASSUME NEW s \in Sinks
        PROVE  astray[s] \cup UNION {Unsent(s, k) : k \in RunIds} \in SUBSET Ids
    BY <1>4 DEF Inv, TypeOK
  <2> QED BY <1>1, <2>1
<1>6. TypeOK'
  BY <1>1, <1>3, <1>5 DEF Inv, TypeOK
<1>7. Completed' = Completed
  BY <1>1 DEF Completed
<1>8. OnRecord' /\ BaselineStands' /\ Tallied'
  BY <1>1, <1>3, <1>7 DEF Inv, OnRecord, BaselineStands, Tallied
<1>9. NoticeStands'
  BY <1>1, <1>3, <1>7, JobsAre DEF Inv, NoticeStands
<1>10. NoticesHonest'
  BY <1>1 DEF Inv, NoticesHonest, BaselineFindings
<1> QED BY <1>6, <1>8, <1>9, <1>10 DEF Inv

\* Every step preserves the invariant.
LEMMA InvNext == Inv /\ [Next]_vars => Inv'
<1> SUFFICES ASSUME Inv, [Next]_vars PROVE Inv'
  OBVIOUS
<1>1. CASE Begin
  BY <1>1, BeginInv
<1>2. CASE Stop
  BY <1>2, StopInv
<1>3. ASSUME NEW k \in RunIds, RunStep(k) PROVE Inv'
  BY <1>3, CorrelateInv, StoreInv, FinishInv, CompareInv, SendInv, NoteInv, NotifyInv
     DEF RunStep
<1>4. CASE UNCHANGED vars
  BY <1>4 DEF vars, Inv, TypeOK, OnRecord, BaselineStands, NoticeStands, NoticesHonest,
     Tallied, Folded, StatedFor, Completed, BaselineFindings
<1> QED BY <1>1, <1>2, <1>3, <1>4 DEF Next

-----------------------------------------------------------------------------
(* The theorems                                                              *)

\* The records, the findings, the ledgers and the notices have their types.
THEOREM EvidenceTypeCorrect == Spec => []TypeOK
<1>1. Inv => TypeOK
  BY DEF Inv
<1> QED BY <1>1, InvInit, InvNext, PTL DEF Spec

\* In whatever order reports are folded, a finding has the tools that reported
\* it, the worst severity any gave, and no confidence that they do not support.
THEOREM FoldsAreJust == Spec => []FoldedJustly
<1>1. Inv => FoldedJustly
  BY TalliedIsJust DEF Inv
<1> QED BY <1>1, InvInit, InvNext, PTL DEF Spec

\* However runs overlap and whatever fails or stops, a notification without
\* news is of a run in which nothing is new and nothing worse.
THEOREM NoticesAreHonest == Spec => []NoticesHonest
<1>1. Inv => NoticesHonest
  BY DEF Inv
<1> QED BY <1>1, InvInit, InvNext, PTL DEF Spec
=============================================================================
