------------------------------ MODULE Evidence ------------------------------
(* What becomes of the findings of the runs of one saved assessment: they    *)
(* are correlated, stored, compared with the last completed run, the         *)
(* transitions are sent to the SIEM's sinks, the baseline is noted on the    *)
(* job and a person is notified.  Each run is a goroutine of its own, two    *)
(* may overlap, the disk and a sink may fail, and the process may stop.      *)
(*                                                                           *)
(* How a run scans is Jobs' concern: here a scan is the set of reports its   *)
(* checks return, any subset of Reports, correlated in any order.            *)
EXTENDS Findings, Sequences

CONSTANTS
    Sinks,        \* the configured sinks of the export
    Rules,        \* notify_on of the assessment
    Reports,      \* what checks may report
    MaxRuns, MaxOverlap, MaxFaults  \* bounds

RunIds == 1..MaxRuns

Report == [id : Ids, finding : Finding]
ASSUME ReportAssumption ==
    /\ Reports \subseteq Report
    /\ \A r \in Reports : \E x \in Tools : r.finding.tools = {x}
ASSUME BoundAssumption == MaxRuns \in Nat /\ MaxOverlap \in Nat

VARIABLES
    jobs,     \* the stored records of the runs, in insertion order
    stored,   \* the stored findings of each run
    run,      \* the goroutine of each run
    open,     \* what each sink's receiver holds as open, and how severe
    notice,   \* the last notification handed to the transports
    faults,   \* failed writes, failed sends and stops so far
    astray,   \* history: findings whose last transition a sink has missed
    overlapped  \* history: two runs have been under way at once

vars == <<jobs, stored, run, open, notice, faults, astray, overlapped>>

Found == [Ids -> Finding \cup {NoFinding}]
Job   == [state : {"running", "completed", "failed"}, base : 0..MaxRuns]
Run   == [pc : {"gone", "correlate", "finish", "compare", "export", "notify"},
          reports : SUBSET Reports, pending : SUBSET Reports, found : Found,
          state : {"running", "completed", "failed"}, recorded : BOOLEAN,
          base : 0..MaxRuns, to : SUBSET Sinks]

Nothing == [id \in Ids |-> NoFinding]
Gone == [pc |-> "gone", reports |-> {}, pending |-> {}, found |-> Nothing,
         state |-> "running", recorded |-> FALSE, base |-> 0, to |-> {}]

Notice == [of : RunIds, base : 0..MaxRuns,
           headline : {"first", "new and regressed", "new", "regressed",
                       "resolved and improved", "resolved", "improved", "no change"}]
NoNotice == [of |-> 0, base |-> 0, headline |-> "none"]

UnderWay == {k \in RunIds : run[k].pc # "gone"}

TypeOK ==
    /\ jobs \in Seq(Job) /\ Len(jobs) <= MaxRuns
    /\ stored \in [RunIds -> Found]
    /\ run \in [RunIds -> Run]
    /\ open \in [Sinks -> [Ids -> Severities \cup {"closed"}]]
    /\ notice \in {NoNotice} \cup Notice
    /\ faults \in Nat
    /\ astray \in [Sinks -> SUBSET Ids] /\ overlapped \in BOOLEAN

Init ==
    /\ jobs = <<>>
    /\ stored = [k \in RunIds |-> Nothing]
    /\ run = [k \in RunIds |-> Gone]
    /\ open = [s \in Sinks |-> [id \in Ids |-> "closed"]]
    /\ notice = NoNotice /\ faults = 0
    /\ astray = [s \in Sinks |-> {}] /\ overlapped = FALSE

Fault == faults < MaxFaults /\ faults' = faults + 1
Goes(k, r) == run' = [run EXCEPT ![k] = r]

-----------------------------------------------------------------------------
(* A run, up to its record                                                   *)

\* A run starts and its checks return what they return.
Begin ==
    /\ Len(jobs) < MaxRuns /\ Cardinality(UnderWay) < MaxOverlap
    /\ jobs' = Append(jobs, [state |-> "running", base |-> 0])
    /\ \E reports \in SUBSET Reports :
        Goes(Len(jobs) + 1, [Gone EXCEPT !.pc = "correlate", !.reports = reports,
                                         !.pending = reports])
    /\ overlapped' = (overlapped \/ UnderWay # {})
    /\ UNCHANGED <<stored, open, notice, faults, astray>>

\* One turn of the loop that folds reports of equal identity.
Correlate(k) ==
    LET r == run[k] IN
    /\ r.pc = "correlate"
    /\ \E p \in r.pending :
        LET f == r.found[p.id] IN
        Goes(k, [r EXCEPT !.pending = @ \ {p}, !.found[p.id] =
                     IF f = NoFinding THEN p.finding ELSE Merge(f, p.finding)])
    /\ UNCHANGED <<jobs, stored, open, notice, faults, astray, overlapped>>

StoreFindings(k) ==
    LET r == run[k] IN
    /\ r.pc = "correlate" /\ r.pending = {}
    /\ \/ /\ stored' = [stored EXCEPT ![k] = r.found] /\ UNCHANGED faults
          /\ Goes(k, [r EXCEPT !.pc = "finish", !.state = "completed"])
       \/ /\ Fault /\ UNCHANGED stored
          /\ Goes(k, [r EXCEPT !.pc = "finish", !.state = "failed"])
    /\ UNCHANGED <<jobs, open, notice, astray, overlapped>>

\* The outcome is written; the goroutine goes on whether or not it was.
Finish(k) ==
    LET r == run[k] IN
    /\ r.pc = "finish"
    /\ \E ok \in BOOLEAN :
        /\ IF ok THEN jobs' = [jobs EXCEPT ![k].state = r.state] /\ UNCHANGED faults
                 ELSE Fault /\ UNCHANGED jobs
        /\ Goes(k, IF r.state = "completed" THEN [r EXCEPT !.pc = "compare", !.recorded = ok]
                   ELSE Gone)
    /\ UNCHANGED <<stored, open, notice, astray, overlapped>>

-----------------------------------------------------------------------------
(* After the run                                                             *)

Completed == {j \in DOMAIN jobs : jobs[j].state = "completed"}
Latest(S) == IF S = {} THEN 0 ELSE CHOOSE j \in S : \A i \in S : i <= j

\* The latest completed run in insertion order that is not k; 0 is none.
LastCompleted(k) == Latest(Completed \ {k})

BaselineFindings(b) == IF b = 0 THEN Nothing ELSE stored[b]
EntriesOf(k, b) == Compare(b # 0, BaselineFindings(b), stored[k])

\* The findings of which a run has something to tell the SIEM.
Transitions(k, b) ==
    LET entries == EntriesOf(k, b)
    IN {id \in DOMAIN entries : Event(b # 0, entries[id]) # "none"}

\* DeltaFor, whose reads no later step can change.  No events, no sending.
CompareRun(k) ==
    LET b == LastCompleted(k) IN
    /\ run[k].pc = "compare"
    /\ Goes(k, [run[k] EXCEPT !.base = b,
                   !.to = IF Transitions(k, b) = {} THEN {} ELSE Sinks, !.pc = "export"])
    /\ UNCHANGED <<jobs, stored, open, notice, faults, astray, overlapped>>

\* What a receiver holds after the events of run k.
Told(s, k, b) ==
    LET entries == EntriesOf(k, b) IN
    [id \in Ids |->
        IF id \notin Transitions(k, b) THEN open[s][id]
        ELSE IF Event(b # 0, entries[id]) = "opened" THEN stored[k][id].sev ELSE "closed"]

\* Mutant: the first sink that fails ends the export.
SendFirst(k) ==
    LET r == run[k] IN
    /\ r.pc = "export"
    /\ \E s \in r.to, arrives \in BOOLEAN :
        /\ IF arrives THEN open' = [open EXCEPT ![s] = Told(s, k, r.base)] /\ UNCHANGED faults
           ELSE Fault /\ UNCHANGED open
        /\ Goes(k, [r EXCEPT !.to = IF arrives THEN @ \ {s} ELSE {}])
        /\ astray' = [astray EXCEPT ![s] =
               IF arrives /\ r.recorded THEN @ \ Transitions(k, r.base)
               ELSE @ \cup Transitions(k, r.base)]
    /\ UNCHANGED <<jobs, stored, notice, overlapped>>

\* One sink is sent the run's events.  Every sink is tried, and none twice.  A
\* transition that arrives settles the finding, unless the run it comes from
\* is not on record and will be nobody's baseline.
Send(k) ==
    LET r == run[k] IN
    /\ r.pc = "export"
    /\ \E s \in r.to, arrives \in BOOLEAN :
        /\ IF arrives THEN open' = [open EXCEPT ![s] = Told(s, k, r.base)] /\ UNCHANGED faults
           ELSE Fault /\ UNCHANGED open
        /\ Goes(k, [r EXCEPT !.to = @ \ {s}])
        /\ astray' = [astray EXCEPT ![s] =
               IF arrives /\ r.recorded THEN @ \ Transitions(k, r.base)
               ELSE @ \cup Transitions(k, r.base)]
    /\ UNCHANGED <<jobs, stored, notice, overlapped>>

\* The baseline is noted by writing the whole record, its state included.
NoteBaseline(k) ==
    LET r == run[k] IN
    /\ r.pc = "export" /\ r.to = {}
    /\ \/ /\ r.base # 0 /\ UNCHANGED faults
          /\ jobs' = [jobs EXCEPT ![k] = [state |-> "completed", base |-> r.base]]
       \/ r.base # 0 /\ Fault /\ UNCHANGED jobs
       \/ r.base = 0 /\ UNCHANGED <<jobs, faults>>
    /\ Goes(k, [r EXCEPT !.pc = "notify"])
    /\ UNCHANGED <<stored, open, notice, astray, overlapped>>

\* The rule decides; what came of the sending is recorded in Reassess.
Notify(k) ==
    LET r == run[k]
        entries == EntriesOf(k, r.base)
    IN
    /\ r.pc = "notify"
    /\ \E rule \in Rules :
        notice' = IF ShouldSend(rule, r.base # 0, entries)
                  THEN [of |-> k, base |-> r.base,
                        headline |-> Headline(r.base # 0, entries)]
                  ELSE notice
    /\ Goes(k, Gone)
    /\ UNCHANGED <<jobs, stored, open, faults, astray, overlapped>>

\* The run's transitions a sink has not been sent, if the run is on record.
Unsent(s, k) ==
    IF ~run[k].recorded THEN {}
    ELSE CASE run[k].pc = "compare" -> Transitions(k, LastCompleted(k))
           [] run[k].pc = "export" /\ s \in run[k].to -> Transitions(k, run[k].base)
           [] OTHER -> {}

\* The process ends and starts again: what was not sent never will be.
Stop ==
    /\ Fault
    /\ run' = [k \in RunIds |-> Gone]
    /\ astray' = [s \in Sinks |-> astray[s] \cup UNION {Unsent(s, k) : k \in RunIds}]
    /\ UNCHANGED <<jobs, stored, open, notice, overlapped>>

RunStep(k) ==
    \/ Correlate(k) \/ StoreFindings(k) \/ Finish(k)
    \/ CompareRun(k) \/ Send(k) \/ NoteBaseline(k) \/ Notify(k)

Next == Begin \/ Stop \/ \E k \in RunIds : RunStep(k)

Spec == Init /\ [][Next]_vars

-----------------------------------------------------------------------------
(* Properties                                                                *)

\* The run a sink's receiver is up to date with: the last completed one, or
\* the one before while that one's events have yet to be sent.
Behind(s, k) ==
    /\ run[k].recorded
    /\ run[k].pc = "compare" \/ (run[k].pc = "export" /\ s \in run[k].to)

Current(s) ==
    LET late == {k \in Completed : Behind(s, k)}
    IN Latest(Completed \ late)

\* As long as runs follow one another, what the SIEM holds as open is what the
\* last run found, and never less severe, but for findings whose last
\* transition failed to arrive, or came from a run that is not on record.
LedgerFollows ==
    ~overlapped => \A s \in Sinks, id \in Ids :
        LET is == BaselineFindings(Current(s))[id] IN
        id \in astray[s]
        \/ (IF is = NoFinding THEN open[s][id] = "closed"
            ELSE SeverityRank(open[s][id]) >= SeverityRank(is.sev))

\* Correlation neither loses nor invents: a finding has the tools that reported
\* it and the worst severity any of them gave; more confidence than the surest
\* of them only through further tools, and by a step for each.
StatedFor(r, id) == {p.finding : p \in {q \in r.reports \ r.pending : q.id = id}}

FoldedJustly ==
    \A k \in UnderWay, id \in Ids :
        LET f == run[k].found[id]
            from == StatedFor(run[k], id)
        IN
        IF from = {} THEN f = NoFinding
        ELSE /\ f.tools = UNION {g.tools : g \in from}
             /\ f.sev \in {g.sev : g \in from}
             /\ \A g \in from : /\ SeverityRank(g.sev) <= SeverityRank(f.sev)
                                /\ ConfidenceRank(g.conf) <= ConfidenceRank(f.conf)
                                /\ g.status = "manual_review" => f.status = g.status
             /\ \E g \in from : ConfidenceRank(f.conf)
                    <= ConfidenceRank(g.conf) + Cardinality(f.tools) - 1

\* "It never claims progress that the numbers do not support": a notification
\* that reports no news is sent only of a run with nothing new and nothing
\* worse than in the run it names.
NoticesHonest ==
    notice.headline \in {"resolved and improved", "resolved", "improved", "no change"} =>
        LET was == BaselineFindings(notice.base)  is == stored[notice.of] IN
        \A id \in Reported(is) :
            was[id] # NoFinding /\ SeverityRank(is[id].sev) <= SeverityRank(was[id].sev)
=============================================================================
