-------------------------------- MODULE Jobs --------------------------------
(* One-off and saved assessments as jobs: Runner.Submit, called by handlers  *)
(* and by the scheduler, the goroutine that runs each job over the adapters  *)
(* of its profile and the targets the gate let through, and the store the    *)
(* job record and its findings are written to.                               *)
(*                                                                           *)
(* A goroutine works on its own clone of the record and writes it whole; it  *)
(* ignores the error of every such write.  A job's phase text, timestamps    *)
(* and tool paths are left out, a finding is its identity (correlation folds *)
(* equal identities) and the targets of one adapter come in any order.       *)
EXTENDS Integers, FiniteSets, Sequences

CONSTANTS
    NoJob,             \* no clone of a job record is held
    Callers,           \* who may be inside Submit at once
    Targets,           \* targets an operator may name
    NAdapters,         \* adapters of the profile, in stage order
    FindingIds,        \* identities of findings
    Malformed,         \* whether an adapter's output may hold a malformed finding
    MaxTargets,        \* the licence's caps; 0 lifts the first and the last
    MaxActiveJobs,
    MaxFindingsShown,
    MaxJobs, MaxFaults, MaxStops  \* bounds

JobIds == 1..MaxJobs

ASSUME CapAssumption ==
    /\ MaxTargets \in Nat /\ MaxFindingsShown \in Nat /\ NAdapters \in Nat
    /\ MaxActiveJobs \in Nat \ {0} /\ MaxJobs \in Nat
ASSUME FiniteAssumption ==
    /\ IsFiniteSet(Callers) /\ IsFiniteSet(Targets) /\ IsFiniteSet(FindingIds)
    /\ Malformed \subseteq BOOLEAN

VARIABLES
    jobs,           \* the stored job records
    findings,       \* the stored findings of each job
    caller,         \* where each caller is in Submit, and what it asks for
    run,            \* the goroutine of each job, with its clone
    faults, stops,  \* how much of each bound is spent
    yielded,        \* history: the well-formed findings adapters returned
    rejected        \* history: the adapter runs with a finding that was dropped

vars == <<jobs, findings, caller, run, faults, stops, yielded, rejected>>

States == {"queued", "running", "completed", "failed", "refused"}
Terminal(j) == j.state \in {"completed", "failed", "refused"}

\* TargetOutcome: why a target is listed, whether it was assessed, its findings.
Outcome == [listed : {"no", "accepted", "skipped"}, processed : BOOLEAN, n : Nat]

\* AdapterRun; a skipped adapter has one for all targets.
AdapterRun == [adapter : 1..NAdapters, over : SUBSET Targets, skipped : BOOLEAN,
               reason : SUBSET {"unavailable", "error", "malformed"}]

Job == [state : States, targets : [Targets -> Outcome], runs : SUBSET AdapterRun,
        progress : 0..100, total : Nat, shown : Nat, baseline : BOOLEAN]

\* A goroutine: its clone of the record, the adapter it is at, the targets left
\* to it and the one being scanned, what was found and how much per target.
Run == [pc : {"gone", "start", "pick", "scan", "store", "finish", "after"},
        rec : Job \cup {NoJob}, i : 1..(NAdapters + 1),
        left : SUBSET Targets, at : SUBSET Targets, found : SUBSET FindingIds,
        per : [Targets -> Nat]]

Gone == [pc |-> "gone", rec |-> NoJob, i |-> 1, left |-> {}, at |-> {},
         found |-> {}, per |-> [t \in Targets |-> 0]]
IdleCaller == [pc |-> "idle", asked |-> {}]

Active == {k \in DOMAIN jobs : ~Terminal(jobs[k])}
Accepted(j) == {t \in Targets : j.targets[t].listed = "accepted"}

TypeOK ==
    /\ jobs \in Seq(Job) /\ Len(jobs) <= MaxJobs
    /\ findings \in [JobIds -> SUBSET FindingIds]
    /\ yielded \in [JobIds -> SUBSET FindingIds]
    /\ caller \in [Callers -> [pc : {"idle", "count", "create"}, asked : SUBSET Targets]]
    /\ run \in [JobIds -> Run]
    /\ rejected \subseteq JobIds \X (1..NAdapters) \X SUBSET Targets
    /\ faults \in Nat /\ stops \in Nat

Init ==
    /\ jobs = <<>>
    /\ findings = [k \in JobIds |-> {}] /\ yielded = [k \in JobIds |-> {}] /\ rejected = {}
    /\ caller = [c \in Callers |-> IdleCaller]
    /\ run = [k \in JobIds |-> Gone]
    /\ faults = 0 /\ stops = 0

-----------------------------------------------------------------------------
(* Submit                                                                    *)

DiskFault == faults < MaxFaults /\ faults' = faults + 1

\* The request is checked against the tier before anything is recorded.
Request(c) ==
    /\ caller[c].pc = "idle"
    /\ \E asked \in SUBSET Targets :
        /\ MaxTargets = 0 \/ Cardinality(asked) <= MaxTargets
        /\ caller' = [caller EXCEPT ![c] = [pc |-> "count", asked |-> asked]]
    /\ UNCHANGED <<jobs, findings, run, faults, stops, yielded, rejected>>

\* Mutant: the last slot is given away twice.
HasSlotOffByOne == Cardinality(Active) <= MaxActiveJobs

HasSlot == Cardinality(Active) < MaxActiveJobs

\* ActiveJobs is counted here; nothing holds the slot until the job is created.
CountActive(c) ==
    /\ caller[c].pc = "count"
    /\ caller' = [caller EXCEPT ![c] = IF HasSlot THEN [@ EXCEPT !.pc = "create"]
                                       ELSE IdleCaller]
    /\ UNCHANGED <<jobs, findings, run, faults, stops, yielded, rejected>>

Listing(accepted, skipped) ==
    [t \in Targets |->
        [listed |-> IF t \in accepted THEN "accepted"
                    ELSE IF t \in skipped THEN "skipped" ELSE "no",
         processed |-> FALSE, n |-> 0]]

NewJob(state, accepted, skipped) ==
    [state |-> state, targets |-> Listing(accepted, skipped), runs |-> {},
     progress |-> IF state = "refused" THEN 100 ELSE 0, total |-> 0, shown |-> 0,
     baseline |-> FALSE]

\* The gate's verdict on a request: the targets accepted and those skipped.  A
\* request without operator, confirmation or matching re-entry lists nothing.
Verdicts(asked) ==
    {<<accepted, asked \ accepted>> : accepted \in SUBSET asked} \cup {<<{}, {}>>}

\* The gate, the record and the goroutine.
CreateJob(c) ==
    /\ caller[c].pc = "create" /\ Len(jobs) < MaxJobs
    /\ caller' = [caller EXCEPT ![c] = IdleCaller]
    /\ \/ DiskFault /\ UNCHANGED <<jobs, run>>
       \/ \E v \in Verdicts(caller[c].asked) :
            LET state == IF v[1] = {} THEN "refused" ELSE "queued"
                k == Len(jobs) + 1
            IN
            /\ jobs' = Append(jobs, NewJob(state, v[1], v[2]))
            /\ run' = IF v[1] = {} THEN run
                      ELSE [run EXCEPT ![k] = [Gone EXCEPT !.pc = "start"]]
            /\ UNCHANGED faults
    /\ UNCHANGED <<findings, stops, yielded, rejected>>

-----------------------------------------------------------------------------
(* The goroutine of job k                                                    *)

\* UpdateJob, its error ignored.
Write(k, j) ==
    \/ jobs' = [jobs EXCEPT ![k] = j] /\ UNCHANGED faults
    \/ DiskFault /\ UNCHANGED jobs

Goes(k, r) == run' = [run EXCEPT ![k] = r]

RunStart(k) ==
    LET j == [jobs[k] EXCEPT !.state = "running"] IN
    /\ run[k].pc = "start"
    /\ Write(k, j)
    /\ Goes(k, [run[k] EXCEPT !.pc = "pick", !.rec = j, !.left = Accepted(j)])
    /\ UNCHANGED <<findings, caller, stops, yielded, rejected>>

\* Mutants: 100 before the end, and a percentage rounded up past it.
PercentUncapped(done, total) == (done * 100) \div total
PercentRoundedUp(done, total) == (done * 100) \div total + 1

\* 100 is reserved for a finished job.
Percent(done, total) ==
    LET p == (done * 100) \div total IN IF p > 99 THEN 99 ELSE p

\* Mutant: each adapter starts counting from nothing.
ProgressOfAdapter(j, i, left) ==
    Percent(Cardinality(Accepted(j) \ left), NAdapters * Cardinality(Accepted(j)))

Progress(j, i, left) ==
    Percent((i - 1) * Cardinality(Accepted(j)) + Cardinality(Accepted(j) \ left),
            NAdapters * Cardinality(Accepted(j)))

\* An adapter's run goes on the record, with the progress made.
Recorded(j, a, progress) == [j EXCEPT !.runs = @ \cup {a}, !.progress = progress]

\* An adapter that is not installed or not licensed is passed over.
Skipped(r) ==
    [adapter |-> r.i, over |-> Accepted(r.rec), skipped |-> TRUE, reason |-> {"unavailable"}]

SkipAdapter(k) ==
    LET r == run[k]
        j == Recorded(r.rec, Skipped(r), Progress(r.rec, r.i, {}))
    IN
    /\ r.pc = "pick" /\ r.i <= NAdapters /\ r.left = Accepted(r.rec)
    /\ Write(k, j)
    /\ Goes(k, [r EXCEPT !.rec = j, !.i = @ + 1])
    /\ UNCHANGED <<findings, caller, stops, yielded, rejected>>

Visit(k) ==
    LET r == run[k] IN
    /\ r.pc = "pick" /\ r.i <= NAdapters
    /\ \E t \in r.left : Goes(k, [r EXCEPT !.pc = "scan", !.at = {t}])
    /\ Write(k, r.rec)
    /\ UNCHANGED <<findings, caller, stops, yielded, rejected>>

\* Mutant: the adapter starts over with every target it finishes.
AfterTargetStuck(r) == [r EXCEPT !.pc = "pick", !.left = Accepted(r.rec)]

\* On to the next target, or to the next adapter over all of them.
AfterTarget(r) ==
    LET left == r.left \ r.at IN
    IF left # {} THEN [r EXCEPT !.pc = "pick", !.left = left]
    ELSE [r EXCEPT !.pc = "pick", !.i = @ + 1, !.left = Accepted(r.rec)]

Scanned(r, failed) ==
    [adapter |-> r.i, over |-> r.at, skipped |-> FALSE,
     reason |-> IF failed THEN {"error"} ELSE {}]

\* The adapter returned, in time or not, with an error or not: its findings
\* count either way, a malformed one is rejected.  The run's record was
\* appended by value, so the remark then made about it stays behind.
AdapterReturns(k) ==
    LET r == run[k] IN
    /\ r.pc = "scan"
    /\ \E fs \in SUBSET FindingIds, failed \in BOOLEAN :
        LET j == Recorded(r.rec, Scanned(r, failed),
                          Progress(r.rec, r.i, r.left \ r.at)) IN
        /\ Write(k, j)
        /\ Goes(k, AfterTarget([r EXCEPT
                !.rec = j, !.found = @ \cup fs,
                !.per = [t \in Targets |->
                            IF t \in r.at THEN @[t] + Cardinality(fs) ELSE @[t]]]))
        /\ yielded' = [yielded EXCEPT ![k] = @ \cup fs]
        /\ \E bad \in Malformed :
            rejected' = IF bad THEN rejected \cup {<<k, r.i, r.at>>} ELSE rejected
    /\ UNCHANGED <<findings, caller, stops>>

\* Correlating: from here on nothing is scanned.
Correlate(k) ==
    /\ run[k].pc = "pick" /\ run[k].i > NAdapters
    /\ Write(k, run[k].rec)
    /\ Goes(k, [run[k] EXCEPT !.pc = "store"])
    /\ UNCHANGED <<findings, caller, stops, yielded, rejected>>

ShownOf(total) ==
    IF MaxFindingsShown = 0 \/ total <= MaxFindingsShown THEN total ELSE MaxFindingsShown

\* The record the goroutine goes on to write, whatever became of the findings.
Final(r, state) ==
    [state |-> state, progress |-> 100, runs |-> r.rec.runs, baseline |-> FALSE,
     total |-> Cardinality(r.found), shown |-> ShownOf(Cardinality(r.found)),
     targets |-> [t \in Targets |->
        IF t \in Accepted(r.rec)
        THEN [listed |-> "accepted", processed |-> TRUE, n |-> r.per[t]]
        ELSE r.rec.targets[t]]]

\* Mutant: a failure to store the findings goes unnoticed.
StoreFindingsUnchecked(k) ==
    LET r == run[k] IN
    /\ r.pc = "store"
    /\ \/ findings' = [findings EXCEPT ![k] = r.found] /\ UNCHANGED faults
       \/ DiskFault /\ UNCHANGED findings
    /\ Goes(k, [r EXCEPT !.pc = "finish", !.rec = Final(r, "completed")])
    /\ UNCHANGED <<jobs, caller, stops, yielded, rejected>>

\* Mutant: the job is marked completed before its counts are known.
StoreFindingsMarked(k) ==
    LET r == run[k] IN
    /\ r.pc = "store"
    /\ findings' = [findings EXCEPT ![k] = r.found]
    /\ jobs' = [jobs EXCEPT ![k] = [r.rec EXCEPT !.state = "completed"]]
    /\ Goes(k, [r EXCEPT !.pc = "finish", !.rec = Final(r, "completed")])
    /\ UNCHANGED <<caller, faults, stops, yielded, rejected>>

StoreFindings(k) ==
    LET r == run[k] IN
    /\ r.pc = "store"
    /\ \/ /\ findings' = [findings EXCEPT ![k] = r.found] /\ UNCHANGED faults
          /\ Goes(k, [r EXCEPT !.pc = "finish", !.rec = Final(r, "completed")])
       \/ /\ DiskFault /\ UNCHANGED findings
          /\ Goes(k, [r EXCEPT !.pc = "finish", !.rec = Final(r, "failed")])
    /\ UNCHANGED <<jobs, caller, stops, yielded, rejected>>

Finish(k) ==
    LET r == run[k] IN
    /\ r.pc = "finish"
    /\ Write(k, r.rec)
    /\ Goes(k, IF r.rec.state = "completed" THEN [r EXCEPT !.pc = "after"] ELSE Gone)
    /\ UNCHANGED <<findings, caller, stops, yielded, rejected>>

\* afterRun notes the run a completed job was compared with, if there was one,
\* by writing the whole clone once more.
AfterRun(k) ==
    /\ run[k].pc = "after"
    /\ \/ Write(k, [run[k].rec EXCEPT !.baseline = TRUE])
       \/ UNCHANGED <<jobs, faults>>
    /\ Goes(k, Gone)
    /\ UNCHANGED <<findings, caller, stops, yielded, rejected>>

-----------------------------------------------------------------------------
\* The process ends, by a signal or a crash, and is started again.  A stop by
\* signal waits for requests, and neither waits for the goroutines of jobs.
Stop ==
    /\ stops < MaxStops
    /\ stops' = stops + 1
    /\ caller' = [c \in Callers |-> IdleCaller]
    /\ run' = [k \in JobIds |-> Gone]
    /\ UNCHANGED <<jobs, findings, faults, yielded, rejected>>

SubmitStep(c) == Request(c) \/ CountActive(c) \/ CreateJob(c)

JobStep(k) ==
    \/ RunStart(k) \/ SkipAdapter(k) \/ Visit(k) \/ AdapterReturns(k)
    \/ Correlate(k) \/ StoreFindings(k) \/ Finish(k) \/ AfterRun(k)

Next ==
    \/ \E c \in Callers : SubmitStep(c)
    \/ \E k \in JobIds : JobStep(k)
    \/ Stop

Spec == Init /\ [][Next]_vars

\* A job's goroutine is not starved, and an adapter returns within its three
\* minutes.  Nobody need ever submit anything.
FairSpec == Spec /\ \A k \in JobIds : WF_vars(JobStep(k))

-----------------------------------------------------------------------------
(* Properties                                                                *)

\* The licence's cap on running jobs, checked and then acted upon without a
\* lock, is overshot by at most one job per other caller.
OvershootBounded ==
    Cardinality(Active) <= MaxActiveJobs + Cardinality(Callers) - 1

\* A job that says it completed hides nothing: every finding an adapter gave is
\* stored and counted, every accepted target was assessed, and each adapter has
\* a record for each of them -- also when writes failed on the way.
CompletedIsWhole ==
    \A k \in DOMAIN jobs : jobs[k].state = "completed" =>
        LET j == jobs[k] IN
        /\ findings[k] = yielded[k] /\ j.total = Cardinality(yielded[k])
        /\ j.shown <= j.total
        /\ \A t \in Accepted(j) :
            /\ j.targets[t].processed
            /\ \A i \in 1..NAdapters : \E a \in j.runs : a.adapter = i /\ t \in a.over

\* 100 per cent is shown exactly for the jobs that are over, and the figure
\* never goes back, though any write of it may be lost.
ProgressHonest == \A k \in DOMAIN jobs : jobs[k].progress = 100 <=> Terminal(jobs[k])

ProgressAdvances ==
    [][\A k \in DOMAIN jobs : jobs[k].progress <= jobs'[k].progress]_vars

\* Once a job is over its record and its findings are evidence: no goroutine
\* changes them again, but for naming the run they were compared with.
TerminalIsFinal ==
    [][\A k \in DOMAIN jobs : Terminal(jobs[k]) =>
        /\ findings'[k] = findings[k]
        /\ jobs'[k] \in {jobs[k], [jobs[k] EXCEPT !.baseline = TRUE]}]_vars

\* With a working disk every job comes to an end and gives its slot back.
EveryJobEnds == \A k \in JobIds : (k \in Active) ~> (k \notin Active)

\* "Malformed adapter output is dropped, but the drop is recorded rather than
\* hidden": on the record of the adapter run, once the job has completed.
DropsRecorded ==
    \A x \in rejected :
        (x[1] \in DOMAIN jobs /\ jobs[x[1]].state = "completed") =>
            \E a \in jobs[x[1]].runs :
                a.adapter = x[2] /\ a.over = x[3] /\ "malformed" \in a.reason
=============================================================================
