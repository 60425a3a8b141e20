------------------------------ MODULE Reassess ------------------------------
(* Saved assessments as a concurrent system: the definition and job records  *)
(* of the file store, the scheduler goroutine, the console's HTTP handlers,  *)
(* and the goroutine behind each job with the notification it may send.      *)
(*                                                                           *)
(* The store's own calls are atomic (one mutex), but every caller works on a *)
(* CLONE: it reads a definition, does something slow, and writes the whole   *)
(* record back.  Each process therefore has a program counter and the clone  *)
(* it holds, and what lies between two store calls is one step.              *)
EXTENDS Definition, FiniteSets, Sequences

CONSTANTS
    DefIds,          \* identifiers newDefinitionID can hand out
    NoDef,           \* no such definition
    Threads,         \* HTTP handlers that can be in flight at once
    Sched,           \* the scheduler goroutine
    Requests,        \* the kinds of request the console receives
    DayChoices,      \* authorised_for_days in a request; 0 means left out
    Intervals,       \* interval_days in a request
    Survives,        \* whether the targets can pass the scope guard
    Notifies,        \* whether notify_on asks for notifications
    MaxDefinitions,  \* the licence's cap on saved assessments
    MaxActiveJobs,   \* the licence's cap on running jobs
    MaxClock, MaxLag, MaxRequests, MaxJobs, MaxFaults, MaxCrashes  \* bounds

JobIds == 1..MaxJobs
Procs  == {Sched} \cup Threads \cup JobIds

ASSUME ProcsAssumption ==
    /\ Sched \notin Threads \cup JobIds
    /\ Threads \cap JobIds = {}
    /\ MaxJobs \in Nat
\* The slack between reading the clock and writing back is a number of units.
ASSUME LagAssumption == MaxLag \in Nat
ASSUME NoDefAssumption == NoDef \notin Definition /\ NoDef \notin DefIds
ASSUME InputAssumption ==
    /\ Requests \subseteq {"save", "run", "reauthorise", "delete"}
    /\ DayChoices \subseteq Nat /\ Intervals \subseteq Nat
    /\ Survives \subseteq BOOLEAN /\ Notifies \subseteq BOOLEAN

\* Handlers in flight are finitely many, and a cap is a number.
ASSUME CapAssumption ==
    /\ IsFiniteSet(Threads)
    /\ MaxDefinitions \in Nat /\ MaxActiveJobs \in Nat

VARIABLES
    clock,     \* time.Now()
    defs,      \* the stored definitions
    used,      \* identifiers handed out so far
    jobs,      \* the stored jobs, in insertion order
    proc,      \* what each goroutine is doing
    listed,    \* the due clones the scheduler still has to look at
    requests, faults, crashes,  \* how much of each bound is spent
    affirmed,  \* history: every authorisation a human has given
    acked,     \* history: the last one the console acknowledged, per definition
    noted      \* history: the jobs whose failed notification was recorded

vars == <<clock, defs, used, jobs, proc, listed, requests, faults, crashes,
          affirmed, acked, noted>>

Labels == {"idle", "save", "reauthorise", "get", "count", "create", "update",
           "list", "scan", "refuse", "run", "baseline", "after", "notify"}
Proc   == [pc : Labels, id : DefIds \cup {NoDef}, now : Nat,
           d : Definition \cup {NoDef}]
Job    == [def : DefIds, op : Operators, asked : Nat, created : Nat,
           trigger : {"manual", "schedule"},
           state : {"active", "completed", "failed", "refused"}]
Affirmation == [id : DefIds, op : Operators, at : Nat, days : Nat \ {0}]

Idle == [pc |-> "idle", id |-> NoDef, now |-> 0, d |-> NoDef]
At(p, label) == proc[p].pc = label
Stored == {id \in DefIds : defs[id] # NoDef}
Active == {k \in DOMAIN jobs : jobs[k].state = "active"}
AffirmationOf(id, d) == [id |-> id, op |-> d.op, at |-> d.at, days |-> d.days]

TypeOK ==
    /\ clock \in Nat /\ requests \in Nat /\ faults \in Nat /\ crashes \in Nat
    /\ defs \in [DefIds -> Definition \cup {NoDef}]
    /\ listed \in [DefIds -> Definition \cup {NoDef}]
    /\ used \subseteq DefIds
    /\ jobs \in Seq(Job) /\ Len(jobs) <= MaxJobs
    /\ proc \in [Procs -> Proc]
    /\ affirmed \subseteq Affirmation
    /\ acked \in [DefIds -> Affirmation \cup {NoDef}]
    /\ noted \subseteq Nat

Init ==
    /\ clock = 1
    /\ defs = [id \in DefIds |-> NoDef]
    /\ listed = [id \in DefIds |-> NoDef]
    /\ used = {} /\ jobs = <<>>
    /\ proc = [p \in Procs |-> Idle]
    /\ requests = 0 /\ faults = 0 /\ crashes = 0
    /\ affirmed = {} /\ noted = {}
    /\ acked = [id \in DefIds |-> NoDef]

-----------------------------------------------------------------------------
(* The store                                                                 *)

DiskFault == faults < MaxFaults /\ faults' = faults + 1

\* Mutant: the update creates what it does not find.
UpsertSucceeds(id, d) == defs' = [defs EXCEPT ![id] = d] /\ UNCHANGED faults

UpdateSucceeds(id, d) ==
    /\ defs[id] # NoDef
    /\ defs' = [defs EXCEPT ![id] = d]
    /\ UNCHANGED faults

UpdateFails(id) ==
    /\ UNCHANGED defs
    /\ \/ defs[id] = NoDef /\ UNCHANGED faults
       \/ defs[id] # NoDef /\ DiskFault

\* The clock moves while goroutines work, but none of them (a scan of the
\* network aside) takes longer than MaxLag from the time it read the clock.
Tick ==
    /\ clock < MaxClock
    /\ \A p \in Procs : At(p, "idle") \/ At(p, "run")
                        \/ clock - proc[p].now < MaxLag
    /\ clock' = clock + 1
    /\ UNCHANGED <<defs, used, jobs, proc, listed, requests, faults, crashes,
                   affirmed, acked, noted>>

-----------------------------------------------------------------------------
(* Console requests: save, delete, re-authorise                              *)

Request(t, kind) ==
    /\ At(t, "idle") /\ kind \in Requests /\ requests < MaxRequests
    /\ requests' = requests + 1

\* A cap of zero is none.
Unlimited(max) == max = 0
AtCap(n, max)  == ~Unlimited(max) /\ n >= max

\* handleCreateDefinition and SaveDefinition up to the cap check.
SaveList(t) ==
    /\ Request(t, "save")
    /\ \E op \in Operators, days \in DayChoices, n \in Intervals,
          s \in Survives, notify \in Notifies :
        IF AtCap(Cardinality(Stored), MaxDefinitions)
        THEN UNCHANGED proc
        ELSE proc' = [proc EXCEPT ![t] =
                [pc |-> "save", id |-> NoDef, now |-> clock,
                 d |-> NewDefinition(op, days, n, s, notify, clock)]]
    /\ UNCHANGED <<clock, defs, used, jobs, listed, faults, crashes,
                   affirmed, acked, noted>>

\* CreateDefinition: a fresh identifier, or a failed write.
SaveCreate(t) ==
    /\ At(t, "save")
    /\ proc' = [proc EXCEPT ![t] = Idle]
    /\ \/ /\ DiskFault
          /\ UNCHANGED <<defs, used, affirmed, acked>>
       \/ \E id \in DefIds \ used :
            LET d == proc[t].d IN
            /\ defs' = [defs EXCEPT ![id] = d]
            /\ used' = used \cup {id}
            /\ affirmed' = affirmed \cup {AffirmationOf(id, d)}
            /\ acked' = [acked EXCEPT ![id] = AffirmationOf(id, d)]
            /\ UNCHANGED faults
    /\ UNCHANGED <<clock, jobs, listed, requests, crashes, noted>>

Delete(t) ==
    /\ Request(t, "delete")
    /\ \E id \in Stored :
        \/ /\ defs' = [defs EXCEPT ![id] = NoDef]
           /\ acked' = [acked EXCEPT ![id] = NoDef]
           /\ UNCHANGED faults
        \/ DiskFault /\ UNCHANGED <<defs, acked>>
    /\ UNCHANGED <<clock, used, jobs, proc, listed, crashes, affirmed, noted>>

\* What the person who renews an authorisation states, days = 0 meaning "as before".
Renewal(id, op, days) ==
    [id |-> id, op |-> op, at |-> clock, days |-> IF days > 0 THEN days ELSE defs[id].days]

\* handleReauthorise reads the definition and restarts its clock in the clone.
ReauthoriseRead(t) ==
    /\ Request(t, "reauthorise")
    /\ \E id \in Stored, op \in Operators, days \in DayChoices :
        /\ proc' = [proc EXCEPT ![t] =
                [pc |-> "reauthorise", id |-> id, now |-> clock,
                 d |-> Reaffirmed(defs[id], op, days, clock)]]
        /\ affirmed' = affirmed \cup {Renewal(id, op, days)}
    /\ UNCHANGED <<clock, defs, used, jobs, listed, faults, crashes, acked, noted>>

ReauthoriseWrite(t) ==
    LET id == proc[t].id IN
    /\ At(t, "reauthorise")
    /\ proc' = [proc EXCEPT ![t] = Idle]
    /\ \/ /\ UpdateSucceeds(id, proc[t].d)
          /\ acked' = [acked EXCEPT ![id] = AffirmationOf(id, proc[t].d)]
       \/ UpdateFails(id) /\ UNCHANGED acked
    /\ UNCHANGED <<clock, used, jobs, listed, requests, crashes, affirmed, noted>>

-----------------------------------------------------------------------------
(* RunDefinition, called by a handler or by the scheduler                    *)

\* Where a process goes when RunDefinition returns to it.
Returned(p, ok) ==
    IF p # Sched THEN Idle
    ELSE [pc |-> IF ok THEN "scan" ELSE "refuse",
          id |-> IF ok THEN NoDef ELSE proc[p].id,
          now |-> proc[p].now, d |-> NoDef]

\* The scheduler is done with a clone once its run has started.
ListedAfter(p, ok) ==
    IF p = Sched /\ ok THEN [listed EXCEPT ![proc[p].id] = NoDef] ELSE listed

Calling(p, id, now) == [pc |-> "get", id |-> id, now |-> now, d |-> NoDef]

RunRequest(t) ==
    /\ Request(t, "run")
    /\ \E id \in used : proc' = [proc EXCEPT ![t] = Calling(t, id, clock)]
    /\ UNCHANGED <<clock, defs, used, jobs, listed, faults, crashes,
                   affirmed, acked, noted>>

\* Mutants: no test, and one that lets the day of expiry count.
MayRunUnchecked(d, now) == d # NoDef
MayRunOnExpiry(d, now) == d.at # 0 /\ now <= AuthorisationExpires(d)

\* GetDefinition, then the test of the authorisation at the caller's `now`.
MayRun(d, now) == AuthorisationValid(d, now)

RunGet(p) ==
    LET d == defs[proc[p].id] IN
    /\ At(p, "get")
    /\ proc' = [proc EXCEPT ![p] =
            IF d # NoDef /\ MayRun(d, proc[p].now)
            THEN [@ EXCEPT !.pc = "count", !.d = d]
            ELSE Returned(p, FALSE)]
    /\ UNCHANGED <<clock, defs, used, jobs, listed, requests, faults, crashes,
                   affirmed, acked, noted>>

\* Submit's cap check, which nothing holds until the job is created.
RunCount(p) ==
    /\ At(p, "count")
    /\ proc' = [proc EXCEPT ![p] =
            IF AtCap(Cardinality(Active), MaxActiveJobs)
            THEN Returned(p, FALSE)
            ELSE [@ EXCEPT !.pc = "create"]]
    /\ UNCHANGED <<clock, defs, used, jobs, listed, requests, faults, crashes,
                   affirmed, acked, noted>>

NewJob(p, state) ==
    [def |-> proc[p].id, op |-> proc[p].d.op, asked |-> proc[p].now,
     created |-> clock,
     trigger |-> IF p = Sched THEN "schedule" ELSE "manual", state |-> state]

\* The rest of Submit: a gate that lets no target through leaves a refused job.
RunCreate(p) ==
    /\ At(p, "create") /\ Len(jobs) < MaxJobs
    /\ \/ /\ proc[p].d.survives
          /\ jobs' = Append(jobs, NewJob(p, "active"))
          /\ proc' = [proc EXCEPT
                ![p] = [@ EXCEPT !.pc = "update"],
                ![Len(jobs) + 1] = [Idle EXCEPT !.pc = "run", !.id = proc[p].id]]
          /\ UNCHANGED faults
       \/ /\ ~proc[p].d.survives
          /\ jobs' = Append(jobs, NewJob(p, "refused"))
          /\ proc' = [proc EXCEPT ![p] = Returned(p, FALSE)]
          /\ UNCHANGED faults
       \/ /\ DiskFault
          /\ proc' = [proc EXCEPT ![p] = Returned(p, FALSE)]
          /\ UNCHANGED jobs
    /\ UNCHANGED <<clock, defs, used, listed, requests, crashes,
                   affirmed, acked, noted>>

\* The clone read before the run was submitted is written back whole.  An
\* error here is the caller's answer although the run has started.
RunUpdate(p) ==
    LET id == proc[p].id
        Leave(ok) == /\ proc' = [proc EXCEPT ![p] = Returned(p, ok)]
                     /\ listed' = ListedAfter(p, ok)
    IN
    /\ At(p, "update")
    /\ \/ UpdateSucceeds(id, AfterStart(proc[p].d, proc[p].now)) /\ Leave(TRUE)
       \/ UpdateFails(id) /\ Leave(FALSE)
    /\ UNCHANGED <<clock, used, jobs, requests, crashes, affirmed, acked, noted>>

-----------------------------------------------------------------------------
(* The scheduler: one RunDue per tick, in one goroutine                      *)

SchedWake ==
    /\ At(Sched, "idle")
    /\ proc' = [proc EXCEPT ![Sched] = [Idle EXCEPT !.pc = "list", !.now = clock]]
    /\ UNCHANGED <<clock, defs, used, jobs, listed, requests, faults, crashes,
                   affirmed, acked, noted>>

\* ListDefinitions clones every definition; those not due are passed over.
DueIn(now) ==
    [id \in DefIds |-> IF defs[id] # NoDef /\ IsDue(defs[id], now)
                       THEN defs[id] ELSE NoDef]

SchedList ==
    /\ At(Sched, "list")
    /\ listed' = DueIn(proc[Sched].now)
    /\ proc' = [proc EXCEPT ![Sched].pc = "scan"]
    /\ UNCHANGED <<clock, defs, used, jobs, requests, faults, crashes,
                   affirmed, acked, noted>>

\* Mutant: a lapse stops the assessment without a word.
RecordLapseNever(id, d) == UNCHANGED <<defs, faults>>

\* The lapse is recorded once; a failed write is only logged.
RecordLapse(id, d) ==
    IF d.skip # LapseReason(d)
    THEN UpdateSucceeds(id, Lapsed(d)) \/ UpdateFails(id)
    ELSE UNCHANGED <<defs, faults>>

SchedLapsed(id) ==
    /\ At(Sched, "scan") /\ listed[id] # NoDef
    /\ ~AuthorisationValid(listed[id], proc[Sched].now)
    /\ RecordLapse(id, listed[id])
    /\ listed' = [listed EXCEPT ![id] = NoDef]
    /\ UNCHANGED <<clock, used, jobs, proc, requests, crashes,
                   affirmed, acked, noted>>

SchedRun(id) ==
    /\ At(Sched, "scan") /\ listed[id] # NoDef
    /\ AuthorisationValid(listed[id], proc[Sched].now)
    /\ proc' = [proc EXCEPT ![Sched] = Calling(Sched, id, proc[Sched].now)]
    /\ UNCHANGED <<clock, defs, used, jobs, listed, requests, faults, crashes,
                   affirmed, acked, noted>>

\* RunDefinition returned an error: the clone from the LIST is written back.
SchedRefused ==
    LET id == proc[Sched].id IN
    /\ At(Sched, "refuse")
    /\ \/ UpdateSucceeds(id, PushedOut(listed[id], proc[Sched].now))
       \/ UpdateFails(id)
    /\ listed' = [listed EXCEPT ![id] = NoDef]
    /\ proc' = [proc EXCEPT ![Sched] = [@ EXCEPT !.pc = "scan", !.id = NoDef]]
    /\ UNCHANGED <<clock, used, jobs, requests, crashes, affirmed, acked, noted>>

SchedDone ==
    /\ At(Sched, "scan") /\ \A id \in DefIds : listed[id] = NoDef
    /\ proc' = [proc EXCEPT ![Sched] = Idle]
    /\ UNCHANGED <<clock, defs, used, jobs, listed, requests, faults, crashes,
                   affirmed, acked, noted>>

-----------------------------------------------------------------------------
(* The goroutine behind job k: the run, then afterRun                        *)

\* The job ends in `state`.  A fault on disk can lose the findings, which fails
\* the job, or the last write of its record, which leaves it active.
JobEnds(k) ==
    /\ At(k, "run")
    /\ \E state \in {"completed", "failed"}, recorded \in {"active", "completed", "failed"} :
        /\ \/ state = "completed" /\ recorded = state /\ UNCHANGED faults
           \/ DiskFault /\ recorded \in {"active", state}
        /\ jobs' = [jobs EXCEPT ![k].state = recorded]
        /\ proc' = [proc EXCEPT ![k] = IF state = "failed" THEN Idle
                        ELSE [@ EXCEPT !.pc = "baseline", !.now = clock]]
    /\ UNCHANGED <<clock, defs, used, listed, requests, crashes,
                   affirmed, acked, noted>>

\* Compared with an earlier run, a job has its completed record written again.
HasBaseline(k) ==
    \E j \in DOMAIN jobs \ {k} : jobs[j].def = jobs[k].def /\ jobs[j].state = "completed"

RecordBaseline(k) ==
    /\ At(k, "baseline")
    /\ \/ /\ HasBaseline(k) /\ jobs' = [jobs EXCEPT ![k].state = "completed"]
          /\ UNCHANGED faults
       \/ HasBaseline(k) /\ DiskFault /\ UNCHANGED jobs
       \/ ~HasBaseline(k) /\ UNCHANGED <<jobs, faults>>
    /\ proc' = [proc EXCEPT ![k].pc = "after"]
    /\ UNCHANGED <<clock, defs, used, listed, requests, crashes,
                   affirmed, acked, noted>>

\* afterRun reads the definition; the comparison and the rule decide whether
\* there is something to send, and what it finds is left open here.
AfterGet(k) ==
    LET d == defs[proc[k].id] IN
    /\ At(k, "after")
    /\ \/ proc' = [proc EXCEPT ![k] = Idle]
       \/ /\ d # NoDef /\ d.notifies
          /\ proc' = [proc EXCEPT ![k] = [@ EXCEPT !.pc = "notify", !.d = d]]
    /\ UNCHANGED <<clock, defs, used, jobs, listed, requests, faults, crashes,
                   affirmed, acked, noted>>

NotifySent(k) ==
    /\ At(k, "notify")
    /\ proc' = [proc EXCEPT ![k] = Idle]
    /\ UNCHANGED <<clock, defs, used, jobs, listed, requests, faults, crashes,
                   affirmed, acked, noted>>

\* The webhook or the mail failed, long after the clone was read perhaps.
NotifyFails(k) ==
    LET id == proc[k].id IN
    /\ At(k, "notify")
    /\ \/ UpdateSucceeds(id, NotifyFailed(proc[k].d, k)) /\ noted' = noted \cup {k}
       \/ UpdateFails(id) /\ UNCHANGED noted
    /\ proc' = [proc EXCEPT ![k] = Idle]
    /\ UNCHANGED <<clock, used, jobs, listed, requests, crashes, affirmed, acked>>

-----------------------------------------------------------------------------
\* The process stops and is started again on the same directory: every
\* goroutine is gone, what was stored is what it was.
Crash ==
    /\ crashes < MaxCrashes
    /\ crashes' = crashes + 1
    /\ proc' = [p \in Procs |-> Idle]
    /\ listed' = [id \in DefIds |-> NoDef]
    /\ UNCHANGED <<clock, defs, used, jobs, requests, faults,
                   affirmed, acked, noted>>

RunStep(p) == RunGet(p) \/ RunCount(p) \/ RunCreate(p) \/ RunUpdate(p)

SchedStep ==
    \/ SchedWake \/ SchedList \/ SchedRefused \/ SchedDone
    \/ \E id \in DefIds : SchedLapsed(id) \/ SchedRun(id)
    \/ RunStep(Sched)

HandlerStep(t) == SaveCreate(t) \/ ReauthoriseWrite(t) \/ RunStep(t)

Arrival(t) == SaveList(t) \/ Delete(t) \/ ReauthoriseRead(t) \/ RunRequest(t)

JobStep(k) ==
    \/ JobEnds(k) \/ RecordBaseline(k) \/ AfterGet(k) \/ NotifySent(k) \/ NotifyFails(k)

Next ==
    \/ Tick \/ Crash \/ SchedStep
    \/ \E t \in Threads : Arrival(t) \/ HandlerStep(t)
    \/ \E k \in JobIds : JobStep(k)

Spec == Init /\ [][Next]_vars

\* Goroutines are not starved; requests and crashes need never come.
Fairness ==
    /\ WF_vars(SchedStep)
    /\ \A t \in Threads : WF_vars(HandlerStep(t))
    /\ \A k \in JobIds : WF_vars(JobStep(k))

FairSpec == Spec /\ Fairness

-----------------------------------------------------------------------------
(* Properties                                                                *)

\* Every run that was started (not refused) stands on an authorisation a human
\* gave for that very assessment, under the name the run's record carries,
\* before the run was created, and still open at the time RunDefinition was
\* given -- whatever stale clones were written back on the way.
RunsAreAuthorised ==
    \A k \in DOMAIN jobs : jobs[k].state # "refused" =>
        \E a \in affirmed :
            /\ a.id = jobs[k].def /\ a.op = jobs[k].op
            /\ a.at <= jobs[k].created
            /\ jobs[k].asked < AddDays(a.at, a.days)

\* The module as an implementation of AuthorisedRuns: started jobs are runs.
Runs == {[n |-> k, def |-> jobs[k].def, op |-> jobs[k].op,
          asked |-> jobs[k].asked, created |-> jobs[k].created] :
            k \in {j \in DOMAIN jobs : jobs[j].state # "refused"}}

AR == INSTANCE AuthorisedRuns WITH
        Ids <- DefIds, People <- Operators, live <- Stored, spent <- used, runs <- Runs

\* Behind every interleaving of clones the system behaves as the abstract one:
\* identifiers are never reused, what is deleted is gone, and each run begins
\* on an affirmation that covers it and is not invented along the way.
Refines == AR!ASpec

\* A deleted assessment stays deleted: no handler, scheduler or notification
\* still holding a clone writes it back into existence.
DeletedStaysDeleted ==
    [][\A id \in used : defs[id] = NoDef => defs'[id] = NoDef]_vars

\* The scheduler never serves one due date twice: what it starts (or has the
\* gate refuse) for an assessment lies at least an interval apart, less the
\* time a manual run may hold its clone -- unless a write failed or the process
\* stopped before the new due date was written, a renewal set one, or the note
\* of a failed notification wrote the old one back.
ScheduledRunsSpaced ==
    \A i, j \in DOMAIN jobs :
        ( /\ i < j /\ jobs[i].def = jobs[j].def
          /\ jobs[i].trigger = "schedule" /\ jobs[j].trigger = "schedule"
          /\ defs[jobs[i].def] # NoDef
          /\ faults = 0 /\ crashes = 0 /\ noted = {}
          /\ Cardinality({a \in affirmed : a.id = jobs[i].def}) = 1 )
        => jobs[j].asked + MaxLag >= AddDays(jobs[i].asked, defs[jobs[i].def].interval)

\* A due assessment does not just stop: it is run or pushed out, or it carries
\* the lapse that stops it, or it is deleted.
Explained(id) ==
    /\ ~AuthorisationValid(defs[id], clock)
    /\ defs[id].skip = LapseReason(defs[id])

DueIsServed ==
    \A id \in DefIds :
        (defs[id] # NoDef /\ IsDue(defs[id], clock)) ~>
            (defs[id] = NoDef \/ ~IsDue(defs[id], clock) \/ Explained(id))

\* "Re-affirming resumes it": once the console has answered that the
\* authorisation is renewed, the stored one is that renewal.
ReaffirmationSticks ==
    \A id \in Stored :
        (\A t \in Threads : ~(At(t, "reauthorise") /\ proc[t].id = id))
            => AffirmationOf(id, defs[id]) = acked[id]
=============================================================================
