--------------------------- MODULE Reassess_proofs ---------------------------
(* Proofs about saved assessments, for every number of definitions, handlers *)
(* and jobs, every day length and every bound.                               *)
EXTENDS Reassess, FiniteSetTheorems, TLAPS

USE DayAssumption, DefaultDaysAssumption, ProcsAssumption, NoDefAssumption,
    InputAssumption

Callers == {Sched} \cup Threads

\* What a goroutine holds at each point of its code.
Fits(e) ==
    /\ e.pc \in {"save", "reauthorise", "count", "create", "update", "notify"}
        => e.d # NoDef
    /\ e.pc \in {"reauthorise", "get", "count", "create", "update", "refuse",
                 "run", "baseline", "after", "notify"} => e.id \in DefIds

\* The scheduler still holds the clone of the assessment it is running.
ListedFits ==
    proc[Sched].pc \in {"get", "count", "create", "update", "refuse"}
        => listed[proc[Sched].id] # NoDef

Shape ==
    /\ \A p \in Procs : Fits(proc[p])
    /\ ListedFits
    /\ \A k \in JobIds : proc[k].pc # "idle" => k <= Len(jobs)

TypeInv == TypeOK /\ Shape

-----------------------------------------------------------------------------
(* The operators on definitions keep them definitions.                       *)

\* Every definition the code builds is a well-formed record: saving, starting,
\* pushing out, recording a lapse or a failed notification, re-affirming.
LEMMA DefinitionsClosed ==
    ASSUME NEW d \in Definition, NEW now \in Nat, NEW op \in Operators
    PROVE  /\ AfterStart(d, now) \in Definition
           /\ Lapsed(d) \in Definition
           /\ PushedOut(d, now) \in Definition
           /\ \A days \in Nat : Reaffirmed(d, op, days, now) \in Definition
           /\ \A k \in Nat : NotifyFailed(d, k) \in Definition
<1>1. \A t, n \in Nat : AddDays(t, n) \in Nat
  BY DEF AddDays
<1>2. AuthorisationExpires(d) \in Nat
  BY <1>1 DEF AuthorisationExpires, AuthorisationDays, Definition
<1>3. AfterStart(d, now) \in Definition
  BY <1>1 DEF AfterStart, Definition, Reason, NoReason
<1>4. Lapsed(d) \in Definition
  BY <1>2 DEF Lapsed, LapseReason, Definition, Reason
<1>5. PushedOut(d, now) \in Definition
  BY <1>1 DEF PushedOut, Definition, Reason
<1>6. ASSUME NEW days \in Nat PROVE Reaffirmed(d, op, days, now) \in Definition
  <2>1. ASSUME NEW n \in Nat, NEW m \in Nat \ {0}
        PROVE  [d EXCEPT !.op = op, !.at = now, !.days = m, !.skip = NoReason,
                         !.next = n] \in Definition
    BY DEF Definition, Reason, NoReason
  <2>2. (IF days > 0 THEN days ELSE d.days) \in Nat \ {0}
    BY DEF Definition
  <2>3. (IF d.interval > 0 /\ (d.next = 0 \/ d.next < now)
         THEN now ELSE d.next) \in Nat
    BY DEF Definition
  <2> QED BY <2>1, <2>2, <2>3 DEF Reaffirmed
<1>7. \A k \in Nat : NotifyFailed(d, k) \in Definition
  BY DEF NotifyFailed, Definition, Reason
<1> QED BY <1>3, <1>4, <1>5, <1>6, <1>7

\* The definition SaveDefinition builds is well formed.
LEMMA NewDefinitionType ==
    ASSUME NEW op \in Operators, NEW days \in Nat, NEW n \in Nat,
           NEW s \in BOOLEAN, NEW notify \in BOOLEAN, NEW now \in Nat
    PROVE  NewDefinition(op, days, n, s, notify, now) \in Definition
BY DEF NewDefinition, AuthorisationDays, AddDays, Definition, Reason, NoReason

\* Re-affirming dates the authorisation now.
LEMMA ReaffirmedNow ==
    ASSUME NEW d \in Definition, NEW now \in Nat, NEW op \in Operators,
           NEW days \in Nat
    PROVE  Reaffirmed(d, op, days, now).at = now
<1>1. ASSUME NEW m, NEW n
      PROVE  [d EXCEPT !.op = op, !.at = now, !.days = m, !.skip = NoReason,
                       !.next = n].at = now
  BY DEF Definition
<1> QED BY <1>1 DEF Reaffirmed

\* None of the records written back by a run, the scheduler or a notification
\* touches the authorisation it found.
LEMMA AuthorisationKept ==
    ASSUME NEW d \in Definition, NEW id, NEW now, NEW k
    PROVE  /\ AffirmationOf(id, AfterStart(d, now)) = AffirmationOf(id, d)
           /\ AffirmationOf(id, Lapsed(d)) = AffirmationOf(id, d)
           /\ AffirmationOf(id, PushedOut(d, now)) = AffirmationOf(id, d)
           /\ AffirmationOf(id, NotifyFailed(d, k)) = AffirmationOf(id, d)
BY DEF AffirmationOf, AfterStart, Lapsed, PushedOut, NotifyFailed, Definition

-----------------------------------------------------------------------------
(* Type correctness.                                                         *)

\* The store calls keep the stored definitions typed.
LEMMA StoreType ==
    ASSUME TypeOK, NEW id \in DefIds, NEW d \in Definition,
           UpdateSucceeds(id, d) \/ UpdateFails(id)
    PROVE  /\ defs' \in [DefIds -> Definition \cup {NoDef}] /\ faults' \in Nat
           /\ \A i \in DefIds : defs'[i] = NoDef <=> defs[i] = NoDef
BY DEF TypeOK, UpdateSucceeds, UpdateFails, DiskFault

\* Returning from RunDefinition leaves a well-formed goroutine.
LEMMA ReturnedType ==
    ASSUME TypeInv, NEW p \in Callers, NEW ok \in BOOLEAN, proc[p].id \in DefIds
    PROVE  /\ Returned(p, ok) \in Proc /\ Idle \in Proc
           /\ ListedAfter(p, ok) \in [DefIds -> Definition \cup {NoDef}]
BY DEF TypeInv, TypeOK, Returned, ListedAfter, Proc, Labels, Idle, Callers, Procs

\* The record handleReauthorise builds says what the person stated.
LEMMA RenewalRecorded ==
    ASSUME TypeInv, NEW id \in Stored, NEW op \in Operators, NEW days \in DayChoices
    PROVE  AffirmationOf(id, Reaffirmed(defs[id], op, days, clock)) = Renewal(id, op, days)
<1>1. defs[id] \in Definition
  BY DEF TypeInv, TypeOK, Stored
<1>2. ASSUME NEW d \in Definition, NEW n
      PROVE  AffirmationOf(id, [d EXCEPT !.op = op, !.at = clock,
                 !.days = IF days > 0 THEN days ELSE @, !.skip = NoReason, !.next = n])
             = [id |-> id, op |-> op, at |-> clock,
                days |-> IF days > 0 THEN days ELSE d.days]
  BY DEF AffirmationOf, Definition
<1> QED BY <1>1, <1>2 DEF Reaffirmed, Renewal

\* A step that moves one goroutine keeps the others as they were.
LEMMA OneMoves ==
    ASSUME TypeInv, NEW p \in Procs, NEW e \in Proc, Fits(e),
           proc' = [proc EXCEPT ![p] = e]
    PROVE  /\ proc' \in [Procs -> Proc]
           /\ \A q \in Procs : Fits(proc'[q])
           /\ proc'[p] = e /\ \A q \in Procs \ {p} : proc'[q] = proc[q]
BY DEF TypeInv, TypeOK, Shape

\* The type invariant holds of a fresh data directory.
LEMMA TypeInvInit == Init => TypeInv
BY DEF Init, TypeInv, TypeOK, Shape, ListedFits, Fits, Idle, Proc, Labels, Procs

\* Steps of a handler or of the scheduler inside RunDefinition.
LEMMA RunStepType == ASSUME TypeInv, NEW p \in Callers, RunStep(p) PROVE TypeInv'
<1> USE DEF TypeInv
<1>0. p \in Procs /\ Sched \in Procs /\ p \notin JobIds /\ proc[p] \in Proc /\ Fits(proc[p])
  BY DEF Callers, Procs, TypeOK, Shape
<1>1. CASE RunGet(p)
  <2> DEFINE d == defs[proc[p].id]
             e == IF d # NoDef /\ MayRun(d, proc[p].now)
                  THEN [proc[p] EXCEPT !.pc = "count", !.d = d]
                  ELSE Returned(p, FALSE)
  <2>1. proc[p].id \in DefIds /\ d \in Definition \cup {NoDef}
    BY <1>0, <1>1 DEF RunGet, At, Fits, TypeOK
  <2>2. e \in Proc /\ Fits(e)
    BY <1>0, <2>1, ReturnedType DEF Fits, Proc, Labels, Returned, Idle
  <2>3. proc' = [proc EXCEPT ![p] = e]
    BY <1>0, <1>1 DEF RunGet, TypeOK
  <2>4. e.pc \in {"count", "refuse", "idle"} /\ (p = Sched => e.id = proc[p].id)
    BY <1>0 DEF Returned, Idle, Proc
  <2> HIDE DEF e
  <2> QED BY <1>0, <1>1, <2>2, <2>3, <2>4, OneMoves
          DEF RunGet, At, TypeOK, Shape, ListedFits, Procs, Callers
<1>2. CASE RunCount(p)
  <2> DEFINE e == IF AtCap(Cardinality(Active), MaxActiveJobs)
                  THEN Returned(p, FALSE) ELSE [proc[p] EXCEPT !.pc = "create"]
  <2>1. proc[p].id \in DefIds /\ proc[p].d # NoDef
    BY <1>0, <1>2 DEF RunCount, At, Fits
  <2>2. e \in Proc /\ Fits(e)
    BY <1>0, <2>1, ReturnedType DEF Fits, Proc, Labels, Returned, Idle
  <2>3. proc' = [proc EXCEPT ![p] = e]
    BY <1>0, <1>2 DEF RunCount, TypeOK
  <2>4. e.pc \in {"create", "refuse", "idle"} /\ (p = Sched => e.id = proc[p].id)
    BY <1>0 DEF Returned, Idle, Proc
  <2> HIDE DEF e
  <2> QED BY <1>0, <1>2, <2>2, <2>3, <2>4, OneMoves
          DEF RunCount, At, TypeOK, Shape, ListedFits, Procs, Callers
<1>3. CASE RunCreate(p)
  <2>1. proc[p].id \in DefIds /\ proc[p].d \in Definition
    BY <1>0, <1>3 DEF RunCreate, At, Fits, Proc
  <2>2. \A state \in {"active", "refused"} : NewJob(p, state) \in Job
    BY <1>0, <2>1 DEF NewJob, Job, TypeOK, Proc, Definition
  <2>3. Len(jobs) + 1 \in JobIds /\ Len(jobs) \in Nat /\ Len(jobs) + 1 # p
    BY <1>0, <1>3 DEF RunCreate, JobIds, TypeOK
  <2>4. Returned(p, FALSE) \in Proc /\ Fits(Returned(p, FALSE))
        /\ Returned(p, FALSE).pc \in {"refuse", "idle"}
        /\ (p = Sched => Returned(p, FALSE).id = proc[p].id)
    BY <1>0, <2>1, ReturnedType DEF Returned, Idle, Fits
  <2>5. CASE /\ proc' = [proc EXCEPT ![p] = Returned(p, FALSE)]
             /\ jobs' = jobs \/ jobs' = Append(jobs, NewJob(p, "refused"))
             /\ UNCHANGED faults \/ DiskFault
    <3>1. jobs' \in Seq(Job) /\ Len(jobs') <= MaxJobs /\ Len(jobs) <= Len(jobs')
      <4>1. jobs \in Seq(Job) /\ Len(jobs) <= MaxJobs
        BY DEF TypeOK
      <4>2. CASE jobs' = jobs
        BY <2>3, <4>1, <4>2
      <4>3. CASE jobs' = Append(jobs, NewJob(p, "refused"))
        BY <2>2, <2>3, <4>1, <4>3 DEF JobIds
      <4> QED BY <2>5, <4>2, <4>3
    <3>2. faults' \in Nat
      BY <2>5 DEF DiskFault, TypeOK
    <3>3. proc' \in [Procs -> Proc] /\ (\A q \in Procs : Fits(proc'[q]))
          /\ proc'[p] = Returned(p, FALSE)
          /\ \A q \in Procs \ {p} : proc'[q] = proc[q]
      BY <1>0, <2>4, <2>5, OneMoves
    <3>4. ListedFits'
      BY <1>0, <1>3, <2>4, <3>3 DEF RunCreate, At, Shape, ListedFits
    <3>5. \A k \in JobIds : proc'[k].pc # "idle" => k <= Len(jobs')
      <4> SUFFICES ASSUME NEW k \in JobIds, proc'[k].pc # "idle"
                   PROVE  k <= Len(jobs')
        OBVIOUS
      <4>1. k <= Len(jobs) /\ k \in Nat
        BY <1>0, <3>3 DEF Shape, JobIds, Procs
      <4>2. Len(jobs) \in Nat /\ Len(jobs') \in Nat
        BY <2>3, <3>1
      <4> QED BY <3>1, <4>1, <4>2
    <3> QED BY <1>3, <3>1, <3>2, <3>3, <3>4, <3>5 DEF RunCreate, TypeOK, Shape
  <2>6. CASE /\ jobs' = Append(jobs, NewJob(p, "active"))
             /\ proc' = [proc EXCEPT
                    ![p] = [@ EXCEPT !.pc = "update"],
                    ![Len(jobs) + 1] = [Idle EXCEPT !.pc = "run", !.id = proc[p].id]]
             /\ UNCHANGED faults
    <3> DEFINE e == [proc[p] EXCEPT !.pc = "update"]
               g == [Idle EXCEPT !.pc = "run", !.id = proc[p].id]
               n == Len(jobs) + 1
    <3>1. jobs' \in Seq(Job) /\ Len(jobs') <= MaxJobs /\ Len(jobs') = n
      BY <1>3, <2>2, <2>6 DEF RunCreate, TypeOK
    <3>2. e \in Proc /\ Fits(e) /\ g \in Proc /\ Fits(g)
          /\ e.pc = "update" /\ e.id = proc[p].id
      BY <1>0, <2>1 DEF Proc, Labels, Fits, Idle
    <3>3. proc' \in [Procs -> Proc] /\ proc'[p] = e /\ proc'[n] = g
          /\ \A q \in Procs \ {p, n} : proc'[q] = proc[q]
      BY <1>0, <2>3, <2>6, <3>2 DEF TypeOK, Procs
    <3> HIDE DEF e, g
    <3>4. \A q \in Procs : Fits(proc'[q])
      BY <3>2, <3>3 DEF Shape
    <3>5. ListedFits'
      BY <1>0, <1>3, <2>3, <3>2, <3>3 DEF RunCreate, At, Shape, ListedFits
    <3>6. \A k \in JobIds : proc'[k].pc # "idle" => k <= Len(jobs')
      BY <1>0, <2>3, <3>1, <3>3 DEF Shape, JobIds, Procs
    <3> QED BY <1>3, <2>6, <3>1, <3>3, <3>4, <3>5, <3>6 DEF RunCreate, TypeOK, Shape
  <2> QED BY <1>3, <2>5, <2>6 DEF RunCreate
<1>4. CASE RunUpdate(p)
  <2> DEFINE id == proc[p].id
  <2>1. id \in DefIds /\ proc[p].d \in Definition /\ proc[p].now \in Nat
    BY <1>0, <1>4 DEF RunUpdate, At, Fits, Proc
  <2>2. AfterStart(proc[p].d, proc[p].now) \in Definition
    BY <2>1, DefinitionsClosed, <1>0 DEF Definition
  <2>3. defs' \in [DefIds -> Definition \cup {NoDef}] /\ faults' \in Nat
    BY <1>4, <2>1, <2>2, StoreType DEF RunUpdate
  <2>4. PICK ok \in BOOLEAN : /\ proc' = [proc EXCEPT ![p] = Returned(p, ok)]
                              /\ listed' = ListedAfter(p, ok)
    BY <1>4 DEF RunUpdate
  <2>5. Returned(p, ok) \in Proc /\ Fits(Returned(p, ok))
        /\ listed' \in [DefIds -> Definition \cup {NoDef}]
    BY <2>1, <2>4, ReturnedType DEF Returned, Fits, Idle
  <2>6. proc' \in [Procs -> Proc] /\ (\A q \in Procs : Fits(proc'[q]))
        /\ proc'[p] = Returned(p, ok) /\ \A q \in Procs \ {p} : proc'[q] = proc[q]
    BY <1>0, <2>4, <2>5, OneMoves
  <2>7. ListedFits'
    BY <1>0, <1>4, <2>4, <2>6 DEF RunUpdate, At, Shape, ListedFits, Returned, ListedAfter, Idle
  <2> QED BY <1>0, <1>4, <2>3, <2>5, <2>6, <2>7 DEF RunUpdate, TypeOK, Shape, Procs
<1> QED BY <1>1, <1>2, <1>3, <1>4 DEF RunStep

\* What the end of a job, and the naming of its baseline, do to the records.
EndStates == {"active", "completed", "failed"}

EndSteps(k) == {Idle, [proc[k] EXCEPT !.pc = "baseline", !.now = clock],
                [proc[k] EXCEPT !.pc = "after"]}

\* The end of a job, or the naming of its baseline, moves that job's process and
\* the job's own state, and touches no definition.
LEMMA EndEffect ==
    ASSUME TypeInv, NEW k \in JobIds, JobEnds(k) \/ RecordBaseline(k)
    PROVE  /\ proc[k].pc \in {"run", "baseline"} /\ k \in DOMAIN jobs /\ proc[k].id \in DefIds
           /\ \E state \in EndStates \cup {jobs[k].state}, e \in EndSteps(k) :
                /\ jobs' = [jobs EXCEPT ![k].state = state]
                /\ proc' = [proc EXCEPT ![k] = e]
           /\ faults' \in Nat
           /\ UNCHANGED <<clock, defs, used, listed, requests, crashes, affirmed, acked, noted>>
<1>1. proc[k].pc \in {"run", "baseline"}
  BY DEF JobEnds, RecordBaseline, At
<1>2. k \in DOMAIN jobs /\ proc[k].id \in DefIds /\ jobs \in Seq(Job)
  BY <1>1 DEF TypeInv, TypeOK, Shape, Fits, JobIds, Procs
<1>3. jobs = [jobs EXCEPT ![k].state = jobs[k].state]
  <2>1. jobs[k] \in Job
    BY <1>2
  <2>2. [jobs[k] EXCEPT !.state = jobs[k].state] = jobs[k]
    BY <2>1 DEF Job
  <2> QED BY <1>2, <2>2
<1>4. faults' \in Nat
  BY DEF JobEnds, RecordBaseline, DiskFault, TypeInv, TypeOK
<1>5. CASE JobEnds(k)
  BY <1>1, <1>2, <1>4, <1>5 DEF JobEnds, EndStates, EndSteps
<1>6. CASE RecordBaseline(k)
  <2>1. \E state \in EndStates \cup {jobs[k].state} : jobs' = [jobs EXCEPT ![k].state = state]
    BY <1>3, <1>6 DEF RecordBaseline, EndStates
  <2>2. proc' = [proc EXCEPT ![k] = [proc[k] EXCEPT !.pc = "after"]]
    BY <1>6 DEF RecordBaseline, TypeInv, TypeOK
  <2> QED BY <1>1, <1>2, <1>4, <1>6, <2>1, <2>2 DEF RecordBaseline, EndSteps
<1> QED BY <1>5, <1>6

\* Every step of every goroutine, the clock's and a restart keep it.
LEMMA TypeInvNext == TypeInv /\ [Next]_vars => TypeInv'
<1> SUFFICES ASSUME TypeInv, [Next]_vars PROVE TypeInv'
  OBVIOUS
<1> USE DEF TypeInv
<1>0. Sched \in Procs /\ Threads \subseteq Procs /\ JobIds \subseteq Procs
      /\ JobIds \subseteq Nat /\ Idle \in Proc /\ Fits(Idle) /\ Idle.pc = "idle"
  BY DEF Procs, JobIds, Idle, Proc, Labels, Fits
<1>1. CASE UNCHANGED vars
  BY <1>1 DEF vars, TypeOK, Shape, ListedFits
<1>2. CASE Tick
  BY <1>2 DEF Tick, TypeOK, Shape, ListedFits
<1>3. CASE Crash
  <2>1. proc' \in [Procs -> Proc] /\ (\A p \in Procs : Fits(proc'[p]))
        /\ \A p \in Procs : proc'[p].pc = "idle"
    BY <1>0, <1>3 DEF Crash
  <2> QED BY <1>0, <1>3, <2>1 DEF Crash, TypeOK, Shape, ListedFits
<1>4. CASE SchedWake
  BY <1>4 DEF SchedWake, TypeOK, Shape, ListedFits, Fits, At, Idle, Proc, Labels, Procs
<1>5. CASE SchedList
  BY <1>5 DEF SchedList, DueIn, TypeOK, Shape, ListedFits, Fits, At, Proc, Labels, Procs
<1>6. CASE SchedRefused
  <2> DEFINE id == proc[Sched].id
             e == [proc[Sched] EXCEPT !.pc = "scan", !.id = NoDef]
  <2>1. id \in DefIds /\ listed[id] \in Definition /\ proc[Sched].now \in Nat
        /\ listed[id].op \in Operators
    BY <1>0, <1>6 DEF SchedRefused, At, Shape, ListedFits, Fits, TypeOK, Proc, Definition
  <2>2. defs' \in [DefIds -> Definition \cup {NoDef}] /\ faults' \in Nat
    BY <1>6, <2>1, DefinitionsClosed, StoreType DEF SchedRefused
  <2>3. e \in Proc /\ Fits(e) /\ e.pc = "scan"
    BY <1>0 DEF TypeOK, Proc, Labels, Fits
  <2>4. proc' = [proc EXCEPT ![Sched] = e]
    BY <1>6 DEF SchedRefused
  <2> HIDE DEF e
  <2> QED BY <1>0, <1>6, <2>2, <2>3, <2>4, OneMoves
          DEF SchedRefused, TypeOK, Shape, ListedFits
<1>7. CASE SchedDone
  BY <1>7 DEF SchedDone, TypeOK, Shape, ListedFits, Fits, At, Idle, Proc, Labels, Procs
<1>8. ASSUME NEW id \in DefIds, SchedLapsed(id) PROVE TypeInv'
  <2>1. listed[id] \in Definition /\ listed[id].op \in Operators
    BY <1>8 DEF SchedLapsed, TypeOK, Definition
  <2>2. Lapsed(listed[id]) \in Definition
    BY <2>1, DefinitionsClosed, 0 \in Nat
  <2>3. defs' \in [DefIds -> Definition \cup {NoDef}] /\ faults' \in Nat
    BY <1>8, <2>2, StoreType DEF SchedLapsed, RecordLapse, TypeOK
  <2> QED BY <1>0, <1>8, <2>3 DEF SchedLapsed, At, TypeOK, Shape, ListedFits
<1>9. ASSUME NEW id \in DefIds, SchedRun(id) PROVE TypeInv'
  BY <1>9 DEF SchedRun, Calling, TypeOK, Shape, ListedFits, Fits, At, Proc, Labels, Procs
<1>10. ASSUME NEW p \in Callers, RunStep(p) PROVE TypeInv'
  BY <1>10, RunStepType
<1>11. ASSUME NEW t \in Threads, SaveList(t) PROVE TypeInv'
  <2>0. UNCHANGED <<clock, defs, used, jobs, listed, faults, crashes,
                    affirmed, acked, noted>> /\ requests' \in Nat
    BY <1>11 DEF SaveList, Request, TypeOK
  <2>1. CASE UNCHANGED proc
    BY <2>0, <2>1 DEF TypeOK, Shape, ListedFits
  <2>2. ASSUME NEW op \in Operators, NEW days \in DayChoices, NEW n \in Intervals,
               NEW s \in Survives, NEW notify \in Notifies,
               proc' = [proc EXCEPT ![t] =
                    [pc |-> "save", id |-> NoDef, now |-> clock,
                     d |-> NewDefinition(op, days, n, s, notify, clock)]]
        PROVE  TypeInv'
    <3> DEFINE d == NewDefinition(op, days, n, s, notify, clock)
               e == [pc |-> "save", id |-> NoDef, now |-> clock, d |-> d]
    <3>1. d \in Definition
      BY NewDefinitionType DEF TypeOK
    <3> HIDE DEF d
    <3>2. e \in Proc /\ Fits(e)
      BY <3>1 DEF Proc, Labels, Fits, TypeOK
    <3> USE DEF d
    <3>3. proc' = [proc EXCEPT ![t] = e]
      BY <2>2
    <3> HIDE DEF e
    <3> QED BY <1>0, <2>0, <3>2, <3>3, OneMoves DEF TypeOK, Shape, ListedFits
  <2> QED BY <1>11, <2>1, <2>2 DEF SaveList
<1>12. ASSUME NEW t \in Threads, SaveCreate(t) PROVE TypeInv'
  <2>1. proc[t].d \in Definition
    BY <1>0, <1>12 DEF SaveCreate, At, TypeOK, Shape, Fits, Proc
  <2>2. \A id \in DefIds : AffirmationOf(id, proc[t].d) \in Affirmation
    BY <2>1 DEF AffirmationOf, Affirmation, Definition
  <2>3. proc' \in [Procs -> Proc] /\ (\A q \in Procs : Fits(proc'[q]))
        /\ proc'[t] = Idle /\ \A q \in Procs \ {t} : proc'[q] = proc[q]
    BY <1>0, <1>12, OneMoves DEF SaveCreate
  <2>4. TypeOK'
    BY <1>12, <2>1, <2>2, <2>3 DEF SaveCreate, DiskFault, TypeOK
  <2>5. Shape'
    BY <1>0, <1>12, <2>3 DEF SaveCreate, Shape, ListedFits
  <2> QED BY <2>4, <2>5
<1>13. ASSUME NEW t \in Threads, Delete(t) PROVE TypeInv'
  BY <1>13 DEF Delete, Request, Stored, DiskFault, TypeOK, Shape, ListedFits
<1>14. ASSUME NEW t \in Threads, ReauthoriseRead(t) PROVE TypeInv'
  <2>1. PICK id \in Stored, op \in Operators, days \in DayChoices :
            /\ proc' = [proc EXCEPT ![t] =
                    [pc |-> "reauthorise", id |-> id, now |-> clock,
                     d |-> Reaffirmed(defs[id], op, days, clock)]]
            /\ affirmed' = affirmed \cup {Renewal(id, op, days)}
    BY <1>14 DEF ReauthoriseRead
  <2> DEFINE d == Reaffirmed(defs[id], op, days, clock)
             e == [pc |-> "reauthorise", id |-> id, now |-> clock, d |-> d]
  <2>2. d \in Definition /\ id \in DefIds
    BY DefinitionsClosed DEF Stored, TypeOK
  <2>3. proc' = [proc EXCEPT ![t] = e] /\ affirmed' = affirmed \cup {AffirmationOf(id, d)}
    BY <1>0, <2>1, RenewalRecorded
  <2> HIDE DEF d
  <2>4. e \in Proc /\ Fits(e) /\ AffirmationOf(id, d) \in Affirmation
    BY <2>2 DEF Proc, Labels, Fits, TypeOK, AffirmationOf, Affirmation, Definition
  <2> HIDE DEF e
  <2> QED BY <1>0, <1>14, <2>3, <2>4, OneMoves
          DEF ReauthoriseRead, Request, TypeOK, Shape, ListedFits
<1>15. ASSUME NEW t \in Threads, ReauthoriseWrite(t) PROVE TypeInv'
  <2>1. proc[t].d \in Definition /\ proc[t].id \in DefIds
    BY <1>0, <1>15 DEF ReauthoriseWrite, At, TypeOK, Shape, Fits, Proc
  <2>2. AffirmationOf(proc[t].id, proc[t].d) \in Affirmation
    BY <2>1 DEF AffirmationOf, Affirmation, Definition
  <2>3. defs' \in [DefIds -> Definition \cup {NoDef}] /\ faults' \in Nat
    BY <1>15, <2>1, StoreType DEF ReauthoriseWrite
  <2>4. proc' = [proc EXCEPT ![t] = Idle]
    BY <1>15 DEF ReauthoriseWrite
  <2> QED BY <1>0, <1>15, <2>1, <2>2, <2>3, <2>4, OneMoves
          DEF ReauthoriseWrite, TypeOK, Shape, ListedFits
<1>16. ASSUME NEW t \in Threads, RunRequest(t) PROVE TypeInv'
  BY <1>16 DEF RunRequest, Request, Calling, TypeOK, Shape, ListedFits, Fits, At, Proc, Labels, Procs
<1>17. ASSUME NEW k \in JobIds, JobEnds(k) \/ RecordBaseline(k) PROVE TypeInv'
  <2>1. PICK state \in EndStates \cup {jobs[k].state}, e \in EndSteps(k) :
            jobs' = [jobs EXCEPT ![k].state = state] /\ proc' = [proc EXCEPT ![k] = e]
    BY <1>0, <1>17, EndEffect
  <2>2. /\ proc[k] \in Proc /\ proc[k].id \in DefIds /\ k \in DOMAIN jobs /\ k <= Len(jobs)
        /\ faults' \in Nat
        /\ UNCHANGED <<clock, defs, used, listed, requests, crashes, affirmed, acked, noted>>
    BY <1>0, <1>17, EndEffect DEF Procs, TypeOK, Shape
  <2>3. jobs[k] \in Job /\ k \in 1..Len(jobs)
    BY <2>2 DEF TypeOK
  <2>4. [jobs[k] EXCEPT !.state = state] \in Job
    BY <2>3 DEF Job, EndStates
  <2>5. jobs' \in Seq(Job) /\ Len(jobs') = Len(jobs)
    BY <2>1, <2>3, <2>4 DEF TypeOK
  <2>6. e \in Proc /\ Fits(e)
    <3>1. CASE e = Idle
      BY <1>0, <3>1
    <3>2. CASE e = [proc[k] EXCEPT !.pc = "baseline", !.now = clock]
      BY <2>2, <3>2 DEF Proc, Labels, Fits, TypeOK
    <3>3. CASE e = [proc[k] EXCEPT !.pc = "after"]
      BY <2>2, <3>3 DEF Proc, Labels, Fits
    <3> QED BY <3>1, <3>2, <3>3 DEF EndSteps
  <2> QED BY <1>0, <2>1, <2>2, <2>5, <2>6, OneMoves
          DEF TypeOK, Shape, ListedFits
<1>18. ASSUME NEW k \in JobIds, AfterGet(k) PROVE TypeInv'
  <2> DEFINE d == defs[proc[k].id]
             e == [proc[k] EXCEPT !.pc = "notify", !.d = d]
  <2>1. proc[k].pc = "after" /\ proc[k] \in Proc /\ proc[k].id \in DefIds
        /\ d \in Definition \cup {NoDef}
    BY <1>0, <1>18 DEF AfterGet, At, TypeOK, Shape, Fits
  <2>2. d # NoDef => e \in Proc /\ Fits(e)
    BY <2>1 DEF Proc, Labels, Fits
  <2>3. \/ proc' = [proc EXCEPT ![k] = Idle]
        \/ d # NoDef /\ proc' = [proc EXCEPT ![k] = e]
    BY <1>18 DEF AfterGet
  <2> HIDE DEF e
  <2> QED BY <1>0, <1>18, <2>1, <2>2, <2>3, OneMoves
          DEF AfterGet, TypeOK, Shape, ListedFits
<1>19. ASSUME NEW k \in JobIds, NotifySent(k) PROVE TypeInv'
  BY <1>0, <1>19, OneMoves DEF NotifySent, TypeOK, Shape, ListedFits
<1>20. ASSUME NEW k \in JobIds, NotifyFails(k) PROVE TypeInv'
  <2>1. proc[k].d \in Definition /\ proc[k].id \in DefIds
    BY <1>0, <1>20 DEF NotifyFails, At, TypeOK, Shape, Fits, Proc
  <2>2. NotifyFailed(proc[k].d, k) \in Definition
    BY <1>0, <2>1, DefinitionsClosed, 0 \in Nat DEF Definition
  <2>3. defs' \in [DefIds -> Definition \cup {NoDef}] /\ faults' \in Nat
    BY <1>20, <2>1, <2>2, StoreType DEF NotifyFails
  <2>4. proc' = [proc EXCEPT ![k] = Idle] /\ noted' \subseteq Nat
    BY <1>0, <1>20 DEF NotifyFails, TypeOK
  <2> QED BY <1>0, <1>20, <2>3, <2>4, OneMoves
          DEF NotifyFails, TypeOK, Shape, ListedFits
<1> QED
  BY <1>1, <1>2, <1>3, <1>4, <1>5, <1>6, <1>7, <1>8, <1>9, <1>10, <1>11, <1>12,
     <1>13, <1>14, <1>15, <1>16, <1>17, <1>18, <1>19, <1>20
  DEF Next, SchedStep, Arrival, HandlerStep, JobStep, Callers

\* Every variable keeps its type, and every goroutine holds what its place in
\* the code says it holds.
THEOREM TypeCorrect == Spec => []TypeOK
<1>1. Spec => []TypeInv
  BY TypeInvInit, TypeInvNext, PTL DEF Spec
<1> QED BY <1>1, PTL DEF TypeInv

-----------------------------------------------------------------------------
(* Authorisation.                                                            *)

\* A clone of assessment id carries an authorisation some human gave for it.
Genuine(id, d) == AffirmationOf(id, d) \in affirmed

\* The strengthening of RunsAreAuthorised.  Nothing less is inductive: a run
\* is only as good as the clone it starts from, which may have been read from
\* the store, which holds whatever some other clone was written back as.
StoreGenuine ==
    /\ \A id \in Stored : Genuine(id, defs[id])
    /\ \A id \in DefIds : listed[id] # NoDef => Genuine(id, listed[id])

\* Of a goroutine e, against the affirmations `given` at time `now`.
CloneFits(e, given, now) ==
    /\ e.pc \in {"reauthorise", "count", "create", "update", "notify"}
        => AffirmationOf(e.id, e.d) \in given
    /\ e.pc \in {"count", "create"} => e.now < AuthorisationExpires(e.d)
    /\ e.pc = "save" => e.d.at <= now

ClonesGenuine == \A p \in Procs : CloneFits(proc[p], affirmed, clock)

AffirmedInPast == \A a \in affirmed : a.at <= clock

RunningNotRefused ==
    \A k \in JobIds : proc[k].pc \in {"run", "baseline"} => jobs[k].state # "refused"

AuthInv ==
    /\ StoreGenuine /\ ClonesGenuine /\ AffirmedInPast
    /\ RunningNotRefused /\ RunsAreAuthorised

\* A clone read and checked by RunDefinition covers the run it starts.
LEMMA CheckedCloneCovers ==
    ASSUME NEW d \in Definition, NEW now \in Nat, now < AuthorisationExpires(d)
    PROVE  now < AddDays(d.at, d.days)
BY DEF AuthorisationExpires, AuthorisationDays, Definition

\* The store stays genuine when what is written back is a clone that was.
LEMMA WriteBackGenuine ==
    ASSUME TypeInv, StoreGenuine, NEW id \in DefIds, NEW d \in Definition,
           UpdateSucceeds(id, d) \/ UpdateFails(id), Genuine(id, d),
           affirmed' = affirmed
    PROVE  \A i \in DefIds : defs'[i] # NoDef => AffirmationOf(i, defs'[i]) \in affirmed'
BY DEF TypeInv, TypeOK, StoreGenuine, Stored, Genuine, UpdateSucceeds, UpdateFails

\* A step that starts no run and leaves the jobs' states alone keeps the
\* started runs covered: affirmations are never taken back.
LEMMA RunsStayAuthorised ==
    ASSUME RunsAreAuthorised, jobs' = jobs, affirmed \subseteq affirmed'
    PROVE  RunsAreAuthorised'
BY DEF RunsAreAuthorised

\* Nothing recorded of a goroutine is undone by the passing of time or by
\* another affirmation.
LEMMA CloneFitsStays ==
    ASSUME TypeInv, NEW q \in Procs, CloneFits(proc[q], affirmed, clock),
           affirmed \subseteq affirmed', clock' \in Nat, clock <= clock'
    PROVE  CloneFits(proc[q], affirmed', clock')
<1>1. proc[q].pc = "save" => proc[q].d.at \in Nat
  BY DEF TypeInv, TypeOK, Shape, Fits, Proc, Definition
<1> QED BY <1>1 DEF CloneFits, TypeInv, TypeOK

\* A goroutine that moves to a genuine clone leaves every goroutine with one.
LEMMA ClonesStayGenuine ==
    ASSUME TypeInv, ClonesGenuine, NEW p \in Procs, NEW e \in Proc, Fits(e),
           CloneFits(e, affirmed', clock'), proc' = [proc EXCEPT ![p] = e],
           affirmed \subseteq affirmed', clock' \in Nat, clock <= clock'
    PROVE  ClonesGenuine'
<1>1. \A q \in Procs : CloneFits(proc[q], affirmed', clock')
  BY CloneFitsStays DEF ClonesGenuine
<1> QED BY <1>1, OneMoves DEF ClonesGenuine

\* A step of one goroutine that leaves the store, the list, the jobs, the
\* clock and the affirmations alone and does not enter a run.
LEMMA LocalStep ==
    ASSUME TypeInv, AuthInv, NEW p \in Procs, NEW e \in Proc, Fits(e),
           CloneFits(e, affirmed, clock), e.pc \notin {"run", "baseline"},
           proc' = [proc EXCEPT ![p] = e],
           UNCHANGED <<clock, defs, listed, jobs, affirmed>>
    PROVE  AuthInv'
<1>1. clock' \in Nat /\ clock <= clock' /\ affirmed \subseteq affirmed'
      /\ CloneFits(e, affirmed', clock')
  BY DEF TypeInv, TypeOK
<1>2. ClonesGenuine'
  BY <1>1, ClonesStayGenuine DEF AuthInv
<1>3. RunningNotRefused'
  BY OneMoves DEF AuthInv, RunningNotRefused, Procs
<1>4. RunsAreAuthorised'
  BY RunsStayAuthorised DEF AuthInv
<1> QED BY <1>2, <1>3, <1>4 DEF AuthInv, StoreGenuine, Stored, Genuine, AffirmedInPast

\* The same for a step that also writes a genuine clone back, or fails to.
LEMMA WriteBackStep ==
    ASSUME TypeInv, AuthInv, NEW p \in Procs, NEW e \in Proc, Fits(e),
           CloneFits(e, affirmed, clock), e.pc \notin {"run", "baseline"},
           proc' = [proc EXCEPT ![p] = e],
           NEW id \in DefIds, NEW d \in Definition, Genuine(id, d),
           UpdateSucceeds(id, d) \/ UpdateFails(id),
           \A i \in DefIds : listed'[i] = listed[i] \/ listed'[i] = NoDef,
           UNCHANGED <<clock, jobs, affirmed>>
    PROVE  AuthInv'
<1>1. clock' \in Nat /\ clock <= clock' /\ affirmed \subseteq affirmed'
      /\ CloneFits(e, affirmed', clock')
  BY DEF TypeInv, TypeOK
<1>2. ClonesGenuine'
  BY <1>1, ClonesStayGenuine DEF AuthInv
<1>3. RunningNotRefused'
  BY OneMoves DEF AuthInv, RunningNotRefused, Procs
<1>4. RunsAreAuthorised'
  BY RunsStayAuthorised DEF AuthInv
<1>5. StoreGenuine'
  BY WriteBackGenuine DEF AuthInv, StoreGenuine, Stored, Genuine
<1> QED BY <1>2, <1>3, <1>4, <1>5 DEF AuthInv, AffirmedInPast

\* With nothing stored and nothing running, authorisations are genuine.
LEMMA AuthInvInit == Init => AuthInv
BY DEF Init, AuthInv, StoreGenuine, ClonesGenuine, CloneFits, AffirmedInPast,
       RunningNotRefused, RunsAreAuthorised, Stored, Idle, Procs

\* RunDefinition keeps the invariant: the one place a run comes from.
LEMMA AuthRunStep ==
    ASSUME TypeInv, AuthInv, NEW p \in Callers, RunStep(p) PROVE AuthInv'
<1>0. /\ p \in Procs /\ p \notin JobIds /\ proc[p] \in Proc /\ Fits(proc[p])
      /\ CloneFits(proc[p], affirmed, clock) /\ clock \in Nat
  BY DEF Callers, Procs, TypeInv, TypeOK, Shape, AuthInv, ClonesGenuine
<1>1. \A ok \in BOOLEAN : proc[p].id \in DefIds =>
        /\ Returned(p, ok) \in Proc /\ Fits(Returned(p, ok))
        /\ CloneFits(Returned(p, ok), affirmed, clock)
        /\ Returned(p, ok).pc \notin {"run", "baseline"}
  BY <1>0, ReturnedType DEF Returned, Idle, Fits, CloneFits
<1>2. CASE RunGet(p)
  <2> DEFINE d == defs[proc[p].id]
             go == [proc[p] EXCEPT !.pc = "count", !.d = d]
  <2>1. proc[p].id \in DefIds /\ d \in Definition \cup {NoDef}
    BY <1>0, <1>2 DEF RunGet, At, Fits, TypeInv, TypeOK
  <2>2. CASE d # NoDef /\ MayRun(d, proc[p].now)
    <3>1. go \in Proc /\ Fits(go) /\ go.pc = "count" /\ go.d = d
          /\ go.id = proc[p].id /\ go.now = proc[p].now
      BY <1>0, <2>1, <2>2 DEF Fits, Proc, Labels
    <3>2. AffirmationOf(go.id, go.d) \in affirmed
      BY <2>1, <2>2, <3>1 DEF AuthInv, StoreGenuine, Stored, Genuine
    <3>3. CloneFits(go, affirmed, clock)
      BY <2>2, <3>1, <3>2 DEF CloneFits, MayRun, AuthorisationValid
    <3>4. proc' = [proc EXCEPT ![p] = go]
      BY <1>2, <2>2 DEF RunGet
    <3> HIDE DEF go
    <3> QED BY <1>0, <1>2, <3>1, <3>3, <3>4, LocalStep DEF RunGet
  <2>3. CASE ~(d # NoDef /\ MayRun(d, proc[p].now))
    BY <1>0, <1>1, <1>2, <2>1, <2>3, LocalStep DEF RunGet
  <2> QED BY <2>2, <2>3
<1>3. CASE RunCount(p)
  <2> DEFINE go == [proc[p] EXCEPT !.pc = "create"]
  <2>1. proc[p].id \in DefIds /\ proc[p].pc = "count"
    BY <1>0, <1>3 DEF RunCount, At, Fits
  <2>2. go \in Proc /\ Fits(go) /\ CloneFits(go, affirmed, clock) /\ go.pc \notin {"run", "baseline"}
    BY <1>0, <2>1 DEF Fits, CloneFits, Proc, Labels
  <2>3. \/ proc' = [proc EXCEPT ![p] = go]
        \/ proc' = [proc EXCEPT ![p] = Returned(p, FALSE)]
    BY <1>3 DEF RunCount
  <2> HIDE DEF go
  <2> QED BY <1>0, <1>1, <1>3, <2>1, <2>2, <2>3, LocalStep DEF RunCount
<1>4. CASE RunCreate(p)
  <2>1. /\ proc[p].id \in DefIds /\ proc[p].d \in Definition /\ proc[p].now \in Nat
        /\ Genuine(proc[p].id, proc[p].d)
        /\ proc[p].now < AuthorisationExpires(proc[p].d)
    BY <1>0, <1>4 DEF RunCreate, At, Fits, Proc, CloneFits, Genuine
  <2>2. Len(jobs) \in Nat /\ Len(jobs) + 1 \in JobIds /\ jobs \in Seq(Job)
        /\ Len(jobs) + 1 # p /\ Len(jobs) + 1 \in Procs
    BY <1>0, <1>4 DEF RunCreate, JobIds, TypeInv, TypeOK, Procs
  <2>3. UNCHANGED <<clock, defs, listed, affirmed>>
    BY <1>4 DEF RunCreate
  <2>4. /\ StoreGenuine' /\ AffirmedInPast'
    BY <2>3 DEF AuthInv, StoreGenuine, Stored, Genuine, AffirmedInPast
  <2>5. CASE proc' = [proc EXCEPT ![p] = Returned(p, FALSE)] /\ jobs' = jobs
    BY <1>0, <1>1, <2>1, <2>3, <2>5, LocalStep
  <2>6. ASSUME NEW state \in {"active", "refused"},
               jobs' = Append(jobs, NewJob(p, state))
        PROVE  RunsAreAuthorised' /\ jobs'[Len(jobs) + 1].state = state
               /\ \A k \in DOMAIN jobs : jobs'[k] = jobs[k]
    <3> DEFINE j == NewJob(p, state)
    <3>1. j \in Job
      BY <1>0, <2>1 DEF NewJob, Job, Proc, Definition
    <3>2. /\ DOMAIN jobs' = 1..(Len(jobs) + 1) /\ DOMAIN jobs = 1..Len(jobs)
          /\ jobs'[Len(jobs) + 1] = j
          /\ \A k \in 1..Len(jobs) : jobs'[k] = jobs[k]
      BY <2>2, <2>6, <3>1
    <3>3. j.state = state /\ j.def = proc[p].id /\ j.op = proc[p].d.op
          /\ j.asked = proc[p].now /\ j.created = clock
      BY DEF NewJob
    <3> HIDE DEF j
    <3> DEFINE a == AffirmationOf(proc[p].id, proc[p].d)
    <3>4. a \in affirmed' /\ a.id = j.def /\ a.op = j.op
          /\ a.at <= j.created /\ a.at = proc[p].d.at /\ a.days = proc[p].d.days
      BY <2>1, <2>3, <3>3 DEF Genuine, AffirmationOf, AuthInv, AffirmedInPast
    <3>5. j.asked < AddDays(a.at, a.days)
      BY <2>1, <3>3, <3>4, CheckedCloneCovers
    <3> HIDE DEF a
    <3>6. ASSUME NEW k \in 1..Len(jobs), jobs[k].state # "refused"
          PROVE  \E b \in affirmed' :
                    /\ b.id = jobs'[k].def /\ b.op = jobs'[k].op
                    /\ b.at <= jobs'[k].created
                    /\ jobs'[k].asked < AddDays(b.at, b.days)
      BY <2>3, <3>2, <3>6 DEF AuthInv, RunsAreAuthorised
    <3>7. ASSUME NEW k \in DOMAIN jobs' PROVE k \in 1..Len(jobs) \/ k = Len(jobs) + 1
      BY <2>2, <3>2
    <3> QED BY <3>2, <3>3, <3>4, <3>5, <3>6, <3>7 DEF RunsAreAuthorised
  <2>7. CASE /\ proc' = [proc EXCEPT ![p] = Returned(p, FALSE)]
             /\ jobs' = Append(jobs, NewJob(p, "refused"))
    <3> DEFINE e == Returned(p, FALSE)
    <3>a. e \in Proc /\ Fits(e) /\ CloneFits(e, affirmed, clock)
          /\ proc' = [proc EXCEPT ![p] = e]
      BY <1>1, <2>1, <2>7
    <3> HIDE DEF e
    <3>b. clock' \in Nat /\ clock <= clock' /\ affirmed \subseteq affirmed'
          /\ CloneFits(e, affirmed', clock')
      BY <1>0, <2>3, <3>a
    <3>1. ClonesGenuine'
      BY <1>0, <3>a, <3>b, ClonesStayGenuine DEF AuthInv
    <3>2. \A q \in Procs \ {p} : proc'[q] = proc[q]
      BY <1>0, <1>1, <2>1, <2>7, OneMoves
    <3>3. ASSUME NEW k \in JobIds, proc'[k].pc \in {"run", "baseline"} PROVE jobs'[k].state # "refused"
      <4>1. proc[k].pc \in {"run", "baseline"} /\ k \in DOMAIN jobs
        BY <1>0, <2>2, <3>2, <3>3 DEF Procs, TypeInv, Shape, JobIds
      <4> QED BY <2>6, <2>7, <4>1 DEF AuthInv, RunningNotRefused
    <3> QED BY <2>4, <2>6, <2>7, <3>1, <3>3 DEF AuthInv, RunningNotRefused
  <2>8. CASE /\ jobs' = Append(jobs, NewJob(p, "active"))
             /\ proc' = [proc EXCEPT
                    ![p] = [@ EXCEPT !.pc = "update"],
                    ![Len(jobs) + 1] = [Idle EXCEPT !.pc = "run", !.id = proc[p].id]]
    <3> DEFINE e == [proc[p] EXCEPT !.pc = "update"]
               g == [Idle EXCEPT !.pc = "run", !.id = proc[p].id]
               n == Len(jobs) + 1
    <3>1. CloneFits(e, affirmed, clock) /\ CloneFits(g, affirmed, clock) /\ e.pc = "update"
      BY <1>0, <2>1 DEF CloneFits, Genuine, Proc, Idle
    <3>2. proc'[p] = e /\ proc'[n] = g /\ \A q \in Procs \ {p, n} : proc'[q] = proc[q]
      BY <1>0, <2>2, <2>8 DEF TypeInv, TypeOK
    <3> HIDE DEF e, g
    <3>3. ClonesGenuine'
      BY <2>3, <3>1, <3>2 DEF AuthInv, ClonesGenuine
    <3>4. ASSUME NEW k \in JobIds, proc'[k].pc \in {"run", "baseline"} PROVE jobs'[k].state # "refused"
      <4>1. CASE k = n
        BY <2>6, <2>8, <4>1
      <4>2. CASE k # n
        <5>1. proc[k].pc \in {"run", "baseline"} /\ k \in DOMAIN jobs
          BY <1>0, <2>2, <3>2, <3>4, <4>2 DEF Procs, TypeInv, Shape, JobIds
        <5> QED BY <2>6, <2>8, <5>1 DEF AuthInv, RunningNotRefused
      <4> QED BY <4>1, <4>2
    <3> QED BY <2>4, <2>6, <2>8, <3>3, <3>4 DEF AuthInv, RunningNotRefused
  <2> QED BY <1>4, <2>5, <2>7, <2>8 DEF RunCreate
<1>5. CASE RunUpdate(p)
  <2> DEFINE id == proc[p].id
             d == AfterStart(proc[p].d, proc[p].now)
  <2>1. id \in DefIds /\ proc[p].d \in Definition /\ proc[p].now \in Nat
        /\ Genuine(id, proc[p].d)
    BY <1>0, <1>5 DEF RunUpdate, At, Fits, Proc, CloneFits, Genuine
  <2>2. d \in Definition /\ Genuine(id, d)
    BY <2>1, DefinitionsClosed, AuthorisationKept DEF Definition, Genuine
  <2>3. PICK ok \in BOOLEAN : /\ proc' = [proc EXCEPT ![p] = Returned(p, ok)]
                              /\ listed' = ListedAfter(p, ok)
    BY <1>5 DEF RunUpdate
  <2>4. UpdateSucceeds(id, d) \/ UpdateFails(id)
    BY <1>5 DEF RunUpdate
  <2>5. \A i \in DefIds : listed'[i] = listed[i] \/ listed'[i] = NoDef
    BY <2>1, <2>3 DEF ListedAfter, TypeInv, TypeOK
  <2> HIDE DEF d
  <2> QED BY <1>0, <1>1, <1>5, <2>1, <2>2, <2>3, <2>4, <2>5, WriteBackStep DEF RunUpdate
<1> QED BY <1>2, <1>3, <1>4, <1>5 DEF RunStep

\* Every step keeps authorisations genuine, wherever a clone is written back.
LEMMA AuthInvNext == TypeInv /\ AuthInv /\ [Next]_vars => AuthInv'
<1> SUFFICES ASSUME TypeInv, AuthInv, [Next]_vars PROVE AuthInv'
  OBVIOUS
<1>0. /\ Sched \in Procs /\ Threads \subseteq Procs /\ JobIds \subseteq Procs
      /\ JobIds \subseteq Nat /\ clock \in Nat
      /\ Sched \notin JobIds /\ \A t \in Threads : t \notin JobIds
      /\ \A p \in Procs : proc[p] \in Proc /\ Fits(proc[p])
                         /\ CloneFits(proc[p], affirmed, clock)
  BY DEF Procs, JobIds, TypeInv, TypeOK, Shape, AuthInv, ClonesGenuine
<1>i. Idle \in Proc /\ Fits(Idle) /\ CloneFits(Idle, affirmed, clock) /\ Idle.pc = "idle"
  BY DEF Idle, Proc, Labels, Fits, CloneFits
<1>1. CASE UNCHANGED vars
  BY <1>1 DEF vars, AuthInv, StoreGenuine, Stored, Genuine, ClonesGenuine,
       AffirmedInPast, RunningNotRefused, RunsAreAuthorised
<1>2. CASE Tick
  <2>1. clock' = clock + 1 /\ UNCHANGED <<defs, listed, jobs, proc, affirmed>>
    BY <1>2 DEF Tick
  <2>2. ClonesGenuine'
    BY <1>0, <2>1, CloneFitsStays DEF AuthInv, ClonesGenuine
  <2>3. \A a \in affirmed : a.at \in Nat
    BY DEF TypeInv, TypeOK, Affirmation
  <2>4. AffirmedInPast'
    BY <1>0, <2>1, <2>3 DEF AuthInv, AffirmedInPast
  <2> QED BY <2>1, <2>2, <2>4, RunsStayAuthorised
          DEF AuthInv, StoreGenuine, Stored, Genuine, RunningNotRefused
<1>3. CASE Crash
  <2>1. ClonesGenuine' /\ RunningNotRefused'
    BY <1>0, <1>i, <1>3 DEF Crash, ClonesGenuine, RunningNotRefused
  <2> QED BY <1>3, <2>1, RunsStayAuthorised
          DEF Crash, AuthInv, StoreGenuine, Stored, Genuine, AffirmedInPast
<1>4. CASE SchedWake
  <2> DEFINE e == [Idle EXCEPT !.pc = "list", !.now = clock]
  <2>1. e \in Proc /\ Fits(e) /\ CloneFits(e, affirmed, clock) /\ e.pc \notin {"run", "baseline"}
    BY <1>0 DEF Idle, Proc, Labels, Fits, CloneFits
  <2> QED BY <1>0, <1>4, <2>1, LocalStep DEF SchedWake
<1>5. CASE SchedList
  <2> DEFINE e == [proc[Sched] EXCEPT !.pc = "scan"]
  <2>1. e \in Proc /\ Fits(e) /\ CloneFits(e, affirmed, clock) /\ e.pc \notin {"run", "baseline"}
    BY <1>0 DEF Proc, Labels, Fits, CloneFits
  <2>2. proc' = [proc EXCEPT ![Sched] = e] /\ UNCHANGED <<clock, defs, jobs, affirmed>>
    BY <1>5 DEF SchedList
  <2>3. StoreGenuine'
    BY <1>5 DEF SchedList, DueIn, AuthInv, StoreGenuine, Stored, Genuine
  <2>4. clock' \in Nat /\ clock <= clock' /\ affirmed \subseteq affirmed'
        /\ CloneFits(e, affirmed', clock')
    BY <1>0, <2>1, <2>2
  <2> HIDE DEF e
  <2>5. ClonesGenuine'
    BY <1>0, <2>1, <2>2, <2>4, ClonesStayGenuine DEF AuthInv
  <2>6. RunningNotRefused'
    BY <1>0, <2>1, <2>2, OneMoves DEF AuthInv, RunningNotRefused
  <2> QED BY <2>2, <2>3, <2>5, <2>6, RunsStayAuthorised DEF AuthInv, AffirmedInPast
<1>6. CASE SchedRefused
  <2> DEFINE id == proc[Sched].id
             e == [proc[Sched] EXCEPT !.pc = "scan", !.id = NoDef]
             d == PushedOut(listed[id], proc[Sched].now)
  <2>1. id \in DefIds /\ listed[id] \in Definition /\ proc[Sched].now \in Nat
        /\ Genuine(id, listed[id]) /\ listed[id].op \in Operators
    BY <1>0, <1>6 DEF SchedRefused, At, TypeInv, TypeOK, Shape, ListedFits, Fits,
         Proc, AuthInv, StoreGenuine, Definition
  <2>2. d \in Definition /\ Genuine(id, d)
    BY <2>1, DefinitionsClosed, AuthorisationKept DEF Genuine
  <2>3. e \in Proc /\ Fits(e) /\ CloneFits(e, affirmed, clock) /\ e.pc \notin {"run", "baseline"}
    BY <1>0 DEF Proc, Labels, Fits, CloneFits
  <2>4. proc' = [proc EXCEPT ![Sched] = e] /\ UNCHANGED <<clock, jobs, affirmed>>
        /\ (UpdateSucceeds(id, d) \/ UpdateFails(id))
    BY <1>6 DEF SchedRefused
  <2>5. \A i \in DefIds : listed'[i] = listed[i] \/ listed'[i] = NoDef
    BY <1>6, <2>1 DEF SchedRefused, TypeInv, TypeOK
  <2> HIDE DEF d, e
  <2> QED BY <1>0, <2>1, <2>2, <2>3, <2>4, <2>5, WriteBackStep
<1>7. CASE SchedDone
  BY <1>0, <1>i, <1>7, LocalStep DEF SchedDone
<1>8. ASSUME NEW id \in DefIds, SchedLapsed(id) PROVE AuthInv'
  <2> DEFINE d == Lapsed(listed[id])
  <2>1. listed[id] \in Definition /\ Genuine(id, listed[id]) /\ listed[id].op \in Operators
        /\ proc[Sched].pc = "scan"
    BY <1>8 DEF SchedLapsed, At, TypeInv, TypeOK, AuthInv, StoreGenuine, Definition
  <2>2. d \in Definition /\ Genuine(id, d)
    BY <2>1, 0 \in Nat, DefinitionsClosed, AuthorisationKept DEF Genuine
  <2>3. \A i \in DefIds : listed'[i] = listed[i] \/ listed'[i] = NoDef
    BY <1>8 DEF SchedLapsed, TypeInv, TypeOK
  <2>4. proc' = [proc EXCEPT ![Sched] = proc[Sched]] /\ UNCHANGED <<clock, jobs, affirmed>>
    BY <1>0, <1>8 DEF SchedLapsed, TypeInv, TypeOK
  <2>5. CASE UpdateSucceeds(id, d) \/ UpdateFails(id)
    <3> HIDE DEF d
    <3> QED BY <1>0, <2>1, <2>2, <2>3, <2>4, <2>5, WriteBackStep
  <2>6. CASE UNCHANGED defs
    <3>1. StoreGenuine'
      BY <2>3, <2>4, <2>6 DEF AuthInv, StoreGenuine, Stored, Genuine
    <3>2. proc' = proc
      BY <1>8 DEF SchedLapsed
    <3> QED BY <2>4, <3>1, <3>2, RunsStayAuthorised
            DEF AuthInv, ClonesGenuine, AffirmedInPast, RunningNotRefused
  <2> QED BY <1>8, <2>5, <2>6 DEF SchedLapsed, RecordLapse
<1>9. ASSUME NEW id \in DefIds, SchedRun(id) PROVE AuthInv'
  <2> DEFINE e == Calling(Sched, id, proc[Sched].now)
  <2>1. e \in Proc /\ Fits(e) /\ CloneFits(e, affirmed, clock) /\ e.pc \notin {"run", "baseline"}
    BY <1>0 DEF Calling, Proc, Labels, Fits, CloneFits
  <2> QED BY <1>0, <1>9, <2>1, LocalStep DEF SchedRun
<1>10. ASSUME NEW p \in Callers, RunStep(p) PROVE AuthInv'
  BY <1>10, AuthRunStep
<1>11. ASSUME NEW t \in Threads, SaveList(t) PROVE AuthInv'
  <2>0. UNCHANGED <<clock, defs, jobs, listed, affirmed>>
    BY <1>11 DEF SaveList
  <2>1. CASE UNCHANGED proc
    BY <2>0, <2>1, RunsStayAuthorised DEF AuthInv, StoreGenuine, Stored, Genuine,
         ClonesGenuine, AffirmedInPast, RunningNotRefused
  <2>2. ASSUME NEW op \in Operators, NEW days \in DayChoices, NEW n \in Intervals,
               NEW s \in Survives, NEW notify \in Notifies,
               proc' = [proc EXCEPT ![t] =
                    [pc |-> "save", id |-> NoDef, now |-> clock,
                     d |-> NewDefinition(op, days, n, s, notify, clock)]]
        PROVE  AuthInv'
    <3> DEFINE d == NewDefinition(op, days, n, s, notify, clock)
               e == [pc |-> "save", id |-> NoDef, now |-> clock, d |-> d]
    <3>1. d \in Definition /\ d.at = clock
      BY <1>0, NewDefinitionType DEF NewDefinition
    <3>2. proc' = [proc EXCEPT ![t] = e]
      BY <2>2
    <3> HIDE DEF d
    <3>3. e \in Proc /\ Fits(e) /\ CloneFits(e, affirmed, clock) /\ e.pc \notin {"run", "baseline"}
      BY <1>0, <3>1 DEF Proc, Labels, Fits, CloneFits
    <3> HIDE DEF e
    <3> QED BY <1>0, <2>0, <3>2, <3>3, LocalStep
  <2> QED BY <1>11, <2>1, <2>2 DEF SaveList
<1>12. ASSUME NEW t \in Threads, SaveCreate(t) PROVE AuthInv'
  <2>1. proc[t].d \in Definition /\ proc[t].d.at <= clock
    BY <1>0, <1>12 DEF SaveCreate, At, Fits, Proc, CloneFits
  <2>2. proc' = [proc EXCEPT ![t] = Idle] /\ UNCHANGED <<clock, jobs, listed>>
    BY <1>12 DEF SaveCreate
  <2>3. CASE UNCHANGED <<defs, affirmed>>
    BY <1>0, <1>i, <2>2, <2>3, LocalStep
  <2>4. ASSUME NEW id \in DefIds, defs' = [defs EXCEPT ![id] = proc[t].d],
               affirmed' = affirmed \cup {AffirmationOf(id, proc[t].d)}
        PROVE  AuthInv'
    <3>1. StoreGenuine'
      BY <2>1, <2>2, <2>4 DEF TypeInv, TypeOK, AuthInv, StoreGenuine, Stored, Genuine
    <3>2. AffirmedInPast'
      BY <2>1, <2>2, <2>4 DEF AuthInv, AffirmedInPast, AffirmationOf
    <3>3. clock' \in Nat /\ clock <= clock' /\ affirmed \subseteq affirmed'
          /\ CloneFits(Idle, affirmed', clock')
      BY <1>0, <2>2, <2>4 DEF CloneFits, Idle
    <3>4. ClonesGenuine'
      BY <1>0, <1>i, <2>2, <3>3, ClonesStayGenuine DEF AuthInv
    <3>5. RunningNotRefused'
      BY <1>0, <1>i, <2>2, OneMoves DEF AuthInv, RunningNotRefused
    <3> QED BY <2>2, <3>1, <3>2, <3>3, <3>4, <3>5, RunsStayAuthorised DEF AuthInv
  <2> QED BY <1>12, <2>3, <2>4 DEF SaveCreate
<1>13. ASSUME NEW t \in Threads, Delete(t) PROVE AuthInv'
  <2>1. UNCHANGED <<clock, jobs, proc, listed, affirmed>>
        /\ \A i \in DefIds : defs'[i] = defs[i] \/ defs'[i] = NoDef
    BY <1>13 DEF Delete, Stored, TypeInv, TypeOK
  <2> QED BY <2>1, RunsStayAuthorised DEF AuthInv, StoreGenuine, Stored, Genuine,
         ClonesGenuine, AffirmedInPast, RunningNotRefused
<1>14. ASSUME NEW t \in Threads, ReauthoriseRead(t) PROVE AuthInv'
  <2>1. PICK id \in Stored, op \in Operators, days \in DayChoices :
            /\ proc' = [proc EXCEPT ![t] =
                    [pc |-> "reauthorise", id |-> id, now |-> clock,
                     d |-> Reaffirmed(defs[id], op, days, clock)]]
            /\ affirmed' = affirmed \cup {Renewal(id, op, days)}
    BY <1>14 DEF ReauthoriseRead
  <2> DEFINE d == Reaffirmed(defs[id], op, days, clock)
             e == [pc |-> "reauthorise", id |-> id, now |-> clock, d |-> d]
  <2>2. d \in Definition /\ id \in DefIds /\ d.at = clock
    <3>1. id \in DefIds /\ defs[id] \in Definition /\ days \in Nat
      BY <2>1 DEF Stored, TypeInv, TypeOK
    <3> QED BY <1>0, <3>1, DefinitionsClosed, ReaffirmedNow
  <2>3. proc' = [proc EXCEPT ![t] = e] /\ affirmed' = affirmed \cup {AffirmationOf(id, d)}
    BY <1>0, <2>1, RenewalRecorded
  <2>4. UNCHANGED <<clock, defs, listed, jobs>>
    BY <1>14 DEF ReauthoriseRead
  <2> HIDE DEF d
  <2>5. e \in Proc /\ Fits(e) /\ e.pc \notin {"run", "baseline"} /\ CloneFits(e, affirmed', clock')
    BY <1>0, <2>2, <2>3 DEF Proc, Labels, Fits, CloneFits
  <2>6. AffirmedInPast'
    BY <1>0, <2>2, <2>3, <2>4 DEF AuthInv, AffirmedInPast, AffirmationOf
  <2> HIDE DEF e
  <2>a. clock' \in Nat /\ clock <= clock' /\ affirmed \subseteq affirmed'
    BY <1>0, <2>3, <2>4
  <2>7. ClonesGenuine'
    BY <1>0, <2>a, <2>3, <2>5, ClonesStayGenuine DEF AuthInv
  <2>8. RunningNotRefused'
    BY <1>0, <2>3, <2>4, <2>5, OneMoves DEF AuthInv, RunningNotRefused
  <2> QED BY <2>3, <2>4, <2>6, <2>7, <2>8, RunsStayAuthorised
          DEF AuthInv, StoreGenuine, Stored, Genuine
<1>15. ASSUME NEW t \in Threads, ReauthoriseWrite(t) PROVE AuthInv'
  <2>1. proc[t].d \in Definition /\ proc[t].id \in DefIds /\ Genuine(proc[t].id, proc[t].d)
    BY <1>0, <1>15 DEF ReauthoriseWrite, At, Fits, Proc, CloneFits, Genuine
  <2>2. proc' = [proc EXCEPT ![t] = Idle] /\ UNCHANGED <<clock, jobs, listed, affirmed>>
        /\ (UpdateSucceeds(proc[t].id, proc[t].d) \/ UpdateFails(proc[t].id))
    BY <1>15 DEF ReauthoriseWrite
  <2> QED BY <1>0, <1>i, <2>1, <2>2, WriteBackStep
<1>16. ASSUME NEW t \in Threads, RunRequest(t) PROVE AuthInv'
  <2>1. PICK id \in DefIds : proc' = [proc EXCEPT ![t] = Calling(t, id, clock)]
    BY <1>16 DEF RunRequest, TypeInv, TypeOK
  <2> DEFINE e == Calling(t, id, clock)
  <2>2. e \in Proc /\ Fits(e) /\ CloneFits(e, affirmed, clock) /\ e.pc \notin {"run", "baseline"}
    BY <1>0 DEF Calling, Proc, Labels, Fits, CloneFits
  <2> QED BY <1>0, <1>16, <2>1, <2>2, LocalStep DEF RunRequest
<1>17. ASSUME NEW k \in JobIds, JobEnds(k) \/ RecordBaseline(k) PROVE AuthInv'
  <2>1. PICK state \in EndStates \cup {jobs[k].state}, e \in EndSteps(k) :
            jobs' = [jobs EXCEPT ![k].state = state] /\ proc' = [proc EXCEPT ![k] = e]
    BY <1>0, <1>17, EndEffect
  <2>2. proc[k].pc \in {"run", "baseline"} /\ k \in DOMAIN jobs /\ jobs \in Seq(Job)
        /\ proc[k].id \in DefIds /\ proc[k] \in Proc
        /\ UNCHANGED <<clock, defs, listed, affirmed>>
    BY <1>0, <1>17, EndEffect DEF TypeInv, TypeOK, Procs
  <2>3. DOMAIN jobs' = DOMAIN jobs /\ jobs[k] \in Job
        /\ \A i \in DOMAIN jobs : i # k => jobs'[i] = jobs[i]
    BY <2>1, <2>2
  <2>4. jobs'[k] = [jobs[k] EXCEPT !.state = state] /\ jobs[k].state # "refused"
    BY <2>1, <2>2 DEF AuthInv, RunningNotRefused
  <2>5. jobs'[k].state # "refused" /\ jobs'[k].def = jobs[k].def
        /\ jobs'[k].op = jobs[k].op /\ jobs'[k].asked = jobs[k].asked
        /\ jobs'[k].created = jobs[k].created
    BY <2>1, <2>3, <2>4 DEF Job, EndStates
  <2>6. RunsAreAuthorised'
    <3> SUFFICES ASSUME NEW i \in DOMAIN jobs, jobs'[i].state # "refused"
                 PROVE  \E a \in affirmed : /\ a.id = jobs'[i].def /\ a.op = jobs'[i].op
                                             /\ a.at <= jobs'[i].created
                                             /\ jobs'[i].asked < AddDays(a.at, a.days)
      BY <2>2, <2>3 DEF RunsAreAuthorised
    <3>1. jobs'[i].def = jobs[i].def /\ jobs'[i].op = jobs[i].op
          /\ jobs'[i].asked = jobs[i].asked /\ jobs'[i].created = jobs[i].created
          /\ jobs[i].state # "refused"
      BY <2>3, <2>4, <2>5
    <3>2. PICK a \in affirmed : /\ a.id = jobs[i].def /\ a.op = jobs[i].op
                                /\ a.at <= jobs[i].created
                                /\ jobs[i].asked < AddDays(a.at, a.days)
      BY <3>1 DEF AuthInv, RunsAreAuthorised
    <3> QED BY <3>1, <3>2
  <2>7. e \in Proc /\ Fits(e) /\ CloneFits(e, affirmed, clock)
    <3>1. CASE e = Idle
      BY <1>i, <3>1 DEF CloneFits
    <3>2. ASSUME NEW label \in {"baseline", "after"}, NEW now \in Nat,
                 e.pc = label, e = [proc[k] EXCEPT !.pc = label, !.now = now]
          PROVE  e \in Proc /\ Fits(e) /\ CloneFits(e, affirmed, clock)
      BY <2>2, <3>2 DEF Proc, Labels, Fits, CloneFits
    <3>3. clock \in Nat /\ proc[k].now \in Nat
      BY <2>2 DEF TypeInv, TypeOK, Proc
    <3>4. CASE e = [proc[k] EXCEPT !.pc = "baseline", !.now = clock]
      BY <2>2, <3>2, <3>3, <3>4 DEF Proc
    <3>5. CASE e = [proc[k] EXCEPT !.pc = "after"]
      <4>1. e = [proc[k] EXCEPT !.pc = "after", !.now = proc[k].now] /\ e.pc = "after"
        BY <2>2, <3>5 DEF Proc
      <4> QED BY <3>2, <3>3, <4>1
    <3> QED BY <3>1, <3>4, <3>5 DEF EndSteps
  <2>8. proc' = [proc EXCEPT ![k] = e]
    BY <2>1
  <2>9. clock' \in Nat /\ clock <= clock' /\ affirmed \subseteq affirmed'
        /\ CloneFits(e, affirmed', clock')
    BY <1>0, <2>2, <2>7
  <2>10. ClonesGenuine'
    BY <1>0, <2>7, <2>8, <2>9, ClonesStayGenuine DEF AuthInv
  <2>11. RunningNotRefused'
    <3> SUFFICES ASSUME NEW i \in JobIds, i # k, proc'[i].pc \in {"run", "baseline"}
                 PROVE  jobs'[i].state # "refused"
      BY <2>5 DEF RunningNotRefused
    <3>1. proc[i].pc \in {"run", "baseline"}
      BY <1>0, <2>7, <2>8, OneMoves DEF Procs
    <3>2. i \in DOMAIN jobs
      BY <2>2, <3>1 DEF TypeInv, Shape, JobIds
    <3> QED BY <2>3, <3>1, <3>2 DEF AuthInv, RunningNotRefused
  <2> QED BY <2>2, <2>6, <2>10, <2>11
          DEF AuthInv, StoreGenuine, Stored, Genuine, AffirmedInPast
<1>18. ASSUME NEW k \in JobIds, AfterGet(k) PROVE AuthInv'
  <2> DEFINE d == defs[proc[k].id]
             e == [proc[k] EXCEPT !.pc = "notify", !.d = d]
  <2>1. proc[k].id \in DefIds /\ d \in Definition \cup {NoDef}
    BY <1>0, <1>18 DEF AfterGet, At, TypeInv, TypeOK, Fits
  <2>2. d # NoDef => /\ e \in Proc /\ Fits(e) /\ e.pc \notin {"run", "baseline"}
                     /\ CloneFits(e, affirmed, clock)
    BY <1>0, <2>1 DEF Proc, Labels, Fits, CloneFits, AuthInv, StoreGenuine, Stored, Genuine
  <2>3. /\ UNCHANGED <<clock, defs, listed, jobs, affirmed>>
        /\ \/ proc' = [proc EXCEPT ![k] = Idle]
           \/ d # NoDef /\ proc' = [proc EXCEPT ![k] = e]
    BY <1>18 DEF AfterGet
  <2> HIDE DEF e
  <2> QED BY <1>0, <1>i, <2>2, <2>3, LocalStep
<1>19. ASSUME NEW k \in JobIds, NotifySent(k) PROVE AuthInv'
  BY <1>0, <1>i, <1>19, LocalStep DEF NotifySent
<1>20. ASSUME NEW k \in JobIds, NotifyFails(k) PROVE AuthInv'
  <2> DEFINE id == proc[k].id
             d == NotifyFailed(proc[k].d, k)
  <2>1. proc[k].d \in Definition /\ id \in DefIds /\ Genuine(id, proc[k].d)
        /\ proc[k].d.op \in Operators
    BY <1>0, <1>20 DEF NotifyFails, At, Fits, Proc, CloneFits, Genuine, Definition
  <2>2. d \in Definition /\ Genuine(id, d)
    BY <1>0, <2>1, 0 \in Nat, DefinitionsClosed, AuthorisationKept DEF Genuine
  <2>3. proc' = [proc EXCEPT ![k] = Idle] /\ UNCHANGED <<clock, jobs, listed, affirmed>>
        /\ (UpdateSucceeds(id, d) \/ UpdateFails(id))
    BY <1>20 DEF NotifyFails
  <2> HIDE DEF d
  <2> QED BY <1>0, <1>i, <2>1, <2>2, <2>3, WriteBackStep
<1> QED
  BY <1>1, <1>2, <1>3, <1>4, <1>5, <1>6, <1>7, <1>8, <1>9, <1>10, <1>11, <1>12,
     <1>13, <1>14, <1>15, <1>16, <1>17, <1>18, <1>19, <1>20
  DEF Next, SchedStep, Arrival, HandlerStep, JobStep, Callers

\* Every started run stands on an affirmation a human gave for that very
\* assessment, made before the run and open when it was asked for -- for any
\* number of handlers and assessments, through any interleaving of stale
\* write-backs, failed writes and restarts.
THEOREM RunsAuthorised == Spec => []RunsAreAuthorised
<1>1. Spec => []TypeInv
  BY TypeInvInit, TypeInvNext, PTL DEF Spec
<1>2. Spec => []AuthInv
  BY <1>1, AuthInvInit, AuthInvNext, PTL DEF Spec
<1> QED BY <1>2, PTL DEF AuthInv

-----------------------------------------------------------------------------
(* Deletion and refinement.                                                  *)

\* A write-back, successful or not, neither creates nor deletes.
LEMMA WriteBackKeepsStored ==
    ASSUME TypeInv, NEW id \in DefIds, NEW d \in Definition,
           UpdateSucceeds(id, d) \/ UpdateFails(id)
    PROVE  Stored' = Stored
BY StoreType DEF TypeInv, Stored

\* The step is invisible to AuthorisedRuns.
Quiet == UNCHANGED <<Stored, used, affirmed, Runs>>

\* Runs reads nothing but the jobs.
LEMMA RunsUnchanged == ASSUME UNCHANGED jobs PROVE UNCHANGED Runs
BY DEF Runs

\* What a step of any kind does to the assessments and the runs.
LEMMA Steps ==
    ASSUME TypeInv, AuthInv, [Next]_vars
    PROVE  \/ Quiet
           \/ AR!ANext
<1>0. /\ Sched \in Procs /\ Threads \subseteq Procs /\ JobIds \subseteq Procs
      /\ JobIds \subseteq Nat /\ Callers \subseteq Procs
      /\ \A p \in Procs : proc[p] \in Proc /\ Fits(proc[p])
                         /\ CloneFits(proc[p], affirmed, clock)
  BY DEF Procs, Callers, JobIds, TypeInv, TypeOK, Shape, AuthInv, ClonesGenuine
<1>q. ASSUME UNCHANGED <<defs, used, affirmed, jobs>> PROVE Quiet
  BY <1>q, RunsUnchanged DEF Quiet, Stored
<1>1. CASE UNCHANGED vars
  BY <1>1, <1>q DEF vars
<1>2. CASE Tick \/ Crash \/ SchedWake \/ SchedList \/ SchedDone
  BY <1>2, <1>q DEF Tick, Crash, SchedWake, SchedList, SchedDone
<1>3. CASE SchedRefused
  <2> DEFINE id == proc[Sched].id
             d == PushedOut(listed[id], proc[Sched].now)
  <2>1. id \in DefIds /\ listed[id] \in Definition /\ proc[Sched].now \in Nat
        /\ listed[id].op \in Operators
    BY <1>0, <1>3 DEF SchedRefused, At, TypeInv, TypeOK, Shape, ListedFits, Fits,
         Proc, Definition
  <2>2. d \in Definition
    BY <2>1, DefinitionsClosed
  <2>3. UpdateSucceeds(id, d) \/ UpdateFails(id)
    BY <1>3 DEF SchedRefused
  <2> HIDE DEF d
  <2> QED BY <1>3, <2>1, <2>2, <2>3, WriteBackKeepsStored, RunsUnchanged
          DEF SchedRefused, Quiet
<1>4. ASSUME NEW id \in DefIds, SchedLapsed(id) PROVE Quiet
  <2> DEFINE d == Lapsed(listed[id])
  <2>1. listed[id] \in Definition /\ listed[id].op \in Operators
    BY <1>4 DEF SchedLapsed, TypeInv, TypeOK, Definition
  <2>2. d \in Definition
    BY <2>1, 0 \in Nat, DefinitionsClosed
  <2>3. UpdateSucceeds(id, d) \/ UpdateFails(id) \/ UNCHANGED defs
    BY <1>4 DEF SchedLapsed, RecordLapse
  <2>4. UNCHANGED <<used, affirmed, jobs>>
    BY <1>4 DEF SchedLapsed
  <2> HIDE DEF d
  <2> QED BY <1>q, <2>2, <2>3, <2>4, WriteBackKeepsStored, RunsUnchanged DEF Quiet
<1>5. ASSUME NEW id \in DefIds, SchedRun(id) PROVE Quiet
  BY <1>5, <1>q DEF SchedRun
<1>6. ASSUME NEW p \in Callers, RunStep(p) PROVE Quiet \/ AR!ANext
  <2>1. CASE RunGet(p) \/ RunCount(p)
    BY <2>1, <1>q DEF RunGet, RunCount
  <2>2. CASE RunUpdate(p)
    <3> DEFINE d == AfterStart(proc[p].d, proc[p].now)
    <3>1. proc[p].id \in DefIds /\ proc[p].d \in Definition /\ proc[p].now \in Nat
      BY <1>0, <2>2 DEF RunUpdate, At, Fits, Proc
    <3>2. d \in Definition
      BY <3>1, DefinitionsClosed DEF Definition
    <3>3. UpdateSucceeds(proc[p].id, d) \/ UpdateFails(proc[p].id)
      BY <2>2 DEF RunUpdate
    <3> HIDE DEF d
    <3> QED BY <2>2, <3>1, <3>2, <3>3, WriteBackKeepsStored, RunsUnchanged
            DEF RunUpdate, Quiet
  <2>3. CASE RunCreate(p)
    <3>1. /\ proc[p].id \in DefIds /\ proc[p].d \in Definition /\ proc[p].now \in Nat
          /\ AffirmationOf(proc[p].id, proc[p].d) \in affirmed
          /\ proc[p].now < AuthorisationExpires(proc[p].d)
      BY <1>0, <2>3 DEF RunCreate, At, Fits, Proc, CloneFits
    <3>2. Len(jobs) \in Nat /\ jobs \in Seq(Job) /\ UNCHANGED <<defs, used, affirmed>>
      BY <2>3 DEF RunCreate, TypeInv, TypeOK
    <3>3. Stored' = Stored
      BY <3>2 DEF Stored
    <3>4. ASSUME NEW state \in {"active", "refused"},
                 jobs' = Append(jobs, NewJob(p, state))
          PROVE  /\ DOMAIN jobs' = DOMAIN jobs \cup {Len(jobs) + 1}
                 /\ jobs'[Len(jobs) + 1] = NewJob(p, state)
                 /\ \A k \in DOMAIN jobs : jobs'[k] = jobs[k] /\ k \in Nat
                                                   /\ k < Len(jobs) + 1
      <4>1. NewJob(p, state) \in Job
        BY <1>0, <3>1 DEF NewJob, Job, Proc, Definition, TypeInv, TypeOK
      <4> QED BY <3>2, <3>4, <4>1
    <3>5. CASE jobs' = jobs
      BY <3>2, <3>5, <1>q
    <3>6. CASE jobs' = Append(jobs, NewJob(p, "refused"))
      <4>1. Runs' = Runs
        BY <3>4, <3>6 DEF Runs, NewJob
      <4> QED BY <3>2, <3>3, <4>1 DEF Quiet
    <3>7. CASE jobs' = Append(jobs, NewJob(p, "active"))
      <4> DEFINE n == Len(jobs) + 1
                 r == [n |-> n, def |-> proc[p].id, op |-> proc[p].d.op,
                       asked |-> proc[p].now, created |-> clock]
                 a == AffirmationOf(proc[p].id, proc[p].d)
      <4>1. Runs' = Runs \cup {r}
        BY <3>4, <3>7 DEF Runs, NewJob
      <4>2. \A q \in Runs : q.n < n
        BY <3>2 DEF Runs
      <4>3. a \in affirmed /\ AR!Covers(a, r)
        <5>1. a.at <= clock
          BY <3>1 DEF AuthInv, AffirmedInPast
        <5>2. proc[p].now < AddDays(proc[p].d.at, proc[p].d.days)
          BY <3>1, CheckedCloneCovers
        <5> QED BY <3>1, <5>1, <5>2 DEF AR!Covers, AffirmationOf, AddDays
      <4>4. r.n = n /\ r.def = proc[p].id /\ r \in Runs'
        BY <4>1
      <4> HIDE DEF r, a, n
      <4>5. AR!Begin(proc[p].id)
        BY <3>2, <3>3, <4>1, <4>2, <4>3, <4>4 DEF AR!Begin
      <4> QED BY <3>1, <4>5 DEF AR!ANext
    <3> QED BY <2>3, <3>5, <3>6, <3>7 DEF RunCreate
  <2> QED BY <1>6, <2>1, <2>2, <2>3 DEF RunStep
<1>7. ASSUME NEW t \in Threads, SaveList(t) \/ RunRequest(t) PROVE Quiet
  BY <1>7, <1>q DEF SaveList, RunRequest
<1>8. ASSUME NEW t \in Threads, SaveCreate(t) PROVE Quiet \/ AR!ANext
  <2>1. proc[t].d \in Definition
    BY <1>0, <1>8 DEF SaveCreate, At, Fits, Proc
  <2>2. CASE UNCHANGED <<defs, used, affirmed>>
    BY <1>8, <2>2, <1>q DEF SaveCreate
  <2>3. ASSUME NEW id \in DefIds \ used, defs' = [defs EXCEPT ![id] = proc[t].d],
               used' = used \cup {id},
               affirmed' = affirmed \cup {AffirmationOf(id, proc[t].d)}
        PROVE  AR!ANext
    <3> DEFINE a == AffirmationOf(id, proc[t].d)
    <3>1. Stored' = Stored \cup {id}
      BY <2>1, <2>3 DEF Stored, TypeInv, TypeOK
    <3>2. a.id = id /\ a.op \in Operators /\ a \in affirmed'
      BY <2>1, <2>3 DEF AffirmationOf, Definition
    <3>3. AR!Affirms(id)
      BY <2>3, <3>2 DEF AR!Affirms
    <3>4. Runs' = Runs
      BY <1>8, RunsUnchanged DEF SaveCreate
    <3> QED BY <2>3, <3>1, <3>3, <3>4 DEF AR!Save, AR!ANext
  <2> QED BY <1>8, <2>2, <2>3 DEF SaveCreate
<1>9. ASSUME NEW t \in Threads, Delete(t) PROVE Quiet \/ AR!ANext
  <2>1. CASE UNCHANGED defs
    BY <1>9, <2>1, <1>q DEF Delete
  <2>2. ASSUME NEW id \in Stored, defs' = [defs EXCEPT ![id] = NoDef]
        PROVE  AR!ANext
    <3>1. Stored' = Stored \ {id} /\ id \in DefIds
      BY <2>2 DEF Stored, TypeInv, TypeOK
    <3>2. Runs' = Runs /\ UNCHANGED <<used, affirmed>>
      BY <1>9, RunsUnchanged DEF Delete
    <3> QED BY <3>1, <3>2 DEF AR!Remove, AR!ANext
  <2> QED BY <1>9, <2>1, <2>2 DEF Delete
<1>10. ASSUME NEW t \in Threads, ReauthoriseRead(t) PROVE AR!ANext
  <2>1. PICK id \in Stored, op \in Operators, days \in DayChoices :
            affirmed' = affirmed \cup {AffirmationOf(id, Reaffirmed(defs[id], op, days, clock))}
    BY <1>0, <1>10, RenewalRecorded DEF ReauthoriseRead
  <2> DEFINE d == Reaffirmed(defs[id], op, days, clock)
             a == AffirmationOf(id, d)
  <2>2. id \in DefIds /\ defs[id] \in Definition /\ days \in Nat /\ clock \in Nat
    BY <2>1 DEF Stored, TypeInv, TypeOK
  <2>3. d \in Definition
    BY <2>2, DefinitionsClosed
  <2> HIDE DEF d
  <2>4. a.id = id /\ a.op \in Operators /\ a \in affirmed' /\ affirmed' = affirmed \cup {a}
    BY <2>1, <2>3 DEF AffirmationOf, Definition, d
  <2> HIDE DEF a
  <2>5. Stored' = Stored /\ used' = used /\ Runs' = Runs
    BY <1>10, RunsUnchanged DEF ReauthoriseRead, Stored
  <2> QED BY <2>2, <2>4, <2>5 DEF AR!Affirms, AR!Affirm, AR!ANext
<1>11. ASSUME NEW t \in Threads, ReauthoriseWrite(t) PROVE Quiet
  <2>1. proc[t].d \in Definition /\ proc[t].id \in DefIds
    BY <1>0, <1>11 DEF ReauthoriseWrite, At, Fits, Proc
  <2> QED BY <1>11, <2>1, WriteBackKeepsStored, RunsUnchanged DEF ReauthoriseWrite, Quiet
<1>12. ASSUME NEW k \in JobIds, JobEnds(k) \/ RecordBaseline(k) PROVE Quiet
  <2>1. PICK state \in EndStates \cup {jobs[k].state} : jobs' = [jobs EXCEPT ![k].state = state]
    BY <1>0, <1>12, EndEffect
  <2>2. k \in DOMAIN jobs /\ jobs \in Seq(Job) /\ jobs[k].state # "refused"
    BY <1>0, <1>12, EndEffect DEF TypeInv, TypeOK, AuthInv, RunningNotRefused
  <2>3. /\ DOMAIN jobs' = DOMAIN jobs /\ jobs[k] \in Job
        /\ jobs'[k] = [jobs[k] EXCEPT !.state = state]
        /\ \A i \in DOMAIN jobs : i # k => jobs'[i] = jobs[i]
    BY <2>1, <2>2
  <2>4. jobs'[k].state # "refused" /\ jobs'[k].def = jobs[k].def
        /\ jobs'[k].op = jobs[k].op /\ jobs'[k].asked = jobs[k].asked
        /\ jobs'[k].created = jobs[k].created
    BY <2>1, <2>2, <2>3 DEF Job, EndStates
  <2>5. \A i \in DOMAIN jobs :
          /\ jobs'[i].state # "refused" <=> jobs[i].state # "refused"
          /\ jobs'[i].def = jobs[i].def /\ jobs'[i].op = jobs[i].op
          /\ jobs'[i].asked = jobs[i].asked /\ jobs'[i].created = jobs[i].created
    <3> SUFFICES ASSUME NEW i \in DOMAIN jobs
                 PROVE  /\ jobs'[i].state # "refused" <=> jobs[i].state # "refused"
                        /\ jobs'[i].def = jobs[i].def /\ jobs'[i].op = jobs[i].op
                        /\ jobs'[i].asked = jobs[i].asked
                        /\ jobs'[i].created = jobs[i].created
      OBVIOUS
    <3>1. CASE i = k
      BY <2>2, <2>4, <3>1
    <3>2. CASE i # k
      BY <2>3, <3>2
    <3> QED BY <3>1, <3>2
  <2>6. {i \in DOMAIN jobs' : jobs'[i].state # "refused"}
            = {i \in DOMAIN jobs : jobs[i].state # "refused"}
    BY <2>3, <2>5
  <2>7. Runs' = Runs
    BY <2>5, <2>6 DEF Runs
  <2> QED BY <1>0, <1>12, <2>7, EndEffect DEF Quiet, Stored
<1>13. ASSUME NEW k \in JobIds, AfterGet(k) \/ NotifySent(k) PROVE Quiet
  BY <1>13, <1>q DEF AfterGet, NotifySent
<1>14. ASSUME NEW k \in JobIds, NotifyFails(k) PROVE Quiet
  <2> DEFINE d == NotifyFailed(proc[k].d, k)
  <2>1. proc[k].d \in Definition /\ proc[k].id \in DefIds /\ proc[k].d.op \in Operators
    BY <1>0, <1>14 DEF NotifyFails, At, Fits, Proc, Definition
  <2>2. d \in Definition
    BY <1>0, <2>1, 0 \in Nat, DefinitionsClosed
  <2>3. UpdateSucceeds(proc[k].id, d) \/ UpdateFails(proc[k].id)
    BY <1>14 DEF NotifyFails
  <2> HIDE DEF d
  <2> QED BY <1>14, <2>1, <2>2, <2>3, WriteBackKeepsStored, RunsUnchanged
          DEF NotifyFails, Quiet
<1> QED
  BY <1>1, <1>2, <1>3, <1>4, <1>5, <1>6, <1>7, <1>8, <1>9, <1>10, <1>11, <1>12,
     <1>13, <1>14
  DEF Next, SchedStep, Arrival, HandlerStep, JobStep, Callers

\* The module implements AuthorisedRuns: each of its steps is one of that
\* specification's, or nothing that it can see.
THEOREM Implements == Spec => Refines
<1>1. Init => AR!AInit
  BY DEF Init, AR!AInit, Stored, Runs
<1>2. TypeInv /\ AuthInv /\ [Next]_vars => [AR!ANext]_(AR!avars)
  BY Steps DEF Quiet, AR!avars
<1>3. Spec => []TypeInv
  BY TypeInvInit, TypeInvNext, PTL DEF Spec
<1>4. Spec => []AuthInv
  BY <1>3, AuthInvInit, AuthInvNext, PTL DEF Spec
<1> QED BY <1>1, <1>2, <1>3, <1>4, PTL DEF Spec, Refines, AR!ASpec

\* No clone still held anywhere brings a deleted assessment back.
THEOREM DeletionIsFinal == Spec => DeletedStaysDeleted
<1> DEFINE P == \A id \in used : defs[id] = NoDef => defs'[id] = NoDef
<1>1. TypeInv /\ AuthInv /\ [Next]_vars => [P]_vars
  <2> SUFFICES ASSUME TypeInv, AuthInv, [Next]_vars, NEW id \in used, defs[id] = NoDef
               PROVE  defs'[id] = NoDef
    OBVIOUS
  <2>0. used \subseteq DefIds /\ id \in DefIds /\ id \notin Stored
    BY DEF TypeInv, TypeOK, Stored
  <2>1. id \notin Stored'
    BY <2>0, Steps DEF Quiet, AR!ANext, AR!Save, AR!Affirm, AR!Remove, AR!Begin
  <2> QED BY <2>0, <2>1 DEF Stored
<1>2. Spec => []TypeInv
  BY TypeInvInit, TypeInvNext, PTL DEF Spec
<1>3. Spec => []AuthInv
  BY <1>2, AuthInvInit, AuthInvNext, PTL DEF Spec
<1> QED BY <1>1, <1>2, <1>3, PTL DEF Spec, DeletedStaysDeleted
-----------------------------------------------------------------------------
(* The cap on saved assessments                                              *)

\* The cap is checked on a list and the definition created afterwards
\* (definition.go:64-93): handlers that save at once overshoot it, by fewer
\* assessments than there are handlers.
SavedOvershootBounded ==
    ~Unlimited(MaxDefinitions) =>
        Cardinality(Stored) <= MaxDefinitions + Cardinality(Threads) - 1

\* The handlers that have passed the cap and not yet created theirs.
Savers == {t \in Threads : At(t, "save")}

\* A place seen free is as good as taken.
SavedInv ==
    /\ IsFiniteSet(Stored)
    /\ ~Unlimited(MaxDefinitions) =>
         Cardinality(Stored) + Cardinality(Savers) <= MaxDefinitions + Cardinality(Threads) - 1

\* Savers can be counted.
LEMMA SaversCount ==
    /\ IsFiniteSet(Savers) /\ Cardinality(Savers) \in Nat
    /\ Cardinality(Savers) <= Cardinality(Threads) /\ Cardinality(Threads) \in Nat
<1>1. IsFiniteSet(Threads) /\ Savers \in SUBSET Threads
  BY CapAssumption DEF Savers
<1> QED BY <1>1, FS_Subset, FS_CardinalityType

\* Nothing is stored and nobody saves in a fresh data directory.
LEMMA SavedInit == Init => SavedInv
<1> SUFFICES ASSUME Init PROVE SavedInv
  OBVIOUS
<1>1. Stored = {} /\ Savers = {}
  BY DEF Init, Stored, Savers, At, Idle, Procs
<1> QED BY <1>1, SaversCount, FS_EmptySet, CapAssumption DEF SavedInv, Unlimited

\* Of all steps only a save adds a handler that saves, below the cap, and only
\* one of those adds an assessment.
LEMMA SaversStep ==
    ASSUME TypeInv, [Next]_vars
    PROVE  \/ used' = used /\ Savers' \subseteq Savers
           \/ used' = used /\ Stored' = Stored /\ ~AtCap(Cardinality(Stored), MaxDefinitions)
           \/ \E t \in Savers : Savers' = Savers \ {t}
<1>0. /\ \A t \in Threads : t \in Procs /\ t # Sched /\ t \notin JobIds
      /\ proc \in [Procs -> Proc]
  BY DEF Procs, TypeInv, TypeOK
<1>1. ASSUME NEW p, proc'[p].pc # "save", \A t \in Threads \ {p} : proc'[t] = proc[t]
      PROVE  Savers' \subseteq Savers
  BY <1>1 DEF Savers, At
<1>2. ASSUME \A t \in Threads : proc'[t] = proc[t] PROVE Savers' \subseteq Savers
  BY <1>2 DEF Savers, At
<1>3. CASE UNCHANGED vars
  BY <1>2, <1>3 DEF vars
<1>4. CASE Tick
  BY <1>2, <1>4 DEF Tick
<1>5. CASE Crash
  BY <1>5 DEF Crash, Savers, At, Idle, Procs
<1>6. ASSUME NEW p \in Callers, RunStep(p) PROVE used' = used /\ Savers' \subseteq Savers
  <2>1. used' = used
    BY <1>6 DEF RunStep, RunGet, RunCount, RunCreate, RunUpdate
  <2>2. p \in Procs /\ proc[p] \in Proc
    BY <1>0 DEF Callers, Procs
  <2>3. \A ok \in BOOLEAN : Returned(p, ok).pc # "save"
    BY DEF Returned, Idle
  <2>4. proc'[p].pc # "save"
    <3>1. \A d : [proc[p] EXCEPT !.pc = "count", !.d = d].pc = "count"
      BY <2>2 DEF Proc
    <3>2. /\ [proc[p] EXCEPT !.pc = "create"].pc = "create"
          /\ [proc[p] EXCEPT !.pc = "update"].pc = "update"
      BY <2>2 DEF Proc
    <3>3. CASE RunGet(p)
      BY <1>0, <2>2, <2>3, <3>1, <3>3 DEF RunGet
    <3>4. CASE RunCount(p)
      BY <1>0, <2>2, <2>3, <3>2, <3>4 DEF RunCount
    <3>5. CASE RunCreate(p)
      <4>1. Len(jobs) \in Nat /\ p \notin JobIds
        BY DEF Callers, TypeInv, TypeOK
      <4>2. Len(jobs) + 1 \in JobIds
        BY <3>5, <4>1 DEF RunCreate, JobIds
      <4> QED BY <1>0, <2>2, <2>3, <3>2, <3>5, <4>1, <4>2 DEF RunCreate
    <3>6. CASE RunUpdate(p)
      BY <1>0, <2>2, <2>3, <3>6 DEF RunUpdate
    <3> QED BY <1>6, <3>3, <3>4, <3>5, <3>6 DEF RunStep
  <2>5. \A t \in Threads \ {p} : proc'[t] = proc[t]
    <3>1. CASE RunCreate(p)
      <4>1. Len(jobs) \in Nat
        BY DEF TypeInv, TypeOK
      <4>2. Len(jobs) + 1 \in JobIds
        BY <3>1, <4>1 DEF RunCreate, JobIds
      <4> QED BY <1>0, <3>1, <4>2 DEF RunCreate
    <3>2. CASE RunGet(p) \/ RunCount(p) \/ RunUpdate(p)
      BY <1>0, <3>2 DEF RunGet, RunCount, RunUpdate
    <3> QED BY <1>6, <3>1, <3>2 DEF RunStep
  <2> QED BY <1>1, <2>1, <2>4, <2>5
<1>7. ASSUME SchedStep PROVE used' = used /\ Savers' \subseteq Savers
  <2>1. CASE RunStep(Sched)
    BY <1>6, <2>1 DEF Callers
  <2>2. CASE ~RunStep(Sched)
    BY <1>0, <1>2, <1>7, <2>2
       DEF SchedStep, SchedWake, SchedList, SchedRefused, SchedDone, SchedLapsed, SchedRun
  <2> QED BY <2>1, <2>2
<1>8. ASSUME NEW k \in JobIds, JobStep(k) PROVE used' = used /\ Savers' \subseteq Savers
  BY <1>0, <1>2, <1>8 DEF JobStep, JobEnds, RecordBaseline, AfterGet, NotifySent, NotifyFails
<1>9. ASSUME NEW t \in Threads, Delete(t) \/ ReauthoriseRead(t) \/ RunRequest(t) \/ ReauthoriseWrite(t)
      PROVE  used' = used /\ Savers' \subseteq Savers
  <2>1. used' = used /\ \A u \in Threads \ {t} : proc'[u] = proc[u]
    BY <1>0, <1>9 DEF Delete, ReauthoriseRead, RunRequest, ReauthoriseWrite
  <2>2. At(t, "idle") \/ At(t, "reauthorise")
    BY <1>9 DEF Delete, ReauthoriseRead, RunRequest, ReauthoriseWrite, Request
  <2>3. proc' = proc \/ proc'[t].pc # "save"
    BY <1>0, <1>9 DEF Delete, ReauthoriseRead, RunRequest, ReauthoriseWrite, Calling, Idle
  <2> QED BY <1>1, <1>2, <2>1, <2>3
<1>10. ASSUME NEW t \in Threads, SaveList(t)
       PROVE  \/ used' = used /\ Savers' \subseteq Savers
              \/ used' = used /\ Stored' = Stored /\ ~AtCap(Cardinality(Stored), MaxDefinitions)
  BY <1>2, <1>10 DEF SaveList, Stored
<1>11. ASSUME NEW t \in Threads, SaveCreate(t) PROVE t \in Savers /\ Savers' = Savers \ {t}
  BY <1>0, <1>11 DEF SaveCreate, Savers, At, Idle
<1>12. UNCHANGED vars \/ Tick \/ Crash => used' = used
  BY DEF vars, Tick, Crash
<1> QED
  BY <1>3, <1>4, <1>5, <1>6, <1>7, <1>8, <1>9, <1>10, <1>11, <1>12
  DEF Next, Arrival, HandlerStep, Callers

\* A handler that saves had its place counted when it saw it.
LEMMA SavedNext == TypeInv /\ AuthInv /\ SavedInv /\ [Next]_vars => SavedInv'
<1> SUFFICES ASSUME TypeInv, AuthInv, SavedInv, [Next]_vars PROVE SavedInv'
  OBVIOUS
<1>0. /\ IsFiniteSet(Stored) /\ Cardinality(Stored) \in Nat /\ MaxDefinitions \in Nat
      /\ IsFiniteSet(Savers) /\ Cardinality(Savers) \in Nat
      /\ Cardinality(Threads) \in Nat
  BY SaversCount, FS_CardinalityType, CapAssumption DEF SavedInv
<1>1. IsFiniteSet(Savers)' /\ Cardinality(Savers') \in Nat /\ Cardinality(Savers') <= Cardinality(Threads)
  <2>1. Savers' \in SUBSET Threads /\ IsFiniteSet(Threads)
    BY CapAssumption DEF Savers
  <2> QED BY <2>1, FS_Subset, FS_CardinalityType
<1>2. used' = used => Stored' \subseteq Stored
  BY Steps DEF Quiet, AR!ANext, AR!Save, AR!Affirm, AR!Remove, AR!Begin
<1>3. \E id : Stored' \subseteq Stored \cup {id}
  BY Steps DEF Quiet, AR!ANext, AR!Save, AR!Affirm, AR!Remove, AR!Begin
<1>4. CASE used' = used /\ Savers' \subseteq Savers
  <2>1. /\ IsFiniteSet(Stored') /\ Cardinality(Stored') <= Cardinality(Stored)
        /\ Cardinality(Savers') <= Cardinality(Savers)
    BY <1>0, <1>2, <1>4, FS_Subset
  <2>2. Cardinality(Stored') \in Nat
    BY <2>1, FS_CardinalityType
  <2> QED BY <1>0, <1>1, <2>1, <2>2 DEF SavedInv, Unlimited
<1>5. CASE Stored' = Stored /\ ~AtCap(Cardinality(Stored), MaxDefinitions)
  BY <1>0, <1>1, <1>5 DEF SavedInv, AtCap, Unlimited
<1>6. ASSUME NEW t \in Savers, Savers' = Savers \ {t} PROVE SavedInv'
  <2>1. Cardinality(Savers') = Cardinality(Savers) - 1
    BY <1>0, <1>6, FS_RemoveElement
  <2>2. PICK id : Stored' \subseteq Stored \cup {id}
    BY <1>3
  <2>3. /\ IsFiniteSet(Stored \cup {id})
        /\ Cardinality(Stored \cup {id})
             = IF id \in Stored THEN Cardinality(Stored) ELSE Cardinality(Stored) + 1
    BY <1>0, FS_AddElement
  <2>4. IsFiniteSet(Stored') /\ Cardinality(Stored') <= Cardinality(Stored \cup {id})
    BY <2>2, <2>3, FS_Subset
  <2>5. Cardinality(Stored') \in Nat
    BY <2>4, FS_CardinalityType
  <2>6. Cardinality(Stored') <= Cardinality(Stored) + 1
    BY <1>0, <2>3, <2>4, <2>5
  <2> QED BY <1>0, <1>1, <2>1, <2>4, <2>5, <2>6 DEF SavedInv, Unlimited
<1> QED BY <1>4, <1>5, <1>6, SaversStep

\* However many handlers save at once, and across restarts, fewer assessments
\* exceed the cap than there are handlers.
THEOREM SavedOvershootIsBounded == Spec => []SavedOvershootBounded
<1>1. Spec => []TypeInv
  BY TypeInvInit, TypeInvNext, PTL DEF Spec
<1>2. Spec => []AuthInv
  BY <1>1, AuthInvInit, AuthInvNext, PTL DEF Spec
<1>3. Spec => []SavedInv
  BY <1>1, <1>2, SavedInit, SavedNext, PTL DEF Spec
<1>4. SavedInv => SavedOvershootBounded
  <2>1. IsFiniteSet(Stored) => Cardinality(Stored) \in Nat
    BY FS_CardinalityType
  <2> QED BY <2>1, SaversCount, CapAssumption DEF SavedInv, SavedOvershootBounded
<1> QED BY <1>3, <1>4, PTL
=============================================================================
