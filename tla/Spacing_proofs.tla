--------------------------- MODULE Spacing_proofs ---------------------------
(* Proof that the scheduler never serves one due date twice: the property    *)
(* ScheduledRunsSpaced, for every number of assessments, handlers and jobs,  *)
(* every day length, every interval and every lag between reading the clock  *)
(* and writing back.                                                         *)
(*                                                                           *)
(* What makes it true is spread over every clone in flight.  The due date    *)
(* that guards the next run is rewritten whole by manual runs, renewals,     *)
(* lapses and refusals, each from a clone read earlier; it has to be shown   *)
(* that none of them can write back a date from before the last scheduled    *)
(* run.  The claim is about an assessment affirmed once: all its clones then *)
(* carry one authorisation date, every due date lies an interval beyond it,  *)
(* and a write-back that sets a new one does so from a time no older than    *)
(* the lag.                                                                  *)
EXTENDS Reassess_proofs, FiniteSetTheorems

USE DayAssumption, DefaultDaysAssumption, ProcsAssumption, NoDefAssumption,
    InputAssumption, LagAssumption

-----------------------------------------------------------------------------
(* Days.                                                                     *)

\* Adding the same number of days keeps two times in order, up to a slack.
LEMMA DayArithmetic ==
    ASSUME NEW t \in Nat, NEW u \in Nat, NEW m \in Nat, NEW n \in Nat, t <= u + m
    PROVE  /\ AddDays(t, n) \in Nat /\ AddDays(u, n) \in Nat
           /\ t <= AddDays(t, n) /\ (n > 0 => t < AddDays(t, n))
           /\ AddDays(t, n) <= AddDays(u, n) + m
<1> DEFINE x == n * Day
<1>1. x \in Nat /\ (n > 0 => x > 0)
  <2>1. \A k \in Nat : k * Day \in Nat
    OBVIOUS
  <2>2. n > 0 => n - 1 \in Nat /\ n * Day = (n - 1) * Day + Day
    OBVIOUS
  <2> QED BY <2>1, <2>2
<1>2. AddDays(t, n) = t + x /\ AddDays(u, n) = u + x
  BY DEF AddDays
<1> HIDE DEF x
<1> QED BY <1>1, <1>2

\* The same without slack.
LEMMA LaterDays ==
    ASSUME NEW t \in Nat, NEW u \in Nat, NEW n \in Nat, t <= u
    PROVE  AddDays(t, n) <= AddDays(u, n)
<1>1. 0 \in Nat /\ t <= u + 0
  OBVIOUS
<1>2. AddDays(t, n) <= AddDays(u, n) + 0 /\ AddDays(u, n) \in Nat
  BY <1>1, DayArithmetic
<1> QED BY <1>2

-----------------------------------------------------------------------------
(* The bookkeeping that holds whatever happens.                              *)

\* The due date a definition carries is never less than an interval after the
\* authorisation it carries.
DueBeyond(d) == d.interval > 0 => AddDays(d.at, d.interval) <= d.next

\* Of a goroutine e, against the identifiers u handed out so far at time c:
\* it speaks of one of those, has read the clock within the lag, and holds a
\* sound draft if it is about to save one.
EntryKept(e, u, c) ==
    /\ e.id # NoDef => e.id \in u
    /\ e.pc \notin {"idle", "run"} => e.now <= c /\ c <= e.now + MaxLag
    /\ e.pc = "save" => DueBeyond(e.d)

EntriesKept == \A p \in Procs : EntryKept(proc[p], used, clock)

\* Whatever is stored, listed or recorded is of an identifier handed out.
References ==
    /\ \A id \in DefIds : defs[id] # NoDef \/ listed[id] # NoDef => id \in used
    /\ \A i \in DOMAIN jobs : jobs[i].def \in used

\* No run was asked for in the future, and none of the scheduler's own after
\* the tick it is working on.
AskedInPast ==
    /\ \A i \in DOMAIN jobs : jobs[i].asked <= clock
    /\ proc[Sched].pc # "idle" =>
         \A i \in DOMAIN jobs : jobs[i].trigger = "schedule"
                                    => jobs[i].asked <= proc[Sched].now

\* Between two ticks the scheduler holds no clones.
ListEmpty ==
    proc[Sched].pc \in {"idle", "list"} => \A id \in DefIds : listed[id] = NoDef

Books == EntriesKept /\ References /\ AskedInPast /\ ListEmpty

\* The jobs on record are the same, but for their state.
SameJobs ==
    /\ DOMAIN jobs' = DOMAIN jobs
    /\ \A i \in DOMAIN jobs : /\ jobs'[i].def = jobs[i].def
                              /\ jobs'[i].asked = jobs[i].asked
                              /\ jobs'[i].trigger = jobs[i].trigger

\* The list only loses clones.
ListShrinks == \A id \in DefIds : listed'[id] = listed[id] \/ listed'[id] = NoDef

\* The end of a job, or the naming of its baseline, changes only its state.
LEMMA EndKeepsJobs ==
    ASSUME TypeInv, NEW k \in JobIds, JobEnds(k) \/ RecordBaseline(k)
    PROVE  SameJobs
<1>1. PICK state \in EndStates \cup {jobs[k].state} : jobs' = [jobs EXCEPT ![k].state = state]
  BY EndEffect
<1>2. k \in DOMAIN jobs /\ jobs \in Seq(Job)
  BY EndEffect DEF TypeInv, TypeOK
<1>3. jobs[k] \in Job /\ jobs'[k] = [jobs[k] EXCEPT !.state = state]
      /\ DOMAIN jobs' = DOMAIN jobs /\ \A i \in DOMAIN jobs : i # k => jobs'[i] = jobs[i]
  BY <1>1, <1>2
<1>4. jobs'[k].def = jobs[k].def /\ jobs'[k].asked = jobs[k].asked
      /\ jobs'[k].trigger = jobs[k].trigger
  BY <1>3 DEF Job
<1> QED BY <1>3, <1>4 DEF SameJobs

\* A step of one goroutine that adds no job keeps the books.
LEMMA BooksMove ==
    ASSUME TypeInv, Books, NEW p \in Procs, NEW e \in Proc, Fits(e),
           proc' = [proc EXCEPT ![p] = e], EntryKept(e, used', clock),
           UNCHANGED clock, used \subseteq used', SameJobs, ListShrinks,
           \A id \in DefIds : defs'[id] # NoDef => defs[id] # NoDef \/ id \in used',
           p = Sched => \/ e.pc = "idle"
                        \/ e.now = clock
                        \/ e.now = proc[Sched].now /\ proc[Sched].pc # "idle",
           p = Sched /\ e.pc \in {"idle", "list"} => \A id \in DefIds : listed'[id] = NoDef
    PROVE  Books'
<1>0. /\ Sched \in Procs /\ proc'[p] = e /\ \A q \in Procs \ {p} : proc'[q] = proc[q]
  BY OneMoves DEF Procs
<1>1. EntriesKept'
  BY <1>0 DEF Books, EntriesKept, EntryKept
<1>2. References'
  BY DEF Books, References, SameJobs, ListShrinks
<1>3. AskedInPast'
  BY <1>0 DEF Books, AskedInPast, SameJobs
<1>4. ListEmpty'
  BY <1>0 DEF Books, ListEmpty, ListShrinks
<1> QED BY <1>1, <1>2, <1>3, <1>4 DEF Books

\* Nothing stored, nothing running: the books are in order.
LEMMA BooksInit == Init => Books
BY DEF Init, Books, EntriesKept, EntryKept, References, AskedInPast, ListEmpty, Idle, Procs

\* Where a call of RunDefinition goes from its reading of the store and from
\* its count of running jobs: on, with the clone, or back to its caller.
LEMMA CallMoves ==
    ASSUME TypeInv, NEW p \in Callers, RunGet(p) \/ RunCount(p)
    PROVE  \E e \in Proc :
             /\ Fits(e) /\ proc' = [proc EXCEPT ![p] = e]
             /\ \/ e = Idle /\ p # Sched
                \/ /\ e.id = proc[p].id /\ e.now = proc[p].now /\ e.id \in DefIds
                   /\ \/ e.pc = "refuse" /\ p = Sched
                      \/ e.pc = "count" /\ e.d = defs[e.id] /\ e.d # NoDef /\ proc[p].pc = "get"
                      \/ e.pc = "create" /\ e.d = proc[p].d /\ proc[p].pc = "count"
             /\ UNCHANGED <<clock, defs, used, jobs, listed, requests, faults, crashes,
                            affirmed, acked, noted>>
<1>0. p \in Procs /\ proc[p] \in Proc /\ Fits(proc[p])
  BY DEF Callers, Procs, TypeInv, TypeOK, Shape
<1>1. proc[p].id \in DefIds
  BY <1>0 DEF RunGet, RunCount, At, Fits
<1>2. Returned(p, FALSE) \in Proc /\ Fits(Returned(p, FALSE))
  BY <1>0, <1>1, ReturnedType DEF Returned, Fits, Idle
<1>3. \/ Returned(p, FALSE) = Idle /\ p # Sched
      \/ /\ p = Sched /\ Returned(p, FALSE).pc = "refuse"
         /\ Returned(p, FALSE).id = proc[p].id /\ Returned(p, FALSE).now = proc[p].now
  BY DEF Returned
<1>4. CASE RunGet(p)
  <2> DEFINE d == defs[proc[p].id]
             e == [proc[p] EXCEPT !.pc = "count", !.d = d]
  <2>1. d \in Definition \cup {NoDef}
    BY <1>1 DEF TypeInv, TypeOK
  <2>2. d # NoDef => e \in Proc /\ Fits(e) /\ e.pc = "count" /\ e.d = d
                     /\ e.id = proc[p].id /\ e.now = proc[p].now
    BY <1>0, <1>1, <2>1 DEF Proc, Labels, Fits
  <2>3. \/ d # NoDef /\ proc' = [proc EXCEPT ![p] = e]
        \/ proc' = [proc EXCEPT ![p] = Returned(p, FALSE)]
    BY <1>4 DEF RunGet
  <2>4. proc[p].pc = "get" /\ UNCHANGED <<clock, defs, used, jobs, listed, requests, faults,
                                          crashes, affirmed, acked, noted>>
    BY <1>4 DEF RunGet, At
  <2> HIDE DEF e
  <2> QED BY <1>1, <1>2, <1>3, <2>2, <2>3, <2>4
<1>5. CASE RunCount(p)
  <2> DEFINE e == [proc[p] EXCEPT !.pc = "create"]
  <2>1. proc[p].pc = "count" /\ UNCHANGED <<clock, defs, used, jobs, listed, requests, faults,
                                            crashes, affirmed, acked, noted>>
    BY <1>5 DEF RunCount, At
  <2>2. e \in Proc /\ Fits(e) /\ e.pc = "create" /\ e.d = proc[p].d
        /\ e.id = proc[p].id /\ e.now = proc[p].now
    BY <1>0, <1>1, <2>1 DEF Proc, Labels, Fits
  <2>3. \/ proc' = [proc EXCEPT ![p] = e]
        \/ proc' = [proc EXCEPT ![p] = Returned(p, FALSE)]
    BY <1>5 DEF RunCount
  <2> HIDE DEF e
  <2> QED BY <1>1, <1>2, <1>3, <2>1, <2>2, <2>3
<1> QED BY <1>4, <1>5

\* What the end of Submit does: at most one job more, of the call's assessment
\* and time, and the call moves on or returns.
LEMMA CreateMoves ==
    ASSUME TypeInv, NEW p \in Callers, RunCreate(p)
    PROVE  /\ proc[p].pc = "create" /\ proc[p].id \in DefIds
           /\ proc' \in [Procs -> Proc]
           /\ \/ proc'[p] = Idle /\ p # Sched
              \/ /\ proc'[p].id = proc[p].id /\ proc'[p].now = proc[p].now
                 /\ \/ proc'[p].pc = "update" /\ proc'[p].d = proc[p].d
                    \/ proc'[p].pc = "refuse" /\ p = Sched
           /\ \A q \in Procs \ {p} :
                 \/ proc'[q] = proc[q]
                 \/ q # Sched /\ proc'[q].pc = "run" /\ proc'[q].id = proc[p].id
           /\ \/ jobs' = jobs /\ DiskFault
              \/ /\ Len(jobs) + 1 \notin DOMAIN jobs
                 /\ DOMAIN jobs' = DOMAIN jobs \cup {Len(jobs) + 1}
                 /\ \A i \in DOMAIN jobs : jobs'[i] = jobs[i] /\ i < Len(jobs) + 1
                 /\ jobs'[Len(jobs) + 1].def = proc[p].id
                 /\ jobs'[Len(jobs) + 1].asked = proc[p].now
                 /\ p # Sched => jobs'[Len(jobs) + 1].trigger = "manual"
           /\ UNCHANGED <<clock, defs, used, listed, requests, crashes, affirmed, acked, noted>>
<1>0. p \in Procs /\ Sched \in Procs /\ p \notin JobIds /\ proc[p] \in Proc /\ Fits(proc[p])
  BY DEF Callers, Procs, TypeInv, TypeOK, Shape
<1>1. proc[p].pc = "create" /\ proc[p].id \in DefIds /\ proc[p].d \in Definition
  BY <1>0 DEF RunCreate, At, Fits, Proc
<1>2. Len(jobs) + 1 \in JobIds /\ Len(jobs) \in Nat /\ Len(jobs) + 1 # p /\ jobs \in Seq(Job)
      /\ Len(jobs) + 1 \in Procs /\ Len(jobs) + 1 # Sched /\ DOMAIN jobs = 1..Len(jobs)
  BY <1>0 DEF RunCreate, JobIds, TypeInv, TypeOK, Procs
<1>3. Returned(p, FALSE) \in Proc
      /\ \/ Returned(p, FALSE) = Idle /\ p # Sched
         \/ /\ p = Sched /\ Returned(p, FALSE).pc = "refuse"
            /\ Returned(p, FALSE).id = proc[p].id /\ Returned(p, FALSE).now = proc[p].now
  BY <1>0, <1>1, ReturnedType DEF Returned
<1>4. ASSUME NEW state \in {"active", "refused"}, jobs' = Append(jobs, NewJob(p, state))
      PROVE  /\ Len(jobs) + 1 \notin DOMAIN jobs
             /\ DOMAIN jobs' = DOMAIN jobs \cup {Len(jobs) + 1}
             /\ \A i \in DOMAIN jobs : jobs'[i] = jobs[i] /\ i < Len(jobs) + 1
             /\ jobs'[Len(jobs) + 1].def = proc[p].id
             /\ jobs'[Len(jobs) + 1].asked = proc[p].now
             /\ p # Sched => jobs'[Len(jobs) + 1].trigger = "manual"
  <2> DEFINE j == NewJob(p, state)
  <2>1. j \in Job
    BY <1>0, <1>1 DEF NewJob, Job, Proc, Definition, TypeInv, TypeOK
  <2>2. j.def = proc[p].id /\ j.asked = proc[p].now /\ (p # Sched => j.trigger = "manual")
    BY DEF NewJob
  <2>0. jobs' = Append(jobs, j)
    BY <1>4
  <2> HIDE DEF j
  <2>3. /\ DOMAIN jobs' = 1..(Len(jobs) + 1) /\ jobs'[Len(jobs) + 1] = j
        /\ \A i \in 1..Len(jobs) : jobs'[i] = jobs[i]
    BY <1>2, <2>0, <2>1
  <2>4. 1..(Len(jobs) + 1) = 1..Len(jobs) \cup {Len(jobs) + 1}
        /\ \A i \in 1..Len(jobs) : i < Len(jobs) + 1
    BY <1>2
  <2> QED BY <1>2, <2>2, <2>3, <2>4
<1>5. CASE proc' = [proc EXCEPT ![p] = Returned(p, FALSE)]
           /\ (jobs' = Append(jobs, NewJob(p, "refused")) \/ (jobs' = jobs /\ DiskFault))
  <2> DEFINE e == Returned(p, FALSE)
  <2> HIDE DEF e
  <2>1. proc' \in [Procs -> Proc] /\ proc'[p] = e /\ \A q \in Procs \ {p} : proc'[q] = proc[q]
    BY <1>0, <1>3, <1>5 DEF TypeInv, TypeOK, e
  <2>2. \/ e = Idle /\ p # Sched
        \/ p = Sched /\ e.pc = "refuse" /\ e.id = proc[p].id /\ e.now = proc[p].now
    BY <1>3 DEF e
  <2> QED BY <1>1, <1>4, <1>5, <2>1, <2>2 DEF RunCreate
<1>6. CASE /\ jobs' = Append(jobs, NewJob(p, "active"))
           /\ proc' = [proc EXCEPT
                  ![p] = [@ EXCEPT !.pc = "update"],
                  ![Len(jobs) + 1] = [Idle EXCEPT !.pc = "run", !.id = proc[p].id]]
  <2> DEFINE e == [proc[p] EXCEPT !.pc = "update"]
             g == [Idle EXCEPT !.pc = "run", !.id = proc[p].id]
             n == Len(jobs) + 1
  <2>1. e \in Proc /\ g \in Proc /\ e.pc = "update" /\ e.id = proc[p].id
        /\ e.now = proc[p].now /\ e.d = proc[p].d /\ g.pc = "run" /\ g.id = proc[p].id
    BY <1>0, <1>1 DEF Proc, Labels, Idle
  <2>2. proc' \in [Procs -> Proc] /\ proc'[p] = e /\ proc'[n] = g
        /\ \A q \in Procs \ {p, n} : proc'[q] = proc[q]
    BY <1>0, <1>2, <1>6, <2>1 DEF TypeInv, TypeOK
  <2> HIDE DEF e, g
  <2> QED BY <1>1, <1>2, <1>4, <1>6, <2>1, <2>2 DEF RunCreate
<1>7. \/ /\ proc' = [proc EXCEPT ![p] = Returned(p, FALSE)]
         /\ jobs' = Append(jobs, NewJob(p, "refused")) \/ (jobs' = jobs /\ DiskFault)
      \/ /\ jobs' = Append(jobs, NewJob(p, "active"))
         /\ proc' = [proc EXCEPT
                ![p] = [@ EXCEPT !.pc = "update"],
                ![Len(jobs) + 1] = [Idle EXCEPT !.pc = "run", !.id = proc[p].id]]
  BY DEF RunCreate
<1> QED BY <1>5, <1>6, <1>7

\* A call of RunDefinition keeps the books.
LEMMA BooksRunStep ==
    ASSUME TypeInv, Books, NEW p \in Callers, RunStep(p) PROVE Books'
<1>0. p \in Procs /\ proc[p] \in Proc /\ Fits(proc[p]) /\ EntryKept(proc[p], used, clock)
  BY DEF Callers, Procs, TypeInv, TypeOK, Shape, Books, EntriesKept
<1>1. CASE RunGet(p) \/ RunCount(p)
  <2>1. PICK e \in Proc :
             /\ Fits(e) /\ proc' = [proc EXCEPT ![p] = e]
             /\ \/ e = Idle /\ p # Sched
                \/ /\ e.id = proc[p].id /\ e.now = proc[p].now /\ e.id \in DefIds
                   /\ e.pc \in {"refuse", "count", "create"}
             /\ UNCHANGED <<clock, defs, used, jobs, listed>>
    BY <1>1, CallMoves
  <2>2. proc[p].pc \in {"get", "count"}
    BY <1>1 DEF RunGet, RunCount, At
  <2>3. EntryKept(e, used', clock)
    BY <1>0, <2>1, <2>2 DEF EntryKept, Idle
  <2> QED BY <1>0, <2>1, <2>2, <2>3, BooksMove DEF SameJobs, ListShrinks
<1>2. CASE RunCreate(p)
  <2>1. EntriesKept'
    <3>1. EntryKept(proc'[p], used', clock')
      BY <1>0, <1>2, CreateMoves DEF EntryKept, Idle
    <3>2. ASSUME NEW q \in Procs \ {p} PROVE EntryKept(proc'[q], used', clock')
      <4>1. EntryKept(proc[q], used, clock)
        BY DEF Books, EntriesKept
      <4> QED BY <1>0, <1>2, <4>1, CreateMoves DEF EntryKept
    <3> QED BY <1>0, <3>1, <3>2 DEF EntriesKept
  <2>2. proc[p].id \in used /\ proc[p].now <= clock
    BY <1>0, <1>2, CreateMoves DEF EntryKept
  <2>3. References'
    BY <1>2, <2>2, CreateMoves DEF Books, References
  <2>4. AskedInPast'
    <3>1. \A i \in DOMAIN jobs' : jobs'[i].asked <= clock'
      BY <1>2, <2>2, CreateMoves DEF Books, AskedInPast
    <3>2. CASE p = Sched
      BY <1>0, <1>2, <3>1, <3>2, CreateMoves DEF Books, AskedInPast, Proc
    <3>3. CASE p # Sched
      <4>1. proc'[Sched] = proc[Sched]
        BY <1>2, <3>3, CreateMoves DEF Procs
      <4> QED BY <1>2, <3>1, <3>3, <4>1, CreateMoves DEF Books, AskedInPast
    <3> QED BY <3>2, <3>3
  <2>5. ListEmpty'
    BY <1>2, CreateMoves DEF Books, ListEmpty, Procs
  <2> QED BY <2>1, <2>3, <2>4, <2>5 DEF Books
<1>3. CASE RunUpdate(p)
  <2> DEFINE id == proc[p].id
  <2>1. id \in DefIds /\ proc[p].d \in Definition /\ proc[p].now \in Nat /\ proc[p].pc = "update"
    BY <1>0, <1>3 DEF RunUpdate, At, Fits, Proc
  <2>2. AfterStart(proc[p].d, proc[p].now) \in Definition
    BY <2>1, DefinitionsClosed, <1>0 DEF Definition
  <2>3. \A i \in DefIds : defs'[i] = NoDef <=> defs[i] = NoDef
    BY <1>3, <2>1, <2>2, StoreType DEF RunUpdate, TypeInv
  <2>4. PICK ok \in BOOLEAN : /\ proc' = [proc EXCEPT ![p] = Returned(p, ok)]
                              /\ listed' = ListedAfter(p, ok)
    BY <1>3 DEF RunUpdate
  <2> DEFINE e == Returned(p, ok)
  <2>5. e \in Proc /\ Fits(e)
    BY <2>1, ReturnedType DEF Returned, Fits, Idle
  <2>6. \/ e = Idle /\ p # Sched
        \/ /\ e.pc \in {"scan", "refuse"} /\ e.now = proc[p].now
           /\ e.id \in {proc[p].id, NoDef}
    BY DEF Returned
  <2>7. proc' = [proc EXCEPT ![p] = e]
    BY <2>4
  <2> HIDE DEF e
  <2>8. EntryKept(e, used', clock)
    BY <1>0, <1>3, <2>1, <2>6 DEF EntryKept, Idle, RunUpdate
  <2>9. ListShrinks
    BY <2>1, <2>4 DEF ListShrinks, ListedAfter, TypeInv, TypeOK
  <2>10. UNCHANGED <<clock, used, jobs>>
    BY <1>3 DEF RunUpdate
  <2> QED BY <1>0, <2>1, <2>3, <2>5, <2>6, <2>7, <2>8, <2>9, <2>10, BooksMove
          DEF SameJobs, Idle
<1> QED BY <1>1, <1>2, <1>3 DEF RunStep

\* The draft SaveDefinition builds is due an interval after its authorisation.
LEMMA DraftDue ==
    ASSUME NEW op \in Operators, NEW days \in Nat, NEW n \in Nat,
           NEW s \in BOOLEAN, NEW notify \in BOOLEAN, NEW now \in Nat
    PROVE  DueBeyond(NewDefinition(op, days, n, s, notify, now))
<1>1. n > 0 => AddDays(now, n) \in Nat
  BY DEF AddDays
<1> QED BY <1>1 DEF DueBeyond, NewDefinition

\* Every step keeps the books.
LEMMA BooksNext == TypeInv /\ Books /\ [Next]_vars => Books'
<1> SUFFICES ASSUME TypeInv, Books, [Next]_vars PROVE Books'
  OBVIOUS
<1>0. /\ Sched \in Procs /\ Threads \subseteq Procs /\ JobIds \subseteq Procs
      /\ Sched \notin JobIds /\ Sched \notin Threads /\ JobIds \subseteq Nat
      /\ \A p \in Procs : proc[p] \in Proc /\ Fits(proc[p])
                         /\ EntryKept(proc[p], used, clock)
      /\ clock \in Nat /\ Idle \in Proc /\ Fits(Idle) /\ EntryKept(Idle, used, clock)
      /\ EntryKept(Idle, used', clock)
  BY DEF Procs, JobIds, TypeInv, TypeOK, Shape, Books, EntriesKept, EntryKept, Idle, Proc,
         Labels, Fits
<1>1. CASE UNCHANGED vars
  BY <1>1 DEF vars, Books, EntriesKept, EntryKept, References, AskedInPast, ListEmpty
<1>2. CASE Tick
  <2>1. clock' = clock + 1 /\ UNCHANGED <<defs, used, jobs, proc, listed>>
    BY <1>2 DEF Tick
  <2>2. ASSUME NEW p \in Procs PROVE EntryKept(proc[p], used, clock + 1)
    <3>1. EntryKept(proc[p], used, clock) /\ proc[p].now \in Nat
      BY <1>0 DEF Proc
    <3>2. proc[p].pc \in {"idle", "run"} \/ clock - proc[p].now < MaxLag
      BY <1>2 DEF Tick, At
    <3> QED BY <1>0, <3>1, <3>2 DEF EntryKept
  <2>3. \A i \in DOMAIN jobs : jobs[i].asked \in Nat
    <3>1. \A i \in DOMAIN jobs : jobs[i] \in Job
      BY DEF TypeInv, TypeOK
    <3> QED BY <3>1 DEF Job
  <2>4. EntriesKept' /\ References' /\ ListEmpty'
    BY <2>1, <2>2 DEF Books, EntriesKept, References, ListEmpty
  <2>5. AskedInPast'
    BY <1>0, <2>1, <2>3 DEF Books, AskedInPast
  <2> QED BY <2>4, <2>5 DEF Books
<1>3. CASE Crash
  BY <1>0, <1>3 DEF Crash, Books, EntriesKept, EntryKept, References, AskedInPast, ListEmpty, Idle
<1>4. CASE SchedWake
  <2> DEFINE e == [Idle EXCEPT !.pc = "list", !.now = clock]
  <2>1. e \in Proc /\ e.pc = "list" /\ e.now = clock /\ e.id = NoDef
    BY <1>0 DEF Proc, Labels, Idle
  <2>2. Fits(e) /\ EntryKept(e, used', clock)
    BY <1>0, <2>1 DEF Fits, EntryKept
  <2>3. proc' = [proc EXCEPT ![Sched] = e] /\ UNCHANGED <<clock, defs, used, jobs, listed>>
        /\ \A id \in DefIds : listed[id] = NoDef
    BY <1>4 DEF SchedWake, At, Books, ListEmpty
  <2> HIDE DEF e
  <2> QED BY <1>0, <2>1, <2>2, <2>3, BooksMove DEF SameJobs, ListShrinks
<1>5. CASE SchedList
  <2>1. /\ proc[Sched].pc = "list" /\ UNCHANGED <<clock, defs, used, jobs>>
        /\ listed' = DueIn(proc[Sched].now)
        /\ proc' = [proc EXCEPT ![Sched] = [proc[Sched] EXCEPT !.pc = "scan"]]
    BY <1>5 DEF SchedList, At
  <2> DEFINE e == [proc[Sched] EXCEPT !.pc = "scan"]
  <2>2. e \in Proc /\ e.pc = "scan" /\ e.now = proc[Sched].now /\ e.id = proc[Sched].id
    BY <1>0 DEF Proc, Labels
  <2>3. Fits(e) /\ EntryKept(e, used', clock)
    BY <1>0, <2>1, <2>2 DEF Fits, EntryKept
  <2>4. /\ proc'[Sched] = e /\ \A q \in Procs \ {Sched} : proc'[q] = proc[q]
    BY <1>0, <2>1, <2>2, <2>3, OneMoves
  <2>5. \A id \in DefIds : listed'[id] # NoDef => defs[id] # NoDef
    BY <2>1 DEF DueIn
  <2> HIDE DEF e
  <2>6. EntriesKept'
    BY <2>1, <2>3, <2>4 DEF Books, EntriesKept
  <2>7. References'
    BY <2>1, <2>5 DEF Books, References
  <2>8. AskedInPast'
    BY <2>1, <2>2, <2>4 DEF Books, AskedInPast
  <2>9. ListEmpty'
    BY <2>2, <2>4 DEF ListEmpty
  <2> QED BY <2>6, <2>7, <2>8, <2>9 DEF Books
<1>6. CASE SchedRefused
  <2> DEFINE id == proc[Sched].id
             e == [proc[Sched] EXCEPT !.pc = "scan", !.id = NoDef]
  <2>1. id \in DefIds /\ listed[id] \in Definition /\ proc[Sched].now \in Nat
        /\ listed[id].op \in Operators /\ proc[Sched].pc = "refuse"
    BY <1>0, <1>6 DEF SchedRefused, At, TypeInv, TypeOK, Shape, ListedFits, Fits, Proc,
         Definition
  <2>2. PushedOut(listed[id], proc[Sched].now) \in Definition
    BY <2>1, DefinitionsClosed
  <2>3. \A i \in DefIds : defs'[i] = NoDef <=> defs[i] = NoDef
    BY <1>6, <2>1, <2>2, StoreType DEF SchedRefused, TypeInv
  <2>4. e \in Proc /\ e.pc = "scan" /\ e.now = proc[Sched].now /\ e.id = NoDef
    BY <1>0 DEF Proc, Labels
  <2>5. proc' = [proc EXCEPT ![Sched] = e] /\ UNCHANGED <<clock, used, jobs>> /\ ListShrinks
    BY <1>6 DEF SchedRefused, ListShrinks, TypeInv, TypeOK
  <2> HIDE DEF e
  <2>6. Fits(e) /\ EntryKept(e, used', clock)
    BY <1>0, <2>1, <2>4 DEF Fits, EntryKept
  <2> QED BY <1>0, <2>1, <2>3, <2>4, <2>5, <2>6, BooksMove DEF SameJobs
<1>7. CASE SchedDone
  BY <1>0, <1>7, BooksMove DEF SchedDone, SameJobs, ListShrinks, Idle
<1>8. ASSUME NEW id \in DefIds, SchedLapsed(id) PROVE Books'
  <2>1. listed[id] \in Definition /\ listed[id].op \in Operators
    BY <1>8 DEF SchedLapsed, TypeInv, TypeOK, Definition
  <2>2. Lapsed(listed[id]) \in Definition
    BY <2>1, DefinitionsClosed, 0 \in Nat
  <2>3. \A i \in DefIds : defs'[i] = NoDef <=> defs[i] = NoDef
    BY <1>8, <2>2, StoreType DEF SchedLapsed, RecordLapse, TypeInv
  <2>4. ListShrinks /\ UNCHANGED <<clock, used, jobs, proc>> /\ proc[Sched].pc = "scan"
    BY <1>8 DEF SchedLapsed, ListShrinks, TypeInv, TypeOK, At
  <2>5. proc' = [proc EXCEPT ![Sched] = proc[Sched]]
    BY <2>4 DEF TypeInv, TypeOK
  <2>6. EntryKept(proc[Sched], used', clock)
    BY <1>0, <2>4
  <2> QED BY <1>0, <2>3, <2>4, <2>5, <2>6, BooksMove DEF SameJobs
<1>9. ASSUME NEW id \in DefIds, SchedRun(id) PROVE Books'
  <2> DEFINE e == Calling(Sched, id, proc[Sched].now)
  <2>1. proc' = [proc EXCEPT ![Sched] = e] /\ UNCHANGED <<clock, defs, used, jobs, listed>>
        /\ listed[id] # NoDef /\ proc[Sched].pc = "scan"
    BY <1>9 DEF SchedRun, At
  <2>2. e \in Proc /\ Fits(e) /\ e.now = proc[Sched].now /\ e.pc = "get" /\ e.id = id
    BY <1>0 DEF Calling, Proc, Labels, Fits
  <2> HIDE DEF e
  <2>3. EntryKept(e, used', clock)
    BY <1>0, <2>1, <2>2 DEF EntryKept, Books, References
  <2> QED BY <1>0, <2>1, <2>2, <2>3, BooksMove DEF SameJobs, ListShrinks
<1>10. ASSUME NEW p \in Callers, RunStep(p) PROVE Books'
  BY <1>10, BooksRunStep
<1>11. ASSUME NEW t \in Threads, SaveList(t) PROVE Books'
  <2>0. UNCHANGED <<clock, defs, used, jobs, listed>>
    BY <1>11 DEF SaveList
  <2>1. CASE UNCHANGED proc
    BY <2>0, <2>1 DEF Books, EntriesKept, References, AskedInPast, ListEmpty
  <2>2. ASSUME NEW op \in Operators, NEW days \in DayChoices, NEW n \in Intervals,
               NEW s \in Survives, NEW notify \in Notifies,
               proc' = [proc EXCEPT ![t] =
                    [pc |-> "save", id |-> NoDef, now |-> clock,
                     d |-> NewDefinition(op, days, n, s, notify, clock)]]
        PROVE  Books'
    <3> DEFINE d == NewDefinition(op, days, n, s, notify, clock)
               e == [pc |-> "save", id |-> NoDef, now |-> clock, d |-> d]
    <3>1. d \in Definition /\ DueBeyond(d)
      BY <1>0, NewDefinitionType, DraftDue
    <3> HIDE DEF d
    <3>2. e \in Proc /\ Fits(e) /\ EntryKept(e, used', clock)
      BY <1>0, <3>1 DEF Proc, Labels, Fits, EntryKept
    <3> USE DEF d
    <3>3. proc' = [proc EXCEPT ![t] = e]
      BY <2>2
    <3> HIDE DEF e
    <3> QED BY <1>0, <2>0, <3>2, <3>3, BooksMove DEF SameJobs, ListShrinks
  <2> QED BY <1>11, <2>1, <2>2 DEF SaveList
<1>12. ASSUME NEW t \in Threads, SaveCreate(t) PROVE Books'
  <2>1. used \subseteq used' /\ UNCHANGED <<clock, jobs, listed>>
        /\ proc' = [proc EXCEPT ![t] = Idle]
        /\ \A id \in DefIds : defs'[id] # NoDef => defs[id] # NoDef \/ id \in used'
    BY <1>12 DEF SaveCreate, TypeInv, TypeOK
  <2> QED BY <1>0, <2>1, BooksMove DEF SameJobs, ListShrinks
<1>13. ASSUME NEW t \in Threads, Delete(t) PROVE Books'
  <2>1. UNCHANGED <<clock, used, jobs, listed, proc>>
        /\ \A id \in DefIds : defs'[id] # NoDef => defs[id] # NoDef
    BY <1>13 DEF Delete, TypeInv, TypeOK
  <2> QED BY <2>1 DEF Books, EntriesKept, References, AskedInPast, ListEmpty
<1>14. ASSUME NEW t \in Threads, ReauthoriseRead(t) PROVE Books'
  <2>1. PICK id \in Stored, op \in Operators, days \in DayChoices :
            proc' = [proc EXCEPT ![t] =
                    [pc |-> "reauthorise", id |-> id, now |-> clock,
                     d |-> Reaffirmed(defs[id], op, days, clock)]]
    BY <1>14 DEF ReauthoriseRead
  <2> DEFINE d == Reaffirmed(defs[id], op, days, clock)
             e == [pc |-> "reauthorise", id |-> id, now |-> clock, d |-> d]
  <2>2. d \in Definition /\ id \in DefIds /\ id \in used
    BY <1>0, DefinitionsClosed DEF Stored, TypeInv, TypeOK, Books, References
  <2>3. proc' = [proc EXCEPT ![t] = e]
    BY <2>1
  <2>4. UNCHANGED <<clock, defs, used, jobs, listed>>
    BY <1>14 DEF ReauthoriseRead
  <2> HIDE DEF d
  <2>5. e \in Proc /\ Fits(e) /\ EntryKept(e, used', clock)
    BY <1>0, <2>2, <2>4 DEF Proc, Labels, Fits, EntryKept
  <2> HIDE DEF e
  <2> QED BY <1>0, <2>3, <2>4, <2>5, BooksMove DEF SameJobs, ListShrinks
<1>15. ASSUME NEW t \in Threads, ReauthoriseWrite(t) PROVE Books'
  <2>1. proc[t].d \in Definition /\ proc[t].id \in DefIds
    BY <1>0, <1>15 DEF ReauthoriseWrite, At, Fits, Proc
  <2>2. \A i \in DefIds : defs'[i] = NoDef <=> defs[i] = NoDef
    BY <1>15, <2>1, StoreType DEF ReauthoriseWrite, TypeInv
  <2>3. proc' = [proc EXCEPT ![t] = Idle] /\ UNCHANGED <<clock, used, jobs, listed>>
    BY <1>15 DEF ReauthoriseWrite
  <2> QED BY <1>0, <2>2, <2>3, BooksMove DEF SameJobs, ListShrinks
<1>16. ASSUME NEW t \in Threads, RunRequest(t) PROVE Books'
  <2>1. PICK id \in used : proc' = [proc EXCEPT ![t] = Calling(t, id, clock)]
    BY <1>16 DEF RunRequest
  <2> DEFINE e == Calling(t, id, clock)
  <2>2. e \in Proc /\ Fits(e) /\ EntryKept(e, used, clock)
    BY <1>0, <2>1 DEF Calling, Proc, Labels, Fits, EntryKept, TypeInv, TypeOK
  <2>3. UNCHANGED <<clock, defs, used, jobs, listed>>
    BY <1>16 DEF RunRequest
  <2> HIDE DEF e
  <2> QED BY <1>0, <2>1, <2>2, <2>3, BooksMove DEF SameJobs, ListShrinks, e
<1>17. ASSUME NEW k \in JobIds, JobEnds(k) \/ RecordBaseline(k) PROVE Books'
  <2>1. PICK e \in EndSteps(k) : proc' = [proc EXCEPT ![k] = e]
    BY <1>0, <1>17, EndEffect
  <2>2. SameJobs /\ UNCHANGED <<clock, defs, used, listed>> /\ proc[k].id \in DefIds
        /\ k \in Procs
    BY <1>0, <1>17, EndEffect, EndKeepsJobs
  <2>3. \/ e = Idle
        \/ e = [proc[k] EXCEPT !.pc = "baseline", !.now = clock] /\ JobEnds(k)
        \/ e = [proc[k] EXCEPT !.pc = "after"] /\ RecordBaseline(k)
    <3>1. CASE JobEnds(k)
      BY <1>0, <2>1, <2>2, <3>1 DEF JobEnds, TypeInv, TypeOK, Proc, EndSteps
    <3>2. CASE RecordBaseline(k)
      <4>1. proc'[k] = [proc[k] EXCEPT !.pc = "after"]
        BY <2>2, <3>2 DEF RecordBaseline, TypeInv, TypeOK
      <4>2. proc'[k] = e
        BY <2>1, <2>2 DEF TypeInv, TypeOK
      <4> QED BY <3>2, <4>1, <4>2
    <3> QED BY <1>17, <3>1, <3>2
  <2>4. e \in Proc /\ Fits(e) /\ EntryKept(e, used', clock)
    <3>1. proc[k] \in Proc /\ EntryKept(proc[k], used, clock)
          /\ (RecordBaseline(k) => proc[k].pc = "baseline")
      BY <1>0, <2>2 DEF RecordBaseline, At
    <3>2. CASE e = Idle
      BY <1>0, <2>2, <3>2
    <3>3. CASE e = [proc[k] EXCEPT !.pc = "baseline", !.now = clock]
      <4>1. e \in Proc /\ e.pc = "baseline" /\ e.now = clock /\ e.id = proc[k].id
        BY <1>0, <3>1, <3>3 DEF Proc, Labels
      <4> QED BY <1>0, <2>2, <3>1, <4>1 DEF Fits, EntryKept
    <3>4. CASE e = [proc[k] EXCEPT !.pc = "after"] /\ RecordBaseline(k)
      <4>1. e \in Proc /\ e.pc = "after" /\ e.now = proc[k].now /\ e.id = proc[k].id
        BY <3>1, <3>4 DEF Proc, Labels
      <4> QED BY <2>2, <3>1, <3>4, <4>1 DEF Fits, EntryKept
    <3> QED BY <2>3, <3>2, <3>3, <3>4
  <2> QED BY <1>0, <2>1, <2>2, <2>4, BooksMove DEF ListShrinks
<1>18. ASSUME NEW k \in JobIds, AfterGet(k) PROVE Books'
  <2> DEFINE d == defs[proc[k].id]
             e == [proc[k] EXCEPT !.pc = "notify", !.d = d]
  <2>1. proc[k].pc = "after" /\ proc[k].id \in DefIds /\ d \in Definition \cup {NoDef}
        /\ proc[k] \in Proc /\ EntryKept(proc[k], used, clock)
    BY <1>0, <1>18 DEF AfterGet, At, TypeInv, TypeOK, Fits
  <2>2. UNCHANGED <<clock, defs, used, jobs, listed>>
    BY <1>18 DEF AfterGet
  <2>3. d # NoDef => e \in Proc /\ Fits(e) /\ EntryKept(e, used', clock)
    BY <2>1, <2>2 DEF Proc, Labels, Fits, EntryKept
  <2>4. \/ proc' = [proc EXCEPT ![k] = Idle]
        \/ d # NoDef /\ proc' = [proc EXCEPT ![k] = e]
    BY <1>18 DEF AfterGet
  <2> HIDE DEF e
  <2> QED BY <1>0, <2>2, <2>3, <2>4, BooksMove DEF SameJobs, ListShrinks
<1>19. ASSUME NEW k \in JobIds, NotifySent(k) PROVE Books'
  BY <1>0, <1>19, BooksMove DEF NotifySent, SameJobs, ListShrinks
<1>20. ASSUME NEW k \in JobIds, NotifyFails(k) PROVE Books'
  <2>1. proc[k].d \in Definition /\ proc[k].id \in DefIds /\ proc[k].d.op \in Operators
    BY <1>0, <1>20 DEF NotifyFails, At, Fits, Proc, Definition
  <2>2. NotifyFailed(proc[k].d, k) \in Definition
    BY <1>0, <2>1, DefinitionsClosed, 0 \in Nat
  <2>3. \A i \in DefIds : defs'[i] = NoDef <=> defs[i] = NoDef
    BY <1>20, <2>1, <2>2, StoreType DEF NotifyFails, TypeInv
  <2>4. proc' = [proc EXCEPT ![k] = Idle] /\ UNCHANGED <<clock, used, jobs, listed>>
    BY <1>20 DEF NotifyFails
  <2> QED BY <1>0, <2>3, <2>4, BooksMove DEF SameJobs, ListShrinks
<1> QED
  BY <1>1, <1>2, <1>3, <1>4, <1>5, <1>6, <1>7, <1>8, <1>9, <1>10, <1>11, <1>12,
     <1>13, <1>14, <1>15, <1>16, <1>17, <1>18, <1>19, <1>20
  DEF Next, SchedStep, Arrival, HandlerStep, JobStep, Callers

-----------------------------------------------------------------------------
(* One assessment left to run in peace.                                      *)

\* Every authorisation given for D is one and the same.
Once(D) == \A a, b \in affirmed : a.id = D /\ b.id = D => a = b

\* D is stored, was never renewed, and nothing failed on the way.
Calm(D) ==
    /\ defs[D] # NoDef /\ Once(D)
    /\ faults = 0 /\ crashes = 0 /\ noted = {}

\* A clone of D that may be written back.
Sane(D, d) == d.interval = defs[D].interval /\ DueBeyond(d)

\* What a goroutine e knows of D: its clone is sane, its time is no earlier
\* than the authorisation, and a renewal carries the time it was asked for.
CloneRegular(D, e) ==
    e.id = D =>
        /\ e.pc \in {"reauthorise", "count", "create", "update"} => Sane(D, e.d)
        /\ e.pc \in {"get", "count", "create", "update"} => defs[D].at <= e.now
        /\ e.pc = "reauthorise" => e.d.at = e.now

Scheduled(D) == {i \in DOMAIN jobs : jobs[i].def = D /\ jobs[i].trigger = "schedule"}

\* A run due at t keeps its distance from every run the scheduler started.
Served(D, t) ==
    \A i \in Scheduled(D) : AddDays(jobs[i].asked, defs[D].interval) <= t + MaxLag

\* The scheduler has started D, or been refused, and has yet to write it down.
Pending(D) == proc[Sched].pc \in {"update", "refuse"} /\ proc[Sched].id = D

ListedRegular(D) ==
    listed[D] # NoDef => Sane(D, listed[D]) /\ IsDue(listed[D], proc[Sched].now)

\* The heart of it: every due date the scheduler can act on, in the store or
\* in its list, lies an interval after every run it has started -- except
\* while it is about to write the next one.
DueAfterServed(D) ==
    ~Pending(D) => /\ Served(D, defs[D].next)
                   /\ listed[D] # NoDef => Served(D, listed[D].next)

Spaced(D) ==
    \A i, j \in Scheduled(D) :
        i < j => AddDays(jobs[i].asked, defs[D].interval) <= jobs[j].asked + MaxLag

Regular(D) ==
    /\ \A p \in Procs : CloneRegular(D, proc[p])
    /\ DueBeyond(defs[D])
    /\ ListedRegular(D) /\ DueAfterServed(D)
    /\ Scheduled(D) # {} => defs[D].interval > 0
    /\ Spaced(D)

SpacingInv == \A D \in DefIds : Calm(D) => Regular(D)

\* Two clones of an assessment affirmed once carry the same time.
LEMMA SameAffirmation ==
    ASSUME NEW D \in DefIds, Once(D), NEW d \in Definition, NEW f \in Definition,
           Genuine(D, d), Genuine(D, f)
    PROVE  d.at = f.at
<1>1. AffirmationOf(D, d) = AffirmationOf(D, f)
  BY DEF Once, Genuine, AffirmationOf
<1> QED BY <1>1 DEF AffirmationOf

\* The assessment stays regular when no run is added, every clone and the new
\* list and definition are sane, and the due dates stay beyond the runs.
LEMMA RegularStep ==
    ASSUME TypeInv, TypeInv', AuthInv, AuthInv', NEW D \in DefIds,
           Calm(D), Calm(D)', Regular(D), affirmed \subseteq affirmed',
           Sane(D, defs'[D]), \A p \in Procs : CloneRegular(D, proc'[p]), SameJobs,
           listed'[D] # NoDef => Sane(D, listed'[D]) /\ IsDue(listed'[D], proc'[Sched].now),
           ~Pending(D)' => /\ Served(D, defs'[D].next)
                           /\ listed'[D] # NoDef => Served(D, listed'[D].next)
    PROVE  Regular(D)'
<1>1. /\ defs[D] \in Definition /\ defs'[D] \in Definition
      /\ AffirmationOf(D, defs[D]) \in affirmed' /\ AffirmationOf(D, defs'[D]) \in affirmed'
  BY DEF Calm, TypeInv, TypeOK, AuthInv, StoreGenuine, Stored, Genuine
<1>2. defs'[D].at = defs[D].at
  <2>1. AffirmationOf(D, defs[D]) = AffirmationOf(D, defs'[D])
    BY <1>1 DEF Calm, Once, AffirmationOf
  <2> QED BY <2>1 DEF AffirmationOf
<1>3. defs'[D].interval = defs[D].interval /\ DueBeyond(defs'[D])
  BY DEF Sane
<1>4. \A d : Sane(D, d) <=> Sane(D, d)'
  BY <1>3 DEF Sane, DueBeyond
<1>5. \A p \in Procs : CloneRegular(D, proc[p])'
  BY <1>2, <1>3 DEF CloneRegular, Sane
<1>6. Scheduled(D)' = Scheduled(D) /\ \A i \in Scheduled(D) : jobs'[i].asked = jobs[i].asked
  BY DEF Scheduled, SameJobs
<1>7. DueBeyond(defs[D])'
  BY <1>3 DEF DueBeyond
<1>8. ListedRegular(D)'
  BY <1>3 DEF ListedRegular, Sane, DueBeyond, IsDue
<1>9. DueAfterServed(D)'
  BY <1>3, <1>6 DEF DueAfterServed, Served
<1>10. (Scheduled(D) # {} => defs[D].interval > 0)' /\ Spaced(D)'
  BY <1>3, <1>6 DEF Regular, Spaced
<1> QED BY <1>5, <1>7, <1>8, <1>9, <1>10 DEF Regular

\* The same of a step that moves one goroutine: the definition of D is left
\* alone or replaced by a sane one that is due beyond its runs, and the list
\* keeps its clone of D or loses it.
LEMMA RegularMove ==
    ASSUME TypeInv, TypeInv', AuthInv, AuthInv', NEW D \in DefIds,
           Calm(D), Calm(D)', Regular(D), affirmed \subseteq affirmed', SameJobs,
           NEW p \in Procs, NEW e \in Proc, Fits(e), proc' = [proc EXCEPT ![p] = e],
           CloneRegular(D, e),
           \/ defs'[D] = defs[D] /\ (Pending(D) => Pending(D)')
           \/ Sane(D, defs'[D]) /\ Served(D, defs'[D].next),
           \/ listed'[D] = NoDef
           \/ /\ listed'[D] = listed[D] /\ (Pending(D) => Pending(D)')
              /\ p = Sched => e.now = proc[Sched].now
    PROVE  Regular(D)'
<1>0. Sched \in Procs /\ proc'[p] = e /\ \A q \in Procs \ {p} : proc'[q] = proc[q]
  BY OneMoves DEF Procs
<1>1. Sane(D, defs'[D])
  BY DEF Regular, Sane
<1>2. \A q \in Procs : CloneRegular(D, proc'[q])
  BY <1>0 DEF Regular
<1>3. listed'[D] # NoDef => Sane(D, listed'[D]) /\ IsDue(listed'[D], proc'[Sched].now)
  BY <1>0 DEF Regular, ListedRegular
<1>4. ~Pending(D)' => /\ Served(D, defs'[D].next)
                      /\ listed'[D] # NoDef => Served(D, listed'[D].next)
  BY DEF Regular, DueAfterServed
<1> QED BY <1>1, <1>2, <1>3, <1>4, RegularStep

\* The counters of what went wrong only grow, and affirmations are never lost.
Grown ==
    /\ affirmed \subseteq affirmed' /\ noted \subseteq noted'
    /\ faults' = 0 => faults = 0
    /\ crashes' = 0 => crashes = 0

\* A fault on disk shows.
LEMMA FaultShows == ASSUME TypeInv, DiskFault PROVE faults' # 0
BY DEF TypeInv, TypeOK, DiskFault

\* No step forgets what went wrong or what was affirmed.
LEMMA OnlyGrows == ASSUME TypeInv, [Next]_vars PROVE Grown
<1>0. faults' = faults \/ DiskFault => (faults' = 0 => faults = 0)
  BY FaultShows
<1>1. CASE UNCHANGED vars
  BY <1>1 DEF vars, Grown
<1>2. CASE Tick \/ SchedWake \/ SchedList \/ SchedRefused \/ SchedDone
  BY <1>0, <1>2 DEF Tick, SchedWake, SchedList, SchedRefused, SchedDone, UpdateSucceeds,
                    UpdateFails, Grown
<1>3. CASE Crash
  BY <1>3 DEF Crash, Grown, TypeInv, TypeOK
<1>4. ASSUME NEW id \in DefIds, SchedLapsed(id) \/ SchedRun(id) PROVE Grown
  BY <1>0, <1>4 DEF SchedLapsed, RecordLapse, SchedRun, UpdateSucceeds, UpdateFails, Grown
<1>5. ASSUME NEW p \in Callers, RunStep(p) PROVE Grown
  BY <1>0, <1>5 DEF RunStep, RunGet, RunCount, RunCreate, RunUpdate, UpdateSucceeds,
                    UpdateFails, Grown
<1>6. ASSUME NEW t \in Threads, Arrival(t) PROVE Grown
  BY <1>0, <1>6 DEF Arrival, SaveList, Delete, ReauthoriseRead, RunRequest, Grown
<1>7. ASSUME NEW t \in Threads, SaveCreate(t) \/ ReauthoriseWrite(t) PROVE Grown
  BY <1>0, <1>7 DEF SaveCreate, ReauthoriseWrite, UpdateSucceeds, UpdateFails, Grown
<1>8. ASSUME NEW k \in JobIds, JobStep(k) PROVE Grown
  BY <1>0, <1>8 DEF JobStep, JobEnds, RecordBaseline, AfterGet, NotifySent, NotifyFails,
                    UpdateSucceeds, UpdateFails, Grown
<1> QED
  BY <1>1, <1>2, <1>3, <1>4, <1>5, <1>6, <1>7, <1>8
  DEF Next, SchedStep, HandlerStep, Callers

\* A peaceful state is preceded by one, unless the assessment is new.
LEMMA CalmBefore ==
    ASSUME TypeInv, [Next]_vars, NEW D \in DefIds, Calm(D)', defs[D] # NoDef
    PROVE  Calm(D)
BY OnlyGrows DEF Grown, Calm, Once

\* An assessment that appears is new: a handler has just stored the draft.
LEMMA OnlySavesCreate ==
    ASSUME TypeInv, AuthInv, [Next]_vars, NEW D \in DefIds, defs[D] = NoDef, defs'[D] # NoDef
    PROVE  /\ D \notin used
           /\ \E t \in Threads :
                /\ proc[t].pc = "save" /\ defs'[D] = proc[t].d
                /\ proc' = [proc EXCEPT ![t] = Idle]
                /\ UNCHANGED <<clock, jobs, listed>>
<1>1. D \notin Stored /\ D \in Stored'
  BY DEF Stored
<1>2. D \in used' /\ D \notin used
  BY <1>1, Steps DEF Quiet, AR!ANext, AR!Save, AR!Affirm, AR!Remove, AR!Begin
<1>3. PICK t \in Threads : SaveCreate(t)
  BY <1>2 DEF vars, Next, SchedStep, Arrival, HandlerStep, JobStep, Tick, Crash, SchedWake,
     SchedList, SchedRefused, SchedDone, SchedLapsed, SchedRun, RunStep, RunGet, RunCount,
     RunCreate, RunUpdate, SaveList, Delete, ReauthoriseRead, RunRequest, ReauthoriseWrite,
     JobEnds, RecordBaseline, AfterGet, NotifySent, NotifyFails
<1>4. defs'[D] = proc[t].d
  <2>1. defs' # defs
    OBVIOUS
  <2>2. PICK id \in DefIds \ used : defs' = [defs EXCEPT ![id] = proc[t].d]
    BY <1>3, <2>1 DEF SaveCreate
  <2> QED BY <2>2 DEF TypeInv, TypeOK
<1> QED BY <1>2, <1>3, <1>4 DEF SaveCreate, At

\* A new assessment starts regular: nobody has heard of it.
LEMMA RegularNew ==
    ASSUME TypeInv, AuthInv, Books, [Next]_vars, NEW D \in DefIds,
           defs[D] = NoDef, defs'[D] # NoDef
    PROVE  Regular(D)'
<1>1. PICK t \in Threads :
         /\ proc[t].pc = "save" /\ defs'[D] = proc[t].d
         /\ proc' = [proc EXCEPT ![t] = Idle]
         /\ UNCHANGED <<clock, jobs, listed>>
  BY OnlySavesCreate
<1>2. D \notin used /\ D # NoDef
  BY OnlySavesCreate
<1>3. \A p \in Procs : proc'[p].id # D
  <2>1. \A p \in Procs : proc[p].id # D
    BY <1>2 DEF Books, EntriesKept, EntryKept
  <2>2. ASSUME NEW p \in Procs PROVE proc'[p].id # D
    BY <1>1, <1>2, <2>1 DEF TypeInv, TypeOK, Idle
  <2> QED BY <2>2
<1>4. listed'[D] = NoDef /\ Scheduled(D)' = {}
  BY <1>1, <1>2 DEF Books, References, Scheduled
<1>5. DueBeyond(defs[D])'
  <2>1. DueBeyond(proc[t].d)
    BY <1>1 DEF Books, EntriesKept, EntryKept, Procs
  <2> QED BY <1>1, <2>1 DEF DueBeyond
<1> QED BY <1>3, <1>4, <1>5
        DEF Regular, CloneRegular, ListedRegular, DueAfterServed, Served, Spaced

\* The time a recorded run was asked for is a time.
LEMMA AskedType == ASSUME TypeInv, NEW i \in DOMAIN jobs PROVE jobs[i].asked \in Nat
<1>1. jobs[i] \in Job
  BY DEF TypeInv, TypeOK
<1> QED BY <1>1 DEF Job

\* A clone's due date lies beyond its authorisation.
LEMMA ListedLater ==
    ASSUME TypeInv, NEW D \in DefIds, NEW d \in Definition, NEW now \in Nat,
           DueBeyond(d), IsDue(d, now)
    PROVE  d.at <= now /\ d.interval > 0 /\ d.interval \in Nat
           /\ AddDays(d.at, d.interval) \in Nat /\ d.next <= now
<1>1. d.at \in Nat /\ d.interval \in Nat /\ d.next \in Nat
  BY DEF Definition
<1>2. AddDays(d.at, d.interval) \in Nat /\ d.at <= AddDays(d.at, d.interval)
  BY <1>1, d.at <= d.at + 0, 0 \in Nat, DayArithmetic
<1> QED BY <1>1, <1>2 DEF DueBeyond, IsDue

\* A due date one interval after `now` keeps its distance from every run that
\* was asked for before that, within the lag.
LEMMA NextServed ==
    ASSUME TypeInv, NEW D \in DefIds, NEW now \in Nat, defs[D] # NoDef,
           \A i \in Scheduled(D) : jobs[i].asked <= now + MaxLag
    PROVE  Served(D, AddDays(now, defs[D].interval))
<1>1. defs[D].interval \in Nat
  BY DEF TypeInv, TypeOK, Definition
<1>2. ASSUME NEW i \in Scheduled(D)
      PROVE  AddDays(jobs[i].asked, defs[D].interval)
                <= AddDays(now, defs[D].interval) + MaxLag
  <2>1. jobs[i].asked \in Nat /\ jobs[i].asked <= now + MaxLag
    BY <1>2, AskedType DEF Scheduled
  <2> QED BY <1>1, <2>1, DayArithmetic
<1> QED BY <1>2 DEF Served

\* The part of the step that starts or refuses a run.
LEMMA RegularCreate ==
    ASSUME TypeInv, TypeInv', AuthInv, AuthInv', Books, Grown, NEW D \in DefIds,
           Calm(D), Calm(D)', Regular(D), NEW p \in Callers, RunCreate(p)
    PROVE  Regular(D)'
<1>0. /\ p \in Procs /\ Sched \in Procs /\ UNCHANGED <<clock, defs, listed>>
      /\ defs[D] \in Definition /\ proc[Sched].now \in Nat
  BY CreateMoves DEF Callers, Procs, Calm, TypeInv, TypeOK, Proc
<1>1. \A q \in Procs : CloneRegular(D, proc'[q])
  <2>1. CloneRegular(D, proc'[p])
    <3>1. CloneRegular(D, proc[p])
      BY <1>0 DEF Regular
    <3> QED BY <3>1, CreateMoves DEF CloneRegular, Idle
  <2>2. ASSUME NEW q \in Procs \ {p} PROVE CloneRegular(D, proc'[q])
    <3>1. CloneRegular(D, proc[q])
      BY DEF Regular
    <3> QED BY <3>1, CreateMoves DEF CloneRegular
  <2> QED BY <2>1, <2>2
<1>2. proc'[Sched].now = proc[Sched].now
  BY <1>0, CreateMoves
<1>3. Sane(D, defs'[D])
  BY <1>0 DEF Regular, Sane
<1>4. listed'[D] # NoDef => Sane(D, listed'[D]) /\ IsDue(listed'[D], proc'[Sched].now)
  BY <1>0, <1>2 DEF Regular, ListedRegular
<1>5. Pending(D) => Pending(D)'
  BY <1>0, CreateMoves DEF Pending
<1>6. ~Pending(D)' => /\ Served(D, defs'[D].next)
                      /\ listed'[D] # NoDef => Served(D, listed'[D].next)
  BY <1>0, <1>5 DEF Regular, DueAfterServed
<1>7. CASE jobs' = jobs
  BY <1>0, <1>1, <1>3, <1>4, <1>6, <1>7, RegularStep DEF SameJobs, Grown
<1>8. CASE jobs' # jobs
  <2> DEFINE n == Len(jobs) + 1
  <2>1. /\ n \notin DOMAIN jobs /\ DOMAIN jobs' = DOMAIN jobs \cup {n}
        /\ \A i \in DOMAIN jobs : jobs'[i] = jobs[i] /\ i < n
        /\ jobs'[n].def = proc[p].id /\ jobs'[n].asked = proc[p].now
        /\ p # Sched => jobs'[n].trigger = "manual"
    BY <1>8, CreateMoves
  <2>2. n \in Nat /\ \A i \in DOMAIN jobs : i \in Nat
    BY DEF TypeInv, TypeOK
  <2> HIDE DEF n
  <2>3. ASSUME p # Sched \/ proc[p].id # D PROVE Regular(D)'
    <3>1. Scheduled(D)' = Scheduled(D) /\ \A i \in Scheduled(D) : jobs'[i] = jobs[i]
      BY <2>1, <2>3 DEF Scheduled
    <3>2. \A q \in Procs : CloneRegular(D, proc[q])'
      BY <1>0, <1>1 DEF CloneRegular, Sane
    <3>3. ListedRegular(D)'
      BY <1>0, <1>4 DEF ListedRegular, Sane
    <3>4. DueAfterServed(D)'
      BY <1>0, <1>6, <3>1 DEF DueAfterServed, Served
    <3>5. Spaced(D)' /\ (Scheduled(D)' # {} => defs'[D].interval > 0) /\ DueBeyond(defs[D])'
      BY <1>0, <3>1 DEF Regular, Spaced, DueBeyond
    <3> QED BY <3>2, <3>3, <3>4, <3>5 DEF Regular
  <2>4. CASE p = Sched /\ proc[p].id = D
    <3>1. /\ proc[Sched].pc = "create" /\ listed[D] \in Definition
          /\ Sane(D, listed[D]) /\ IsDue(listed[D], proc[Sched].now)
          /\ Served(D, listed[D].next)
      BY <2>4, CreateMoves DEF TypeInv, TypeOK, Shape, ListedFits, Regular, ListedRegular,
         DueAfterServed, Pending
    <3>2. listed[D].next <= proc[Sched].now /\ defs[D].interval > 0
          /\ listed[D].next \in Nat
      BY <1>0, <3>1, ListedLater DEF Sane, Definition
    <3>3. ASSUME NEW i \in Scheduled(D)
          PROVE  AddDays(jobs[i].asked, defs[D].interval) <= proc[Sched].now + MaxLag
      <4>1. AddDays(jobs[i].asked, defs[D].interval) \in Nat
        <5>1. jobs[i].asked \in Nat
          BY <3>3, AskedType DEF Scheduled
        <5> QED BY <1>0, <5>1 DEF AddDays, Definition
      <4> QED BY <1>0, <3>1, <3>2, <4>1 DEF Served
    <3>4. Scheduled(D)' \subseteq Scheduled(D) \cup {n}
          /\ \A i \in Scheduled(D) : jobs'[i] = jobs[i] /\ i < n /\ i \in Nat
      BY <2>1, <2>2 DEF Scheduled
    <3>5. Spaced(D)'
      <4> SUFFICES ASSUME NEW i \in Scheduled(D)', NEW j \in Scheduled(D)', i < j
                   PROVE  AddDays(jobs'[i].asked, defs'[D].interval)
                            <= jobs'[j].asked + MaxLag
        BY DEF Spaced
      <4>1. CASE j \in Scheduled(D)
        <5>1. i \in Scheduled(D)
          BY <2>2, <3>4, <4>1
        <5> QED BY <1>0, <3>4, <4>1, <5>1 DEF Regular, Spaced
      <4>2. CASE j = n
        <5>1. i \in Scheduled(D)
          BY <2>2, <3>4, <4>2
        <5> QED BY <1>0, <2>1, <2>4, <3>3, <3>4, <4>2, <5>1
      <4> QED BY <3>4, <4>1, <4>2
    <3>6. \A q \in Procs : CloneRegular(D, proc[q])'
      BY <1>0, <1>1 DEF CloneRegular, Sane
    <3>7. ListedRegular(D)'
      BY <1>0, <1>4 DEF ListedRegular, Sane
    <3>8. Pending(D)'
      BY <2>4, CreateMoves DEF Pending
    <3> QED BY <1>0, <3>2, <3>5, <3>6, <3>7, <3>8
            DEF Regular, DueAfterServed, DueBeyond
  <2> QED BY <2>3, <2>4
<1> QED BY <1>7, <1>8

\* A started run, written down: the next due date lies an interval after it.
LEMMA RegularUpdate ==
    ASSUME TypeInv, TypeInv', AuthInv, AuthInv', Books, Grown, NEW D \in DefIds,
           Calm(D), Calm(D)', Regular(D), NEW p \in Callers, RunUpdate(p)
    PROVE  Regular(D)'
<1> DEFINE id == proc[p].id
           d == AfterStart(proc[p].d, proc[p].now)
<1>0. /\ p \in Procs /\ proc[p] \in Proc /\ EntryKept(proc[p], used, clock)
      /\ id \in DefIds /\ proc[p].d \in Definition /\ proc[p].now \in Nat /\ clock \in Nat
      /\ proc[p].pc = "update" /\ CloneRegular(D, proc[p])
      /\ AffirmationOf(id, proc[p].d) \in affirmed
      /\ UNCHANGED jobs /\ defs[D] \in Definition
  <2>1. p \in Procs /\ proc[p] \in Proc /\ Fits(proc[p]) /\ CloneFits(proc[p], affirmed, clock)
        /\ EntryKept(proc[p], used, clock) /\ CloneRegular(D, proc[p]) /\ clock \in Nat
        /\ defs[D] \in Definition
    BY DEF Callers, Procs, TypeInv, TypeOK, Shape, AuthInv, ClonesGenuine, Books, EntriesKept,
           Regular, Calm
  <2> QED BY <2>1 DEF RunUpdate, At, Fits, Proc, CloneFits
<1>1. PICK ok \in BOOLEAN : /\ proc' = [proc EXCEPT ![p] = Returned(p, ok)]
                            /\ listed' = ListedAfter(p, ok)
                            /\ \/ UpdateSucceeds(id, d) /\ ok = TRUE
                               \/ UpdateFails(id) /\ ok = FALSE
  BY DEF RunUpdate
<1> DEFINE e == Returned(p, ok)
<1>2. e \in Proc /\ Fits(e)
  BY <1>0, <1>1, ReturnedType DEF Returned, Fits, Idle
<1>3. /\ e.pc \in {"idle", "scan", "refuse"}
      /\ p = Sched => e.now = proc[Sched].now
      /\ p = Sched /\ ok = FALSE => e.pc = "refuse" /\ e.id = id
  BY DEF Returned, Idle
<1>4. proc' = [proc EXCEPT ![p] = e]
  BY <1>1
<1>5. proc'[p] = e /\ \A q \in Procs \ {p} : proc'[q] = proc[q]
  BY <1>0, <1>2, <1>4, OneMoves
<1>6. CloneRegular(D, e)
  BY <1>3 DEF CloneRegular
<1>7. SameJobs
  BY <1>0 DEF SameJobs
<1>8. CASE id = D
  <2>1. defs' = [defs EXCEPT ![id] = d] /\ ok = TRUE
    BY <1>1, <1>8, FaultShows DEF Calm, UpdateSucceeds, UpdateFails
  <2>2. defs'[D] = d
    BY <1>8, <2>1 DEF TypeInv, TypeOK
  <2>3. /\ proc[p].d.interval = defs[D].interval /\ DueBeyond(proc[p].d)
        /\ defs[D].at <= proc[p].now
    BY <1>0, <1>8 DEF CloneRegular, Sane
  <2>4. proc[p].d.at = defs[D].at
    BY <1>0, <1>8, SameAffirmation DEF Calm, Genuine, AuthInv, StoreGenuine, Stored
  <2>5. /\ d.interval = proc[p].d.interval /\ d.at = proc[p].d.at
        /\ d.next = IF proc[p].d.interval > 0
                    THEN AddDays(proc[p].now, proc[p].d.interval) ELSE proc[p].d.next
    BY <1>0 DEF AfterStart, Definition
  <2>6. defs[D].interval \in Nat /\ defs[D].at \in Nat
    BY <1>0 DEF Definition
  <2> HIDE DEF d
  <2>7. AddDays(defs[D].at, defs[D].interval) <= AddDays(proc[p].now, defs[D].interval)
    BY <1>0, <2>3, <2>6, LaterDays
  <2>8. Sane(D, d)
    BY <2>3, <2>4, <2>5, <2>7 DEF Sane, DueBeyond
  <2>9. Served(D, d.next)
    <3>1. ASSUME NEW i \in Scheduled(D) PROVE jobs[i].asked <= proc[p].now + MaxLag
      <4>1. jobs[i].asked <= clock /\ jobs[i].asked \in Nat
        BY AskedType DEF Scheduled, Books, AskedInPast
      <4> QED BY <1>0, <4>1 DEF EntryKept
    <3>2. Served(D, AddDays(proc[p].now, defs[D].interval))
      BY <1>0, <3>1, NextServed DEF Calm
    <3>3. CASE defs[D].interval > 0
      BY <2>3, <2>5, <3>2, <3>3
    <3>4. CASE ~(defs[D].interval > 0)
      BY <3>4 DEF Regular, Served
    <3> QED BY <3>3, <3>4
  <2>10. listed'[D] = NoDef \/ (listed'[D] = listed[D] /\ p # Sched)
    BY <1>0, <1>1, <1>8, <2>1 DEF ListedAfter, TypeInv, TypeOK
  <2>11. p # Sched => (Pending(D) => Pending(D)')
    BY <1>5 DEF Pending, Procs
  <2> HIDE DEF e
  <2> QED BY <1>0, <1>2, <1>4, <1>6, <1>7, <2>2, <2>8, <2>9, <2>10, <2>11, RegularMove DEF Grown, RunUpdate
<1>9. CASE id # D
  <2>1. defs'[D] = defs[D] /\ listed'[D] = listed[D]
    BY <1>1, <1>9 DEF ListedAfter, TypeInv, TypeOK, UpdateSucceeds, UpdateFails
  <2>2. Pending(D) => Pending(D)'
    BY <1>5, <1>9 DEF Pending, Procs
  <2> HIDE DEF e
  <2> QED BY <1>0, <1>2, <1>3, <1>4, <1>6, <1>7, <2>1, <2>2, RegularMove DEF Grown
<1> QED BY <1>8, <1>9

\* The scheduler's own steps, apart from its calls of RunDefinition.
LEMMA RegularSched ==
    ASSUME TypeInv, TypeInv', AuthInv, AuthInv', Books, Grown, NEW D \in DefIds,
           Calm(D), Calm(D)', Regular(D),
           \/ SchedWake \/ SchedList \/ SchedRefused \/ SchedDone
           \/ \E id \in DefIds : SchedLapsed(id) \/ SchedRun(id)
    PROVE  Regular(D)'
<1>0. /\ Sched \in Procs /\ proc[Sched] \in Proc /\ Fits(proc[Sched])
      /\ CloneRegular(D, proc[Sched]) /\ defs[D] \in Definition /\ proc[Sched].now \in Nat
      /\ Idle \in Proc /\ Fits(Idle) /\ affirmed \subseteq affirmed'
      /\ listed[D] # NoDef => /\ listed[D] \in Definition /\ Sane(D, listed[D])
                              /\ IsDue(listed[D], proc[Sched].now)
                              /\ listed[D].at = defs[D].at
  <2>1. Sched \in Procs /\ proc[Sched] \in Proc /\ Fits(proc[Sched])
        /\ CloneRegular(D, proc[Sched]) /\ defs[D] \in Definition /\ affirmed \subseteq affirmed'
    BY DEF Procs, TypeInv, TypeOK, Shape, Regular, Calm, Grown
  <2>2. listed[D] # NoDef => /\ listed[D] \in Definition /\ Sane(D, listed[D])
                             /\ IsDue(listed[D], proc[Sched].now)
    BY DEF TypeInv, TypeOK, Regular, ListedRegular
  <2>3. listed[D] # NoDef => listed[D].at = defs[D].at
    BY <2>1, <2>2, SameAffirmation DEF Calm, AuthInv, StoreGenuine, Stored
  <2> QED BY <2>1, <2>2, <2>3 DEF Proc, Idle, Labels, Fits
<1>1. CASE SchedWake
  <2> DEFINE e == [Idle EXCEPT !.pc = "list", !.now = clock]
  <2>1. e \in Proc /\ e.pc = "list" /\ Fits(e) /\ CloneRegular(D, e)
    BY DEF Proc, Labels, Idle, Fits, CloneRegular, TypeInv, TypeOK
  <2>2. proc' = [proc EXCEPT ![Sched] = e] /\ UNCHANGED <<defs, jobs, listed>>
        /\ proc[Sched].pc = "idle" /\ listed[D] = NoDef
    BY <1>1 DEF SchedWake, At, Books, ListEmpty
  <2>3. ~Pending(D)
    BY <2>2 DEF Pending
  <2> HIDE DEF e
  <2> QED BY <1>0, <2>1, <2>2, <2>3, RegularMove DEF SameJobs
<1>2. CASE SchedList
  <2> DEFINE e == [proc[Sched] EXCEPT !.pc = "scan"]
  <2>1. /\ proc[Sched].pc = "list" /\ UNCHANGED <<defs, jobs>>
        /\ listed' = DueIn(proc[Sched].now)
        /\ proc' = [proc EXCEPT ![Sched] = e]
    BY <1>2 DEF SchedList, At
  <2>2. e \in Proc /\ e.pc = "scan" /\ e.now = proc[Sched].now
    BY <1>0 DEF Proc, Labels
  <2> HIDE DEF e
  <2>3. Fits(e) /\ CloneRegular(D, e)
    BY <2>2 DEF Fits, CloneRegular
  <2>4. /\ proc'[Sched] = e /\ \A q \in Procs \ {Sched} : proc'[q] = proc[q]
    BY <1>0, <2>1, <2>2, <2>3, OneMoves
  <2>5. listed'[D] # NoDef => listed'[D] = defs[D] /\ IsDue(defs[D], proc[Sched].now)
    BY <2>1 DEF DueIn
  <2>6. ~Pending(D) /\ Sane(D, defs[D])
    BY <2>1 DEF Pending, Regular, Sane
  <2>7. \A q \in Procs : CloneRegular(D, proc'[q])
    BY <2>3, <2>4 DEF Regular
  <2>8. Served(D, defs[D].next)
    BY <2>6 DEF Regular, DueAfterServed
  <2> QED BY <1>0, <2>1, <2>2, <2>4, <2>5, <2>6, <2>7, <2>8, RegularStep DEF SameJobs
<1>3. CASE SchedRefused
  <2> DEFINE id == proc[Sched].id
             e == [proc[Sched] EXCEPT !.pc = "scan", !.id = NoDef]
             d == PushedOut(listed[D], proc[Sched].now)
  <2>1. e \in Proc /\ e.pc = "scan" /\ e.now = proc[Sched].now /\ id \in DefIds
        /\ proc[Sched].pc = "refuse"
    BY <1>0, <1>3 DEF Proc, Labels, Fits, SchedRefused, At
  <2>2. proc' = [proc EXCEPT ![Sched] = e] /\ UNCHANGED jobs
        /\ listed' = [listed EXCEPT ![id] = NoDef]
        /\ (UpdateSucceeds(id, PushedOut(listed[id], proc[Sched].now)) \/ UpdateFails(id))
    BY <1>3 DEF SchedRefused
  <2> HIDE DEF e
  <2>3. Fits(e) /\ CloneRegular(D, e)
    BY <2>1 DEF Fits, CloneRegular
  <2>4. CASE id # D
    <3>1. defs'[D] = defs[D] /\ listed'[D] = listed[D] /\ ~Pending(D)
      BY <2>2, <2>4 DEF Pending, TypeInv, TypeOK, UpdateSucceeds, UpdateFails
    <3> QED BY <1>0, <2>1, <2>2, <2>3, <3>1, RegularMove DEF SameJobs
  <2>5. CASE id = D
    <3>1. defs'[D] = d /\ listed'[D] = NoDef
      BY <2>2, <2>5, FaultShows DEF Calm, UpdateSucceeds, UpdateFails, TypeInv, TypeOK
    <3>2. listed[D] # NoDef
      BY <2>1, <2>5 DEF TypeInv, Shape, ListedFits
    <3>3. /\ d.interval = defs[D].interval /\ d.at = listed[D].at
          /\ d.next = AddDays(proc[Sched].now, defs[D].interval)
      BY <1>0, <3>2 DEF PushedOut, Definition, Sane
    <3>4. listed[D].at <= proc[Sched].now /\ listed[D].at \in Nat /\ defs[D].interval \in Nat
      BY <1>0, <3>2, ListedLater DEF Sane, Definition
    <3> HIDE DEF d
    <3>5. Sane(D, d)
      <4>1. AddDays(listed[D].at, defs[D].interval)
              <= AddDays(proc[Sched].now, defs[D].interval)
        BY <1>0, <3>4, LaterDays
      <4> QED BY <3>3, <4>1 DEF Sane, DueBeyond
    <3>6. Served(D, d.next)
      <4>1. ASSUME NEW i \in Scheduled(D) PROVE jobs[i].asked <= proc[Sched].now + MaxLag
        <5>1. jobs[i].asked <= proc[Sched].now /\ jobs[i].asked \in Nat
          BY <2>1, AskedType DEF Scheduled, Books, AskedInPast
        <5> QED BY <1>0, <5>1
      <4> QED BY <1>0, <3>3, <4>1, NextServed DEF Calm
    <3> QED BY <1>0, <2>1, <2>2, <2>3, <3>1, <3>5, <3>6, RegularMove DEF SameJobs
  <2> QED BY <2>4, <2>5
<1>4. CASE SchedDone
  <2>1. proc' = [proc EXCEPT ![Sched] = Idle] /\ UNCHANGED <<defs, jobs, listed>>
        /\ proc[Sched].pc = "scan" /\ listed[D] = NoDef
    BY <1>4 DEF SchedDone, At
  <2>2. ~Pending(D) /\ CloneRegular(D, Idle)
    BY <2>1 DEF Pending, CloneRegular, Idle
  <2> QED BY <1>0, <2>1, <2>2, RegularMove DEF SameJobs
<1>5. ASSUME NEW id \in DefIds, SchedLapsed(id) PROVE Regular(D)'
  <2>1. /\ proc[Sched].pc = "scan" /\ listed[id] # NoDef /\ UNCHANGED <<jobs, proc>>
        /\ listed' = [listed EXCEPT ![id] = NoDef]
        /\ \/ UpdateSucceeds(id, Lapsed(listed[id])) \/ UpdateFails(id) \/ UNCHANGED defs
    BY <1>5 DEF SchedLapsed, RecordLapse, At
  <2>2. proc' = [proc EXCEPT ![Sched] = proc[Sched]] /\ ~Pending(D)
    BY <2>1 DEF TypeInv, TypeOK, Pending
  <2>3. CASE id # D
    <3>1. defs'[D] = defs[D] /\ listed'[D] = listed[D]
      BY <2>1, <2>3 DEF TypeInv, TypeOK, UpdateSucceeds, UpdateFails
    <3> QED BY <1>0, <2>1, <2>2, <3>1, RegularMove DEF SameJobs
  <2>4. CASE id = D
    <3>1. (defs'[D] = defs[D] \/ defs'[D] = Lapsed(listed[D])) /\ listed'[D] = NoDef
      BY <2>1, <2>4 DEF UpdateSucceeds, UpdateFails, TypeInv, TypeOK
    <3> DEFINE d == Lapsed(listed[D])
    <3>2. d.interval = listed[D].interval /\ d.at = listed[D].at /\ d.next = listed[D].next
      BY <1>0, <2>1, <2>4 DEF Lapsed, Definition
    <3>3. defs'[D] = defs[D] \/ defs'[D] = d
      BY <3>1
    <3> HIDE DEF d
    <3>4. Sane(D, d) /\ Served(D, d.next)
      BY <1>0, <2>1, <2>2, <2>4, <3>2 DEF Sane, DueBeyond, Regular, DueAfterServed
    <3> QED BY <1>0, <2>1, <2>2, <3>1, <3>3, <3>4, RegularMove DEF SameJobs
  <2> QED BY <2>3, <2>4
<1>6. ASSUME NEW id \in DefIds, SchedRun(id) PROVE Regular(D)'
  <2> DEFINE e == Calling(Sched, id, proc[Sched].now)
  <2>1. proc' = [proc EXCEPT ![Sched] = e] /\ UNCHANGED <<defs, jobs, listed>>
        /\ listed[id] # NoDef /\ proc[Sched].pc = "scan"
    BY <1>6 DEF SchedRun, At
  <2>2. e \in Proc /\ Fits(e) /\ e.now = proc[Sched].now /\ e.pc = "get" /\ e.id = id
    BY <1>0 DEF Calling, Proc, Labels, Fits
  <2> HIDE DEF e
  <2>3. CloneRegular(D, e) /\ ~Pending(D)
    BY <1>0, <2>1, <2>2, ListedLater DEF CloneRegular, Pending, Sane
  <2> QED BY <1>0, <2>1, <2>2, <2>3, RegularMove DEF SameJobs
<1> QED BY <1>1, <1>2, <1>3, <1>4, <1>5, <1>6

\* The handlers' own steps, apart from their calls of RunDefinition.
LEMMA RegularHandler ==
    ASSUME TypeInv, TypeInv', AuthInv, AuthInv', Books, Grown, NEW D \in DefIds,
           Calm(D), Calm(D)', Regular(D), NEW t \in Threads,
           Arrival(t) \/ SaveCreate(t) \/ ReauthoriseWrite(t)
    PROVE  Regular(D)'
<1>0. /\ t \in Procs /\ t # Sched /\ proc[t] \in Proc /\ Fits(proc[t])
      /\ EntryKept(proc[t], used, clock) /\ CloneRegular(D, proc[t])
      /\ defs[D] \in Definition /\ clock \in Nat /\ defs[D].at <= clock
      /\ Idle \in Proc /\ Fits(Idle) /\ CloneRegular(D, Idle)
      /\ affirmed \subseteq affirmed' /\ D \in used /\ D # NoDef
  <2>1. defs[D] \in Definition /\ AffirmationOf(D, defs[D]) \in affirmed
    BY DEF Calm, TypeInv, TypeOK, AuthInv, StoreGenuine, Stored, Genuine
  <2>2. AffirmationOf(D, defs[D]).at = defs[D].at
    BY DEF AffirmationOf
  <2>3. defs[D].at <= clock
    BY <2>1, <2>2 DEF AuthInv, AffirmedInPast
  <2>4. CloneRegular(D, Idle)
    BY DEF CloneRegular, Idle
  <2> QED BY <2>1, <2>3, <2>4 DEF Procs, TypeInv, TypeOK, Shape, Books, EntriesKept, References,
          Regular, Calm, Grown, Proc, Idle, Labels, Fits
<1>1. ASSUME NEW e \in Proc, Fits(e), CloneRegular(D, e), proc' = [proc EXCEPT ![t] = e],
             UNCHANGED <<jobs, listed>>, defs'[D] = defs[D]
      PROVE  Regular(D)'
  <2>1. Pending(D) => Pending(D)'
    BY <1>0, <1>1, OneMoves DEF Pending, Procs
  <2> QED BY <1>0, <1>1, <2>1, RegularMove DEF SameJobs
<1>2. CASE SaveList(t)
  <2>1. UNCHANGED <<jobs, listed, defs>>
    BY <1>2 DEF SaveList
  <2>2. CASE UNCHANGED proc
    <3>1. proc' = [proc EXCEPT ![t] = proc[t]]
      BY <2>2 DEF TypeInv, TypeOK
    <3> QED BY <1>0, <1>1, <2>1, <3>1
  <2>3. ASSUME NEW op \in Operators, NEW days \in DayChoices, NEW n \in Intervals,
               NEW s \in Survives, NEW notify \in Notifies,
               proc' = [proc EXCEPT ![t] =
                    [pc |-> "save", id |-> NoDef, now |-> clock,
                     d |-> NewDefinition(op, days, n, s, notify, clock)]]
        PROVE  Regular(D)'
    <3> DEFINE d == NewDefinition(op, days, n, s, notify, clock)
               e == [pc |-> "save", id |-> NoDef, now |-> clock, d |-> d]
    <3>1. d \in Definition
      BY <1>0, NewDefinitionType
    <3> HIDE DEF d
    <3>2. e \in Proc /\ Fits(e) /\ CloneRegular(D, e)
      BY <1>0, <3>1 DEF Proc, Labels, Fits, CloneRegular
    <3> USE DEF d
    <3>3. proc' = [proc EXCEPT ![t] = e]
      BY <2>3
    <3> HIDE DEF e
    <3> QED BY <1>1, <2>1, <3>2, <3>3
  <2> QED BY <1>2, <2>2, <2>3 DEF SaveList
<1>3. CASE Delete(t)
  <2>1. defs'[D] = defs[D] /\ UNCHANGED <<jobs, listed, proc>>
    BY <1>3 DEF Delete, Calm, TypeInv, TypeOK
  <2>2. proc' = [proc EXCEPT ![t] = proc[t]]
    BY <2>1 DEF TypeInv, TypeOK
  <2> QED BY <1>0, <1>1, <2>1, <2>2
<1>4. CASE ReauthoriseRead(t)
  <2>1. PICK id \in Stored, op \in Operators, days \in DayChoices :
            /\ proc' = [proc EXCEPT ![t] =
                    [pc |-> "reauthorise", id |-> id, now |-> clock,
                     d |-> Reaffirmed(defs[id], op, days, clock)]]
            /\ affirmed' = affirmed \cup {Renewal(id, op, days)}
    BY <1>4 DEF ReauthoriseRead
  <2> DEFINE d == Reaffirmed(defs[id], op, days, clock)
             e == [pc |-> "reauthorise", id |-> id, now |-> clock, d |-> d]
  <2>2. d \in Definition /\ id \in DefIds /\ defs[id] \in Definition
    BY <1>0, DefinitionsClosed DEF Stored, TypeInv, TypeOK
  <2>3. proc' = [proc EXCEPT ![t] = e]
    BY <2>1
  <2>4. UNCHANGED <<jobs, listed, defs>>
    BY <1>4 DEF ReauthoriseRead
  <2>5. id = D => Sane(D, d) /\ d.at = clock
    <3> SUFFICES ASSUME id = D PROVE Sane(D, d) /\ d.at = clock
      OBVIOUS
    <3>1. d.at = clock
      BY <1>0, <2>2, ReaffirmedNow
    <3>2. Renewal(D, op, days) = AffirmationOf(D, defs[D])
      <4>1. Renewal(D, op, days) \in affirmed' /\ Renewal(D, op, days).id = D
        BY <2>1 DEF Renewal
      <4>2. AffirmationOf(D, defs[D]) \in affirmed' /\ AffirmationOf(D, defs[D]).id = D
        BY <1>0 DEF AuthInv, StoreGenuine, Stored, Genuine, AffirmationOf, Calm
      <4> QED BY <4>1, <4>2 DEF Calm, Once
    <3>3. defs[D].at = clock
      <4>1. Renewal(D, op, days).at = clock /\ AffirmationOf(D, defs[D]).at = defs[D].at
        BY DEF Renewal, AffirmationOf
      <4> QED BY <3>2, <4>1
    <3>4. d.interval = defs[D].interval
          /\ d.next = IF defs[D].interval > 0 /\ (defs[D].next = 0 \/ defs[D].next < clock)
                      THEN clock ELSE defs[D].next
      BY <2>2 DEF Reaffirmed, Definition
    <3> HIDE DEF d
    <3>5. defs[D].interval > 0 => defs[D].next > clock /\ defs[D].next \in Nat
      <4>1. defs[D].interval \in Nat /\ defs[D].next \in Nat /\ clock <= clock + 0
        BY <1>0 DEF Definition
      <4>2. defs[D].interval > 0 => clock < AddDays(clock, defs[D].interval)
        BY <1>0, <4>1, 0 \in Nat, DayArithmetic
      <4>3. AddDays(clock, defs[D].interval) \in Nat
        BY <1>0, <4>1, 0 \in Nat, DayArithmetic
      <4> QED BY <1>0, <3>3, <4>1, <4>2, <4>3 DEF Regular, DueBeyond
    <3>6. defs[D].interval > 0 => d.next = defs[D].next
      BY <1>0, <3>4, <3>5
    <3> QED BY <3>1, <3>3, <3>4, <3>6 DEF Sane, DueBeyond, Regular
  <2> HIDE DEF d
  <2>6. e \in Proc /\ Fits(e) /\ CloneRegular(D, e)
    BY <1>0, <2>2, <2>5 DEF Proc, Labels, Fits, CloneRegular
  <2> HIDE DEF e
  <2> QED BY <1>1, <2>3, <2>4, <2>6
<1>5. CASE RunRequest(t)
  <2>1. PICK id \in used : proc' = [proc EXCEPT ![t] = Calling(t, id, clock)]
    BY <1>5 DEF RunRequest
  <2> DEFINE e == Calling(t, id, clock)
  <2>2. e \in Proc /\ Fits(e) /\ CloneRegular(D, e)
    BY <1>0 DEF Calling, Proc, Labels, Fits, CloneRegular, TypeInv, TypeOK
  <2>3. UNCHANGED <<defs, jobs, listed>> /\ proc' = [proc EXCEPT ![t] = e]
    BY <1>5, <2>1 DEF RunRequest
  <2> HIDE DEF e
  <2> QED BY <1>1, <2>2, <2>3
<1>6. CASE SaveCreate(t)
  <2>1. defs'[D] = defs[D] /\ UNCHANGED <<jobs, listed>> /\ proc' = [proc EXCEPT ![t] = Idle]
    BY <1>0, <1>6 DEF SaveCreate, TypeInv, TypeOK
  <2> QED BY <1>0, <1>1, <2>1
<1>7. CASE ReauthoriseWrite(t)
  <2> DEFINE id == proc[t].id
             d == proc[t].d
  <2>1. d \in Definition /\ id \in DefIds /\ proc[t].pc = "reauthorise"
        /\ proc[t].now \in Nat
    BY <1>0, <1>7 DEF ReauthoriseWrite, At, Fits, Proc
  <2>2. proc' = [proc EXCEPT ![t] = Idle] /\ UNCHANGED <<jobs, listed>>
        /\ (UpdateSucceeds(id, d) \/ UpdateFails(id))
    BY <1>7 DEF ReauthoriseWrite
  <2>3. CASE id # D
    <3>1. defs'[D] = defs[D]
      BY <2>2, <2>3 DEF UpdateSucceeds, UpdateFails, TypeInv, TypeOK
    <3> QED BY <1>0, <1>1, <2>2, <3>1
  <2>4. CASE id = D
    <3>1. defs'[D] = d
      BY <2>2, <2>4, FaultShows DEF Calm, UpdateSucceeds, UpdateFails, TypeInv, TypeOK
    <3>2. Sane(D, d) /\ d.at = proc[t].now /\ clock <= proc[t].now + MaxLag
      BY <1>0, <2>1, <2>4 DEF CloneRegular, EntryKept
    <3>3. Served(D, d.next)
      <4>1. \A i \in Scheduled(D) : jobs[i].asked <= proc[t].now + MaxLag
        <5>1. \A i \in Scheduled(D) : jobs[i].asked <= clock /\ jobs[i].asked \in Nat
          BY AskedType DEF Scheduled, Books, AskedInPast
        <5> QED BY <1>0, <2>1, <3>2, <5>1
      <4>2. Served(D, AddDays(proc[t].now, defs[D].interval))
        BY <2>1, <4>1, NextServed DEF Calm
      <4>3. ASSUME NEW i \in Scheduled(D)
            PROVE  AddDays(jobs[i].asked, defs[D].interval) <= d.next + MaxLag
        <5>1. AddDays(proc[t].now, defs[D].interval) <= d.next
          BY <3>2, <4>3 DEF Sane, DueBeyond, Regular
        <5>2. AddDays(jobs[i].asked, defs[D].interval)
                <= AddDays(proc[t].now, defs[D].interval) + MaxLag
          BY <4>2 DEF Served
        <5>3. jobs[i].asked \in Nat /\ defs[D].interval \in Nat /\ d.next \in Nat
          BY <1>0, <2>1, AskedType DEF Scheduled, Definition
        <5>4. AddDays(jobs[i].asked, defs[D].interval) \in Nat
              /\ AddDays(proc[t].now, defs[D].interval) \in Nat
          BY <2>1, <5>3 DEF AddDays
        <5> QED BY <5>1, <5>2, <5>3, <5>4
      <4> QED BY <4>3 DEF Served
    <3>4. Pending(D) => Pending(D)'
      BY <1>0, <2>2, OneMoves DEF Pending, Procs
    <3> HIDE DEF d
    <3> QED BY <1>0, <2>2, <3>1, <3>2, <3>3, <3>4, RegularMove DEF SameJobs
  <2> QED BY <2>3, <2>4
<1> QED BY <1>2, <1>3, <1>4, <1>5, <1>6, <1>7 DEF Arrival

\* The goroutine behind a job: with nothing failed it writes no definition.
LEMMA RegularJob ==
    ASSUME TypeInv, TypeInv', AuthInv, AuthInv', Books, Grown, NEW D \in DefIds,
           Calm(D), Calm(D)', Regular(D), NEW k \in JobIds, JobStep(k)
    PROVE  Regular(D)'
<1>0. /\ k \in Procs /\ k # Sched /\ proc[k] \in Proc /\ Fits(proc[k])
      /\ affirmed \subseteq affirmed' /\ Idle \in Proc /\ Fits(Idle)
  BY DEF Procs, TypeInv, TypeOK, Shape, Grown, Idle, Proc, Labels, Fits
<1>1. ASSUME NEW e \in Proc, Fits(e), e.pc \in {"idle", "baseline", "after", "notify"},
             proc' = [proc EXCEPT ![k] = e], SameJobs, UNCHANGED <<defs, listed>>
      PROVE  Regular(D)'
  <2>1. Pending(D) => Pending(D)'
    BY <1>0, <1>1, OneMoves DEF Pending, Procs
  <2>2. CloneRegular(D, e)
    BY <1>1 DEF CloneRegular
  <2> QED BY <1>0, <1>1, <2>1, <2>2, RegularMove
<1>2. CASE JobEnds(k) \/ RecordBaseline(k)
  <2>1. PICK e \in EndSteps(k) : proc' = [proc EXCEPT ![k] = e]
    BY <1>2, EndEffect
  <2>2. SameJobs /\ UNCHANGED <<defs, listed>> /\ proc[k].id \in DefIds /\ clock \in Nat
    BY <1>2, EndEffect, EndKeepsJobs DEF TypeInv, TypeOK
  <2>3. e \in Proc /\ Fits(e) /\ e.pc \in {"idle", "baseline", "after"}
    <3>1. CASE e = Idle
      BY <1>0, <3>1 DEF Idle
    <3>2. CASE e = [proc[k] EXCEPT !.pc = "baseline", !.now = clock]
      BY <1>0, <2>2, <3>2 DEF Proc, Labels, Fits
    <3>3. CASE e = [proc[k] EXCEPT !.pc = "after"]
      BY <1>0, <2>2, <3>3 DEF Proc, Labels, Fits
    <3> QED BY <3>1, <3>2, <3>3 DEF EndSteps
  <2> QED BY <1>1, <2>1, <2>2, <2>3
<1>3. CASE AfterGet(k)
  <2> DEFINE d == defs[proc[k].id]
             e == [proc[k] EXCEPT !.pc = "notify", !.d = d]
  <2>1. proc[k].id \in DefIds /\ d \in Definition \cup {NoDef}
    BY <1>0, <1>3 DEF AfterGet, At, TypeInv, TypeOK, Fits
  <2>2. d # NoDef => e \in Proc /\ Fits(e) /\ e.pc = "notify"
    BY <1>0, <2>1 DEF Proc, Labels, Fits
  <2>3. \/ proc' = [proc EXCEPT ![k] = Idle]
        \/ d # NoDef /\ proc' = [proc EXCEPT ![k] = e]
    BY <1>3 DEF AfterGet
  <2>4. SameJobs /\ UNCHANGED <<defs, listed>> /\ Idle.pc = "idle"
    BY <1>3 DEF AfterGet, SameJobs, Idle
  <2> HIDE DEF e
  <2> QED BY <1>0, <1>1, <2>2, <2>3, <2>4
<1>4. CASE NotifySent(k)
  BY <1>0, <1>1, <1>4 DEF NotifySent, SameJobs, Idle
<1>5. CASE NotifyFails(k)
  <2>1. UNCHANGED defs
    BY <1>5 DEF NotifyFails, UpdateFails, Calm
  <2>2. proc' = [proc EXCEPT ![k] = Idle] /\ SameJobs /\ UNCHANGED listed /\ Idle.pc = "idle"
    BY <1>5 DEF NotifyFails, SameJobs, Idle
  <2> QED BY <1>0, <1>1, <2>1, <2>2
<1> QED BY <1>2, <1>3, <1>4, <1>5 DEF JobStep

\* Every step of a peaceful history keeps an assessment regular.
LEMMA RegularNext ==
    ASSUME TypeInv, TypeInv', AuthInv, AuthInv', Books, [Next]_vars, NEW D \in DefIds,
           Calm(D), Calm(D)', Regular(D)
    PROVE  Regular(D)'
<1>0. Grown /\ Sched \in Procs /\ Callers \subseteq Procs /\ affirmed \subseteq affirmed'
  BY OnlyGrows DEF Procs, Callers, Grown
<1>1. ASSUME UNCHANGED <<proc, defs, jobs, listed>> PROVE Regular(D)'
  <2>1. proc' = [proc EXCEPT ![Sched] = proc[Sched]] /\ SameJobs
        /\ (Pending(D) => Pending(D)')
    BY <1>1 DEF TypeInv, TypeOK, SameJobs, Pending
  <2>2. proc[Sched] \in Proc /\ Fits(proc[Sched]) /\ CloneRegular(D, proc[Sched])
    BY <1>0 DEF TypeInv, TypeOK, Shape, Regular
  <2> QED BY <1>0, <1>1, <2>1, <2>2, RegularMove
<1>2. CASE Tick \/ UNCHANGED vars
  BY <1>1, <1>2 DEF Tick, vars
<1>3. CASE Crash
  BY <1>3 DEF Crash, Calm
<1>4. ASSUME NEW p \in Callers, RunStep(p) PROVE Regular(D)'
  <2>1. CASE RunGet(p) \/ RunCount(p)
    <3>1. PICK e \in Proc :
             /\ Fits(e) /\ proc' = [proc EXCEPT ![p] = e]
             /\ \/ e = Idle /\ p # Sched
                \/ /\ e.id = proc[p].id /\ e.now = proc[p].now /\ e.id \in DefIds
                   /\ \/ e.pc = "refuse" /\ p = Sched
                      \/ e.pc = "count" /\ e.d = defs[e.id] /\ e.d # NoDef /\ proc[p].pc = "get"
                      \/ e.pc = "create" /\ e.d = proc[p].d /\ proc[p].pc = "count"
             /\ UNCHANGED <<clock, defs, used, jobs, listed, requests, faults, crashes,
                            affirmed, acked, noted>>
      BY <2>1, CallMoves
    <3>2. CloneRegular(D, proc[p]) /\ p \in Procs /\ Sane(D, defs[D])
          /\ proc[p].pc \in {"get", "count"}
      BY <1>0, <2>1 DEF Regular, Sane, RunGet, RunCount, At
    <3>3. CloneRegular(D, e)
      BY <3>1, <3>2 DEF CloneRegular, Idle
    <3>4. Pending(D) => Pending(D)'
      BY <1>0, <3>1, <3>2, OneMoves DEF Pending
    <3> QED BY <1>0, <3>1, <3>2, <3>3, <3>4, RegularMove DEF SameJobs
  <2> QED BY <1>0, <1>4, <2>1, RegularCreate, RegularUpdate DEF RunStep
<1>5. CASE \/ SchedWake \/ SchedList \/ SchedRefused \/ SchedDone
           \/ \E id \in DefIds : SchedLapsed(id) \/ SchedRun(id)
  BY <1>0, <1>5, RegularSched
<1>6. ASSUME NEW t \in Threads, Arrival(t) \/ SaveCreate(t) \/ ReauthoriseWrite(t)
      PROVE  Regular(D)'
  BY <1>0, <1>6, RegularHandler
<1>7. ASSUME NEW k \in JobIds, JobStep(k) PROVE Regular(D)'
  BY <1>0, <1>7, RegularJob
<1> QED BY <1>2, <1>3, <1>4, <1>5, <1>6, <1>7 DEF Next, SchedStep, HandlerStep, Callers

\* With nothing stored there is nothing to keep regular.
LEMMA SpacingInit == Init => SpacingInv
BY DEF Init, SpacingInv, Calm

\* Regularity is inductive, for every assessment that is left in peace.
LEMMA SpacingNext ==
    TypeInv /\ AuthInv /\ Books /\ SpacingInv /\ [Next]_vars => SpacingInv'
<1> SUFFICES ASSUME TypeInv, AuthInv, Books, SpacingInv, [Next]_vars,
                    NEW D \in DefIds, Calm(D)'
             PROVE  Regular(D)'
  BY DEF SpacingInv
<1>1. TypeInv' /\ AuthInv'
  BY TypeInvNext, AuthInvNext
<1>2. CASE defs[D] = NoDef
  BY <1>2, RegularNew DEF Calm
<1>3. CASE defs[D] # NoDef
  <2>1. Calm(D)
    BY <1>3, CalmBefore
  <2> QED BY <1>1, <2>1, RegularNext DEF SpacingInv
<1> QED BY <1>2, <1>3

\* Only so many affirmations have been given.
LEMMA AffirmedFinite ==
    /\ Init => IsFiniteSet(affirmed)
    /\ TypeInv /\ AuthInv /\ IsFiniteSet(affirmed) /\ [Next]_vars => IsFiniteSet(affirmed)'
<1>1. Init => IsFiniteSet(affirmed)
  BY FS_EmptySet DEF Init
<1>2. ASSUME TypeInv, AuthInv, IsFiniteSet(affirmed), [Next]_vars
      PROVE  IsFiniteSet(affirmed')
  <2>1. affirmed' = affirmed \/ \E a : affirmed' = affirmed \cup {a}
    BY <1>2, Steps DEF Quiet, AR!ANext, AR!Save, AR!Affirm, AR!Affirms, AR!Remove, AR!Begin
  <2> QED BY <1>2, <2>1, FS_AddElement
<1> QED BY <1>1, <1>2

\* One affirmation of D, and no second: Once.
LEMMA OneAffirmation ==
    ASSUME IsFiniteSet(affirmed), NEW D, Cardinality({a \in affirmed : a.id = D}) = 1
    PROVE  Once(D)
<1> DEFINE S == {a \in affirmed : a.id = D}
<1>1. IsFiniteSet(S)
  BY FS_Subset
<1>2. PICK x : S = {x}
  BY <1>1, FS_Singleton
<1> QED BY <1>2 DEF Once

\* The scheduler never serves one due date twice: whatever manual runs, lapses,
\* refusals and refused writes of stale clones happen in between, the runs it
\* starts for an assessment lie an interval apart, less the lag -- for every
\* interval, lag and number of goroutines.
THEOREM ScheduleKept == Spec => []ScheduledRunsSpaced
<1>1. Spec => []TypeInv
  BY TypeInvInit, TypeInvNext, PTL DEF Spec
<1>2. Spec => []AuthInv
  BY <1>1, AuthInvInit, AuthInvNext, PTL DEF Spec
<1>3. Spec => []Books
  BY <1>1, BooksInit, BooksNext, PTL DEF Spec
<1>4. Spec => []SpacingInv
  BY <1>1, <1>2, <1>3, SpacingInit, SpacingNext, PTL DEF Spec
<1>5. Spec => []IsFiniteSet(affirmed)
  BY <1>1, <1>2, AffirmedFinite, PTL DEF Spec
<1>6. TypeInv /\ SpacingInv /\ IsFiniteSet(affirmed) => ScheduledRunsSpaced
  <2> SUFFICES ASSUME TypeInv, SpacingInv, IsFiniteSet(affirmed),
                      NEW i \in DOMAIN jobs, NEW j \in DOMAIN jobs,
                      i < j, jobs[i].def = jobs[j].def,
                      jobs[i].trigger = "schedule", jobs[j].trigger = "schedule",
                      defs[jobs[i].def] # NoDef, faults = 0, crashes = 0, noted = {},
                      Cardinality({a \in affirmed : a.id = jobs[i].def}) = 1
               PROVE  jobs[j].asked + MaxLag
                        >= AddDays(jobs[i].asked, defs[jobs[i].def].interval)
    BY DEF ScheduledRunsSpaced
  <2> DEFINE D == jobs[i].def
  <2>1. jobs[i] \in Job
    BY DEF TypeInv, TypeOK
  <2>2. D \in DefIds
    BY <2>1 DEF Job
  <2>3. Calm(D)
    BY OneAffirmation DEF Calm
  <2>4. i \in Scheduled(D) /\ j \in Scheduled(D) /\ Spaced(D)
    BY <2>2, <2>3 DEF SpacingInv, Regular, Scheduled
  <2>5. jobs[i].asked \in Nat /\ jobs[j].asked \in Nat /\ defs[D].interval \in Nat
    BY <2>2, AskedType DEF TypeInv, TypeOK, Definition
  <2>6. AddDays(jobs[i].asked, defs[D].interval) \in Nat
    BY <2>5 DEF AddDays
  <2>7. AddDays(jobs[i].asked, defs[D].interval) <= jobs[j].asked + MaxLag
    BY <2>4 DEF Spaced
  <2> QED BY <2>5, <2>6, <2>7
<1> QED BY <1>1, <1>4, <1>5, <1>6, PTL
=============================================================================
