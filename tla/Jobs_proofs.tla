----------------------------- MODULE Jobs_proofs -----------------------------
(* What Jobs guarantees whatever the number of callers, targets, adapters    *)
(* and findings, the caps of the licence and the bounds: types, an honest    *)
(* progress figure that never goes back, the bound on the overshoot of the   *)
(* cap on running jobs, completed jobs that are whole, and that the evidence *)
(* of a job which is over does not change.                                   *)
EXTENDS Jobs, FiniteSetTheorems, TLAPS

\* A goroutine works on a job that is not over, until afterRun.
Alive ==
    \A k \in JobIds : run[k].pc # "gone" =>
        k \in DOMAIN jobs /\ (run[k].pc # "after" => ~Terminal(jobs[k]))

\* What it then still holds is what it wrote, if that write was not lost.
AfterAgrees ==
    \A k \in JobIds : run[k].pc = "after" /\ Terminal(jobs[k]) => jobs[k] = run[k].rec

Honest(j) == j.progress = 100 <=> Terminal(j)

\* The clone a goroutine holds agrees with where it is.
Fits(r) ==
    /\ r.pc \in {"pick", "scan", "store", "finish", "after"} => r.rec \in Job
    /\ r.pc \in {"pick", "scan", "store"} =>
        r.rec.state = "running" /\ r.rec.progress # 100 /\ Accepted(r.rec) # {}
    /\ r.pc = "scan" => r.i <= NAdapters
    /\ r.pc = "finish" => r.rec.progress = 100 /\ Terminal(r.rec)
    /\ r.pc = "after" => r.rec.progress = 100 /\ r.rec.state = "completed"

ClonesFit == \A k \in JobIds : Fits(run[k])

\* A job not yet started has something to do.
QueuedHasTargets ==
    \A k \in JobIds : run[k].pc = "start" => Accepted(jobs[k]) # {}

Inv ==
    /\ TypeOK /\ Alive /\ AfterAgrees
    /\ ClonesFit /\ QueuedHasTargets /\ ProgressHonest

-----------------------------------------------------------------------------
(* Operators                                                                 *)

\* A run's percentage stays below the 100 that means finished.
LEMMA PercentBelow ==
    ASSUME NEW done \in Nat, NEW total \in Nat \ {0}
    PROVE  Percent(done, total) \in 0..99
<1>1. (done * 100) \div total \in Nat
  BY Z3
<1> QED BY <1>1 DEF Percent

\* So does the figure a goroutine writes after any adapter or target.
LEMMA ProgressBelow ==
    ASSUME NEW j \in Job, NEW i \in 1..NAdapters, NEW left \in SUBSET Targets,
           Accepted(j) # {}
    PROVE  Progress(j, i, left) \in 0..99
<1>1. IsFiniteSet(Accepted(j)) /\ IsFiniteSet(Accepted(j) \ left)
  BY FiniteAssumption, FS_Subset DEF Accepted
<1>2. Cardinality(Accepted(j)) \in Nat \ {0} /\ Cardinality(Accepted(j) \ left) \in Nat
  BY <1>1, FS_CardinalityType, FS_EmptySet
<1>3. NAdapters \in Nat \ {0} /\ i - 1 \in Nat
  BY CapAssumption
<1> DEFINE n == Cardinality(Accepted(j))
<1>4. n \in Nat \ {0}
  BY <1>2
<1> HIDE DEF n
<1>5. (i - 1) * n \in Nat /\ NAdapters * n \in Nat \ {0}
  BY <1>3, <1>4
<1>6. (i - 1) * n + Cardinality(Accepted(j) \ left) \in Nat
  BY <1>2, <1>5
<1> QED BY <1>5, <1>6, PercentBelow DEF Progress, n

\* Only the state, the counts and the progress of a record change at the end.
LEMMA FinalType ==
    ASSUME NEW r \in Run, r.rec \in Job, NEW state \in {"completed", "failed"}
    PROVE  Final(r, state) \in Job /\ Final(r, state).progress = 100
           /\ Final(r, state).state = state
           /\ Terminal(Final(r, state))
<1>1. Cardinality(r.found) \in Nat
  BY FiniteAssumption, FS_Subset, FS_CardinalityType DEF Run
<1>2. ShownOf(Cardinality(r.found)) \in Nat
  BY <1>1, CapAssumption DEF ShownOf
<1>3. ASSUME NEW t \in Targets PROVE Final(r, state).targets[t] \in Outcome
  <2>1. r.rec.targets[t] \in Outcome /\ r.per[t] \in Nat
    BY DEF Job, Run
  <2> QED BY <2>1 DEF Final, Outcome
<1>4. Final(r, state).targets \in [Targets -> Outcome]
  BY <1>3 DEF Final
<1> QED BY <1>1, <1>2, <1>4 DEF Final, Job, States, Terminal

\* Recording an adapter's run and the progress made leaves the rest alone.
LEMMA RunRecorded ==
    ASSUME NEW j \in Job, NEW a \in AdapterRun, NEW p \in 0..99
    PROVE  /\ Recorded(j, a, p) \in Job /\ Recorded(j, a, p).state = j.state
           /\ Recorded(j, a, p).progress # 100 /\ Recorded(j, a, p).targets = j.targets
<1>1. p \in 0..100 /\ p # 100
  OBVIOUS
<1>2. ASSUME NEW runs \in SUBSET AdapterRun
      PROVE  LET n == [j EXCEPT !.runs = runs, !.progress = p]
             IN  n \in Job /\ n.state = j.state /\ n.progress = p /\ n.targets = j.targets
  BY <1>1 DEF Job
<1>3. j.runs \cup {a} \in SUBSET AdapterRun
  BY DEF Job
<1> QED BY <1>1, <1>2, <1>3 DEF Recorded

\* UpdateJob replaces one record, or nothing.
LEMMA WriteEffect ==
    ASSUME jobs \in Seq(Job), NEW k \in DOMAIN jobs, NEW j \in Job, Write(k, j),
           faults \in Nat
    PROVE  /\ jobs' \in Seq(Job) /\ Len(jobs') = Len(jobs) /\ faults' \in Nat
           /\ DOMAIN jobs' = DOMAIN jobs
           /\ \A m \in DOMAIN jobs : m # k => jobs'[m] = jobs[m]
           /\ jobs'[k] = j \/ jobs'[k] = jobs[k]
BY DEF Write, DiskFault

\* Counting the targets of a record that keeps them.
LEMMA SameTargets ==
    ASSUME NEW i, NEW j, i.targets = j.targets
    PROVE  Accepted(i) = Accepted(j)
BY DEF Accepted

-----------------------------------------------------------------------------
(* The inductive invariant                                                   *)

\* A goroutine that writes record j and goes on as r.
LEMMA JobMoves ==
    ASSUME Inv, NEW k \in JobIds, run[k].pc \notin {"gone", "after"},
           NEW j \in Job, NEW r \in Run,
           Write(k, j), Goes(k, r), Honest(j), Fits(r), r.pc # "start",
           r.pc \notin {"gone", "after"} => ~Terminal(j),
           r.pc = "after" => r.rec = j,
           UNCHANGED <<findings, caller, stops>>,
           yielded' \in [JobIds -> SUBSET FindingIds],
           rejected' \subseteq JobIds \X (1..NAdapters) \X SUBSET Targets
    PROVE  Inv'
<1>1. k \in DOMAIN jobs /\ ~Terminal(jobs[k])
  BY DEF Inv, Alive
<1>2. /\ jobs' \in Seq(Job) /\ Len(jobs') = Len(jobs) /\ faults' \in Nat
      /\ DOMAIN jobs' = DOMAIN jobs
      /\ \A m \in DOMAIN jobs : m # k => jobs'[m] = jobs[m]
      /\ jobs'[k] = j \/ jobs'[k] = jobs[k]
  BY <1>1, WriteEffect DEF Inv, TypeOK
<1>3. /\ run' \in [JobIds -> Run] /\ run'[k] = r
      /\ \A m \in JobIds : m # k => run'[m] = run[m]
  BY DEF Inv, TypeOK, Goes
<1>4. TypeOK'
  BY <1>2, <1>3 DEF Inv, TypeOK
<1>5. Alive'
  BY <1>1, <1>2, <1>3 DEF Inv, Alive, Terminal
<1>6. ClonesFit'
  BY <1>3 DEF Inv, ClonesFit
<1>7. QueuedHasTargets'
  BY <1>2, <1>3 DEF Inv, QueuedHasTargets, Alive, Accepted
<1>8. ProgressHonest'
  BY <1>1, <1>2 DEF Inv, ProgressHonest, Honest, Terminal
<1>9. AfterAgrees'
  BY <1>1, <1>2, <1>3 DEF Inv, AfterAgrees, Alive, Terminal
<1> QED BY <1>4, <1>5, <1>6, <1>7, <1>8, <1>9 DEF Inv

\* A fresh directory: no job, no goroutine.
LEMMA InvInit == Init => Inv
<1> SUFFICES ASSUME Init PROVE Inv
  OBVIOUS
<1>1. Gone \in Run /\ Fits(Gone)
  BY CapAssumption DEF Gone, Run, Fits
<1>2. TypeOK
  BY <1>1, CapAssumption DEF Init, TypeOK, IdleCaller, JobIds
<1>3. \A k \in JobIds : run[k] = Gone /\ run[k].pc = "gone"
  BY DEF Init, Gone
<1>4. DOMAIN jobs = {}
  BY DEF Init
<1> QED BY <1>1, <1>2, <1>3, <1>4 DEF Inv, Alive, AfterAgrees, ClonesFit, QueuedHasTargets,
                                      ProgressHonest

\* Each step of a goroutine keeps the invariant.
LEMMA JobStepInv == ASSUME Inv, NEW k \in JobIds, JobStep(k) PROVE Inv'
<1> DEFINE r == run[k]
<1>0. /\ r \in Run /\ Fits(r)
      /\ k \in DOMAIN jobs => jobs[k] \in Job
      /\ yielded \in [JobIds -> SUBSET FindingIds]
      /\ rejected \subseteq JobIds \X (1..NAdapters) \X SUBSET Targets
      /\ Gone \in Run /\ Fits(Gone) /\ Gone.pc = "gone"
  BY CapAssumption DEF Inv, TypeOK, ClonesFit, Gone, Run, Fits
<1>1. CASE RunStart(k)
  <2> DEFINE j == [jobs[k] EXCEPT !.state = "running"]
             s == [r EXCEPT !.pc = "pick", !.rec = j, !.left = Accepted(j)]
  <2>1. r.pc = "start" /\ k \in DOMAIN jobs /\ jobs[k] \in Job
        /\ ~Terminal(jobs[k]) /\ Accepted(jobs[k]) # {} /\ jobs[k].progress # 100
    BY <1>0, <1>1 DEF RunStart, Inv, Alive, QueuedHasTargets, ProgressHonest
  <2>2. j \in Job /\ j.state = "running" /\ j.progress # 100 /\ Accepted(j) # {}
        /\ Accepted(j) \in SUBSET Targets
    BY <2>1 DEF Job, States, Accepted
  <2>3. Write(k, j) /\ Goes(k, s) /\ UNCHANGED <<findings, caller, stops, yielded, rejected>>
    BY <1>1 DEF RunStart
  <2> HIDE DEF j
  <2>4. s \in Run /\ s.pc = "pick" /\ s.rec = j
    BY <1>0, <2>2 DEF Run
  <2> HIDE DEF s
  <2>5. Fits(s) /\ Honest(j) /\ ~Terminal(j)
    BY <2>2, <2>4 DEF Fits, Honest, Terminal
  <2> QED BY <1>0, <2>1, <2>2, <2>3, <2>4, <2>5, JobMoves
<1>2. CASE SkipAdapter(k)
  <2> DEFINE j == Recorded(r.rec, Skipped(r), Progress(r.rec, r.i, {}))
             s == [r EXCEPT !.rec = j, !.i = @ + 1]
  <2>1. r.pc = "pick" /\ r.i \in 1..NAdapters /\ r.rec \in Job
        /\ r.rec.state = "running" /\ Accepted(r.rec) # {}
        /\ Accepted(r.rec) \in SUBSET Targets
    BY <1>0, <1>2, CapAssumption DEF SkipAdapter, Fits, Run, Accepted
  <2>2. Progress(r.rec, r.i, {}) \in 0..99
    BY <2>1, ProgressBelow
  <2>3. j \in Job /\ j.state = "running" /\ j.progress # 100 /\ j.targets = r.rec.targets
    <3>1. Skipped(r) \in AdapterRun
      BY <2>1 DEF Skipped, AdapterRun
    <3> QED BY <2>1, <2>2, <3>1, RunRecorded
  <2>4. Write(k, j) /\ Goes(k, s) /\ UNCHANGED <<findings, caller, stops, yielded, rejected>>
    BY <1>2 DEF SkipAdapter
  <2> HIDE DEF j
  <2>5. s \in Run /\ s.pc = "pick" /\ s.rec = j
    <3>1. r.i + 1 \in 1..(NAdapters + 1)
      BY <2>1, CapAssumption
    <3> QED BY <1>0, <2>1, <2>3, <3>1 DEF Run
  <2> HIDE DEF s
  <2>6. Fits(s) /\ Honest(j) /\ ~Terminal(j)
    BY <2>1, <2>3, <2>5, SameTargets DEF Fits, Honest, Terminal
  <2> QED BY <1>0, <2>1, <2>3, <2>4, <2>5, <2>6, JobMoves
<1>3. CASE Visit(k)
  <2>1. PICK t \in r.left : Goes(k, [r EXCEPT !.pc = "scan", !.at = {t}])
    BY <1>3 DEF Visit
  <2> DEFINE s == [r EXCEPT !.pc = "scan", !.at = {t}]
  <2>2. r.pc = "pick" /\ r.i <= NAdapters /\ r.rec \in Job /\ r.rec.state = "running"
        /\ r.rec.progress # 100 /\ Accepted(r.rec) # {} /\ Write(k, r.rec)
        /\ UNCHANGED <<findings, caller, stops, yielded, rejected>>
    BY <1>0, <1>3 DEF Visit, Fits
  <2>3. s \in Run /\ s.pc = "scan" /\ s.rec = r.rec /\ s.i = r.i
    BY <1>0, <2>1 DEF Run
  <2> HIDE DEF s
  <2>4. Fits(s) /\ Honest(r.rec) /\ ~Terminal(r.rec)
    BY <2>2, <2>3 DEF Fits, Honest, Terminal
  <2>5. Goes(k, s)
    BY <2>1 DEF s
  <2> QED BY <1>0, <2>2, <2>3, <2>4, <2>5, JobMoves
<1>4. CASE AdapterReturns(k)
  <2>1. PICK fs \in SUBSET FindingIds, failed \in BOOLEAN :
        LET j == Recorded(r.rec, Scanned(r, failed),
                          Progress(r.rec, r.i, r.left \ r.at)) IN
        /\ Write(k, j)
        /\ Goes(k, AfterTarget([r EXCEPT
                !.rec = j, !.found = @ \cup fs,
                !.per = [t \in Targets |->
                            IF t \in r.at THEN @[t] + Cardinality(fs) ELSE @[t]]]))
        /\ yielded' = [yielded EXCEPT ![k] = @ \cup fs]
    BY <1>4 DEF AdapterReturns
  <2> DEFINE j == Recorded(r.rec, Scanned(r, failed), Progress(r.rec, r.i, r.left \ r.at))
             per == [t \in Targets |->
                        IF t \in r.at THEN r.per[t] + Cardinality(fs) ELSE r.per[t]]
             q == [r EXCEPT !.rec = j, !.found = @ \cup fs, !.per = per]
             s == AfterTarget(q)
  <2>2. /\ r.pc = "scan" /\ r.i \in 1..NAdapters /\ r.rec \in Job
        /\ r.rec.state = "running" /\ Accepted(r.rec) # {}
        /\ UNCHANGED <<findings, caller, stops>>
        /\ r.at \in SUBSET Targets /\ r.left \in SUBSET Targets
    BY <1>0, <1>4, CapAssumption DEF AdapterReturns, Fits, Run
  <2>3. Progress(r.rec, r.i, r.left \ r.at) \in 0..99
    BY <2>2, ProgressBelow
  <2>4. j \in Job /\ j.state = "running" /\ j.progress # 100 /\ j.targets = r.rec.targets
    <3>1. Scanned(r, failed) \in AdapterRun
      BY <2>2 DEF Scanned, AdapterRun
    <3> QED BY <2>2, <2>3, <3>1, RunRecorded
  <2>5. per \in [Targets -> Nat]
    <3>1. Cardinality(fs) \in Nat
      BY FiniteAssumption, FS_Subset, FS_CardinalityType
    <3> QED BY <1>0, <3>1 DEF Run
  <2>6. Write(k, j) /\ Goes(k, s) /\ yielded' = [yielded EXCEPT ![k] = @ \cup fs]
    BY <2>1
  <2> HIDE DEF j, per
  <2>7. q \in Run /\ q.rec = j /\ q.i = r.i
    BY <1>0, <2>4, <2>5 DEF Run
  <2> HIDE DEF q
  <2>8. s \in Run /\ s.pc = "pick" /\ s.rec = j
    <3>1. Accepted(q.rec) \in SUBSET Targets
      BY DEF Accepted
    <3>2. [q EXCEPT !.pc = "pick", !.left = q.left \ q.at] \in Run
      BY <2>7 DEF Run
    <3>3. [q EXCEPT !.pc = "pick", !.i = @ + 1, !.left = Accepted(q.rec)] \in Run
      <4>1. q.i + 1 \in 1..(NAdapters + 1)
        BY <2>2, <2>7, CapAssumption
      <4> QED BY <2>7, <3>1, <4>1 DEF Run
    <3> QED BY <2>7, <3>2, <3>3 DEF AfterTarget, Run
  <2>9. Fits(s) /\ Honest(j) /\ ~Terminal(j)
    BY <2>2, <2>4, <2>8, SameTargets DEF Fits, Honest, Terminal
  <2>10. yielded' \in [JobIds -> SUBSET FindingIds]
    BY <1>0, <2>6
  <2>11. rejected' \subseteq JobIds \X (1..NAdapters) \X SUBSET Targets
    <3>1. rejected' = rejected \/ rejected' = rejected \cup {<<k, r.i, r.at>>}
      BY <1>4 DEF AdapterReturns
    <3>2. <<k, r.i, r.at>> \in JobIds \X (1..NAdapters) \X SUBSET Targets
      BY <2>2
    <3> QED BY <1>0, <3>1, <3>2
  <2> HIDE DEF s
  <2> QED BY <1>0, <2>2, <2>4, <2>6, <2>8, <2>9, <2>10, <2>11, JobMoves
<1>5. CASE Correlate(k)
  <2> DEFINE s == [r EXCEPT !.pc = "store"]
  <2>1. r.pc = "pick" /\ r.rec \in Job /\ r.rec.state = "running"
        /\ r.rec.progress # 100 /\ Accepted(r.rec) # {} /\ Write(k, r.rec) /\ Goes(k, s)
        /\ UNCHANGED <<findings, caller, stops, yielded, rejected>>
    BY <1>0, <1>5 DEF Correlate, Fits
  <2>2. s \in Run /\ s.pc = "store" /\ s.rec = r.rec
    BY <1>0 DEF Run
  <2> HIDE DEF s
  <2>3. Fits(s) /\ Honest(r.rec) /\ ~Terminal(r.rec)
    BY <2>1, <2>2 DEF Fits, Honest, Terminal
  <2> QED BY <1>0, <2>1, <2>2, <2>3, JobMoves
<1>6. CASE StoreFindings(k)
  <2>1. PICK state \in {"completed", "failed"} :
            Goes(k, [r EXCEPT !.pc = "finish", !.rec = Final(r, state)])
    BY <1>6 DEF StoreFindings
  <2>2. /\ r.pc = "store" /\ r.rec \in Job /\ r.found \in SUBSET FindingIds
        /\ UNCHANGED <<jobs, caller, stops, yielded, rejected>> /\ faults' \in Nat
        /\ findings' \in [JobIds -> SUBSET FindingIds]
    <3>1. r.pc = "store" /\ r.found \in SUBSET FindingIds /\ r.rec \in Job
          /\ UNCHANGED <<jobs, caller, stops, yielded, rejected>>
      BY <1>0, <1>6 DEF StoreFindings, Fits, Run
    <3>2. /\ findings' = [findings EXCEPT ![k] = r.found] \/ findings' = findings
          /\ faults' = faults \/ faults' = faults + 1
      BY <1>6 DEF StoreFindings, DiskFault
    <3> QED BY <3>1, <3>2 DEF Inv, TypeOK
  <2> DEFINE f == Final(r, state)
             s == [r EXCEPT !.pc = "finish", !.rec = f]
  <2>3. f \in Job /\ f.progress = 100 /\ Terminal(f)
    BY <1>0, <2>2, FinalType
  <2>4. Goes(k, s)
    BY <2>1
  <2> HIDE DEF f
  <2>5. s \in Run /\ s.pc = "finish" /\ s.rec = f
    BY <1>0, <2>3 DEF Run
  <2> HIDE DEF s
  <2>6. run' \in [JobIds -> Run] /\ run'[k] = s
        /\ \A m \in JobIds : m # k => run'[m] = run[m]
    BY <2>4, <2>5 DEF Goes, Inv, TypeOK
  <2>7. Fits(s)
    BY <2>3, <2>5 DEF Fits
  <2>8. TypeOK'
    BY <2>2, <2>6 DEF Inv, TypeOK
  <2>9. Alive' /\ AfterAgrees' /\ QueuedHasTargets' /\ ProgressHonest'
    BY <2>2, <2>5, <2>6 DEF Inv, Alive, AfterAgrees, QueuedHasTargets, ProgressHonest, Accepted
  <2> QED BY <2>6, <2>7, <2>8, <2>9 DEF Inv, ClonesFit
<1>7. CASE Finish(k)
  <2> DEFINE s == IF r.rec.state = "completed" THEN [r EXCEPT !.pc = "after"] ELSE Gone
  <2>1. r.pc = "finish" /\ r.rec \in Job /\ Honest(r.rec) /\ Write(k, r.rec)
        /\ r.rec.progress = 100
        /\ Goes(k, s) /\ UNCHANGED <<findings, caller, stops, yielded, rejected>>
    BY <1>0, <1>7 DEF Finish, Fits, Honest
  <2>2. CASE r.rec.state = "completed"
    <3>1. s \in Run /\ s.pc = "after" /\ s.rec = r.rec
      BY <1>0, <2>2 DEF Run
    <3> HIDE DEF s
    <3>2. Fits(s)
      BY <2>1, <2>2, <3>1 DEF Fits
    <3> QED BY <1>0, <2>1, <3>1, <3>2, JobMoves
  <2>3. CASE r.rec.state # "completed"
    <3>1. s = Gone
      BY <2>3
    <3> HIDE DEF s
    <3> QED BY <1>0, <2>1, <3>1, JobMoves
  <2> QED BY <2>2, <2>3
<1>8. CASE AfterRun(k)
  <2> DEFINE j == [r.rec EXCEPT !.baseline = TRUE]
  <2>1. r.pc = "after" /\ r.rec \in Job /\ r.rec.progress = 100 /\ r.rec.state = "completed"
        /\ Goes(k, Gone) /\ UNCHANGED <<findings, caller, stops, yielded, rejected>>
        /\ k \in DOMAIN jobs
    BY <1>0, <1>8 DEF AfterRun, Fits, Inv, Alive
  <2>2. j \in Job /\ j.progress = 100 /\ Terminal(j)
    BY <2>1 DEF Job, States, Terminal
  <2>3. /\ jobs' \in Seq(Job) /\ Len(jobs') = Len(jobs) /\ faults' \in Nat
        /\ DOMAIN jobs' = DOMAIN jobs
        /\ \A m \in DOMAIN jobs : m # k => jobs'[m] = jobs[m]
        /\ jobs'[k] = j \/ jobs'[k] = jobs[k]
    <3>1. CASE Write(k, j)
      BY <2>1, <2>2, <3>1, WriteEffect DEF Inv, TypeOK
    <3>2. CASE UNCHANGED <<jobs, faults>>
      BY <3>2 DEF Inv, TypeOK
    <3> QED BY <1>8, <3>1, <3>2 DEF AfterRun
  <2> HIDE DEF j
  <2>4. /\ run' \in [JobIds -> Run] /\ run'[k] = Gone
        /\ \A m \in JobIds : m # k => run'[m] = run[m]
    BY <1>0, <2>1 DEF Inv, TypeOK, Goes
  <2>5. TypeOK'
    BY <2>1, <2>3, <2>4 DEF Inv, TypeOK
  <2>6. Alive' /\ AfterAgrees'
    BY <1>0, <2>3, <2>4 DEF Inv, Alive, AfterAgrees, Terminal
  <2>7. ClonesFit'
    BY <1>0, <2>4 DEF Inv, ClonesFit
  <2>8. QueuedHasTargets'
    BY <1>0, <2>3, <2>4 DEF Inv, QueuedHasTargets, Alive, Accepted
  <2>9. ProgressHonest'
    BY <2>2, <2>3 DEF Inv, ProgressHonest, Terminal
  <2> QED BY <2>5, <2>6, <2>7, <2>8, <2>9 DEF Inv
<1> QED BY <1>1, <1>2, <1>3, <1>4, <1>5, <1>6, <1>7, <1>8 DEF JobStep

\* Submitting keeps it: a job is created with its goroutine, or refused.
LEMMA SubmitStepInv == ASSUME Inv, NEW c \in Callers, SubmitStep(c) PROVE Inv'
<1>1. CASE Request(c)
  <2>1. PICK asked \in SUBSET Targets :
            caller' = [caller EXCEPT ![c] = [pc |-> "count", asked |-> asked]]
    BY <1>1 DEF Request
  <2> QED BY <1>1, <2>1 DEF Request, Inv, TypeOK, Alive, AfterAgrees, ClonesFit, QueuedHasTargets,
                            ProgressHonest
<1>2. CASE CountActive(c)
  <2>1. caller' \in [Callers -> [pc : {"idle", "count", "create"}, asked : SUBSET Targets]]
    BY <1>2 DEF CountActive, IdleCaller, Inv, TypeOK
  <2> QED BY <1>2, <2>1 DEF CountActive, Inv, TypeOK, Alive, AfterAgrees, ClonesFit, QueuedHasTargets,
                            ProgressHonest
<1>3. CASE CreateJob(c)
  <2> DEFINE k == Len(jobs) + 1
  <2>0. /\ jobs \in Seq(Job) /\ DOMAIN jobs = 1..Len(jobs) /\ Len(jobs) \in Nat
        /\ k \in JobIds /\ k \notin DOMAIN jobs
    BY <1>3, CapAssumption DEF CreateJob, Inv, TypeOK, JobIds
  <2>1. /\ caller' \in [Callers -> [pc : {"idle", "count", "create"}, asked : SUBSET Targets]]
        /\ UNCHANGED <<findings, stops, yielded, rejected>> /\ Len(jobs) < MaxJobs
    BY <1>3 DEF CreateJob, IdleCaller, Inv, TypeOK
  <2>2. CASE DiskFault /\ UNCHANGED <<jobs, run>>
    BY <2>1, <2>2 DEF DiskFault, Inv, TypeOK, Alive, AfterAgrees, ClonesFit,
                                QueuedHasTargets, ProgressHonest
  <2>3. ASSUME NEW v \in Verdicts(caller[c].asked), UNCHANGED faults,
               NEW j, j = NewJob(IF v[1] = {} THEN "refused" ELSE "queued", v[1], v[2]),
               jobs' = Append(jobs, j),
               run' = IF v[1] = {} THEN run
                      ELSE [run EXCEPT ![k] = [Gone EXCEPT !.pc = "start"]]
        PROVE  Inv'
    <3>1. v[1] \in SUBSET Targets
      BY <2>3 DEF Verdicts, Inv, TypeOK
    <3>2. Listing(v[1], v[2]) \in [Targets -> Outcome]
      BY DEF Listing, Outcome
    <3>3. j \in Job /\ Honest(j) /\ (v[1] # {} => ~Terminal(j) /\ Accepted(j) # {})
      <4>1. CASE v[1] = {}
        BY <2>3, <3>2, <4>1 DEF NewJob, Job, States, Honest, Terminal
      <4>2. CASE v[1] # {}
        <5>1. j = [state |-> "queued", targets |-> Listing(v[1], v[2]), runs |-> {},
                   progress |-> 0, total |-> 0, shown |-> 0, baseline |-> FALSE]
          BY <2>3, <4>2 DEF NewJob
        <5>2. Accepted(j) = v[1]
          BY <3>1, <5>1 DEF Accepted, Listing
        <5> QED BY <3>2, <4>2, <5>1, <5>2 DEF Job, States, Honest, Terminal
      <4> QED BY <4>1, <4>2
    <3>4. /\ jobs' \in Seq(Job) /\ Len(jobs') = k /\ DOMAIN jobs' = DOMAIN jobs \cup {k}
          /\ jobs'[k] = j /\ \A m \in DOMAIN jobs : jobs'[m] = jobs[m]
      BY <2>0, <2>3, <3>3
    <3> DEFINE g == [Gone EXCEPT !.pc = "start"]
    <3>5. g \in Run /\ g.pc = "start" /\ Fits(g)
      BY CapAssumption DEF Gone, Run, Fits
    <3> HIDE DEF g
    <3>6. /\ run' \in [JobIds -> Run]
          /\ \A m \in JobIds : m # k => run'[m] = run[m]
          /\ v[1] = {} => run'[k] = run[k]
          /\ v[1] # {} => run'[k] = g
      BY <2>0, <2>3, <3>5 DEF Inv, TypeOK, g
    <3>7. TypeOK'
      <4>1. Len(jobs') <= MaxJobs
        BY <2>0, <2>1, <3>4, CapAssumption
      <4> QED BY <2>1, <2>3, <3>4, <3>6, <4>1 DEF Inv, TypeOK
    <3>8. run[k].pc = "gone"
      BY <2>0 DEF Inv, Alive
    <3>9. Alive' /\ AfterAgrees'
      BY <3>3, <3>4, <3>5, <3>6, <3>8 DEF Inv, Alive, AfterAgrees, Terminal
    <3>10. ClonesFit'
      BY <3>5, <3>6 DEF Inv, ClonesFit
    <3>11. QueuedHasTargets'
      BY <3>3, <3>4, <3>6, <3>8 DEF Inv, QueuedHasTargets, Alive, Accepted
    <3>12. ProgressHonest'
      BY <3>3, <3>4 DEF Inv, ProgressHonest, Honest, Terminal
    <3> QED BY <3>7, <3>9, <3>10, <3>11, <3>12 DEF Inv
  <2> QED BY <1>3, <2>2, <2>3 DEF CreateJob
<1> QED BY <1>1, <1>2, <1>3 DEF SubmitStep

\* Every step keeps the invariant, the end of the process included.
LEMMA InvNext == Inv /\ [Next]_vars => Inv'
<1> SUFFICES ASSUME Inv, [Next]_vars PROVE Inv'
  OBVIOUS
<1>1. CASE UNCHANGED vars
  BY <1>1 DEF vars, Inv, TypeOK, Alive, AfterAgrees, ClonesFit, QueuedHasTargets, ProgressHonest,
              Accepted, Terminal
<1>2. CASE Stop
  <2>1. Gone \in Run /\ Fits(Gone) /\ Gone.pc = "gone"
    BY CapAssumption DEF Gone, Run, Fits
  <2>2. TypeOK'
    BY <1>2, <2>1 DEF Stop, Inv, TypeOK, IdleCaller
  <2>3. \A k \in JobIds : run'[k] = Gone
    BY <1>2 DEF Stop
  <2>4. ProgressHonest'
    BY <1>2 DEF Stop, Inv, ProgressHonest, Terminal
  <2> QED BY <2>1, <2>2, <2>3, <2>4 DEF Inv, Alive, AfterAgrees, ClonesFit, QueuedHasTargets
<1> QED BY <1>1, <1>2, SubmitStepInv, JobStepInv DEF Next

\* Every record has its type, goroutine clones included.
THEOREM JobsTypeCorrect == Spec => []TypeOK
<1>1. Spec => []Inv
  BY InvInit, InvNext, PTL DEF Spec
<1> QED BY <1>1, PTL DEF Inv

\* A job shows 100 per cent exactly when it is over, whatever writes failed,
\* however many targets and adapters it has, and across restarts.
THEOREM ProgressIsHonest == Spec => []ProgressHonest
<1>1. Spec => []Inv
  BY InvInit, InvNext, PTL DEF Spec
<1> QED BY <1>1, PTL DEF Inv

-----------------------------------------------------------------------------
(* Evidence is final, and the cap is overshot by a bounded number of jobs    *)

\* What may still happen to a record that is over.
Settled(j) == {j, [j EXCEPT !.baseline = TRUE]}

\* A goroutine writes its own job only, and one that is over only to name the
\* run it was compared with.
LEMMA OwnJobOnly ==
    ASSUME Inv, NEW k \in JobIds, JobStep(k)
    PROVE  /\ k \in DOMAIN jobs /\ UNCHANGED caller /\ DOMAIN jobs' = DOMAIN jobs
           /\ \A m \in DOMAIN jobs : m # k => jobs'[m] = jobs[m] /\ findings'[m] = findings[m]
           /\ Terminal(jobs[k]) => findings'[k] = findings[k] /\ jobs'[k] \in Settled(jobs[k])
<1>1. run[k].pc # "gone" /\ UNCHANGED caller
  BY DEF JobStep, RunStart, SkipAdapter, Visit, AdapterReturns, Correlate, StoreFindings, Finish,
         AfterRun
<1>2. k \in DOMAIN jobs
  BY <1>1 DEF Inv, Alive
<1>3. (\E j : jobs' = [jobs EXCEPT ![k] = j]) \/ jobs' = jobs
  BY DEF JobStep, RunStart, SkipAdapter, Visit, AdapterReturns, Correlate, StoreFindings, Finish,
         AfterRun, Write
<1>4. (\E f : findings' = [findings EXCEPT ![k] = f]) \/ findings' = findings
  BY DEF JobStep, RunStart, SkipAdapter, Visit, AdapterReturns, Correlate, StoreFindings, Finish,
         AfterRun
<1>5. DOMAIN jobs \subseteq JobIds /\ jobs \in Seq(Job)
      /\ findings \in [JobIds -> SUBSET FindingIds]
  BY CapAssumption DEF Inv, TypeOK, JobIds
<1>6. \A m \in DOMAIN jobs : m # k => findings'[m] = findings[m]
  BY <1>4, <1>5
<1>7. DOMAIN jobs' = DOMAIN jobs /\ \A m \in DOMAIN jobs : m # k => jobs'[m] = jobs[m]
  BY <1>2, <1>3, <1>5
<1>8. ASSUME Terminal(jobs[k])
      PROVE  findings'[k] = findings[k] /\ jobs'[k] \in Settled(jobs[k])
  <2>1. run[k].pc = "after" /\ jobs[k] = run[k].rec
    BY <1>1, <1>8 DEF Inv, Alive, AfterAgrees
  <2>2. AfterRun(k)
    BY <2>1 DEF JobStep, RunStart, SkipAdapter, Visit, AdapterReturns, Correlate,
                StoreFindings, Finish
  <2>3. jobs' = jobs \/ jobs' = [jobs EXCEPT ![k] = [run[k].rec EXCEPT !.baseline = TRUE]]
    BY <2>2 DEF AfterRun, Write
  <2> QED BY <1>2, <1>5, <2>1, <2>2, <2>3 DEF AfterRun, Settled
<1> QED BY <1>1, <1>2, <1>6, <1>7, <1>8

\* A record that is over stays over.
LEMMA SettledIsOver ==
    ASSUME NEW j \in Job, NEW i \in Settled(j)
    PROVE  Terminal(i) <=> Terminal(j)
BY DEF Settled, Job, Terminal

\* Submitting a job adds at most one record at the end.
LEMMA SubmitAppends ==
    ASSUME Inv, NEW c \in Callers, SubmitStep(c)
    PROVE  /\ UNCHANGED findings /\ DOMAIN jobs \subseteq DOMAIN jobs'
           /\ DOMAIN jobs' \subseteq DOMAIN jobs \cup {Len(jobs) + 1}
           /\ \A m \in DOMAIN jobs : jobs'[m] = jobs[m]
           /\ caller[c].pc # "create" => UNCHANGED jobs
<1>1. UNCHANGED findings /\ (jobs' = jobs \/ \E j : jobs' = Append(jobs, j))
  BY DEF SubmitStep, Request, CountActive, CreateJob
<1>2. caller[c].pc # "create" => UNCHANGED jobs
  BY DEF SubmitStep, Request, CountActive, CreateJob
<1>3. jobs \in Seq(Job)
  BY DEF Inv, TypeOK
<1>4. ASSUME NEW j, jobs' = Append(jobs, j)
      PROVE  /\ DOMAIN jobs' = DOMAIN jobs \cup {Len(jobs) + 1}
             /\ \A m \in DOMAIN jobs : jobs'[m] = jobs[m]
  BY <1>3, <1>4
<1> QED BY <1>1, <1>2, <1>4

\* Once a job is over, no step of any goroutine, request or restart changes
\* its record or its findings, but to name the run it was compared with: the
\* report an auditor reads stays what it was.
THEOREM EvidenceIsFinal == Spec => TerminalIsFinal
<1> DEFINE Kept == \A k \in DOMAIN jobs : Terminal(jobs[k]) =>
                      findings'[k] = findings[k] /\ jobs'[k] \in Settled(jobs[k])
<1>1. Inv /\ [Next]_vars => Kept
  <2> SUFFICES ASSUME Inv, [Next]_vars PROVE Kept
    OBVIOUS
  <2>1. CASE UNCHANGED vars
    BY <2>1 DEF vars, Settled
  <2>2. CASE Stop
    BY <2>2 DEF Stop, Settled
  <2>3. ASSUME NEW c \in Callers, SubmitStep(c) PROVE Kept
    BY <2>3, SubmitAppends DEF Settled
  <2>4. ASSUME NEW k \in JobIds, JobStep(k) PROVE Kept
    <3>1. /\ \A m \in DOMAIN jobs : m # k => jobs'[m] = jobs[m] /\ findings'[m] = findings[m]
          /\ Terminal(jobs[k]) => findings'[k] = findings[k] /\ jobs'[k] \in Settled(jobs[k])
      BY <2>4, OwnJobOnly
    <3>2. ASSUME NEW m \in DOMAIN jobs, Terminal(jobs[m])
          PROVE  findings'[m] = findings[m] /\ jobs'[m] \in Settled(jobs[m])
      <4>1. CASE m = k
        BY <3>1, <3>2, <4>1
      <4>2. CASE m # k
        BY <3>1, <4>2 DEF Settled
      <4> QED BY <4>1, <4>2
    <3> QED BY <3>2
  <2> QED BY <2>1, <2>2, <2>3, <2>4 DEF Next
<1>2. Spec => []Inv
  BY InvInit, InvNext, PTL DEF Spec
<1>3. Kept => [\A k \in DOMAIN jobs : Terminal(jobs[k]) =>
                 /\ findings'[k] = findings[k]
                 /\ jobs'[k] \in {jobs[k], [jobs[k] EXCEPT !.baseline = TRUE]}]_vars
  BY DEF Settled
<1> QED BY <1>1, <1>2, <1>3, PTL DEF Spec, TerminalIsFinal

\* The callers that have seen a free slot and not yet taken it.
Pending == {c \in Callers : caller[c].pc = "create"}

\* The strengthening of OvershootBounded: a slot seen free is as good as taken.
SlotInv == Cardinality(Active) + Cardinality(Pending)
               <= MaxActiveJobs + Cardinality(Callers) - 1

\* Active jobs and waiting callers can be counted.
LEMMA Countable ==
    ASSUME Inv
    PROVE  /\ IsFiniteSet(Active) /\ Cardinality(Active) \in Nat
           /\ IsFiniteSet(Pending) /\ Cardinality(Pending) \in Nat
           /\ Cardinality(Pending) <= Cardinality(Callers) /\ Cardinality(Callers) \in Nat
<1>1. Active \in SUBSET (1..Len(jobs)) /\ IsFiniteSet(1..Len(jobs))
  BY FS_Interval DEF Active, Inv, TypeOK
<1>2. Pending \in SUBSET Callers /\ IsFiniteSet(Callers)
  BY FiniteAssumption DEF Pending
<1>3. IsFiniteSet(Active) /\ IsFiniteSet(Pending) /\ Cardinality(Pending) <= Cardinality(Callers)
  BY <1>1, <1>2, FS_Subset
<1> QED BY <1>2, <1>3, FS_CardinalityType

\* Jobs that end and callers that give up only make room.
LEMMA Shrinks ==
    ASSUME Inv, SlotInv, Active' \subseteq Active, Pending' \subseteq Pending
    PROVE  SlotInv'
<1>1. /\ IsFiniteSet(Active') /\ Cardinality(Active') <= Cardinality(Active)
      /\ IsFiniteSet(Pending') /\ Cardinality(Pending') <= Cardinality(Pending)
  BY Countable, FS_Subset
<1>2. Cardinality(Active') \in Nat /\ Cardinality(Pending') \in Nat
  BY <1>1, FS_CardinalityType
<1> QED BY <1>1, <1>2, Countable, CapAssumption DEF SlotInv

\* Nothing is active and nobody waits at the start.
LEMMA SlotInit == Init => SlotInv
<1> SUFFICES ASSUME Init PROVE SlotInv
  OBVIOUS
<1>1. Active = {} /\ Pending = {}
  BY DEF Init, Active, Pending, IdleCaller
<1>2. Cardinality(Callers) \in Nat
  BY FiniteAssumption, FS_CardinalityType
<1> QED BY <1>1, <1>2, FS_EmptySet, CapAssumption DEF SlotInv

\* Seeing a free slot and taking it keep the count; all else makes room.
LEMMA SlotNext == Inv /\ SlotInv /\ [Next]_vars => SlotInv'
<1> SUFFICES ASSUME Inv, SlotInv, [Next]_vars PROVE SlotInv'
  OBVIOUS
<1>1. CASE UNCHANGED vars
  BY <1>1 DEF vars, SlotInv, Active, Pending, Terminal
<1>2. CASE Stop
  <2>1. Active' \subseteq Active /\ Pending' \subseteq Pending
    BY <1>2 DEF Stop, Active, Pending, IdleCaller, Terminal
  <2> QED BY <2>1, Shrinks
<1>3. ASSUME NEW k \in JobIds, JobStep(k) PROVE SlotInv'
  <2>1. Active' \subseteq Active
    <3> SUFFICES ASSUME NEW m \in DOMAIN jobs, Terminal(jobs[m])
                 PROVE  Terminal(jobs'[m])
      BY <1>3, OwnJobOnly DEF Active, Terminal
    <3>1. CASE m = k
      <4>1. jobs[k] \in Job /\ jobs'[k] \in Settled(jobs[k])
        BY <1>3, <3>1, OwnJobOnly DEF Inv, TypeOK
      <4> QED BY <3>1, <4>1, SettledIsOver
    <3>2. CASE m # k
      BY <1>3, <3>2, OwnJobOnly
    <3> QED BY <3>1, <3>2
  <2>2. Pending' \subseteq Pending
    BY <1>3, OwnJobOnly DEF Pending
  <2> QED BY <2>1, <2>2, Shrinks
<1>4. ASSUME NEW c \in Callers, Request(c) PROVE SlotInv'
  <2>1. \A d \in Callers : caller'[d].pc = "create" => caller[d].pc = "create"
    BY <1>4 DEF Request, Inv, TypeOK
  <2>2. Active' \subseteq Active /\ Pending' \subseteq Pending
    BY <1>4, <2>1 DEF Request, Active, Pending, Terminal
  <2> QED BY <2>2, Shrinks
<1>5. ASSUME NEW c \in Callers, CountActive(c) PROVE SlotInv'
  <2>1. UNCHANGED jobs
    BY <1>5 DEF CountActive
  <2>2. Active' = Active
    BY <2>1 DEF Active, Terminal
  <2>3. CASE HasSlot
    <3>1. Cardinality(Active) <= MaxActiveJobs - 1
      BY <2>3, Countable, CapAssumption DEF HasSlot
    <3>2. Pending' \in SUBSET Callers
      BY DEF Pending
    <3>3. IsFiniteSet(Pending') /\ Cardinality(Pending') <= Cardinality(Callers)
      BY <3>2, FiniteAssumption, FS_Subset
    <3>4. Cardinality(Pending') \in Nat
      BY <3>3, FS_CardinalityType
    <3> QED BY <2>2, <3>1, <3>3, <3>4, Countable, CapAssumption DEF SlotInv
  <2>4. CASE ~HasSlot
    <3>1. Pending' \subseteq Pending
      BY <1>5, <2>4 DEF CountActive, Pending, IdleCaller, Inv, TypeOK
    <3> QED BY <2>2, <3>1, Shrinks
  <2> QED BY <2>3, <2>4
<1>6. ASSUME NEW c \in Callers, CreateJob(c) PROVE SlotInv'
  <2>1. c \in Pending /\ Pending' = Pending \ {c}
    BY <1>6 DEF CreateJob, Pending, IdleCaller, Inv, TypeOK
  <2>2. Active' \subseteq Active \cup {Len(jobs) + 1}
    BY <1>6, SubmitAppends DEF SubmitStep, Active, Terminal
  <2>3. /\ Cardinality(Pending') = Cardinality(Pending) - 1
    BY <2>1, Countable, FS_RemoveElement
  <2>4. /\ IsFiniteSet(Active \cup {Len(jobs) + 1})
        /\ Cardinality(Active \cup {Len(jobs) + 1}) <= Cardinality(Active) + 1
    <3> DEFINE n == Len(jobs) + 1
    <3>1. IsFiniteSet(Active \cup {n})
          /\ Cardinality(Active \cup {n})
                 = IF n \in Active THEN Cardinality(Active) ELSE Cardinality(Active) + 1
      BY Countable, FS_AddElement
    <3> QED BY <3>1, Countable
  <2>5. IsFiniteSet(Active')
        /\ Cardinality(Active') <= Cardinality(Active \cup {Len(jobs) + 1})
    BY <2>2, <2>4, FS_Subset
  <2>6. Cardinality(Active') \in Nat /\ Cardinality(Active \cup {Len(jobs) + 1}) \in Nat
    BY <2>4, <2>5, FS_CardinalityType
  <2> QED BY <2>3, <2>4, <2>5, <2>6, Countable, CapAssumption DEF SlotInv
<1> QED BY <1>1, <1>2, <1>3, <1>4, <1>5, <1>6 DEF Next, SubmitStep

\* However many callers race for however many slots, and across restarts, the
\* jobs running at once never exceed the cap by more than one per other caller.
THEOREM OvershootIsBounded == Spec => []OvershootBounded
<1>1. Spec => [](Inv /\ SlotInv)
  BY InvInit, InvNext, SlotInit, SlotNext, PTL DEF Spec
<1>2. Inv /\ SlotInv => OvershootBounded
  BY Countable, CapAssumption DEF SlotInv, OvershootBounded
<1> QED BY <1>1, <1>2, PTL

-----------------------------------------------------------------------------
(* A completed job is whole                                                  *)

\* Adapter i has a record for target t.
Covered(j, i, t) == \E a \in j.runs : a.adapter = i /\ t \in a.over

\* What CompletedIsWhole says of one record, its findings and what was given.
Whole(j, fs, ys) ==
    /\ fs = ys /\ j.total = Cardinality(ys) /\ j.shown <= j.total
    /\ \A t \in Accepted(j) :
        /\ j.targets[t].processed
        /\ \A i \in 1..NAdapters : Covered(j, i, t)

\* A goroutine on its way there: it holds all that was given, and a record of
\* every adapter and target it has been to.
Follows(r, ys) ==
    /\ r.found = ys /\ r.left \subseteq Accepted(r.rec)
    /\ \A t \in Accepted(r.rec), i \in 1..NAdapters :
        i < r.i \/ (i = r.i /\ t \notin r.left) => Covered(r.rec, i, t)

Sound(r, fs, ys) ==
    /\ r.pc = "start" => r.i = 1 /\ r.found = {} /\ ys = {}
    /\ r.pc \in {"pick", "scan", "store"} => Follows(r, ys)
    /\ r.pc = "store" => r.i > NAdapters
    /\ r.pc \in {"finish", "after"} /\ r.rec.state = "completed" => Whole(r.rec, fs, ys)

NothingYielded == \A k \in JobIds : k \notin DOMAIN jobs => yielded[k] = {}
AllSound == \A k \in JobIds : Sound(run[k], findings[k], yielded[k])

WholeInv == NothingYielded /\ AllSound /\ CompletedIsWhole

\* The property is this of every completed job.
LEMMA WholeJobs ==
    CompletedIsWhole <=> \A k \in DOMAIN jobs :
        jobs[k].state = "completed" => Whole(jobs[k], findings[k], yielded[k])
BY DEF CompletedIsWhole, Whole, Covered

\* A goroutine that has gone, or has yet to begin, is sound.
LEMMA GoneSound ==
    ASSUME NEW fs, NEW ys
    PROVE  Sound(Gone, fs, ys) /\ Sound([Gone EXCEPT !.pc = "start"], fs, {})
BY DEF Sound, Gone

\* A record that counts one more adapter run.
LEMMA MoreCovered ==
    ASSUME NEW j \in Job, NEW a \in AdapterRun, NEW p \in 0..99
    PROVE  /\ Accepted(Recorded(j, a, p)) = Accepted(j)
           /\ \A i, t : Covered(Recorded(j, a, p), i, t) <=>
                  Covered(j, i, t) \/ (a.adapter = i /\ t \in a.over)
<1>1. Recorded(j, a, p).runs = j.runs \cup {a} /\ Recorded(j, a, p).targets = j.targets
  BY DEF Recorded, Job
<1> QED BY <1>1, SameTargets DEF Covered

\* What is written at the end of a run that has been everywhere is whole.
LEMMA FinalWhole ==
    ASSUME NEW r \in Run, r.rec \in Job, NEW ys, Follows(r, ys), r.i > NAdapters
    PROVE  Whole(Final(r, "completed"), ys, ys)
<1> DEFINE f == Final(r, "completed")
<1>1. r.found = ys /\ Cardinality(ys) \in Nat
  BY FiniteAssumption, FS_Subset, FS_CardinalityType DEF Run, Follows
<1>2. f.total = Cardinality(ys) /\ f.shown = ShownOf(Cardinality(ys)) /\ f.runs = r.rec.runs
  BY <1>1 DEF Final
<1>3. f.shown <= f.total
  BY <1>1, <1>2, CapAssumption DEF ShownOf
<1>4. Accepted(f) = Accepted(r.rec) /\ \A t \in Accepted(f) : f.targets[t].processed
  BY DEF Final, Accepted
<1>5. ASSUME NEW t \in Accepted(r.rec), NEW i \in 1..NAdapters PROVE Covered(f, i, t)
  <2>1. i < r.i
    BY CapAssumption DEF Run
  <2> QED BY <1>2, <2>1 DEF Follows, Covered
<1> HIDE DEF f
<1> QED BY <1>2, <1>3, <1>4, <1>5 DEF Whole, f

\* A goroutine moves on soundly, and leaves the other jobs alone.
LEMMA WholeMoves ==
    ASSUME Inv, WholeInv, NEW k \in JobIds, k \in DOMAIN jobs, NEW r, Goes(k, r),
           DOMAIN jobs' = DOMAIN jobs,
           \A m \in JobIds : m # k => /\ m \in DOMAIN jobs => jobs'[m] = jobs[m]
                                      /\ findings'[m] = findings[m] /\ yielded'[m] = yielded[m],
           Sound(r, findings'[k], yielded'[k]),
           jobs'[k].state = "completed" => Whole(jobs'[k], findings'[k], yielded'[k])
    PROVE  WholeInv'
<1>1. run'[k] = r /\ \A m \in JobIds : m # k => run'[m] = run[m]
  BY DEF Goes, Inv, TypeOK
<1>2. NothingYielded' /\ AllSound'
  BY <1>1 DEF WholeInv, NothingYielded, AllSound
<1>3. DOMAIN jobs \subseteq JobIds
  BY CapAssumption DEF Inv, TypeOK, JobIds
<1>4. (\A m \in DOMAIN jobs :
          jobs[m].state = "completed" => Whole(jobs[m], findings[m], yielded[m]))'
  BY <1>3, WholeJobs DEF WholeInv
<1>5. CompletedIsWhole'
  BY <1>4 DEF CompletedIsWhole, Whole, Covered
<1> QED BY <1>2, <1>5 DEF WholeInv

\* Every step of a goroutine keeps a completed job whole.
LEMMA WholeJobStep == ASSUME Inv, WholeInv, NEW k \in JobIds, JobStep(k) PROVE WholeInv'
<1> DEFINE r == run[k]
<1>1. k \in DOMAIN jobs /\ DOMAIN jobs' = DOMAIN jobs
      /\ \A m \in DOMAIN jobs : m # k => jobs'[m] = jobs[m]
  BY OwnJobOnly
<1>2. /\ r \in Run /\ Fits(r) /\ Sound(r, findings[k], yielded[k]) /\ jobs[k] \in Job
      /\ jobs[k].state = "completed" => Whole(jobs[k], findings[k], yielded[k])
      /\ r.pc \notin {"gone", "after"} => jobs[k].state # "completed"
  BY <1>1, WholeJobs DEF Inv, TypeOK, ClonesFit, WholeInv, AllSound, Alive, Terminal
<1>3. \A m \in JobIds : m # k => findings'[m] = findings[m] /\ yielded'[m] = yielded[m]
  BY DEF JobStep, RunStart, SkipAdapter, Visit, AdapterReturns, Correlate, StoreFindings, Finish,
         AfterRun, Inv, TypeOK
<1>4. ASSUME NEW j, Write(k, j)
      PROVE  jobs'[k] = j \/ jobs'[k] = jobs[k]
  BY <1>1, <1>4 DEF Write
<1>5. CASE RunStart(k)
  <2> DEFINE j == [jobs[k] EXCEPT !.state = "running"]
             s == [r EXCEPT !.pc = "pick", !.rec = j, !.left = Accepted(j)]
  <2>1. /\ r.pc = "start" /\ Write(k, j) /\ Goes(k, s)
        /\ findings' = findings /\ yielded' = yielded
    BY <1>5 DEF RunStart
  <2>2. j.state = "running"
    BY <1>2 DEF Job
  <2>3. jobs'[k].state # "completed"
    BY <1>2, <1>4, <2>1, <2>2
  <2> HIDE DEF j
  <2>4. s.pc = "pick" /\ s.rec = j /\ s.left = Accepted(j) /\ s.i = 1 /\ s.found = {}
        /\ yielded[k] = {}
    BY <1>2, <2>1 DEF Run, Sound
  <2> HIDE DEF s
  <2>5. Sound(s, findings[k], yielded[k])
    BY <2>4, CapAssumption DEF Sound, Follows
  <2> QED BY <1>1, <1>3, <2>1, <2>3, <2>5, WholeMoves
<1>6. CASE SkipAdapter(k)
  <2> DEFINE a == Skipped(r)
             p == Progress(r.rec, r.i, {})
             j == Recorded(r.rec, a, p)
             s == [r EXCEPT !.rec = j, !.i = @ + 1]
  <2>1. /\ r.pc = "pick" /\ r.i \in 1..NAdapters /\ r.left = Accepted(r.rec)
        /\ Write(k, j) /\ Goes(k, s) /\ findings' = findings /\ yielded' = yielded
        /\ r.rec \in Job /\ Accepted(r.rec) # {} /\ Accepted(r.rec) \in SUBSET Targets
        /\ Follows(r, yielded[k])
    BY <1>2, <1>6, CapAssumption DEF SkipAdapter, Fits, Run, Accepted, Sound
  <2>2. p \in 0..99 /\ a \in AdapterRun /\ a.adapter = r.i /\ a.over = Accepted(r.rec)
    BY <2>1, ProgressBelow DEF Skipped, AdapterRun
  <2> HIDE DEF a, p
  <2>3. /\ j.state = r.rec.state /\ Accepted(j) = Accepted(r.rec)
        /\ \A i, t : Covered(j, i, t) <=> Covered(r.rec, i, t) \/ (r.i = i /\ t \in Accepted(r.rec))
    <3>1. j.state = r.rec.state
      BY <2>1, <2>2, RunRecorded
    <3> QED BY <2>1, <2>2, <3>1, MoreCovered
  <2>4. jobs'[k].state # "completed"
    BY <1>2, <1>4, <2>1, <2>3 DEF Fits
  <2> HIDE DEF j
  <2>5. s.pc = "pick" /\ s.rec = j /\ s.left = r.left /\ s.i = r.i + 1 /\ s.found = r.found
    BY <1>2, <2>1 DEF Run
  <2> HIDE DEF s
  <2>6. ASSUME NEW t \in Accepted(j), NEW i \in 1..NAdapters, i < s.i \/ t \notin s.left
        PROVE  Covered(j, i, t)
    BY <2>1, <2>3, <2>5, <2>6, CapAssumption DEF Follows
  <2>7. Sound(s, findings[k], yielded[k])
    BY <2>1, <2>3, <2>5, <2>6 DEF Sound, Follows
  <2> QED BY <1>1, <1>3, <2>1, <2>4, <2>7, WholeMoves
<1>7. CASE Visit(k)
  <2>1. PICK t \in r.left : Goes(k, [r EXCEPT !.pc = "scan", !.at = {t}])
    BY <1>7 DEF Visit
  <2> DEFINE s == [r EXCEPT !.pc = "scan", !.at = {t}]
  <2>2. /\ r.pc = "pick" /\ Write(k, r.rec) /\ findings' = findings /\ yielded' = yielded
        /\ Follows(r, yielded[k]) /\ r.rec.state = "running"
    BY <1>2, <1>7 DEF Visit, Sound, Fits
  <2>3. jobs'[k].state # "completed"
    BY <1>2, <1>4, <2>2
  <2>4. s.pc = "scan" /\ s.rec = r.rec /\ s.left = r.left /\ s.i = r.i /\ s.found = r.found
        /\ Goes(k, s)
    BY <1>2, <2>1 DEF Run
  <2> HIDE DEF s
  <2>5. Sound(s, findings[k], yielded[k])
    BY <2>2, <2>4 DEF Sound, Follows
  <2> QED BY <1>1, <1>3, <2>2, <2>3, <2>4, <2>5, WholeMoves
<1>8. CASE AdapterReturns(k)
  <2>1. PICK fs \in SUBSET FindingIds, failed \in BOOLEAN :
        LET j == Recorded(r.rec, Scanned(r, failed),
                          Progress(r.rec, r.i, r.left \ r.at)) IN
        /\ Write(k, j)
        /\ Goes(k, AfterTarget([r EXCEPT
                !.rec = j, !.found = @ \cup fs,
                !.per = [t \in Targets |->
                            IF t \in r.at THEN @[t] + Cardinality(fs) ELSE @[t]]]))
        /\ yielded' = [yielded EXCEPT ![k] = @ \cup fs]
    BY <1>8 DEF AdapterReturns
  <2> DEFINE a == Scanned(r, failed)
             p == Progress(r.rec, r.i, r.left \ r.at)
             j == Recorded(r.rec, a, p)
             per == [t \in Targets |->
                        IF t \in r.at THEN r.per[t] + Cardinality(fs) ELSE r.per[t]]
             q == [r EXCEPT !.rec = j, !.found = @ \cup fs, !.per = per]
             s == AfterTarget(q)
  <2>2. /\ r.pc = "scan" /\ r.i \in 1..NAdapters /\ r.rec \in Job /\ r.rec.state = "running"
        /\ Accepted(r.rec) # {} /\ findings' = findings
        /\ r.at \in SUBSET Targets /\ r.left \in SUBSET Targets /\ Follows(r, yielded[k])
    BY <1>2, <1>8, CapAssumption DEF AdapterReturns, Fits, Run, Sound
  <2>3. Write(k, j) /\ Goes(k, s) /\ yielded'[k] = yielded[k] \cup fs
    BY <2>1 DEF Inv, TypeOK
  <2>4. p \in 0..99 /\ a \in AdapterRun /\ a.adapter = r.i /\ a.over = r.at
    BY <2>2, ProgressBelow DEF Scanned, AdapterRun
  <2> HIDE DEF a, p
  <2>5. /\ j.state = "running" /\ Accepted(j) = Accepted(r.rec)
        /\ \A i, t : Covered(j, i, t) <=> Covered(r.rec, i, t) \/ (r.i = i /\ t \in r.at)
    <3>1. j.state = r.rec.state
      BY <2>2, <2>4, RunRecorded
    <3> QED BY <2>2, <2>4, <3>1, MoreCovered
  <2>6. jobs'[k].state # "completed"
    BY <1>2, <1>4, <2>2, <2>3, <2>5
  <2> HIDE DEF j, per
  <2>7. q \in [pc : {r.pc}, rec : {j}, i : {r.i}, left : {r.left}, at : {r.at},
               found : {r.found \cup fs}, per : {per}]
    BY <1>2 DEF Run
  <2> HIDE DEF q
  <2>8. /\ s.pc = "pick" /\ s.rec = j /\ s.found = r.found \cup fs
        /\ \/ s.i = r.i /\ s.left = r.left \ r.at
           \/ s.i = r.i + 1 /\ s.left = Accepted(j) /\ r.left \subseteq r.at
    BY <2>7 DEF AfterTarget
  <2> HIDE DEF s
  <2>9. s.left \subseteq Accepted(j)
    BY <2>2, <2>5, <2>8 DEF Follows
  <2>10. ASSUME NEW t \in Accepted(j), NEW i \in 1..NAdapters,
                i < s.i \/ (i = s.i /\ t \notin s.left)
         PROVE  Covered(j, i, t)
    BY <2>2, <2>5, <2>8, <2>10, CapAssumption DEF Follows
  <2>11. Sound(s, findings'[k], yielded'[k])
    BY <2>2, <2>3, <2>8, <2>9, <2>10 DEF Sound, Follows
  <2> QED BY <1>1, <1>3, <2>3, <2>6, <2>11, WholeMoves
<1>9. CASE Correlate(k)
  <2> DEFINE s == [r EXCEPT !.pc = "store"]
  <2>1. /\ r.pc = "pick" /\ r.i > NAdapters /\ Write(k, r.rec) /\ Goes(k, s)
        /\ findings' = findings /\ yielded' = yielded
        /\ Follows(r, yielded[k]) /\ r.rec.state = "running"
    BY <1>2, <1>9 DEF Correlate, Sound, Fits
  <2>2. jobs'[k].state # "completed"
    BY <1>2, <1>4, <2>1
  <2>3. s.pc = "store" /\ s.rec = r.rec /\ s.left = r.left /\ s.i = r.i /\ s.found = r.found
    BY <1>2 DEF Run
  <2> HIDE DEF s
  <2>4. Sound(s, findings[k], yielded[k])
    BY <2>1, <2>3 DEF Sound, Follows
  <2> QED BY <1>1, <1>3, <2>1, <2>2, <2>4, WholeMoves
<1>10. CASE StoreFindings(k)
  <2>1. /\ r.pc = "store" /\ r.rec \in Job /\ jobs' = jobs /\ yielded' = yielded
        /\ Follows(r, yielded[k]) /\ r.i > NAdapters
        /\ jobs'[k].state # "completed"
    BY <1>2, <1>10 DEF StoreFindings, Sound, Fits
  <2>2. CASE findings' = [findings EXCEPT ![k] = r.found]
             /\ Goes(k, [r EXCEPT !.pc = "finish", !.rec = Final(r, "completed")])
    <3> DEFINE f == Final(r, "completed")
               s == [r EXCEPT !.pc = "finish", !.rec = f]
    <3>1. findings'[k] = yielded[k]
      BY <2>1, <2>2 DEF Follows, Inv, TypeOK
    <3>2. Whole(f, yielded[k], yielded[k])
      BY <1>2, <2>1, FinalWhole
    <3>3. Goes(k, s)
      BY <2>2
    <3> HIDE DEF f
    <3>4. s.pc = "finish" /\ s.rec = f
      BY <1>2 DEF Run
    <3> HIDE DEF s
    <3>5. Sound(s, findings'[k], yielded'[k])
      BY <2>1, <3>1, <3>2, <3>4 DEF Sound
    <3> QED BY <1>1, <1>3, <2>1, <3>3, <3>5, WholeMoves
  <2>3. CASE findings' = findings
             /\ Goes(k, [r EXCEPT !.pc = "finish", !.rec = Final(r, "failed")])
    <3> DEFINE f == Final(r, "failed")
               s == [r EXCEPT !.pc = "finish", !.rec = f]
    <3>1. f.state = "failed"
      BY <1>2, <2>1, FinalType
    <3>2. Goes(k, s)
      BY <2>3
    <3> HIDE DEF f
    <3>3. s.pc = "finish" /\ s.rec = f
      BY <1>2 DEF Run
    <3> HIDE DEF s
    <3>4. Sound(s, findings'[k], yielded'[k])
      BY <3>1, <3>3 DEF Sound
    <3> QED BY <1>1, <1>3, <2>1, <3>2, <3>4, WholeMoves
  <2> QED BY <1>10, <2>2, <2>3 DEF StoreFindings
<1>11. CASE Finish(k)
  <2> DEFINE s == IF r.rec.state = "completed" THEN [r EXCEPT !.pc = "after"] ELSE Gone
  <2>1. /\ r.pc = "finish" /\ Write(k, r.rec) /\ Goes(k, s)
        /\ findings' = findings /\ yielded' = yielded
        /\ r.rec.state = "completed" => Whole(r.rec, findings[k], yielded[k])
    BY <1>2, <1>11 DEF Finish, Sound
  <2>2. jobs'[k].state = "completed" => Whole(jobs'[k], findings[k], yielded[k])
    BY <1>2, <1>4, <2>1
  <2>3. Sound(s, findings[k], yielded[k])
    <3>1. CASE r.rec.state = "completed"
      <4>1. s.pc = "after" /\ s.rec = r.rec
        BY <1>2, <3>1 DEF Run
      <4> HIDE DEF s
      <4> QED BY <2>1, <4>1 DEF Sound
    <3>2. CASE r.rec.state # "completed"
      BY <3>2, GoneSound
    <3> QED BY <3>1, <3>2
  <2> HIDE DEF s
  <2> QED BY <1>1, <1>3, <2>1, <2>2, <2>3, WholeMoves
<1>12. CASE AfterRun(k)
  <2> DEFINE j == [r.rec EXCEPT !.baseline = TRUE]
  <2>1. /\ r.pc = "after" /\ Goes(k, Gone) /\ findings' = findings /\ yielded' = yielded
        /\ r.rec \in Job /\ Whole(r.rec, findings[k], yielded[k])
        /\ Write(k, j) \/ jobs' = jobs
    BY <1>2, <1>12 DEF AfterRun, Sound, Fits
  <2>2. j.runs = r.rec.runs /\ j.targets = r.rec.targets /\ j.total = r.rec.total
        /\ j.shown = r.rec.shown
    BY <2>1 DEF Job
  <2> HIDE DEF j
  <2>3. Whole(j, findings[k], yielded[k])
    BY <2>1, <2>2 DEF Whole, Covered, Accepted
  <2>4. jobs'[k].state = "completed" => Whole(jobs'[k], findings[k], yielded[k])
    BY <1>2, <1>4, <2>1, <2>3
  <2> QED BY <1>1, <1>3, <2>1, <2>4, GoneSound, WholeMoves
<1> QED BY <1>5, <1>6, <1>7, <1>8, <1>9, <1>10, <1>11, <1>12 DEF JobStep

\* A new job has given nothing and claims nothing.
LEMMA WholeSubmit == ASSUME Inv, WholeInv, NEW c \in Callers, SubmitStep(c) PROVE WholeInv'
<1> DEFINE k == Len(jobs) + 1
<1>1. /\ UNCHANGED findings /\ DOMAIN jobs \subseteq DOMAIN jobs'
      /\ DOMAIN jobs' \subseteq DOMAIN jobs \cup {k}
      /\ \A m \in DOMAIN jobs : jobs'[m] = jobs[m]
  BY SubmitAppends
<1>2. UNCHANGED yielded /\ jobs \in Seq(Job) /\ k \notin DOMAIN jobs
      /\ DOMAIN jobs \subseteq JobIds
  BY CapAssumption
     DEF SubmitStep, Request, CountActive, CreateJob, Inv, TypeOK, JobIds
<1>3. \/ jobs' = jobs /\ run' = run
      \/ /\ k \in JobIds
         /\ \E v \in Verdicts(caller[c].asked) :
              /\ jobs' = Append(jobs, NewJob(IF v[1] = {} THEN "refused" ELSE "queued", v[1], v[2]))
              /\ run' = IF v[1] = {} THEN run
                        ELSE [run EXCEPT ![k] = [Gone EXCEPT !.pc = "start"]]
  <2>1. CASE CreateJob(c)
    <3>1. k \in JobIds
      BY <1>2, <2>1, CapAssumption DEF CreateJob, JobIds
    <3>2. CASE UNCHANGED <<jobs, run>>
      BY <3>2
    <3>3. CASE ~UNCHANGED <<jobs, run>>
      <4>1. PICK v \in Verdicts(caller[c].asked) :
              /\ jobs' = Append(jobs, NewJob(IF v[1] = {} THEN "refused" ELSE "queued", v[1], v[2]))
              /\ run' = IF v[1] = {} THEN run
                        ELSE [run EXCEPT ![k] = [Gone EXCEPT !.pc = "start"]]
        BY <2>1, <3>3 DEF CreateJob
      <4> QED BY <3>1, <4>1
    <3> QED BY <3>2, <3>3
  <2>2. CASE ~CreateJob(c)
    BY <2>2 DEF SubmitStep, Request, CountActive
  <2> QED BY <2>1, <2>2
<1>4. CASE jobs' = jobs /\ run' = run
  BY <1>1, <1>2, <1>4 DEF WholeInv, NothingYielded, AllSound, CompletedIsWhole, Accepted
<1>5. ASSUME NEW v \in Verdicts(caller[c].asked), k \in JobIds,
             NEW j, j = NewJob(IF v[1] = {} THEN "refused" ELSE "queued", v[1], v[2]),
             jobs' = Append(jobs, j),
             run' = IF v[1] = {} THEN run
                    ELSE [run EXCEPT ![k] = [Gone EXCEPT !.pc = "start"]]
      PROVE  WholeInv'
  <2>1. j.state # "completed" /\ jobs'[k] = j /\ DOMAIN jobs' = DOMAIN jobs \cup {k}
    BY <1>2, <1>5 DEF NewJob
  <2>2. yielded[k] = {}
    BY <1>2, <1>5 DEF WholeInv, NothingYielded
  <2>3. NothingYielded'
    BY <1>2, <2>1 DEF WholeInv, NothingYielded
  <2>4. ASSUME NEW m \in JobIds PROVE Sound(run'[m], findings'[m], yielded'[m])
    <3>1. run'[m] = run[m] \/ (m = k /\ run'[m] = [Gone EXCEPT !.pc = "start"])
      BY <1>5 DEF Inv, TypeOK
    <3>2. Sound(run[m], findings[m], yielded[m])
      BY DEF WholeInv, AllSound
    <3> QED BY <1>1, <1>2, <2>2, <3>1, <3>2, GoneSound
  <2>5. (\A m \in DOMAIN jobs :
            jobs[m].state = "completed" => Whole(jobs[m], findings[m], yielded[m]))'
    BY <1>1, <1>2, <2>1, WholeJobs DEF WholeInv
  <2>6. CompletedIsWhole'
    BY <2>5 DEF CompletedIsWhole, Whole, Covered
  <2> QED BY <2>3, <2>4, <2>6 DEF WholeInv, AllSound
<1> QED BY <1>3, <1>4, <1>5

\* A job that says it completed has stored and counted every finding it was
\* given, and has a record of every adapter for every target it accepted, for
\* any number of them and whatever writes failed or stops came on the way.
THEOREM CompletedIsAlwaysWhole == Spec => []CompletedIsWhole
<1>1. Init => WholeInv
  <2> SUFFICES ASSUME Init PROVE WholeInv
    OBVIOUS
  <2>1. NothingYielded /\ CompletedIsWhole
    BY DEF Init, NothingYielded, CompletedIsWhole
  <2>2. AllSound
    BY GoneSound DEF Init, AllSound
  <2> QED BY <2>1, <2>2 DEF WholeInv
<1>2. Inv /\ WholeInv /\ [Next]_vars => WholeInv'
  <2> SUFFICES ASSUME Inv, WholeInv, [Next]_vars PROVE WholeInv'
    OBVIOUS
  <2>1. CASE UNCHANGED vars
    BY <2>1 DEF vars, WholeInv, NothingYielded, AllSound, CompletedIsWhole, Accepted
  <2>2. CASE Stop
    <3>1. UNCHANGED <<jobs, findings, yielded>> /\ \A m \in JobIds : run'[m] = Gone
      BY <2>2 DEF Stop
    <3> QED BY <3>1, GoneSound
            DEF WholeInv, NothingYielded, AllSound, CompletedIsWhole, Accepted
  <2> QED BY <2>1, <2>2, WholeJobStep, WholeSubmit DEF Next
<1>3. Spec => [](Inv /\ WholeInv)
  BY <1>1, <1>2, InvInit, InvNext, PTL DEF Spec
<1> QED BY <1>3, PTL DEF WholeInv

-----------------------------------------------------------------------------
(* The figure never goes back                                                *)

\* What the stored record shows is at most what the goroutine's clone shows, and
\* that at most what its place among adapters and targets stands for.
Trails(r, p) ==
    /\ r.pc = "start" => p = 0 /\ r.i = 1
    /\ r.pc \in {"pick", "scan"} =>
        /\ p <= r.rec.progress
        /\ r.i <= NAdapters => r.rec.progress <= Progress(r.rec, r.i, r.left)

Ahead == \A k \in DOMAIN jobs : Trails(run[k], jobs[k].progress)

\* More done is at least as large a percentage.
LEMMA PercentGrows ==
    ASSUME NEW total \in Nat \ {0}, NEW done \in Nat, NEW more \in Nat, done <= more
    PROVE  Percent(done, total) <= Percent(more, total)
<1> DEFINE x == done * 100
           y == more * 100
<1>1. x \in Nat /\ y \in Nat /\ x <= y
  OBVIOUS
<1> HIDE DEF x, y
<1>2. x \div total \in Int /\ y \div total \in Int /\ x \div total <= y \div total
  BY <1>1, Z3
<1> QED BY <1>2 DEF Percent, x, y

\* Nothing done yet is nought per cent.
LEMMA PercentOfNone == ASSUME NEW total \in Nat \ {0} PROVE Percent(0, total) = 0
<1>1. 0 \div total = 0
  BY Z3
<1> QED BY <1>1 DEF Percent

\* The figure grows as targets are done, and an adapter that is done with all of
\* them stands where the next one, with all of them left, begins.
LEMMA ProgressGrows ==
    ASSUME NEW j \in Job, NEW i \in 1..NAdapters, NEW left, NEW fewer \in SUBSET left,
           Accepted(j) # {}
    PROVE  /\ Progress(j, i, left) <= Progress(j, i, fewer)
           /\ Progress(j, i, {}) = Progress(j, i + 1, Accepted(j))
<1> DEFINE A == Accepted(j)
           n == Cardinality(A)
           d == Cardinality(A \ left)
           e == Cardinality(A \ fewer)
<1>1. IsFiniteSet(A)
  BY FiniteAssumption, FS_Subset DEF Accepted
<1>2. n \in Nat \ {0}
  BY <1>1, FS_CardinalityType, FS_EmptySet
<1>3. d \in Nat /\ e \in Nat /\ d <= e
  <2>1. A \ left \subseteq A \ fewer /\ IsFiniteSet(A \ fewer)
    BY <1>1, FS_Subset
  <2> QED BY <2>1, FS_Subset, FS_CardinalityType
<1>4. Cardinality(A \ {}) = n /\ Cardinality(A \ A) = 0
  <2>1. A \ {} = A /\ A \ A = {}
    OBVIOUS
  <2> QED BY <2>1, FS_EmptySet
<1> HIDE DEF n, d, e
<1>5. NAdapters \in Nat \ {0} /\ i - 1 \in Nat /\ NAdapters * n \in Nat \ {0}
  BY <1>2, CapAssumption
<1>6. (i - 1) * n \in Nat /\ (i - 1) * n + n = i * n
  BY <1>2, <1>5
<1>7. (i - 1) * n + d \in Nat /\ (i - 1) * n + e \in Nat
      /\ (i - 1) * n + d <= (i - 1) * n + e
  BY <1>3, <1>6
<1>8. Percent((i - 1) * n + d, NAdapters * n) <= Percent((i - 1) * n + e, NAdapters * n)
  BY <1>5, <1>7, PercentGrows
<1>9. (i + 1) - 1 = i /\ i * n + 0 = i * n
  BY <1>2, <1>5
<1>10. Progress(j, i, {}) = Percent(i * n, NAdapters * n)
  BY <1>4, <1>6 DEF Progress, n
<1>11. Progress(j, i + 1, A) = Percent(i * n, NAdapters * n)
  BY <1>4, <1>9 DEF Progress, n
<1> QED BY <1>8, <1>10, <1>11 DEF Progress, n, d, e

\* The first adapter begins at nothing.
LEMMA ProgressOfNone ==
    ASSUME NEW j \in Job, Accepted(j) # {}, NAdapters # 0
    PROVE  Progress(j, 1, Accepted(j)) = 0
<1> DEFINE A == Accepted(j)
           n == Cardinality(A)
<1>1. IsFiniteSet(A)
  BY FiniteAssumption, FS_Subset DEF Accepted
<1>2. n \in Nat \ {0} /\ Cardinality(A \ A) = 0
  <2>1. A \ A = {}
    OBVIOUS
  <2> QED BY <1>1, <2>1, FS_CardinalityType, FS_EmptySet
<1> HIDE DEF n
<1>3. NAdapters \in Nat \ {0}
  BY CapAssumption
<1>4. NAdapters * n \in Nat \ {0}
  BY <1>2, <1>3
<1>5. (1 - 1) * n + 0 = 0
  BY <1>2
<1> QED BY <1>2, <1>4, <1>5, PercentOfNone DEF Progress, n

\* Of two records, the one that is kept shows something between the two.
LEMMA KeptBetween ==
    ASSUME NEW i \in Job, NEW j \in Job, i.progress <= j.progress, NEW n \in {i, j}
    PROVE  i.progress <= n.progress /\ n.progress <= j.progress
<1>1. i.progress \in 0..100 /\ j.progress \in 0..100
  BY DEF Job
<1>2. i.progress <= i.progress /\ j.progress <= j.progress
  BY <1>1
<1>3. n = i \/ n = j
  OBVIOUS
<1> QED BY <1>2, <1>3, Zenon

\* A record written, or lost, that shows no less than the stored one.
LEMMA WriteAdvances ==
    ASSUME jobs \in Seq(Job), NEW k \in DOMAIN jobs, NEW j \in Job, Write(k, j),
           jobs[k].progress <= j.progress
    PROVE  jobs[k].progress <= jobs'[k].progress /\ jobs'[k].progress <= j.progress
<1>1. jobs[k] \in Job /\ jobs'[k] \in {jobs[k], j}
  BY DEF Write
<1> QED BY <1>1, KeptBetween, Zenon

\* The stored figure, the clone's, its place's and the new one, in that order.
LEMMA InOrder ==
    ASSUME NEW a \in 0..100, NEW b \in 0..100, NEW c \in 0..99, NEW d \in 0..99,
           a <= b, b <= c, c <= d
    PROVE  a <= d
OBVIOUS

\* No step of a goroutine sets its own job's figure back.
LEMMA JobAdvances ==
    ASSUME Inv, Ahead, NEW k \in JobIds, JobStep(k)
    PROVE  jobs[k].progress <= jobs'[k].progress /\ Trails(run'[k], jobs'[k].progress)
<1> DEFINE r == run[k]
<1>1. /\ k \in DOMAIN jobs /\ jobs \in Seq(Job) /\ jobs[k] \in Job /\ r \in Run /\ Fits(r)
      /\ Trails(r, jobs[k].progress)
  BY OwnJobOnly DEF Inv, TypeOK, ClonesFit, Ahead
<1>2. ASSUME NEW s, Goes(k, s) PROVE run'[k] = s
  BY <1>2 DEF Goes, Inv, TypeOK
<1>3. jobs[k].progress \in 0..100
  BY <1>1 DEF Job
<1>4. CASE RunStart(k)
  <2> DEFINE j == [jobs[k] EXCEPT !.state = "running"]
             s == [r EXCEPT !.pc = "pick", !.rec = j, !.left = Accepted(j)]
  <2>1. /\ r.pc = "start" /\ jobs[k].progress = 0 /\ Write(k, j) /\ run'[k] = s
        /\ Accepted(jobs[k]) # {}
    BY <1>1, <1>2, <1>4 DEF RunStart, Trails, Inv, QueuedHasTargets
  <2>2. j \in Job /\ j.progress = 0 /\ j.targets = jobs[k].targets
    BY <1>1, <2>1 DEF Job, States
  <2>3. r.i = 1
    BY <1>1, <2>1 DEF Trails
  <2> HIDE DEF j
  <2>4. jobs'[k].progress = 0
    BY <1>1, <2>1, <2>2, WriteEffect DEF Inv, TypeOK
  <2>5. 1 <= NAdapters => Progress(j, 1, Accepted(j)) = 0
    BY <2>1, <2>2, SameTargets, ProgressOfNone
  <2>6. s.pc = "pick" /\ s.rec = j /\ s.i = 1 /\ s.left = Accepted(j)
    BY <1>1, <2>3 DEF Run
  <2> HIDE DEF s
  <2> QED BY <2>1, <2>2, <2>4, <2>5, <2>6 DEF Trails
<1>5. CASE SkipAdapter(k)
  <2> DEFINE a == Skipped(r)
             p == Progress(r.rec, r.i, {})
             j == Recorded(r.rec, a, p)
             s == [r EXCEPT !.rec = j, !.i = @ + 1]
  <2>1. /\ r.pc = "pick" /\ r.i \in 1..NAdapters /\ r.left = Accepted(r.rec)
        /\ Write(k, j) /\ Goes(k, s)
        /\ r.rec \in Job /\ Accepted(r.rec) # {}
        /\ jobs[k].progress <= r.rec.progress
        /\ r.rec.progress <= Progress(r.rec, r.i, r.left)
    BY <1>1, <1>5, CapAssumption DEF SkipAdapter, Fits, Run, Trails
  <2>2. Progress(r.rec, r.i, r.left) <= p /\ p = Progress(r.rec, r.i + 1, r.left)
    BY <2>1, ProgressGrows
  <2>3. Progress(r.rec, r.i, r.left) \in 0..99 /\ p \in 0..99 /\ a \in AdapterRun
    <3>1. r.left \in SUBSET Targets /\ {} \in SUBSET Targets
      BY <1>1 DEF Run
    <3>2. a \in AdapterRun
      BY <2>1 DEF Skipped, AdapterRun, Accepted
    <3> QED BY <2>1, <3>1, <3>2, ProgressBelow
  <2> HIDE DEF a, p
  <2>4. j \in Job /\ j.progress = p /\ j.targets = r.rec.targets
    <3>1. j \in Job /\ j.targets = r.rec.targets
      BY <2>1, <2>3, RunRecorded
    <3>2. j.progress = p
      BY <2>1 DEF Recorded, Job
    <3> QED BY <3>1, <3>2
  <2>5. s.pc = "pick" /\ s.rec = j /\ s.i = r.i + 1 /\ s.left = r.left /\ run'[k] = s
    BY <1>1, <1>2, <2>1 DEF Run
  <2> HIDE DEF j, s
  <2>6. Progress(j, s.i, s.left) = p
    BY <2>2, <2>4, <2>5, SameTargets DEF Progress
  <2>7. jobs[k].progress <= p
    <3>1. r.rec.progress \in 0..100
      BY <2>1 DEF Job
    <3>2. jobs[k].progress <= r.rec.progress
          /\ r.rec.progress <= Progress(r.rec, r.i, r.left)
      BY <2>1
    <3>3. Progress(r.rec, r.i, r.left) <= p
      BY <2>2
    <3> QED BY <1>3, <2>3, <3>1, <3>2, <3>3, InOrder
  <2>8. jobs[k].progress <= jobs'[k].progress /\ jobs'[k].progress <= p
    BY <1>1, <2>1, <2>4, <2>7, WriteAdvances
  <2> QED BY <2>3, <2>4, <2>5, <2>6, <2>8 DEF Trails
<1>6. CASE Visit(k)
  <2>1. PICK t \in r.left : Goes(k, [r EXCEPT !.pc = "scan", !.at = {t}])
    BY <1>6 DEF Visit
  <2> DEFINE s == [r EXCEPT !.pc = "scan", !.at = {t}]
  <2>2. /\ r.pc = "pick" /\ Write(k, r.rec) /\ r.rec \in Job
        /\ jobs[k].progress <= r.rec.progress
        /\ r.i <= NAdapters => r.rec.progress <= Progress(r.rec, r.i, r.left)
    BY <1>1, <1>6 DEF Visit, Fits, Trails
  <2>3. run'[k] = s /\ s.pc = "scan" /\ s.rec = r.rec /\ s.i = r.i /\ s.left = r.left
    BY <1>1, <1>2, <2>1 DEF Run
  <2> HIDE DEF s
  <2>4. jobs[k].progress <= jobs'[k].progress /\ jobs'[k].progress <= r.rec.progress
    BY <1>1, <2>2, WriteAdvances
  <2> QED BY <2>2, <2>3, <2>4 DEF Trails
<1>7. CASE AdapterReturns(k)
  <2>1. PICK fs \in SUBSET FindingIds, failed \in BOOLEAN :
        LET j == Recorded(r.rec, Scanned(r, failed),
                          Progress(r.rec, r.i, r.left \ r.at)) IN
        /\ Write(k, j)
        /\ Goes(k, AfterTarget([r EXCEPT
                !.rec = j, !.found = @ \cup fs,
                !.per = [t \in Targets |->
                            IF t \in r.at THEN @[t] + Cardinality(fs) ELSE @[t]]]))
    BY <1>7 DEF AdapterReturns
  <2> DEFINE a == Scanned(r, failed)
             p == Progress(r.rec, r.i, r.left \ r.at)
             j == Recorded(r.rec, a, p)
             per == [t \in Targets |->
                        IF t \in r.at THEN r.per[t] + Cardinality(fs) ELSE r.per[t]]
             q == [r EXCEPT !.rec = j, !.found = @ \cup fs, !.per = per]
             s == AfterTarget(q)
  <2>2. /\ r.pc = "scan" /\ r.i \in 1..NAdapters /\ r.rec \in Job /\ Accepted(r.rec) # {}
        /\ jobs[k].progress <= r.rec.progress
        /\ r.rec.progress <= Progress(r.rec, r.i, r.left)
        /\ r.at \in SUBSET Targets /\ r.left \in SUBSET Targets
    BY <1>1, <1>7, CapAssumption DEF AdapterReturns, Fits, Run, Trails
  <2>3. Write(k, j) /\ run'[k] = s
    BY <1>2, <2>1
  <2>4. /\ Progress(r.rec, r.i, r.left) <= p
        /\ Progress(r.rec, r.i, {}) = Progress(r.rec, r.i + 1, Accepted(r.rec))
    BY <2>2, ProgressGrows
  <2>5. Progress(r.rec, r.i, r.left) \in 0..99 /\ p \in 0..99 /\ a \in AdapterRun
    BY <2>2, ProgressBelow DEF Scanned, AdapterRun
  <2>6. r.left \ r.at = {} => p = Progress(r.rec, r.i + 1, Accepted(r.rec))
    BY <2>4
  <2>7. p = Progress(r.rec, r.i, r.left \ r.at)
    OBVIOUS
  <2> HIDE DEF a, p
  <2>8. j \in Job /\ j.progress = p /\ j.targets = r.rec.targets
    <3>1. j \in Job /\ j.targets = r.rec.targets
      BY <2>2, <2>5, RunRecorded
    <3>2. j.progress = p
      BY <2>2 DEF Recorded, Job
    <3> QED BY <3>1, <3>2
  <2> HIDE DEF j, per
  <2>9. q \in [pc : {r.pc}, rec : {j}, i : {r.i}, left : {r.left}, at : {r.at},
               found : {r.found \cup fs}, per : {per}]
    BY <1>1 DEF Run
  <2> HIDE DEF q
  <2>10. /\ s.pc = "pick" /\ s.rec = j
         /\ \/ s.i = r.i /\ s.left = r.left \ r.at
            \/ s.i = r.i + 1 /\ s.left = Accepted(j) /\ r.left \ r.at = {}
    BY <2>9 DEF AfterTarget
  <2> HIDE DEF s
  <2>11. Accepted(j) = Accepted(r.rec)
    BY <2>8, SameTargets
  <2>12. Progress(j, s.i, s.left) = p
    BY <2>6, <2>7, <2>10, <2>11 DEF Progress
  <2>13. jobs[k].progress <= p
    <3>1. r.rec.progress \in 0..100
      BY <2>2 DEF Job
    <3> QED BY <1>3, <2>2, <2>4, <2>5, <3>1, InOrder
  <2>14. jobs[k].progress <= jobs'[k].progress /\ jobs'[k].progress <= p
    BY <1>1, <2>3, <2>8, <2>13, WriteAdvances
  <2> QED BY <2>3, <2>5, <2>8, <2>10, <2>12, <2>14 DEF Trails
<1>8. CASE Correlate(k)
  <2> DEFINE s == [r EXCEPT !.pc = "store"]
  <2>1. /\ r.pc = "pick" /\ Write(k, r.rec) /\ Goes(k, s) /\ r.rec \in Job
        /\ jobs[k].progress <= r.rec.progress
    BY <1>1, <1>8 DEF Correlate, Fits, Trails
  <2>2. run'[k] = s /\ s.pc = "store"
    BY <1>1, <1>2, <2>1 DEF Run
  <2> HIDE DEF s
  <2> QED BY <1>1, <2>1, <2>2, WriteAdvances DEF Trails
<1>9. CASE StoreFindings(k)
  <2>1. jobs' = jobs /\ \E f : Goes(k, [r EXCEPT !.pc = "finish", !.rec = f])
    BY <1>9 DEF StoreFindings
  <2>2. run'[k].pc = "finish"
    BY <1>1, <1>2, <2>1 DEF Run
  <2> QED BY <1>3, <2>1, <2>2 DEF Trails
<1>10. CASE Finish(k)
  <2>1. /\ r.pc = "finish" /\ Write(k, r.rec) /\ r.rec \in Job /\ r.rec.progress = 100
        /\ Goes(k, [r EXCEPT !.pc = "after"]) \/ Goes(k, Gone)
    BY <1>1, <1>10 DEF Finish, Fits
  <2>2. run'[k].pc \in {"after", "gone"}
    BY <1>1, <1>2, <2>1 DEF Run, Gone
  <2>3. jobs[k].progress <= jobs'[k].progress
    <3>1. jobs[k].progress <= r.rec.progress
      BY <1>3, <2>1
    <3> QED BY <1>1, <2>1, <3>1, WriteAdvances
  <2> QED BY <2>2, <2>3 DEF Trails
<1>11. CASE AfterRun(k)
  <2> DEFINE j == [r.rec EXCEPT !.baseline = TRUE]
  <2>1. /\ r.rec \in Job /\ r.rec.progress = 100 /\ Goes(k, Gone)
        /\ Write(k, j) \/ jobs' = jobs
    BY <1>1, <1>11 DEF AfterRun, Fits
  <2>2. run'[k].pc = "gone"
    BY <1>2, <2>1 DEF Gone
  <2>3. j \in Job /\ j.progress = 100
    BY <2>1 DEF Job
  <2> HIDE DEF j
  <2>4. jobs[k].progress <= j.progress /\ jobs[k].progress <= jobs[k].progress
    BY <1>3, <2>3
  <2>5. jobs[k].progress <= jobs'[k].progress
    BY <1>1, <2>1, <2>3, <2>4, WriteAdvances
  <2> QED BY <2>2, <2>5 DEF Trails
<1> QED BY <1>4, <1>5, <1>6, <1>7, <1>8, <1>9, <1>10, <1>11 DEF JobStep

\* Neither does any other step: a request adds a job that shows nothing yet.
LEMMA NextAdvances ==
    ASSUME Inv, Ahead, [Next]_vars
    PROVE  Ahead' /\ \A k \in DOMAIN jobs : jobs[k].progress <= jobs'[k].progress
<1>0. jobs \in Seq(Job) /\ run \in [JobIds -> Run] /\ DOMAIN jobs \subseteq JobIds
      /\ \A k \in DOMAIN jobs : jobs[k].progress \in Int
  <2>1. jobs \in Seq(Job) /\ run \in [JobIds -> Run] /\ DOMAIN jobs \subseteq JobIds
    BY CapAssumption DEF Inv, TypeOK, JobIds
  <2>2. \A j \in Job : j.progress \in Int
    BY DEF Job
  <2> QED BY <2>1, <2>2
<1>1. CASE UNCHANGED vars
  BY <1>0, <1>1 DEF vars, Ahead
<1>2. CASE Stop
  <2>1. jobs' = jobs /\ \A k \in JobIds : run'[k].pc = "gone"
    BY <1>2 DEF Stop, Gone
  <2> QED BY <1>0, <2>1 DEF Ahead, Trails
<1>3. ASSUME NEW k \in JobIds, JobStep(k)
      PROVE  Ahead' /\ \A m \in DOMAIN jobs : jobs[m].progress <= jobs'[m].progress
  <2>1. /\ k \in DOMAIN jobs /\ DOMAIN jobs' = DOMAIN jobs
        /\ \A m \in DOMAIN jobs : m # k => jobs'[m] = jobs[m]
    BY <1>3, OwnJobOnly
  <2>2. \A m \in JobIds : m # k => run'[m] = run[m]
    BY <1>0, <1>3 DEF JobStep, RunStart, SkipAdapter, Visit, AdapterReturns, Correlate,
                      StoreFindings, Finish, AfterRun, Goes
  <2>3. jobs[k].progress <= jobs'[k].progress /\ Trails(run'[k], jobs'[k].progress)
    BY <1>3, JobAdvances
  <2> QED BY <1>0, <2>1, <2>2, <2>3 DEF Ahead
<1>4. ASSUME NEW c \in Callers, SubmitStep(c)
      PROVE  Ahead' /\ \A m \in DOMAIN jobs : jobs[m].progress <= jobs'[m].progress
  <2> DEFINE n == Len(jobs) + 1
  <2>1. /\ DOMAIN jobs \subseteq DOMAIN jobs' /\ DOMAIN jobs' \subseteq DOMAIN jobs \cup {n}
        /\ \A m \in DOMAIN jobs : jobs'[m] = jobs[m]
    BY <1>4, SubmitAppends
  <2>2. \A m \in DOMAIN jobs : run'[m] = run[m]
    BY <1>0, <1>4 DEF SubmitStep, Request, CountActive, CreateJob
  <2>3. ASSUME n \in DOMAIN jobs' PROVE Trails(run'[n], jobs'[n].progress)
    <3>1. n \notin DOMAIN jobs /\ jobs' # jobs
      BY <1>0, <2>3
    <3>2. PICK v \in Verdicts(caller[c].asked) :
            /\ jobs' = Append(jobs, NewJob(IF v[1] = {} THEN "refused" ELSE "queued", v[1], v[2]))
            /\ run' = IF v[1] = {} THEN run
                      ELSE [run EXCEPT ![n] = [Gone EXCEPT !.pc = "start"]]
            /\ Len(jobs) < MaxJobs
      BY <1>4, <3>1 DEF SubmitStep, Request, CountActive, CreateJob
    <3>3. n \in JobIds /\ run[n].pc = "gone"
      BY <1>0, <3>1, <3>2, CapAssumption DEF JobIds, Inv, Alive
    <3>4. CASE v[1] = {}
      BY <3>2, <3>3, <3>4 DEF Trails
    <3>5. CASE v[1] # {}
      <4>1. run'[n].pc = "start" /\ run'[n].i = 1
        BY <1>0, <3>2, <3>3, <3>5 DEF Gone
      <4>2. jobs'[n].progress = 0
        BY <1>0, <3>2, <3>5 DEF NewJob
      <4> QED BY <4>1, <4>2 DEF Trails
    <3> QED BY <3>4, <3>5
  <2> QED BY <1>0, <2>1, <2>2, <2>3 DEF Ahead
<1> QED BY <1>1, <1>2, <1>3, <1>4 DEF Next

\* The figure a console shows for a job never goes back: not when a write is
\* lost, not from one adapter to the next and not when the process stops, for
\* any number of adapters and targets.
THEOREM ProgressAlwaysAdvances == Spec => ProgressAdvances
<1>1. Init => Ahead
  BY DEF Init, Ahead
<1>2. Inv /\ Ahead /\ [Next]_vars
        => Ahead' /\ [\A k \in DOMAIN jobs : jobs[k].progress <= jobs'[k].progress]_vars
  BY NextAdvances
<1>3. Spec => []Inv
  BY InvInit, InvNext, PTL DEF Spec
<1> QED BY <1>1, <1>2, <1>3, PTL DEF Spec, ProgressAdvances
=============================================================================
