---------------------------- MODULE Ledger_proofs ----------------------------
(* The SIEM's view of one assessment agrees with its last run on record, as  *)
(* long as runs follow one another: for any number of runs, sinks, findings  *)
(* and faults.                                                               *)
EXTENDS Evidence_proofs

-----------------------------------------------------------------------------
(* One finding                                                               *)

\* What a receiver holds of a finding does not understate it.
Right(holds, is) ==
    IF is = NoFinding THEN holds = "closed"
    ELSE SeverityRank(holds) >= SeverityRank(is.sev)

\* A receiver is up to date with run b, but for what went astray.
Follows(s, b) ==
    \A id \in Ids : id \in astray[s] \/ Right(open[s][id], BaselineFindings(b)[id])

\* LedgerFollows is about every sink and the run it should know.
LEMMA LedgerIs ==
    LedgerFollows <=> (~overlapped => \A s \in Sinks : Follows(s, Current(s)))
BY DEF LedgerFollows, Follows, Right

\* Receivers hold severities, which are ranked, and closed findings, which rank below.
LEMMA HeldRank ==
    ASSUME NEW holds \in Severities \cup {"closed"} PROVE SeverityRank(holds) \in 0..5
BY DEF Severities, SeverityRank

\* A run's entry for a finding is the change since its baseline.
LEMMA EntryIs ==
    ASSUME Inv, NEW k \in RunIds, NEW b \in 0..MaxRuns
    PROVE  /\ stored[k] \in Found /\ BaselineFindings(b) \in Found
           /\ b = 0 => \A id \in Ids : BaselineFindings(b)[id] = NoFinding
           /\ DOMAIN EntriesOf(k, b) =
                  {id \in Ids : BaselineFindings(b)[id] # NoFinding \/ stored[k][id] # NoFinding}
           /\ b # 0 => \A id \in DOMAIN EntriesOf(k, b) :
                  EntriesOf(k, b)[id] = Change(BaselineFindings(b)[id], stored[k][id])
<1>1. stored[k] \in Found /\ BaselineFindings(b) \in Found
  BY DEF Inv, TypeOK, BaselineFindings, RunIds, Nothing, Found
<1>2. b = 0 => \A id \in Ids : BaselineFindings(b)[id] = NoFinding
  BY DEF BaselineFindings, Nothing
<1>3. CASE b = 0
  BY <1>1, <1>2, <1>3 DEF EntriesOf, Compare, Reported, Found
<1>4. CASE b # 0
  BY <1>1, <1>4 DEF EntriesOf, Compare, Reported, Found
<1> QED BY <1>1, <1>2, <1>3, <1>4

\* Where a run has nothing to tell, what was right of its baseline is right of it.
LEMMA Carries ==
    ASSUME Inv, NEW k \in RunIds, NEW b \in 0..MaxRuns, NEW id \in Ids,
           id \notin Transitions(k, b), NEW holds \in Severities \cup {"closed"},
           Right(holds, BaselineFindings(b)[id])
    PROVE  Right(holds, stored[k][id])
<1> DEFINE was == BaselineFindings(b)[id]
           is == stored[k][id]
<1>1. /\ was \in Finding \cup {NoFinding} /\ is \in Finding \cup {NoFinding}
      /\ b = 0 => was = NoFinding
      /\ id \in DOMAIN EntriesOf(k, b) <=> (was # NoFinding \/ is # NoFinding)
      /\ b # 0 /\ id \in DOMAIN EntriesOf(k, b) => EntriesOf(k, b)[id] = Change(was, is)
  <2>1. /\ stored[k] \in Found /\ BaselineFindings(b) \in Found
        /\ b = 0 => BaselineFindings(b)[id] = NoFinding
    BY EntryIs
  <2>2. id \in DOMAIN EntriesOf(k, b) <=> (was # NoFinding \/ is # NoFinding)
    <3>1. DOMAIN EntriesOf(k, b) =
             {i \in Ids : BaselineFindings(b)[i] # NoFinding \/ stored[k][i] # NoFinding}
      BY EntryIs
    <3> QED BY <3>1
  <2>3. b # 0 /\ id \in DOMAIN EntriesOf(k, b) => EntriesOf(k, b)[id] = Change(was, is)
    BY EntryIs
  <2> QED BY <2>1, <2>2, <2>3 DEF Found
<1>2. id \in DOMAIN EntriesOf(k, b) => Event(b # 0, EntriesOf(k, b)[id]) = "none"
  BY DEF Transitions
<1> HIDE DEF was, is
<1>3. CASE is = NoFinding /\ was = NoFinding
  BY <1>3 DEF Right, was, is
<1>4. CASE is # NoFinding \/ was # NoFinding
  <2>1. b # 0 /\ EntriesOf(k, b)[id] \notin {"new", "regressed", "resolved"}
    BY <1>1, <1>2, <1>4 DEF Event
  <2>2. Change(was, is) \notin {"new", "regressed", "resolved"}
    BY <1>1, <1>4, <2>1
  <2>3. /\ was # NoFinding /\ is # NoFinding
        /\ ~(SeverityRank(is.sev) > SeverityRank(was.sev))
    BY <2>2 DEF Change
  <2>4. SeverityRank(is.sev) \in 1..5 /\ SeverityRank(was.sev) \in 1..5
    BY <1>1, <2>3, Ranks DEF Finding
  <2>5. SeverityRank(holds) >= SeverityRank(was.sev)
    BY <2>3 DEF Right, was
  <2> QED BY <2>3, <2>4, <2>5, HeldRank DEF Right, is
<1> QED BY <1>3, <1>4

\* Where it has something to tell, what it tells is right of it.
LEMMA ToldRight ==
    ASSUME Inv, NEW s \in Sinks, NEW k \in RunIds, NEW b \in 0..MaxRuns,
           NEW id \in Transitions(k, b)
    PROVE  Right(Told(s, k, b)[id], stored[k][id])
<1>1. id \in Ids /\ id \in DOMAIN EntriesOf(k, b)
      /\ Event(b # 0, EntriesOf(k, b)[id]) # "none"
  BY TransitionsAre DEF Transitions
<1>2. CASE Event(b # 0, EntriesOf(k, b)[id]) = "opened"
  <2>1. Told(s, k, b)[id] = stored[k][id].sev
    BY <1>1, <1>2 DEF Told
  <2>2. stored[k][id] \in Finding
    BY <1>2, OpenedIsFound
  <2>3. SeverityRank(stored[k][id].sev) \in 1..5
    BY <2>2, Ranks DEF Finding
  <2> QED BY <2>1, <2>2, <2>3, NoFindingAssumption DEF Right
<1>3. CASE Event(b # 0, EntriesOf(k, b)[id]) # "opened"
  <2>1. Told(s, k, b)[id] = "closed"
    BY <1>1, <1>3 DEF Told
  <2>2. b # 0 /\ EntriesOf(k, b)[id] = "resolved"
    BY <1>1, <1>3 DEF Event
  <2>3. Change(BaselineFindings(b)[id], stored[k][id]) = "resolved"
    BY <1>1, <2>2, EntryIs
  <2>4. stored[k][id] = NoFinding
    BY <2>3 DEF Change
  <2> QED BY <2>1, <2>4 DEF Right
<1> QED BY <1>2, <1>3

\* The events of a run leave the rest of what a receiver holds.
LEMMA UntoldStays ==
    ASSUME NEW s, NEW k, NEW b, NEW id \in Ids, id \notin Transitions(k, b)
    PROVE  Told(s, k, b)[id] = open[s][id]
BY DEF Told

-----------------------------------------------------------------------------
(* The inductive invariant                                                   *)

\* As long as runs follow one another, the one under way is the last,
OneAtATime == \A k \in RunIds : run[k].pc # "gone" => k = Len(jobs)

\* was compared with the last completed run before it,
ComparedWithLast == \A k \in RunIds : run[k].pc = "export" => run[k].base = LastCompleted(k)

\* and if it is not on record, has left astray what it has told.
UnrecordedAstray ==
    \A k \in RunIds, s \in Sinks :
        run[k].pc = "export" /\ ~run[k].recorded /\ s \notin run[k].to
            => Transitions(k, run[k].base) \subseteq astray[s]

\* A run knows whether its outcome is on record.
RecordedKnown ==
    \A k \in RunIds : run[k].pc \in {"compare", "export"} =>
        (run[k].recorded <=> k \in Completed)

LedgerInv ==
    /\ RecordedKnown
    /\ ~overlapped => /\ OneAtATime /\ ComparedWithLast /\ UnrecordedAstray
                      /\ \A s \in Sinks : Follows(s, Current(s))

\* At first nobody holds anything.
LEMMA LedgerInit == Init => LedgerInv
<1> SUFFICES ASSUME Init PROVE LedgerInv
  OBVIOUS
<1>1. \A k \in RunIds : run[k].pc = "gone"
  BY DEF Init, Gone
<1>2. Completed = {}
  BY DEF Init, Completed
<1>3. ASSUME NEW s \in Sinks PROVE Follows(s, Current(s))
  <2>1. Current(s) = 0
    BY <1>2 DEF Current, Latest
  <2> QED BY <2>1 DEF Init, Follows, BaselineFindings, Nothing, Right
<1> QED BY <1>1, <1>3
       DEF LedgerInv, RecordedKnown, OneAtATime, ComparedWithLast, UnrecordedAstray

\* The run under way, if runs follow one another.
Alone(k) ==
    /\ run[k].pc # "gone" /\ k = Len(jobs)
    /\ \A m \in RunIds : m # k => run[m].pc = "gone"
    /\ \A m \in Completed : m <= k

\* It is the only one.
LEMMA IsAlone ==
    ASSUME Inv, LedgerInv, ~overlapped, NEW k \in RunIds, run[k].pc # "gone"
    PROVE  Alone(k)
<1>1. k = Len(jobs) /\ \A m \in RunIds : run[m].pc # "gone" => m = k
  BY DEF LedgerInv, OneAtATime
<1>2. \A m \in Completed : m <= k
  BY <1>1, JobsAre
<1> QED BY <1>1, <1>2 DEF Alone

\* What receivers should know while only run k is under way: what was known
\* before it until its events were sent.
LEMMA CurrentIs ==
    ASSUME NEW s, NEW k \in RunIds, \A m \in RunIds : m # k => run[m].pc = "gone",
           Completed \subseteq RunIds
    PROVE  Current(s) = IF Behind(s, k) THEN LastCompleted(k) ELSE Latest(Completed)
<1>1. \A m \in Completed : Behind(s, m) => m = k
  BY DEF Behind
<1>2. CASE Behind(s, k)
  <2>1. Completed \ {m \in Completed : Behind(s, m)} = Completed \ {k}
    BY <1>1, <1>2
  <2> QED BY <1>2, <2>1 DEF Current, LastCompleted
<1>3. CASE ~Behind(s, k)
  <2>1. Completed \ {m \in Completed : Behind(s, m)} = Completed
    BY <1>1, <1>3
  <2> QED BY <1>3, <2>1 DEF Current
<1> QED BY <1>2, <1>3

\* The same of the state a step leads to.
LEMMA CurrentNext ==
    ASSUME NEW s, NEW k \in RunIds, \A m \in RunIds : m # k => run'[m].pc = "gone",
           Completed' \subseteq RunIds
    PROVE  Current(s)' = IF Behind(s, k)' THEN LastCompleted(k)' ELSE Latest(Completed')
<1>1. \A m \in Completed' : Behind(s, m)' => m = k
  BY DEF Behind
<1>2. CASE Behind(s, k)'
  <2>1. Completed' \ {m \in Completed' : Behind(s, m)'} = Completed' \ {k}
    BY <1>1, <1>2
  <2> QED BY <1>2, <2>1 DEF Current, LastCompleted
<1>3. CASE ~Behind(s, k)'
  <2>1. Completed' \ {m \in Completed' : Behind(s, m)'} = Completed'
    BY <1>1, <1>3
  <2> QED BY <1>3, <2>1 DEF Current
<1> QED BY <1>2, <1>3

\* The last of all runs, once on record, is the latest.
LEMMA LastIsLatest ==
    ASSUME NEW S \in SUBSET RunIds, NEW k \in S, \A m \in S : m <= k
    PROVE  Latest(S) = k
<1>1. Latest(S) \in S /\ \A m \in S : m <= Latest(S)
  BY LatestIsOne
<1>2. k <= Latest(S) /\ Latest(S) <= k
  BY <1>1
<1>3. k \in RunIds /\ Latest(S) \in RunIds
  BY <1>1
<1> QED BY <1>2, <1>3, BoundAssumption DEF RunIds

\* Runs a receiver may be up to date with.
LEMMA CurrentType ==
    ASSUME Inv, NEW s
    PROVE  Current(s) \in {0} \cup Completed /\ Current(s) \in 0..MaxRuns
<1> DEFINE S == Completed \ {k \in Completed : Behind(s, k)}
<1>1. S \in SUBSET RunIds
  BY JobsAre
<1>2. Current(s) = Latest(S)
  BY DEF Current
<1> HIDE DEF S
<1>3. Latest(S) \in {0} \cup S
  BY <1>1, LatestIsOne
<1>4. S \subseteq Completed
  BY DEF S
<1>5. Current(s) \in {0} \cup Completed
  BY <1>2, <1>3, <1>4
<1> QED BY <1>5, JobsAre, BoundAssumption DEF RunIds

\* So are the runs another is compared with.
LEMMA LastCompletedType ==
    ASSUME Inv, NEW k
    PROVE  LastCompleted(k) \in {0} \cup Completed /\ LastCompleted(k) \in 0..MaxRuns
<1>1. Completed \ {k} \in SUBSET RunIds
  BY JobsAre
<1>2. LastCompleted(k) \in {0} \cup (Completed \ {k})
  BY <1>1, LatestIsOne DEF LastCompleted
<1> QED BY <1>1, <1>2, BoundAssumption DEF RunIds

\* A step that tells nobody anything and moves no receiver's run.
LEMMA StillFollows ==
    ASSUME Inv, NEW s \in Sinks, Follows(s, Current(s)),
           open'[s] = open[s], astray[s] \subseteq astray'[s],
           Current(s)' = Current(s), \A m \in Completed : stored'[m] = stored[m]
    PROVE  Follows(s, Current(s))'
<1>1. BaselineFindings(Current(s))' = BaselineFindings(Current(s))
  BY CurrentType DEF BaselineFindings
<1> QED BY <1>1 DEF Follows

-----------------------------------------------------------------------------
(* Steps                                                                     *)

\* A run begins when none is under way, or runs no longer follow one another.
LEMMA LedgerBegin == Inv /\ LedgerInv /\ Inv' /\ Begin => LedgerInv'
<1> SUFFICES ASSUME Inv, LedgerInv, Inv', Begin PROVE LedgerInv'
  OBVIOUS
<1> DEFINE j == [state |-> "running", base |-> 0]
<1>0. PICK k : k = Len(jobs) + 1
  OBVIOUS
<1>1. PICK r : Goes(k, r) /\ r.pc = "correlate"
  <2>1. PICK reports \in SUBSET Reports :
            Goes(k, [Gone EXCEPT !.pc = "correlate", !.reports = reports,
                                 !.pending = reports])
    BY <1>0 DEF Begin
  <2> DEFINE q == [Gone EXCEPT !.pc = "correlate", !.reports = reports, !.pending = reports]
  <2>2. q.pc = "correlate"
    BY DEF Gone
  <2> QED BY <2>1, <2>2
<1>2. /\ jobs' = Append(jobs, j) /\ Len(jobs) < MaxRuns
      /\ UNCHANGED <<stored, open, notice, faults, astray>>
      /\ overlapped' = (overlapped \/ UnderWay # {})
  BY DEF Begin
<1>3. j \in Job /\ j.state = "running"
  BY BoundAssumption DEF Job
<1> HIDE DEF j
<1>4. /\ k \in RunIds /\ k \notin DOMAIN jobs /\ Len(jobs') = k
      /\ DOMAIN jobs' = DOMAIN jobs \cup {k} /\ jobs'[k] = j
      /\ \A m \in DOMAIN jobs : jobs'[m] = jobs[m]
  BY <1>0, <1>2, <1>3, JobsAre, BoundAssumption DEF RunIds
<1>5. Completed' = Completed
  BY <1>3, <1>4 DEF Completed
<1>6. /\ run'[k].pc = "correlate" /\ \A m \in RunIds : m # k => run'[m] = run[m]
  BY <1>1, <1>4 DEF Goes, Inv, TypeOK
<1>7. RecordedKnown'
  BY <1>5, <1>6 DEF LedgerInv, RecordedKnown
<1>8. ASSUME ~overlapped'
      PROVE  /\ OneAtATime' /\ ComparedWithLast' /\ UnrecordedAstray'
             /\ \A s \in Sinks : Follows(s, Current(s))'
  <2>1. ~overlapped /\ \A m \in RunIds : run[m].pc = "gone"
    BY <1>2, <1>8 DEF Inv, TypeOK, UnderWay
  <2>2. OneAtATime' /\ ComparedWithLast' /\ UnrecordedAstray'
    BY <1>4, <1>6, <2>1 DEF OneAtATime, ComparedWithLast, UnrecordedAstray
  <2>3. ASSUME NEW s \in Sinks PROVE Follows(s, Current(s))'
    <3>1. ~Behind(s, k) /\ ~Behind(s, k)'
      BY <1>4, <1>6, <2>1 DEF Behind
    <3>2. Current(s) = Latest(Completed)
      BY <1>4, <2>1, <3>1, CurrentIs, JobsAre
    <3>3. Current(s)' = Latest(Completed')
      BY <1>4, <1>5, <1>6, <2>1, <3>1, CurrentNext, JobsAre
    <3> QED BY <1>2, <1>5, <2>1, <3>2, <3>3, StillFollows DEF LedgerInv
  <2> QED BY <2>2, <2>3
<1> QED BY <1>7, <1>8 DEF LedgerInv

\* Before its comparison and after its export a run tells nobody anything.
LEMMA QuietStep ==
    ASSUME Inv, LedgerInv, Inv', NEW k \in RunIds, NEW r, Goes(k, r),
           run[k].pc \in {"correlate", "finish", "notify"},
           r.pc \in {"gone", "correlate", "finish", "compare"},
           r.pc = "compare" => (r.recorded <=> k \in Completed'),
           k \in Completed' => k \in Completed \/ r.pc = "compare",
           Len(jobs') = Len(jobs), \A m \in RunIds \ {k} : m \in Completed' <=> m \in Completed,
           r.pc = "compare" => k \notin Completed, Completed \subseteq Completed',
           \A m \in Completed : stored'[m] = stored[m],
           UNCHANGED <<open, astray, overlapped>>
    PROVE  LedgerInv'
<1>1. run'[k] = r /\ \A m \in RunIds : m # k => run'[m] = run[m]
  BY DEF Goes, Inv, TypeOK
<1>2. RecordedKnown'
  BY <1>1 DEF LedgerInv, RecordedKnown
<1>3. Completed \subseteq RunIds /\ Completed' \subseteq RunIds
  BY JobsAre DEF Inv, TypeOK, Completed, RunIds
<1>4. ASSUME ~overlapped'
      PROVE  /\ OneAtATime' /\ ComparedWithLast' /\ UnrecordedAstray'
             /\ \A s \in Sinks : Follows(s, Current(s))'
  <2>1. Alone(k)
    BY <1>4, IsAlone
  <2>2. \A m \in RunIds : m # k => run'[m].pc = "gone" /\ run[m].pc = "gone"
    BY <1>1, <2>1 DEF Alone
  <2>3. OneAtATime' /\ ComparedWithLast' /\ UnrecordedAstray'
    BY <1>1, <2>1, <2>2 DEF Alone, OneAtATime, ComparedWithLast, UnrecordedAstray
  <2>4. ASSUME NEW s \in Sinks PROVE Follows(s, Current(s))'
    <3>1. ~Behind(s, k)
      BY DEF Behind
    <3>2. Current(s) = Latest(Completed)
      BY <1>3, <2>2, <3>1, CurrentIs
    <3>3. Current(s)' = Latest(Completed)
      <4>1. CASE r.pc = "compare" /\ r.recorded
        <5>1. Behind(s, k)' /\ Completed' \ {k} = Completed
          BY <1>1, <1>3, <4>1 DEF Behind
        <5>2. Current(s)' = LastCompleted(k)'
          BY <1>3, <2>2, <5>1, CurrentNext
        <5>3. LastCompleted(k)' = Latest(Completed' \ {k})
          BY DEF LastCompleted
        <5> QED BY <5>1, <5>2, <5>3
      <4>2. CASE ~(r.pc = "compare" /\ r.recorded)
        <5>1. ~Behind(s, k)' /\ Completed' = Completed
          BY <1>1, <1>3, <4>2 DEF Behind
        <5> QED BY <1>3, <2>2, <5>1, CurrentNext
      <4> QED BY <4>1, <4>2
    <3> QED BY <1>4, <3>2, <3>3, StillFollows DEF LedgerInv
  <2> QED BY <2>3, <2>4
<1> QED BY <1>2, <1>4 DEF LedgerInv

\* A report is folded in, or the findings stored.
LEMMA LedgerScan ==
    ASSUME Inv, LedgerInv, Inv', NEW k \in RunIds, Correlate(k) \/ StoreFindings(k)
    PROVE  LedgerInv'
<1>1. PICK r : Goes(k, r) /\ r.pc \in {"correlate", "finish"}
  <2>1. CASE Correlate(k)
    <3>1. PICK p \in run[k].pending :
            Goes(k, [run[k] EXCEPT !.pending = @ \ {p}, !.found[p.id] =
                         IF run[k].found[p.id] = NoFinding THEN p.finding
                         ELSE Merge(run[k].found[p.id], p.finding)])
      BY <2>1 DEF Correlate
    <3> DEFINE q == [run[k] EXCEPT !.pending = @ \ {p}, !.found[p.id] =
                         IF run[k].found[p.id] = NoFinding THEN p.finding
                         ELSE Merge(run[k].found[p.id], p.finding)]
    <3>2. q.pc = "correlate"
      BY <2>1 DEF Correlate, Inv, TypeOK, Run
    <3> QED BY <3>1, <3>2
  <2>2. CASE StoreFindings(k)
    <3>1. PICK state \in {"completed", "failed"} :
            Goes(k, [run[k] EXCEPT !.pc = "finish", !.state = state])
      BY <2>2 DEF StoreFindings
    <3> DEFINE q == [run[k] EXCEPT !.pc = "finish", !.state = state]
    <3>2. q.pc = "finish"
      BY DEF Inv, TypeOK, Run
    <3> QED BY <3>1, <3>2
  <2> QED BY <2>1, <2>2
<1>2. /\ run[k].pc = "correlate" /\ UNCHANGED <<jobs, open, astray, overlapped>>
      /\ stored' = stored \/ stored' = [stored EXCEPT ![k] = run[k].found]
  BY DEF Correlate, StoreFindings
<1>3. k \notin Completed /\ Completed' = Completed /\ Completed \subseteq RunIds
  BY <1>2, JobsAre DEF Inv, OnRecord, Completed
<1>4. \A m \in Completed : stored'[m] = stored[m]
  BY <1>2, <1>3 DEF Inv, TypeOK
<1> QED BY <1>1, <1>2, <1>3, <1>4, QuietStep

\* The outcome is written, or not.
LEMMA LedgerFinish ==
    ASSUME Inv, LedgerInv, Inv', NEW k \in RunIds, Finish(k) PROVE LedgerInv'
<1> DEFINE r == run[k]
<1>1. PICK ok \in BOOLEAN :
          /\ IF ok THEN jobs' = [jobs EXCEPT ![k].state = r.state] /\ UNCHANGED faults
             ELSE Fault /\ UNCHANGED jobs
          /\ Goes(k, IF r.state = "completed" THEN [r EXCEPT !.pc = "compare", !.recorded = ok]
                     ELSE Gone)
  BY DEF Finish
<1>2. /\ r.pc = "finish" /\ r \in Run /\ k \in DOMAIN jobs /\ k \notin Completed
      /\ UNCHANGED <<stored, open, astray, overlapped>>
  BY DEF Finish, Inv, TypeOK, OnRecord
<1> DEFINE t == IF r.state = "completed" THEN [r EXCEPT !.pc = "compare", !.recorded = ok]
                ELSE Gone
<1>3. /\ r.state = "completed" => t.pc = "compare" /\ t.recorded = ok
      /\ r.state # "completed" => t.pc = "gone"
  BY <1>2 DEF Run, Gone
<1>4. Goes(k, t)
  BY <1>1
<1>5. /\ Len(jobs') = Len(jobs) /\ DOMAIN jobs' = DOMAIN jobs
      /\ \A m \in DOMAIN jobs : m # k => jobs'[m] = jobs[m]
      /\ jobs'[k].state = IF ok THEN r.state ELSE jobs[k].state
  BY <1>1, <1>2, JobsAre DEF Job
<1>6. /\ \A m \in RunIds \ {k} : m \in Completed' <=> m \in Completed
      /\ k \in Completed' <=> ok /\ r.state = "completed"
  BY <1>2, <1>5 DEF Completed
<1>7. Completed \subseteq Completed'
  BY <1>2, <1>6, JobsAre
<1> HIDE DEF t
<1> QED BY <1>2, <1>3, <1>4, <1>5, <1>6, <1>7, QuietStep

\* A person is told, and the run is over.
LEMMA LedgerNotify ==
    ASSUME Inv, LedgerInv, Inv', NEW k \in RunIds, Notify(k) PROVE LedgerInv'
<1>1. /\ run[k].pc = "notify" /\ Goes(k, Gone)
      /\ UNCHANGED <<jobs, stored, open, astray, overlapped>>
  BY DEF Notify
<1>2. Completed' = Completed /\ Gone.pc = "gone"
  BY <1>1 DEF Completed, Gone
<1> QED BY <1>1, <1>2, QuietStep

\* A receiver that followed the baseline follows the run, if what the run had
\* to tell went astray.
LEMMA CarriedOver ==
    ASSUME Inv, NEW s \in Sinks, NEW k \in RunIds, NEW b \in 0..MaxRuns, Follows(s, b),
           open'[s] = open[s], stored' = stored, astray[s] \subseteq astray'[s],
           Transitions(k, b) \subseteq astray'[s], Current(s)' = k
    PROVE  Follows(s, Current(s))'
<1>1. BaselineFindings(Current(s))' = stored[k]
  BY BoundAssumption DEF BaselineFindings, RunIds
<1>2. ASSUME NEW id \in Ids, id \notin astray'[s] PROVE Right(open[s][id], stored[k][id])
  <2>1. id \notin Transitions(k, b) /\ Right(open[s][id], BaselineFindings(b)[id])
    BY <1>2 DEF Follows
  <2>2. open[s][id] \in Severities \cup {"closed"}
    BY DEF Inv, TypeOK
  <2> QED BY <2>1, <2>2, Carries
<1> QED BY <1>1, <1>2 DEF Follows

\* A receiver that followed the baseline and is told follows the run.
LEMMA ToldOver ==
    ASSUME Inv, NEW s \in Sinks, NEW k \in RunIds, NEW b \in 0..MaxRuns, Follows(s, b),
           open'[s] = Told(s, k, b), stored' = stored,
           astray[s] \ Transitions(k, b) \subseteq astray'[s], Current(s)' = k
    PROVE  Follows(s, Current(s))'
<1>1. BaselineFindings(Current(s))' = stored[k]
  BY BoundAssumption DEF BaselineFindings, RunIds
<1>2. ASSUME NEW id \in Ids, id \notin astray'[s] PROVE Right(open'[s][id], stored[k][id])
  <2>1. CASE id \in Transitions(k, b)
    BY <2>1, ToldRight
  <2>2. CASE id \notin Transitions(k, b)
    <3>1. Right(open[s][id], BaselineFindings(b)[id])
      BY <1>2, <2>2 DEF Follows
    <3>2. open[s][id] \in Severities \cup {"closed"}
      BY DEF Inv, TypeOK
    <3>3. Right(open[s][id], stored[k][id])
      BY <2>2, <3>1, <3>2, Carries
    <3> QED BY <2>2, <3>3, UntoldStays
  <2> QED BY <2>1, <2>2
<1> QED BY <1>1, <1>2 DEF Follows

\* Until its events are sent, a receiver should know the run before.
LEMMA CurrentBefore ==
    ASSUME Inv, LedgerInv, NEW k \in RunIds, Alone(k), NEW s,
           run[k].pc = "compare" \/ (run[k].pc = "export" /\ s \in run[k].to)
    PROVE  Current(s) = LastCompleted(k)
<1>1. Current(s) = IF Behind(s, k) THEN LastCompleted(k) ELSE Latest(Completed)
  BY CurrentIs, JobsAre DEF Alone
<1>2. CASE ~Behind(s, k)
  <2>1. k \notin Completed
    BY <1>2 DEF Behind, LedgerInv, RecordedKnown
  <2>2. Completed \ {k} = Completed
    BY <2>1
  <2> QED BY <1>1, <1>2, <2>2 DEF LastCompleted
<1> QED BY <1>1, <1>2

\* A run is compared with the last one on record.
LEMMA LedgerCompare ==
    ASSUME Inv, LedgerInv, Inv', NEW k \in RunIds, CompareRun(k) PROVE LedgerInv'
<1>1. PICK b : b = LastCompleted(k)
  OBVIOUS
<1>2. PICK to : to = IF Transitions(k, b) = {} THEN {} ELSE Sinks
  OBVIOUS
<1>3. /\ run[k].pc = "compare" /\ run' = [run EXCEPT ![k] = [run[k] EXCEPT
             !.base = b, !.to = to, !.pc = "export"]]
      /\ UNCHANGED <<jobs, stored, open, astray, overlapped>>
  BY <1>1, <1>2 DEF CompareRun, Goes
<1>4. /\ run'[k].pc = "export" /\ run'[k].base = b /\ run'[k].to = to
      /\ run'[k].recorded = run[k].recorded
      /\ \A m \in RunIds : m # k => run'[m] = run[m]
  BY <1>3 DEF Inv, TypeOK, Run
<1>5. Completed' = Completed /\ Completed \subseteq RunIds
  BY <1>3, JobsAre DEF Completed
<1>6. RecordedKnown'
  BY <1>3, <1>4, <1>5 DEF LedgerInv, RecordedKnown
<1>7. LastCompleted(k)' = b /\ Transitions(k, b)' = Transitions(k, b) /\ b \in 0..MaxRuns
  BY <1>1, <1>3, <1>5, LastCompletedType
     DEF LastCompleted, Transitions, EntriesOf, BaselineFindings
<1>8. ASSUME ~overlapped'
      PROVE  /\ OneAtATime' /\ ComparedWithLast' /\ UnrecordedAstray'
             /\ \A s \in Sinks : Follows(s, Current(s))'
  <2>1. Alone(k)
    BY <1>3, <1>8, IsAlone
  <2>2. \A m \in RunIds : m # k => run'[m].pc = "gone"
    BY <1>4, <2>1 DEF Alone
  <2>3. OneAtATime' /\ ComparedWithLast'
    BY <1>3, <1>4, <1>7, <2>1, <2>2 DEF Alone, OneAtATime, ComparedWithLast
  <2>4. UnrecordedAstray'
    <3> SUFFICES ASSUME NEW m \in RunIds, NEW s \in Sinks,
                        run'[m].pc = "export" /\ ~run'[m].recorded /\ s \notin run'[m].to
                 PROVE  Transitions(m, run[m].base)' \subseteq astray'[s]
      BY DEF UnrecordedAstray
    <3>1. m = k /\ to = {}
      BY <1>2, <1>4, <2>2
    <3>2. Transitions(k, b)' = {}
      BY <1>2, <1>7, <3>1
    <3>3. Transitions(m, run[m].base)' = Transitions(k, b)'
      BY <1>4, <3>1
    <3> QED BY <3>2, <3>3
  <2>5. ASSUME NEW s \in Sinks PROVE Follows(s, Current(s))'
    <3>1. Current(s) = b /\ Follows(s, b)
      BY <1>1, <1>3, <1>8, <2>1, CurrentBefore DEF LedgerInv
    <3>2. CASE Behind(s, k)'
      <4>1. Current(s)' = b
        BY <1>5, <1>7, <2>2, <3>2, CurrentNext
      <4> QED BY <1>3, <1>8, <3>1, <4>1, StillFollows
    <3>3. CASE ~Behind(s, k)' /\ ~run[k].recorded
      <4>1. k \notin Completed
        BY <1>3, <3>3 DEF LedgerInv, RecordedKnown
      <4>2. Completed' = Completed \ {k}
        BY <1>5, <4>1
      <4>3. Current(s)' = b
        BY <1>1, <1>5, <2>2, <3>3, <4>2, CurrentNext DEF LastCompleted
      <4> QED BY <1>3, <1>8, <3>1, <4>3, StillFollows
    <3>4. CASE ~Behind(s, k)' /\ run[k].recorded
      <4>1. k \in Completed /\ Transitions(k, b) = {}
        BY <1>2, <1>3, <1>4, <3>4 DEF LedgerInv, RecordedKnown, Behind
      <4>2. Latest(Completed) = k
        BY <1>5, <2>1, <4>1, LastIsLatest DEF Alone
      <4>3. Current(s)' = k
        BY <1>5, <2>2, <3>4, <4>2, CurrentNext
      <4> QED BY <1>3, <1>7, <3>1, <4>1, <4>3, CarriedOver
    <3> QED BY <3>2, <3>3, <3>4
  <2> QED BY <2>3, <2>4, <2>5
<1> QED BY <1>6, <1>8 DEF LedgerInv

\* A receiver is told, or what there was to tell goes astray.
LEMMA LedgerSend ==
    ASSUME Inv, LedgerInv, Inv', NEW k \in RunIds, Send(k) PROVE LedgerInv'
<1>1. PICK b : b = run[k].base
  OBVIOUS
<1>2. PICK t \in run[k].to, arrives \in BOOLEAN :
        /\ IF arrives THEN open' = [open EXCEPT ![t] = Told(t, k, b)] ELSE UNCHANGED open
        /\ run' = [run EXCEPT ![k] = [run[k] EXCEPT !.to = @ \ {t}]]
        /\ astray' = [astray EXCEPT ![t] =
               IF arrives /\ run[k].recorded THEN astray[t] \ Transitions(k, b)
               ELSE astray[t] \cup Transitions(k, b)]
  BY <1>1 DEF Send, Goes
<1>3. run[k].pc = "export" /\ UNCHANGED <<jobs, stored, overlapped>>
  BY DEF Send
<1>4. t \in Sinks /\ b \in 0..MaxRuns
  BY <1>1, <1>2 DEF Inv, TypeOK, Run
<1>5. /\ run'[k].pc = "export" /\ run'[k].base = b /\ run'[k].to = run[k].to \ {t}
      /\ run'[k].recorded = run[k].recorded
      /\ \A m \in RunIds : m # k => run'[m] = run[m]
  BY <1>1, <1>2, <1>3 DEF Inv, TypeOK, Run
<1>6. \A s \in Sinks : s # t => open'[s] = open[s] /\ astray'[s] = astray[s]
  BY <1>2 DEF Inv, TypeOK
<1>7. astray'[t] = IF arrives /\ run[k].recorded THEN astray[t] \ Transitions(k, b)
                   ELSE astray[t] \cup Transitions(k, b)
  BY <1>2, <1>4 DEF Inv, TypeOK
<1>8. open'[t] = IF arrives THEN Told(t, k, b) ELSE open[t]
  BY <1>2, <1>4 DEF Inv, TypeOK
<1>9. Completed' = Completed /\ Completed \subseteq RunIds
  BY <1>3, JobsAre DEF Completed
<1>10. RecordedKnown'
  BY <1>3, <1>5, <1>9 DEF LedgerInv, RecordedKnown
<1>11. Transitions(k, b)' = Transitions(k, b)
  BY <1>3 DEF Transitions, EntriesOf, BaselineFindings
<1>12. ASSUME ~overlapped'
       PROVE  /\ OneAtATime' /\ ComparedWithLast' /\ UnrecordedAstray'
              /\ \A s \in Sinks : Follows(s, Current(s))'
  <2>1. Alone(k) /\ ~overlapped
    BY <1>3, <1>12, IsAlone
  <2>2. \A m \in RunIds : m # k => run'[m].pc = "gone" /\ run[m].pc = "gone"
    BY <1>5, <2>1 DEF Alone
  <2>3. b = LastCompleted(k) /\ LastCompleted(k)' = LastCompleted(k)
    BY <1>1, <1>3, <1>9, <2>1 DEF LedgerInv, ComparedWithLast, LastCompleted
  <2>4. OneAtATime' /\ ComparedWithLast'
    BY <1>3, <1>5, <2>1, <2>2, <2>3 DEF Alone, OneAtATime, ComparedWithLast
  <2>5. UnrecordedAstray'
    <3> SUFFICES ASSUME NEW m \in RunIds, NEW s \in Sinks,
                        run'[m].pc = "export" /\ ~run'[m].recorded /\ s \notin run'[m].to
                 PROVE  Transitions(m, run[m].base)' \subseteq astray'[s]
      BY DEF UnrecordedAstray
    <3>1. m = k /\ ~run[k].recorded
      BY <1>5, <2>2
    <3>2. Transitions(m, run[m].base)' = Transitions(k, b)
      BY <1>5, <1>11, <3>1
    <3>3. CASE s = t
      BY <1>7, <3>1, <3>2, <3>3
    <3>4. CASE s # t
      <4>1. s \notin run[k].to
        BY <1>5, <3>1, <3>4
      <4>2. Transitions(k, b) \subseteq astray[s]
        BY <1>1, <1>3, <2>1, <3>1, <4>1 DEF LedgerInv, UnrecordedAstray
      <4> QED BY <1>6, <3>2, <3>4, <4>2
    <3> QED BY <3>3, <3>4
  <2>6. ASSUME NEW s \in Sinks, s # t PROVE Follows(s, Current(s))'
    <3>1. Behind(s, k)' <=> Behind(s, k)
      BY <1>3, <1>5, <2>6 DEF Behind
    <3>2. Current(s)' = Current(s)
      BY <1>9, <2>2, <2>3, <3>1, CurrentIs, CurrentNext
    <3> QED BY <1>3, <1>6, <2>1, <2>6, <3>2, StillFollows DEF LedgerInv
  <2>7. Follows(t, Current(t))'
    <3>1. Current(t) = b /\ Follows(t, b)
      BY <1>2, <1>3, <1>4, <2>1, <2>3, CurrentBefore DEF LedgerInv
    <3>2. ~Behind(t, k)'
      BY <1>5 DEF Behind
    <3>3. Current(t)' = Latest(Completed)
      BY <1>9, <2>2, <3>2, CurrentNext
    <3>4. CASE run[k].recorded
      <4>1. k \in Completed
        BY <1>3, <3>4 DEF LedgerInv, RecordedKnown
      <4>2. Current(t)' = k
        BY <1>9, <2>1, <3>3, <4>1, LastIsLatest DEF Alone
      <4>3. CASE arrives
        BY <1>3, <1>4, <1>7, <1>8, <3>1, <4>2, <4>3, ToldOver
      <4>4. CASE ~arrives
        BY <1>3, <1>4, <1>7, <1>8, <3>1, <4>2, <4>4, CarriedOver
      <4> QED BY <4>3, <4>4
    <3>5. CASE ~run[k].recorded
      <4>1. k \notin Completed
        BY <1>3, <3>5 DEF LedgerInv, RecordedKnown
      <4>2. Completed \ {k} = Completed
        BY <4>1
      <4>3. Current(t)' = b
        BY <2>3, <3>3, <4>2 DEF LastCompleted
      <4>4. BaselineFindings(Current(t))' = BaselineFindings(b)
        BY <1>3, <4>3 DEF BaselineFindings
      <4>5. ASSUME NEW id \in Ids, id \notin astray'[t]
            PROVE  Right(open'[t][id], BaselineFindings(b)[id])
        <5>1. id \notin Transitions(k, b) /\ id \notin astray[t]
          BY <1>7, <3>5, <4>5
        <5>2. open'[t][id] = open[t][id]
          BY <1>8, <5>1, UntoldStays
        <5> QED BY <3>1, <5>1, <5>2 DEF Follows
      <4> QED BY <4>4, <4>5 DEF Follows
    <3> QED BY <3>4, <3>5
  <2> QED BY <2>4, <2>5, <2>6, <2>7
<1> QED BY <1>10, <1>12 DEF LedgerInv

\* Noting the baseline may put a run on record whose outcome was not written.
LEMMA LedgerNote ==
    ASSUME Inv, LedgerInv, Inv', NEW k \in RunIds, NoteBaseline(k) PROVE LedgerInv'
<1>1. PICK b : b = run[k].base
  OBVIOUS
<1>2. /\ run[k].pc = "export" /\ run[k].to = {} /\ k \in DOMAIN jobs
      /\ run' = [run EXCEPT ![k] = [run[k] EXCEPT !.pc = "notify"]]
      /\ jobs' = [jobs EXCEPT ![k] = [state |-> "completed", base |-> b]] \/ jobs' = jobs
      /\ UNCHANGED <<stored, open, astray, overlapped>>
  BY <1>1 DEF NoteBaseline, Goes, Inv, OnRecord
<1>3. run'[k].pc = "notify" /\ \A m \in RunIds : m # k => run'[m] = run[m]
  BY <1>2 DEF Inv, TypeOK, Run
<1>4. /\ Len(jobs') = Len(jobs) /\ Completed \subseteq RunIds
      /\ Completed' = Completed \/ Completed' = Completed \cup {k}
  <2>1. CASE jobs' = jobs
    BY <2>1, JobsAre DEF Completed
  <2>2. CASE jobs' = [jobs EXCEPT ![k] = [state |-> "completed", base |-> b]]
    <3>1. /\ Len(jobs') = Len(jobs) /\ DOMAIN jobs' = DOMAIN jobs
          /\ jobs'[k].state = "completed"
          /\ \A m \in DOMAIN jobs : m # k => jobs'[m] = jobs[m]
      BY <1>2, <2>2, JobsAre
    <3> QED BY <1>2, <3>1, JobsAre DEF Completed
  <2> QED BY <1>2, <2>1, <2>2
<1>5. \A m \in RunIds \ {k} : m \in Completed' <=> m \in Completed
  BY <1>4
<1>6. RecordedKnown'
  BY <1>3, <1>5 DEF LedgerInv, RecordedKnown
<1>7. ASSUME ~overlapped'
      PROVE  /\ OneAtATime' /\ ComparedWithLast' /\ UnrecordedAstray'
             /\ \A s \in Sinks : Follows(s, Current(s))'
  <2>1. Alone(k) /\ ~overlapped
    BY <1>2, <1>7, IsAlone
  <2>2. \A m \in RunIds : m # k => run'[m].pc = "gone" /\ run[m].pc = "gone"
    BY <1>3, <2>1 DEF Alone
  <2>3. OneAtATime' /\ ComparedWithLast' /\ UnrecordedAstray'
    BY <1>3, <1>4, <2>1, <2>2 DEF Alone, OneAtATime, ComparedWithLast, UnrecordedAstray
  <2>4. ASSUME NEW s \in Sinks PROVE Follows(s, Current(s))'
    <3>1. ~Behind(s, k) /\ ~Behind(s, k)'
      BY <1>2, <1>3 DEF Behind
    <3>2. Current(s) = Latest(Completed)
      BY <1>4, <2>2, <3>1, CurrentIs
    <3>3. Current(s)' = Latest(Completed') /\ Completed' \subseteq RunIds
      BY <1>4, <2>2, <3>1, CurrentNext
    <3>4. CASE Completed' = Completed
      BY <1>2, <2>1, <3>2, <3>3, <3>4, StillFollows DEF LedgerInv
    <3>5. CASE k \notin Completed /\ Completed' = Completed \cup {k}
      <4>1. Completed \ {k} = Completed
        BY <3>5
      <4>2. b = Latest(Completed)
        BY <1>1, <1>2, <2>1, <4>1 DEF LedgerInv, ComparedWithLast, LastCompleted
      <4>3. Follows(s, b)
        BY <2>1, <3>2, <4>2 DEF LedgerInv
      <4>4. ~run[k].recorded
        BY <1>2, <3>5 DEF LedgerInv, RecordedKnown
      <4>5. Transitions(k, b) \subseteq astray[s]
        BY <1>1, <1>2, <2>1, <4>4 DEF LedgerInv, UnrecordedAstray
      <4>6. k \in Completed' /\ \A m \in Completed' : m <= k
        BY <2>1, <3>5, BoundAssumption DEF Alone, RunIds
      <4>7. Latest(Completed') = k
        BY <3>3, <4>6, LastIsLatest
      <4>8. b \in 0..MaxRuns
        BY <1>1 DEF Inv, TypeOK, Run
      <4> QED BY <1>2, <3>3, <4>3, <4>5, <4>7, <4>8, CarriedOver
    <3> QED BY <1>4, <3>4, <3>5
  <2> QED BY <2>3, <2>4
<1> QED BY <1>6, <1>7 DEF LedgerInv

\* What was not sent when the process stops goes astray.
LEMMA LedgerStop == Inv /\ LedgerInv /\ Inv' /\ Stop => LedgerInv'
<1> SUFFICES ASSUME Inv, LedgerInv, Inv', Stop PROVE LedgerInv'
  OBVIOUS
<1>1. /\ run' = [k \in RunIds |-> Gone]
      /\ astray' = [s \in Sinks |-> astray[s] \cup UNION {Unsent(s, k) : k \in RunIds}]
      /\ UNCHANGED <<jobs, stored, open, overlapped>>
  BY DEF Stop
<1>2. \A k \in RunIds : run'[k].pc = "gone"
  BY <1>1 DEF Gone
<1>3. /\ RecordedKnown' /\ OneAtATime' /\ ComparedWithLast' /\ UnrecordedAstray'
  BY <1>2 DEF RecordedKnown, OneAtATime, ComparedWithLast, UnrecordedAstray
<1>4. Completed' = Completed /\ Completed \subseteq RunIds
  BY <1>1, JobsAre DEF Completed
<1>5. ASSUME ~overlapped', NEW s \in Sinks PROVE Follows(s, Current(s))'
  <2>1. ~overlapped /\ Follows(s, Current(s))
    BY <1>1, <1>5 DEF LedgerInv
  <2>2. Current(s)' = Latest(Completed)
    <3>1. Completed' \ {m \in Completed' : Behind(s, m)'} = Completed
      BY <1>2, <1>4 DEF Behind
    <3> QED BY <3>1 DEF Current
  <2>3. /\ \A k \in RunIds : Unsent(s, k) \subseteq astray'[s]
        /\ astray[s] \subseteq astray'[s]
    BY <1>1
  <2>4. CASE Current(s) = Latest(Completed)
    BY <1>1, <2>1, <2>2, <2>3, <2>4, StillFollows
  <2>5. CASE Current(s) # Latest(Completed)
    <3>1. PICK k \in RunIds : k \in Completed /\ Behind(s, k)
      <4>1. ASSUME \A k \in Completed : ~Behind(s, k) PROVE FALSE
        <5>1. Completed \ {m \in Completed : Behind(s, m)} = Completed
          BY <4>1
        <5> QED BY <2>5, <5>1 DEF Current
      <4> QED BY <1>4, <4>1
    <3>2. Alone(k)
      BY <2>1, <3>1, IsAlone DEF Behind
    <3>3. PICK b : b = LastCompleted(k)
      OBVIOUS
    <3>4. Current(s) = b /\ b \in 0..MaxRuns
      BY <3>1, <3>2, <3>3, CurrentBefore, LastCompletedType DEF Behind
    <3>5. Unsent(s, k) = Transitions(k, b)
      BY <2>1, <3>1, <3>3 DEF Unsent, Behind, LedgerInv, ComparedWithLast
    <3>6. Latest(Completed) = k
      BY <1>4, <3>1, <3>2, LastIsLatest DEF Alone
    <3> QED BY <1>1, <2>1, <2>2, <2>3, <3>4, <3>5, <3>6, CarriedOver
  <2> QED BY <2>4, <2>5
<1> QED BY <1>3, <1>5 DEF LedgerInv

\* Every step preserves the invariant.
LEMMA LedgerNext == Inv /\ LedgerInv /\ Inv' /\ [Next]_vars => LedgerInv'
<1> SUFFICES ASSUME Inv, LedgerInv, Inv', [Next]_vars PROVE LedgerInv'
  OBVIOUS
<1>1. CASE Begin
  BY <1>1, LedgerBegin
<1>2. CASE Stop
  BY <1>2, LedgerStop
<1>3. ASSUME NEW k \in RunIds, RunStep(k) PROVE LedgerInv'
  BY <1>3, LedgerScan, LedgerFinish, LedgerCompare, LedgerSend, LedgerNote, LedgerNotify
     DEF RunStep
<1>4. CASE UNCHANGED vars
  <2>1. Completed' = Completed
    BY <1>4 DEF vars, Completed
  <2>2. \A s : Current(s)' = Current(s)
    BY <1>4, <2>1 DEF vars, Current, Behind
  <2>3. \A k, b : Transitions(k, b)' = Transitions(k, b)
    BY <1>4 DEF vars, Transitions, EntriesOf, BaselineFindings
  <2>4. RecordedKnown'
    BY <1>4, <2>1 DEF vars, LedgerInv, RecordedKnown
  <2>5. ASSUME ~overlapped'
        PROVE  /\ OneAtATime' /\ ComparedWithLast' /\ UnrecordedAstray'
               /\ \A s \in Sinks : Follows(s, Current(s))'
    <3>1. OneAtATime' /\ ComparedWithLast' /\ UnrecordedAstray'
      BY <1>4, <2>1, <2>3, <2>5
         DEF vars, LedgerInv, OneAtATime, ComparedWithLast, UnrecordedAstray, LastCompleted
    <3>2. \A s \in Sinks : Follows(s, Current(s))'
      BY <1>4, <2>2, <2>5, StillFollows DEF vars, LedgerInv
    <3> QED BY <3>1, <3>2
  <2> QED BY <2>4, <2>5 DEF LedgerInv
<1> QED BY <1>1, <1>2, <1>3, <1>4 DEF Next

-----------------------------------------------------------------------------
(* The theorem                                                               *)

\* As long as runs follow one another, what a SIEM's receiver holds as open is
\* what the run it should know found, and never less severe, but for findings
\* whose last transition failed to arrive or came from a run not on record.
THEOREM LedgerAlwaysFollows == Spec => []LedgerFollows
<1>1. Inv /\ LedgerInv => LedgerFollows
  BY LedgerIs DEF LedgerInv
<1> QED BY <1>1, InvInit, InvNext, LedgerInit, LedgerNext, PTL DEF Spec
=============================================================================
