# A verification development for AuditLight

AuditLight is a self-hosted console that runs security assessments: an operator
names targets, confirms authority over them, and a job runs a profile of
adapters against what an authorisation gate lets through.  An assessment can be
saved and repeated on a schedule, for as long as a person's authorisation lasts.
This directory holds TLA+ models of that program, the TLC runs that check them
and TLAPS proofs about them.  Paths below are relative to `src/`.

Four promises come first, and the models are built around them:

* **nothing is assessed without a person's standing authorisation**, although
  the runs of a saved assessment are started by a timer, from copies of records
  that other goroutines are changing;
* **a finished assessment is evidence**: it hides nothing that was found, says
  "complete" only when it is, and does not change afterwards;
* **what is told agrees with what was found**: by a check about its target, by
  the notification, to a SIEM's receiver, on the map, in an explanation;
* **a gap does not read as a clean result**: a target refused, a check that did
  not run and an answer that was lost are on record.

## 1. Inventory

| component | state | operations | talks to |
|---|---|---|---|
| saved assessment (`internal/store/store.go`) | a `Definition`: who authorised it, when, for how many days, interval, due date, last skip reason | `AuthorisationExpires`, `AuthorisationValid`, `Clone` | every component below, always as a clone |
| saved-assessment lifecycle (`internal/orchestrator/definition.go`) | none of its own | `SaveDefinition`, `RunDefinition`, `DeltaFor`, `afterRun`, `export` | store, runner, delta, SIEM, notifier, licence |
| scheduler (`internal/schedule`) | one goroutine with a ticker | `Start`, `RunDue` | store, `RunDefinition` |
| job runner (`internal/orchestrator/orchestrator.go`) | one goroutine per job with its own clone of the job | `Submit`, `run`, `Cancel`, `percent` | gate, store, adapters, correlation, score, `afterRun` |
| file store / memory store (`internal/store/file.go`, `mem.go`) | maps of jobs, findings, definitions under one mutex; JSON files | create, update, get, list, delete, `ActiveJobs`, `LastCompletedJob`, load at start | everybody |
| gate and audit log (`internal/authz`) | scope; a hash-chained in-memory log | `Gate`, `Append`, `Verify` | `Submit` |
| licence (`internal/license`) | a tier and its caps | `Verify`, `CapsFor` | `Submit`, `SaveDefinition`, `ApplyCap` |
| console (`internal/webui`) | HTTP server; one goroutine per request | handlers for jobs and definitions, explanations, shutdown | runner, store |
| findings and correlation (`internal/finding`, `internal/correlate`) | values | validation, identity, `Merge` | runner |
| delta, SIEM export, notifications (`internal/delta`, `siemexport`, `notify`) | none | `Compare`, `Export`, `Send` | `afterRun` |
| presentation (`internal/report`, `surface`, `score`, `webui/explorer.go`) | none | pure rendering of stored data | console |
| adapters (`internal/adapters`) | none | `Run` with a time limit | runner |
| AI explanations (`internal/aiclient`, `webui/ai.go`) | none | a client with retries | console |

**How they interact.**  The store's calls are atomic (one mutex), but they hand
out and take whole records.  Every user of a definition or a job reads a clone,
works for microseconds (a handler) or minutes (a job), and writes the clone back
whole.  Nothing compares versions.  Handlers, the scheduler and one goroutine
per job run concurrently; `RunDefinition` starts a job whose own goroutine
writes the same definition back later.

**What is hard.**

* stale clones: a write carries back every field, so a step of one goroutine can
  undo a step of another (`definition.go:141`, `schedule.go:97`,
  `definition.go:231`);
* checks whose truth can pass before they are acted on: the authorisation, the
  cap on running jobs, the cap on saved assessments;
* failing disk writes whose error is ignored (`_ = r.store.UpdateJob(job)`);
* a stop or a crash, which ends every job's goroutine, and a restart which loads
  the records as they were;
* order: a job can end, and its notification fail, before the call that started
  it has written the definition; reports of one condition are folded as they
  come; two runs of one assessment may overlap;
* a log that is appended to from every request without a lock (`authz.go:81`);
* sinks, transports and a sidecar that fail, are tried again or not, and must
  leave neither a wrong ledger nor an unanswered request;
* checks that read what earlier ones found, with answers lost and time running
  out between them.

`PROJECT.json` lists each such hazard at its line with the properties that watch
it.

**What makes each component correct.**

* lifecycle, scheduler, handlers: a run that starts is covered by an affirmation
  of the named person; deletion is final; a due date is served once; a due
  assessment never just stops; a renewal sticks (it does not, section 4);
* runner: a completed job is whole; progress is honest and never goes back; a
  job that is over does not change; every job ends; the cap is overshot by a
  bounded number;
* store: an update of a deleted record fails; a restart reads back what was
  written; findings of equal identity are stored as one;
* gate: every target asked for is assessed or skipped, and what is assessed was
  typed twice and lies in the scope; log: it has the entry of every job that was
  let through, and one that has lost an entry does not verify (it does);
* correlation: in any order, nothing lost and nothing invented;
* delta, SIEM, notifications: a receiver holds what the last run found unless
  its word went astray; a message without news is of a run without news;
* console views: the map counts every finding once, folded or not; the timeline
  and the engine, which judge by two different rules whether a host was assessed,
  give one account of it; an explanation stands on the engine's record, is of
  something the tier shows, and comes whatever the sidecar does;
* checks: what is reported is so (with three exceptions, section 4); several
  targets do not mix; what was seen is evaluated; silence has a reason on record.

## 2. Modules

| module | models |
|---|---|
| `Definition.tla` | `store.Definition` as a value: validity, due date, and every record the code builds from another. Stateless. |
| `Reassess.tla` | saved assessments as a concurrent system: store, scheduler, handlers, job goroutines and their notifications. Extends `Definition`. |
| `AuthorisedRuns.tla` | the abstract specification of `Reassess`: people affirm, assessments are removed for good, a run begins only on an affirmation that covers it. |
| `Jobs.tla` | `Submit` and the goroutine of a job over adapters and targets, the job record and the findings. |
| `Findings.tla` | what is computed from findings: ranks, the fold of two reports, order and cap of a list, the comparison of two runs and what is said of it. Stateless. |
| `Evidence.tla` | the findings of the runs of one assessment, from a check's report to the store, the SIEM's receivers and a person. Extends `Findings`. |
| `Console.tla` | what the console shows and explains of a completed run. Extends `Findings`. |
| `AuthzLog.tla` | the gate, and the hash-chained log under concurrent submissions. |
| `Checks.tla` | the checks of a profile: their order, what each makes of a target, and what later ones read of earlier ones. |
| `MCReassess`, `MCJobs`, `MCEvidence`, `MCConsole`, `MCAuthzLog`, `MCChecks` | small instances for TLC; the `.cfg` files give the constants. |
| `Reassess_proofs`, `Jobs_proofs`, `AuthzLog_proofs`, `Evidence_proofs`, `Ledger_proofs`, `Spacing_proofs`, `Console_proofs`, `Checks_proofs` | the theorems. |

The modules meet at the record of a job.  `Reassess` decides when a run starts
and sees of it only its end; `Jobs` is one run's goroutine and sees a check only
as a set of findings; `Checks` is what those findings are; `AuthzLog` is what
stands before the record is created; `Evidence` takes up the findings of one run
after the other where a scan leaves them; `Console` reads what is stored.
Each takes from its neighbour a larger set of behaviours than the neighbour has,
so that nothing is assumed of it: `Jobs` allows an adapter any findings,
`Evidence` any subset of the reports, `Console` any two runs.

### `Reassess` and the code

A process is a goroutine: a program counter `pc`, the identifier it works on,
the time it read (`now`) and the clone it holds (`d`).  One action is what a
goroutine does between two calls of the store.

| code | actions |
|---|---|
| `handleCreateDefinition` + `SaveDefinition` | `SaveList` (build the record, check the cap), `SaveCreate` |
| `handleDeleteDefinition` | `Delete` |
| `handleReauthorise` | `ReauthoriseRead`, `ReauthoriseWrite` |
| `handleRunDefinition` + `RunDefinition` + `Submit` | `RunRequest`, `RunGet`, `RunCount`, `RunCreate`, `RunUpdate` |
| `RunDue` | `SchedWake`, `SchedList`, `SchedLapsed`, `SchedRun` (then the four `Run…` steps), `SchedRefused`, `SchedDone` |
| `run`, as the definition sees it, and `afterRun` | `JobEnds`, `RecordBaseline`, `AfterGet`, `NotifySent`, `NotifyFails` |
| `NewFile` after a stop | `Crash` |

`RunCreate` is one step although the code does several things in it (gate,
record, goroutine): between the count and the creation nothing else is read that
another goroutine writes.  A disk fault may hit any write (`MaxFaults`); the
store keeps the old record then, as `writeAtomic` runs before the map changes.

Abstractions: the scheduler visits the due clones in any order (the code uses
the order of the list); `Enabled` and the last-run fields are left out because
nothing that is modelled reads them (`Enabled` is set once and never cleared);
whether the targets survive the scope guard is fixed per definition (targets and
scope never change after saving); whether a comparison calls for a notification
is open; a skip reason is its kind and what it names.  `affirmed`, `acked`
and `noted` are history: no guard reads them.

### `Jobs` and the code

| code | actions |
|---|---|
| `Submit` | `Request` (tier checks), `CountActive`, `CreateJob` (gate, record, goroutine) |
| `run` | `RunStart`, per adapter `SkipAdapter` or per target `Visit` and `AdapterReturns`, then `Correlate`, `StoreFindings`, `Finish` |
| `afterRun` | `AfterRun` (the baseline is noted on the record) |
| stop and restart | `Stop` |

`rec` is the goroutine's clone; `Write` is `UpdateJob` with its error ignored, so
every write may be lost.  A finding is its identity here, since correlation folds
equal identities into one; an adapter returns any set of them, with or without
an error, as the code keeps what came with an error.  Targets of one adapter are
taken in any order.  `Cancel` has no caller in the program and is left out with
the branch it would reach, as are phase texts and times.  The caps are constants
(0 lifts a cap, as in `CapsFor`).

### `Findings` and `Evidence` and the code

| code | operators and actions |
|---|---|
| `Severity.Rank`, `Confidence.Rank`, `promote`, `Finding.Merge` | `SeverityRank`, `ConfidenceRank`, `Promote`, `Merge` |
| `finding.Sort`, `score.ApplyCap` | `Before`, `ApplyCap` |
| `delta.Compare`, `Headline`, `ShouldSend`, `Exporter.Events` | `Compare`, `Headline`, `ShouldSend`, `Event` |
| a run begins; `correlate.Merge`; `AddFindings`; the last `UpdateJob` | `Begin`, `Correlate`, `StoreFindings`, `Finish` |
| `afterRun`: `DeltaFor`, `export`, the note of the baseline, the notification | `CompareRun`, `Send` (one sink), `NoteBaseline`, `Notify` |
| the process stops | `Stop` |

An identity is a value, so that two reports of one condition are two reports of
one value.  `open` is not state of the program but of the receivers it sends to:
what they hold as open after the events that arrived.  `astray` (findings whose
last transition a sink has missed, or was sent of a run that is not on record)
and `overlapped` (two runs have been under way at once) are history.

### `Console` and the code

| code | operators and actions |
|---|---|
| `surface.Build`: roots, placement, order, folding, roll-up | `RootOf`, `Place`, `DrawnBefore`, `Drawn`, `Folded`, `More`, `RollUp…` |
| `tlState`: is a host of a run drawn as assessed? | `Assessed` |
| `handleExplainFinding`, `handleExplainDisappearance`, `classifyDisappearance` | `ExplainFinding`, `ExplainDisappearance`, `Classify` |
| the sidecar's client with its retries | `Attempt`, `Backoff` |
| the response | `Respond` |

The stored runs do not change: `Init` picks every pair of runs, licence and
configuration, and a behaviour serves requests about it.

### `AuthzLog` and the code

| code | actions |
|---|---|
| `Submit` with `Gate` (refusals in their order) | `Submit`, with `Gate`, `Cleared`, `ValidTarget`, `InScope` |
| `Append` | `Link` (read the last hash), `ReadSlice`, `StoreSlice` |
| the job's record | `CreateJob` |
| a restart | `Restart` (the log is gone, the jobs are not) |

A data race on the slice is what its reads and writes can come to: a caller
stores a slice grown from one that another has meanwhile replaced.  A hash is
the tuple it is taken of, so that equal hashes are equal entries.  `raced` is
history: two callers have been at the log at once since the start.

### `Checks` and the code

`Skip` and `Run` are the loop of `run` over checks and targets.  The loop's place
is the set of checks that are `left` and the target whose `turn` it is; of those
left, `IsNext` is the one that comes `Before` the others in a stable sort of the
profile by stage (`orchestrator.go:302`), and a theorem says that there is only
one (`OneNext`).  Each check is an operator from the site, the findings
so far, the answers that are lost (`L`) and whether its three minutes end first
(`late`) to its findings and notes.  A site is a record of what a scanner can
tell: open ports, what each greets with, how its web and TLS endpoints answer,
its mail records, its names.  Protocols, parsers and wording are abstracted to
these.

A finding keeps two things of its evidence: `saw`, what it is about (the faults
of a response, the versions of TLS, the software that was matched), and `text`,
the pairs of a word and a version that its evidence spells.  `vulnsig` reads
every `text` on the target (`vulnsig.go:149-176`): greetings and disclosed
headers, which name the software that sends them, but page titles, addresses
and cookies as well.  What a site really runs is part of its record (`runs`, and
`names`), beside what its texts spell (`reads`, `title`, `spells`, the cookies
in `lacks`), so that `Holds` judges a match by the one and `Misread` says which of
the other it may stand on.  A check remembers each probe it lost in `lost`, so
that an absence can be judged by its own lookup.

## 3. Runs

| run | question | bounds |
|---|---|---|
| `reassess_restart` | are all runs authorised, is deletion final and does `Reassess` implement `AuthorisedRuns`, with a failing write, failing notifications and a restart? | 2 handlers, 1 assessment, 2 requests, 2 jobs, clock to 3; 740,000 states |
| `reassess_live` | is a due date served once, and is every due assessment run, pushed out or explained? | fair; a due date every day, a window of 3 days, clock to 5, 6 jobs, a fault and a crash; 505,000 states |
| `reassess_reaffirm` | does an acknowledged renewal stick? **violated** | |
| `jobs_run` | is a completed job whole, its progress honest, its record final? | 1 job, 2 targets, 2 adapters, 2 findings, 2 faults, a stop |
| `jobs_slots` | by how much is the cap overshot, and does every job end? | fair; 2 callers, 1 slot, 3 jobs; 100,000 states |
| `jobs_malformed` | is a dropped finding on the record? **violated** | |
| `evidence_runs` | is what is folded, sent and notified what the runs found? | 3 runs, 2 findings, 4 reports, 2 sinks, 1 fault; 1.44 million states |
| `console_views` | does the map count every finding once, do timeline and engine agree on what was assessed, and do explanations stand on the run's record? | 2 declared targets, 2 checks, 6 findings, limits of 2 hosts and 1 service, 1 retry; 235,000 states |
| `authz_gate` | is every target accounted for, and does the log keep its entries? | 2 callers, 3 submissions, a fault or restart; 170,000 states |
| `authz_chain` | does the chain show a lost entry? **violated** | |
| `checks_all` | is what is reported so, complete and explained? | every profile, 3 kinds of site, 2 answers lost or checks that run out of time; 103,000 states |
| `checks_match` | is a match one of an advertised version? **violated** | |

**Why these bounds.**  A stale clone needs a reader, a writer and a third step
that shows the damage: two handlers and the scheduler have every order of these
with one request each.  The window of an authorisation is two days of one
tick, so that it opens, closes and is renewed within the clock.  `MaxLag = 1`
lets a goroutine hold a clone across a tick; a job holds its own for as long as
it likes.  In `reassess_live` the window is three days and the interval one, so
that an assessment affirmed once has two due dates before it lapses (the
precondition of `ScheduledRunsSpaced` is met, also with a manual run between);
there a tick is a day and a clone is held for less (`MaxLag = 0`).  Longer lags
are covered by theorem `ScheduleKept`.  Six jobs are more than two days of
scheduled runs, a request, a fault and a crash can start.  One job in detail suffices in `jobs_run`, because goroutines share
nothing but the store and write their own record (this is lemma `OwnJobOnly`);
what they share, the slots, has its own run: an overshoot of two needs three
jobs at once.  In `evidence_runs` three runs are a baseline, one whose word is
lost, and one after it that must not repeat or hide that; the four reports are
those of one tool that repeats itself, a second tool, a call for review and a
second finding.  TLC takes the runs one after the other there; the theorems
about `Evidence` hold for overlapping ones as well.  In `console_views` the six
findings lie on a declared name, on one declared below it, on hosts found under
the first, and on one that no target covers; the limits fold some of them.  The sites of `checks_all` are a web
shop with mail, a database box in the open, and a page given by its URL in a
domain that answers for every name; one external tool is not installed.  Each
exception of `ReportJust` occurs there: an SSH greeting, a title, a cookie and an
address that spell a version, a chain refused for a wrong name, lost lookups.

`CHECK_DEADLOCK FALSE` is set where a bound (requests, jobs, runs, clock) brings
the model to rest, or a scan is over; `reassess_live` and `console_views` check
deadlock, as a scheduler and a server never rest.  Symmetry is used in safety
runs only.

**Fairness.**  Only goroutines that can go on are fair: the scheduler, a handler
that has begun, a job's goroutine, the client of the sidecar.  Go does not starve
them; an adapter call has a timeout of three minutes, an attempt at the sidecar
the client's own, a wait between two the length of its backoff.  (The SMTP
dialogue has no deadline; a job that hangs in it is over already, and no property
waits for it.)  Requests, clock ticks, faults, crashes and the restart's timing
are not fair: they need never happen.

**What `ScheduledRunsSpaced` leaves out.**  It speaks of assessments affirmed
once, in behaviours without a failed write, a restart and a recorded failure of
a notification.  A renewal sets a past due date to now on purpose; a lost write
or a crash before the due date is advanced makes the assessment run again at
once; a failed notification does so too, see the observations below.

## 4. What the violated runs show

1. `ReaffirmationSticks` (`internal/schedule/schedule.go:84`): the scheduler lists
   the definitions, a person renews one that has just lapsed and is answered with
   success, and the scheduler then records the lapse by writing back the clone it
   listed (`SchedWake`, `SchedList`, `ReauthoriseRead`, `ReauthoriseWrite`,
   `SchedLapsed`).  The renewal is gone and the assessment is lapsed again, under
   a text that asks for a renewal.  Three other writes of a clone undo one in the
   same way: of a run that was started (`definition.go:141`), of a refusal
   (`schedule.go:97`) and of a failed notification (`definition.go:231`).
   `RunsAreAuthorised` holds all the same: what comes back is an older
   authorisation, given by a person and still judged by its own date.
2. `DropsRecorded` (`orchestrator.go:383`): the remark about a dropped finding is
   made on a copy of the record that was appended.
3. `LossShows` (`authz/authz.go:81`): two submissions append at once, the entry of
   one is lost, and the chain that is left verifies.
4. `MatchesAdvertised` (`adapters/vulnsig.go:135`): in the greeting
   `SSH-2.0-OpenSSH_9.6` the version of the protocol is read as that of OpenSSH;
   the repository's own sample report shows it.

**Observations.**  Behaviours of the code that the models show and no document
of the repository contradicts; the properties are stated so as to say exactly
what holds beside them.

* Two submissions may count the running jobs before either creates one
  (`orchestrator.go:185`), and two saves the assessments (`definition.go:68`):
  `OvershootBounded` and `SavedOvershootBounded` say how far it goes.
* Shutdown waits for requests, not for jobs (`webui/server.go:403-406`): a job
  that was running says so for ever and holds its slot.
* The call that started a run clears the skip reason, also when the run has
  already recorded a failed notification (`definition.go:137`).
* `afterRun` records a failed notification on the definition it read before the
  send (`definition.go:191`, `231`): a due date advanced meanwhile is taken back
  and served twice.
* Two overlapping runs may each be the other's baseline (`definition.go:157`).
* The timeline draws a host clear that only failed checks touched, although
  "absent is not the same as clean" (`timeline.go:23-25`, `99-101`): `Processed`
  is set whatever the checks returned (`orchestrator.go:428`).
* The timeline takes a host for assessed if a target above it was processed, the
  engine a target for skipped by its very name: the one may draw as clear what
  the other explains as skipped.  `AccountsAgree` says that this is the only way
  in which they differ.
* `no_longer_detected` is judged by the check's name, not by the target it ran on
  (`webui/ai.go:445-470`).
* A lookup that fails reports a mail record as confirmed missing (`dns.go:129`),
  although confirmed is for what was directly observed (`finding.go:86-88`), and
  a version of TLS that was not answered counts as not offered.  `ReportJust` lets
  an absence be wrong only if its own lookup or probe was lost.
* A chain is also refused for the date, the name or the signature of the
  certificate (`tlsaudit.go:298-303`), so that such a certificate is reported a
  second time, with a missing intermediate as the usual cause.
* A version spelled by a page's title, its address or a cookie is matched like one
  that a server advertises (`vulnsig.go:153-158`).  What `nmap` reads is not
  matched at all: it is listed after `vulnsig` and of the same stage.
* A host's place on the map follows its own findings, not those of its services
  (`surface.go`, `sortNodes`), so that a host with a critical service may be
  folded; `SurfaceWhole` says that the counts keep it.
* The port of a target's URL is not used (`web.go:73`); a port or subdomain scan
  that is stopped drops what it had (`network.go:54-57`); an unreadable file drops
  the secrets found in it (`secrets.go:119-121`).

## 5. Proofs

Each theorem holds for every value of the constants under the named assumptions
of the modules (numbers are naturals, caps of running jobs in `Jobs` positive, goroutine
names distinct, the lag of a clock a natural, sets of callers, handlers, targets and
findings finite; a report is of one tool; blank text trims to itself; a declared
host is a sequence of labels; the ports of a site are ports and the headers it
may lack those that are looked for, and a greeting names the software that sends it,
but for the protocol of SSH and what the target's own name spells; a scan has targets, no two of one name, as
`normaliseList` and the gate see to), which TLC evaluates on every run.

| theorem | says |
|---|---|
| `TypeCorrect`, `JobsTypeCorrect`, `LogTypeCorrect`, `EvidenceTypeCorrect`, `ConsoleTypeCorrect`, `ChecksTypeCorrect` | the type invariants |
| `RunsAuthorised` | every run of a saved assessment is covered by an affirmation |
| `Implements` | `Reassess` implements `AuthorisedRuns` |
| `ScheduleKept` | what the scheduler starts for an assessment lies its interval apart, less the lag, unless something failed or it was renewed |
| `DeletionIsFinal` | what is deleted stays deleted |
| `SavedOvershootIsBounded` | saves that race overshoot the cap on saved assessments by fewer than there are handlers |
| `CompletedIsAlwaysWhole` | a completed job has everything its checks gave and a record of each check |
| `ProgressIsHonest` | 100 per cent exactly for jobs that are over |
| `ProgressAlwaysAdvances` | the figure shown for a job never goes back |
| `EvidenceIsFinal` | the record and findings of a job that is over do not change, but for the name of its baseline |
| `OvershootIsBounded` | active jobs never exceed the cap by more than the callers less one |
| `GateAlwaysAccounts` | every target is assessed or skipped, and what is assessed was let through |
| `LogAlwaysKeeps` | without two callers at the log at once it verifies and has every job let through since the start |
| `FoldsAreJust` | correlation neither loses nor invents, in any order |
| `NoticesAreHonest` | a notification without news is of a run without news, however runs overlap |
| `LedgerAlwaysFollows` | while runs follow one another a receiver holds what the last run on record found, but for what went astray |
| `SurfaceIsWhole` | the map counts every finding that is shown at exactly one root, the most specific target that covers its host, folded or not |
| `AccountsAlwaysAgree` | a declared target that the timeline draws as absent is explained as skipped, and one explained as skipped is drawn as assessed only under a target that was processed |
| `EngineFirst` | an answer about a disappearance carries the engine's word, which agrees with the run's record, whatever the sidecar did |
| `ExplainedShown` | what is explained is something the tier shows, and only a paid tier reaches a sidecar that needs a key |
| `ReportsAreJust` | what is reported of a target is so of it, but for a version read off something else than the software, a chain refused for another fault of its certificate, and an absence whose own lookup was lost |
| `NothingIsOverlooked` | without lost answers, several targets are found to be what each would be found to be alone |
| `DerivedIsWhole` | every captured response is evaluated, every version that was read is matched or on record |
| `SilenceAlwaysExplained` | a check that found nothing says why, but for the two that need not |

**Saved assessments.**  `TypeInv` adds to the types what a goroutine holds at
each point (`Shape`): a clone where it will write one, an identifier where it
will look one up.  It is what makes `proc[p].d.op` mean something.
`RunsAreAuthorised` is not inductive: it says nothing of clones.  `AuthInv`
strengthens it.  Every definition in the store, in the scheduler's list and in
any clone carries an affirmation that was really given, in one piece: person,
time and days together (`StoreGenuine`, `ClonesGenuine`); a clone past the test is
valid at the time the caller read.  A write-back then moves a genuine definition
to a place where genuine ones are (`WriteBackGenuine`), whichever clone it came
from, so that stale writes are harmless to this property.  `Implements` maps every step to a save,
an affirmation, a removal, a covered run or a stutter (`Steps`), and uses the
invariant for the run alone.  `SavedInv` counts a handler that has passed the cap
on saved assessments and not yet created its own as if it had (`Savers`); that no
other step adds an assessment is read off `Steps`.

**The schedule.**  `ScheduledRunsSpaced` speaks of runs that have happened; what
keeps it is in the due dates still to be acted on, and those are held in many
places: the store, the list the scheduler took, and every clone in flight, each
of which may be written back late and undo a newer date.  `Books` says without
conditions that an identifier held was handed out, that a time read lies within
the lag, and that what is asked for was asked in the past.  `SpacingInv` says
that an assessment that is `Calm` (stored, affirmed once, no fault, no crash, no
failed notification recorded for it) is `Regular`: each clone in flight has its
interval and a due date at least one interval after the affirmation
(`CloneRegular`), and so has its entry in the scheduler's list (`ListedRegular`);
every due date the scheduler can act on lies an interval beyond every run it has
begun, unless it is just about to write the next one (`DueAfterServed`).  What
makes a stale write-back harmless here is that a second affirmation, a fault, a
crash or a recorded failure each end the calm.  That every clone of a calm
assessment dates from its one affirmation is read off `AuthInv`.

**Jobs.**  `Inv` adds to the types that a goroutine works on a job that is not
over until it has tried to write the end (`Alive`); that what it holds in
`afterRun` is the stored record unless that write was lost (`AfterAgrees`); and
that its clone agrees with where it is (`ClonesFit`).  `ProgressHonest` needs that
figures during a run stay below 100 (`ProgressBelow`), for which an accepted
target must exist.  `SlotInv` counts the callers who have seen a free slot and not
taken it as if they had: active jobs and such callers together never exceed the
cap plus the callers less one.  `CompletedIsWhole` says nothing of a job until it
is over; `WholeInv` says of the clone at every point of the loop which checks
have their record and over which targets (`AllSound`), and that nothing is
yielded by a job that has not begun (`NothingYielded`).  `ProgressAdvances` needs the
stored figure, the clone's and what the clone's place among adapters and targets
stands for to be in that order (`Ahead`): a lost write leaves the first behind and
the next one still goes up (`ProgressGrows`, `WriteAdvances`).

**The log.**  `Undisturbed` is what holds while nobody has raced: at most one
call is at the log, the log verifies, what that call holds is linked to the
log's last entry and the slice it read is the log, and every job let through
since the start is entered or about to be.  `GateAccounts` follows from the gate
alone, and is carried by the types of calls and jobs.

**Evidence.**  `Inv` carries that a run under way is on record (`OnRecord`),
that what it is compared with, and what a notification speaks of, are completed
runs whose findings no later step changes (`BaselineStands`, `NoticeStands`), and
that each finding is a just fold of the reports taken so far (`Tallied`); the
step is lemma `MergeIsJust`.  That the latest of some runs exists is the
well-foundedness of the naturals (`HasLeast`).  `LedgerInv` adds that a run knows
whether it is on record (`RecordedKnown`) and, while runs follow one another,
that the one under way is the last (`OneAtATime`), is compared with the last
completed one before it (`ComparedWithLast`), and has left astray what it told
without being on record (`UnrecordedAstray`) -- such a run can still get on
record when its baseline is noted.  A receiver's step from the baseline to the
run is `ToldRight` where the run has something to tell and `Carries` where it
has not.

**The console.**  `ConsoleInv` adds to the types that an outcome is of two runs
under two tiers and that a request under way, or answered by the sidecar, is one
that might be asked (`Standing`): the finding was shown when it was asked about, a
disappearance had the status the comparison gives it.  `EngineSpeaksFirst` and
`ExplainedIsShown` follow.  `AccountsAgree` needs beside it that what a run found was
reported by a check of a processed target (`RunReports`): a finding at a target
that is explained as skipped would else have it drawn as assessed.
`SurfaceWhole` needs no more than the types, as it is a statement about one
outcome; its proof is that of a partition.  The sizes of
disjoint parts have a sum (`SumExists`), only one (`SumUnique`), and it is the
size of their union (`SumTotal`); the total of a node is that of its own findings and of the
disjoint totals of its children (`TotalParts`); the way up from a finding goes
over at most three nodes to a root (`WayUp`), and that root is the most specific
declared target covering its host (`RootIs`).  So the totals of the roots are
what is shown (`WholeCount`), whichever places the folding has emptied.

**The checks.**  A lemma for each check (`PortScanReports`, `HeadersReports`, ...;
`CheckReports` puts them together) says that what it reports is `Just`: sound,
about this target, and so of it -- or `Misread`, `Misblamed`, or an absence whose
own probe failed (`Missed`) -- provided that what it was told of this target is
so (`Told`).  None of the exceptions is of a kind that a later check reads
(`ReadIsSo`), so that they do not breed others.  `SoftwareSeen` takes each word
that some evidence spells to what runs there or to the text it was read off.
`ChecksInv` is what makes this hold of every step.  Checks come one after the
other and only one that can be run is ever under way (`Order`); the kinds of
findings that others read come from the one check they are meant to come from,
and only such a kind spells versions (`SourcesListed`); what a check wrote of
another target is told apart by the target's name, and no two targets have one
name (`ToldNow`).  A derived check that is through with a target has left nothing
unread (`DerivedSoFar`), and nothing it should have read is added later, because
no check that comes before it is left (`NotYetPassed`); for the cookies that the
headers check reports and `vulnsig` reads, both of one stage, this is the order
in which the profiles list them (`ListedReaders`).  `AsExpected` says that while
no answer is lost the findings are exactly those each check makes when given what
`Alone` gives it; a check reads only the kinds in `Reads` (`ReadsOnly`), and of
those it is told neither more nor less (`HeardInFull`).  A mutant that concludes
open ports at the end breaks precisely this.

**Only model-checked.**  The liveness properties `DueIsServed`, `EveryJobEnds`
and `Answered`: liveness under fairness is out of the prover's reach.  Every
other property of a passing run is a theorem.  The other way round,
`SavedOvershootBounded` is stated with its proof and checked by no run: it takes
three saves that race to come near the bound, and the runs of `Reassess` spend
their requests elsewhere.

## 6. Not modelled

* Probing networks, running subprocesses and their output formats: `Checks`
  takes what a target is like as given.  Cryptographic verification of licence
  keys.  HTML, SVG and wire formats, page assets and the explorer.  The prose of
  a language model, its prompt and the redaction of evidence.  The compliance
  table.  Flags.
* `Cancel`: nothing calls it.
* Corrupt files in the data directory: the store is taken to read back what it
  wrote.
* The memory store has the contract of the file store with `MaxFaults = 0` and no
  restart.
* Scores and remediation texts: carried along, they decide nothing.

## 7. Plan

What would come next, in this order:

1. A ledger for overlapping runs: which transitions two runs that compare with
   one another can lose or repeat.
2. `Jobs` and `Evidence` composed over the same records, with `Checks` as the
   source of reports.

## 8. Running

    tlasany Reassess.tla
    tlc -workers 2 -config MCReassess_restart.cfg MCReassess
    tlc -workers 2 -config MCJobs_run.cfg MCJobs
    tlc -workers 2 -config MCEvidence_runs.cfg MCEvidence
    tlc -workers 2 -config MCConsole_views.cfg MCConsole
    tlc -workers 2 -config MCAuthzLog_gate.cfg MCAuthzLog
    tlc -workers 2 -config MCChecks_all.cfg MCChecks
    tlapm Reassess_proofs.tla
    tlapm Jobs_proofs.tla
    tlapm AuthzLog_proofs.tla
    tlapm Evidence_proofs.tla
    tlapm Ledger_proofs.tla
    tlapm Spacing_proofs.tla
    tlapm Console_proofs.tla
    tlapm Checks_proofs.tla

A run takes up to about two minutes, the proofs a few minutes each.  A violated
run ends with the counterexample of its finding.
