------------------------------ MODULE AuthzLog ------------------------------
(* The authorisation gate, and the hash-chained log a request is entered in  *)
(* before its job is created.  Submissions run concurrently and nothing      *)
(* guards the log: Append reads the last entry, then reads the slice, then   *)
(* stores a longer one.  The log lives in memory; the jobs that quote its    *)
(* hashes are stored.                                                        *)
(*                                                                           *)
(* What a person types is a Text; what trimming and lower-casing make of it, *)
(* the host in it and the addresses of a network are constants.  A hash is   *)
(* modelled as what it is taken of.                                          *)
EXTENDS Integers, Sequences, FiniteSets

CONSTANTS
    Texts, Blank,     \* what is typed; Blank trims to nothing
    Norm,             \* the trimmed, lower-case form of each text
    HostOf, NoHost,   \* the host in a normal form, labels from the root
    Assessable,       \* hosts that can name an asset
    NetworkOf,        \* of each text that is a CIDR, its addresses
    Requests,         \* what may be submitted
    Callers,          \* concurrent calls of Submit
    MaxSubmits, MaxFaults  \* bounds

Request == [targets : SUBSET Texts, confirm : SUBSET Texts, scope : SUBSET Texts,
            operator : Texts, confirmed : BOOLEAN]

ASSUME TextAssumption ==
    /\ Blank \in Texts /\ Norm \in [Texts -> Texts] /\ Norm[Blank] = Blank
    /\ Requests \subseteq Request /\ Requests # {}
    /\ \A t \in Texts : HostOf[t] # NoHost => HostOf[t] \in Seq(STRING) \ {<<>>}
ASSUME SubmitAssumption == MaxSubmits \in Nat

VARIABLES
    log,      \* the entries of the log
    jobs,     \* the stored jobs, in order of creation
    sub,      \* where each call of Submit stands
    submits,  \* submissions so far
    faults,   \* failed writes and restarts so far
    raced     \* history: two calls have been at the log at once

vars == <<log, jobs, sub, submits, faults, raced>>

-----------------------------------------------------------------------------
(* The gate                                                                  *)

\* normaliseList: sorted and without repetitions, so a set.
Normalise(S) == {Norm[t] : t \in S} \ {Blank}

ValidTarget(t) == HostOf[t] # NoHost /\ HostOf[t] \in Assessable

Under(h, r) == Len(h) > Len(r) /\ SubSeq(h, 1, Len(r)) = r

\* Mutant: a network never matches, and a name matches what is above it.
InScopeAbove(t, scope) ==
    \E s \in scope :
        IF s \in DOMAIN NetworkOf THEN HostOf[t] \in NetworkOf[s]
        ELSE HostOf[s] # NoHost /\ (HostOf[t] = HostOf[s] \/ Under(HostOf[s], HostOf[t]))

\* A CIDR, the host itself, or a domain it is under.
InScope(t, scope) ==
    \E s \in scope :
        IF s \in DOMAIN NetworkOf THEN HostOf[t] \in NetworkOf[s]
        ELSE HostOf[s] # NoHost /\ (HostOf[t] = HostOf[s] \/ Under(HostOf[t], HostOf[s]))

Cleared(targets, scope) ==
    {t \in targets : ValidTarget(t) /\ (scope # {} => InScope(t, scope))}

\* Refusals come in this order, and the first ones look at no target.
Gate(req) ==
    LET targets  == Normalise(req.targets)
        accepted == Cleared(targets, Normalise(req.scope))
    IN
    IF \/ targets = {} \/ Norm[req.operator] = Blank \/ ~req.confirmed
       \/ targets # Normalise(req.confirm)
    THEN [allowed |-> FALSE, accepted |-> {}, skipped |-> {}]
    ELSE [allowed |-> accepted # {}, accepted |-> accepted,
          skipped |-> targets \ accepted]

-----------------------------------------------------------------------------
(* The log                                                                   *)

\* The statement, the same for all, and the declared scope are hashed too and
\* left out.
Genesis == <<>>
HashOf(operator, targets, at, prev) == <<operator, targets, at, prev>>

\* A record at time at, linked to the entry whose hash is prev.  Of an operator
\* Norm stands for the trimmed form.
Entry(req, at, prev) ==
    LET operator == Norm[req.operator]  targets == Gate(req).accepted IN
    [operator |-> operator, targets |-> targets, at |-> at, prevHash |-> prev,
     entryHash |-> HashOf(operator, targets, at, prev)]

\* Mutant: the first entry's hash is what every entry is linked to.
LastHashFirst(l) == IF l = <<>> THEN Genesis ELSE l[1].entryHash

LastHash(l) == IF l = <<>> THEN Genesis ELSE l[Len(l)].entryHash

\* Verify: no broken link.
Verifies(l) ==
    \A i \in DOMAIN l :
        /\ l[i].prevHash = IF i = 1 THEN Genesis ELSE l[i - 1].entryHash
        /\ l[i].entryHash = HashOf(l[i].operator, l[i].targets, l[i].at, l[i].prevHash)

\* What append stores: the slice as it was read, or, if the array has room
\* and is shared, what others have put in its place since; and the entry.
Grown(seen, now, e) ==
    {Append(seen, e),
     Append([i \in 1..Len(seen) |-> IF i \in DOMAIN now THEN now[i] ELSE seen[i]], e)}

NoEntry == Entry([targets |-> {}, confirm |-> {}, scope |-> {}, operator |-> Blank,
                  confirmed |-> FALSE], 0, Genesis)
At(pc, req, at) == [pc |-> pc, req |-> req, at |-> at, entry |-> NoEntry, seen |-> <<>>]
Idle == At("idle", CHOOSE r \in Requests : TRUE, 0)

Init ==
    /\ log = <<>> /\ jobs = <<>>
    /\ sub = [c \in Callers |-> Idle]
    /\ submits = 0 /\ faults = 0 /\ raced = FALSE

\* The calls that are between reading the last entry and storing the slice.
AtLog == {c \in Callers : sub[c].pc \in {"link", "read", "store"}}

TypeOK ==
    /\ \A i \in DOMAIN log : log[i].operator # Blank /\ log[i].targets # {}
    /\ \A c \in Callers : /\ sub[c].pc \in {"idle", "link", "read", "store", "create"}
                          /\ sub[c].req \in Requests /\ sub[c].at \in 0..MaxSubmits
    /\ \A i \in DOMAIN jobs : /\ jobs[i].state \in {"queued", "refused"}
                              /\ jobs[i].req \in Requests /\ jobs[i].sinceStart \in BOOLEAN
    /\ submits \in 0..MaxSubmits /\ faults \in Nat /\ raced \in BOOLEAN

-----------------------------------------------------------------------------
(* Submit                                                                    *)

\* Mutant: a refused request is entered in the log too.
SubmitEntered(c) ==
    /\ sub[c].pc = "idle" /\ submits < MaxSubmits
    /\ \E req \in Requests :
        sub' = [sub EXCEPT ![c] = At("link", req, submits + 1)]
    /\ submits' = submits + 1 /\ raced' = (raced \/ AtLog # {})
    /\ UNCHANGED <<log, jobs, faults>>

\* The gate evaluates a request: a refusal is not entered in the log.
Submit(c) ==
    /\ sub[c].pc = "idle" /\ submits < MaxSubmits
    /\ \E req \in Requests :
        /\ sub' = [sub EXCEPT ![c] = At(IF Gate(req).allowed THEN "link" ELSE "create",
                                       req, submits + 1)]
        /\ raced' = (raced \/ (Gate(req).allowed /\ AtLog # {}))
    /\ submits' = submits + 1
    /\ UNCHANGED <<log, jobs, faults>>

\* Append: the last entry's hash is read,
Link(c) ==
    /\ sub[c].pc = "link"
    /\ sub' = [sub EXCEPT ![c] = [@ EXCEPT !.pc = "read",
                                    !.entry = Entry(sub[c].req, sub[c].at, LastHash(log))]]
    /\ UNCHANGED <<log, jobs, submits, faults, raced>>

\* then the slice,
ReadSlice(c) ==
    /\ sub[c].pc = "read"
    /\ sub' = [sub EXCEPT ![c] = [@ EXCEPT !.pc = "store", !.seen = log]]
    /\ UNCHANGED <<log, jobs, submits, faults, raced>>

\* and the longer slice is stored.
StoreSlice(c) ==
    /\ sub[c].pc = "store"
    /\ log' \in Grown(sub[c].seen, log, sub[c].entry)
    /\ sub' = [sub EXCEPT ![c] = [@ EXCEPT !.pc = "create"]]
    /\ UNCHANGED <<jobs, submits, faults, raced>>

NewJob(c) ==
    LET d == Gate(sub[c].req) IN
    [state |-> IF d.allowed THEN "queued" ELSE "refused",
     req |-> sub[c].req, authz |-> sub[c].entry,
     assessed |-> IF d.allowed THEN d.accepted ELSE {},
     skipped |-> d.skipped, sinceStart |-> TRUE]

\* Refused or not, a job records it; if the write fails there is none.
CreateJob(c) ==
    /\ sub[c].pc = "create"
    /\ \/ jobs' = Append(jobs, NewJob(c)) /\ UNCHANGED faults
       \/ faults < MaxFaults /\ faults' = faults + 1 /\ UNCHANGED jobs
    /\ sub' = [sub EXCEPT ![c] = Idle]
    /\ UNCHANGED <<log, submits, raced>>

\* The process starts again: with the stored jobs and an empty log.
Restart ==
    /\ faults < MaxFaults /\ faults' = faults + 1
    /\ log' = <<>> /\ sub' = [c \in Callers |-> Idle] /\ raced' = FALSE
    /\ jobs' = [i \in DOMAIN jobs |-> [jobs[i] EXCEPT !.sinceStart = FALSE]]
    /\ UNCHANGED submits

Next ==
    \/ \E c \in Callers :
        Submit(c) \/ Link(c) \/ ReadSlice(c) \/ StoreSlice(c) \/ CreateJob(c)
    \/ Restart

Spec == Init /\ [][Next]_vars

-----------------------------------------------------------------------------
(* Properties                                                                *)

\* "Nothing is dropped silently": each target a person asked for, typed twice,
\* is assessed or skipped, never both, unless the job was refused before any
\* target was looked at; and what is assessed lies in the scope declared.
InDeclared(h, scope) ==
    \E s \in scope : \/ s \in DOMAIN NetworkOf /\ h \in NetworkOf[s]
                     \/ s \notin DOMAIN NetworkOf /\ HostOf[s] \in {SubSeq(h, 1, n) : n \in 1..Len(h)}

GateAccounts ==
    \A i \in DOMAIN jobs :
        LET j == jobs[i]  asked == Normalise(j.req.targets) IN
        /\ j.assessed \cap j.skipped = {}
        /\ j.assessed \cup j.skipped \in {{}, asked}
        /\ j.state = "queued" <=> j.assessed # {}
        /\ \A t \in j.assessed :
              /\ j.req.confirmed /\ t \in Normalise(j.req.confirm)
              /\ HostOf[t] \in Assessable
              /\ Normalise(j.req.scope) # {} => InDeclared(HostOf[t], Normalise(j.req.scope))

\* "No job reaches the orchestrator until ... the whole statement has been
\* appended": as long as no two submissions were at the log at once, the log
\* verifies and has an entry of every job that was let through since the start.
Entered(e) == \E i \in DOMAIN log : log[i] = e

LogKeeps ==
    ~raced => /\ Verifies(log)
              /\ \A i \in DOMAIN jobs : jobs[i].state = "queued" /\ jobs[i].sinceStart =>
                    /\ Entered(jobs[i].authz)
                    /\ jobs[i].authz.targets = jobs[i].assessed

\* "An entry cannot be altered or removed without breaking every entry after
\* it": a log that verifies still has the entries of the jobs let through.
LossShows ==
    Verifies(log) => \A i \in DOMAIN jobs :
        jobs[i].state = "queued" /\ jobs[i].sinceStart => Entered(jobs[i].authz)
=============================================================================
