------------------------------ MODULE Console ------------------------------
(* What the console shows of a completed run: the findings a tier lists, the *)
(* surface map, the timeline, and the two explanations, of a finding and of  *)
(* a disappearance, worded by a sidecar that may not answer.  The stored     *)
(* runs do not change here: a behaviour picks them and serves requests.      *)
(*                                                                           *)
(* A host is its labels read from the root, so that a DNS-suffix is a prefix.*)
(* Identities are numbers, in the order of target and identifier.            *)
EXTENDS Findings, Sequences, FiniteSetsExt

CONSTANTS
    Declared,            \* the assessment's targets, each a host
    Hosts,               \* every host, in the order of their labels
    Outside,             \* the root of hosts no declared target covers
    HostOf, PortOf,      \* of each identity; port 0 is none
    Seen,                \* how each identity is reported when it is
    Tiers,               \* of the licence: free and the paid ones
    Configs,             \* tiers with the sidecar's configuration
    ShownCap,            \* findings shown, by tier; 0 lifts the cap
    MaxHostsPerRoot, MaxServicesPerHost,
    MaxRetries           \* of the sidecar's client

Known == {Hosts[i] : i \in DOMAIN Hosts}

Sidecars == {"off", "local", "keyed"}

ASSUME PlaceAssumption ==
    /\ Ids \subseteq Nat \ {0}
    /\ HostOf \in [Ids -> Known] /\ PortOf \in [Ids -> Nat] /\ Seen \in [Ids -> Finding]
    /\ Declared \subseteq Known /\ Outside \notin Known
    /\ MaxHostsPerRoot \in Nat \ {0} /\ MaxServicesPerHost \in Nat \ {0}
    /\ MaxRetries \in Nat /\ ShownCap \in [Tiers -> Nat]
    /\ Tiers \subseteq {"free", "pro", "team"} /\ Configs \subseteq Tiers \X Sidecars

\* A name is a sequence of labels, and a run has only so many findings.
ASSUME HostAssumption == Hosts \in Seq(Seq(STRING))
ASSUME IdsAssumption == IsFiniteSet(Ids)

VARIABLES
    before, now,   \* what the baseline, if there is one, and the run found
    processed,     \* the run's targets that were processed
    outcome,       \* what each check came to on each target
    tier, ai,      \* the licence, and the sidecar's configuration
    req            \* the request being served

stores == <<before, now, processed, outcome, tier, ai>>
vars   == <<before, now, processed, outcome, tier, ai, req>>

\* HasSuffix: a name is under another when it ends in it.
Under(h, r)  == Len(h) > Len(r) /\ SubSeq(h, 1, Len(r)) = r
Covers(r, h) == h = r \/ Under(h, r)

\* The records of a completed run: a target the gate skipped saw no check, a
\* check that is not there is skipped for all, and only a check that ran, to
\* the end or not, has reported.  A host may also be outside what was declared.
RunOutcomes ==
    {o \in [Tools \X Declared -> {"ok", "failed", "skipped", "none"}] :
        /\ \A a \in Tools, t \in Declared : o[<<a, t>>] = "none" <=> t \notin processed
        /\ \A a \in Tools, t, u \in processed : o[<<a, t>>] = "skipped" <=> o[<<a, u>>] = "skipped"}

MayReport(id) ==
    \E a \in Seen[id].tools, t \in processed :
        /\ outcome[<<a, t>>] \in {"ok", "failed"}
        /\ Covers(t, HostOf[id]) \/ \A u \in Declared : ~Covers(u, HostOf[id])

FoundOf(S) == [id \in Ids |-> IF id \in S THEN Seen[id] ELSE NoFinding]

Idle == [pc |-> "idle", kind |-> "none", id |-> 0, attempt |-> 0,
         code |-> 0, available |-> FALSE, status |-> "none"]

Init ==
    /\ processed \in (SUBSET Declared) \ {{}}
    /\ outcome \in RunOutcomes
    /\ now \in {FoundOf(S) : S \in SUBSET {id \in Ids : MayReport(id)}}
    /\ before \in {FoundOf({}), FoundOf(Ids)}
    /\ \E c \in Configs : tier = c[1] /\ ai = c[2]
    /\ req = Idle

TypeOK ==
    /\ before \in [Ids -> Finding \cup {NoFinding}]
    /\ now \in [Ids -> Finding \cup {NoFinding}]
    /\ processed \subseteq Declared
    /\ <<tier, ai>> \in Configs
    /\ req.pc \in {"idle", "call", "wait", "done"}
    /\ req.kind \in {"none", "finding", "disappearance"}
    /\ req.id \in Ids \cup {0} /\ req.attempt \in 0..MaxRetries
    /\ req.code \in {0, 200, 400, 402, 404} /\ req.available \in BOOLEAN
    /\ req.status \in {"none", "target_skipped", "check_failed", "no_longer_detected"}

Precedes == {p \in Ids \X Ids : p[1] < p[2]}

\* The findings list, the surface and the explanations share one cap.
Shown == ApplyCap(now, Precedes, ShownCap[tier])

-----------------------------------------------------------------------------
(* The surface map                                                           *)

\* Mutant: the least specific declared target wins.
RootOfShortest(h) ==
    LET R == {r \in Declared : Covers(r, h)}
    IN IF R = {} THEN Outside ELSE CHOOSE r \in R : \A q \in R : Len(q) >= Len(r)

\* The most specific declared target that covers a host.
RootOf(h) ==
    LET R == {r \in Declared : Covers(r, h)}
    IN IF R = {} THEN Outside ELSE CHOOSE r \in R : \A q \in R : Len(q) <= Len(r)

\* A node: a root, a host under it, a service of either.
Node(root, host, port) == [root |-> root, host |-> host, port |-> port]
RootNode(r) == Node(r, r, 0)

\* A root doubles as the host of its name.
Place(id) == Node(RootOf(HostOf[id]), HostOf[id], PortOf[id])

Parent(n) == IF n.port > 0 THEN [n EXCEPT !.port = 0] ELSE RootNode(n.root)

\* Of the findings S the map is built from: those recorded at a node, and those
\* at and under it.
Own(S, n)    == {id \in S : Place(id) = n}
Total(S, n)  == {id \in S : n \in {Place(id), Parent(Place(id)), RootNode(RootOf(HostOf[id]))}}

Nodes(S) == {Place(id) : id \in S} \cup {Parent(Place(id)) : id \in S}
Roots(S) == {RootNode(r) : r \in Declared \cup {RootOf(HostOf[id]) : id \in S}}
Children(S, n) == {m \in Nodes(S) \ Roots(S) : Parent(m) = n}

Worst(S) == IF S = {} THEN 0 ELSE Max({SeverityRank(Seen[id].sev) : id \in S})

\* A node ranks by what was recorded at it, or else by what is below.
WorstOwn(S, n) == IF Own(S, n) # {} THEN Worst(Own(S, n)) ELSE Worst(Total(S, n))

Position(h) == CHOOSE i \in DOMAIN Hosts : Hosts[i] = h

\* The order of siblings: worst first, then by port, then by label.
DrawnBefore(S, m, n) ==
    \/ WorstOwn(S, m) > WorstOwn(S, n)
    \/ WorstOwn(S, m) = WorstOwn(S, n) /\ m.port < n.port
    \/ WorstOwn(S, m) = WorstOwn(S, n) /\ m.port = n.port /\ Position(m.host) < Position(n.host)

\* The limit follows what the children are.
Limit(S, n) ==
    IF \E c \in Children(S, n) : c.port = 0 THEN MaxHostsPerRoot ELSE MaxServicesPerHost

Drawn(S, n) ==
    LET C == Children(S, n) IN
    IF Cardinality(C) <= Limit(S, n) THEN C
    ELSE {c \in C : Cardinality({d \in C : DrawnBefore(S, d, c)}) < Limit(S, n) - 1}

Folded(S, n) == Children(S, n) \ Drawn(S, n)

\* The findings of the folded group.
More(S, n) == MapThenSumSet(LAMBDA c : Cardinality(Total(S, c)), Folded(S, n))

\* The count rolled up at a drawn node, over services, hosts and roots.
RollUpService(S, n) == Cardinality(Own(S, n))
RollUpHost(S, n) ==
    Cardinality(Own(S, n)) + More(S, n)
        + MapThenSumSet(LAMBDA c : RollUpService(S, c), Drawn(S, n))
RollUpRoot(S, n) ==
    Cardinality(Own(S, n)) + More(S, n)
        + MapThenSumSet(LAMBDA c : RollUpHost(S, c), Drawn(S, n))

-----------------------------------------------------------------------------
(* The timeline                                                              *)

\* Mutant: a target under the host is taken for one that covers it.
AssessedUnder(h) ==
    \/ \E id \in Reported(now) : HostOf[id] = h
    \/ \E t \in processed : Covers(t, h) \/ Covers(h, t)

\* tlState, the cell of a host in a run: it was assessed if something was
\* recorded there or a declared target that covers it was processed.  What is
\* not assessed is drawn as absent, what is and has nothing recorded as clear.
Assessed(h) ==
    \/ \E id \in Reported(now) : HostOf[id] = h
    \/ \E t \in processed : Covers(t, h)

-----------------------------------------------------------------------------
(* Why a finding disappeared                                                 *)

\* Mutant: a check that was skipped has not failed.
CompletedUnlessFailed(a) == \E t \in Declared : outcome[<<a, t>>] \in {"ok", "skipped"}

\* adapterOutcome: the check completed at least one run of the job.
CompletedOnce(a) == \E t \in Declared : outcome[<<a, t>>] = "ok"

\* classifyDisappearance, from what the job recorded.
Classify(id) ==
    IF \E t \in Declared \ processed : t = HostOf[id] THEN "target_skipped"
    ELSE IF \E a \in Seen[id].tools : CompletedOnce(a) THEN "no_longer_detected"
    ELSE "check_failed"

-----------------------------------------------------------------------------
(* Requests                                                                  *)

\* A sidecar that needs a key is for the paid tiers.
AiAllowed == ai # "off" /\ (ai = "keyed" => tier # "free")

Answer(kind, id, code, status) ==
    req' = [Idle EXCEPT !.pc = "done", !.kind = kind, !.id = id, !.code = code,
                        !.status = status]

\* The sidecar is asked, or the answer says at once that it is not available.
Narrate(kind, id, status) ==
    IF AiAllowed
    THEN req' = [Idle EXCEPT !.pc = "call", !.kind = kind, !.id = id, !.status = status]
    ELSE Answer(kind, id, 200, status)

Ready == req.pc = "idle" /\ UNCHANGED stores

\* Mutant: any stored finding can be explained.
ExplainFindingAny(id) ==
    /\ Ready
    /\ IF id \in Reported(now) THEN Narrate("finding", id, "none")
       ELSE Answer("finding", id, 404, "none")

ExplainFinding(id) ==
    /\ Ready
    /\ IF id \in Shown THEN Narrate("finding", id, "none")
       ELSE Answer("finding", id, 404, "none")

ExplainDisappearance(id) ==
    LET entries == Compare(Reported(before) # {}, before, now) IN
    /\ Ready
    /\ \/ tier = "free" /\ Answer("disappearance", id, 402, "none")
       \/ tier # "free" /\ id \notin DOMAIN entries /\ Answer("disappearance", id, 404, "none")
       \/ /\ tier # "free" /\ id \in DOMAIN entries
          /\ IF entries[id] = "resolved" THEN Narrate("disappearance", id, Classify(id))
             ELSE Answer("disappearance", id, 400, "none")

\* What an attempt comes to; all but the last three are not worth another one.
Replies == {"refused by 4xx", "not JSON", "no choices", "not the schema", "empty",
            "answer", "no connection", "5xx", "error body"}
Retryable == {"no connection", "5xx", "error body"}

Done(available) == req' = [req EXCEPT !.pc = "done", !.code = 200, !.available = available]

\* Mutants: the count starts over with each attempt; one attempt too many.
AttemptReset ==
    /\ req.pc = "call" /\ UNCHANGED stores
    /\ \E reply \in Replies :
        IF reply \in Retryable THEN req' = [req EXCEPT !.pc = "wait", !.attempt = 0]
        ELSE Done(reply = "answer")
AttemptOnceMore ==
    /\ req.pc = "call" /\ UNCHANGED stores
    /\ \E reply \in Replies :
        IF reply \in Retryable /\ req.attempt <= MaxRetries
        THEN req' = [req EXCEPT !.pc = "wait"]
        ELSE Done(reply = "answer")

Attempt ==
    /\ req.pc = "call" /\ UNCHANGED stores
    /\ \E reply \in Replies :
        IF reply \in Retryable /\ req.attempt < MaxRetries
        THEN req' = [req EXCEPT !.pc = "wait"]
        ELSE Done(reply = "answer")

\* The next attempt follows, unless the browser has gone.
Backoff ==
    /\ req.pc = "wait" /\ UNCHANGED stores
    /\ \/ req' = [req EXCEPT !.pc = "call", !.attempt = @ + 1]
       \/ Done(FALSE)

\* The answer is written, and the next request may come.
Respond == req.pc = "done" /\ req' = Idle /\ UNCHANGED stores

Next ==
    \/ \E id \in Ids : ExplainFinding(id) \/ ExplainDisappearance(id)
    \/ Attempt \/ Backoff \/ Respond

\* An attempt is bounded by the client's timeout, a wait by its backoff.
Spec == Init /\ [][Next]_vars /\ WF_vars(Attempt) /\ WF_vars(Backoff)

-----------------------------------------------------------------------------
(* Properties                                                                *)

\* The map hides nothing: folded or not, every finding shown is counted at
\* exactly one root, the most specific target that covers its host.
SurfaceWhole ==
    req = Idle => LET S == Shown IN
        /\ MapThenSumSet(LAMBDA n : RollUpRoot(S, n), Roots(S)) = Cardinality(S)
        /\ \A r \in Declared : RollUpRoot(S, RootNode(r)) =
              Cardinality({id \in S : /\ Covers(r, HostOf[id])
                                          /\ ~\E q \in Declared : /\ Under(q, r)
                                                                  /\ Covers(q, HostOf[id])})

\* The timeline and the engine read a run's record each with a rule of its own,
\* a suffix of the name here and the very name there.  Of a declared target they
\* say the same: one drawn as absent is explained as skipped, and one explained
\* as skipped is drawn as assessed only if a target above it was processed.
\* (That says nothing of checks that failed: a processed target is assessed.)
AccountsAgree ==
    req.kind = "disappearance" /\ req.code = 200 /\ HostOf[req.id] \in Declared =>
        LET h == HostOf[req.id] IN
        /\ ~Assessed(h) => req.status = "target_skipped"
        /\ req.status = "target_skipped" /\ Assessed(h) => \E t \in processed : Under(h, t)

\* Whatever becomes of the sidecar, an answer about a disappearance carries the
\* engine's own word, that word agrees with the run's record, and the finding
\* is indeed gone.
EngineSpeaksFirst ==
    req.kind = "disappearance" /\ req.code = 200 =>
        /\ now[req.id] = NoFinding /\ before[req.id] # NoFinding
        /\ req.status # "none"
        /\ req.status = "target_skipped" =>
               \A a \in Tools : outcome[<<a, HostOf[req.id]>>] = "none"
        /\ req.status = "check_failed" =>
               \A a \in Seen[req.id].tools, t \in processed : outcome[<<a, t>>] # "ok"
        /\ req.status = "no_longer_detected" =>
               \E a \in Seen[req.id].tools, t \in processed : outcome[<<a, t>>] = "ok"

\* "A finding the dashboard cannot show cannot be explained either", and only
\* a paid tier reaches a sidecar that needs a key.
ExplainedIsShown ==
    req.available =>
        /\ ai # "off" /\ (ai = "keyed" => tier # "free")
        /\ req.kind = "finding" =>
              /\ now[req.id] # NoFinding
              /\ ShownCap[tier] > 0 =>
                    Cardinality({j \in Reported(now) :
                        SeverityRank(now[j].sev) > SeverityRank(now[req.id].sev)}) < ShownCap[tier]

\* Every request is answered, whether or not the sidecar ever does.
Answered == req.pc \in {"call", "wait"} ~> req.pc = "done"
=============================================================================
