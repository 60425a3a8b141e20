--------------------------- MODULE AuthzLog_proofs ---------------------------
(* For every set of texts, requests and callers: the types of AuthzLog, what *)
(* a job records of the gate's verdict, and that the log keeps its entries   *)
(* and its links as long as submissions do not meet at it.                   *)
EXTENDS AuthzLog, SequenceTheorems, TLAPS

Good(e) == e.operator # Blank /\ e.targets # {}

\* A sequence of good entries.
GoodSeq(l) == \E S : (\A e \in S : Good(e)) /\ l \in Seq(S)

Call(s) == s = [pc |-> s.pc, req |-> s.req, at |-> s.at, entry |-> s.entry, seen |-> s.seen]

\* The job that Submit records of a request.
JobOf(req, entry, since) ==
    LET d == Gate(req) IN
    [state |-> IF d.allowed THEN "queued" ELSE "refused",
     req |-> req, authz |-> entry,
     assessed |-> IF d.allowed THEN d.accepted ELSE {},
     skipped |-> d.skipped, sinceStart |-> since]

-----------------------------------------------------------------------------
(* The gate                                                                  *)

\* A request that is let through has a target and an operator.
LEMMA AllowedHas ==
    ASSUME NEW req \in Requests, Gate(req).allowed
    PROVE  Gate(req).accepted # {} /\ Norm[req.operator] # Blank
BY DEF Gate

\* A target in scope lies under something declared.
LEMMA ScopeIsDeclared ==
    ASSUME NEW t \in Texts, NEW scope \in SUBSET Texts, ValidTarget(t), InScope(t, scope)
    PROVE  InDeclared(HostOf[t], scope)
<1> DEFINE h == HostOf[t]
<1>1. PICK s \in scope :
        IF s \in DOMAIN NetworkOf THEN h \in NetworkOf[s]
        ELSE HostOf[s] # NoHost /\ (h = HostOf[s] \/ Under(h, HostOf[s]))
  BY DEF InScope
<1>2. h \in Seq(STRING) /\ h # <<>>
  BY TextAssumption DEF ValidTarget
<1>3. CASE s \in DOMAIN NetworkOf
  BY <1>1, <1>3 DEF InDeclared
<1>4. CASE s \notin DOMAIN NetworkOf
  <2>1. HostOf[s] \in Seq(STRING) /\ HostOf[s] # <<>>
    BY <1>1, <1>4, TextAssumption
  <2>2. Len(HostOf[s]) \in 1..Len(h) /\ HostOf[s] = SubSeq(h, 1, Len(HostOf[s]))
    <3>1. CASE h = HostOf[s]
      <4>1. Len(h) \in Nat /\ Len(h) # 0
        BY <1>2, EmptySeq, LenProperties
      <4>2. SubSeq(h, 1, Len(h)) = h
        BY <1>2, SubSeqFull
      <4> QED BY <3>1, <4>1, <4>2
    <3>2. CASE Under(h, HostOf[s])
      <4>1. Len(HostOf[s]) \in Nat /\ Len(HostOf[s]) # 0 /\ Len(h) \in Nat
        BY <1>2, <2>1, EmptySeq, LenProperties
      <4> QED BY <3>2, <4>1 DEF Under
    <3> QED BY <1>1, <1>4, <3>1, <3>2
  <2>3. HostOf[s] \in {SubSeq(h, 1, n) : n \in 1..Len(h)}
    BY <2>2
  <2> QED BY <1>4, <2>3 DEF InDeclared
<1> QED BY <1>3, <1>4

\* What GateAccounts says of one job.
Accounts(j) ==
    LET asked == Normalise(j.req.targets) IN
    /\ j.assessed \cap j.skipped = {}
    /\ j.assessed \cup j.skipped \in {{}, asked}
    /\ j.state = "queued" <=> j.assessed # {}
    /\ \A t \in j.assessed :
          /\ j.req.confirmed /\ t \in Normalise(j.req.confirm)
          /\ HostOf[t] \in Assessable
          /\ Normalise(j.req.scope) # {} => InDeclared(HostOf[t], Normalise(j.req.scope))

\* What Submit records of a request accounts for every target of it.
LEMMA JobAccounts ==
    ASSUME NEW req \in Requests, NEW e, NEW b
    PROVE  Accounts(JobOf(req, e, b))
<1> DEFINE j == JobOf(req, e, b)
           targets == Normalise(req.targets)
           scope == Normalise(req.scope)
<1>1. targets \subseteq Texts /\ scope \subseteq Texts
  BY TextAssumption DEF Normalise, Request
<1>2. CASE ~Gate(req).allowed
  <2>1. j.assessed = {} /\ j.state = "refused" /\ j.req = req /\ j.skipped = Gate(req).skipped
    BY <1>2 DEF JobOf
  <2>2. Gate(req).skipped \in {{}, targets}
    BY <1>2 DEF Gate
  <2> QED BY <2>1, <2>2 DEF Accounts
<1>3. CASE Gate(req).allowed
  <2>1. /\ req.confirmed /\ targets = Normalise(req.confirm)
        /\ Gate(req).accepted = Cleared(targets, scope) /\ Gate(req).accepted # {}
        /\ Gate(req).skipped = targets \ Cleared(targets, scope)
    BY <1>3 DEF Gate
  <2>2. /\ j.assessed = Cleared(targets, scope) /\ j.state = "queued" /\ j.req = req
        /\ j.skipped = targets \ Cleared(targets, scope) /\ j.assessed # {}
    BY <1>3, <2>1 DEF JobOf
  <2>3. Cleared(targets, scope) \subseteq targets
    BY DEF Cleared
  <2>4. ASSUME NEW t \in Cleared(targets, scope)
        PROVE  HostOf[t] \in Assessable /\ (scope # {} => InDeclared(HostOf[t], scope))
    <3>1. t \in Texts /\ ValidTarget(t) /\ (scope # {} => InScope(t, scope))
      BY <1>1 DEF Cleared
    <3> QED BY <1>1, <3>1, ScopeIsDeclared DEF ValidTarget
  <2> HIDE DEF j, targets, scope
  <2>5. Accounts(j)
    BY <2>1, <2>2, <2>3, <2>4 DEF Accounts, targets, scope
  <2> QED BY <2>5 DEF j
<1> QED BY <1>2, <1>3

-----------------------------------------------------------------------------
(* What append stores                                                        *)

EnteredIn(l, e) == \E i \in DOMAIN l : l[i] = e

\* A slice that is grown has the entries of those it was grown from.
LEMMA GrownIsSeq ==
    ASSUME NEW S, NEW l \in Seq(S), NEW m \in Seq(S), NEW e, NEW g \in Grown(l, m, e)
    PROVE  g \in Seq(S \cup {e})
<1> DEFINE T == S \cup {e}
           mixed == [i \in 1..Len(l) |-> IF i \in DOMAIN m THEN m[i] ELSE l[i]]
<1>1. l \in Seq(T) /\ m \in Seq(T) /\ e \in T
  BY SeqMonotonic
<1>2. Len(l) \in Nat /\ DOMAIN m = 1..Len(m)
  BY LenProperties
<1>3. \A i \in 1..Len(l) : mixed[i] \in T
  <2> TAKE i \in 1..Len(l)
  <2>1. l[i] \in T
    BY <1>1, ElementOfSeq
  <2>2. i \in DOMAIN m => m[i] \in T
    BY <1>1, <1>2, ElementOfSeq
  <2> QED BY <2>1, <2>2
<1>4. mixed \in [1..Len(l) -> T]
  BY <1>3
<1>5. mixed \in Seq(T)
  <2> HIDE DEF mixed, T
  <2> QED BY <1>2, <1>4, SeqDef
<1>6. Append(l, e) \in Seq(T) /\ Append(mixed, e) \in Seq(T)
  <2> HIDE DEF mixed, T
  <2> QED BY <1>1, <1>5, AppendProperties
<1>7. g = Append(l, e) \/ g = Append(mixed, e)
  BY DEF Grown
<1> QED BY <1>6, <1>7

\* Nobody has put anything in the array meanwhile.
LEMMA GrownAlone ==
    ASSUME NEW S, NEW l \in Seq(S), NEW e, NEW g \in Grown(l, l, e)
    PROVE  g = Append(l, e)
<1>1. l = [i \in 1..Len(l) |-> l[i]] /\ DOMAIN l = 1..Len(l)
  BY LenProperties
<1>2. [i \in 1..Len(l) |-> IF i \in DOMAIN l THEN l[i] ELSE l[i]] = [i \in 1..Len(l) |-> l[i]]
  OBVIOUS
<1> QED BY <1>1, <1>2 DEF Grown

\* An entry linked to the last one.
LinkedTo(e, l) ==
    /\ e.prevHash = LastHash(l)
    /\ e.entryHash = HashOf(e.operator, e.targets, e.at, e.prevHash)

\* An entry linked to the last one keeps the chain, and every entry in it.
LEMMA AppendKeeps ==
    ASSUME NEW S, NEW l \in Seq(S), NEW e, Verifies(l), LinkedTo(e, l)
    PROVE  /\ Verifies(Append(l, e))
           /\ EnteredIn(Append(l, e), e)
           /\ \A x : EnteredIn(l, x) => EnteredIn(Append(l, e), x)
<1> DEFINE T == S \cup {e}
           a == Append(l, e)
<1>1. l \in Seq(T) /\ e \in T
  BY SeqMonotonic
<1>2. /\ a \in Seq(T) /\ Len(a) = Len(l) + 1
      /\ \A i \in 1..Len(l) : a[i] = l[i]
      /\ a[Len(l) + 1] = e
  <2> HIDE DEF T
  <2> QED BY <1>1, AppendProperties
<1>3. Len(l) \in Nat /\ DOMAIN l = 1..Len(l) /\ DOMAIN a = 1..(Len(l) + 1)
  BY <1>1, <1>2, LenProperties
<1>4. l = <<>> <=> Len(l) = 0
  BY <1>1, EmptySeq, LenProperties
<1> HIDE DEF a, T
<1>5. Verifies(a)
  <2> SUFFICES ASSUME NEW i \in DOMAIN a
               PROVE  /\ a[i].prevHash = IF i = 1 THEN Genesis ELSE a[i - 1].entryHash
                      /\ a[i].entryHash
                           = HashOf(a[i].operator, a[i].targets, a[i].at, a[i].prevHash)
    BY DEF Verifies
  <2>1. CASE i \in 1..Len(l)
    <3>1. a[i] = l[i] /\ (i # 1 => a[i - 1] = l[i - 1])
      BY <1>2, <1>3, <2>1
    <3> QED BY <1>3, <2>1, <3>1 DEF Verifies
  <2>2. CASE i = Len(l) + 1
    <3>1. a[i] = e /\ (i # 1 => a[i - 1] = l[Len(l)])
      BY <1>2, <1>3, <2>2
    <3>2. i = 1 <=> l = <<>>
      BY <1>3, <1>4, <2>2
    <3> QED BY <3>1, <3>2 DEF LinkedTo, LastHash
  <2> QED BY <1>3, <2>1, <2>2
<1>6. EnteredIn(a, e)
  BY <1>2, <1>3 DEF EnteredIn
<1>7. ASSUME NEW x, EnteredIn(l, x) PROVE EnteredIn(a, x)
  BY <1>2, <1>3, <1>7 DEF EnteredIn
<1> QED BY <1>5, <1>6, <1>7 DEF a

-----------------------------------------------------------------------------
(* The invariant                                                             *)

CallOK(s) ==
    /\ Call(s) /\ GoodSeq(s.seen)
    /\ s.pc \in {"idle", "link", "read", "store", "create"}
    /\ s.req \in Requests /\ s.at \in 0..MaxSubmits
    /\ s.pc \in {"link", "read", "store"} => Gate(s.req).allowed
    /\ s.pc \in {"read", "store"} => Good(s.entry)

JobOK(j) ==
    /\ j.req \in Requests /\ j.sinceStart \in BOOLEAN
    /\ j = JobOf(j.req, j.authz, j.sinceStart)

Types ==
    /\ GoodSeq(log)
    /\ \E S : jobs \in Seq(S)
    /\ \A i \in DOMAIN jobs : JobOK(jobs[i])
    /\ sub = [c \in Callers |-> sub[c]]
    /\ \A c \in Callers : CallOK(sub[c])
    /\ submits \in 0..MaxSubmits /\ faults \in Nat /\ raced \in BOOLEAN

\* While nobody has met anybody at the log: the call that is there holds what
\* the log still says, and whoever has left has its entry in it.
Held(s) ==
    /\ s.pc \in {"read", "store"} =>
         LinkedTo(s.entry, log) /\ s.entry.targets = Gate(s.req).accepted
    /\ s.pc = "store" => s.seen = log
    /\ s.pc = "create" /\ Gate(s.req).allowed =>
         EnteredIn(log, s.entry) /\ s.entry.targets = Gate(s.req).accepted

Kept(j) ==
    Gate(j.req).allowed /\ j.sinceStart =>
        EnteredIn(log, j.authz) /\ j.authz.targets = Gate(j.req).accepted

Undisturbed ==
    ~raced =>
        /\ \A c, d \in AtLog : c = d
        /\ Verifies(log)
        /\ \A c \in Callers : Held(sub[c])
        /\ \A i \in DOMAIN jobs : Kept(jobs[i])

Inv == Types /\ Undisturbed

\* What the gate lets through makes an entry linked to the end of the log.
LEMMA EntryIsGood ==
    ASSUME NEW req \in Requests, NEW at, NEW l, Gate(req).allowed
    PROVE  LET e == Entry(req, at, LastHash(l)) IN
           Good(e) /\ LinkedTo(e, l) /\ e.targets = Gate(req).accepted
BY AllowedHas DEF Entry, Good, LinkedTo

\* Grown from good entries, also by two calls at once, a slice has good ones.
LEMMA GoodGrown ==
    ASSUME NEW l, NEW m, NEW e, GoodSeq(l), GoodSeq(m), Good(e), NEW g \in Grown(l, m, e)
    PROVE  GoodSeq(g)
<1>1. PICK S : (\A x \in S : Good(x)) /\ l \in Seq(S)
  BY DEF GoodSeq
<1>2. PICK T : (\A x \in T : Good(x)) /\ m \in Seq(T)
  BY DEF GoodSeq
<1> DEFINE U == S \cup T
<1>3. l \in Seq(U) /\ m \in Seq(U)
  BY <1>1, <1>2, SeqMonotonic
<1>4. g \in Seq(U \cup {e})
  <2> HIDE DEF U
  <2> QED BY <1>3, GrownIsSeq
<1>5. \A x \in U \cup {e} : Good(x)
  BY <1>1, <1>2
<1> QED BY <1>4, <1>5 DEF GoodSeq

\* A call is at a new place; the others are where they were.
LEMMA CallMoves ==
    ASSUME sub = [d \in Callers |-> sub[d]], NEW c \in Callers, NEW s,
           sub' = [sub EXCEPT ![c] = s]
    PROVE  /\ sub' = [d \in Callers |-> sub'[d]]
           /\ sub'[c] = s /\ \A d \in Callers \ {c} : sub'[d] = sub[d]
BY Zenon

\* What an EXCEPT makes of the record of a call.
LEMMA FieldUpdated ==
    ASSUME NEW s, Call(s), NEW x
    PROVE  /\ [s EXCEPT !.pc = x]
                = [pc |-> x, req |-> s.req, at |-> s.at, entry |-> s.entry, seen |-> s.seen]
           /\ [s EXCEPT !.req = x]
                = [pc |-> s.pc, req |-> x, at |-> s.at, entry |-> s.entry, seen |-> s.seen]
           /\ [s EXCEPT !.at = x]
                = [pc |-> s.pc, req |-> s.req, at |-> x, entry |-> s.entry, seen |-> s.seen]
           /\ [s EXCEPT !.entry = x]
                = [pc |-> s.pc, req |-> s.req, at |-> s.at, entry |-> x, seen |-> s.seen]
           /\ [s EXCEPT !.seen = x]
                = [pc |-> s.pc, req |-> s.req, at |-> s.at, entry |-> s.entry, seen |-> x]
<1>1. [s EXCEPT !.pc = x]
        = [pc |-> x, req |-> s.req, at |-> s.at, entry |-> s.entry, seen |-> s.seen]
  BY DEF Call
<1>2. [s EXCEPT !.req = x]
        = [pc |-> s.pc, req |-> x, at |-> s.at, entry |-> s.entry, seen |-> s.seen]
  BY DEF Call
<1>3. [s EXCEPT !.at = x]
        = [pc |-> s.pc, req |-> s.req, at |-> x, entry |-> s.entry, seen |-> s.seen]
  BY DEF Call
<1>4. [s EXCEPT !.entry = x]
        = [pc |-> s.pc, req |-> s.req, at |-> s.at, entry |-> x, seen |-> s.seen]
  BY DEF Call
<1>5. [s EXCEPT !.seen = x]
        = [pc |-> s.pc, req |-> s.req, at |-> s.at, entry |-> s.entry, seen |-> x]
  BY DEF Call
<1> QED BY <1>1, <1>2, <1>3, <1>4, <1>5, Zenon

\* A call goes on with a new entry, or with the slice it has read.
LEMMA CallUpdated ==
    ASSUME NEW s, Call(s), NEW pc, NEW x
    PROVE  /\ [s EXCEPT !.pc = pc, !.entry = x]
                = [pc |-> pc, req |-> s.req, at |-> s.at, entry |-> x, seen |-> s.seen]
           /\ [s EXCEPT !.pc = pc, !.seen = x]
                = [pc |-> pc, req |-> s.req, at |-> s.at, entry |-> s.entry, seen |-> x]
<1> DEFINE p == [s EXCEPT !.pc = pc]
<1>1. /\ Call(p) /\ p.pc = pc /\ p.req = s.req /\ p.at = s.at
      /\ p.entry = s.entry /\ p.seen = s.seen
  BY FieldUpdated DEF Call
<1>2. /\ [p EXCEPT !.entry = x]
           = [pc |-> p.pc, req |-> p.req, at |-> p.at, entry |-> x, seen |-> p.seen]
      /\ [p EXCEPT !.seen = x]
           = [pc |-> p.pc, req |-> p.req, at |-> p.at, entry |-> p.entry, seen |-> x]
  <2> HIDE DEF p
  <2> QED BY <1>1, FieldUpdated, Zenon
<1>3. /\ [s EXCEPT !.pc = pc, !.entry = x] = [p EXCEPT !.entry = x]
      /\ [s EXCEPT !.pc = pc, !.seen = x] = [p EXCEPT !.seen = x]
  BY Zenon
<1> HIDE DEF p
<1> QED BY <1>1, <1>2, <1>3, Zenon

\* A restart changes of a job only that it is from before it.
LEMMA JobUpdated ==
    ASSUME NEW req, NEW e, NEW b, NEW f
    PROVE  [JobOf(req, e, b) EXCEPT !.sinceStart = f] = JobOf(req, e, f)
<1> DEFINE d == Gate(req)
           state == IF d.allowed THEN "queued" ELSE "refused"
           assessed == IF d.allowed THEN d.accepted ELSE {}
           skipped == d.skipped
           j == JobOf(req, e, b)
<1>1. j = [state |-> state, req |-> req, authz |-> e, assessed |-> assessed,
           skipped |-> skipped, sinceStart |-> b]
  BY DEF JobOf
<1>2. JobOf(req, e, f) = [state |-> state, req |-> req, authz |-> e, assessed |-> assessed,
                          skipped |-> skipped, sinceStart |-> f]
  BY DEF JobOf
<1> HIDE DEF d, state, assessed, skipped, j
<1>3. [j EXCEPT !.sinceStart = f]
        = [state |-> state, req |-> req, authz |-> e, assessed |-> assessed,
           skipped |-> skipped, sinceStart |-> f]
  BY <1>1
<1> QED BY <1>2, <1>3, Zenon DEF j

\* A caller that is idle holds nothing.
LEMMA IdleOK == CallOK(Idle) /\ Idle.pc = "idle" /\ Idle.entry = NoEntry /\ Idle.seen = <<>>
<1>1. GoodSeq(<<>>)
  <2>1. <<>> \in Seq({})
    BY EmptySeq
  <2> QED BY <2>1 DEF GoodSeq
<1>2. (CHOOSE r \in Requests : TRUE) \in Requests
  BY TextAssumption
<1> QED BY <1>1, <1>2, SubmitAssumption DEF CallOK, Call, Idle, At

\* A fresh process has neither jobs nor a log.
LEMMA InitInv == Init => Inv
<1> SUFFICES ASSUME Init PROVE Inv
  OBVIOUS
<1>1. GoodSeq(<<>>)
  BY IdleOK DEF CallOK
<1>2. DOMAIN <<>> = {} /\ <<>> \in Seq({})
  BY EmptySeq, LenProperties
<1>3. sub = [c \in Callers |-> sub[c]] /\ \A c \in Callers : sub[c] = Idle
  BY DEF Init
<1>4. Types
  <2>1. log = <<>> /\ jobs = <<>> /\ submits = 0 /\ faults = 0 /\ raced = FALSE
    BY DEF Init
  <2>2. GoodSeq(log) /\ \E S : jobs \in Seq(S)
    BY <1>1, <1>2, <2>1
  <2>3. \A i \in DOMAIN jobs : JobOK(jobs[i])
    BY <1>2, <2>1
  <2>4. \A c \in Callers : CallOK(sub[c])
    BY <1>3, IdleOK
  <2>5. submits \in 0..MaxSubmits /\ faults \in Nat
    BY <2>1, SubmitAssumption
  <2>6. raced \in BOOLEAN
    BY <2>1
  <2> QED BY <1>3, <2>2, <2>3, <2>4, <2>5, <2>6, Zenon DEF Types
<1>5. Undisturbed
  BY <1>2, <1>3, IdleOK DEF Init, Undisturbed, AtLog, Verifies, Held
<1> QED BY <1>4, <1>5 DEF Inv

\* A stored job is one Submit records.
LEMMA JobAppended ==
    ASSUME Types, NEW req \in Requests, NEW e,
           jobs' = Append(jobs, JobOf(req, e, TRUE))
    PROVE  /\ \E S : jobs' \in Seq(S)
           /\ \A i \in DOMAIN jobs' :
                (jobs'[i] = JobOf(req, e, TRUE)) \/ (i \in DOMAIN jobs /\ jobs'[i] = jobs[i])
           /\ \A i \in DOMAIN jobs' : JobOK(jobs'[i])
<1>1. PICK S : jobs \in Seq(S)
  BY DEF Types
<1> DEFINE j == JobOf(req, e, TRUE)
           T == S \cup {j}
<1>2. jobs \in Seq(T) /\ j \in T
  BY <1>1, SeqMonotonic
<1>3. /\ jobs' \in Seq(T) /\ Len(jobs') = Len(jobs) + 1
      /\ \A i \in 1..Len(jobs) : jobs'[i] = jobs[i]
      /\ jobs'[Len(jobs) + 1] = j
  <2> HIDE DEF T
  <2> QED BY <1>2, AppendProperties
<1>4. Len(jobs) \in Nat /\ DOMAIN jobs = 1..Len(jobs) /\ DOMAIN jobs' = 1..(Len(jobs) + 1)
  BY <1>2, <1>3, LenProperties
<1>5. ASSUME NEW i \in DOMAIN jobs'
      PROVE  (jobs'[i] = j) \/ (i \in DOMAIN jobs /\ jobs'[i] = jobs[i])
  <2> HIDE DEF j, T
  <2>1. i \in 1..Len(jobs) \/ i = Len(jobs) + 1
    BY <1>4
  <2> QED BY <1>3, <1>4, <2>1
<1>6. JobOK(j)
  BY DEF JobOK, JobOf
<1> HIDE DEF j, T
<1>7. \A i \in DOMAIN jobs' : JobOK(jobs'[i])
  BY <1>5, <1>6 DEF Types
<1> QED BY <1>3, <1>5, <1>7 DEF j

\* Every step keeps the types and what jobs account for.
LEMMA TypesStep == Types /\ [Next]_vars => Types'
<1> SUFFICES ASSUME Types, [Next]_vars PROVE Types'
  OBVIOUS
<1> USE DEF Types
<1>1. ASSUME NEW c \in Callers, Submit(c) PROVE Types'
  <2>1. PICK req \in Requests :
          sub' = [sub EXCEPT ![c] = At(IF Gate(req).allowed THEN "link" ELSE "create",
                                       req, submits + 1)]
    BY <1>1 DEF Submit
  <2> DEFINE s == At(IF Gate(req).allowed THEN "link" ELSE "create", req, submits + 1)
  <2>2. Call(s) /\ s.pc = (IF Gate(req).allowed THEN "link" ELSE "create") /\ s.req = req
        /\ s.at = submits + 1 /\ s.entry = NoEntry /\ s.seen = <<>>
    BY DEF At, Call
  <2>3. submits + 1 \in 0..MaxSubmits /\ submits' = submits + 1
    BY <1>1, SubmitAssumption DEF Submit
  <2> HIDE DEF s
  <2>4. CallOK(s)
    BY <2>2, <2>3, IdleOK DEF CallOK
  <2>5. sub' = [d \in Callers |-> sub'[d]] /\ \A d \in Callers : CallOK(sub'[d])
    BY <2>1, <2>4, CallMoves DEF s
  <2>6. raced' \in BOOLEAN /\ UNCHANGED <<log, jobs, faults>>
    BY <1>1 DEF Submit
  <2> QED BY <2>3, <2>5, <2>6
<1>2. ASSUME NEW c \in Callers, Link(c) PROVE Types'
  <2> DEFINE e == Entry(sub[c].req, sub[c].at, LastHash(log))
             s == [pc |-> "read", req |-> sub[c].req, at |-> sub[c].at, entry |-> e,
                   seen |-> sub[c].seen]
  <2>1. CallOK(sub[c]) /\ sub[c].pc = "link"
    BY <1>2 DEF Link
  <2>2. sub' = [sub EXCEPT ![c] = s]
    <3>1. sub' = [sub EXCEPT ![c] = [sub[c] EXCEPT !.pc = "read", !.entry = e]]
      BY <1>2 DEF Link
    <3>2. [sub[c] EXCEPT !.pc = "read", !.entry = e] = s
      <4>1. Call(sub[c])
        BY <2>1 DEF CallOK
      <4> QED BY <4>1, CallUpdated
    <3> QED BY <3>1, <3>2
  <2>3. Good(e)
    BY <2>1, EntryIsGood DEF CallOK
  <2>4. CallOK(s)
    <3> HIDE DEF e
    <3> QED BY <2>1, <2>3 DEF CallOK, Call
  <2> HIDE DEF s
  <2>5. sub' = [d \in Callers |-> sub'[d]] /\ \A d \in Callers : CallOK(sub'[d])
    BY <2>2, <2>4, CallMoves
  <2>6. UNCHANGED <<log, jobs, submits, faults, raced>>
    BY <1>2 DEF Link
  <2> QED BY <2>5, <2>6
<1>3. ASSUME NEW c \in Callers, ReadSlice(c) PROVE Types'
  <2> DEFINE s == [pc |-> "store", req |-> sub[c].req, at |-> sub[c].at,
                   entry |-> sub[c].entry, seen |-> log]
  <2>1. CallOK(sub[c]) /\ sub[c].pc = "read"
    BY <1>3 DEF ReadSlice
  <2>2. sub' = [sub EXCEPT ![c] = s]
    <3>1. sub' = [sub EXCEPT ![c] = [sub[c] EXCEPT !.pc = "store", !.seen = log]]
      BY <1>3 DEF ReadSlice
    <3>2. [sub[c] EXCEPT !.pc = "store", !.seen = log] = s
      <4>1. Call(sub[c])
        BY <2>1 DEF CallOK
      <4> QED BY <4>1, CallUpdated
    <3> QED BY <3>1, <3>2
  <2>4. CallOK(s)
    BY <2>1 DEF CallOK, Call
  <2> HIDE DEF s
  <2>5. sub' = [d \in Callers |-> sub'[d]] /\ \A d \in Callers : CallOK(sub'[d])
    BY <2>2, <2>4, CallMoves
  <2>6. UNCHANGED <<log, jobs, submits, faults, raced>>
    BY <1>3 DEF ReadSlice
  <2> QED BY <2>5, <2>6
<1>4. ASSUME NEW c \in Callers, StoreSlice(c) PROVE Types'
  <2> DEFINE s == [pc |-> "create", req |-> sub[c].req, at |-> sub[c].at,
                   entry |-> sub[c].entry, seen |-> sub[c].seen]
  <2>1. CallOK(sub[c]) /\ sub[c].pc = "store"
    BY <1>4 DEF StoreSlice
  <2>2. sub' = [sub EXCEPT ![c] = s]
    <3>1. sub' = [sub EXCEPT ![c] = [sub[c] EXCEPT !.pc = "create"]]
      BY <1>4 DEF StoreSlice
    <3>2. [sub[c] EXCEPT !.pc = "create"] = s
      <4>1. Call(sub[c])
        BY <2>1 DEF CallOK
      <4> QED BY <4>1, FieldUpdated
    <3> QED BY <3>1, <3>2
  <2>3. GoodSeq(log')
    BY <1>4, <2>1, GoodGrown DEF StoreSlice, CallOK
  <2>4. CallOK(s)
    BY <2>1 DEF CallOK, Call
  <2> HIDE DEF s
  <2>5. sub' = [d \in Callers |-> sub'[d]] /\ \A d \in Callers : CallOK(sub'[d])
    BY <2>2, <2>4, CallMoves
  <2>6. UNCHANGED <<jobs, submits, faults, raced>>
    BY <1>4 DEF StoreSlice
  <2> QED BY <2>3, <2>5, <2>6
<1>5. ASSUME NEW c \in Callers, CreateJob(c) PROVE Types'
  <2>1. CallOK(sub[c]) /\ sub' = [sub EXCEPT ![c] = Idle]
    BY <1>5 DEF CreateJob
  <2>2. sub' = [d \in Callers |-> sub'[d]] /\ \A d \in Callers : CallOK(sub'[d])
    BY <2>1, CallMoves, IdleOK
  <2>3. (\E S : jobs' \in Seq(S)) /\ \A i \in DOMAIN jobs' : JobOK(jobs'[i])
    <3>1. CASE jobs' = Append(jobs, NewJob(c))
      <4>1. sub[c].req \in Requests /\ NewJob(c) = JobOf(sub[c].req, sub[c].entry, TRUE)
        BY <2>1 DEF CallOK, NewJob, JobOf
      <4> QED BY <3>1, <4>1, JobAppended
    <3>2. CASE UNCHANGED jobs
      BY <3>2
    <3> QED BY <1>5, <3>1, <3>2 DEF CreateJob
  <2>4. faults' \in Nat /\ UNCHANGED <<log, submits, raced>>
    BY <1>5 DEF CreateJob
  <2> QED BY <2>2, <2>3, <2>4
<1>6. ASSUME Restart PROVE Types'
  <2>1. /\ log' = <<>> /\ sub' = [c \in Callers |-> Idle] /\ raced' = FALSE
        /\ jobs' = [i \in DOMAIN jobs |-> [jobs[i] EXCEPT !.sinceStart = FALSE]]
        /\ submits' = submits /\ faults' \in Nat
    BY <1>6 DEF Restart
  <2>2. ASSUME NEW i \in DOMAIN jobs' PROVE JobOK(jobs'[i])
    <3> DEFINE j == jobs[i]
    <3>1. JobOK(j) /\ jobs'[i] = [j EXCEPT !.sinceStart = FALSE]
      BY <2>1
    <3>2. [j EXCEPT !.sinceStart = FALSE] = JobOf(j.req, j.authz, FALSE)
      <4>1. j = JobOf(j.req, j.authz, j.sinceStart)
        BY <3>1, Zenon DEF JobOK
      <4>2. \A f : [JobOf(j.req, j.authz, j.sinceStart) EXCEPT !.sinceStart = f]
              = JobOf(j.req, j.authz, f)
        BY JobUpdated
      <4> HIDE DEF j
      <4> QED BY <4>1, <4>2, Zenon
    <3>3. JobOK(JobOf(j.req, j.authz, FALSE))
      BY <3>1 DEF JobOK, JobOf
    <3> QED BY <3>1, <3>2, <3>3
  <2>3. \E S : jobs' \in Seq(S)
    <3>1. PICK S : jobs \in Seq(S)
      OBVIOUS
    <3> DEFINE T == {jobs'[i] : i \in DOMAIN jobs}
    <3>2. Len(jobs) \in Nat /\ DOMAIN jobs = 1..Len(jobs)
      BY <3>1, LenProperties
    <3>3. jobs' \in [1..Len(jobs) -> T]
      BY <2>1, <3>2
    <3> HIDE DEF T
    <3>4. jobs' \in Seq(T)
      BY <3>2, <3>3, SeqDef
    <3> QED BY <3>4
  <2>4. GoodSeq(<<>>) /\ \A c \in Callers : CallOK(Idle)
    BY IdleOK DEF CallOK
  <2> QED BY <2>1, <2>2, <2>3, <2>4
<1>7. CASE UNCHANGED vars
  BY <1>7 DEF vars
<1> QED BY <1>1, <1>2, <1>3, <1>4, <1>5, <1>6, <1>7 DEF Next

-----------------------------------------------------------------------------
(* The log, while nobody has met anybody at it                               *)

\* What is kept of a job depends on the log and the job only.
LEMMA KeptStays ==
    ASSUME NEW j, Kept(j), \A x : EnteredIn(log, x) => EnteredIn(log', x)
    PROVE  Kept(j)'
BY DEF Kept

\* Every step keeps the log of calls that do not meet.
LEMMA UndisturbedStep == Inv /\ [Next]_vars => Undisturbed'
<1> SUFFICES ASSUME Inv, [Next]_vars, ~raced' PROVE
        /\ (\A c, d \in AtLog : c = d)'
        /\ Verifies(log')
        /\ \A c \in Callers : Held(sub[c])'
        /\ \A i \in DOMAIN jobs' : Kept(jobs[i])'
  BY DEF Undisturbed
<1> USE DEF Inv
<1>0. Types /\ sub = [d \in Callers |-> sub[d]] /\ \A d \in Callers : CallOK(sub[d])
  BY DEF Types
<1>1. ASSUME NEW c \in Callers, Submit(c)
      PROVE  /\ (\A a, d \in AtLog : a = d)'
             /\ Verifies(log')
             /\ \A d \in Callers : Held(sub[d])'
             /\ \A i \in DOMAIN jobs' : Kept(jobs[i])'
  <2>1. PICK req \in Requests :
          /\ sub' = [sub EXCEPT ![c] = At(IF Gate(req).allowed THEN "link" ELSE "create",
                                          req, submits + 1)]
          /\ raced' = (raced \/ (Gate(req).allowed /\ AtLog # {}))
    BY <1>1 DEF Submit
  <2>2. ~raced /\ log' = log /\ jobs' = jobs /\ sub[c].pc = "idle"
    BY <1>1, <2>1 DEF Submit
  <2> DEFINE s == At(IF Gate(req).allowed THEN "link" ELSE "create", req, submits + 1)
  <2>3. s.pc = (IF Gate(req).allowed THEN "link" ELSE "create") /\ s.req = req
    BY DEF At
  <2> HIDE DEF s
  <2>4. sub'[c] = s /\ \A d \in Callers \ {c} : sub'[d] = sub[d]
    BY <1>0, <2>1, CallMoves DEF s
  <2>5. Gate(req).allowed => AtLog = {}
    BY <2>1
  <2>a. /\ Gate(req).allowed => sub'[c].pc = "link"
        /\ ~Gate(req).allowed => sub'[c].pc = "create"
        /\ sub'[c].req = req
    BY <2>3, <2>4
  <2>6. AtLog' \subseteq {c} \/ AtLog' \subseteq AtLog
    BY <2>4, <2>5, <2>a DEF AtLog
  <2>7. (\A a, d \in AtLog : a = d)'
    BY <2>2, <2>6 DEF Undisturbed
  <2>8. ASSUME NEW d \in Callers PROVE Held(sub[d])'
    <3>1. CASE d = c
      BY <2>a, <3>1 DEF Held
    <3>2. CASE d # c
      BY <2>2, <2>4, <3>2 DEF Held, Undisturbed
    <3> QED BY <3>1, <3>2
  <2>9. \A i \in DOMAIN jobs' : Kept(jobs[i])'
    BY <2>2 DEF Kept, Undisturbed
  <2> QED BY <2>2, <2>7, <2>8, <2>9 DEF Undisturbed
<1>2. ASSUME NEW c \in Callers, Link(c)
      PROVE  /\ (\A a, d \in AtLog : a = d)'
             /\ Verifies(log')
             /\ \A d \in Callers : Held(sub[d])'
             /\ \A i \in DOMAIN jobs' : Kept(jobs[i])'
  <2> DEFINE e == Entry(sub[c].req, sub[c].at, LastHash(log))
  <2>1. /\ ~raced /\ log' = log /\ jobs' = jobs /\ sub[c].pc = "link"
        /\ sub' = [sub EXCEPT ![c] = [sub[c] EXCEPT !.pc = "read", !.entry = e]]
    BY <1>2 DEF Link
  <2>2. CallOK(sub[c]) /\ Gate(sub[c].req).allowed
    BY <1>0, <2>1 DEF CallOK
  <2>3. LinkedTo(e, log) /\ e.targets = Gate(sub[c].req).accepted
    BY <2>2, EntryIsGood DEF CallOK
  <2> HIDE DEF e
  <2>4. /\ sub'[c] = [sub[c] EXCEPT !.pc = "read", !.entry = e]
        /\ \A d \in Callers \ {c} : sub'[d] = sub[d]
    BY <1>0, <2>1, CallMoves
  <2>5. sub'[c].pc = "read" /\ sub'[c].entry = e /\ sub'[c].req = sub[c].req
    <3>1. Call(sub[c])
      BY <2>2 DEF CallOK
    <3>2. [sub[c] EXCEPT !.pc = "read", !.entry = e]
            = [pc |-> "read", req |-> sub[c].req, at |-> sub[c].at, entry |-> e,
               seen |-> sub[c].seen]
      BY <3>1, CallUpdated
    <3> QED BY <2>4, <3>2
  <2>6. AtLog' \subseteq AtLog
    BY <2>1, <2>4 DEF AtLog
  <2>7. ASSUME NEW d \in Callers PROVE Held(sub[d])'
    <3>1. CASE d = c
      BY <2>1, <2>3, <2>5, <3>1 DEF Held, LinkedTo
    <3>2. CASE d # c
      BY <2>1, <2>4, <3>2 DEF Held, Undisturbed
    <3> QED BY <3>1, <3>2
  <2> QED BY <2>1, <2>6, <2>7 DEF Undisturbed, Kept
<1>3. ASSUME NEW c \in Callers, ReadSlice(c)
      PROVE  /\ (\A a, d \in AtLog : a = d)'
             /\ Verifies(log')
             /\ \A d \in Callers : Held(sub[d])'
             /\ \A i \in DOMAIN jobs' : Kept(jobs[i])'
  <2>1. /\ ~raced /\ log' = log /\ jobs' = jobs /\ sub[c].pc = "read"
        /\ sub' = [sub EXCEPT ![c] = [sub[c] EXCEPT !.pc = "store", !.seen = log]]
    BY <1>3 DEF ReadSlice
  <2>2. CallOK(sub[c]) /\ Held(sub[c])
    BY <1>0, <2>1 DEF Undisturbed
  <2>3. /\ sub'[c] = [sub[c] EXCEPT !.pc = "store", !.seen = log]
        /\ \A d \in Callers \ {c} : sub'[d] = sub[d]
    BY <1>0, <2>1, CallMoves
  <2>4. /\ sub'[c].pc = "store" /\ sub'[c].entry = sub[c].entry
        /\ sub'[c].req = sub[c].req /\ sub'[c].seen = log
    <3>1. Call(sub[c])
      BY <2>2 DEF CallOK
    <3>2. [sub[c] EXCEPT !.pc = "store", !.seen = log]
            = [pc |-> "store", req |-> sub[c].req, at |-> sub[c].at,
               entry |-> sub[c].entry, seen |-> log]
      BY <3>1, CallUpdated
    <3> QED BY <2>3, <3>2
  <2>5. AtLog' \subseteq AtLog
    BY <2>1, <2>3 DEF AtLog
  <2>6. ASSUME NEW d \in Callers PROVE Held(sub[d])'
    <3>1. CASE d = c
      BY <2>1, <2>2, <2>4, <3>1 DEF Held, LinkedTo
    <3>2. CASE d # c
      BY <2>1, <2>3, <3>2 DEF Held, Undisturbed
    <3> QED BY <3>1, <3>2
  <2> QED BY <2>1, <2>5, <2>6 DEF Undisturbed, Kept
<1>4. ASSUME NEW c \in Callers, StoreSlice(c)
      PROVE  /\ (\A a, d \in AtLog : a = d)'
             /\ Verifies(log')
             /\ \A d \in Callers : Held(sub[d])'
             /\ \A i \in DOMAIN jobs' : Kept(jobs[i])'
  <2> DEFINE e == sub[c].entry
  <2>1. /\ ~raced /\ jobs' = jobs /\ sub[c].pc = "store"
        /\ log' \in Grown(sub[c].seen, log, e)
        /\ sub' = [sub EXCEPT ![c] = [sub[c] EXCEPT !.pc = "create"]]
    BY <1>4 DEF StoreSlice
  <2>2. CallOK(sub[c]) /\ Held(sub[c])
    BY <1>0, <2>1 DEF Undisturbed
  <2>3. LinkedTo(e, log) /\ e.targets = Gate(sub[c].req).accepted /\ sub[c].seen = log
    BY <2>1, <2>2 DEF Held
  <2>4. log' = Append(log, e)
    <3>1. PICK S : log \in Seq(S)
      BY <1>0 DEF Types, GoodSeq
    <3>2. log' \in Grown(log, log, e)
      BY <2>1, <2>3
    <3> HIDE DEF e
    <3> QED BY <3>1, <3>2, GrownAlone
  <2>5. /\ Verifies(log') /\ EnteredIn(log', e)
        /\ \A x : EnteredIn(log, x) => EnteredIn(log', x)
    <3>1. PICK S : log \in Seq(S)
      BY <1>0 DEF Types, GoodSeq
    <3>2. Verifies(log)
      BY <2>1 DEF Undisturbed
    <3> HIDE DEF e
    <3> QED BY <2>3, <2>4, <3>1, <3>2, AppendKeeps
  <2>6. /\ sub'[c] = [sub[c] EXCEPT !.pc = "create"]
        /\ \A d \in Callers \ {c} : sub'[d] = sub[d]
    BY <1>0, <2>1, CallMoves
  <2>7. sub'[c].pc = "create" /\ sub'[c].entry = e /\ sub'[c].req = sub[c].req
    BY <2>2, <2>6, FieldUpdated DEF CallOK
  <2>8. AtLog' \subseteq AtLog
    BY <2>1, <2>6, <2>7 DEF AtLog
  <2>9. ASSUME NEW d \in Callers PROVE Held(sub[d])'
    <3>1. CASE d = c
      BY <2>3, <2>5, <2>7, <3>1 DEF Held
    <3>2. CASE d # c
      <4>1. sub'[d] = sub[d] /\ Held(sub[d])
        BY <2>1, <2>6, <3>2 DEF Undisturbed
      <4>2. sub[d].pc \notin {"read", "store"}
        BY <2>1, <3>2 DEF Undisturbed, AtLog
      <4> QED BY <2>5, <4>1, <4>2 DEF Held
    <3> QED BY <3>1, <3>2
  <2>10. \A i \in DOMAIN jobs' : Kept(jobs[i])'
    BY <2>1, <2>5, KeptStays DEF Undisturbed, Kept
  <2> QED BY <2>1, <2>5, <2>8, <2>9, <2>10 DEF Undisturbed
<1>5. ASSUME NEW c \in Callers, CreateJob(c)
      PROVE  /\ (\A a, d \in AtLog : a = d)'
             /\ Verifies(log')
             /\ \A d \in Callers : Held(sub[d])'
             /\ \A i \in DOMAIN jobs' : Kept(jobs[i])'
  <2>1. /\ ~raced /\ log' = log /\ sub[c].pc = "create"
        /\ sub' = [sub EXCEPT ![c] = Idle]
    BY <1>5 DEF CreateJob
  <2>2. CallOK(sub[c]) /\ Held(sub[c])
    BY <1>0, <2>1 DEF Undisturbed
  <2>3. sub'[c] = Idle /\ \A d \in Callers \ {c} : sub'[d] = sub[d]
    BY <1>0, <2>1, CallMoves
  <2>4. AtLog' \subseteq AtLog
    BY <2>3, IdleOK DEF AtLog
  <2>5. ASSUME NEW d \in Callers PROVE Held(sub[d])'
    <3>1. CASE d = c
      BY <2>3, <3>1, IdleOK DEF Held
    <3>2. CASE d # c
      BY <2>1, <2>3, <3>2 DEF Held, Undisturbed
    <3> QED BY <3>1, <3>2
  <2>6. \A i \in DOMAIN jobs' : Kept(jobs[i])'
    <3>1. CASE jobs' = Append(jobs, NewJob(c))
      <4> DEFINE j == JobOf(sub[c].req, sub[c].entry, TRUE)
      <4>1. sub[c].req \in Requests /\ NewJob(c) = j
        BY <2>2 DEF CallOK, NewJob, JobOf
      <4>2. \A i \in DOMAIN jobs' : (jobs'[i] = j) \/ (i \in DOMAIN jobs /\ jobs'[i] = jobs[i])
        BY <1>0, <3>1, <4>1, JobAppended
      <4>3. Kept(j)
        BY <2>1, <2>2 DEF Kept, Held, JobOf
      <4> HIDE DEF j
      <4> QED BY <2>1, <4>2, <4>3 DEF Kept, Undisturbed
    <3>2. CASE UNCHANGED jobs
      BY <2>1, <3>2 DEF Kept, Undisturbed
    <3> QED BY <1>5, <3>1, <3>2 DEF CreateJob
  <2> QED BY <2>1, <2>4, <2>5, <2>6 DEF Undisturbed
<1>6. ASSUME Restart
      PROVE  /\ (\A a, d \in AtLog : a = d)'
             /\ Verifies(log')
             /\ \A d \in Callers : Held(sub[d])'
             /\ \A i \in DOMAIN jobs' : Kept(jobs[i])'
  <2>1. /\ log' = <<>> /\ sub' = [c \in Callers |-> Idle]
        /\ jobs' = [i \in DOMAIN jobs |-> [jobs[i] EXCEPT !.sinceStart = FALSE]]
    BY <1>6 DEF Restart
  <2>2. \A d \in Callers : sub'[d].pc = "idle"
    BY <2>1, IdleOK
  <2>3. DOMAIN log' = {}
    BY <2>1, EmptySeq, LenProperties
  <2>4. ASSUME NEW i \in DOMAIN jobs' PROVE ~jobs'[i].sinceStart
    <3>1. JobOK(jobs[i]) /\ jobs'[i] = [jobs[i] EXCEPT !.sinceStart = FALSE]
      BY <1>0, <2>1 DEF Types
    <3>2. [jobs[i] EXCEPT !.sinceStart = FALSE].sinceStart = FALSE
      BY <3>1 DEF JobOK, JobOf
    <3> QED BY <3>1, <3>2
  <2>5. AtLog' = {}
    BY <2>2 DEF AtLog
  <2> QED BY <2>2, <2>3, <2>4, <2>5 DEF Held, Kept, Verifies
<1>7. ASSUME UNCHANGED vars
      PROVE  /\ (\A a, d \in AtLog : a = d)'
             /\ Verifies(log')
             /\ \A d \in Callers : Held(sub[d])'
             /\ \A i \in DOMAIN jobs' : Kept(jobs[i])'
  <2>1. UNCHANGED <<log, jobs, sub, raced>>
    BY <1>7 DEF vars
  <2> QED BY <2>1 DEF Undisturbed, AtLog, Held, Kept
<1> QED BY <1>1, <1>2, <1>3, <1>4, <1>5, <1>6, <1>7 DEF Next

\* The invariant holds in every reachable state.
LEMMA InvAlways == Spec => []Inv
<1>1. Inv /\ [Next]_vars => Inv'
  BY TypesStep, UndisturbedStep DEF Inv
<1> QED BY <1>1, InitInv, PTL DEF Spec

-----------------------------------------------------------------------------
(* Theorems                                                                  *)

\* Whatever is submitted, by however many callers, and however they meet at
\* the log: every entry in it names a person and a target, and every call and
\* job is as Submit and Append leave them (authz.go Gate, Append).
THEOREM LogTypeCorrect == Spec => []TypeOK
<1>1. Inv => TypeOK
  <2> SUFFICES ASSUME Inv PROVE TypeOK
    OBVIOUS
  <2>1. \A i \in DOMAIN log : log[i].operator # Blank /\ log[i].targets # {}
    <3>1. PICK S : (\A e \in S : Good(e)) /\ log \in Seq(S)
      BY DEF Inv, Types, GoodSeq
    <3>2. \A i \in DOMAIN log : log[i] \in S
      BY <3>1, LenProperties, ElementOfSeq
    <3> QED BY <3>1, <3>2 DEF Good
  <2>2. \A c \in Callers : /\ sub[c].pc \in {"idle", "link", "read", "store", "create"}
                           /\ sub[c].req \in Requests /\ sub[c].at \in 0..MaxSubmits
    BY DEF Inv, Types, CallOK
  <2>3. \A i \in DOMAIN jobs : jobs[i].state \in {"queued", "refused"}
    BY DEF Inv, Types, JobOK, JobOf
  <2>4. \A i \in DOMAIN jobs : jobs[i].req \in Requests /\ jobs[i].sinceStart \in BOOLEAN
    BY DEF Inv, Types, JobOK
  <2>5. submits \in 0..MaxSubmits /\ faults \in Nat /\ raced \in BOOLEAN
    BY DEF Inv, Types
  <2> QED BY <2>1, <2>2, <2>3, <2>4, <2>5, Zenon DEF TypeOK
<1> QED BY <1>1, InvAlways, PTL

\* Nothing is dropped silently, and nothing is assessed outside the scope, for
\* every request and scope (authz.go Gate, orchestrator.go Submit).
THEOREM GateAlwaysAccounts == Spec => []GateAccounts
<1>1. Inv => GateAccounts
  <2> SUFFICES ASSUME Inv, NEW i \in DOMAIN jobs PROVE Accounts(jobs[i])
    BY Zenon DEF GateAccounts, Accounts
  <2>1. jobs[i].req \in Requests /\ jobs[i] = JobOf(jobs[i].req, jobs[i].authz, jobs[i].sinceStart)
    BY DEF Inv, Types, JobOK
  <2>2. Accounts(JobOf(jobs[i].req, jobs[i].authz, jobs[i].sinceStart))
    BY <2>1, JobAccounts
  <2> QED BY <2>1, <2>2, Zenon
<1> QED BY <1>1, InvAlways, PTL

\* As long as no two submissions have been at the log at once since the start,
\* it verifies and holds the entry of every job let through, for any number of
\* callers and submissions, failed writes and restarts (authz.go Append).
THEOREM LogAlwaysKeeps == Spec => []LogKeeps
<1>1. Inv => LogKeeps
  <2> SUFFICES ASSUME Inv, ~raced
               PROVE  /\ Verifies(log)
                      /\ \A i \in DOMAIN jobs : jobs[i].state = "queued" /\ jobs[i].sinceStart =>
                            /\ Entered(jobs[i].authz)
                            /\ jobs[i].authz.targets = jobs[i].assessed
    BY DEF LogKeeps
  <2>1. Verifies(log) /\ \A i \in DOMAIN jobs : Kept(jobs[i])
    BY DEF Inv, Undisturbed
  <2>2. ASSUME NEW i \in DOMAIN jobs, jobs[i].state = "queued", jobs[i].sinceStart
        PROVE  Entered(jobs[i].authz) /\ jobs[i].authz.targets = jobs[i].assessed
    <3>1. JobOK(jobs[i]) /\ Kept(jobs[i])
      BY <2>1 DEF Inv, Types
    <3>2. Gate(jobs[i].req).allowed /\ jobs[i].assessed = Gate(jobs[i].req).accepted
      BY <2>2, <3>1 DEF JobOK, JobOf
    <3> QED BY <2>2, <3>1, <3>2 DEF Kept, Entered, EnteredIn
  <2> QED BY <2>1, <2>2
<1> QED BY <1>1, InvAlways, PTL
=============================================================================
