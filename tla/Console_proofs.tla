---------------------------- MODULE Console_proofs ----------------------------
(* What the console shows, for any number of findings, hosts, targets and    *)
(* checks, any limits of the map and any number of retries of the sidecar.   *)
EXTENDS Console, FiniteSetTheorems, SequenceTheorems, WellFoundedInduction, TLAPS

-----------------------------------------------------------------------------
(* Sums over a finite set                                                    *)

\* The order of the naturals.
Less == {p \in Nat \X Nat : p[1] < p[2]}

\* A set of naturals that is not empty has a least element.
LEMMA HasLeast == ASSUME NEW S \in SUBSET Nat, S # {} PROVE \E x \in S : \A y \in S : x <= y
<1>1. IsWellFoundedOn(Less, Nat)
  BY NatLessThanWellFounded DEF OpToRel, Less
<1>2. PICK x \in S : \A y \in S : ~(<<y, x>> \in Less)
  BY <1>1, WFMin
<1>3. ASSUME NEW y \in S PROVE x <= y
  <2>1. <<y, x>> \in Nat \X Nat /\ <<y, x>>[1] = y /\ <<y, x>>[2] = x
    OBVIOUS
  <2> QED BY <1>2, <2>1 DEF Less
<1> QED BY <1>3

\* The values of a function on a finite set are finite.
LEMMA ImageFinite ==
    ASSUME NEW S, IsFiniteSet(S), NEW f, DOMAIN f = S, f = [x \in S |-> f[x]]
    PROVE  IsFiniteSet({f[x] : x \in S})
<1> DEFINE T == {f[x] : x \in S}
<1>1. f \in Surjection(S, T)
  BY DEF Surjection
<1> QED BY <1>1, FS_Surjection

\* Pairwise disjoint parts of a finite set, and what is in some of them.
Parts(F, A, X) ==
    /\ IsFiniteSet(F) /\ IsFiniteSet(X)
    /\ \A c \in F : A[c] \subseteq X
    /\ \A c, d \in F : c # d => A[c] \cap A[d] = {}

Within(A, s) == UNION {A[c] : c \in s}

\* The sum over a set, adding the value of a chosen element to the sum of the rest.
Rest(s)       == s \ {CHOOSE x \in s : TRUE}
Step(F, B, g) == [s \in SUBSET F |->
                    IF s = {} THEN 0 ELSE B[CHOOSE x \in s : TRUE] + g[Rest(s)]]

\* An element of a set that is not empty can be chosen.
LEMMA Chosen == ASSUME NEW s, s # {} PROVE (CHOOSE x \in s : TRUE) \in s
OBVIOUS

\* The sizes of disjoint parts add up as they are taken one by one.
LEMMA PartsStep ==
    ASSUME NEW F, NEW A, NEW X, Parts(F, A, X), NEW s \in SUBSET F, NEW x \in s
    PROVE  /\ Cardinality(Within(A, s)) = Cardinality(A[x]) + Cardinality(Within(A, s \ {x}))
           /\ Cardinality(Within(A, s)) \in Nat /\ Cardinality(A[x]) \in Nat
           /\ Cardinality(Within(A, s \ {x})) \in Nat
<1> DEFINE U == Within(A, s \ {x})
<1>1. Within(A, s) = A[x] \cup U
  BY DEF Within
<1>2. A[x] \cap U = {}
  BY DEF Within, Parts
<1>3. IsFiniteSet(A[x]) /\ IsFiniteSet(U)
  <2>1. A[x] \subseteq X /\ U \subseteq X /\ IsFiniteSet(X)
    BY DEF Within, Parts
  <2> HIDE DEF U
  <2> QED BY <2>1, FS_Subset
<1> HIDE DEF U
<1>4. Cardinality(A[x] \cup U) = Cardinality(A[x]) + Cardinality(U) - Cardinality({})
  BY <1>2, <1>3, FS_Union
<1>5. Cardinality({}) = 0 /\ Cardinality(A[x]) \in Nat /\ Cardinality(U) \in Nat
  BY <1>3, FS_EmptySet, FS_CardinalityType
<1> QED BY <1>1, <1>4, <1>5 DEF U

\* So the sizes of what is within are a sum of the sizes of the parts ...
LEMMA SumExists ==
    ASSUME NEW F, NEW A, NEW X, NEW B, Parts(F, A, X), \A c \in F : B[c] = Cardinality(A[c])
    PROVE  \E g : g = Step(F, B, g)
<1> DEFINE g == [s \in SUBSET F |-> Cardinality(Within(A, s))]
<1>1. ASSUME NEW s \in SUBSET F
      PROVE  g[s] = IF s = {} THEN 0 ELSE B[CHOOSE x \in s : TRUE] + g[Rest(s)]
  <2>1. CASE s = {}
    <3>1. Within(A, s) = {}
      BY <2>1 DEF Within
    <3> QED BY <2>1, <3>1, FS_EmptySet
  <2>2. CASE s # {}
    <3>1. PICK x : x = (CHOOSE y \in s : TRUE)
      OBVIOUS
    <3>2. x \in s
      BY <2>2, <3>1, Chosen
    <3>3. g[s] = Cardinality(A[x]) + g[s \ {x}]
      BY <3>2, PartsStep
    <3> HIDE DEF g
    <3>4. B[x] = Cardinality(A[x])
      BY <3>2
    <3> QED BY <2>2, <3>1, <3>3, <3>4 DEF Rest
  <2> QED BY <2>1, <2>2
<1>2. g = Step(F, B, g)
  <2>1. g = [s \in SUBSET F |-> g[s]]
    OBVIOUS
  <2> HIDE DEF g
  <2> QED BY <1>1, <2>1 DEF Step
<1> QED BY <1>2

\* ... and there is no other.
LEMMA SumUnique ==
    ASSUME NEW F, NEW A, NEW X, NEW B, Parts(F, A, X), \A c \in F : B[c] = Cardinality(A[c]),
           NEW g, g = Step(F, B, g)
    PROVE  g[F] = Cardinality(Within(A, F))
<1> DEFINE bad == {s \in SUBSET F : g[s] # Cardinality(Within(A, s))}
           sizes == {Cardinality(s) : s \in bad}
<1>0. \A s \in SUBSET F : IsFiniteSet(s) /\ Cardinality(s) \in Nat
  BY FS_Subset, FS_CardinalityType DEF Parts
<1>1. \A s \in SUBSET F : g[s] = IF s = {} THEN 0 ELSE B[CHOOSE x \in s : TRUE] + g[Rest(s)]
  BY DEF Step
<1>2. SUFFICES ASSUME bad # {} PROVE FALSE
  OBVIOUS
<1>3. sizes \in SUBSET Nat /\ sizes # {}
  BY <1>0, <1>2
<1>4. PICK n \in sizes : \A m \in sizes : n <= m
  <2> HIDE DEF sizes
  <2> QED BY <1>3, HasLeast
<1>5. PICK s \in bad : n = Cardinality(s)
  OBVIOUS
<1>6. s # {}
  <2>1. ASSUME s = {} PROVE FALSE
    <3>1. Within(A, s) = {}
      BY <2>1 DEF Within
    <3>2. g[s] = 0
      BY <1>1, <2>1
    <3> QED BY <3>1, <3>2, FS_EmptySet
  <2> QED BY <2>1
<1>7. PICK x : x = CHOOSE y \in s : TRUE
  OBVIOUS
<1>8. x \in s
  BY <1>6, <1>7, Chosen
<1>9. Cardinality(s \ {x}) = Cardinality(s) - 1 /\ Cardinality(s) \in Nat
  BY <1>0, <1>8, FS_RemoveElement
<1>10. s \ {x} \notin bad
  <2>1. ASSUME s \ {x} \in bad PROVE FALSE
    <3>1. Cardinality(s \ {x}) \in sizes
      BY <2>1
    <3> HIDE DEF sizes
    <3>2. n <= Cardinality(s \ {x})
      BY <1>4, <3>1
    <3> QED BY <1>5, <1>9, <3>2
  <2> QED BY <2>1
<1>11. g[s \ {x}] = Cardinality(Within(A, s \ {x}))
  BY <1>10
<1>12. g[s] = B[x] + g[s \ {x}]
  BY <1>1, <1>6, <1>7 DEF Rest
<1>13. Cardinality(Within(A, s)) = Cardinality(A[x]) + Cardinality(Within(A, s \ {x}))
  BY <1>8, PartsStep
<1>14. B[x] = Cardinality(A[x])
  BY <1>8
<1> QED BY <1>11, <1>12, <1>13, <1>14

\* The sum of the sizes of totals, each the size of a part, is the size of their union.
LEMMA SumTotal ==
    ASSUME NEW S, NEW F, NEW A, NEW X, Parts(F, A, X), \A c \in F : Cardinality(Total(S, c)) = Cardinality(A[c])
    PROVE  MapThenSumSet(LAMBDA c : Cardinality(Total(S, c)), F) = Cardinality(Within(A, F))
<1> DEFINE B == [c \in F |-> Cardinality(Total(S, c))]
           body(g) == [s \in SUBSET F |->
                         IF s = {} THEN 0
                         ELSE Cardinality(Total(S, CHOOSE x \in s : TRUE)) + g[s \ {CHOOSE x \in s : TRUE}]]
           sum == CHOOSE g : g = body(g)
<1>1. MapThenSumSet(LAMBDA c : Cardinality(Total(S, c)), F) = sum[F]
  BY DEF MapThenSumSet, MapThenFoldSet
<1>2. \A c \in F : B[c] = Cardinality(A[c])
  OBVIOUS
<1>3. ASSUME NEW g PROVE body(g) = Step(F, B, g)
  <2>1. \A s \in SUBSET F : s # {} => B[CHOOSE x \in s : TRUE] = Cardinality(Total(S, CHOOSE x \in s : TRUE))
    BY Chosen
  <2> HIDE DEF B
  <2> QED BY <2>1 DEF Step, Rest
<1> HIDE DEF B, body
<1>4. \E g : g = body(g)
  BY <1>2, <1>3, SumExists
<1>5. sum = Step(F, B, sum)
  BY <1>3, <1>4
<1> HIDE DEF sum
<1> QED BY <1>1, <1>2, <1>5, SumUnique

\* The sum of the counts of services, each the size of a part, is the size of their union.
LEMMA SumService ==
    ASSUME NEW S, NEW F, NEW A, NEW X, Parts(F, A, X), \A c \in F : RollUpService(S, c) = Cardinality(A[c])
    PROVE  MapThenSumSet(LAMBDA c : RollUpService(S, c), F) = Cardinality(Within(A, F))
<1> DEFINE B == [c \in F |-> RollUpService(S, c)]
           body(g) == [s \in SUBSET F |->
                         IF s = {} THEN 0
                         ELSE RollUpService(S, CHOOSE x \in s : TRUE) + g[s \ {CHOOSE x \in s : TRUE}]]
           sum == CHOOSE g : g = body(g)
<1>1. MapThenSumSet(LAMBDA c : RollUpService(S, c), F) = sum[F]
  BY DEF MapThenSumSet, MapThenFoldSet
<1>2. \A c \in F : B[c] = Cardinality(A[c])
  OBVIOUS
<1>3. ASSUME NEW g PROVE body(g) = Step(F, B, g)
  <2>1. \A s \in SUBSET F : s # {} => B[CHOOSE x \in s : TRUE] = RollUpService(S, CHOOSE x \in s : TRUE)
    BY Chosen
  <2> HIDE DEF B
  <2> QED BY <2>1 DEF Step, Rest
<1> HIDE DEF B, body
<1>4. \E g : g = body(g)
  BY <1>2, <1>3, SumExists
<1>5. sum = Step(F, B, sum)
  BY <1>3, <1>4
<1> HIDE DEF sum
<1> QED BY <1>1, <1>2, <1>5, SumUnique

\* The sum of the counts of hosts, each the size of a part, is the size of their union.
LEMMA SumHost ==
    ASSUME NEW S, NEW F, NEW A, NEW X, Parts(F, A, X), \A c \in F : RollUpHost(S, c) = Cardinality(A[c])
    PROVE  MapThenSumSet(LAMBDA c : RollUpHost(S, c), F) = Cardinality(Within(A, F))
<1> DEFINE B == [c \in F |-> RollUpHost(S, c)]
           body(g) == [s \in SUBSET F |->
                         IF s = {} THEN 0
                         ELSE RollUpHost(S, CHOOSE x \in s : TRUE) + g[s \ {CHOOSE x \in s : TRUE}]]
           sum == CHOOSE g : g = body(g)
<1>1. MapThenSumSet(LAMBDA c : RollUpHost(S, c), F) = sum[F]
  BY DEF MapThenSumSet, MapThenFoldSet
<1>2. \A c \in F : B[c] = Cardinality(A[c])
  OBVIOUS
<1>3. ASSUME NEW g PROVE body(g) = Step(F, B, g)
  <2>1. \A s \in SUBSET F : s # {} => B[CHOOSE x \in s : TRUE] = RollUpHost(S, CHOOSE x \in s : TRUE)
    BY Chosen
  <2> HIDE DEF B
  <2> QED BY <2>1 DEF Step, Rest
<1> HIDE DEF B, body
<1>4. \E g : g = body(g)
  BY <1>2, <1>3, SumExists
<1>5. sum = Step(F, B, sum)
  BY <1>3, <1>4
<1> HIDE DEF sum
<1> QED BY <1>1, <1>2, <1>5, SumUnique

\* The sum of the counts of roots, each the size of a part, is the size of their union.
LEMMA SumRoot ==
    ASSUME NEW S, NEW F, NEW A, NEW X, Parts(F, A, X), \A c \in F : RollUpRoot(S, c) = Cardinality(A[c])
    PROVE  MapThenSumSet(LAMBDA c : RollUpRoot(S, c), F) = Cardinality(Within(A, F))
<1> DEFINE B == [c \in F |-> RollUpRoot(S, c)]
           body(g) == [s \in SUBSET F |->
                         IF s = {} THEN 0
                         ELSE RollUpRoot(S, CHOOSE x \in s : TRUE) + g[s \ {CHOOSE x \in s : TRUE}]]
           sum == CHOOSE g : g = body(g)
<1>1. MapThenSumSet(LAMBDA c : RollUpRoot(S, c), F) = sum[F]
  BY DEF MapThenSumSet, MapThenFoldSet
<1>2. \A c \in F : B[c] = Cardinality(A[c])
  OBVIOUS
<1>3. ASSUME NEW g PROVE body(g) = Step(F, B, g)
  <2>1. \A s \in SUBSET F : s # {} => B[CHOOSE x \in s : TRUE] = RollUpRoot(S, CHOOSE x \in s : TRUE)
    BY Chosen
  <2> HIDE DEF B
  <2> QED BY <2>1 DEF Step, Rest
<1> HIDE DEF B, body
<1>4. \E g : g = body(g)
  BY <1>2, <1>3, SumExists
<1>5. sum = Step(F, B, sum)
  BY <1>3, <1>4
<1> HIDE DEF sum
<1> QED BY <1>1, <1>2, <1>5, SumUnique

-----------------------------------------------------------------------------
(* A request, field by field                                                 *)

\* The fields of a request.
Request == [pc : {"idle", "call", "wait", "done"}, kind : {"none", "finding", "disappearance"},
            id : Ids \cup {0}, attempt : 0..MaxRetries, code : {0, 200, 400, 402, 404},
            available : BOOLEAN,
            status : {"none", "target_skipped", "check_failed", "no_longer_detected"}]

\* The steps of a request, field by field.
LEMMA DoneFields ==
    ASSUME NEW available, req \in Request, Done(available)
    PROVE  req' = [pc |-> "done", kind |-> req.kind, id |-> req.id, attempt |-> req.attempt,
                   code |-> 200, available |-> available, status |-> req.status]
BY ZenonT(60) DEF Request, Done

\* A wait changes the stage alone.
LEMMA WaitFields ==
    ASSUME NEW r \in Request, NEW s, s = [r EXCEPT !.pc = "wait"]
    PROVE  s = [pc |-> "wait", kind |-> r.kind, id |-> r.id, attempt |-> r.attempt,
                code |-> r.code, available |-> r.available, status |-> r.status]
BY DEF Request

\* Another attempt is one more.
LEMMA CallFields ==
    ASSUME NEW r \in Request, NEW s, s = [r EXCEPT !.pc = "call", !.attempt = @ + 1]
    PROVE  s = [pc |-> "call", kind |-> r.kind, id |-> r.id, attempt |-> r.attempt + 1,
                code |-> r.code, available |-> r.available, status |-> r.status]
BY ZenonT(60) DEF Request

USE NoFindingAssumption, PlaceAssumption

-----------------------------------------------------------------------------
(* Explanations                                                              *)

\* A request under way, or answered by the sidecar, was one that may be asked:
\* of a finding that is shown, or of one that is gone, with the engine's word.
Standing ==
    /\ req.pc \in {"call", "wait"} \/ req.available => AiAllowed
    /\ req.kind = "finding" /\ (req.pc \in {"call", "wait"} \/ req.available)
         => req.id \in Shown
    /\ req.kind = "disappearance" /\ (req.pc \in {"call", "wait"} \/ req.code = 200)
         => \E id \in Ids : /\ req.id = id /\ req.status = Classify(id)
                            /\ now[id] = NoFinding /\ before[id] # NoFinding
    /\ req.pc = "call" => req.attempt <= MaxRetries
    /\ req.pc = "wait" => req.attempt < MaxRetries

ConsoleInv == TypeOK /\ outcome \in RunOutcomes /\ req \in Request /\ Standing

\* What a run finds is a finding or nothing.
LEMMA FoundOfType ==
    \A S \in SUBSET Ids : FoundOf(S) \in [Ids -> Finding \cup {NoFinding}]
BY DEF FoundOf

\* Any stored runs, before the first request.
LEMMA ConsoleInit == Init => ConsoleInv
<1> SUFFICES ASSUME Init PROVE ConsoleInv
  OBVIOUS
<1>1. before \in [Ids -> Finding \cup {NoFinding}] /\ now \in [Ids -> Finding \cup {NoFinding}]
  <2>1. PICK S \in SUBSET {id \in Ids : MayReport(id)} : now = FoundOf(S)
    BY DEF Init
  <2> QED BY <2>1, FoundOfType DEF Init
<1>2. <<tier, ai>> \in Configs
  <2>1. PICK c \in Configs : tier = c[1] /\ ai = c[2]
    BY DEF Init
  <2>2. c \in Tiers \X Sidecars
    OBVIOUS
  <2>3. c = <<tier, ai>>
    BY <2>1, <2>2
  <2> QED BY <2>3
<1>3. req \in Request /\ Standing
  <2>1. 0 \in 0..MaxRetries
    OBVIOUS
  <2> QED BY <2>1 DEF Init, Idle, Request, Standing
<1>4. outcome \in RunOutcomes /\ processed \subseteq Declared
  BY DEF Init
<1> QED BY <1>1, <1>2, <1>3, <1>4 DEF ConsoleInv, TypeOK, Request

\* The engine has a word for every finding.
LEMMA ClassifyType ==
    \A id : Classify(id) \in {"target_skipped", "check_failed", "no_longer_detected"}
BY DEF Classify

\* A request that is answered at once.
LEMMA AnswerEffect ==
    ASSUME NEW kind, NEW id, NEW code, NEW status, Answer(kind, id, code, status)
    PROVE  req' = [pc |-> "done", kind |-> kind, id |-> id, attempt |-> 0, code |-> code,
                   available |-> FALSE, status |-> status]
BY DEF Answer, Idle

\* The answer given at once, or the first call of the sidecar.
LEMMA NarrateEffect ==
    ASSUME NEW kind, NEW id, NEW status, Narrate(kind, id, status)
    PROVE  \/ /\ AiAllowed
              /\ req' = [pc |-> "call", kind |-> kind, id |-> id, attempt |-> 0, code |-> 0,
                         available |-> FALSE, status |-> status]
           \/ req' = [pc |-> "done", kind |-> kind, id |-> id, attempt |-> 0, code |-> 200,
                      available |-> FALSE, status |-> status]
<1>1. CASE AiAllowed
  BY <1>1 DEF Narrate, Idle
<1>2. CASE ~AiAllowed
  <2>1. Answer(kind, id, 200, status)
    BY <1>2 DEF Narrate
  <2> QED BY <2>1, AnswerEffect
<1> QED BY <1>1, <1>2

\* The type of the request is all that TypeOK says of it.
LEMMA RequestType ==
    ASSUME ConsoleInv, UNCHANGED stores, req' \in Request
    PROVE  TypeOK'
BY DEF ConsoleInv, TypeOK, Request, stores

\* Every request is served within its rights.
LEMMA ConsoleNext == ConsoleInv /\ [Next]_vars => ConsoleInv'
<1> SUFFICES ASSUME ConsoleInv, [Next]_vars PROVE ConsoleInv'
  OBVIOUS
<1>0. UNCHANGED stores
  BY DEF Next, ExplainFinding, ExplainDisappearance, Ready, Attempt, Backoff, Respond, vars, stores
<1>1. UNCHANGED <<Shown, AiAllowed, RunOutcomes>> /\ \A id : Classify(id)' = Classify(id)
  BY <1>0 DEF stores, Shown, AiAllowed, RunOutcomes, Classify, CompletedOnce
<1>2. outcome' \in RunOutcomes'
  BY <1>0, <1>1 DEF ConsoleInv, stores
<1>n. 0 \in 0..MaxRetries
  OBVIOUS
<1>3. ASSUME NEW id \in Ids, ExplainFinding(id) PROVE req' \in Request /\ Standing'
  <2>1. CASE id \in Shown
    <3>1. Narrate("finding", id, "none")
      BY <1>3, <2>1 DEF ExplainFinding
    <3>2. CASE AiAllowed /\ req' = [pc |-> "call", kind |-> "finding", id |-> id, attempt |-> 0,
                                    code |-> 0, available |-> FALSE, status |-> "none"]
      BY <1>1, <1>n, <2>1, <3>2 DEF Request, Standing
    <3>3. CASE req' = [pc |-> "done", kind |-> "finding", id |-> id, attempt |-> 0,
                       code |-> 200, available |-> FALSE, status |-> "none"]
      BY <1>n, <3>3 DEF Request, Standing
    <3> QED BY <3>1, <3>2, <3>3, NarrateEffect
  <2>2. CASE id \notin Shown
    <3>1. Answer("finding", id, 404, "none")
      BY <1>3, <2>2 DEF ExplainFinding
    <3>2. req' = [pc |-> "done", kind |-> "finding", id |-> id, attempt |-> 0,
                  code |-> 404, available |-> FALSE, status |-> "none"]
      BY <3>1, AnswerEffect
    <3> QED BY <1>n, <3>2 DEF Request, Standing
  <2> QED BY <2>1, <2>2
<1>4. ASSUME NEW id \in Ids, ExplainDisappearance(id) PROVE req' \in Request /\ Standing'
  <2> DEFINE entries == Compare(Reported(before) # {}, before, now)
  <2>1. ASSUME NEW code \in {400, 402, 404}, Answer("disappearance", id, code, "none")
        PROVE  req' \in Request /\ Standing'
    <3>1. req' = [pc |-> "done", kind |-> "disappearance", id |-> id, attempt |-> 0,
                  code |-> code, available |-> FALSE, status |-> "none"]
      BY <2>1, AnswerEffect
    <3> QED BY <1>n, <3>1 DEF Request, Standing
  <2>2. ASSUME id \in DOMAIN entries, entries[id] = "resolved",
               Narrate("disappearance", id, Classify(id))
        PROVE  req' \in Request /\ Standing'
    <3>1. now'[id] = NoFinding /\ before'[id] # NoFinding
      BY <1>0, <2>2 DEF Compare, Change, Reported, ConsoleInv, TypeOK, stores
    <3>2. PICK status : status = Classify(id)
      OBVIOUS
    <3>3. status \in {"target_skipped", "check_failed", "no_longer_detected"}
      BY <3>2, ClassifyType
    <3>4. status = Classify(id)'
      BY <1>1, <3>2
    <3>5. CASE AiAllowed /\ req' = [pc |-> "call", kind |-> "disappearance", id |-> id,
                    attempt |-> 0, code |-> 0, available |-> FALSE, status |-> status]
      <4>1. req' \in Request
        BY <1>n, <3>3, <3>5 DEF Request
      <4>2. /\ req'.pc = "call" /\ req'.kind = "disappearance" /\ req'.id = id
            /\ req'.attempt = 0 /\ req'.available = FALSE /\ req'.status = status
        BY <3>5
      <4>3. AiAllowed' /\ 0 <= MaxRetries
        BY <1>1, <3>5
      <4> QED BY <3>1, <3>4, <4>1, <4>2, <4>3 DEF Standing
    <3>6. CASE req' = [pc |-> "done", kind |-> "disappearance", id |-> id, attempt |-> 0,
                       code |-> 200, available |-> FALSE, status |-> status]
      BY <1>n, <3>1, <3>3, <3>4, <3>6 DEF Request, Standing
    <3> QED BY <2>2, <3>2, <3>5, <3>6, NarrateEffect
  <2> QED BY <1>4, <2>1, <2>2 DEF ExplainDisappearance
<1>5. ASSUME Attempt \/ Backoff PROVE req' \in Request /\ Standing'
  <2>1. req.pc \in {"call", "wait"} /\ req \in Request
    BY <1>5 DEF Attempt, Backoff, ConsoleInv
  <2>2. /\ AiAllowed' /\ (req.kind = "finding" => req.id \in Shown')
        /\ req.kind = "disappearance" =>
              \E id \in Ids : /\ req.id = id /\ req.status = Classify(id)'
                              /\ now'[id] = NoFinding /\ before'[id] # NoFinding
    <3>1. AiAllowed /\ (req.kind = "finding" => req.id \in Shown)
      BY <2>1 DEF ConsoleInv, Standing
    <3>2. ASSUME req.kind = "disappearance"
          PROVE  \E id \in Ids : /\ req.id = id /\ req.status = Classify(id)'
                                 /\ now'[id] = NoFinding /\ before'[id] # NoFinding
      <4>1. PICK id \in Ids : /\ req.id = id /\ req.status = Classify(id)
                             /\ now[id] = NoFinding /\ before[id] # NoFinding
        BY <2>1, <3>2 DEF ConsoleInv, Standing
      <4> QED BY <1>0, <1>1, <4>1 DEF stores
    <3> QED BY <1>1, <3>1, <3>2
  <2>3. \/ \E available \in BOOLEAN : Done(available)
        \/ req.attempt < MaxRetries /\ req' = [req EXCEPT !.pc = "wait"]
        \/ req.pc = "wait" /\ req' = [req EXCEPT !.pc = "call", !.attempt = @ + 1]
    BY <1>5 DEF Attempt, Backoff
  <2> DEFINE kept == /\ req' \in Request
                     /\ req'.kind = req.kind /\ req'.id = req.id /\ req'.status = req.status
                     /\ req'.pc = "call" => req'.attempt <= MaxRetries
                     /\ req'.pc = "wait" => req'.attempt < MaxRetries
  <2>4. ASSUME NEW available \in BOOLEAN, Done(available) PROVE kept
    <3>1. req' = [pc |-> "done", kind |-> req.kind, id |-> req.id, attempt |-> req.attempt,
                  code |-> 200, available |-> available, status |-> req.status]
      BY <2>1, <2>4, DoneFields
    <3> QED BY <2>1, <3>1 DEF Request
  <2>5. ASSUME req.attempt < MaxRetries, req' = [req EXCEPT !.pc = "wait"] PROVE kept
    <3>1. req' = [pc |-> "wait", kind |-> req.kind, id |-> req.id, attempt |-> req.attempt,
                  code |-> req.code, available |-> req.available, status |-> req.status]
      BY <2>1, <2>5, WaitFields
    <3>2. req' \in Request
      BY <2>1, <3>1 DEF Request
    <3> QED BY <2>5, <3>1, <3>2
  <2>6. ASSUME req.pc = "wait", req' = [req EXCEPT !.pc = "call", !.attempt = @ + 1]
        PROVE  kept
    <3>1. req.attempt < MaxRetries
      BY <2>6 DEF ConsoleInv, Standing
    <3>2. req' = [pc |-> "call", kind |-> req.kind, id |-> req.id, attempt |-> req.attempt + 1,
                  code |-> req.code, available |-> req.available, status |-> req.status]
      BY <2>1, <2>6, CallFields
    <3>3. req.attempt + 1 \in 0..MaxRetries /\ req.attempt + 1 <= MaxRetries
      BY <2>1, <3>1 DEF Request
    <3>4. req' \in Request
      BY <2>1, <3>2, <3>3 DEF Request
    <3> QED BY <3>2, <3>3, <3>4
  <2>7. kept
    BY <2>3, <2>4, <2>5, <2>6
  <2>8. /\ AiAllowed' /\ (req'.kind = "finding" => req'.id \in Shown')
        /\ req'.kind = "disappearance" =>
              \E id \in Ids : /\ req'.id = id /\ req'.status = Classify(id)'
                              /\ now'[id] = NoFinding /\ before'[id] # NoFinding
    BY <2>2, <2>7
  <2> QED BY <2>7, <2>8 DEF Standing
<1>6. ASSUME Respond PROVE req' \in Request /\ Standing'
  BY <1>n, <1>6 DEF Respond, Idle, Request, Standing
<1>7. ASSUME UNCHANGED vars PROVE req' \in Request /\ Standing'
  BY <1>0, <1>1, <1>7 DEF vars, ConsoleInv, Standing, stores
<1>8. req' \in Request /\ Standing'
  BY <1>3, <1>4, <1>5, <1>6, <1>7 DEF Next
<1> QED BY <1>0, <1>2, <1>8, RequestType DEF ConsoleInv

\* The invariant holds of every behaviour.
LEMMA ConsoleAlways == Spec => []ConsoleInv
BY ConsoleInit, ConsoleNext, PTL DEF Spec

\* The stores and the request keep their types, the count of attempts its bound.
THEOREM ConsoleTypeCorrect == Spec => []TypeOK
BY ConsoleAlways, PTL DEF ConsoleInv

\* The engine's word is about what the run recorded.
LEMMA EngineFollows == ConsoleInv => EngineSpeaksFirst
<1> SUFFICES ASSUME ConsoleInv, req.kind = "disappearance", req.code = 200
             PROVE  EngineSpeaksFirst
  BY DEF EngineSpeaksFirst
<1>1. PICK id \in Ids : /\ req.id = id /\ req.status = Classify(id)
                       /\ now[id] = NoFinding /\ before[id] # NoFinding
  BY DEF ConsoleInv, Standing
<1>2. /\ \A a \in Tools, t \in Declared : outcome[<<a, t>>] = "none" <=> t \notin processed
      /\ processed \subseteq Declared
  BY DEF ConsoleInv, RunOutcomes, TypeOK
<1>3. Seen[id].tools \subseteq Tools
  BY DEF Finding
<1>4. ASSUME Classify(id) = "target_skipped"
      PROVE  \A a \in Tools : outcome[<<a, HostOf[id]>>] = "none"
  <2>1. HostOf[id] \in Declared \ processed
    BY <1>4 DEF Classify
  <2> QED BY <1>2, <2>1
<1>5. ASSUME Classify(id) = "check_failed"
      PROVE  \A a \in Seen[id].tools, t \in processed : outcome[<<a, t>>] # "ok"
  <2>1. \A a \in Seen[id].tools : ~CompletedOnce(a)
    BY <1>5 DEF Classify
  <2>2. ASSUME NEW a \in Seen[id].tools, NEW t \in processed PROVE outcome[<<a, t>>] # "ok"
    BY <1>2, <2>1, <2>2 DEF CompletedOnce
  <2> QED BY <2>2
<1>6. ASSUME Classify(id) = "no_longer_detected"
      PROVE  \E a \in Seen[id].tools, t \in processed : outcome[<<a, t>>] = "ok"
  <2>1. PICK a \in Seen[id].tools, t \in Declared : outcome[<<a, t>>] = "ok"
    BY <1>6 DEF Classify, CompletedOnce
  <2>2. t \in processed
    BY <1>2, <1>3, <2>1
  <2> QED BY <2>1, <2>2
<1>7. Classify(id) # "none"
  BY ClassifyType
<1> QED BY <1>1, <1>4, <1>5, <1>6, <1>7 DEF EngineSpeaksFirst

\* A disappearance is never explained against the record of the run.
THEOREM EngineFirst == Spec => []EngineSpeaksFirst
BY ConsoleAlways, EngineFollows, PTL

\* What a run found is finite.
LEMMA ReportedFinite ==
    ASSUME ConsoleInv
    PROVE  Reported(now) \subseteq Ids /\ IsFiniteSet(Reported(now))
<1>1. Reported(now) \subseteq Ids
  BY DEF Reported, ConsoleInv, TypeOK
<1> QED BY <1>1, IdsAssumption, FS_Subset

\* What is shown is found, within the cap.
LEMMA ShownFollows == ConsoleInv => ExplainedIsShown
<1> SUFFICES ASSUME ConsoleInv, req.available PROVE ExplainedIsShown
  BY DEF ExplainedIsShown
<1>1. AiAllowed /\ (req.kind = "finding" => req.id \in Shown)
  BY DEF ConsoleInv, Standing
<1>2. ShownCap[tier] \in Nat
  <2>1. <<tier, ai>> \in Tiers \X Sidecars
    BY DEF ConsoleInv, TypeOK
  <2> QED BY <2>1
<1>3. ASSUME req.kind = "finding"
      PROVE  /\ now[req.id] # NoFinding
             /\ ShownCap[tier] > 0 =>
                  Cardinality({j \in Reported(now) :
                    SeverityRank(now[j].sev) > SeverityRank(now[req.id].sev)}) < ShownCap[tier]
  <2>1. PICK id : id = req.id
    OBVIOUS
  <2> DEFINE higher == {j \in Reported(now) : SeverityRank(now[j].sev) > SeverityRank(now[id].sev)}
             first  == {j \in Reported(now) : Before(now, Precedes, j, id)}
  <2>2. /\ id \in Reported(now)
        /\ ShownCap[tier] <= 0 \/ Cardinality(first) < ShownCap[tier]
    BY <1>1, <1>3, <2>1 DEF Shown, ApplyCap
  <2>3. higher \subseteq first
    BY DEF Before
  <2>4. IsFiniteSet(first)
    BY ReportedFinite, FS_Subset, first \subseteq Reported(now)
  <2>5. /\ Cardinality(higher) <= Cardinality(first)
        /\ Cardinality(higher) \in Nat /\ Cardinality(first) \in Nat
    BY <2>3, <2>4, FS_Subset, FS_CardinalityType
  <2>6. now[id] # NoFinding
    BY <2>2 DEF Reported
  <2> HIDE DEF first
  <2>7. ShownCap[tier] > 0 => Cardinality(higher) < ShownCap[tier]
    <3> HIDE DEF higher
    <3> QED BY <1>2, <2>2, <2>5
  <2> QED BY <2>1, <2>6, <2>7
<1> QED BY <1>1, <1>3 DEF AiAllowed, ExplainedIsShown

\* The cap and the licence bound what is explained.
THEOREM ExplainedShown == Spec => []ExplainedIsShown
BY ConsoleAlways, ShownFollows, PTL

-----------------------------------------------------------------------------
(* The timeline                                                              *)

\* What a run found was reported by a check of a target it processed.
RunReports == \A id \in Ids : now[id] # NoFinding => MayReport(id)

\* A run's record does not change.
LEMMA ReportsAlways == Spec => []RunReports
<1>1. Init => RunReports
  <2> SUFFICES ASSUME Init, NEW id \in Ids, now[id] # NoFinding PROVE MayReport(id)
    BY DEF RunReports
  <2>1. PICK S \in SUBSET {i \in Ids : MayReport(i)} : now = FoundOf(S)
    BY DEF Init
  <2>2. id \in S
    BY <2>1 DEF FoundOf
  <2> QED BY <2>1, <2>2
<1>2. RunReports /\ [Next]_vars => RunReports'
  <2> SUFFICES ASSUME RunReports, [Next]_vars PROVE RunReports'
    OBVIOUS
  <2>1. UNCHANGED <<now, processed, outcome>>
    BY DEF Next, ExplainFinding, ExplainDisappearance, Ready, Attempt, Backoff, Respond, vars, stores
  <2> QED BY <2>1 DEF RunReports, MayReport
<1> QED BY <1>1, <1>2, PTL DEF Spec

\* A target the engine takes for skipped is drawn as assessed only for what was
\* found, or for a target processed, above it.
LEMMA AccountsFollow == ConsoleInv /\ RunReports => AccountsAgree
<1> SUFFICES ASSUME ConsoleInv, RunReports, req.kind = "disappearance", req.code = 200,
                    HostOf[req.id] \in Declared
             PROVE  AccountsAgree
  BY DEF AccountsAgree
<1>1. PICK id \in Ids : req.id = id /\ req.status = Classify(id)
  BY DEF ConsoleInv, Standing
<1>2. PICK h : h = HostOf[id]
  OBVIOUS
<1>3. h \in Declared /\ processed \subseteq Declared
  BY <1>1, <1>2 DEF ConsoleInv, TypeOK
<1>4. Covers(h, h)
  BY DEF Covers
<1>5. h \notin processed <=> req.status = "target_skipped"
  BY <1>1, <1>2, <1>3 DEF Classify
<1>6. ~Assessed(h) => req.status = "target_skipped"
  BY <1>4, <1>5 DEF Assessed
<1>7. ASSUME req.status = "target_skipped", Assessed(h) PROVE \E t \in processed : Under(h, t)
  <2>1. \E t \in processed : Covers(t, h)
    <3>1. CASE \E i \in Reported(now) : HostOf[i] = h
      <4>1. PICK i \in Ids : now[i] # NoFinding /\ HostOf[i] = h
        BY <3>1 DEF Reported, ConsoleInv, TypeOK
      <4>2. \E u \in Declared : Covers(u, HostOf[i])
        BY <1>3, <1>4, <4>1
      <4>3. MayReport(i)
        BY <4>1 DEF RunReports
      <4>4. PICK t \in processed : Covers(t, HostOf[i]) \/ \A u \in Declared : ~Covers(u, HostOf[i])
        BY <4>3, Zenon DEF MayReport
      <4> QED BY <4>1, <4>2, <4>4
    <3> QED BY <1>7, <3>1 DEF Assessed
  <2>2. PICK t \in processed : Covers(t, h)
    BY <2>1
  <2>3. t # h
    BY <1>5, <1>7, <2>2
  <2> QED BY <2>2, <2>3 DEF Covers
<1> QED BY <1>1, <1>2, <1>6, <1>7 DEF AccountsAgree

\* The timeline and the engine give one account of what was skipped.
THEOREM AccountsAlwaysAgree == Spec => []AccountsAgree
BY ConsoleAlways, ReportsAlways, AccountsFollow, PTL

-----------------------------------------------------------------------------
(* The surface map                                                           *)

\* Two nodes are one if root, host and port are; the parent of each.
LEMMA NodeFacts ==
    ASSUME NEW r, NEW h, NEW p \in Nat
    PROVE  /\ \A s, i, q : Node(r, h, p) = Node(s, i, q) <=> r = s /\ h = i /\ p = q
           /\ Parent(Node(r, h, p)) = IF p > 0 THEN Node(r, h, 0) ELSE RootNode(r)
           /\ RootNode(r) = Node(r, r, 0)
BY DEF Node, RootNode, Parent

\* From where a finding is recorded the way up to its root has at most three
\* nodes, and the parent of each is the next.
LEMMA WayUp ==
    ASSUME NEW S \in SUBSET Ids, NEW id \in S,
           NEW p, p = Place(id), NEW q, q = Parent(p), NEW t, t = RootNode(RootOf(HostOf[id]))
    PROVE  /\ p \in Nodes(S) /\ q \in Nodes(S) /\ t \in Roots(S)
           /\ (p \in Roots(S) <=> p = t) /\ (q \in Roots(S) <=> q = t)
           /\ (p = t => q = t) /\ (p # t => p # q)
           /\ q # t => Parent(q) = t
<1> DEFINE r == RootOf(HostOf[id])
           h == HostOf[id]
           k == PortOf[id]
<1>1. k \in Nat /\ 0 \in Nat
  OBVIOUS
<1>2. p = Node(r, h, k) /\ t = RootNode(r)
  BY DEF Place
<1>3. p \in Nodes(S) /\ q \in Nodes(S) /\ t \in Roots(S)
  BY DEF Nodes, Roots
<1>4. ASSUME NEW i, NEW j \in Nat, Node(r, i, j) \in Roots(S) PROVE Node(r, i, j) = t
  <2>1. PICK s : Node(r, i, j) = RootNode(s)
    BY <1>4 DEF Roots
  <2>2. RootNode(s) = Node(s, s, 0)
    BY <1>1, NodeFacts
  <2>3. r = s
    BY <2>1, <2>2, NodeFacts
  <2> QED BY <1>2, <2>1, <2>3
<1> HIDE DEF r, h, k
<1>5. q = IF k > 0 THEN Node(r, h, 0) ELSE t
  BY <1>1, <1>2, NodeFacts
<1>6. t = Node(r, r, 0)
  BY <1>1, <1>2, NodeFacts
<1>7. CASE k > 0
  <2>1. q = Node(r, h, 0) /\ Parent(q) = t
    BY <1>1, <1>2, <1>5, <1>7, NodeFacts
  <2>2. p # q /\ p # t
    BY <1>1, <1>2, <1>6, <1>7, <2>1, NodeFacts
  <2> QED BY <1>1, <1>2, <1>3, <1>4, <2>1, <2>2
<1>8. CASE ~(k > 0)
  <2>1. q = t
    BY <1>5, <1>8
  <2> QED BY <1>1, <1>2, <1>3, <1>4, <2>1
<1> QED BY <1>7, <1>8

\* What a node totals is on that way.
LEMMA TotalIs ==
    ASSUME NEW S, NEW n
    PROVE  /\ Total(S, n) \subseteq S /\ Own(S, n) \subseteq S
           /\ \A id \in S : /\ id \in Own(S, n) <=> Place(id) = n
                            /\ id \in Total(S, n) <=>
                                 \/ n = Place(id) \/ n = Parent(Place(id))
                                 \/ n = RootNode(RootOf(HostOf[id]))
BY DEF Total, Own

\* The findings at and under a node are its own and, each at one of them, those
\* at and under its children.
LEMMA TotalParts ==
    ASSUME NEW S \in SUBSET Ids, NEW n
    PROVE  /\ \A id \in Total(S, n) :
                id \in Own(S, n) \/ \E c \in Children(S, n) : id \in Total(S, c)
           /\ Own(S, n) \subseteq Total(S, n)
           /\ \A c \in Children(S, n) : /\ Total(S, c) \subseteq Total(S, n)
                                        /\ Total(S, c) \cap Own(S, n) = {}
           /\ \A c, d \in Children(S, n) : c # d => Total(S, c) \cap Total(S, d) = {}
<1> DEFINE P(id) == Place(id)
           Q(id) == Parent(Place(id))
           T(id) == RootNode(RootOf(HostOf[id]))
<1>0. \A c \in Children(S, n) : c \in Nodes(S) /\ c \notin Roots(S) /\ Parent(c) = n
  BY DEF Children
<1>1. ASSUME NEW c, c \in Nodes(S), c \notin Roots(S), Parent(c) = n PROVE c \in Children(S, n)
  BY <1>1 DEF Children
<1>2. ASSUME NEW id \in S
      PROVE  /\ P(id) \in Nodes(S) /\ Q(id) \in Nodes(S) /\ T(id) \in Roots(S)
             /\ (P(id) \in Roots(S) <=> P(id) = T(id)) /\ (Q(id) \in Roots(S) <=> Q(id) = T(id))
             /\ (P(id) = T(id) => Q(id) = T(id)) /\ (P(id) # T(id) => P(id) # Q(id))
             /\ Parent(P(id)) = Q(id) /\ (Q(id) # T(id) => Parent(Q(id)) = T(id))
  BY WayUp
<1>3. \A m : \A id \in S : /\ id \in Own(S, m) <=> P(id) = m
                           /\ id \in Total(S, m) <=> m = P(id) \/ m = Q(id) \/ m = T(id)
  BY TotalIs
<1>4. \A m : Total(S, m) \subseteq S /\ Own(S, m) \subseteq S
  BY TotalIs
<1> HIDE DEF P, Q, T
<1>5. ASSUME NEW id \in Total(S, n), id \notin Own(S, n)
      PROVE  \E c \in Children(S, n) : id \in Total(S, c)
  <2>1. id \in S /\ P(id) # n /\ (n = Q(id) \/ n = T(id))
    BY <1>3, <1>4, <1>5
  <2>2. CASE n = Q(id)
    <3>1. P(id) \in Children(S, n)
      BY <1>1, <1>2, <2>1, <2>2
    <3> QED BY <1>3, <2>1, <3>1
  <2>3. CASE n # Q(id) /\ n = T(id)
    <3>1. Q(id) \in Children(S, n)
      BY <1>1, <1>2, <2>1, <2>3
    <3> QED BY <1>3, <2>1, <3>1
  <2> QED BY <2>1, <2>2, <2>3
<1>6. ASSUME NEW c \in Children(S, n), NEW id \in Total(S, c)
      PROVE  /\ id \in S
             /\ \/ c = P(id) /\ n = Q(id) /\ P(id) # T(id)
                \/ c = Q(id) /\ n = T(id) /\ Q(id) # T(id)
  <2>1. id \in S /\ (c = P(id) \/ c = Q(id) \/ c = T(id))
    BY <1>3, <1>4
  <2> QED BY <1>0, <1>2, <2>1
<1>7. ASSUME NEW c \in Children(S, n)
      PROVE  Total(S, c) \subseteq Total(S, n) /\ Total(S, c) \cap Own(S, n) = {}
  <2>1. ASSUME NEW id \in Total(S, c) PROVE id \in Total(S, n) /\ id \notin Own(S, n)
    BY <1>2, <1>3, <1>6
  <2> QED BY <2>1
<1>8. ASSUME NEW c \in Children(S, n), NEW d \in Children(S, n), c # d
      PROVE  Total(S, c) \cap Total(S, d) = {}
  <2>1. ASSUME NEW id \in Total(S, c), id \in Total(S, d) PROVE FALSE
    BY <1>2, <1>6, <1>8, <2>1
  <2> QED BY <2>1
<1>9. Own(S, n) \subseteq Total(S, n)
  BY <1>3, <1>4
<1> QED BY <1>5, <1>7, <1>8, <1>9

\* Nothing is under a child of a child of a root.
LEMMA LeafTotal ==
    ASSUME NEW S \in SUBSET Ids, NEW n, n \notin Roots(S), NEW c \in Children(S, n)
    PROVE  Total(S, c) = Own(S, c)
<1>0. c \in Nodes(S) /\ c \notin Roots(S) /\ Parent(c) = n
  BY DEF Children
<1>1. ASSUME NEW id \in Total(S, c) PROVE id \in Own(S, c)
  <2>1. id \in S /\ (c = Place(id) \/ c = Parent(Place(id)) \/ c = RootNode(RootOf(HostOf[id])))
    BY TotalIs
  <2>2. /\ RootNode(RootOf(HostOf[id])) \in Roots(S)
        /\ Parent(Place(id)) # RootNode(RootOf(HostOf[id]))
              => Parent(Parent(Place(id))) = RootNode(RootOf(HostOf[id]))
    BY <2>1, WayUp
  <2>3. c = Place(id)
    BY <1>0, <2>1, <2>2
  <2> QED BY <2>1, <2>3, TotalIs
<1>2. ASSUME NEW id \in Own(S, c) PROVE id \in Total(S, c)
  BY TotalIs
<1> QED BY <1>1, <1>2

\* What the map is built from is finite.
LEMMA MapFinite ==
    ASSUME NEW S \in SUBSET Ids, NEW n
    PROVE  IsFiniteSet(S) /\ IsFiniteSet(Children(S, n)) /\ IsFiniteSet(Roots(S))
<1>1. IsFiniteSet(S)
  BY IdsAssumption, FS_Subset
<1>2. IsFiniteSet(Children(S, n))
  <2> DEFINE f == [id \in S |-> Place(id)]
             g == [id \in S |-> Parent(Place(id))]
  <2>1. IsFiniteSet({f[id] : id \in S}) /\ IsFiniteSet({g[id] : id \in S})
    <3>1. f = [id \in S |-> f[id]] /\ g = [id \in S |-> g[id]] /\ DOMAIN f = S /\ DOMAIN g = S
      OBVIOUS
    <3> HIDE DEF f, g
    <3> QED BY <1>1, <3>1, ImageFinite
  <2>2. IsFiniteSet({f[id] : id \in S} \cup {g[id] : id \in S})
    <3> HIDE DEF f, g
    <3> QED BY <2>1, FS_Union
  <2>3. Nodes(S) = {f[id] : id \in S} \cup {g[id] : id \in S}
    BY DEF Nodes
  <2>4. Children(S, n) \subseteq Nodes(S)
    BY DEF Children
  <2> HIDE DEF f, g
  <2> QED BY <2>2, <2>3, <2>4, FS_Subset
<1>3. IsFiniteSet(Declared)
  <2>1. /\ DOMAIN Hosts = 1..Len(Hosts) /\ Len(Hosts) \in Nat
        /\ Hosts = [i \in 1..Len(Hosts) |-> Hosts[i]]
    BY HostAssumption
  <2>2. PICK n1, D : n1 = Len(Hosts) /\ D = 1..n1 /\ n1 \in Int /\ 1 \in Int
    BY <2>1
  <2>3. IsFiniteSet(D)
    BY <2>2, FS_Interval
  <2>4. DOMAIN Hosts = D /\ Hosts = [i \in D |-> Hosts[i]]
    BY <2>1, <2>2
  <2>5. IsFiniteSet({Hosts[i] : i \in D})
    BY <2>3, <2>4, ImageFinite
  <2>6. Known = {Hosts[i] : i \in D}
    BY <2>4 DEF Known
  <2> QED BY <2>5, <2>6, FS_Subset
<1>4. IsFiniteSet(Roots(S))
  <2> DEFINE f == [id \in S |-> RootOf(HostOf[id])]
             D == Declared \cup {f[id] : id \in S}
             g == [r \in D |-> RootNode(r)]
  <2>1. IsFiniteSet({f[id] : id \in S})
    <3>1. f = [id \in S |-> f[id]] /\ DOMAIN f = S
      OBVIOUS
    <3> HIDE DEF f
    <3> QED BY <1>1, <3>1, ImageFinite
  <2>2. IsFiniteSet(D)
    <3> HIDE DEF f
    <3> QED BY <1>3, <2>1, FS_Union
  <2>3. D = Declared \cup {RootOf(HostOf[id]) : id \in S}
    OBVIOUS
  <2> HIDE DEF D, f
  <2>4. IsFiniteSet({g[r] : r \in D})
    <3>1. g = [r \in D |-> g[r]] /\ DOMAIN g = D
      OBVIOUS
    <3> HIDE DEF g
    <3> QED BY <2>2, <3>1, ImageFinite
  <2>5. {g[r] : r \in D} = Roots(S)
    BY <2>3 DEF Roots
  <2> HIDE DEF g
  <2> QED BY <2>4, <2>5
<1> QED BY <1>1, <1>2, <1>4

\* Two disjoint sets of children and what is a node's own add up.
LEMMA Split ==
    ASSUME NEW U, NEW V, NEW W, IsFiniteSet(U), IsFiniteSet(V), IsFiniteSet(W),
           U \cap V = {}, (U \cup V) \cap W = {}
    PROVE  /\ Cardinality(U \cup V \cup W) = Cardinality(U) + Cardinality(V) + Cardinality(W)
           /\ Cardinality(U) \in Nat /\ Cardinality(V) \in Nat /\ Cardinality(W) \in Nat
<1>1. IsFiniteSet(U \cup V) /\ Cardinality(U \cup V) = Cardinality(U) + Cardinality(V) - Cardinality({})
  BY FS_Union
<1>2. Cardinality((U \cup V) \cup W) = Cardinality(U \cup V) + Cardinality(W) - Cardinality({})
  BY <1>1, FS_Union
<1>3. Cardinality({}) = 0 /\ Cardinality(U) \in Nat /\ Cardinality(V) \in Nat /\ Cardinality(W) \in Nat
  BY FS_EmptySet, FS_CardinalityType
<1> QED BY <1>1, <1>2, <1>3

\* A node's total is its own findings, what is folded, and what is under the
\* children drawn: whatever the limits, nothing is counted twice or left out.
LEMMA RollUp ==
    ASSUME NEW S \in SUBSET Ids, NEW n, NEW A, A = [c \in Children(S, n) |-> Total(S, c)]
    PROVE  /\ Cardinality(Total(S, n)) =
                Cardinality(Own(S, n)) + More(S, n) + Cardinality(Within(A, Drawn(S, n)))
           /\ Parts(Drawn(S, n), A, S) /\ Drawn(S, n) \subseteq Children(S, n)
<1> DEFINE C == Children(S, n)
           D == Drawn(S, n)
           F == Folded(S, n)
<1>1. D \subseteq C /\ F = C \ D
  BY DEF Drawn, Folded
<1>2. IsFiniteSet(S) /\ IsFiniteSet(C)
  BY MapFinite
<1>3. /\ \A c \in C : A[c] = Total(S, c) /\ A[c] \subseteq S /\ A[c] \subseteq Total(S, n)
      /\ \A c \in C : A[c] \cap Own(S, n) = {}
      /\ \A c, d \in C : c # d => A[c] \cap A[d] = {}
      /\ Total(S, n) \subseteq S /\ Own(S, n) \subseteq Total(S, n)
      /\ \A id \in Total(S, n) : id \in Own(S, n) \/ \E c \in C : id \in A[c]
  <2>1. /\ \A c \in C : Total(S, c) \subseteq Total(S, n) /\ Total(S, c) \cap Own(S, n) = {}
        /\ \A c, d \in C : c # d => Total(S, c) \cap Total(S, d) = {}
        /\ Own(S, n) \subseteq Total(S, n)
        /\ \A id \in Total(S, n) : id \in Own(S, n) \/ \E c \in C : id \in Total(S, c)
    BY TotalParts
  <2>2. \A m : Total(S, m) \subseteq S
    BY TotalIs
  <2>3. \A c \in C : A[c] = Total(S, c)
    OBVIOUS
  <2> HIDE DEF C
  <2>4. \A c \in C : A[c] \subseteq S /\ A[c] \subseteq Total(S, n) /\ A[c] \cap Own(S, n) = {}
    BY <2>1, <2>2, <2>3
  <2>5. \A c, d \in C : c # d => A[c] \cap A[d] = {}
    BY <2>1, <2>3
  <2>6. \A id \in Total(S, n) : id \in Own(S, n) \/ \E c \in C : id \in A[c]
    BY <2>1, <2>3
  <2> QED BY <2>1, <2>2, <2>3, <2>4, <2>5, <2>6
<1> HIDE DEF C, D, F
<1>4. IsFiniteSet(D) /\ IsFiniteSet(F)
  BY <1>1, <1>2, FS_Subset
<1>5. Parts(D, A, S) /\ Parts(F, A, S)
  BY <1>1, <1>2, <1>3, <1>4, ZenonT(60) DEF Parts
<1>6. More(S, n) = Cardinality(Within(A, F))
  <2>1. \A c \in F : Cardinality(Total(S, c)) = Cardinality(A[c])
    BY <1>1, <1>3
  <2>2. MapThenSumSet(LAMBDA c : Cardinality(Total(S, c)), F) = Cardinality(Within(A, F))
    BY <1>5, <2>1, SumTotal
  <2> QED BY <2>2 DEF More, F
<1>7. Total(S, n) = Own(S, n) \cup Within(A, F) \cup Within(A, D)
  <2>1. ASSUME NEW id \in Total(S, n)
        PROVE  id \in Own(S, n) \cup Within(A, F) \cup Within(A, D)
    <3>1. ASSUME NEW c \in C, id \in A[c] PROVE id \in Within(A, F) \/ id \in Within(A, D)
      <4>1. c \in F \/ c \in D
        BY <1>1
      <4> QED BY <3>1, <4>1 DEF Within
    <3>2. id \in Own(S, n) \/ \E c \in C : id \in A[c]
      BY <1>3
    <3> QED BY <3>1, <3>2
  <2>2. Within(A, F) \subseteq Total(S, n)
    <3>1. ASSUME NEW id \in Within(A, F) PROVE id \in Total(S, n)
      <4>1. PICK c \in F : id \in A[c]
        BY DEF Within
      <4> QED BY <1>1, <1>3, <4>1
    <3> QED BY <3>1
  <2>3. Within(A, D) \subseteq Total(S, n)
    <3>1. ASSUME NEW id \in Within(A, D) PROVE id \in Total(S, n)
      <4>1. PICK c \in D : id \in A[c]
        BY DEF Within
      <4> QED BY <1>1, <1>3, <4>1
    <3> QED BY <3>1
  <2>4. Own(S, n) \subseteq Total(S, n)
    BY <1>3
  <2> QED BY <2>1, <2>2, <2>3, <2>4
<1>8. Own(S, n) \cap Within(A, F) = {}
  BY <1>1, <1>3 DEF Within
<1>9. (Own(S, n) \cup Within(A, F)) \cap Within(A, D) = {}
  <2>1. Own(S, n) \cap Within(A, D) = {}
    BY <1>1, <1>3 DEF Within
  <2>2. Within(A, F) \cap Within(A, D) = {}
    BY <1>1, <1>3 DEF Within
  <2> QED BY <2>1, <2>2
<1>10. IsFiniteSet(Own(S, n)) /\ IsFiniteSet(Within(A, F)) /\ IsFiniteSet(Within(A, D))
  BY <1>2, <1>3, <1>7, FS_Subset
<1>11. Cardinality(Total(S, n)) =
          Cardinality(Own(S, n)) + Cardinality(Within(A, F)) + Cardinality(Within(A, D))
  BY <1>7, <1>8, <1>9, <1>10, Split
<1> QED BY <1>1, <1>5, <1>6, <1>11 DEF C, D

\* At a child of a root everything at and under it is counted.
LEMMA HostCount ==
    ASSUME NEW S \in SUBSET Ids, NEW n, n \notin Roots(S)
    PROVE  RollUpHost(S, n) = Cardinality(Total(S, n))
<1> DEFINE A == [c \in Children(S, n) |-> Total(S, c)]
<1>1. \A c \in Children(S, n) : A[c] = Total(S, c)
  OBVIOUS
<1>2. /\ Cardinality(Total(S, n)) =
           Cardinality(Own(S, n)) + More(S, n) + Cardinality(Within(A, Drawn(S, n)))
      /\ Parts(Drawn(S, n), A, S) /\ Drawn(S, n) \subseteq Children(S, n)
  BY RollUp
<1> HIDE DEF A
<1>3. \A c \in Drawn(S, n) : RollUpService(S, c) = Cardinality(A[c])
  BY <1>1, <1>2, LeafTotal DEF RollUpService
<1>4. MapThenSumSet(LAMBDA c : RollUpService(S, c), Drawn(S, n))
        = Cardinality(Within(A, Drawn(S, n)))
  BY <1>2, <1>3, SumService
<1> QED BY <1>2, <1>4 DEF RollUpHost

\* And so at a root.
LEMMA RootCount ==
    ASSUME NEW S \in SUBSET Ids, NEW n
    PROVE  RollUpRoot(S, n) = Cardinality(Total(S, n))
<1> DEFINE A == [c \in Children(S, n) |-> Total(S, c)]
<1>1. \A c \in Children(S, n) : A[c] = Total(S, c)
  OBVIOUS
<1>2. /\ Cardinality(Total(S, n)) =
           Cardinality(Own(S, n)) + More(S, n) + Cardinality(Within(A, Drawn(S, n)))
      /\ Parts(Drawn(S, n), A, S) /\ Drawn(S, n) \subseteq Children(S, n)
  BY RollUp
<1> HIDE DEF A
<1>3. \A c \in Drawn(S, n) : RollUpHost(S, c) = Cardinality(A[c])
  <2>1. \A c \in Children(S, n) : c \notin Roots(S)
    BY DEF Children
  <2> QED BY <1>1, <1>2, <2>1, HostCount
<1>4. MapThenSumSet(LAMBDA c : RollUpHost(S, c), Drawn(S, n))
        = Cardinality(Within(A, Drawn(S, n)))
  BY <1>2, <1>3, SumHost
<1> QED BY <1>2, <1>4 DEF RollUpRoot

\* A root totals the findings whose host it is the root of.
LEMMA RootTotal ==
    ASSUME NEW S \in SUBSET Ids, NEW n \in Roots(S)
    PROVE  Total(S, n) = {id \in S : n = RootNode(RootOf(HostOf[id]))}
<1>1. ASSUME NEW id \in S
      PROVE  id \in Total(S, n) <=> n = RootNode(RootOf(HostOf[id]))
  <2>1. /\ Place(id) \in Roots(S) <=> Place(id) = RootNode(RootOf(HostOf[id]))
        /\ Parent(Place(id)) \in Roots(S) <=> Parent(Place(id)) = RootNode(RootOf(HostOf[id]))
    BY WayUp
  <2> QED BY <2>1, TotalIs
<1> QED BY <1>1, TotalIs

\* The roots together count each finding once.
LEMMA WholeCount ==
    ASSUME NEW S \in SUBSET Ids
    PROVE  MapThenSumSet(LAMBDA n : RollUpRoot(S, n), Roots(S)) = Cardinality(S)
<1> DEFINE A == [n \in Roots(S) |-> Total(S, n)]
           T(id) == RootNode(RootOf(HostOf[id]))
<1>1. \A n \in Roots(S) : A[n] = {id \in S : n = T(id)} /\ RollUpRoot(S, n) = Cardinality(A[n])
  BY RootTotal, RootCount
<1>2. \A id \in S : T(id) \in Roots(S)
  BY DEF Roots
<1> HIDE DEF A, T
<1>3. Parts(Roots(S), A, S)
  BY <1>1, MapFinite DEF Parts
<1>4. Within(A, Roots(S)) = S
  <2>1. \A id \in S : id \in A[T(id)]
    BY <1>1, <1>2
  <2>2. S \subseteq Within(A, Roots(S))
    BY <1>2, <2>1 DEF Within
  <2>3. Within(A, Roots(S)) \subseteq S
    BY <1>1 DEF Within
  <2> QED BY <2>2, <2>3
<1>5. MapThenSumSet(LAMBDA c : RollUpRoot(S, c), Roots(S)) = Cardinality(S)
  BY <1>1, <1>3, <1>4, SumRoot
<1> QED BY <1>5

\* The root of a host is the most specific declared target that covers it.
LEMMA RootIs ==
    ASSUME NEW h \in Known, NEW r \in Declared
    PROVE  RootOf(h) = r <=>
             /\ Covers(r, h)
             /\ ~\E q \in Declared : Under(q, r) /\ Covers(q, h)
<1> DEFINE R == {q \in Declared : Covers(q, h)}
<1>1. \A x \in Known : x \in Seq(STRING) /\ Len(x) \in Nat
  <2>1. \A i \in DOMAIN Hosts : Hosts[i] \in Seq(STRING)
    BY HostAssumption
  <2> QED BY <2>1 DEF Known
<1>2. \A q \in R : q \in Known /\ Len(q) <= Len(h) /\ q = SubSeq(h, 1, Len(q))
  <2>1. h = SubSeq(h, 1, Len(h))
    BY <1>1, SubSeqFull
  <2> QED BY <1>1, <2>1 DEF Covers, Under
<1>3. ASSUME NEW p \in R, NEW q \in R, Len(p) < Len(q) PROVE Under(q, p)
  <2>1. PICK a, b : a = Len(p) /\ b = Len(q)
    OBVIOUS
  <2>2. a \in Nat /\ b \in Nat /\ a < b /\ b <= Len(h) /\ Len(h) \in Nat
    BY <1>1, <1>2, <1>3, <2>1
  <2>3. p = SubSeq(h, 1, a) /\ q = SubSeq(h, 1, b) /\ h \in Seq(STRING)
        /\ p \in Seq(STRING) /\ q \in Seq(STRING)
    BY <1>1, <1>2, <2>1
  <2>4. \A i \in 1..Len(h) : h[i] \in STRING
    BY <2>3
  <2>5. \A i \in 1..a : p[i] = h[i]
    BY <2>2, <2>3, <2>4, SubSeqProperties
  <2>6. \A i \in 1..b : q[i] = h[i]
    BY <2>2, <2>3, <2>4, SubSeqProperties
  <2>7. /\ SubSeq(q, 1, a) \in Seq(STRING) /\ Len(SubSeq(q, 1, a)) = a
        /\ \A i \in 1..a : SubSeq(q, 1, a)[i] = q[i]
    <3>1. \A i \in 1..a : q[i] \in STRING
      BY <2>2, <2>4, <2>6
    <3> QED BY <2>2, <3>1, SubSeqProperties
  <2>8. SubSeq(q, 1, a) = p
    <3>1. \A i \in 1..a : SubSeq(q, 1, a)[i] = p[i]
      BY <2>2, <2>5, <2>6, <2>7
    <3> QED BY <2>1, <2>3, <2>7, <3>1, SeqEqual
  <2> QED BY <2>1, <2>2, <2>8 DEF Under
<1>4. ASSUME NEW q \in Declared, Under(q, r) PROVE Len(q) > Len(r)
  BY <1>4 DEF Under
<1>5. ASSUME R # {}
      PROVE  RootOf(h) \in R /\ \A q \in R : Len(q) <= Len(RootOf(h))
  <2> DEFINE N == {Len(h) - Len(q) : q \in R}
  <2>1. N \in SUBSET Nat /\ N # {}
    BY <1>1, <1>2, <1>5
  <2>2. PICK x \in N : \A y \in N : x <= y
    <3> HIDE DEF N
    <3> QED BY <2>1, HasLeast
  <2>3. PICK p \in R : x = Len(h) - Len(p)
    OBVIOUS
  <2>4. ASSUME NEW q \in R PROVE Len(q) <= Len(p)
    <3>1. x <= Len(h) - Len(q)
      BY <2>2
    <3> QED BY <1>1, <1>2, <2>3, <3>1
  <2>5. RootOf(h) = CHOOSE p1 \in R : \A q \in R : Len(q) <= Len(p1)
    BY <1>5 DEF RootOf
  <2> HIDE DEF R
  <2> QED BY <2>4, <2>5
<1>6. RootOf(h) = r => R # {}
  <2>1. ASSUME R = {} PROVE RootOf(h) = Outside
    BY <2>1 DEF RootOf
  <2>2. Outside # r
    OBVIOUS
  <2> HIDE DEF R
  <2> QED BY <2>1, <2>2
<1>7. ASSUME RootOf(h) = r
      PROVE  Covers(r, h) /\ ~\E q \in Declared : Under(q, r) /\ Covers(q, h)
  <2>1. r \in R /\ \A q \in R : Len(q) <= Len(r)
    BY <1>5, <1>6, <1>7
  <2>2. ASSUME NEW q \in Declared, Under(q, r), Covers(q, h) PROVE FALSE
    <3>1. q \in R /\ Len(q) \in Nat /\ Len(r) \in Nat
      BY <1>1, <2>2
    <3> QED BY <1>4, <2>1, <2>2, <3>1
  <2> QED BY <2>1, <2>2
<1>8. ASSUME Covers(r, h), ~\E q \in Declared : Under(q, r) /\ Covers(q, h)
      PROVE  RootOf(h) = r
  <2>1. r \in R
    BY <1>8
  <2>2. PICK p : p = RootOf(h)
    OBVIOUS
  <2>3. p \in R /\ Len(r) <= Len(p) /\ Len(r) \in Nat /\ Len(p) \in Nat
    BY <1>1, <1>5, <2>1, <2>2
  <2>4. ~(Len(r) < Len(p))
    <3>1. ASSUME Len(r) < Len(p) PROVE FALSE
      <4>1. Under(p, r)
        BY <1>3, <2>1, <2>3, <3>1
      <4> QED BY <1>8, <2>3, <4>1
    <3> QED BY <3>1
  <2>5. Len(p) = Len(r)
    BY <2>3, <2>4
  <2> QED BY <1>2, <2>1, <2>2, <2>3, <2>5
<1> QED BY <1>7, <1>8

\* The count at a declared target is of the findings it is the most specific for.
LEMMA DeclaredCount ==
    ASSUME NEW S \in SUBSET Ids, NEW r \in Declared
    PROVE  RollUpRoot(S, RootNode(r)) =
              Cardinality({id \in S : /\ Covers(r, HostOf[id])
                                      /\ ~\E q \in Declared : /\ Under(q, r)
                                                              /\ Covers(q, HostOf[id])})
<1>1. RootNode(r) \in Roots(S)
  BY DEF Roots
<1>2. Total(S, RootNode(r)) = {id \in S : RootNode(r) = RootNode(RootOf(HostOf[id]))}
  BY <1>1, RootTotal
<1>3. \A x : RootNode(r) = RootNode(x) <=> x = r
  <2>1. 0 \in Nat /\ \A x : RootNode(x) = Node(x, x, 0)
    BY DEF RootNode
  <2> QED BY <2>1, NodeFacts
<1>4. ASSUME NEW id \in S
      PROVE  RootOf(HostOf[id]) = r <=>
               /\ Covers(r, HostOf[id])
               /\ ~\E q \in Declared : Under(q, r) /\ Covers(q, HostOf[id])
  <2>1. HostOf[id] \in Known
    OBVIOUS
  <2> QED BY <2>1, RootIs
<1>5. Total(S, RootNode(r)) = {id \in S : /\ Covers(r, HostOf[id])
                                          /\ ~\E q \in Declared : /\ Under(q, r)
                                                                  /\ Covers(q, HostOf[id])}
  BY <1>2, <1>3, <1>4
<1> QED BY <1>5, RootCount

\* The map is whole whenever it is drawn.
LEMMA SurfaceFollows == ConsoleInv => SurfaceWhole
<1> SUFFICES ASSUME ConsoleInv PROVE SurfaceWhole
  OBVIOUS
<1>1. Shown \in SUBSET Ids
  BY ReportedFinite DEF Shown, ApplyCap
<1>2. MapThenSumSet(LAMBDA n : RollUpRoot(Shown, n), Roots(Shown)) = Cardinality(Shown)
  BY <1>1, WholeCount
<1>3. \A r \in Declared : RollUpRoot(Shown, RootNode(r)) =
          Cardinality({id \in Shown : /\ Covers(r, HostOf[id])
                                      /\ ~\E q \in Declared : /\ Under(q, r)
                                                              /\ Covers(q, HostOf[id])})
  BY <1>1, DeclaredCount
<1> QED BY <1>2, <1>3 DEF SurfaceWhole

\* Every finding shown is counted at one root, whatever is folded.
THEOREM SurfaceIsWhole == Spec => []SurfaceWhole
BY ConsoleAlways, SurfaceFollows, PTL
=============================================================================
