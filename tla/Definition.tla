----------------------------- MODULE Definition -----------------------------
(* The saved assessment as a value: store.Definition and the pure functions  *)
(* over it that the orchestrator, the scheduler and the console share.  No   *)
(* state: every operator here reads a definition and a time, and returns a   *)
(* truth value or the definition the code goes on to write.                  *)
(*                                                                           *)
(* Times are naturals, 0 being Go's zero time.Time; Day is the length of a   *)
(* calendar day in clock units.  Name, profile, targets, links and the last  *)
(* run's id are left out: no decision modelled here reads them.  Enabled is  *)
(* left out because SaveDefinition sets it and nothing clears it.            *)
EXTENDS Naturals

CONSTANTS Day, DefaultDays, Operators

ASSUME DayAssumption == Day \in Nat \ {0}
ASSUME DefaultDaysAssumption == DefaultDays \in Nat \ {0}

\* LastSkipReason: `on` is the day a lapse names, or the run a failed
\* notification was about (the text carries neither for a refusal).
Reason == [why : {"none", "lapsed", "refused", "notify"}, on : Nat]

NoReason == [why |-> "none", on |-> 0]

\* survives: does any target survive the scope guard (fixed by targets, scope);
\* notifies: is NotifyOn anything but "never".
Definition ==
    [op : Operators, at : Nat, days : Nat \ {0}, interval : Nat, next : Nat,
     skip : Reason, survives : BOOLEAN, notifies : BOOLEAN]

AddDays(t, n) == t + n * Day

AuthorisationDays(days) == IF days = 0 THEN DefaultDays ELSE days

AuthorisationExpires(d) == AddDays(d.at, AuthorisationDays(d.days))

AuthorisationValid(d, t) == d.at # 0 /\ t < AuthorisationExpires(d)

IsDue(d, t) == d.interval > 0 /\ d.next # 0 /\ t >= d.next

\* The text names the calendar day, not the time.
LapseReason(d) == [why |-> "lapsed", on |-> AuthorisationExpires(d) \div Day]

\* Mutant: SaveDefinition stores the days as they were asked for, 0 included.
NewDefinitionUnresolved(op, days, interval, survives, notifies, now) ==
    [op |-> op, at |-> now, days |-> days, interval |-> interval,
     next |-> IF interval > 0 THEN AddDays(now, interval) ELSE 0,
     skip |-> NoReason, survives |-> survives, notifies |-> notifies]

\* What SaveDefinition stores for a request made at `now`.
NewDefinition(op, days, interval, survives, notifies, now) ==
    [op |-> op, at |-> now, days |-> AuthorisationDays(days),
     interval |-> interval,
     next |-> IF interval > 0 THEN AddDays(now, interval) ELSE 0,
     skip |-> NoReason, survives |-> survives, notifies |-> notifies]

\* Mutant: the run starts and the due date stays where it was.
AfterStartStillDue(d, now) == [d EXCEPT !.skip = NoReason]

\* What RunDefinition writes once the run has been submitted.
AfterStart(d, now) ==
    [d EXCEPT !.skip = NoReason,
              !.next = IF d.interval > 0 THEN AddDays(now, d.interval) ELSE @]

\* What the scheduler writes for an assessment it could not run.
Lapsed(d) == [d EXCEPT !.skip = LapseReason(d)]

PushedOut(d, now) ==
    [d EXCEPT !.skip = [why |-> "refused", on |-> 0],
              !.next = AddDays(now, d.interval)]

\* What handleReauthorise writes.
Reaffirmed(d, op, days, now) ==
    [d EXCEPT !.op = op, !.at = now,
              !.days = IF days > 0 THEN days ELSE @,
              !.skip = NoReason,
              !.next = IF d.interval > 0 /\ (@ = 0 \/ @ < now) THEN now ELSE @]

\* What afterRun writes when a notification could not be sent.
NotifyFailed(d, job) == [d EXCEPT !.skip = [why |-> "notify", on |-> job]]
=============================================================================
