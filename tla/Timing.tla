------------------------------- MODULE Timing -------------------------------
(***************************************************************************)
(* One cycle against the wall clock: which instants the scheduler chooses, *)
(* and what the deadlines of the notice, the claim and the balance trigger *)
(* make of them.  Each handler runs at one instant here; Quiescent is      *)
(* where they are cut apart, with the stretches of an attempt's life in    *)
(* place of instants.  A success ends a cycle and is left out.             *)
(***************************************************************************)
EXTENDS Solve

CONSTANTS
  MaxAttempts,      (* domain.MaxAttempts, 4 in the code                   *)
  DueDates,         (* the due dates a cycle may have                      *)
  PreferredHours,   (* what predict.PreferredHour may find                 *)
  Steps,            (* bound: how far the clock may move in one step       *)
  Horizon           (* bound: where it stops                               *)

ASSUME MaxAttemptsAssumption    == MaxAttempts \in Nat \ {0}
ASSUME DueDatesAssumption       == DueDates \subseteq Nat
ASSUME PreferredHoursAssumption == PreferredHours \subseteq Hours
ASSUME StepsAssumption          == Steps \subseteq Nat
ASSUME HorizonAssumption        == Horizon \in Nat

VARIABLES
  now,
  dueDate,
  used,         (* attempts_used                                           *)
  attempts,     (* in seq order, with the instants of its life             *)
  triggers      (* balance_triggers by seq                                 *)

vars == <<now, dueDate, used, attempts, triggers>>

staleAfter     == 10 * Minute
triggerTimeout == 20 * Hour

DeliverBy(a) == a.at - NoticeLead

Never   == -1         (* SQL NULL                                          *)
Instant == Nat \cup {Never}

Codes   == {"none", "INSUFFICIENT_FUNDS", "TECHNICAL_DECLINE"}
Attempt == [at: Nat, planned: Nat, notice: Instant, fired: Instant, settled: Instant, code: Codes]
Trigger == [sent: Instant, replied: Instant, yes: BOOLEAN]

Init ==
  /\ now = 0
  /\ dueDate \in DueDates
  /\ used = 0
  /\ attempts = <<>>
  /\ triggers = [seq \in 1..(MaxAttempts + 1) |-> [sent |-> Never, replied |-> Never, yes |-> FALSE]]

(* Bound: the clock stops at the instants around which a handler would     *)
(* decide otherwise, and at those that Steps reaches.                      *)
DeadlinesOf(a) == {DeliverBy(a), DeliverBy(a) + 1, a.at, a.at + staleAfter, a.at + staleAfter + 1}
Deadlines ==
  (UNION {DeadlinesOf(attempts[i]) : i \in DOMAIN attempts})
    \cup {triggers[k].sent + triggerTimeout + 1 : k \in DOMAIN triggers}
Tick ==
  /\ \E t \in Deadlines \cup {now + d : d \in Steps} : now < t /\ t <= Horizon /\ now' = t
  /\ UNCHANGED <<dueDate, used, attempts, triggers>>

-----------------------------------------------------------------------------
(* The scheduler.                                                          *)

Open(i) == attempts[i].settled = Never

(* Mutated: an open attempt does not keep the scheduler away.              *)
SchedulableWhileOpen == Len(attempts) < MaxAttempts

Schedulable == Len(attempts) < MaxAttempts /\ \A i \in DOMAIN attempts : ~Open(i)

Failed == {i \in DOMAIN attempts : attempts[i].code # "none"}
LastFailureCode ==
  IF Failed = {} THEN "none"
  ELSE attempts[CHOOSE i \in Failed : \A j \in Failed : j <= i].code

Reserve(at) ==
  /\ Schedulable
  /\ used' = used + 1
  /\ attempts' = Append(attempts,
       [at |-> at, planned |-> now, notice |-> Never, fired |-> Never,
        settled |-> Never, code |-> "none"])
  /\ UNCHANGED <<now, dueDate, triggers>>

ScheduleFirst ==
  used = 0 /\ \E hour \in PreferredHours : Reserve(First(dueDate, hour, now))

ScheduleNext ==
  /\ HasNext(used, TRUE)
  /\ \E hour \in PreferredHours : Reserve(Next(dueDate, used, hour, now))

ScheduleRetry == LastFailureCode = "TECHNICAL_DECLINE" /\ used > 0 /\ ScheduleNext

ShortOfFunds == LastFailureCode = "INSUFFICIENT_FUNDS" /\ used > 0
Asked        == triggers[used + 1]

Ask ==
  /\ Schedulable /\ ShortOfFunds /\ Asked.sent = Never
  /\ triggers' = [triggers EXCEPT ![used + 1].sent = now]
  /\ UNCHANGED <<now, dueDate, used, attempts>>

ScheduleConfirmed == ShortOfFunds /\ Asked.yes /\ Reserve(AfterConfirmation(Asked.replied))

ScheduleUnconfirmed ==
  /\ ShortOfFunds /\ Asked.sent # Never /\ ~Asked.yes
  /\ Asked.replied # Never \/ now > Asked.sent + triggerTimeout
  /\ ScheduleNext

(* The customer answers the latest question left open, late or not.        *)
Unanswered == {k \in DOMAIN triggers : triggers[k].sent # Never /\ triggers[k].replied = Never}
Respond(yes) ==
  /\ \E k \in Unanswered :
       /\ \A l \in Unanswered : l <= k
       /\ triggers' = [triggers EXCEPT ![k].replied = now, ![k].yes = yes]
  /\ UNCHANGED <<now, dueDate, used, attempts>>

-----------------------------------------------------------------------------
(* The relay and the worker.                                               *)

(* Mutated: an attempt given back may be given back again.                 *)
AbandonAgain(i) ==
  /\ attempts[i].fired = Never
  /\ attempts' = [attempts EXCEPT ![i].settled = now]
  /\ used' = used - 1
  /\ UNCHANGED <<now, dueDate, triggers>>

Abandon(i) ==
  /\ Open(i) /\ attempts[i].fired = Never
  /\ attempts' = [attempts EXCEPT ![i].settled = now]
  /\ used' = used - 1
  /\ UNCHANGED <<now, dueDate, triggers>>

(* The deadline is compared before the notice is sent, which may have been *)
(* at any time since the attempt was planned; delivered_at is the instant  *)
(* the sending returned.  (The code may still mark the notice of a settled *)
(* attempt, which nothing reads again.)                                    *)
Deliver(i) ==
  /\ Open(i) /\ attempts[i].notice = Never
  /\ attempts[i].planned <= DeliverBy(attempts[i])
  /\ attempts' = [attempts EXCEPT ![i].notice = now]
  /\ UNCHANGED <<now, dueDate, used, triggers>>

TooLate(i) == now > DeliverBy(attempts[i]) /\ Abandon(i)

Due(i)         == attempts[i].at <= now /\ Open(i)
StaleAttempt(i) == now - attempts[i].at > staleAfter
OnTime(a)      == a.notice # Never /\ a.notice <= a.at - NoticeLead

Fire(i) ==
  /\ Due(i) /\ ~StaleAttempt(i) /\ OnTime(attempts[i])
  /\ attempts[i].fired = Never
  /\ attempts' = [attempts EXCEPT ![i].fired = now]
  /\ UNCHANGED <<now, dueDate, used, triggers>>

GiveUp(i) == Due(i) /\ (StaleAttempt(i) \/ ~OnTime(attempts[i])) /\ Abandon(i)

(* The bank's answer is recorded, or the reconciler finds there was none   *)
(* to pay for and gives the budget back.                                   *)
Settle(i) ==
  /\ Open(i) /\ attempts[i].fired # Never
  /\ \E code \in Codes :
       /\ attempts' = [attempts EXCEPT ![i].settled = now, ![i].code = code]
       /\ used' = IF code = "none" THEN used - 1 ELSE used
  /\ UNCHANGED <<now, dueDate, triggers>>

TimingNext ==
  \/ Tick
  \/ ScheduleFirst \/ ScheduleRetry \/ Ask \/ ScheduleConfirmed \/ ScheduleUnconfirmed
  \/ \E yes \in BOOLEAN : Respond(yes)
  \/ \E i \in DOMAIN attempts : Deliver(i) \/ TooLate(i) \/ Fire(i) \/ GiveUp(i) \/ Settle(i)

Spec == Init /\ [][TimingNext]_vars

-----------------------------------------------------------------------------
TypeOK ==
  /\ now \in Nat /\ dueDate \in Nat
  /\ used \in 0..MaxAttempts
  /\ attempts \in Seq(Attempt)
  /\ triggers \in [1..(MaxAttempts + 1) -> Trigger]

(* FAILURES D1: no attempt is ever scheduled into a blocked window, on     *)
(* whatever path its instant was computed and however it was pushed.       *)
ScheduledOutsideWindows == \A i \in DOMAIN attempts : ~Blocked(attempts[i].at)

(* An attempt still open when it fell due can be claimed until it is stale;*)
(* the next one that may fire at all falls due only after that.  Two       *)
(* attempts of a cycle are never up for claiming at the same time.         *)
ClaimsDoNotOverlap ==
  \A j \in DOMAIN attempts : \A i \in 1..(j - 1) :
    OnTime(attempts[j]) /\ attempts[i].settled >= attempts[i].at
      => attempts[j].at > attempts[i].at + staleAfter

(* FAILURES C11: an attempt the relay could have notified in time but for  *)
(* its schedule does not exist, unless the customer's answer dates it.     *)
RelayHasTime ==
  \A i \in DOMAIN attempts :
    LET a == attempts[i]
    IN  \/ a.planned + noticeLeadBuffer <= DeliverBy(a)
        \/ \E k \in DOMAIN triggers : triggers[k].yes /\ a.at = AfterConfirmation(triggers[k].replied)
=============================================================================
