------------------------------ MODULE Schedule ------------------------------
(***************************************************************************)
(* The scheduler (cmd/quiescent/scheduler.go, internal/schedule): it reads *)
(* a schedulable cycle, plans its next attempt and reserves it against the *)
(* version it read.  After INSUFFICIENT_FUNDS the customer is asked first, *)
(* by a balance trigger answered out of band (cmd/quiescent/respond.go).   *)
(***************************************************************************)
EXTENDS Store

CONSTANTS Schedulers

VARIABLES
  sched,      (* the plan each scheduler is about to reserve               *)
  triggers    (* balance_triggers by cycle and seq                         *)

scheduleVars == <<sched, triggers>>

NoPlan == [pc |-> "idle"]
Plan   == [pc: {"planned"}, cycle: Cycles, version: Nat, age: Early..Stale]

(* age tells where the clock stands for the slot 24 h 15 min after the     *)
(* answer, which AfterConfirmation would choose.                           *)
Trigger   == [reply: {"absent", "waiting", "expired", "no", "yes"}, age: Early..Stale]
NoTrigger == [reply |-> "absent", age |-> Early]

ScheduleInit ==
  /\ sched    = [s \in Schedulers |-> NoPlan]
  /\ triggers = [c \in Cycles |-> [i \in 1..(MaxAttempts + 1) |-> NoTrigger]]

(* The code of the last failed attempt.                                    *)
Failed(c) == {i \in DOMAIN attempts[c] : attempts[c][i].code # "none"}
LastFailureCode(c) ==
  IF Failed(c) = {} THEN "none"
  ELSE attempts[c][CHOOSE i \in Failed(c) : \A j \in Failed(c) : j <= i].code

(* solve.Next has a slot for each retry but none past the last.            *)
HasSlot(used) == used \in 1..(MaxAttempts - 1)

TriggerOf(c) == triggers[c][cycles[c].used + 1]

MakePlan(s, c, age) ==
  /\ sched' = [sched EXCEPT ![s] =
       [pc |-> "planned", cycle |-> c, version |-> cycles[c].version, age |-> age]]
  /\ UNCHANGED <<storeVars, triggers>>

(* The store is read once: a change of the cycle after that is caught by   *)
(* the version, or is one that cannot touch a schedulable cycle.           *)
Considers(s, c) == sched[s] = NoPlan /\ SchedulableCycle(c)

ShortOfFunds(c) == cycles[c].used > 0 /\ LastFailureCode(c) = "INSUFFICIENT_FUNDS"

(* solve.First: a slot with the notice's 24 h, and 15 min more, ahead.     *)
PlanFirst(s, c) ==
  /\ Considers(s, c) /\ cycles[c].used = 0
  /\ MakePlan(s, c, Early)

(* solve.Next on the last failure.  A cycle it refuses is left as it is.   *)
PlanRetry(s, c) ==
  /\ Considers(s, c) /\ cycles[c].used > 0 /\ ~ShortOfFunds(c)
  /\ HasSlot(cycles[c].used) /\ Retryable(Classify(LastFailureCode(c)))
  /\ MakePlan(s, c, Early)

AskCustomer(s, c) ==
  /\ Considers(s, c) /\ ShortOfFunds(c) /\ TriggerOf(c).reply = "absent"
  /\ triggers' = [triggers EXCEPT ![c][cycles[c].used + 1] = [@ EXCEPT !.reply = "waiting"]]
  /\ UNCHANGED <<storeVars, sched>>

(* solve.AfterConfirmation counts from the answer, not from now.           *)
PlanConfirmed(s, c) ==
  /\ Considers(s, c) /\ ShortOfFunds(c) /\ TriggerOf(c).reply = "yes"
  /\ MakePlan(s, c, TriggerOf(c).age)

(* Mutated: the answer is not waited for.                                  *)
PlanUnanswered(s, c) ==
  /\ Considers(s, c) /\ ShortOfFunds(c) /\ TriggerOf(c).reply \in {"waiting", "no", "expired"}
  /\ HasSlot(cycles[c].used)
  /\ MakePlan(s, c, Early)

PlanUnconfirmed(s, c) ==
  /\ Considers(s, c) /\ ShortOfFunds(c) /\ TriggerOf(c).reply \in {"no", "expired"}
  /\ HasSlot(cycles[c].used)
  /\ MakePlan(s, c, Early)

(* The slot is no earlier, seen from now, than when it was planned.        *)
Reserve(s) ==
  /\ sched[s].pc = "planned"
  /\ \E age \in sched[s].age..Stale : ReserveAttempt(sched[s].cycle, sched[s].version, age)
  /\ sched' = [sched EXCEPT ![s] = NoPlan]
  /\ UNCHANGED triggers

(* budget_raced, a seq refused by validateAttempt, an error or a crash.    *)
DropPlan(s) ==
  /\ sched[s].pc = "planned"
  /\ sched' = [sched EXCEPT ![s] = NoPlan]
  /\ UNCHANGED <<storeVars, triggers>>

ScheduleStep(s) ==
  \/ Reserve(s) \/ DropPlan(s)
  \/ \E c \in Cycles : \/ PlanFirst(s, c) \/ PlanRetry(s, c) \/ AskCustomer(s, c)
                       \/ PlanConfirmed(s, c) \/ PlanUnconfirmed(s, c)

(* The customer answers the latest unanswered trigger, expired or not.     *)
Unanswered(c) == {i \in DOMAIN triggers[c] : triggers[c][i].reply \in {"waiting", "expired"}}
Respond(c, reply) ==
  /\ \E i \in Unanswered(c) :
       /\ \A j \in Unanswered(c) : j <= i
       /\ triggers' = [triggers EXCEPT ![c][i].reply = reply]
  /\ UNCHANGED <<storeVars, sched>>

TriggerExpires(c, i) ==
  /\ triggers[c][i].reply = "waiting"
  /\ triggers' = [triggers EXCEPT ![c][i].reply = "expired"]
  /\ UNCHANGED <<storeVars, sched>>

AnswerAges(c, i) ==
  /\ triggers[c][i].reply = "yes" /\ triggers[c][i].age < Stale
  /\ triggers' = [triggers EXCEPT ![c][i].age = @ + 1]
  /\ UNCHANGED <<storeVars, sched>>

TriggerStep == \E c \in Cycles :
  \/ \E reply \in {"yes", "no"} : Respond(c, reply)
  \/ \E i \in DOMAIN triggers[c] : TriggerExpires(c, i) \/ AnswerAges(c, i)

ScheduleTypeOK ==
  /\ sched \in [Schedulers -> {NoPlan} \cup Plan]
  /\ triggers \in [Cycles -> [1..(MaxAttempts + 1) -> Trigger]]
=============================================================================
