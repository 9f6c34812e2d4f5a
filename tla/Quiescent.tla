----------------------------- MODULE Quiescent -----------------------------
(***************************************************************************)
(* The running system: the scheduler, and the claim, reconcile and relay   *)
(* loops of the workers, over one store and one bank.  Any process may     *)
(* stop between two steps for as long as time takes, die, or be failed by  *)
(* the store; what it wrote stays.                                         *)
(***************************************************************************)
EXTENDS Execute, Reconcile, Relay, Schedule

CONSTANT Crashes      \* whether a claim or reconcile loop may die midway

ASSUME CrashesAssumption == Crashes \in BOOLEAN

vars == <<storeVars, bankVars, worker, recon, relay, scheduleVars>>

QInit ==
  /\ Init /\ BankInit
  /\ ExecuteInit /\ ReconcileInit /\ RelayInit /\ ScheduleInit

Firing      == \E w \in Workers : FireStep(w) \/ (Crashes /\ Crash(w))
Reconciling == \E r \in Reconcilers : ReconcileStep(r) \/ (Crashes /\ CrashAsking(r))
RelayingAny == \E l \in Relays : RelayStep(l)
Scheduling  == (\E s \in Schedulers : ScheduleStep(s)) \/ TriggerStep

QNext ==
  \/ Firing      /\ UNCHANGED <<recon, relay, scheduleVars>>
  \/ Reconciling /\ UNCHANGED <<worker, relay, scheduleVars>>
  \/ RelayingAny /\ UNCHANGED <<bankVars, worker, recon, scheduleVars>>
  \/ Scheduling  /\ UNCHANGED <<bankVars, worker, recon, relay>>
  \/ BankStep    /\ UNCHANGED <<storeVars, worker, recon, relay, scheduleVars>>
  \/ Time        /\ UNCHANGED <<bankVars, worker, recon, relay, scheduleVars>>

QSpec == QInit /\ [][QNext]_vars

QTypeOK ==
  /\ TypeOK /\ BankTypeOK
  /\ ExecuteTypeOK /\ ReconcileTypeOK /\ RelayTypeOK /\ ScheduleTypeOK

-----------------------------------------------------------------------------
Rows(c) == DOMAIN attempts[c]
OpenRows(c) == {i \in Rows(c) : attempts[c][i].outcome \in Open}
Paid(c, i) == ledger[c][i][1] = "SUCCESS"

(* A cycle never has two attempts open at once, whatever number of         *)
(* schedulers plan on the same reading of it: an attempt is reserved only  *)
(* when the earlier ones are settled, and settled attempts stay settled.   *)
OneOpenAttempt == \A c \in Cycles : Cardinality(OpenRows(c)) <= 1

(* Nothing but a settled cycle is ever handed back to the scheduler: no    *)
(* worker, relay or reconciler leaves a cycle pending while an attempt of  *)
(* it is still open, which would block it from ever being scheduled.       *)
PendingIsSettled ==
  \A c \in Cycles : cycles[c].state = "pending" => OpenRows(c) = {}

(* Write-ahead: the bank never hears of an attempt whose row does not      *)
(* already say it was fired, under the very fence the bank is shown.       *)
WriteAhead ==
  /\ \A call \in calls : attempts[call.cycle][call.seq].fence = call.fence
  /\ \A c \in Cycles : \A i \in 1..MaxAttempts :
       Known(c, i) => i \in Rows(c) /\ Fired(attempts[c][i])

(* An attempt is fired only if its customer was told 24 hours ahead.       *)
NoticeGate ==
  \A c \in Cycles : \A i \in Rows(c) : Fired(attempts[c][i]) => attempts[c][i].notice = "onTime"

(* What the store records of an attempt is what the bank did with it.      *)
RecordsAgreeWithBank ==
  \A c \in Cycles : \A i \in Rows(c) :
    LET a == attempts[c][i]
    IN  /\ a.outcome = "SUCCESS" => Paid(c, i)
        /\ a.outcome = "FAILURE" => ledger[c][i] = <<"FAILURE", a.code>>

(* A cycle is called recovered only when the bank took the money.          *)
RecoveredWasPaid ==
  \A c \in Cycles : cycles[c].state = "recovered" => \E i \in Rows(c) : Paid(c, i)

(* InvariantDoubleDebits, strengthened: once the store knows of a success, *)
(* no attempt of the cycle is ever reserved after it.                      *)
SuccessIsLast ==
  \A c \in Cycles : \A i \in Rows(c) : attempts[c][i].outcome = "SUCCESS" => i = Len(attempts[c])

(* The bank debits a cycle twice only behind the store's back: all debits  *)
(* but the last belong to attempts the store had already abandoned.        *)
EarlierDebitsWereAbandoned ==
  \A c \in Cycles : \A i \in Rows(c) :
    Paid(c, i) /\ i < Len(attempts[c]) => attempts[c][i].outcome = "ABANDONED_STALE"

(* A failure recorded with a terminal code is never followed by a retry.   *)
TerminalFailureIsLast ==
  \A c \in Cycles : \A i \in Rows(c) :
    attempts[c][i].code # "none" /\ Classify(attempts[c][i].code) = "terminal"
      => i = Len(attempts[c])

(* A cycle waiting for an answer is one the reconciler can find: unknown   *)
(* is never left behind by a crash or a race without an attempt whose      *)
(* TIMEOUT puts it on the list.                                            *)
UnknownIsReconcilable ==
  \A c \in Cycles : cycles[c].state = "unknown" =>
    \E i \in Rows(c) : attempts[c][i].outcome = "TIMEOUT"

(* A scheduled cycle has an attempt the worker will find when it is due:   *)
(* no late write of another process leaves it scheduled with none.         *)
ScheduledIsClaimable ==
  \A c \in Cycles : cycles[c].state = "scheduled" =>
    \E i \in Rows(c) : Abandonable(c, i)

(* After INSUFFICIENT_FUNDS no attempt is reserved before the customer has *)
(* answered or the question has expired, however old the plan it is        *)
(* reserved from: neither the budget nor the code it was made for can have *)
(* changed under the version it names.                                     *)
AskedFirst ==
  [][\A c \in Cycles :
       Len(attempts'[c]) > Len(attempts[c]) /\ ShortOfFunds(c)
         => TriggerOf(c).reply \in {"yes", "no", "expired"}]_vars
=============================================================================
