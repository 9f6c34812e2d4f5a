------------------------------- MODULE Store -------------------------------
(***************************************************************************)
(* The Postgres store every Quiescent process shares (internal/store).     *)
(* One operator per transaction: its guard is the WHERE clause (or the     *)
(* validation) without which the call returns an error and writes nothing, *)
(* its primed variables are the columns it sets.  Postgres runs each       *)
(* transaction on locked rows, so each is one atomic step.                 *)
(*                                                                         *)
(* A row of outbox is kept with the attempt it belongs to, because         *)
(* ReserveAttempt inserts the two together and nothing inserts another.    *)
(* Instants are kept as the stretch of an attempt's life the clock is in;  *)
(* the audit log, which no decision reads, is left out.                    *)
(***************************************************************************)
EXTENDS Domain

VARIABLES
  cycles,       (* mandate_cycles: state, attempts_used, version           *)
  attempts,     (* attempts of a cycle in seq order, each with its notice  *)
  leases        (* leases: fence, and whether expires_at is still ahead    *)

storeVars == <<cycles, attempts, leases>>

-----------------------------------------------------------------------------
(* Columns.                                                                *)

(* Where the clock stands for an attempt: up to deliver_by (24 h before    *)
(* scheduled_for), up to scheduled_for, up to ten minutes after it, later. *)
Early  == 0
Closed == 1
Due    == 2
Stale  == 3

Cycle   == [state: State, used: 0..MaxAttempts, version: Nat]
Attempt == [fence:   0..MaxFence,         \* 0 is NULL: not fired
            outcome: Outcome \cup {"none"},
            code:    Codes \cup {"none"},
            notice:  {"queued", "onTime", "late"},
            age:     Early..Stale]
Lease   == [fence: 0..MaxFence, live: BOOLEAN]

Fired(a) == a.fence > 0

(* Every cycle is created pending with nothing used, and the insert        *)
(* trigger seeds its lease already expired.                                *)
Init ==
  /\ cycles   = [c \in Cycles |-> [state |-> "pending", used |-> 0, version |-> 0]]
  /\ attempts = [c \in Cycles |-> <<>>]
  /\ leases   = [c \in Cycles |-> [fence |-> 0, live |-> FALSE]]

-----------------------------------------------------------------------------
(* Queries.                                                                *)

SchedulableCycle(c) ==
  /\ cycles[c].state = "pending"
  /\ \A i \in DOMAIN attempts[c] : attempts[c][i].outcome \notin Open

DueAttempt(c, i) == attempts[c][i].age >= Due /\ attempts[c][i].outcome = "none"

NeedsReconciliation(c, i) ==
  \/ attempts[c][i].outcome = "TIMEOUT"
  \/ Fired(attempts[c][i]) /\ attempts[c][i].outcome = "none"

PendingNotice(c, i) == attempts[c][i].notice = "queued" /\ attempts[c][i].outcome = "none"

(* Mutated: delivered late counts as delivered.                            *)
NoticeDeliveredAnytime(c, i) == attempts[c][i].notice # "queued"

NoticeDelivered(c, i) == attempts[c][i].notice = "onTime"

-----------------------------------------------------------------------------
(* Transactions.                                                           *)

(* The attempt under seq i of cycle c is rewritten.                        *)
Rewrite(c, i, attempt) == attempts' = [attempts EXCEPT ![c][i] = attempt]

(* Mutated: MaxAttempts may be passed by one; the version is not compared. *)
ReservableOneMore(c, version) ==
  /\ cycles[c].version = version
  /\ cycles[c].used <= MaxAttempts /\ Len(attempts[c]) <= MaxAttempts
ReservableAnyVersion(c, version) ==
  cycles[c].used < MaxAttempts /\ Len(attempts[c]) < MaxAttempts

(* The compare-and-set of the budget, and validateAttempt, which refuses a *)
(* seq above MaxAttempts.                                                  *)
Reservable(c, version) ==
  /\ cycles[c].version = version
  /\ cycles[c].used < MaxAttempts /\ Len(attempts[c]) < MaxAttempts

(* Charges the budget, appends the attempt under the next seq and queues   *)
(* its notice.                                                             *)
ReserveAttempt(c, version, age) ==
  /\ Reservable(c, version)
  /\ cycles' = [cycles EXCEPT ![c] =
       [state |-> "scheduled", used |-> @.used + 1, version |-> @.version + 1]]
  /\ attempts' = [attempts EXCEPT ![c] = Append(@,
       [fence |-> 0, outcome |-> "none", code |-> "none",
        notice |-> "queued", age |-> age])]
  /\ UNCHANGED leases

AcquireLease(c) ==
  /\ ~leases[c].live
  /\ leases[c].fence < MaxFence
  /\ leases' = [leases EXCEPT ![c] = [fence |-> @.fence + 1, live |-> TRUE]]
  /\ UNCHANGED <<cycles, attempts>>

(* Mutated: nothing is looked at.                                          *)
FireableAgain(c, i) == TRUE

(* The guard is fired_at IS NULL alone: outcome is not looked at.          *)
Fireable(c, i) == ~Fired(attempts[c][i])
MarkAttemptFired(c, i, fence) ==
  /\ Fireable(c, i)
  /\ Rewrite(c, i, [attempts[c][i] EXCEPT !.fence = fence])
  /\ cycles'   = [cycles EXCEPT ![c].state = "in_flight"]
  /\ UNCHANGED leases

(* Mutated: an outcome may be recorded over another.                       *)
RecordableAgain(c, i) == Fired(attempts[c][i])

Recordable(c, i) == Fired(attempts[c][i]) /\ attempts[c][i].outcome = "none"
RecordAttemptOutcome(c, i, outcome, code) ==
  /\ Recordable(c, i)
  /\ Rewrite(c, i, [attempts[c][i] EXCEPT !.outcome = outcome, !.code = code])
  /\ cycles'   = IF outcome = "TIMEOUT"
                   THEN [cycles EXCEPT ![c].state = "unknown"] ELSE cycles
  /\ UNCHANGED leases

(* Mutated: the row is not marked; the state is left as it was.            *)
RefundUnmarked(c, i) ==
  /\ cycles[c].used > 0
  /\ cycles' = [cycles EXCEPT ![c].used = @ - 1, ![c].state = "pending"]
  /\ UNCHANGED <<attempts, leases>>
RefundInPlace(c, i) ==
  /\ cycles[c].used > 0
  /\ Rewrite(c, i, [attempts[c][i] EXCEPT !.outcome = "ABANDONED_STALE"])
  /\ cycles' = [cycles EXCEPT ![c].used = @ - 1]
  /\ UNCHANGED leases

(* ABANDONED_STALE gives the attempt's budget back, in the same            *)
(* transaction, and returns the cycle to the scheduler whatever its state. *)
Refund(c, i) ==
  /\ cycles[c].used > 0
  /\ Rewrite(c, i, [attempts[c][i] EXCEPT !.outcome = "ABANDONED_STALE"])
  /\ cycles' = [cycles EXCEPT ![c] =
       [state |-> "pending", used |-> @.used - 1, version |-> @.version]]
  /\ UNCHANGED leases

(* Mutated: an attempt may be abandoned twice.                             *)
AbandonableTwice(c, i) == ~Fired(attempts[c][i])

Abandonable(c, i) == ~Fired(attempts[c][i]) /\ attempts[c][i].outcome = "none"
AbandonAttempt(c, i) == Abandonable(c, i) /\ Refund(c, i)

(* Mutated: what is settled may be settled again.                          *)
ResolvableTwice(c, i) == Fired(attempts[c][i])

Resolvable(c, i) == Fired(attempts[c][i]) /\ attempts[c][i].outcome \in Open
ResolveNotDebited(c, i) == Resolvable(c, i) /\ Refund(c, i)

ResolveDebited(c, i) ==
  /\ Resolvable(c, i)
  /\ Rewrite(c, i, [attempts[c][i] EXCEPT !.outcome = "SUCCESS"])
  /\ cycles'   = [cycles EXCEPT ![c].state = "recovered"]
  /\ UNCHANGED leases

(* Offered by the store and called by no process: a timeout settled in     *)
(* place, without a change to the cycle.                                   *)
ResolveAttemptOutcome(c, i, outcome, code) ==
  /\ attempts[c][i].outcome = "TIMEOUT"
  /\ Rewrite(c, i, [attempts[c][i] EXCEPT !.outcome = outcome, !.code = code])
  /\ UNCHANGED <<cycles, leases>>

(* delivered_at is on time up to 24 h before scheduled_for.                *)
MarkNoticeDelivered(c, i) ==
  /\ attempts[c][i].notice = "queued"
  /\ Rewrite(c, i, [attempts[c][i] EXCEPT !.notice =
                      IF attempts[c][i].age = Early THEN "onTime" ELSE "late"])
  /\ UNCHANGED <<cycles, leases>>

(* MarkCycleRecovered, HoldCycle, ReturnCycleToPending, EscalateCycle and  *)
(* AbandonCycle: the state is overwritten, whatever it was.                *)
SetState(c, state) ==
  /\ cycles' = [cycles EXCEPT ![c].state = state]
  /\ UNCHANGED <<attempts, leases>>

-----------------------------------------------------------------------------
(* Time.  An attempt notified in time becomes due only after the earlier   *)
(* ones of its cycle have gone stale.  Those were settled before its notice*)
(* went out, 24 hours before it is due; one still open when it fell due is *)
(* stale by then (Timing: ClaimsDoNotOverlap), and the clock of one that   *)
(* was settled before no longer matters, since no worker picks it up.      *)

Elapse(c, i) ==
  /\ attempts[c][i].age < Stale
  /\ (attempts[c][i].age = Closed /\ attempts[c][i].notice = "onTime")
       => \A j \in 1..(i - 1) : attempts[c][j].age = Stale
  /\ Rewrite(c, i, [attempts[c][i] EXCEPT !.age = @ + 1])
  /\ UNCHANGED <<cycles, leases>>

LeaseExpires(c) ==
  /\ leases[c].live
  /\ leases' = [leases EXCEPT ![c].live = FALSE]
  /\ UNCHANGED <<cycles, attempts>>

Time == \E c \in Cycles :
  \/ LeaseExpires(c)
  \/ \E i \in DOMAIN attempts[c] : Elapse(c, i)

-----------------------------------------------------------------------------
(* The store under arbitrary clients: any transaction, in any order, on    *)
(* any row, with every argument some caller could pass.                    *)

RowTransaction(c, i) ==
  \/ \E fence \in 1..leases[c].fence : MarkAttemptFired(c, i, fence)
  \/ \E a \in Answer \cup {<<"TIMEOUT", "none">>} : RecordAttemptOutcome(c, i, a[1], a[2])
  \/ \E a \in Answer : ResolveAttemptOutcome(c, i, a[1], a[2])
  \/ AbandonAttempt(c, i)
  \/ ResolveDebited(c, i)
  \/ ResolveNotDebited(c, i)
  \/ MarkNoticeDelivered(c, i)

Transaction(c) ==
  \/ \E age \in Early..Stale : ReserveAttempt(c, cycles[c].version, age)
  \/ AcquireLease(c)
  \/ \E state \in Terminal \cup {"held", "pending"} : SetState(c, state)
  \/ \E i \in DOMAIN attempts[c] : RowTransaction(c, i)

Next == Time \/ \E c \in Cycles : Transaction(c)

Spec == Init /\ [][Next]_storeVars

-----------------------------------------------------------------------------
(* The shape of the tables, with their CHECK constraints.                  *)
TypeOK ==
  /\ cycles   \in [Cycles -> Cycle]
  /\ attempts \in [Cycles -> Seq(Attempt)]
  /\ leases   \in [Cycles -> Lease]

(* The attempts a cycle still pays for.                                    *)
Charged(c) == {i \in DOMAIN attempts[c] : attempts[c][i].outcome # "ABANDONED_STALE"}

(* attempts_used is a cached count: it must stay the number of the cycle's *)
(* attempts that were not given back (InvariantBudgetMismatch), through    *)
(* every charge and refund, in whatever order the processes make them.     *)
BudgetAgrees == \A c \in Cycles : cycles[c].used = Cardinality(Charged(c))

(* No refund is lost: a transaction that gives budget back never meets a   *)
(* cycle with nothing to give back, the case the code guards against with  *)
(* attempts_used > 0 and would answer by rolling back.                     *)
RefundNeverRefused ==
  \A c \in Cycles : \A i \in DOMAIN attempts[c] :
    (Abandonable(c, i) \/ Resolvable(c, i)) => cycles[c].used > 0

(* What the budget promises: MaxAttempts slots, each reserved, then spent  *)
(* or given back once.  A timeout stays reserved until it is settled.      *)
SlotOf(a) == CASE a.outcome \in Open        -> "reserved"
               [] a.outcome = "ABANDONED_STALE"   -> "refunded"
               [] OTHER                           -> "spent"
Slots == [c \in Cycles |-> [i \in DOMAIN attempts[c] |-> SlotOf(attempts[c][i])]]

B == INSTANCE Budget WITH slots <- Slots
BudgetSpec == B!Spec
=============================================================================
