---------------------------- MODULE StoreProofs ----------------------------
(***************************************************************************)
(* Theorems about the store under arbitrary clients, for every set of      *)
(* cycles and codes and every MaxAttempts and MaxFence.                    *)
(***************************************************************************)
EXTENDS Store, FiniteSetTheorems, SequenceTheorems, TLAPS

-----------------------------------------------------------------------------
(* Lemmas about rows.                                                      *)

(* The attempts a cycle pays for are finitely many.                        *)
LEMMA ChargedFinite ==
  ASSUME TypeOK, NEW c \in Cycles
  PROVE  /\ Charged(c) \subseteq 1..Len(attempts[c])
         /\ IsFiniteSet(Charged(c))
         /\ Cardinality(Charged(c)) \in Nat
<1>1. attempts[c] \in Seq(Attempt) /\ Len(attempts[c]) \in Nat
  BY DEF TypeOK
<1>2. Charged(c) \subseteq 1..Len(attempts[c])
  BY <1>1 DEF Charged
<1>3. IsFiniteSet(1..Len(attempts[c]))
  BY <1>1, FS_Interval
<1>4. QED
  BY <1>2, <1>3, FS_Subset, FS_CardinalityType

(* A new attempt is charged, and the others are as they were.              *)
LEMMA ReserveCharges ==
  ASSUME TypeOK, NEW c \in Cycles, NEW version, NEW age \in Early..Stale,
         ReserveAttempt(c, version, age)
  PROVE  Charged(c)' = Charged(c) \cup {Len(attempts[c]) + 1}
<1> DEFINE s == attempts[c]
           row == [fence |-> 0, outcome |-> "none", code |-> "none",
                   notice |-> "queued", age |-> age]
<1>1. s \in Seq(Attempt) /\ Len(s) \in Nat
  BY DEF TypeOK
<1>2. attempts'[c] = Append(s, row)
  BY DEF TypeOK, ReserveAttempt
<1>3. row \in Attempt
  BY MaxFenceAssumption DEF Attempt, Outcome
<1> HIDE DEF row
<1>4. /\ Len(Append(s, row)) = Len(s) + 1
      /\ Append(s, row)[Len(s) + 1] = row
      /\ \A i \in 1..Len(s) : Append(s, row)[i] = s[i]
      /\ DOMAIN Append(s, row) = 1..(Len(s) + 1)
      /\ DOMAIN s = 1..Len(s)
  BY <1>1, <1>3
<1>5. row.outcome # "ABANDONED_STALE"
  BY DEF row
<1> HIDE DEF s
<1>6. Charged(c)' = {i \in 1..(Len(s) + 1) : Append(s, row)[i].outcome # "ABANDONED_STALE"}
  BY <1>2, <1>4 DEF Charged
<1>7. Charged(c) = {i \in 1..Len(s) : s[i].outcome # "ABANDONED_STALE"}
  BY <1>4 DEF Charged, s
<1>8. QED
  BY <1>1, <1>4, <1>5, <1>6, <1>7 DEF s


(* Rewriting one row leaves every other row, and the length, as it was.    *)
LEMMA RewriteRow ==
  ASSUME TypeOK, NEW c \in Cycles, NEW i \in DOMAIN attempts[c], NEW attempt \in Attempt,
         Rewrite(c, i, attempt)
  PROVE  /\ attempts' \in [Cycles -> Seq(Attempt)]
         /\ \A d \in Cycles : DOMAIN attempts'[d] = DOMAIN attempts[d]
         /\ \A d \in Cycles : \A j \in DOMAIN attempts[d] :
              attempts'[d][j] = IF d = c /\ j = i THEN attempt ELSE attempts[d][j]
<1>1. attempts \in [Cycles -> Seq(Attempt)]
  BY DEF TypeOK
<1>2. attempts' = [attempts EXCEPT ![c] = [attempts[c] EXCEPT ![i] = attempt]]
  BY <1>1 DEF Rewrite
<1>3. attempts[c] \in Seq(Attempt) /\ i \in 1..Len(attempts[c])
  BY <1>1
<1>4. /\ [attempts[c] EXCEPT ![i] = attempt] \in Seq(Attempt)
      /\ DOMAIN [attempts[c] EXCEPT ![i] = attempt] = DOMAIN attempts[c]
      /\ \A j \in DOMAIN attempts[c] :
           [attempts[c] EXCEPT ![i] = attempt][j] = IF j = i THEN attempt ELSE attempts[c][j]
  BY <1>3, ExceptSeq
<1>5. QED
  BY <1>1, <1>2, <1>4

(* A row whose outcome is neither given back nor taken back is paid for as *)
(* it was; giving it back takes it out of what its cycle pays for.         *)
LEMMA RewriteCharges ==
  ASSUME TypeOK, NEW c \in Cycles, NEW i \in DOMAIN attempts[c], NEW attempt \in Attempt,
         Rewrite(c, i, attempt)
  PROVE  /\ (attempt.outcome = "ABANDONED_STALE" <=> attempts[c][i].outcome = "ABANDONED_STALE")
              => \A d \in Cycles : Charged(d)' = Charged(d)
         /\ attempt.outcome = "ABANDONED_STALE" => Charged(c)' = Charged(c) \ {i}
         /\ \A d \in Cycles \ {c} : Charged(d)' = Charged(d)
BY RewriteRow DEF Charged

-----------------------------------------------------------------------------
(* The inductive invariant, and the steps that keep it.                    *)

StoreInv == TypeOK /\ BudgetAgrees

(* A rewritten row, with the budget column left alone.                     *)
LEMMA RewriteKeepsInv ==
  ASSUME StoreInv, NEW c \in Cycles, NEW i \in DOMAIN attempts[c], NEW attempt \in Attempt,
         Rewrite(c, i, attempt),
         attempt.outcome = "ABANDONED_STALE" <=> attempts[c][i].outcome = "ABANDONED_STALE",
         cycles' \in [Cycles -> Cycle],
         \A d \in Cycles : cycles'[d].used = cycles[d].used,
         UNCHANGED leases
  PROVE  StoreInv'
<1>1. TypeOK'
  BY RewriteRow DEF StoreInv, TypeOK
<1>2. \A d \in Cycles : Charged(d)' = Charged(d)
  BY RewriteCharges DEF StoreInv
<1>3. BudgetAgrees'
  BY <1>2 DEF StoreInv, BudgetAgrees
<1>4. QED
  BY <1>1, <1>3 DEF StoreInv

(* A charge: one attempt more, one slot more.                              *)
LEMMA ReserveKeepsInv ==
  ASSUME StoreInv, NEW c \in Cycles, NEW version, NEW age \in Early..Stale,
         ReserveAttempt(c, version, age)
  PROVE  StoreInv'
<1> DEFINE row == [fence |-> 0, outcome |-> "none", code |-> "none",
                   notice |-> "queued", age |-> age]
<1>1. row \in Attempt
  BY MaxFenceAssumption DEF Attempt, Outcome
<1>2. cycles' \in [Cycles -> Cycle] /\ leases' \in [Cycles -> Lease]
  BY MaxAttemptsAssumption DEF StoreInv, TypeOK, ReserveAttempt, Reservable, Cycle, State, Terminal
<1>3. attempts' = [attempts EXCEPT ![c] = Append(@, row)]
  BY DEF ReserveAttempt
<1>4. attempts' \in [Cycles -> Seq(Attempt)]
  BY <1>1, <1>3 DEF StoreInv, TypeOK
<1>5. Charged(c)' = Charged(c) \cup {Len(attempts[c]) + 1}
  BY ReserveCharges DEF StoreInv
<1>6. Len(attempts[c]) + 1 \notin Charged(c)
  BY ChargedFinite DEF StoreInv, TypeOK
<1>7. cycles'[c].used = Cardinality(Charged(c)')
  <2>1. cycles'[c].used = cycles[c].used + 1
    BY DEF StoreInv, TypeOK, ReserveAttempt
  <2>2. Cardinality(Charged(c)') = Cardinality(Charged(c)) + 1
    BY <1>5, <1>6, ChargedFinite, FS_AddElement DEF StoreInv
  <2>3. QED
    BY <2>1, <2>2 DEF StoreInv, BudgetAgrees
<1>8. \A d \in Cycles \ {c} : cycles'[d].used = Cardinality(Charged(d)')
  BY <1>3 DEF StoreInv, BudgetAgrees, TypeOK, ReserveAttempt, Charged
<1>9. QED
  BY <1>2, <1>4, <1>7, <1>8 DEF StoreInv, TypeOK, BudgetAgrees

(* A refund: the row leaves the charged ones, and the slot comes back.     *)
LEMMA RefundKeepsInv ==
  ASSUME StoreInv, NEW c \in Cycles, NEW i \in DOMAIN attempts[c],
         attempts[c][i].outcome \in Open, Refund(c, i)
  PROVE  StoreInv'
<1> DEFINE row == [attempts[c][i] EXCEPT !.outcome = "ABANDONED_STALE"]
<1>1. attempts[c][i] \in Attempt
  BY DEF StoreInv, TypeOK
<1>2. row \in Attempt /\ row.outcome = "ABANDONED_STALE"
  BY <1>1 DEF Attempt, Outcome
<1>3. Rewrite(c, i, row)
  BY DEF Refund
<1> HIDE DEF row
<1>4. cycles \in [Cycles -> Cycle] /\ cycles[c] \in Cycle /\ cycles[c].used > 0
  BY DEF StoreInv, TypeOK, Refund
<1> DEFINE cycle == [state |-> "pending", used |-> cycles[c].used - 1,
                     version |-> cycles[c].version]
<1>11. cycle \in Cycle
  BY <1>4, MaxAttemptsAssumption DEF Cycle, State
<1>12. cycles' = [cycles EXCEPT ![c] = cycle] /\ leases' = leases
  BY DEF Refund
<1>13. cycles' \in [Cycles -> Cycle] /\ leases' \in [Cycles -> Lease]
  BY <1>4, <1>11, <1>12 DEF StoreInv, TypeOK
<1>14. cycles'[c].used = cycles[c].used - 1
  BY <1>4, <1>12
<1>5. attempts' \in [Cycles -> Seq(Attempt)]
  BY <1>2, <1>3, RewriteRow DEF StoreInv
<1>6. /\ Charged(c)' = Charged(c) \ {i}
      /\ \A d \in Cycles \ {c} : Charged(d)' = Charged(d)
  BY <1>2, <1>3, RewriteCharges DEF StoreInv
<1>7. i \in Charged(c)
  BY DEF Charged, Open
<1>8. cycles'[c].used = Cardinality(Charged(c)')
  BY <1>14, <1>6, <1>7, ChargedFinite, FS_RemoveElement DEF StoreInv, BudgetAgrees
<1>9. \A d \in Cycles \ {c} : cycles'[d].used = Cardinality(Charged(d)')
  BY <1>4, <1>12, <1>6 DEF StoreInv, BudgetAgrees
<1>10. QED
  BY <1>13, <1>5, <1>8, <1>9 DEF StoreInv, TypeOK, BudgetAgrees

(* No row is rewritten at all.                                             *)
LEMMA NoRowKeepsInv ==
  ASSUME StoreInv, UNCHANGED attempts,
         cycles' \in [Cycles -> Cycle],
         \A d \in Cycles : cycles'[d].used = cycles[d].used,
         leases' \in [Cycles -> Lease]
  PROVE  StoreInv'
BY DEF StoreInv, TypeOK, BudgetAgrees, Charged

-----------------------------------------------------------------------------
(* Every transaction on a row.                                             *)
LEMMA RowTransactionKeepsInv ==
  ASSUME StoreInv, NEW c \in Cycles, NEW i \in DOMAIN attempts[c], RowTransaction(c, i)
  PROVE  StoreInv'
<1> DEFINE a == attempts[c][i]
<1>0. a \in Attempt /\ leases[c] \in Lease
  BY DEF StoreInv, TypeOK
<1>1. CASE \E fence \in 1..leases[c].fence : MarkAttemptFired(c, i, fence)
  <2> PICK fence \in 1..leases[c].fence : MarkAttemptFired(c, i, fence)
    BY <1>1
  <2>1. [a EXCEPT !.fence = fence] \in Attempt
    BY <1>0, MaxFenceAssumption DEF Attempt, Lease
  <2>2. [a EXCEPT !.fence = fence].outcome = a.outcome
    BY <1>0 DEF Attempt
  <2>3. cycles' \in [Cycles -> Cycle] /\ \A d \in Cycles : cycles'[d].used = cycles[d].used
    BY DEF MarkAttemptFired, StoreInv, TypeOK, Cycle, State, Terminal
  <2>4. QED
    BY <2>1, <2>2, <2>3, RewriteKeepsInv DEF MarkAttemptFired
<1>2. CASE \E x \in Answer \cup {<<"TIMEOUT", "none">>} : RecordAttemptOutcome(c, i, x[1], x[2])
  <2> PICK x \in Answer \cup {<<"TIMEOUT", "none">>} : RecordAttemptOutcome(c, i, x[1], x[2])
    BY <1>2
  <2> DEFINE row == [a EXCEPT !.outcome = x[1], !.code = x[2]]
  <2>1. x[1] \in Outcome \ {"ABANDONED_STALE"} /\ x[2] \in Codes \cup {"none"}
    BY DEF Answer, Outcome
  <2>2. row \in Attempt /\ row.outcome # "ABANDONED_STALE"
    BY <1>0, <2>1 DEF Attempt
  <2>3. a.outcome # "ABANDONED_STALE" /\ Rewrite(c, i, row) /\ UNCHANGED leases
    BY DEF RecordAttemptOutcome, Recordable
  <2>4. cycles' \in [Cycles -> Cycle] /\ \A d \in Cycles : cycles'[d].used = cycles[d].used
    BY DEF RecordAttemptOutcome, StoreInv, TypeOK, Cycle, State, Terminal
  <2> HIDE DEF row
  <2>5. QED
    BY <2>2, <2>3, <2>4, RewriteKeepsInv
<1>3. CASE \E x \in Answer : ResolveAttemptOutcome(c, i, x[1], x[2])
  <2> PICK x \in Answer : ResolveAttemptOutcome(c, i, x[1], x[2])
    BY <1>3
  <2> DEFINE row == [a EXCEPT !.outcome = x[1], !.code = x[2]]
  <2>1. x[1] \in Outcome \ {"ABANDONED_STALE"} /\ x[2] \in Codes \cup {"none"}
    BY DEF Answer, Outcome
  <2>2. row \in Attempt /\ row.outcome # "ABANDONED_STALE"
    BY <1>0, <2>1 DEF Attempt
  <2>3. a.outcome # "ABANDONED_STALE" /\ Rewrite(c, i, row) /\ UNCHANGED <<cycles, leases>>
    BY DEF ResolveAttemptOutcome
  <2> HIDE DEF row
  <2>4. cycles' \in [Cycles -> Cycle] /\ \A d \in Cycles : cycles'[d].used = cycles[d].used
    BY <2>3 DEF StoreInv, TypeOK
  <2>5. QED
    BY <2>2, <2>3, <2>4, RewriteKeepsInv
<1>4. CASE AbandonAttempt(c, i)
  BY <1>4, RefundKeepsInv DEF AbandonAttempt, Abandonable, Open
<1>5. CASE ResolveDebited(c, i)
  <2> DEFINE row == [a EXCEPT !.outcome = "SUCCESS"]
  <2>1. row \in Attempt /\ row.outcome # "ABANDONED_STALE"
    BY <1>0 DEF Attempt, Outcome
  <2>2. a.outcome # "ABANDONED_STALE" /\ Rewrite(c, i, row) /\ UNCHANGED leases
    BY <1>5 DEF ResolveDebited, Resolvable, Open
  <2>3. cycles' \in [Cycles -> Cycle] /\ \A d \in Cycles : cycles'[d].used = cycles[d].used
    BY <1>5 DEF ResolveDebited, StoreInv, TypeOK, Cycle, State, Terminal
  <2> HIDE DEF row
  <2>4. QED
    BY <2>1, <2>2, <2>3, RewriteKeepsInv
<1>6. CASE ResolveNotDebited(c, i)
  BY <1>6, RefundKeepsInv DEF ResolveNotDebited, Resolvable
<1>7. CASE MarkNoticeDelivered(c, i)
  <2> DEFINE row == [a EXCEPT !.notice = IF a.age = Early THEN "onTime" ELSE "late"]
  <2>1. row \in Attempt /\ row.outcome = a.outcome
    BY <1>0 DEF Attempt
  <2>2. Rewrite(c, i, row) /\ UNCHANGED <<cycles, leases>>
    BY <1>7 DEF MarkNoticeDelivered
  <2> HIDE DEF row
  <2>3. cycles' \in [Cycles -> Cycle] /\ \A d \in Cycles : cycles'[d].used = cycles[d].used
    BY <2>2 DEF StoreInv, TypeOK
  <2>4. QED
    BY <2>1, <2>2, <2>3, RewriteKeepsInv
<1>8. QED
  BY <1>1, <1>2, <1>3, <1>4, <1>5, <1>6, <1>7 DEF RowTransaction

(* Every transaction.                                                      *)
LEMMA TransactionKeepsInv ==
  ASSUME StoreInv, NEW c \in Cycles, Transaction(c)
  PROVE  StoreInv'
<1>1. CASE \E age \in Early..Stale : ReserveAttempt(c, cycles[c].version, age)
  BY <1>1, ReserveKeepsInv
<1>2. CASE AcquireLease(c)
  <2>1. leases' \in [Cycles -> Lease]
    BY <1>2, MaxFenceAssumption DEF AcquireLease, StoreInv, TypeOK, Lease
  <2>2. QED
    BY <1>2, <2>1, NoRowKeepsInv DEF AcquireLease, StoreInv, TypeOK
<1>3. CASE \E state \in Terminal \cup {"held", "pending"} : SetState(c, state)
  <2>1. cycles' \in [Cycles -> Cycle] /\ \A d \in Cycles : cycles'[d].used = cycles[d].used
    BY <1>3 DEF SetState, StoreInv, TypeOK, Cycle, State
  <2>2. QED
    BY <1>3, <2>1, NoRowKeepsInv DEF SetState, StoreInv, TypeOK
<1>4. CASE \E i \in DOMAIN attempts[c] : RowTransaction(c, i)
  BY <1>4, RowTransactionKeepsInv
<1>5. QED
  BY <1>1, <1>2, <1>3, <1>4 DEF Transaction

(* The passing of time.                                                    *)
LEMMA TimeKeepsInv ==
  ASSUME StoreInv, Time
  PROVE  StoreInv'
<1> PICK c \in Cycles : LeaseExpires(c) \/ \E i \in DOMAIN attempts[c] : Elapse(c, i)
  BY DEF Time
<1>1. CASE LeaseExpires(c)
  <2>1. leases' \in [Cycles -> Lease]
    BY <1>1 DEF LeaseExpires, StoreInv, TypeOK, Lease
  <2>2. QED
    BY <1>1, <2>1, NoRowKeepsInv DEF LeaseExpires, StoreInv, TypeOK
<1>2. CASE \E i \in DOMAIN attempts[c] : Elapse(c, i)
  <2> PICK i \in DOMAIN attempts[c] : Elapse(c, i)
    BY <1>2
  <2> DEFINE row == [attempts[c][i] EXCEPT !.age = @ + 1]
  <2>1. attempts[c][i] \in Attempt
    BY DEF StoreInv, TypeOK
  <2>2. row \in Attempt /\ row.outcome = attempts[c][i].outcome
    BY <2>1 DEF Attempt, Elapse, Early, Stale
  <2>3. Rewrite(c, i, row) /\ UNCHANGED <<cycles, leases>>
    BY DEF Elapse
  <2> HIDE DEF row
  <2>4. cycles' \in [Cycles -> Cycle] /\ \A d \in Cycles : cycles'[d].used = cycles[d].used
    BY <2>3 DEF StoreInv, TypeOK
  <2>5. QED
    BY <2>2, <2>3, <2>4, RewriteKeepsInv
<1>3. QED
  BY <1>1, <1>2

-----------------------------------------------------------------------------
(* The empty tables.                                                       *)
LEMMA InitKeepsInv == Init => StoreInv
<1> SUFFICES ASSUME Init PROVE StoreInv
  OBVIOUS
<1>1. TypeOK
  BY MaxAttemptsAssumption, MaxFenceAssumption
     DEF Init, TypeOK, Cycle, Lease, State
<1>2. \A c \in Cycles : Charged(c) = {}
  BY DEF Init, Charged
<1>3. BudgetAgrees
  BY <1>2, FS_EmptySet DEF Init, BudgetAgrees
<1>4. QED
  BY <1>1, <1>3 DEF StoreInv

(* The tables keep their shape and their CHECK constraints, and            *)
(* attempts_used stays the number of attempts not given back, whichever    *)
(* transactions the processes run and in whatever order.                   *)
THEOREM StoreInvariant == Spec => []StoreInv
<1>1. Init => StoreInv
  BY InitKeepsInv
<1>2. StoreInv /\ [Next]_storeVars => StoreInv'
  <2> SUFFICES ASSUME StoreInv, [Next]_storeVars PROVE StoreInv'
    OBVIOUS
  <2>1. CASE UNCHANGED storeVars
    BY <2>1, NoRowKeepsInv DEF storeVars, StoreInv, TypeOK
  <2>2. CASE Next
    BY <2>2, TransactionKeepsInv, TimeKeepsInv DEF Next
  <2>3. QED
    BY <2>1, <2>2
<1>3. QED
  BY <1>1, <1>2, PTL DEF Spec

(* The tables keep their shape and their CHECK constraints, whatever       *)
(* transactions are run on them.                                           *)
THEOREM StoreTypeOK == Spec => []TypeOK
<1>1. StoreInv => TypeOK
  BY DEF StoreInv
<1>2. QED
  BY <1>1, StoreInvariant, PTL

(* The budget of a cycle always agrees with its attempts.                  *)
THEOREM StoreBudgetAgrees == Spec => []BudgetAgrees
<1>1. StoreInv => BudgetAgrees
  BY DEF StoreInv
<1>2. QED
  BY <1>1, StoreInvariant, PTL

(* A refund the store's own rows allow is never refused for want of budget:*)
(* the attempt it gives back is one of the charged ones.                   *)
THEOREM StoreRefundNeverRefused == Spec => []RefundNeverRefused
<1>1. StoreInv => RefundNeverRefused
  <2> SUFFICES ASSUME StoreInv, NEW c \in Cycles, NEW i \in DOMAIN attempts[c],
                      Abandonable(c, i) \/ Resolvable(c, i)
               PROVE  cycles[c].used > 0
    BY DEF RefundNeverRefused
  <2>1. i \in Charged(c)
    BY DEF Abandonable, Resolvable, Open, Charged
  <2>2. Cardinality(Charged(c)) # 0 /\ Cardinality(Charged(c)) \in Nat
    BY <2>1, ChargedFinite, FS_EmptySet DEF StoreInv
  <2>3. QED
    BY <2>2 DEF StoreInv, BudgetAgrees
<1>2. QED
  BY <1>1, StoreInvariant, PTL

-----------------------------------------------------------------------------
(* The store implements the budget.                                        *)

(* What a row says of its slot.                                            *)
LEMMA SlotCases ==
  ASSUME NEW a \in Attempt
  PROVE  /\ SlotOf(a) = "refunded" <=> a.outcome = "ABANDONED_STALE"
         /\ SlotOf(a) = "reserved" <=> a.outcome \in Open
         /\ SlotOf(a) \in {"reserved", "spent", "refunded"}
BY DEF Attempt, Outcome, SlotOf, Open

(* The slots of a cycle are a sequence, as long as its attempts, and the   *)
(* budget counts the same ones.                                            *)
LEMMA SlotsShape ==
  ASSUME TypeOK, NEW c \in Cycles
  PROVE  /\ Slots[c] \in Seq({"reserved", "spent", "refunded"})
         /\ Len(Slots[c]) = Len(attempts[c])
         /\ DOMAIN Slots[c] = DOMAIN attempts[c]
         /\ \A i \in DOMAIN attempts[c] : Slots[c][i] = SlotOf(attempts[c][i])
         /\ B!Charged(c) = Charged(c)
<1>1. attempts[c] \in Seq(Attempt)
  BY DEF TypeOK
<1>2. Slots[c] = [i \in 1..Len(attempts[c]) |-> SlotOf(attempts[c][i])]
  BY <1>1 DEF Slots
<1>3. \A i \in 1..Len(attempts[c]) : attempts[c][i] \in Attempt
  BY <1>1
<1>4. \A i \in 1..Len(attempts[c]) : SlotOf(attempts[c][i]) \in {"reserved", "spent", "refunded"}
  BY <1>3, SlotCases
<1>5. /\ Slots[c] \in Seq({"reserved", "spent", "refunded"})
      /\ Len(Slots[c]) = Len(attempts[c])
  BY <1>1, <1>2, <1>4, IsASeq
<1>6. B!Charged(c) = Charged(c)
  BY <1>1, <1>2, <1>3, SlotCases DEF B!Charged, Charged
<1>7. QED
  BY <1>1, <1>2, <1>5, <1>6

(* Rewriting a row rewrites its slot.                                      *)
LEMMA RewriteSlots ==
  ASSUME TypeOK, NEW c \in Cycles, NEW i \in DOMAIN attempts[c], NEW attempt \in Attempt,
         Rewrite(c, i, attempt)
  PROVE  Slots' = [Slots EXCEPT ![c][i] = SlotOf(attempt)]
<1> DEFINE new(d) == [j \in DOMAIN attempts[d] |->
                        IF d = c /\ j = i THEN SlotOf(attempt) ELSE SlotOf(attempts[d][j])]
<1>1. Slots' = [d \in Cycles |-> new(d)]
  BY RewriteRow DEF Slots
<1>2. [Slots EXCEPT ![c][i] = SlotOf(attempt)] = [d \in Cycles |-> new(d)]
  BY DEF Slots
<1>3. QED
  BY <1>1, <1>2

(* A row that stays open, stays settled the same way, or is settled now is *)
(* a stutter or a settlement of the budget.                                *)
LEMMA RewriteImplements ==
  ASSUME TypeOK, NEW c \in Cycles, NEW i \in DOMAIN attempts[c], NEW attempt \in Attempt,
         Rewrite(c, i, attempt),
         attempts[c][i].outcome \in Open \/ SlotOf(attempt) = SlotOf(attempts[c][i])
  PROVE  B!Next \/ UNCHANGED Slots
<1>1. Slots' = [Slots EXCEPT ![c][i] = SlotOf(attempt)]
  BY RewriteSlots
<1>2. /\ Slots[c][i] = SlotOf(attempts[c][i])
      /\ i \in DOMAIN Slots[c]
      /\ attempts[c][i] \in Attempt
  BY SlotsShape DEF TypeOK
<1>3. CASE SlotOf(attempt) = SlotOf(attempts[c][i])
  <2>1. [Slots EXCEPT ![c][i] = Slots[c][i]] = Slots
    BY DEF Slots
  <2>2. QED
    BY <1>1, <1>2, <1>3, <2>1
<1>4. CASE attempts[c][i].outcome \in Open /\ SlotOf(attempt) # SlotOf(attempts[c][i])
  <2>1. Slots[c][i] = "reserved" /\ SlotOf(attempt) \in {"spent", "refunded"}
    BY <1>2, <1>4, SlotCases
  <2>2. B!Settle(c, i, SlotOf(attempt))
    BY <1>1, <2>1 DEF B!Settle
  <2>3. QED
    BY <1>2, <2>1, <2>2 DEF B!Next
<1>5. QED
  BY <1>3, <1>4

(* What no transaction takes back from a row: its fence once written, its  *)
(* notice once delivered in time, its outcome and code once settled.       *)
Kept(a, b) ==
  /\ Fired(a) => b.fence = a.fence
  /\ a.notice = "onTime" => b.notice = "onTime"
  /\ a.outcome \notin Open => b.outcome = a.outcome /\ b.code = a.code

(* Every row transaction, and the clock, rewrites one row and keeps what   *)
(* was written for good.                                                   *)
LEMMA RowTransactionRewrites ==
  ASSUME TypeOK, NEW c \in Cycles, NEW i \in DOMAIN attempts[c],
         RowTransaction(c, i) \/ Elapse(c, i)
  PROVE  \E attempt \in Attempt : Rewrite(c, i, attempt) /\ Kept(attempts[c][i], attempt)
<1> DEFINE a == attempts[c][i]
<1>0. a \in Attempt /\ leases[c] \in Lease
  BY DEF TypeOK
<1>1. CASE \E fence \in 1..leases[c].fence : MarkAttemptFired(c, i, fence)
  <2> PICK fence \in 1..leases[c].fence : MarkAttemptFired(c, i, fence)
    BY <1>1
  <2>1. [a EXCEPT !.fence = fence] \in Attempt
    BY <1>0, MaxFenceAssumption DEF Attempt, Lease
  <2>2. Kept(a, [a EXCEPT !.fence = fence])
    BY <1>0 DEF Attempt, MarkAttemptFired, Fireable, Kept
  <2>3. QED
    BY <2>1, <2>2 DEF MarkAttemptFired
<1>2. CASE \E x \in Answer \cup {<<"TIMEOUT", "none">>} : RecordAttemptOutcome(c, i, x[1], x[2])
  <2> PICK x \in Answer \cup {<<"TIMEOUT", "none">>} : RecordAttemptOutcome(c, i, x[1], x[2])
    BY <1>2
  <2>0. x[1] \in Outcome /\ x[2] \in Codes \cup {"none"}
    BY DEF Answer, Outcome
  <2>1. [a EXCEPT !.outcome = x[1], !.code = x[2]] \in Attempt
    BY <1>0, <2>0 DEF Attempt
  <2>2. Kept(a, [a EXCEPT !.outcome = x[1], !.code = x[2]])
    BY <1>0 DEF Attempt, RecordAttemptOutcome, Recordable, Open, Fired, Kept
  <2>3. QED
    BY <2>1, <2>2 DEF RecordAttemptOutcome
<1>3. CASE \E x \in Answer : ResolveAttemptOutcome(c, i, x[1], x[2])
  <2> PICK x \in Answer : ResolveAttemptOutcome(c, i, x[1], x[2])
    BY <1>3
  <2>0. x[1] \in Outcome /\ x[2] \in Codes \cup {"none"}
    BY DEF Answer, Outcome
  <2>1. [a EXCEPT !.outcome = x[1], !.code = x[2]] \in Attempt
    BY <1>0, <2>0 DEF Attempt
  <2>2. Kept(a, [a EXCEPT !.outcome = x[1], !.code = x[2]])
    BY <1>0 DEF Attempt, ResolveAttemptOutcome, Open, Fired, Kept
  <2>3. QED
    BY <2>1, <2>2 DEF ResolveAttemptOutcome
<1>4. CASE AbandonAttempt(c, i) \/ ResolveNotDebited(c, i)
  <2>1. [a EXCEPT !.outcome = "ABANDONED_STALE"] \in Attempt
    BY <1>0 DEF Attempt, Outcome
  <2>2. Kept(a, [a EXCEPT !.outcome = "ABANDONED_STALE"])
    BY <1>0, <1>4 DEF Attempt, AbandonAttempt, ResolveNotDebited, Abandonable, Resolvable,
                      Open, Fired, Kept
  <2>3. QED
    BY <1>4, <2>1, <2>2 DEF AbandonAttempt, ResolveNotDebited, Refund
<1>5. CASE ResolveDebited(c, i)
  <2>1. [a EXCEPT !.outcome = "SUCCESS"] \in Attempt
    BY <1>0 DEF Attempt, Outcome
  <2>2. Kept(a, [a EXCEPT !.outcome = "SUCCESS"])
    BY <1>0, <1>5 DEF Attempt, ResolveDebited, Resolvable, Fired, Kept
  <2>3. QED
    BY <1>5, <2>1, <2>2 DEF ResolveDebited
<1>6. CASE MarkNoticeDelivered(c, i)
  <2> DEFINE row == [a EXCEPT !.notice = IF a.age = Early THEN "onTime" ELSE "late"]
  <2>1. row \in Attempt /\ Kept(a, row)
    BY <1>0, <1>6 DEF Attempt, MarkNoticeDelivered, Fired, Kept
  <2>2. Rewrite(c, i, row)
    BY <1>6 DEF MarkNoticeDelivered
  <2> HIDE DEF row
  <2>3. QED
    BY <2>1, <2>2
<1>7. CASE Elapse(c, i)
  <2> DEFINE row == [a EXCEPT !.age = a.age + 1]
  <2>1. row \in Attempt /\ Kept(a, row)
    BY <1>0, <1>7 DEF Fired, Kept, Attempt, Elapse, Early, Stale
  <2>2. Rewrite(c, i, row)
    BY <1>7 DEF Elapse
  <2> HIDE DEF row
  <2>3. QED
    BY <2>1, <2>2
<1>8. QED
  BY <1>1, <1>2, <1>3, <1>4, <1>5, <1>6, <1>7 DEF RowTransaction

(* Seen as slots, a transaction on a row is a step of Budget or none.      *)
LEMMA RowTransactionImplements ==
  ASSUME TypeOK, NEW c \in Cycles, NEW i \in DOMAIN attempts[c],
         RowTransaction(c, i) \/ Elapse(c, i)
  PROVE  B!Next \/ UNCHANGED Slots
<1> PICK attempt \in Attempt : Rewrite(c, i, attempt) /\ Kept(attempts[c][i], attempt)
  BY RowTransactionRewrites
<1>1. attempts[c][i].outcome \in Open \/ SlotOf(attempt) = SlotOf(attempts[c][i])
  BY DEF SlotOf, Kept
<1>2. QED
  BY <1>1, RewriteImplements

(* The guard attempts_used < MaxAttempts is the budget's own guard, since  *)
(* the counter agrees with the rows.                                       *)
LEMMA ReserveImplements ==
  ASSUME StoreInv, NEW c \in Cycles, NEW version, NEW age \in Early..Stale,
         ReserveAttempt(c, version, age)
  PROVE  B!Next
<1> DEFINE row == [fence |-> 0, outcome |-> "none", code |-> "none",
                   notice |-> "queued", age |-> age]
<1>1. row \in Attempt /\ SlotOf(row) = "reserved"
  BY MaxFenceAssumption DEF Attempt, Outcome, SlotOf, Open
<1>2. attempts' = [attempts EXCEPT ![c] = Append(attempts[c], row)]
  BY DEF ReserveAttempt
<1> HIDE DEF row
<1>3. attempts[c] \in Seq(Attempt) /\ Slots[c] \in Seq({"reserved", "spent", "refunded"})
  BY SlotsShape DEF StoreInv, TypeOK
<1>4. Slots'[c] = Append(Slots[c], "reserved")
  <2>1. Slots'[c] = [i \in 1..(Len(attempts[c]) + 1) |-> SlotOf(Append(attempts[c], row)[i])]
    BY <1>1, <1>2, <1>3 DEF Slots, StoreInv, TypeOK
  <2>2. \A i \in 1..(Len(attempts[c]) + 1) :
          SlotOf(Append(attempts[c], row)[i]) =
            IF i \in 1..Len(attempts[c]) THEN Slots[c][i] ELSE "reserved"
    BY <1>1, <1>3, SlotsShape DEF StoreInv
  <2>3. Append(Slots[c], "reserved") =
          [i \in 1..(Len(attempts[c]) + 1) |->
             IF i \in 1..Len(attempts[c]) THEN Slots[c][i] ELSE "reserved"]
    BY <1>3, SlotsShape DEF StoreInv
  <2>4. QED
    BY <2>1, <2>2, <2>3
<1>5. \A d \in Cycles \ {c} : Slots'[d] = Slots[d]
  BY <1>2 DEF Slots, StoreInv, TypeOK
<1>6. Slots' = [Slots EXCEPT ![c] = Append(Slots[c], "reserved")]
  BY <1>4, <1>5 DEF Slots
<1>7. Cardinality(B!Charged(c)) < MaxAttempts
  BY SlotsShape DEF StoreInv, BudgetAgrees, ReserveAttempt, Reservable
<1>8. B!Reserve(c)
  BY <1>6, <1>7 DEF B!Reserve, B!Cardinality, Cardinality
<1>9. QED
  BY <1>8 DEF B!Next

(* The store, under arbitrary clients, keeps the promise of the budget:    *)
(* never more than MaxAttempts slots charged, each settled once for all.   *)
THEOREM StoreImplementsBudget == Spec => BudgetSpec
<1>1. Init => B!Init
  <2> SUFFICES ASSUME Init PROVE Slots = [c \in Cycles |-> <<>>]
    BY DEF B!Init
  <2>1. ASSUME NEW c \in Cycles PROVE Slots[c] = <<>>
    <3>1. TypeOK /\ Len(attempts[c]) = 0
      BY InitKeepsInv DEF Init, StoreInv
    <3>2. QED
      BY <3>1, SlotsShape, EmptySeq
  <2>2. QED
    BY <2>1 DEF Slots
<1>2. StoreInv /\ [Next]_storeVars => [B!Next]_Slots
  <2> SUFFICES ASSUME StoreInv, [Next]_storeVars PROVE B!Next \/ UNCHANGED Slots
    OBVIOUS
  <2>1. CASE UNCHANGED storeVars
    BY <2>1 DEF storeVars, Slots
  <2>2. CASE Time
    <3>1. CASE \E c \in Cycles : LeaseExpires(c)
      BY <3>1 DEF LeaseExpires, Slots
    <3>2. CASE \E c \in Cycles : \E i \in DOMAIN attempts[c] : Elapse(c, i)
      BY <3>2, RowTransactionImplements DEF StoreInv
    <3>3. QED
      BY <2>2, <3>1, <3>2 DEF Time
  <2>3. CASE \E c \in Cycles : Transaction(c)
    <3> PICK c \in Cycles : Transaction(c)
      BY <2>3
    <3>1. CASE \E age \in Early..Stale : ReserveAttempt(c, cycles[c].version, age)
      BY <3>1, ReserveImplements
    <3>2. CASE AcquireLease(c) \/ \E state \in Terminal \cup {"held", "pending"} : SetState(c, state)
      BY <3>2 DEF AcquireLease, SetState, Slots
    <3>3. CASE \E i \in DOMAIN attempts[c] : RowTransaction(c, i)
      BY <3>3, RowTransactionImplements DEF StoreInv
    <3>4. QED
      BY <3>1, <3>2, <3>3 DEF Transaction
  <2>4. QED
    BY <2>1, <2>2, <2>3 DEF Next
<1>3. QED
  BY <1>1, <1>2, StoreInvariant, PTL DEF Spec, BudgetSpec, B!Spec

-----------------------------------------------------------------------------
(* History.                                                                *)

(* Fencing tokens and versions never go back, no attempt is ever removed,  *)
(* and what was written for good in its row is never rewritten.            *)
HistoryKept ==
  \A c \in Cycles :
    /\ leases'[c].fence >= leases[c].fence
    /\ cycles'[c].version >= cycles[c].version
    /\ \A i \in DOMAIN attempts[c] :
         i \in DOMAIN attempts'[c] /\ Kept(attempts[c][i], attempts'[c][i])

(* A step that leaves the rows alone keeps them.                           *)
LEMMA SameRowsKept ==
  ASSUME UNCHANGED attempts, NEW c \in Cycles, NEW i \in DOMAIN attempts[c]
  PROVE  i \in DOMAIN attempts'[c] /\ Kept(attempts[c][i], attempts'[c][i])
BY DEF Kept

(* The lease and the cycle's row, whatever the transaction.                *)
LEMMA RowTransactionCounters ==
  ASSUME TypeOK, NEW c \in Cycles, NEW i \in DOMAIN attempts[c],
         RowTransaction(c, i) \/ Elapse(c, i)
  PROVE  leases' = leases /\ \A d \in Cycles : cycles'[d].version = cycles[d].version
<1>0. cycles \in [Cycles -> [state: State, used: 0..MaxAttempts, version: Nat]]
  BY DEF TypeOK, Cycle
<1>1. CASE \E fence \in 1..leases[c].fence : MarkAttemptFired(c, i, fence)
  BY <1>0, <1>1 DEF MarkAttemptFired
<1>2. CASE \E x \in Answer \cup {<<"TIMEOUT", "none">>} : RecordAttemptOutcome(c, i, x[1], x[2])
  BY <1>0, <1>2 DEF RecordAttemptOutcome
<1>3. CASE \/ \E x \in Answer : ResolveAttemptOutcome(c, i, x[1], x[2])
           \/ MarkNoticeDelivered(c, i) \/ Elapse(c, i)
  BY <1>3 DEF ResolveAttemptOutcome, MarkNoticeDelivered, Elapse
<1>4. CASE AbandonAttempt(c, i) \/ ResolveNotDebited(c, i)
  BY <1>0, <1>4 DEF AbandonAttempt, ResolveNotDebited, Refund
<1>5. CASE ResolveDebited(c, i)
  BY <1>0, <1>5 DEF ResolveDebited
<1>6. QED
  BY <1>1, <1>2, <1>3, <1>4, <1>5 DEF RowTransaction

LEMMA RowTransactionKeepsHistory ==
  ASSUME TypeOK, NEW c \in Cycles, NEW i \in DOMAIN attempts[c],
         RowTransaction(c, i) \/ Elapse(c, i)
  PROVE  HistoryKept
<1>1. PICK attempt \in Attempt : Rewrite(c, i, attempt) /\ Kept(attempts[c][i], attempt)
  BY RowTransactionRewrites
<1> SUFFICES ASSUME NEW d \in Cycles
             PROVE  /\ leases'[d].fence >= leases[d].fence
                    /\ cycles'[d].version >= cycles[d].version
                    /\ \A j \in DOMAIN attempts[d] :
                         j \in DOMAIN attempts'[d] /\ Kept(attempts[d][j], attempts'[d][j])
  BY DEF HistoryKept
<1>2. leases[d].fence \in Nat /\ cycles[d].version \in Nat
  BY MaxFenceAssumption DEF TypeOK, Lease, Cycle
<1>3. leases'[d].fence >= leases[d].fence /\ cycles'[d].version >= cycles[d].version
  BY <1>2, RowTransactionCounters
<1>4. ASSUME NEW j \in DOMAIN attempts[d]
      PROVE  j \in DOMAIN attempts'[d] /\ Kept(attempts[d][j], attempts'[d][j])
  <2>1. /\ j \in DOMAIN attempts'[d]
        /\ attempts'[d][j] = IF d = c /\ j = i THEN attempt ELSE attempts[d][j]
    BY <1>1, RewriteRow
  <2>2. Kept(attempts[d][j], attempts[d][j])
    BY DEF Kept
  <2>3. QED
    BY <1>1, <2>1, <2>2
<1>5. QED
  BY <1>3, <1>4

(* A new row comes after the old ones, which stay.                         *)
LEMMA OldRowsStay ==
  ASSUME TypeOK, NEW c \in Cycles, NEW version, NEW age, ReserveAttempt(c, version, age),
         NEW d \in Cycles, NEW j \in DOMAIN attempts[d]
  PROVE  j \in DOMAIN attempts'[d] /\ attempts'[d][j] = attempts[d][j]
<1>1. PICK row : attempts' = [attempts EXCEPT ![c] = Append(attempts[c], row)]
  BY DEF ReserveAttempt
<1>2. attempts \in [Cycles -> Seq(Attempt)]
  BY DEF TypeOK
<1>3. CASE d = c
  <2>1. attempts'[d] = Append(attempts[d], row) /\ attempts[d] \in Seq(Attempt)
    BY <1>1, <1>2, <1>3
  <2>2. j \in 1..Len(attempts[d])
    BY <2>1
  <2>3. QED
    BY <2>1, <2>2
<1>4. CASE d # c
  BY <1>1, <1>2, <1>4
<1>5. QED
  BY <1>3, <1>4

LEMMA ReserveKeepsHistory ==
  ASSUME TypeOK, NEW c \in Cycles, NEW version, NEW age, ReserveAttempt(c, version, age)
  PROVE  HistoryKept
<1> SUFFICES ASSUME NEW d \in Cycles
             PROVE  /\ leases'[d].fence >= leases[d].fence
                    /\ cycles'[d].version >= cycles[d].version
                    /\ \A j \in DOMAIN attempts[d] :
                         j \in DOMAIN attempts'[d] /\ Kept(attempts[d][j], attempts'[d][j])
  BY DEF HistoryKept
<1>1. leases[d].fence \in Nat /\ cycles[d].version \in Nat
  BY MaxFenceAssumption DEF TypeOK, Lease, Cycle
<1>2. leases' = leases /\ cycles'[d].version >= cycles[d].version
  BY <1>1 DEF ReserveAttempt, TypeOK
<1>3. QED
  BY <1>1, <1>2, OldRowsStay DEF Kept

(* Nothing the store once wrote for good is ever lost, whichever processes *)
(* use it and however their transactions interleave: a stalled worker's    *)
(* late write cannot move a fence back, unsettle an outcome or unsend a    *)
(* notice.                                                                 *)
THEOREM StoreHistoryIsKept == Spec => [][HistoryKept]_storeVars
<1>1. StoreInv /\ [Next]_storeVars => [HistoryKept]_storeVars
  <2> SUFFICES ASSUME TypeOK, Next PROVE HistoryKept
    BY DEF StoreInv
  <2>0. \A d \in Cycles : leases[d].fence \in Nat /\ cycles[d].version \in Nat
    BY MaxFenceAssumption DEF TypeOK, Lease, Cycle
  <2>1. CASE Time
    <3>1. PICK c \in Cycles : LeaseExpires(c) \/ \E i \in DOMAIN attempts[c] : Elapse(c, i)
      BY <2>1 DEF Time
    <3>2. CASE LeaseExpires(c)
      <4>1. UNCHANGED <<cycles, attempts>> /\ \A d \in Cycles : leases'[d].fence = leases[d].fence
        BY <3>2 DEF LeaseExpires, TypeOK, Lease
      <4>2. QED
        BY <2>0, <4>1, SameRowsKept DEF HistoryKept
    <3>3. QED
      BY <3>1, <3>2, RowTransactionKeepsHistory
  <2>2. CASE \E c \in Cycles : Transaction(c)
    <3>1. PICK c \in Cycles : Transaction(c)
      BY <2>2
    <3>2. CASE AcquireLease(c)
      <4>1. /\ UNCHANGED <<cycles, attempts>>
            /\ \A d \in Cycles : leases'[d].fence >= leases[d].fence
        BY <2>0, <3>2 DEF AcquireLease, TypeOK
      <4>2. QED
        BY <2>0, <4>1, SameRowsKept DEF HistoryKept
    <3>3. CASE \E state \in Terminal \cup {"held", "pending"} : SetState(c, state)
      <4>1. /\ UNCHANGED <<leases, attempts>>
            /\ \A d \in Cycles : cycles'[d].version = cycles[d].version
        BY <3>3 DEF SetState, TypeOK, Cycle
      <4>2. QED
        BY <2>0, <4>1, SameRowsKept DEF HistoryKept
    <3>4. QED
      BY <3>1, <3>2, <3>3, ReserveKeepsHistory, RowTransactionKeepsHistory DEF Transaction
  <2>3. QED
    BY <2>1, <2>2 DEF Next
<1>2. QED
  BY <1>1, StoreInvariant, PTL DEF Spec
=============================================================================
