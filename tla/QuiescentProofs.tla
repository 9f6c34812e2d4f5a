-------------------------- MODULE QuiescentProofs --------------------------
(***************************************************************************)
(* Theorems about the running system, for every set of cycles, codes and   *)
(* processes and every MaxAttempts and MaxFence: the inductive invariant   *)
(* behind the safety properties of Quiescent; and why the claims of Claims *)
(* do not hold.                                                            *)
(***************************************************************************)
EXTENDS Verify, Claims, StoreProofs, WellFoundedInduction

-----------------------------------------------------------------------------
(* The inductive invariant.                                                *)

(* How an attempt that another may follow has ended.                       *)
Final == {"FAILURE", "ABANDONED_STALE"}

RowsFinal(c) == \A i \in Rows(c) : attempts[c][i].outcome \in Final

TerminalCode(a) == a.code # "none" /\ Classify(a.code) = "terminal"

(* The tables: what may be said of a cycle's attempts from its state and   *)
(* from their places in the sequence.                                      *)
RowsInOrder ==
  \A c \in Cycles :
    /\ Len(attempts[c]) <= MaxAttempts
    /\ \A i \in Rows(c) :
         /\ i # Len(attempts[c]) => attempts[c][i].outcome \in Final
         /\ attempts[c][i].code # "none" => attempts[c][i].outcome = "FAILURE"

PendingIsFinal == \A c \in Cycles : cycles[c].state = "pending" => RowsFinal(c)

StoreQInv ==
  /\ StoreInv /\ RowsInOrder /\ PendingIsFinal /\ NoticeGate
  /\ UnknownIsReconcilable /\ ScheduledIsClaimable /\ TerminalFailureIsLast

(* The bank: every request is about a row already marked with its fence,   *)
(* and a reply repeats what the ledger holds.                              *)
CallsMatchRows ==
  \A call \in calls :
    /\ call.seq \in Rows(call.cycle)
    /\ attempts[call.cycle][call.seq].fence = call.fence
    /\ call.stage = "replied" => Known(call.cycle, call.seq)

LedgerMatchesRows ==
  \A c \in Cycles : \A i \in 1..MaxAttempts :
    Known(c, i) => i \in Rows(c) /\ Fired(attempts[c][i])

BankQInv ==
  BankTypeOK /\ CallsMatchRows /\ LedgerMatchesRows /\ RecordsAgreeWithBank /\ RecoveredWasPaid

(* A worker: what it knows of its attempt still holds, whatever the others *)
(* did meanwhile.                                                          *)
WorkerOK(w) ==
  ~At(w, "idle") =>
    /\ I(w) \in Rows(C(w))
    /\ ~At(w, "fresh") => worker[w].fence \in 1..leases[C(w)].fence
    /\ At(w, "gated") => attempts[C(w)][I(w)].notice = "onTime"
    /\ worker[w].pc \in {"fired", "sent", "recorded"}
         => attempts[C(w)][I(w)].fence = worker[w].fence
    /\ At(w, "recorded") =>
         /\ I(w) = Len(attempts[C(w)])
         /\ Known(C(w), I(w))
         /\ attempts[C(w)][I(w)].outcome = ledger[C(w)][I(w)][1]
         /\ cycles[C(w)].state # "pending"

RecordedAlone ==
  \A v, w \in Workers : At(v, "recorded") /\ At(w, "recorded") /\ C(v) = C(w) => v = w

WorkerQInv == ExecuteTypeOK /\ (\A w \in Workers : WorkerOK(w)) /\ RecordedAlone

ReconQInv ==
  /\ ReconcileTypeOK
  /\ \A r \in Reconcilers : ~Asking(r, "idle") => recon[r].seq \in Rows(recon[r].cycle)

RelayQInv ==
  /\ RelayTypeOK
  /\ \A l \in Relays : ~Relaying(l, "idle") => relay[l].seq \in Rows(relay[l].cycle)

(* A plan whose version is still the cycle's was made from what the cycle  *)
(* still is.                                                               *)
PlanOK(s) ==
  sched[s].pc = "planned" =>
    LET c == sched[s].cycle
    IN  /\ sched[s].version <= cycles[c].version
        /\ sched[s].version = cycles[c].version =>
             /\ RowsFinal(c)
             /\ \A i \in Rows(c) : ~TerminalCode(attempts[c][i])
             /\ \A w \in Workers : At(w, "recorded") => C(w) # c
             /\ ShortOfFunds(c) => TriggerOf(c).reply \in {"yes", "no", "expired"}

PlanQInv == ScheduleTypeOK /\ \A s \in Schedulers : PlanOK(s)

QInv == StoreQInv /\ BankQInv /\ WorkerQInv /\ ReconQInv /\ RelayQInv /\ PlanQInv

-----------------------------------------------------------------------------
(* Steps of the store.  Whatever else a step does, it lets the store       *)
(* evolve: fences, versions and rows only grow, a fence once written, a    *)
(* notice once delivered in time and an outcome once settled stay, and a   *)
(* settled cycle of the same version has the same budget.                  *)

Evolves ==
  \A c \in Cycles :
    /\ leases'[c].fence >= leases[c].fence
    /\ cycles'[c].version >= cycles[c].version
    /\ \A i \in Rows(c) : i \in DOMAIN attempts'[c] /\ Kept(attempts[c][i], attempts'[c][i])
    /\ cycles'[c].version = cycles[c].version =>
         /\ DOMAIN attempts'[c] = Rows(c)
         /\ Len(attempts'[c]) = Len(attempts[c])
         /\ RowsFinal(c) => cycles'[c].used = cycles[c].used

(* What the type of the tables says of a cycle and a row.                  *)
LEMMA Shapes ==
  ASSUME TypeOK, NEW c \in Cycles
  PROVE  /\ cycles[c] \in Cycle /\ cycles[c].version \in Nat /\ cycles[c].used \in 0..MaxAttempts
         /\ leases[c] \in Lease /\ leases[c].fence \in 0..MaxFence
         /\ attempts[c] \in Seq(Attempt) /\ Len(attempts[c]) \in Nat
         /\ Rows(c) = 1..Len(attempts[c])
         /\ \A i \in Rows(c) : attempts[c][i] \in Attempt
BY DEF TypeOK, Cycle, Lease, Rows

(* A rewritten row leaves every length as it was.                          *)
LEMMA RewriteLen ==
  ASSUME TypeOK, NEW c \in Cycles, NEW i \in Rows(c), NEW b \in Attempt, Rewrite(c, i, b)
  PROVE  \A d \in Cycles : /\ Len(attempts'[d]) = Len(attempts[d])
                           /\ Rows(d)' = Rows(d)
                           /\ \A j \in Rows(d) :
                                attempts'[d][j] = IF d = c /\ j = i THEN b ELSE attempts[d][j]
<1> TAKE d \in Cycles
<1>1. /\ DOMAIN attempts'[d] = DOMAIN attempts[d]
      /\ \A j \in DOMAIN attempts[d] :
           attempts'[d][j] = IF d = c /\ j = i THEN b ELSE attempts[d][j]
      /\ attempts'[d] \in Seq(Attempt)
  BY RewriteRow DEF Rows
<1>2. attempts[d] \in Seq(Attempt)
  BY DEF TypeOK
<1>3. Len(attempts'[d]) = Len(attempts[d])
  BY <1>1, <1>2
<1>4. QED
  BY <1>1, <1>3 DEF Rows

(* A row whose fence, outcome and code stay changes nothing that matters.  *)
LEMMA QuietRewrite ==
  ASSUME StoreQInv, NEW c \in Cycles, NEW i \in Rows(c), NEW b \in Attempt, Rewrite(c, i, b),
         b.fence = attempts[c][i].fence, b.outcome = attempts[c][i].outcome,
         b.code = attempts[c][i].code,
         attempts[c][i].notice = "onTime" => b.notice = "onTime",
         UNCHANGED <<cycles, leases>>
  PROVE  StoreQInv' /\ Evolves
<1>0. TypeOK
  BY DEF StoreQInv, StoreInv
<1>1. StoreInv'
  <2>1. \A d \in Cycles : cycles'[d].used = cycles[d].used
    OBVIOUS
  <2>2. cycles' \in [Cycles -> Cycle]
    BY <1>0 DEF TypeOK
  <2>3. QED
    BY <2>1, <2>2, RewriteKeepsInv DEF StoreQInv, Rows
<1>2. \A d \in Cycles : /\ Len(attempts'[d]) = Len(attempts[d])
                        /\ Rows(d)' = Rows(d)
                        /\ \A j \in Rows(d) :
                             /\ attempts'[d][j].outcome = attempts[d][j].outcome
                             /\ attempts'[d][j].code = attempts[d][j].code
                             /\ attempts'[d][j].fence = attempts[d][j].fence
                             /\ attempts[d][j].notice = "onTime" => attempts'[d][j].notice = "onTime"
  BY <1>0, RewriteLen
<1>3. RowsInOrder'
  BY <1>2 DEF StoreQInv, RowsInOrder
<1>4. PendingIsFinal'
  BY <1>2 DEF StoreQInv, PendingIsFinal, RowsFinal
<1>5. NoticeGate'
  BY <1>2 DEF StoreQInv, NoticeGate, Fired
<1>6. UnknownIsReconcilable'
  BY <1>2 DEF StoreQInv, UnknownIsReconcilable
<1>7. ScheduledIsClaimable'
  BY <1>2 DEF StoreQInv, ScheduledIsClaimable, Abandonable, Fired, Rows
<1>8. TerminalFailureIsLast'
  BY <1>2 DEF StoreQInv, TerminalFailureIsLast
<1>9. Evolves
  BY <1>0, <1>2, Shapes DEF Evolves, Kept, Fired, Rows, Lease
<1>10. QED
  BY <1>1, <1>3, <1>4, <1>5, <1>6, <1>7, <1>8, <1>9 DEF StoreQInv

(* Nothing of a row or a cycle changes, and no fence falls.                *)
LEMMA LeaseStep ==
  ASSUME StoreQInv, UNCHANGED <<cycles, attempts>>, leases' \in [Cycles -> Lease],
         \A c \in Cycles : leases'[c].fence >= leases[c].fence
  PROVE  StoreQInv' /\ Evolves
<1>0. TypeOK
  BY DEF StoreQInv, StoreInv
<1>1. StoreInv'
  BY NoRowKeepsInv, <1>0 DEF StoreQInv, TypeOK
<1>2. \A d \in Cycles : Rows(d)' = Rows(d)
  BY DEF Rows
<1>3. RowsInOrder' /\ PendingIsFinal' /\ NoticeGate'
  BY <1>2 DEF StoreQInv, RowsInOrder, PendingIsFinal, RowsFinal, NoticeGate
<1>4. UnknownIsReconcilable' /\ ScheduledIsClaimable' /\ TerminalFailureIsLast'
  BY <1>2 DEF StoreQInv, UnknownIsReconcilable, ScheduledIsClaimable, TerminalFailureIsLast,
              Abandonable
<1>5. Evolves
  BY <1>0, Shapes DEF Evolves, Kept, Rows
<1>6. QED
  BY <1>1, <1>3, <1>4, <1>5 DEF StoreQInv

(* The leases of a cycle are taken, or run out.                            *)
LEMMA AcquireLeaseStep ==
  ASSUME StoreQInv, NEW c \in Cycles, AcquireLease(c)
  PROVE  /\ StoreQInv' /\ Evolves
         /\ leases'[c].fence \in 1..MaxFence
<1>0. leases \in [Cycles -> Lease] /\ leases[c].fence \in 0..MaxFence
  BY Shapes DEF StoreQInv, StoreInv, TypeOK
<1>1. leases' = [leases EXCEPT ![c] = [fence |-> leases[c].fence + 1, live |-> TRUE]]
  BY DEF AcquireLease
<1>2. [fence |-> leases[c].fence + 1, live |-> TRUE] \in Lease
  BY <1>0, MaxFenceAssumption DEF AcquireLease, Lease
<1>3. leases' \in [Cycles -> Lease]
  BY <1>0, <1>1, <1>2
<1>4. \A d \in Cycles : leases'[d].fence >= leases[d].fence
  BY <1>0, <1>1 DEF Lease
<1>5. leases'[c].fence \in 1..MaxFence
  BY <1>0, <1>1, MaxFenceAssumption DEF AcquireLease
<1>6. QED
  BY <1>3, <1>4, <1>5, LeaseStep DEF AcquireLease

(* The passing of time.                                                    *)
LEMMA TimeStep ==
  ASSUME StoreQInv, Time
  PROVE  StoreQInv' /\ Evolves /\ cycles' = cycles
<1>0. TypeOK
  BY DEF StoreQInv, StoreInv
<1> PICK c \in Cycles : LeaseExpires(c) \/ \E i \in DOMAIN attempts[c] : Elapse(c, i)
  BY DEF Time
<1>1. CASE LeaseExpires(c)
  <2>0. leases \in [Cycles -> Lease]
    BY <1>0 DEF TypeOK
  <2>1. \A d \in Cycles : leases'[d] \in Lease /\ leases'[d].fence = leases[d].fence
    BY <2>0, <1>1 DEF LeaseExpires, Lease
  <2>2. leases' \in [Cycles -> Lease]
    BY <2>0, <2>1, <1>1 DEF LeaseExpires
  <2>3. \A d \in Cycles : leases'[d].fence >= leases[d].fence
    BY <2>0, <2>1 DEF Lease
  <2>4. QED
    BY <1>1, <2>2, <2>3, LeaseStep DEF LeaseExpires
<1>2. CASE \E i \in DOMAIN attempts[c] : Elapse(c, i)
  <2> PICK i \in Rows(c) : Elapse(c, i)
    BY <1>2 DEF Rows
  <2> DEFINE a == attempts[c][i]
             b == [a EXCEPT !.age = @ + 1]
  <2>1. a \in Attempt
    BY <1>0, Shapes
  <2>2. /\ b \in Attempt /\ b.fence = a.fence /\ b.outcome = a.outcome
        /\ b.code = a.code /\ b.notice = a.notice
    BY <2>1 DEF Attempt, Elapse, Early, Stale
  <2>3. Rewrite(c, i, b) /\ UNCHANGED <<cycles, leases>>
    BY DEF Elapse
  <2> HIDE DEF b
  <2>4. QED
    BY <2>2, <2>3, QuietRewrite
<1>3. QED
  BY <1>1, <1>2

(* A notice is delivered.                                                  *)
LEMMA NoticeStep ==
  ASSUME StoreQInv, NEW c \in Cycles, NEW i \in Rows(c), MarkNoticeDelivered(c, i)
  PROVE  StoreQInv' /\ Evolves /\ cycles' = cycles
<1>0. TypeOK
  BY DEF StoreQInv, StoreInv
<1> DEFINE a == attempts[c][i]
           b == [a EXCEPT !.notice = IF a.age = Early THEN "onTime" ELSE "late"]
<1>1. a \in Attempt
  BY <1>0, Shapes
<1>2. /\ b \in Attempt /\ b.fence = a.fence /\ b.outcome = a.outcome /\ b.code = a.code
      /\ a.notice # "onTime"
  BY <1>1 DEF Attempt, MarkNoticeDelivered
<1>3. Rewrite(c, i, b) /\ UNCHANGED <<cycles, leases>>
  BY DEF MarkNoticeDelivered
<1> HIDE DEF b
<1>4. QED
  BY <1>2, <1>3, QuietRewrite

(* An attempt whose notice was delivered in time is marked fired.          *)
LEMMA FireStep1 ==
  ASSUME StoreQInv, NEW c \in Cycles, NEW i \in Rows(c), NEW fence \in 1..MaxFence,
         attempts[c][i].notice = "onTime", MarkAttemptFired(c, i, fence)
  PROVE  /\ StoreQInv' /\ Evolves
         /\ attempts'[c][i].fence = fence
         /\ attempts'[c][i].outcome = attempts[c][i].outcome
         /\ \A d \in Cycles : cycles'[d].state = IF d = c THEN "in_flight" ELSE cycles[d].state
         /\ \A d \in Cycles : cycles'[d].version = cycles[d].version
         /\ \A d \in Cycles : \A j \in Rows(d) : attempts'[d][j].outcome = attempts[d][j].outcome
<1>0. TypeOK
  BY DEF StoreQInv, StoreInv
<1> DEFINE a == attempts[c][i]
           b == [a EXCEPT !.fence = fence]
<1>1. a \in Attempt
  BY <1>0, Shapes
<1>2. /\ b \in Attempt /\ b.fence = fence /\ b.outcome = a.outcome /\ b.code = a.code
      /\ b.notice = a.notice
  BY <1>1, MaxFenceAssumption DEF Attempt
<1>3. Rewrite(c, i, b) /\ UNCHANGED leases /\ a.fence = 0
  BY <1>1, MaxFenceAssumption DEF MarkAttemptFired, Fireable, Fired, Attempt
<1>4. /\ cycles' \in [Cycles -> Cycle]
      /\ \A d \in Cycles : /\ cycles'[d].used = cycles[d].used
                           /\ cycles'[d].version = cycles[d].version
                           /\ cycles'[d].state = IF d = c THEN "in_flight" ELSE cycles[d].state
  BY <1>0 DEF MarkAttemptFired, TypeOK, Cycle, State, Terminal
<1> HIDE DEF b
<1>5. StoreInv'
  BY <1>2, <1>3, <1>4, RewriteKeepsInv DEF StoreQInv, Rows
<1>6. \A d \in Cycles : /\ Len(attempts'[d]) = Len(attempts[d])
                        /\ Rows(d)' = Rows(d)
                        /\ \A j \in Rows(d) :
                             /\ attempts'[d][j].outcome = attempts[d][j].outcome
                             /\ attempts'[d][j].code = attempts[d][j].code
                             /\ attempts'[d][j].notice = attempts[d][j].notice
                             /\ attempts'[d][j].fence =
                                  IF d = c /\ j = i THEN fence ELSE attempts[d][j].fence
  BY <1>0, <1>2, <1>3, RewriteLen
<1>7. RowsInOrder' /\ TerminalFailureIsLast'
  BY <1>6 DEF StoreQInv, RowsInOrder, TerminalFailureIsLast
<1>8. PendingIsFinal'
  BY <1>4, <1>6 DEF StoreQInv, PendingIsFinal, RowsFinal
<1>9. NoticeGate'
  BY <1>6 DEF StoreQInv, NoticeGate, Fired
<1>10. UnknownIsReconcilable'
  BY <1>4, <1>6 DEF StoreQInv, UnknownIsReconcilable
<1>11. ScheduledIsClaimable'
  <2> SUFFICES ASSUME NEW d \in Cycles, cycles'[d].state = "scheduled"
               PROVE  \E j \in Rows(d)' : Abandonable(d, j)'
    BY DEF ScheduledIsClaimable
  <2>1. d # c /\ cycles[d].state = "scheduled"
    BY <1>4
  <2>2. PICK j \in Rows(d) : Abandonable(d, j)
    BY <2>1 DEF StoreQInv, ScheduledIsClaimable
  <2>3. QED
    BY <2>1, <2>2, <1>6 DEF Abandonable, Fired
<1>12. Evolves
  BY <1>0, <1>3, <1>4, <1>6, Shapes DEF Evolves, Kept, Fired, Rows, Lease
<1>13. QED
  BY <1>4, <1>5, <1>6, <1>7, <1>8, <1>9, <1>10, <1>11, <1>12 DEF StoreQInv

(* An open attempt is the last of its cycle, and the cycle is not pending. *)
LEMMA OpenIsLast ==
  ASSUME StoreQInv, NEW c \in Cycles, NEW i \in Rows(c), attempts[c][i].outcome \in Open
  PROVE  /\ i = Len(attempts[c]) /\ cycles[c].state # "pending"
         /\ \A j \in Rows(c) \ {i} : attempts[c][j].outcome \in Final
BY DEF StoreQInv, RowsInOrder, PendingIsFinal, RowsFinal, Final, Open

(* An outcome is recorded.                                                 *)
LEMMA RecordStep ==
  ASSUME StoreQInv, NEW c \in Cycles, NEW i \in Rows(c),
         NEW outcome, NEW code, <<outcome, code>> \in Answer \cup {<<"TIMEOUT", "none">>},
         RecordAttemptOutcome(c, i, outcome, code)
  PROVE  /\ StoreQInv' /\ Evolves
         /\ i = Len(attempts[c]) /\ attempts[c][i].outcome = "none" /\ cycles[c].state # "pending"
         /\ attempts'[c][i].outcome = outcome /\ attempts'[c][i].code = code
         /\ \A d \in Cycles : \A j \in Rows(d) : d # c \/ j # i =>
              attempts'[d][j].outcome = attempts[d][j].outcome /\ attempts'[d][j].code = attempts[d][j].code
         /\ \A d \in Cycles : Rows(d)' = Rows(d) /\ cycles'[d].version = cycles[d].version
         /\ \A d \in Cycles : cycles'[d].state =
              IF d = c /\ outcome = "TIMEOUT" THEN "unknown" ELSE cycles[d].state
<1>0. TypeOK
  BY DEF StoreQInv, StoreInv
<1> DEFINE a == attempts[c][i]
           b == [a EXCEPT !.outcome = outcome, !.code = code]
<1>1. a \in Attempt
  BY <1>0, Shapes
<1>2. /\ outcome \in {"SUCCESS", "FAILURE", "TIMEOUT"} /\ code \in Codes \cup {"none"}
      /\ code # "none" => outcome = "FAILURE"
  BY CodesAssumption DEF Answer
<1>3. /\ b \in Attempt /\ b.fence = a.fence /\ b.outcome = outcome /\ b.code = code
      /\ b.notice = a.notice
  BY <1>1, <1>2 DEF Attempt, Outcome
<1>4. Rewrite(c, i, b) /\ UNCHANGED leases /\ Fired(a) /\ a.outcome = "none"
  BY DEF RecordAttemptOutcome, Recordable
<1>5. /\ cycles' \in [Cycles -> Cycle]
      /\ \A d \in Cycles : /\ cycles'[d].used = cycles[d].used
                           /\ cycles'[d].version = cycles[d].version
                           /\ cycles'[d].state =
                                IF d = c /\ outcome = "TIMEOUT" THEN "unknown" ELSE cycles[d].state
  BY <1>0 DEF RecordAttemptOutcome, TypeOK, Cycle, State, Terminal
<1> HIDE DEF b
<1>6. i = Len(attempts[c]) /\ cycles[c].state # "pending"
  BY <1>4, OpenIsLast DEF Open
<1>7. StoreInv'
  BY <1>2, <1>3, <1>4, <1>5, RewriteKeepsInv DEF StoreQInv, Rows
<1>8. \A d \in Cycles : /\ Len(attempts'[d]) = Len(attempts[d])
                        /\ Rows(d)' = Rows(d)
                        /\ \A j \in Rows(d) :
                             /\ attempts'[d][j].fence = attempts[d][j].fence
                             /\ attempts'[d][j].notice = attempts[d][j].notice
                             /\ d # c \/ j # i => attempts'[d][j] = attempts[d][j]
  BY <1>0, <1>3, <1>4, RewriteLen
<1>9. attempts'[c][i].outcome = outcome /\ attempts'[c][i].code = code
  BY <1>0, <1>3, <1>4, RewriteLen
<1>10. RowsInOrder'
  BY <1>2, <1>6, <1>8, <1>9 DEF StoreQInv, RowsInOrder
<1>11. TerminalFailureIsLast'
  BY <1>6, <1>8 DEF StoreQInv, TerminalFailureIsLast
<1>12. PendingIsFinal'
  BY <1>5, <1>6, <1>8 DEF StoreQInv, PendingIsFinal, RowsFinal
<1>13. NoticeGate'
  BY <1>8 DEF StoreQInv, NoticeGate, Fired
<1>14. UnknownIsReconcilable'
  <2> SUFFICES ASSUME NEW d \in Cycles, cycles'[d].state = "unknown"
               PROVE  \E j \in Rows(d)' : attempts'[d][j].outcome = "TIMEOUT"
    BY DEF UnknownIsReconcilable
  <2>1. CASE d = c /\ outcome = "TIMEOUT"
    BY <2>1, <1>8, <1>9
  <2>2. CASE ~(d = c /\ outcome = "TIMEOUT")
    <3>1. PICK j \in Rows(d) : attempts[d][j].outcome = "TIMEOUT"
      BY <2>2, <1>5 DEF StoreQInv, UnknownIsReconcilable
    <3>2. d # c \/ j # i
      BY <3>1, <1>4
    <3>3. QED
      BY <3>1, <3>2, <1>8
  <2>3. QED
    BY <2>1, <2>2
<1>15. ScheduledIsClaimable'
  <2> SUFFICES ASSUME NEW d \in Cycles, cycles'[d].state = "scheduled"
               PROVE  \E j \in Rows(d)' : Abandonable(d, j)'
    BY DEF ScheduledIsClaimable
  <2>1. PICK j \in Rows(d) : Abandonable(d, j)
    BY <1>5 DEF StoreQInv, ScheduledIsClaimable
  <2>2. d # c \/ j # i
    BY <2>1, <1>4 DEF Abandonable
  <2>3. QED
    BY <2>1, <2>2, <1>8 DEF Abandonable
<1>16. Evolves
  <2>1. \A d \in Cycles : \A j \in Rows(d) : Kept(attempts[d][j], attempts'[d][j])
    BY <1>4, <1>8 DEF Kept, Open
  <2>2. QED
    BY <2>1, <1>0, <1>4, <1>5, <1>8, Shapes DEF Evolves, Rows
<1>17. QED
  BY <1>4, <1>5, <1>6, <1>7, <1>8, <1>9, <1>10, <1>11, <1>12, <1>13, <1>14, <1>15, <1>16 DEF StoreQInv

(* An attempt is given back.                                               *)
LEMMA RefundStep ==
  ASSUME StoreQInv, NEW c \in Cycles, NEW i \in Rows(c),
         attempts[c][i].outcome \in Open, Refund(c, i)
  PROVE  /\ StoreQInv' /\ Evolves
         /\ i = Len(attempts[c])
         /\ attempts'[c][i].outcome = "ABANDONED_STALE"
         /\ \A d \in Cycles : \A j \in Rows(d) : d # c \/ j # i => attempts'[d][j] = attempts[d][j]
         /\ \A d \in Cycles : Rows(d)' = Rows(d) /\ cycles'[d].version = cycles[d].version
         /\ \A d \in Cycles : cycles'[d].state = IF d = c THEN "pending" ELSE cycles[d].state
<1>0. TypeOK
  BY DEF StoreQInv, StoreInv
<1> DEFINE a == attempts[c][i]
           b == [a EXCEPT !.outcome = "ABANDONED_STALE"]
<1>1. a \in Attempt
  BY <1>0, Shapes
<1>2. /\ b \in Attempt /\ b.fence = a.fence /\ b.outcome = "ABANDONED_STALE"
      /\ b.notice = a.notice /\ b.code = a.code
  BY <1>1 DEF Attempt, Outcome
<1>3. Rewrite(c, i, b) /\ UNCHANGED leases
  BY DEF Refund
<1>4. \A d \in Cycles : /\ cycles'[d].version = cycles[d].version
                        /\ cycles'[d].state = IF d = c THEN "pending" ELSE cycles[d].state
                        /\ d # c => cycles'[d].used = cycles[d].used
  BY <1>0 DEF Refund, TypeOK, Cycle
<1> HIDE DEF b
<1>5. i = Len(attempts[c]) /\ \A j \in Rows(c) \ {i} : attempts[c][j].outcome \in Final
  BY OpenIsLast
<1>6. StoreInv'
  BY RefundKeepsInv DEF StoreQInv, Rows
<1>7. \A d \in Cycles : /\ Len(attempts'[d]) = Len(attempts[d])
                        /\ Rows(d)' = Rows(d)
                        /\ \A j \in Rows(d) :
                             /\ attempts'[d][j].fence = attempts[d][j].fence
                             /\ attempts'[d][j].notice = attempts[d][j].notice
                             /\ attempts'[d][j].code = attempts[d][j].code
                             /\ d # c \/ j # i => attempts'[d][j] = attempts[d][j]
  BY <1>0, <1>2, <1>3, RewriteLen
<1>8. attempts'[c][i].outcome = "ABANDONED_STALE"
  BY <1>0, <1>2, <1>3, RewriteLen
<1>9. a.code = "none"
  BY DEF StoreQInv, RowsInOrder, Open
<1>10. RowsInOrder'
  BY <1>5, <1>7, <1>8, <1>9 DEF StoreQInv, RowsInOrder
<1>11. TerminalFailureIsLast'
  BY <1>7 DEF StoreQInv, TerminalFailureIsLast
<1>12. PendingIsFinal'
  BY <1>4, <1>5, <1>7, <1>8 DEF StoreQInv, PendingIsFinal, RowsFinal, Final
<1>13. NoticeGate'
  BY <1>7 DEF StoreQInv, NoticeGate, Fired
<1>14. UnknownIsReconcilable'
  <2> SUFFICES ASSUME NEW d \in Cycles, cycles'[d].state = "unknown"
               PROVE  \E j \in Rows(d)' : attempts'[d][j].outcome = "TIMEOUT"
    BY DEF UnknownIsReconcilable
  <2>1. d # c
    BY <1>4
  <2>2. PICK j \in Rows(d) : attempts[d][j].outcome = "TIMEOUT"
    BY <2>1, <1>4 DEF StoreQInv, UnknownIsReconcilable
  <2>3. QED
    BY <2>1, <2>2, <1>7
<1>15. ScheduledIsClaimable'
  <2> SUFFICES ASSUME NEW d \in Cycles, cycles'[d].state = "scheduled"
               PROVE  \E j \in Rows(d)' : Abandonable(d, j)'
    BY DEF ScheduledIsClaimable
  <2>1. d # c
    BY <1>4
  <2>2. PICK j \in Rows(d) : Abandonable(d, j)
    BY <2>1, <1>4 DEF StoreQInv, ScheduledIsClaimable
  <2>3. QED
    BY <2>1, <2>2, <1>7 DEF Abandonable
<1>16. Evolves
  <2>1. \A d \in Cycles : \A j \in Rows(d) : Kept(attempts[d][j], attempts'[d][j])
    BY <1>7 DEF Kept
  <2>2. ~RowsFinal(c)
    BY DEF RowsFinal, Final, Open
  <2>3. QED
    BY <2>1, <2>2, <1>0, <1>3, <1>4, <1>7, Shapes DEF Evolves, Rows
<1>17. QED
  BY <1>4, <1>5, <1>6, <1>7, <1>8, <1>10, <1>11, <1>12, <1>13, <1>14, <1>15, <1>16 DEF StoreQInv

(* The bank is found to have debited.                                      *)
LEMMA ResolveDebitedStep ==
  ASSUME StoreQInv, NEW c \in Cycles, NEW i \in Rows(c), ResolveDebited(c, i)
  PROVE  /\ StoreQInv' /\ Evolves
         /\ attempts[c][i].outcome \in Open
         /\ attempts'[c][i].outcome = "SUCCESS"
         /\ \A d \in Cycles : \A j \in Rows(d) : d # c \/ j # i => attempts'[d][j] = attempts[d][j]
         /\ \A d \in Cycles : Rows(d)' = Rows(d) /\ cycles'[d].version = cycles[d].version
         /\ \A d \in Cycles : cycles'[d].state = IF d = c THEN "recovered" ELSE cycles[d].state
<1>0. TypeOK
  BY DEF StoreQInv, StoreInv
<1> DEFINE a == attempts[c][i]
           b == [a EXCEPT !.outcome = "SUCCESS"]
<1>1. a \in Attempt
  BY <1>0, Shapes
<1>2. /\ b \in Attempt /\ b.fence = a.fence /\ b.outcome = "SUCCESS"
      /\ b.notice = a.notice /\ b.code = a.code
  BY <1>1 DEF Attempt, Outcome
<1>3. Rewrite(c, i, b) /\ UNCHANGED leases /\ a.outcome \in Open
  BY DEF ResolveDebited, Resolvable
<1>4. /\ cycles' \in [Cycles -> Cycle]
      /\ \A d \in Cycles : /\ cycles'[d].used = cycles[d].used
                           /\ cycles'[d].version = cycles[d].version
                           /\ cycles'[d].state = IF d = c THEN "recovered" ELSE cycles[d].state
  BY <1>0 DEF ResolveDebited, TypeOK, Cycle, State, Terminal
<1> HIDE DEF b
<1>5. i = Len(attempts[c])
  BY <1>3, OpenIsLast
<1>6. StoreInv'
  BY <1>2, <1>3, <1>4, RewriteKeepsInv DEF StoreQInv, Rows, Open
<1>7. \A d \in Cycles : /\ Len(attempts'[d]) = Len(attempts[d])
                        /\ Rows(d)' = Rows(d)
                        /\ \A j \in Rows(d) :
                             /\ attempts'[d][j].fence = attempts[d][j].fence
                             /\ attempts'[d][j].notice = attempts[d][j].notice
                             /\ attempts'[d][j].code = attempts[d][j].code
                             /\ d # c \/ j # i => attempts'[d][j] = attempts[d][j]
  BY <1>0, <1>2, <1>3, RewriteLen
<1>8. attempts'[c][i].outcome = "SUCCESS"
  BY <1>0, <1>2, <1>3, RewriteLen
<1>9. a.code = "none"
  BY <1>3 DEF StoreQInv, RowsInOrder, Open
<1>10. RowsInOrder'
  BY <1>5, <1>7, <1>8, <1>9 DEF StoreQInv, RowsInOrder
<1>11. TerminalFailureIsLast'
  BY <1>7 DEF StoreQInv, TerminalFailureIsLast
<1>12. PendingIsFinal'
  BY <1>4, <1>7 DEF StoreQInv, PendingIsFinal, RowsFinal
<1>13. NoticeGate'
  BY <1>7 DEF StoreQInv, NoticeGate, Fired
<1>14. UnknownIsReconcilable'
  BY <1>4, <1>7 DEF StoreQInv, UnknownIsReconcilable
<1>15. ScheduledIsClaimable'
  BY <1>4, <1>7 DEF StoreQInv, ScheduledIsClaimable, Abandonable
<1>16. Evolves
  <2>1. \A d \in Cycles : \A j \in Rows(d) : Kept(attempts[d][j], attempts'[d][j])
    BY <1>3, <1>7 DEF Kept
  <2>2. QED
    BY <2>1, <1>0, <1>3, <1>4, <1>7, Shapes DEF Evolves, Rows
<1>17. QED
  BY <1>3, <1>4, <1>6, <1>7, <1>8, <1>10, <1>11, <1>12, <1>13, <1>14, <1>15, <1>16 DEF StoreQInv

(* A cycle's state is overwritten; pending only over settled attempts.     *)
LEMMA SetStateStep ==
  ASSUME StoreQInv, NEW c \in Cycles, NEW state \in Terminal \cup {"held", "pending"},
         state = "pending" => RowsFinal(c), SetState(c, state)
  PROVE  /\ StoreQInv' /\ Evolves
         /\ UNCHANGED attempts
         /\ \A d \in Cycles : cycles'[d].version = cycles[d].version
         /\ \A d \in Cycles : cycles'[d].state = IF d = c THEN state ELSE cycles[d].state
<1>0. TypeOK
  BY DEF StoreQInv, StoreInv
<1>1. /\ cycles' \in [Cycles -> Cycle]
      /\ \A d \in Cycles : /\ cycles'[d].used = cycles[d].used
                           /\ cycles'[d].version = cycles[d].version
                           /\ cycles'[d].state = IF d = c THEN state ELSE cycles[d].state
  BY <1>0 DEF SetState, TypeOK, Cycle, State
<1>2. UNCHANGED <<attempts, leases>>
  BY DEF SetState
<1>3. state \notin {"unknown", "scheduled"}
  BY DEF Terminal
<1>4. \A d \in Cycles : Rows(d)' = Rows(d)
  BY <1>2 DEF Rows
<1>5. StoreInv'
  BY <1>0, <1>1, <1>2, NoRowKeepsInv DEF StoreQInv, TypeOK
<1>6. RowsInOrder' /\ TerminalFailureIsLast' /\ NoticeGate'
  BY <1>2, <1>4 DEF StoreQInv, RowsInOrder, TerminalFailureIsLast, NoticeGate
<1>7. PendingIsFinal'
  BY <1>1, <1>2, <1>4 DEF StoreQInv, PendingIsFinal, RowsFinal
<1>8. UnknownIsReconcilable'
  BY <1>1, <1>2, <1>3, <1>4 DEF StoreQInv, UnknownIsReconcilable
<1>9. ScheduledIsClaimable'
  BY <1>1, <1>2, <1>3, <1>4 DEF StoreQInv, ScheduledIsClaimable, Abandonable
<1>10. Evolves
  BY <1>0, <1>1, <1>2, Shapes DEF Evolves, Kept, Rows, Lease
<1>11. QED
  BY <1>1, <1>2, <1>5, <1>6, <1>7, <1>8, <1>9, <1>10 DEF StoreQInv

(* An attempt is reserved, after settled ones of which none was terminal.  *)
LEMMA ReserveStep ==
  ASSUME StoreQInv, NEW c \in Cycles, NEW version, NEW age \in Early..Stale,
         ReserveAttempt(c, version, age), RowsFinal(c),
         \A i \in Rows(c) : ~TerminalCode(attempts[c][i])
  PROVE  /\ StoreQInv' /\ Evolves
         /\ cycles'[c].version = cycles[c].version + 1
         /\ \A d \in Cycles \ {c} : cycles'[d] = cycles[d] /\ attempts'[d] = attempts[d]
         /\ cycles'[c].state = "scheduled"
         /\ \A i \in Rows(c) : attempts'[c][i] = attempts[c][i]
         /\ \A i \in Rows(c)' \ Rows(c) : attempts'[c][i].outcome = "none"
<1>0. TypeOK
  BY DEF StoreQInv, StoreInv
<1> DEFINE row == [fence |-> 0, outcome |-> "none", code |-> "none",
                   notice |-> "queued", age |-> age]
           n == Len(attempts[c]) + 1
<1>1. attempts[c] \in Seq(Attempt) /\ Len(attempts[c]) \in Nat /\ cycles[c].version \in Nat
  BY <1>0, Shapes
<1>2. row \in Attempt
  BY MaxFenceAssumption DEF Attempt, Outcome
<1>3. attempts'[c] = Append(attempts[c], row) /\ \A d \in Cycles \ {c} : attempts'[d] = attempts[d]
  BY <1>0 DEF ReserveAttempt, TypeOK
<1>4. /\ Len(attempts'[c]) = n /\ Rows(c)' = 1..n /\ Rows(c) = 1..(n - 1)
      /\ attempts'[c][n] = row /\ \A i \in Rows(c) : attempts'[c][i] = attempts[c][i]
  <2> HIDE DEF row
  <2>1. QED
    BY <1>1, <1>2, <1>3 DEF Rows
<1>5. /\ \A d \in Cycles \ {c} : cycles'[d] = cycles[d]
      /\ cycles'[c].version = cycles[c].version + 1 /\ cycles'[c].state = "scheduled"
      /\ UNCHANGED leases /\ n <= MaxAttempts
  BY <1>0, <1>1, MaxAttemptsAssumption DEF ReserveAttempt, Reservable, TypeOK, Cycle
<1>6. \A d \in Cycles \ {c} : Rows(d)' = Rows(d)
  BY <1>3 DEF Rows
<1>7. /\ row.fence = 0 /\ row.outcome = "none" /\ row.code = "none" /\ n \in Rows(c)'
      /\ Rows(c) \subseteq Rows(c)'
      /\ \A i \in Rows(c)' : i # n => i \in Rows(c)
  BY <1>1, <1>4
<1> HIDE DEF row, n
<1>17. \A d \in Cycles : \A i \in Rows(d)' :
         \/ /\ d = c /\ i = n
            /\ attempts'[d][i].fence = 0 /\ attempts'[d][i].outcome = "none"
            /\ attempts'[d][i].code = "none"
         \/ i \in Rows(d) /\ attempts'[d][i] = attempts[d][i]
  BY <1>3, <1>4, <1>6, <1>7
<1>18. \A d \in Cycles \ {c} : Len(attempts'[d]) = Len(attempts[d])
  BY <1>3
<1>8. StoreInv'
  BY ReserveKeepsInv DEF StoreQInv
<1>9. RowsInOrder'
  <2> SUFFICES ASSUME NEW d \in Cycles
               PROVE  /\ Len(attempts'[d]) <= MaxAttempts
                      /\ \A i \in Rows(d)' :
                           /\ i # Len(attempts'[d]) => attempts'[d][i].outcome \in Final
                           /\ attempts'[d][i].code # "none" => attempts'[d][i].outcome = "FAILURE"
    BY DEF RowsInOrder
  <2>1. CASE d = c
    BY <2>1, <1>4, <1>5, <1>17 DEF StoreQInv, RowsInOrder, RowsFinal
  <2>2. CASE d # c
    BY <2>2, <1>3, <1>6 DEF StoreQInv, RowsInOrder
  <2>3. QED
    BY <2>1, <2>2
<1>10. PendingIsFinal'
  BY <1>3, <1>5, <1>6 DEF StoreQInv, PendingIsFinal, RowsFinal
<1>11. NoticeGate'
  BY <1>17 DEF StoreQInv, NoticeGate, Fired
<1>12. UnknownIsReconcilable'
  BY <1>3, <1>5, <1>6 DEF StoreQInv, UnknownIsReconcilable
<1>13. ScheduledIsClaimable'
  BY <1>3, <1>4, <1>5, <1>6, <1>7 DEF StoreQInv, ScheduledIsClaimable, Abandonable, Fired
<1>14. TerminalFailureIsLast'
  <2> SUFFICES ASSUME NEW d \in Cycles, NEW i \in Rows(d)', TerminalCode(attempts'[d][i])
               PROVE  i = Len(attempts'[d])
    BY DEF TerminalFailureIsLast, TerminalCode
  <2>1. CASE d = c /\ i = n
    BY <2>1, <1>4
  <2>2. CASE i \in Rows(d) /\ attempts'[d][i] = attempts[d][i]
    <3>1. d # c
      BY <2>2
    <3>2. i = Len(attempts[d])
      BY <2>2 DEF StoreQInv, TerminalFailureIsLast, TerminalCode
    <3>3. QED
      BY <3>1, <3>2, <1>18
  <2>3. QED
    BY <2>1, <2>2, <1>17
<1>15. Evolves
  <2>1. \A d \in Cycles : \A i \in Rows(d) :
          i \in DOMAIN attempts'[d] /\ attempts'[d][i] = attempts[d][i]
    BY <1>3, <1>4, <1>7 DEF Rows
  <2>2. \A d \in Cycles : \A i \in Rows(d) : Kept(attempts[d][i], attempts'[d][i])
    BY <2>1 DEF Kept
  <2>3. cycles'[c].version # cycles[c].version /\ cycles'[c].version >= cycles[c].version
    BY <1>1, <1>5
  <2>4. \A d \in Cycles : cycles'[d].version >= cycles[d].version /\ leases'[d].fence >= leases[d].fence
    <3> SUFFICES ASSUME NEW d \in Cycles
                 PROVE  cycles'[d].version >= cycles[d].version /\ leases'[d].fence >= leases[d].fence
      OBVIOUS
    <3>1. cycles[d].version \in Nat /\ leases[d].fence \in Nat
      BY <1>0, Shapes, MaxFenceAssumption
    <3>2. leases'[d].fence = leases[d].fence
      BY <1>5
    <3>3. cycles'[d].version >= cycles[d].version
      BY <3>1, <2>3, <1>5
    <3>4. QED
      BY <3>1, <3>2, <3>3
  <2>5. \A d \in Cycles \ {c} : /\ DOMAIN attempts'[d] = Rows(d) /\ cycles'[d].used = cycles[d].used
                              /\ Len(attempts'[d]) = Len(attempts[d])
    BY <1>3, <1>5 DEF Rows
  <2>6. QED
    BY <2>1, <2>2, <2>3, <2>4, <2>5 DEF Evolves
<1>16. QED
  BY <1>4, <1>5, <1>3, <1>7, <1>8, <1>9, <1>10, <1>11, <1>12, <1>13, <1>14, <1>15 DEF StoreQInv

(* A step that leaves the store alone.                                     *)
LEMMA NoStoreStep ==
  ASSUME StoreQInv, UNCHANGED storeVars
  PROVE  StoreQInv' /\ Evolves
<1>1. leases \in [Cycles -> Lease]
  BY DEF StoreQInv, StoreInv, TypeOK
<1>2. \A c \in Cycles : leases'[c].fence >= leases[c].fence
  BY <1>1 DEF storeVars, Lease
<1>3. QED
  BY <1>1, <1>2, LeaseStep DEF storeVars

-----------------------------------------------------------------------------
(* What the steps of one process leave true for the others.                *)

(* No cycle becomes recovered and no attempt gets its final answer.        *)
NothingLearnt ==
  \A c \in Cycles :
    /\ cycles'[c].state = "recovered" => cycles[c].state = "recovered"
    /\ \A i \in Rows(c)' : attempts'[c][i].outcome \in {"SUCCESS", "FAILURE"} =>
         i \in Rows(c) /\ attempts[c][i].outcome \notin Open

(* The cycle a worker has just recorded an answer for is left alone.       *)
Calm(w) ==
  At(w, "recorded") =>
    cycles'[C(w)].version = cycles[C(w)].version /\ cycles'[C(w)].state # "pending"

(* The shape of a busy worker.                                             *)
LEMMA WorkerShape ==
  ASSUME ExecuteTypeOK, NEW w \in Workers, ~At(w, "idle")
  PROVE  /\ worker[w] \in FireState
         /\ C(w) \in Cycles /\ I(w) \in 1..MaxAttempts /\ worker[w].fence \in 0..MaxFence
         /\ worker[w].used \in 0..MaxAttempts
BY DEF ExecuteTypeOK, Idle, FireState, At, C, I

(* An answer of the bank's is a success or a failure.                      *)
LEMMA KnownAnswer ==
  ASSUME BankTypeOK, NEW c \in Cycles, NEW i \in 1..MaxAttempts, Known(c, i)
  PROVE  ledger[c][i] \in Answer /\ ledger[c][i][1] \in {"SUCCESS", "FAILURE"}
<1>1. ledger[c][i] \in Answer
  BY DEF BankTypeOK, Known
<1>2. QED
  BY <1>1 DEF Answer

(* A cycle with an attempt open is no worker's to advance.                 *)
LEMMA BusyHasNoOpen ==
  ASSUME QInv, NEW w \in Workers, At(w, "recorded"), NEW i \in Rows(C(w))
  PROVE  /\ attempts[C(w)][i].outcome \notin Open
         /\ attempts[C(w)][I(w)].outcome \in {"SUCCESS", "FAILURE"}
         /\ i # I(w) => attempts[C(w)][i].outcome \in Final
         /\ cycles[C(w)].state # "pending"
         /\ C(w) \in Cycles /\ I(w) \in 1..MaxAttempts /\ I(w) \in Rows(C(w))
<1>1. ~At(w, "idle") /\ ExecuteTypeOK /\ BankTypeOK /\ RowsInOrder
  BY DEF QInv, WorkerQInv, BankQInv, StoreQInv, At
<1>2. C(w) \in Cycles /\ I(w) \in 1..MaxAttempts
  BY <1>1, WorkerShape
<1>3. WorkerOK(w)
  BY DEF QInv, WorkerQInv
<1>4. /\ I(w) = Len(attempts[C(w)]) /\ Known(C(w), I(w)) /\ I(w) \in Rows(C(w))
      /\ attempts[C(w)][I(w)].outcome = ledger[C(w)][I(w)][1]
      /\ cycles[C(w)].state # "pending"
  BY <1>1, <1>3 DEF WorkerOK
<1>5. attempts[C(w)][I(w)].outcome \in {"SUCCESS", "FAILURE"}
  BY <1>1, <1>2, <1>4, KnownAnswer
<1>6. i # I(w) => attempts[C(w)][i].outcome \in Final
  BY <1>1, <1>2, <1>4 DEF RowsInOrder
<1>7. attempts[C(w)][i].outcome \notin Open
  BY <1>5, <1>6 DEF Final, Open
<1>8. QED
  BY <1>2, <1>4, <1>5, <1>6, <1>7

(* What a worker knows outlives the steps of the others.                   *)
LEMMA WorkerStays ==
  ASSUME QInv, StoreQInv', Evolves, NEW w \in Workers, worker'[w] = worker[w], Calm(w),
         \A c \in Cycles : \A i \in 1..MaxAttempts :
           Known(c, i) => ledger'[c][i] = ledger[c][i]
  PROVE  WorkerOK(w)'
<1> SUFFICES ASSUME ~At(w, "idle")
             PROVE  WorkerOK(w)'
  BY DEF WorkerOK, At
<1>0. ExecuteTypeOK /\ TypeOK /\ TypeOK' /\ WorkerOK(w) /\ BankTypeOK
  BY DEF QInv, WorkerQInv, StoreQInv, StoreInv, BankQInv
<1> PICK c \in Cycles, i \in 1..MaxAttempts : c = C(w) /\ i = I(w)
  BY <1>0, WorkerShape
<1>1. worker[w].fence \in 0..MaxFence /\ C(w)' = c /\ I(w)' = i
  BY <1>0, WorkerShape DEF C, I
<1>2. i \in Rows(c)
  BY <1>0 DEF WorkerOK
<1>3. i \in Rows(c)' /\ Kept(attempts[c][i], attempts'[c][i]) /\ leases'[c].fence >= leases[c].fence
  BY <1>1, <1>2 DEF Evolves, Rows
<1>4. leases[c].fence \in Nat /\ leases'[c].fence \in Nat
  BY <1>0, MaxFenceAssumption DEF TypeOK, Lease
<1>5. ~At(w, "fresh") => worker[w].fence \in 1..leases'[c].fence
  <2>1. SUFFICES ASSUME ~At(w, "fresh") PROVE worker[w].fence \in 1..leases'[c].fence
    OBVIOUS
  <2>2. worker[w].fence \in 1..leases[c].fence
    BY <1>0, <2>1 DEF WorkerOK
  <2>3. QED
    BY <2>2, <1>3, <1>4
<1>6. At(w, "gated") => attempts'[c][i].notice = "onTime"
  BY <1>0, <1>3 DEF WorkerOK, Kept
<1>7. worker[w].pc \in {"fired", "sent", "recorded"} => attempts'[c][i].fence = worker[w].fence
  <2>1. SUFFICES ASSUME worker[w].pc \in {"fired", "sent", "recorded"}
                 PROVE  attempts'[c][i].fence = worker[w].fence
    OBVIOUS
  <2>2. attempts[c][i].fence = worker[w].fence /\ worker[w].fence \in 1..leases[c].fence
    BY <1>0, <2>1 DEF WorkerOK, At
  <2>3. Fired(attempts[c][i])
    BY <2>2, <1>4 DEF Fired
  <2>4. QED
    BY <2>2, <2>3, <1>3 DEF Kept
<1>8. At(w, "recorded") =>
         /\ i = Len(attempts'[c])
         /\ Known(c, i)'
         /\ attempts'[c][i].outcome = ledger'[c][i][1]
         /\ cycles'[c].state # "pending"
  <2>1. SUFFICES ASSUME At(w, "recorded")
                 PROVE  /\ i = Len(attempts'[c])
                        /\ Known(c, i)'
                        /\ attempts'[c][i].outcome = ledger'[c][i][1]
                        /\ cycles'[c].state # "pending"
    OBVIOUS
  <2>2. /\ i = Len(attempts[c]) /\ Known(c, i)
        /\ attempts[c][i].outcome = ledger[c][i][1]
    BY <1>0, <2>1 DEF WorkerOK, At
  <2>3. cycles'[c].version = cycles[c].version /\ cycles'[c].state # "pending"
    BY <2>1 DEF Calm
  <2>4. Len(attempts'[c]) = Len(attempts[c])
    BY <1>1, <2>3 DEF Evolves
  <2>5. attempts[c][i].outcome \notin Open
    BY <1>2, <2>1, BusyHasNoOpen
  <2>6. attempts'[c][i].outcome = attempts[c][i].outcome
    BY <1>3, <2>5 DEF Kept
  <2>7. ledger'[c][i] = ledger[c][i] /\ Known(c, i)'
    BY <1>1, <2>2 DEF Known
  <2>8. QED
    BY <2>2, <2>3, <2>4, <2>6, <2>7
<1>9. \A pc : At(w, pc)' = At(w, pc)
  BY DEF At
<1>10. worker'[w].fence = worker[w].fence /\ worker'[w].pc = worker[w].pc
  OBVIOUS
<1>11. QED
  BY <1>1, <1>3, <1>5, <1>6, <1>7, <1>8, <1>9, <1>10 DEF WorkerOK

(* Rows stay, so the lists a reconciler and a relay work from stay sound.  *)
LEMMA ListsStay ==
  ASSUME ReconQInv, RelayQInv, Evolves
  PROVE  /\ UNCHANGED recon => ReconQInv'
         /\ UNCHANGED relay => RelayQInv'
<1>1. ASSUME UNCHANGED recon PROVE ReconQInv'
  <2>1. ReconcileTypeOK'
    BY <1>1 DEF ReconQInv, ReconcileTypeOK
  <2>2. \A r \in Reconcilers : ~Asking(r, "idle") => recon[r].cycle \in Cycles
    BY DEF ReconQInv, ReconcileTypeOK, NotAsking, AskState, Asking
  <2>3. QED
    BY <1>1, <2>1, <2>2 DEF ReconQInv, Evolves, Rows, Asking
<1>2. ASSUME UNCHANGED relay PROVE RelayQInv'
  <2>1. RelayTypeOK'
    BY <1>2 DEF RelayQInv, RelayTypeOK
  <2>2. \A l \in Relays : ~Relaying(l, "idle") => relay[l].cycle \in Cycles
    BY DEF RelayQInv, RelayTypeOK, NotRelaying, RelayState, Relaying
  <2>3. QED
    BY <1>2, <2>1, <2>2 DEF RelayQInv, Evolves, Rows, Relaying
<1>3. QED
  BY <1>1, <1>2

(* A request of a row marked fired goes on matching it.                    *)
LEMMA CallsStay ==
  ASSUME QInv, Evolves, UNCHANGED bankVars
  PROVE  BankTypeOK' /\ CallsMatchRows' /\ LedgerMatchesRows'
<1>0. BankTypeOK /\ CallsMatchRows /\ LedgerMatchesRows
  BY DEF QInv, BankQInv
<1>1. BankTypeOK'
  BY <1>0 DEF BankTypeOK, bankVars
<1>2. CallsMatchRows'
  <2> SUFFICES ASSUME NEW call \in calls
               PROVE  /\ call.seq \in Rows(call.cycle)'
                      /\ attempts'[call.cycle][call.seq].fence = call.fence
                      /\ call.stage = "replied" => Known(call.cycle, call.seq)'
    BY DEF CallsMatchRows, bankVars
  <2>1. call.cycle \in Cycles /\ call.seq \in 1..MaxAttempts /\ call.fence \in 1..MaxFence
    BY <1>0 DEF BankTypeOK, Call
  <2>2. /\ call.seq \in Rows(call.cycle)
        /\ attempts[call.cycle][call.seq].fence = call.fence
        /\ call.stage = "replied" => Known(call.cycle, call.seq)
    BY <1>0 DEF CallsMatchRows
  <2>3. Fired(attempts[call.cycle][call.seq])
    BY <2>1, <2>2 DEF Fired
  <2>4. QED
    BY <2>1, <2>2, <2>3 DEF Evolves, Kept, Rows, Known, bankVars
<1>3. LedgerMatchesRows'
  <2> SUFFICES ASSUME NEW c \in Cycles, NEW i \in 1..MaxAttempts, Known(c, i)
               PROVE  i \in Rows(c)' /\ Fired(attempts'[c][i])
    BY DEF LedgerMatchesRows, Known, bankVars
  <2>1. i \in Rows(c) /\ Fired(attempts[c][i])
    BY <1>0 DEF LedgerMatchesRows
  <2>2. QED
    BY <2>1 DEF Evolves, Kept, Rows, Fired
<1>4. QED
  BY <1>1, <1>2, <1>3

(* Records that do not change go on agreeing.                              *)
LEMMA BankStays ==
  ASSUME QInv, Evolves, UNCHANGED bankVars, NothingLearnt
  PROVE  BankQInv'
<1>0. RecordsAgreeWithBank /\ RecoveredWasPaid
  BY DEF QInv, BankQInv
<1>1. RecordsAgreeWithBank'
  <2> SUFFICES ASSUME NEW c \in Cycles, NEW i \in Rows(c)'
               PROVE  /\ attempts'[c][i].outcome = "SUCCESS" => Paid(c, i)
                      /\ attempts'[c][i].outcome = "FAILURE" =>
                           ledger[c][i] = <<"FAILURE", attempts'[c][i].code>>
    BY DEF RecordsAgreeWithBank, Paid, bankVars
  <2> SUFFICES ASSUME attempts'[c][i].outcome \in {"SUCCESS", "FAILURE"}
               PROVE  /\ attempts'[c][i].outcome = "SUCCESS" => Paid(c, i)
                      /\ attempts'[c][i].outcome = "FAILURE" =>
                           ledger[c][i] = <<"FAILURE", attempts'[c][i].code>>
    OBVIOUS
  <2>1. i \in Rows(c) /\ attempts[c][i].outcome \notin Open
    BY DEF NothingLearnt
  <2>2. /\ attempts'[c][i].outcome = attempts[c][i].outcome
        /\ attempts'[c][i].code = attempts[c][i].code
    BY <2>1 DEF Evolves, Kept
  <2>3. QED
    BY <1>0, <2>1, <2>2 DEF RecordsAgreeWithBank
<1>2. RecoveredWasPaid'
  <2> SUFFICES ASSUME NEW c \in Cycles, cycles'[c].state = "recovered"
               PROVE  \E i \in Rows(c)' : Paid(c, i)
    BY DEF RecoveredWasPaid, Paid, bankVars
  <2>1. PICK i \in Rows(c) : Paid(c, i)
    BY <1>0 DEF NothingLearnt, RecoveredWasPaid
  <2>2. QED
    BY <2>1 DEF Evolves, Rows
<1>3. QED
  BY <1>1, <1>2, CallsStay DEF BankQInv

(* Some places of a sequence have a last one.                              *)
LEMMA LastExists ==
  ASSUME NEW n \in Nat, NEW S \in SUBSET (1..n), S # {}
  PROVE  \E i \in S : \A j \in S : j <= i
<1> DEFINE T == {n - i : i \in S}
           R == OpToRel(<, Nat)
<1>0. \A i \in S : i \in 1..n /\ n - i \in Nat
  OBVIOUS
<1>1. T \subseteq Nat /\ T # {}
  BY <1>0
<1>2. IsWellFoundedOn(R, Nat)
  BY NatLessThanWellFounded
<1> HIDE DEF T, R
<1>3. PICK t \in T : \A u \in T : ~(<<u, t>> \in R)
  BY <1>1, <1>2, WFMin
<1>4. \A u \in T : ~(u < t)
  BY <1>1, <1>3 DEF R, OpToRel
<1>5. PICK i \in S : t = n - i
  BY <1>3 DEF T
<1>6. \A j \in S : ~(n - j < n - i)
  BY <1>4, <1>5 DEF T
<1>7. QED
  BY <1>0, <1>6

(* The code of the last failure, where every attempt stays as it was.      *)
LEMMA SameFailure ==
  ASSUME NEW c \in Cycles, TypeOK, DOMAIN attempts'[c] = DOMAIN attempts[c],
         \A i \in DOMAIN attempts[c] : attempts'[c][i].code = attempts[c][i].code
  PROVE  LastFailureCode(c)' = LastFailureCode(c)
<1> DEFINE last(S) == CHOOSE i \in S : \A j \in S : j <= i
<1>1. Failed(c)' = Failed(c)
  BY DEF Failed
<1>2. CASE Failed(c) = {}
  BY <1>1, <1>2 DEF LastFailureCode
<1>3. CASE Failed(c) # {}
  <2>1. /\ LastFailureCode(c) = attempts[c][last(Failed(c))].code
        /\ LastFailureCode(c)' = attempts'[c][last(Failed(c))].code
    BY <1>1, <1>3 DEF LastFailureCode
  <2>2. Failed(c) \in SUBSET (1..Len(attempts[c])) /\ Len(attempts[c]) \in Nat
    BY Shapes DEF Failed, Rows
  <2>3. last(Failed(c)) \in Failed(c)
    BY <1>3, <2>2, LastExists
  <2>4. last(Failed(c)) \in DOMAIN attempts[c]
    BY <2>3 DEF Failed
  <2> HIDE DEF last
  <2>5. QED
    BY <2>1, <2>4
<1>4. QED
  BY <1>2, <1>3

(* A terminal failure is the last one.                                     *)
LEMMA TerminalIsLatest ==
  ASSUME StoreQInv, NEW c \in Cycles, NEW i \in Rows(c), TerminalCode(attempts[c][i])
  PROVE  LastFailureCode(c) = attempts[c][i].code
<1> DEFINE k == CHOOSE k \in Failed(c) : \A j \in Failed(c) : j <= k
<1>1. Rows(c) = 1..Len(attempts[c]) /\ Len(attempts[c]) \in Nat
  BY Shapes DEF StoreQInv, StoreInv
<1>2. i = Len(attempts[c])
  BY DEF StoreQInv, TerminalFailureIsLast, TerminalCode
<1>3. Failed(c) \in SUBSET (1..Len(attempts[c])) /\ i \in Failed(c)
  BY <1>1 DEF Failed, TerminalCode, Rows
<1>4. k \in Failed(c) /\ \A j \in Failed(c) : j <= k
  BY <1>1, <1>3, LastExists
<1>5. LastFailureCode(c) = attempts[c][k].code
  BY <1>3 DEF LastFailureCode
<1> HIDE DEF k
<1>6. k = i
  BY <1>1, <1>2, <1>3, <1>4
<1>7. QED
  BY <1>5, <1>6

(* A cycle that has spent nothing has failed nowhere.                      *)
LEMMA UnspentHasNoFailure ==
  ASSUME StoreQInv, NEW c \in Cycles, cycles[c].used = 0
  PROVE  \A i \in Rows(c) : attempts[c][i].code = "none"
<1>1. IsFiniteSet(Charged(c)) /\ Cardinality(Charged(c)) = 0
  BY ChargedFinite DEF StoreQInv, StoreInv, BudgetAgrees
<1>2. Charged(c) = {}
  BY <1>1, FS_EmptySet
<1>3. \A i \in Rows(c) : attempts[c][i].outcome = "ABANDONED_STALE"
  BY <1>2 DEF Charged, Rows
<1>4. QED
  BY <1>3 DEF StoreQInv, RowsInOrder

(* A plan stays good, or its version falls behind.                         *)
LEMMA PlanStays ==
  ASSUME QInv, StoreQInv', Evolves, NEW s \in Schedulers, sched'[s] = sched[s],
         \A c \in Cycles : \A i \in 1..(MaxAttempts + 1) :
           triggers[c][i].reply \in {"yes", "no", "expired"}
             => triggers'[c][i].reply \in {"yes", "no", "expired"},
         \A w \in Workers : \/ worker'[w] = worker[w]
                            \/ worker'[w].pc # "recorded"
                            \/ ~RowsFinal(worker'[w].cycle)
  PROVE  PlanOK(s)'
<1> SUFFICES ASSUME sched[s].pc = "planned"
             PROVE  PlanOK(s)'
  BY DEF PlanOK
<1>0. TypeOK /\ TypeOK' /\ ScheduleTypeOK /\ PlanOK(s)
  BY DEF QInv, PlanQInv, StoreQInv, StoreInv
<1>1. sched[s].cycle \in Cycles /\ sched[s].version \in Nat
  BY <1>0 DEF ScheduleTypeOK, NoPlan, Plan
<1> PICK c \in Cycles : c = sched[s].cycle
  BY <1>1
<1>2. cycles[c].version \in Nat /\ cycles'[c].version \in Nat /\ cycles'[c].version >= cycles[c].version
  BY <1>0 DEF TypeOK, Cycle, Evolves
<1>3. sched[s].version <= cycles[c].version
  BY <1>0 DEF PlanOK
<1>4. sched[s].version <= cycles'[c].version
  BY <1>1, <1>2, <1>3
<1>5. ASSUME sched[s].version = cycles'[c].version
      PROVE  /\ RowsFinal(c)'
             /\ \A i \in Rows(c)' : ~TerminalCode(attempts'[c][i])
             /\ \A w \in Workers : At(w, "recorded")' => C(w)' # c
             /\ ShortOfFunds(c)' => TriggerOf(c)'.reply \in {"yes", "no", "expired"}
  <2>1. cycles'[c].version = cycles[c].version /\ sched[s].version = cycles[c].version
    BY <1>1, <1>2, <1>3, <1>5
  <2>2. /\ RowsFinal(c)
        /\ \A i \in Rows(c) : ~TerminalCode(attempts[c][i])
        /\ \A w \in Workers : At(w, "recorded") => C(w) # c
        /\ ShortOfFunds(c) => TriggerOf(c).reply \in {"yes", "no", "expired"}
    BY <1>0, <2>1 DEF PlanOK
  <2>3. DOMAIN attempts'[c] = Rows(c) /\ cycles'[c].used = cycles[c].used
    BY <2>1, <2>2 DEF Evolves
  <2>4. \A i \in Rows(c) : /\ attempts'[c][i].outcome = attempts[c][i].outcome
                           /\ attempts'[c][i].code = attempts[c][i].code
    BY <2>2 DEF RowsFinal, Final, Open, Evolves, Kept
  <2>5. RowsFinal(c)' /\ \A i \in Rows(c)' : ~TerminalCode(attempts'[c][i])
    BY <2>2, <2>3, <2>4 DEF RowsFinal, Rows, TerminalCode
  <2>6. \A w \in Workers : At(w, "recorded")' => C(w)' # c
    BY <2>2 DEF At, C
  <2>7. LastFailureCode(c)' = LastFailureCode(c)
    BY <1>0, <2>3, <2>4, SameFailure DEF Rows
  <2>8. ShortOfFunds(c)' => ShortOfFunds(c)
    BY <2>3, <2>7 DEF ShortOfFunds
  <2>9. cycles[c].used + 1 \in 1..(MaxAttempts + 1)
    BY <1>0, MaxAttemptsAssumption DEF TypeOK, Cycle
  <2>10. ShortOfFunds(c)' => TriggerOf(c)'.reply \in {"yes", "no", "expired"}
    BY <2>2, <2>3, <2>8, <2>9 DEF TriggerOf
  <2>11. QED
    BY <2>5, <2>6, <2>10
<1>6. QED
  BY <1>4, <1>5 DEF PlanOK

(* Plans stay when no scheduler moves.                                     *)
LEMMA PlansStay ==
  ASSUME QInv, StoreQInv', Evolves, UNCHANGED scheduleVars,
         \A w \in Workers : \/ worker'[w] = worker[w]
                            \/ worker'[w].pc # "recorded"
                            \/ ~RowsFinal(worker'[w].cycle)
  PROVE  PlanQInv'
<1>1. ScheduleTypeOK'
  BY DEF QInv, PlanQInv, ScheduleTypeOK, scheduleVars
<1>2. \A s \in Schedulers : PlanOK(s)'
  BY PlanStays DEF scheduleVars
<1>3. QED
  BY <1>1, <1>2 DEF PlanQInv

(* A step of a process that is no worker.                                  *)
LEMMA WorkersStay ==
  ASSUME QInv, StoreQInv', Evolves, UNCHANGED worker, \A w \in Workers : Calm(w),
         \A c \in Cycles : \A i \in 1..MaxAttempts :
           Known(c, i) => ledger'[c][i] = ledger[c][i]
  PROVE  WorkerQInv'
<1>1. \A w \in Workers : WorkerOK(w)'
  BY WorkerStays
<1>2. ExecuteTypeOK' /\ RecordedAlone'
  BY DEF QInv, WorkerQInv, ExecuteTypeOK, RecordedAlone, At, C
<1>3. QED
  BY <1>1, <1>2 DEF WorkerQInv

(* A worker's own step, other than recording an answer.                    *)
LEMMA WorkerMoves ==
  ASSUME QInv, StoreQInv', Evolves, NEW w \in Workers, NEW x \in {Idle} \cup FireState,
         worker' = [worker EXCEPT ![w] = x], x.pc # "recorded", WorkerOK(w)',
         \A v \in Workers \ {w} : Calm(v), UNCHANGED ledger
  PROVE  WorkerQInv'
<1>0. ExecuteTypeOK /\ RecordedAlone
  BY DEF QInv, WorkerQInv
<1>1. worker'[w] = x /\ \A v \in Workers \ {w} : worker'[v] = worker[v]
  BY <1>0 DEF ExecuteTypeOK
<1>2. \A v \in Workers \ {w} : WorkerOK(v)'
  BY <1>1, WorkerStays
<1>3. ExecuteTypeOK'
  BY <1>0, <1>1 DEF ExecuteTypeOK
<1>4. RecordedAlone'
  BY <1>0, <1>1 DEF RecordedAlone, At, C
<1>5. QED
  BY <1>2, <1>3, <1>4 DEF WorkerQInv

(* Nobody is disturbed where the cycles stay as they are.                  *)
LEMMA CyclesSame ==
  ASSUME QInv, UNCHANGED cycles
  PROVE  \A w \in Workers : Calm(w)
<1> SUFFICES ASSUME NEW w \in Workers, At(w, "recorded")
             PROVE  cycles[C(w)].state # "pending"
  BY DEF Calm
<1>1. WorkerOK(w)
  BY DEF QInv, WorkerQInv
<1>2. QED
  BY <1>1 DEF WorkerOK, At

(* A refund: it finds its cycle in nobody's hands.                         *)
LEMMA RefundsDisturbNobody ==
  ASSUME QInv, NEW c \in Cycles, NEW i \in Rows(c),
         attempts[c][i].outcome \in Open, Refund(c, i), UNCHANGED bankVars
  PROVE  StoreQInv' /\ Evolves /\ BankQInv' /\ \A w \in Workers : Calm(w)
<1>0. StoreQInv
  BY DEF QInv
<1>1. /\ StoreQInv' /\ Evolves
      /\ attempts'[c][i].outcome = "ABANDONED_STALE"
      /\ \A d \in Cycles : \A j \in Rows(d) : d # c \/ j # i => attempts'[d][j] = attempts[d][j]
      /\ \A d \in Cycles : Rows(d)' = Rows(d) /\ cycles'[d].version = cycles[d].version
      /\ \A d \in Cycles : cycles'[d].state = IF d = c THEN "pending" ELSE cycles[d].state
      /\ i = Len(attempts[c])
  BY <1>0, RefundStep
<1>2. \A w \in Workers : Calm(w)
  <2> SUFFICES ASSUME NEW w \in Workers, At(w, "recorded")
               PROVE  cycles'[C(w)].version = cycles[C(w)].version /\ cycles'[C(w)].state # "pending"
    BY DEF Calm
  <2>1. WorkerOK(w) /\ ~At(w, "idle") /\ ExecuteTypeOK
    BY DEF QInv, WorkerQInv, At
  <2>2. C(w) \in Cycles /\ I(w) \in Rows(C(w))
    BY <2>1, WorkerShape DEF WorkerOK
  <2>3. cycles[C(w)].state # "pending" /\ C(w) # c
    BY <2>2, BusyHasNoOpen
  <2>4. QED
    BY <2>2, <2>3, <1>1
<1>3. NothingLearnt
  <2> SUFFICES ASSUME NEW d \in Cycles
               PROVE  /\ cycles'[d].state = "recovered" => cycles[d].state = "recovered"
                      /\ \A j \in Rows(d)' : attempts'[d][j].outcome \in {"SUCCESS", "FAILURE"} =>
                           j \in Rows(d) /\ attempts[d][j].outcome \notin Open
    BY DEF NothingLearnt
  <2>1. cycles'[d].state = "recovered" => cycles[d].state = "recovered"
    BY <1>1
  <2>2. ASSUME NEW j \in Rows(d)', attempts'[d][j].outcome \in {"SUCCESS", "FAILURE"}
        PROVE  j \in Rows(d) /\ attempts[d][j].outcome \notin Open
    BY <2>2, <1>1 DEF Open
  <2>3. QED
    BY <2>1, <2>2
<1>4. BankQInv'
  BY <1>1, <1>3, BankStays
<1>5. QED
  BY <1>1, <1>2, <1>4

(* A step that leaves every cycle, outcome and row count alone.            *)
LEMMA NothingHappens ==
  ASSUME QInv, Evolves, UNCHANGED <<cycles, bankVars>>,
         \A c \in Cycles : \A i \in Rows(c) : attempts'[c][i].outcome = attempts[c][i].outcome
  PROVE  BankQInv' /\ \A w \in Workers : Calm(w)
<1>1. \A c \in Cycles : Rows(c)' = Rows(c)
  BY DEF Evolves, Rows
<1>2. NothingLearnt
  BY <1>1 DEF NothingLearnt, Open
<1>3. QED
  BY <1>2, BankStays, CyclesSame

-----------------------------------------------------------------------------
(* The steps.                                                              *)

(* The bank.                                                               *)
LEMMA BankStepKeeps ==
  ASSUME QInv, BankStep, UNCHANGED <<storeVars, worker, recon, relay, scheduleVars>>
  PROVE  QInv'
<1>0. /\ StoreQInv /\ BankTypeOK /\ CallsMatchRows /\ LedgerMatchesRows
      /\ RecordsAgreeWithBank /\ RecoveredWasPaid
  BY DEF QInv, BankQInv
<1>1. StoreQInv' /\ Evolves
  BY <1>0, NoStoreStep
<1>2. \A c \in Cycles : Rows(c)' = Rows(c)
  BY DEF Rows, storeVars
<1> PICK call \in calls : Admit(call) \/ Reject(call) \/ Commit(call) \/ Drop(call)
  BY DEF BankStep
<1>3. /\ call \in Call
      /\ call.seq \in Rows(call.cycle)
      /\ attempts[call.cycle][call.seq].fence = call.fence
  BY <1>0 DEF BankTypeOK, CallsMatchRows
<1>4. call.cycle \in Cycles /\ call.seq \in 1..MaxAttempts /\ call.fence \in 1..MaxFence
  BY <1>3 DEF Call
<1>5. \A stage \in Stage : [call EXCEPT !.stage = stage] \in Call
  BY <1>3 DEF Call
<1>6. /\ BankTypeOK' /\ CallsMatchRows'
      /\ \A c \in Cycles : \A i \in 1..MaxAttempts :
           /\ Known(c, i) => ledger'[c][i] = ledger[c][i]
           /\ ledger'[c][i] # ledger[c][i] => c = call.cycle /\ i = call.seq
  <2>1. CASE Reject(call) \/ Drop(call)
    <3>1. calls' \subseteq calls /\ UNCHANGED <<ledger, highest>>
      BY <2>1 DEF Reject, Drop
    <3>2. BankTypeOK'
      BY <3>1, <1>0 DEF BankTypeOK
    <3>3. CallsMatchRows'
      BY <3>1, <1>0, <1>2 DEF CallsMatchRows, Known, storeVars, Rows
    <3>4. QED
      BY <3>1, <3>2, <3>3
  <2>2. CASE Admit(call)
    <3> DEFINE stage == IF Known(call.cycle, call.seq) THEN "replied" ELSE "admitted"
               new == [call EXCEPT !.stage = stage]
    <3>1. /\ stage \in Stage /\ (stage = "replied" => Known(call.cycle, call.seq))
          /\ new.cycle = call.cycle /\ new.seq = call.seq /\ new.fence = call.fence
          /\ new.stage = stage
      BY <1>3 DEF Stage, Call
    <3>2. calls' = (calls \ {call}) \cup {new} /\ UNCHANGED ledger
      BY <2>2 DEF Admit, Move
    <3>3. new \in Call
      BY <3>1, <1>5
    <3>4. highest' \in [Cycles -> 0..MaxFence]
      BY <2>2, <1>0, <1>4 DEF Admit, BankTypeOK
    <3>5. BankTypeOK'
      BY <3>2, <3>3, <3>4, <1>0 DEF BankTypeOK
    <3> HIDE DEF new, stage
    <3>6. CallsMatchRows'
      BY <3>1, <3>2, <1>0, <1>3 DEF CallsMatchRows, Known, storeVars, Rows
    <3>7. QED
      BY <3>2, <3>5, <3>6
  <2>3. CASE Commit(call)
    <3> DEFINE new == [call EXCEPT !.stage = "replied"]
    <3>1. /\ new \in Call /\ new.stage = "replied"
          /\ new.cycle = call.cycle /\ new.seq = call.seq /\ new.fence = call.fence
      BY <1>3, <1>5 DEF Stage, Call
    <3>2. calls' = (calls \ {call}) \cup {new} /\ UNCHANGED highest
      BY <2>3 DEF Commit, Move
    <3>3. /\ ledger' \in [Cycles -> [1..MaxAttempts -> Answer \cup {NoAnswer}]]
          /\ ledger'[call.cycle][call.seq] # NoAnswer
          /\ \A c \in Cycles : \A i \in 1..MaxAttempts :
               /\ Known(c, i) => ledger'[c][i] = ledger[c][i]
               /\ ledger'[c][i] # ledger[c][i] => c = call.cycle /\ i = call.seq
      <4>1. CASE Known(call.cycle, call.seq)
        <5>1. UNCHANGED ledger
          BY <2>3, <4>1 DEF Commit
        <5>2. QED
          BY <4>1, <5>1, <1>0 DEF BankTypeOK, Known
      <4>2. CASE ~Known(call.cycle, call.seq)
        <5>1. PICK a \in Answer : ledger' = [ledger EXCEPT ![call.cycle][call.seq] = a]
          BY <2>3, <4>2 DEF Commit
        <5>2. a # NoAnswer
          BY DEF Answer, NoAnswer
        <5>3. ledger \in [Cycles -> [1..MaxAttempts -> Answer \cup {NoAnswer}]]
          BY <1>0 DEF BankTypeOK
        <5> HIDE DEF NoAnswer, Answer
        <5>4. /\ ledger' \in [Cycles -> [1..MaxAttempts -> Answer \cup {NoAnswer}]]
              /\ ledger'[call.cycle][call.seq] = a
              /\ \A c \in Cycles : \A i \in 1..MaxAttempts :
                   c # call.cycle \/ i # call.seq => ledger'[c][i] = ledger[c][i]
          BY <5>1, <5>3, <1>4
        <5>5. QED
          BY <4>2, <5>2, <5>4 DEF Known
      <4>3. QED
        BY <4>1, <4>2
    <3>4. BankTypeOK'
      BY <3>1, <3>2, <3>3, <1>0 DEF BankTypeOK
    <3> HIDE DEF new
    <3>5. CallsMatchRows'
      <4> SUFFICES ASSUME NEW k \in calls'
                   PROVE  /\ k.seq \in Rows(k.cycle)
                          /\ attempts[k.cycle][k.seq].fence = k.fence
                          /\ k.stage = "replied" => ledger'[k.cycle][k.seq] # NoAnswer
        BY DEF CallsMatchRows, Known, storeVars, Rows
      <4>1. CASE k = new
        BY <4>1, <3>1, <3>3, <1>3
      <4>2. CASE k \in calls
        <5>1. /\ k.seq \in Rows(k.cycle)
              /\ attempts[k.cycle][k.seq].fence = k.fence
              /\ k.stage = "replied" => Known(k.cycle, k.seq)
              /\ k.cycle \in Cycles /\ k.seq \in 1..MaxAttempts
          BY <4>2, <1>0 DEF CallsMatchRows, BankTypeOK, Call
        <5>2. QED
          BY <5>1, <3>3 DEF Known
      <4>3. QED
        BY <4>1, <4>2, <3>2
    <3>6. QED
      BY <3>3, <3>4, <3>5
  <2>4. QED
    BY <2>1, <2>2, <2>3
<1>7. Fired(attempts[call.cycle][call.seq])
  BY <1>3, <1>4 DEF Fired
<1>8. LedgerMatchesRows'
  <2> SUFFICES ASSUME NEW c \in Cycles, NEW i \in 1..MaxAttempts, Known(c, i)'
               PROVE  i \in Rows(c) /\ Fired(attempts[c][i])
    BY DEF LedgerMatchesRows, storeVars, Rows, Fired
  <2>1. CASE Known(c, i)
    BY <2>1, <1>0 DEF LedgerMatchesRows
  <2>2. CASE ~Known(c, i)
    <3>1. ledger'[c][i] # ledger[c][i]
      BY <2>2 DEF Known
    <3>2. QED
      BY <3>1, <1>3, <1>6, <1>7
  <2>3. QED
    BY <2>1, <2>2
<1>9. \A c \in Cycles : \A i \in Rows(c) : i \in 1..MaxAttempts
  <2>1. \A c \in Cycles : Rows(c) = 1..Len(attempts[c]) /\ Len(attempts[c]) \in Nat
    BY <1>0, Shapes DEF StoreQInv, StoreInv
  <2>2. \A c \in Cycles : Len(attempts[c]) <= MaxAttempts
    BY <1>0 DEF StoreQInv, RowsInOrder
  <2>3. QED
    BY <2>1, <2>2, MaxAttemptsAssumption
<1>10. \A c \in Cycles : \A i \in Rows(c) :
         ledger[c][i][1] \in {"SUCCESS", "FAILURE"} => ledger'[c][i] = ledger[c][i]
  BY <1>6, <1>9 DEF Known, NoAnswer
<1>11. RecordsAgreeWithBank'
  <2> SUFFICES ASSUME NEW c \in Cycles, NEW i \in Rows(c)
               PROVE  /\ attempts[c][i].outcome = "SUCCESS" => Paid(c, i)'
                      /\ attempts[c][i].outcome = "FAILURE" =>
                           ledger'[c][i] = <<"FAILURE", attempts[c][i].code>>
    BY DEF RecordsAgreeWithBank, Paid, storeVars, Rows
  <2>1. /\ attempts[c][i].outcome = "SUCCESS" => Paid(c, i)
        /\ attempts[c][i].outcome = "FAILURE" => ledger[c][i] = <<"FAILURE", attempts[c][i].code>>
    BY <1>0 DEF RecordsAgreeWithBank
  <2>2. QED
    BY <2>1, <1>10 DEF Paid
<1>12. RecoveredWasPaid'
  <2> SUFFICES ASSUME NEW c \in Cycles, cycles[c].state = "recovered"
               PROVE  \E i \in Rows(c) : Paid(c, i)'
    BY DEF RecoveredWasPaid, Paid, storeVars, Rows
  <2>1. PICK i \in Rows(c) : Paid(c, i)
    BY <1>0 DEF RecoveredWasPaid
  <2>2. QED
    BY <2>1, <1>10 DEF Paid
<1>13. \A w \in Workers : Calm(w)
  BY CyclesSame DEF storeVars
<1>14. WorkerQInv'
  BY <1>1, <1>6, <1>13, WorkersStay
<1>15. ReconQInv' /\ RelayQInv'
  BY <1>1, ListsStay DEF QInv
<1>16. PlanQInv'
  BY <1>1, PlansStay
<1>17. QED
  BY <1>1, <1>6, <1>8, <1>11, <1>12, <1>14, <1>15, <1>16 DEF QInv, BankQInv

(* The passing of time.                                                    *)
LEMMA TimeKeeps ==
  ASSUME QInv, Time, UNCHANGED <<bankVars, worker, recon, relay, scheduleVars>>
  PROVE  QInv'
<1>0. StoreQInv
  BY DEF QInv
<1>1. StoreQInv' /\ Evolves /\ cycles' = cycles
  BY <1>0, TimeStep
<1>2. NothingLearnt
  <2>1. \A c \in Cycles : \A i \in Rows(c)' : i \in Rows(c) /\ attempts'[c][i].outcome = attempts[c][i].outcome
    <3> PICK c \in Cycles : LeaseExpires(c) \/ \E i \in DOMAIN attempts[c] : Elapse(c, i)
      BY DEF Time
    <3>0. TypeOK
      BY <1>0 DEF StoreQInv, StoreInv
    <3>1. CASE LeaseExpires(c)
      BY <3>1 DEF LeaseExpires, Rows
    <3>2. CASE \E i \in DOMAIN attempts[c] : Elapse(c, i)
      <4> PICK i \in Rows(c) : Elapse(c, i)
        BY <3>2 DEF Rows
      <4> DEFINE b == [attempts[c][i] EXCEPT !.age = @ + 1]
      <4>1. attempts[c][i] \in Attempt
        BY <3>0, Shapes
      <4>2. b \in Attempt /\ b.outcome = attempts[c][i].outcome /\ Rewrite(c, i, b)
        BY <4>1 DEF Attempt, Elapse, Early, Stale
      <4> HIDE DEF b
      <4>3. QED
        BY <3>0, <4>2, RewriteLen
    <3>3. QED
      BY <3>1, <3>2
  <2>2. QED
    BY <2>1, <1>1 DEF NothingLearnt, Open
<1>3. BankQInv'
  BY <1>1, <1>2, BankStays
<1>4. WorkerQInv'
  BY <1>1, CyclesSame, WorkersStay DEF bankVars
<1>5. ReconQInv' /\ RelayQInv' /\ PlanQInv'
  BY <1>1, ListsStay, PlansStay DEF QInv
<1>6. QED
  BY <1>1, <1>3, <1>4, <1>5 DEF QInv

(* A relay.                                                                *)
LEMMA RelayKeeps ==
  ASSUME QInv, NEW l \in Relays, RelayStep(l),
         UNCHANGED <<bankVars, worker, recon, scheduleVars>>
  PROVE  QInv'
<1>0. StoreQInv /\ RelayQInv /\ RelayTypeOK /\ RowsInOrder /\ TypeOK
  BY DEF QInv, RelayQInv, StoreQInv, StoreInv
<1>1. \A m \in Relays : ~Relaying(m, "idle") =>
        relay[m].cycle \in Cycles /\ relay[m].seq \in Rows(relay[m].cycle)
  BY <1>0 DEF RelayQInv, RelayTypeOK, NotRelaying, RelayState, Relaying
<1>2. ASSUME StoreQInv', Evolves, BankQInv', \A w \in Workers : Calm(w), RelayQInv'
      PROVE  QInv'
  <2>1. WorkerQInv'
    BY <1>2, WorkersStay DEF bankVars
  <2>2. ReconQInv' /\ PlanQInv'
    BY <1>0, <1>2, ListsStay, PlansStay DEF QInv
  <2>3. QED
    BY <1>2, <2>1, <2>2 DEF QInv
<1>3. ASSUME Evolves, NEW x, relay' = [relay EXCEPT ![l] = x],
             \/ x = NotRelaying
             \/ /\ x \in RelayState
                /\ x.cycle \in Cycles /\ x.seq \in Rows(x.cycle)
      PROVE  RelayQInv'
  <2>1. relay' \in [Relays -> {NotRelaying} \cup RelayState]
    BY <1>0, <1>3 DEF RelayTypeOK
  <2>2. relay'[l] = x /\ \A m \in Relays \ {l} : relay'[m] = relay[m]
    BY <1>0, <1>3 DEF RelayTypeOK
  <2>3. \A m \in Relays \ {l} : ~Relaying(m, "idle")' => relay'[m].seq \in DOMAIN attempts'[relay'[m].cycle]
    BY <1>1, <1>3, <2>2 DEF Relaying, Evolves, Rows
  <2>4. ~Relaying(l, "idle")' => relay'[l].seq \in DOMAIN attempts'[relay'[l].cycle]
    BY <1>3, <2>2 DEF Relaying, Evolves, Rows, NotRelaying
  <2>5. QED
    BY <2>1, <2>3, <2>4 DEF RelayQInv, RelayTypeOK, Rows
<1>4. ASSUME UNCHANGED storeVars, NEW x, relay' = [relay EXCEPT ![l] = x],
             \/ x = NotRelaying
             \/ /\ x \in RelayState
                /\ x.cycle \in Cycles /\ x.seq \in Rows(x.cycle)
      PROVE  QInv'
  <2>1. StoreQInv' /\ Evolves
    BY <1>0, <1>4, NoStoreStep
  <2>2. BankQInv' /\ \A w \in Workers : Calm(w)
    BY <1>4, <2>1, NothingHappens DEF storeVars
  <2>3. QED
    BY <1>2, <1>3, <1>4, <2>1, <2>2
<1>5. CASE \E c \in Cycles : \E i \in DOMAIN attempts[c] : PickNotice(l, c, i)
  <2> PICK c \in Cycles : \E i \in DOMAIN attempts[c] : PickNotice(l, c, i)
    BY <1>5
  <2> PICK i \in Rows(c) : PickNotice(l, c, i)
    BY DEF Rows
  <2> DEFINE x == [pc |-> "picked", cycle |-> c, seq |-> i]
  <2>1. i \in 1..MaxAttempts
    BY <1>0, Shapes, MaxAttemptsAssumption DEF RowsInOrder
  <2>2. x \in RelayState /\ x.cycle = c /\ x.seq = i
    BY <2>1 DEF RelayState
  <2>3. UNCHANGED storeVars /\ relay' = [relay EXCEPT ![l] = x]
    BY DEF PickNotice
  <2> HIDE DEF x
  <2>4. QED
    BY <2>2, <2>3, <1>4
<1>6. CASE TooLate(l)
  <2>0. relay[l].cycle \in Cycles /\ relay[l].seq \in Rows(relay[l].cycle)
    BY <1>1, <1>6 DEF TooLate, Relaying
  <2> PICK c \in Cycles : c = relay[l].cycle
    BY <2>0
  <2> PICK i \in Rows(c) : i = relay[l].seq
    BY <2>0
  <2>1. Refund(c, i) /\ attempts[c][i].outcome \in Open /\ StopRelaying(l)
    BY <1>6 DEF TooLate, AbandonAttempt, Abandonable, Open
  <2>2. StoreQInv' /\ Evolves /\ BankQInv' /\ \A w \in Workers : Calm(w)
    BY <2>1, RefundsDisturbNobody
  <2>3. QED
    BY <2>1, <2>2, <1>2, <1>3 DEF StopRelaying
<1>7. CASE SendNotice(l)
  <2> DEFINE x == [relay[l] EXCEPT !.pc = "sent"]
  <2>1. relay[l] \in RelayState
    BY <1>0, <1>7 DEF RelayTypeOK, SendNotice, Relaying, NotRelaying
  <2>2. x \in RelayState /\ x.cycle = relay[l].cycle /\ x.seq = relay[l].seq
    BY <2>1 DEF RelayState
  <2>3. x.cycle \in Cycles /\ x.seq \in Rows(x.cycle)
    BY <2>2, <1>1, <1>7 DEF SendNotice, Relaying
  <2>4. UNCHANGED storeVars /\ relay' = [relay EXCEPT ![l] = x]
    BY <1>7 DEF SendNotice
  <2> HIDE DEF x
  <2>5. QED
    BY <2>2, <2>3, <2>4, <1>4
<1>8. CASE Delivered(l)
  <2>0. relay[l].cycle \in Cycles /\ relay[l].seq \in Rows(relay[l].cycle)
    BY <1>1, <1>8 DEF Delivered, Relaying
  <2> PICK c \in Cycles : c = relay[l].cycle
    BY <2>0
  <2> PICK i \in Rows(c) : i = relay[l].seq
    BY <2>0
  <2>1. MarkNoticeDelivered(c, i) /\ StopRelaying(l)
    BY <1>8 DEF Delivered
  <2>2. StoreQInv' /\ Evolves /\ cycles' = cycles
    BY <1>0, <2>1, NoticeStep
  <2>3. \A d \in Cycles : \A j \in Rows(d) : attempts'[d][j].outcome = attempts[d][j].outcome
    <3> DEFINE b == [attempts[c][i] EXCEPT !.notice =
                       IF attempts[c][i].age = Early THEN "onTime" ELSE "late"]
    <3>1. attempts[c][i] \in Attempt
      BY <1>0, Shapes
    <3>2. b \in Attempt /\ b.outcome = attempts[c][i].outcome /\ Rewrite(c, i, b)
      BY <2>1, <3>1 DEF Attempt, MarkNoticeDelivered
    <3> HIDE DEF b
    <3>3. QED
      BY <1>0, <3>2, RewriteLen
  <2>4. BankQInv' /\ \A w \in Workers : Calm(w)
    BY <2>2, <2>3, NothingHappens
  <2>5. QED
    BY <2>1, <2>2, <2>4, <1>2, <1>3 DEF StopRelaying
<1>9. CASE LeaveNotice(l)
  BY <1>4, <1>9 DEF LeaveNotice, StopRelaying
<1>10. QED
  BY <1>5, <1>6, <1>7, <1>8, <1>9 DEF RelayStep

(* The reconciler.                                                         *)
LEMMA ReconcileKeeps ==
  ASSUME QInv, NEW r \in Reconcilers, ReconcileStep(r) \/ CrashAsking(r),
         UNCHANGED <<worker, relay, scheduleVars>>
  PROVE  QInv'
<1>0. /\ StoreQInv /\ ReconQInv /\ ReconcileTypeOK /\ RowsInOrder /\ TypeOK
      /\ RecordsAgreeWithBank /\ RecoveredWasPaid
  BY DEF QInv, ReconQInv, StoreQInv, StoreInv, BankQInv
<1>1. \A m \in Reconcilers : ~Asking(m, "idle") =>
        /\ recon[m] \in AskState
        /\ recon[m].cycle \in Cycles /\ recon[m].seq \in Rows(recon[m].cycle)
  BY <1>0 DEF ReconQInv, ReconcileTypeOK, NotAsking, AskState, Asking
<1>2. ASSUME StoreQInv', Evolves, UNCHANGED bankVars, BankQInv',
             \A w \in Workers : Calm(w), ReconQInv'
      PROVE  QInv'
  <2>1. WorkerQInv'
    BY <1>2, WorkersStay DEF bankVars
  <2>2. RelayQInv' /\ PlanQInv'
    BY <1>0, <1>2, ListsStay, PlansStay DEF QInv
  <2>3. QED
    BY <1>2, <2>1, <2>2 DEF QInv
<1>3. ASSUME Evolves, NEW x, recon' = [recon EXCEPT ![r] = x],
             \/ x = NotAsking
             \/ /\ x \in AskState
                /\ x.cycle \in Cycles /\ x.seq \in Rows(x.cycle)
      PROVE  ReconQInv'
  <2>1. recon' \in [Reconcilers -> {NotAsking} \cup AskState]
    BY <1>0, <1>3 DEF ReconcileTypeOK
  <2>2. recon'[r] = x /\ \A m \in Reconcilers \ {r} : recon'[m] = recon[m]
    BY <1>0, <1>3 DEF ReconcileTypeOK
  <2>3. \A m \in Reconcilers \ {r} :
          ~Asking(m, "idle")' => recon'[m].seq \in DOMAIN attempts'[recon'[m].cycle]
    BY <1>1, <1>3, <2>2 DEF Asking, Evolves, Rows
  <2>4. ~Asking(r, "idle")' => recon'[r].seq \in DOMAIN attempts'[recon'[r].cycle]
    BY <1>3, <2>2 DEF Asking, Evolves, Rows, NotAsking
  <2>5. QED
    BY <2>1, <2>3, <2>4 DEF ReconQInv, ReconcileTypeOK, Rows
<1>4. ASSUME UNCHANGED <<cycles, attempts>>, UNCHANGED bankVars, StoreQInv', Evolves,
             NEW x, recon' = [recon EXCEPT ![r] = x],
             \/ x = NotAsking
             \/ /\ x \in AskState
                /\ x.cycle \in Cycles /\ x.seq \in Rows(x.cycle)
      PROVE  QInv'
  <2>1. BankQInv' /\ \A w \in Workers : Calm(w)
    BY <1>4, NothingHappens
  <2>2. QED
    BY <1>2, <1>3, <1>4, <2>1
<1>5. ASSUME UNCHANGED storeVars PROVE StoreQInv' /\ Evolves
  BY <1>0, <1>5, NoStoreStep
<1>6. CASE \E c \in Cycles : \E i \in DOMAIN attempts[c] : Pick(r, c, i)
  <2> PICK c \in Cycles : \E i \in DOMAIN attempts[c] : Pick(r, c, i)
    BY <1>6
  <2> PICK i \in Rows(c) : Pick(r, c, i)
    BY DEF Rows
  <2> DEFINE x == [pc |-> "picked", cycle |-> c, seq |-> i]
  <2>1. i \in 1..MaxAttempts
    BY <1>0, Shapes, MaxAttemptsAssumption DEF RowsInOrder
  <2>2. x \in AskState /\ x.cycle = c /\ x.seq = i
    BY <2>1 DEF AskState
  <2>3. UNCHANGED <<storeVars, bankVars>> /\ recon' = [recon EXCEPT ![r] = x]
    BY DEF Pick
  <2> HIDE DEF x
  <2>4. QED
    BY <2>2, <2>3, <1>4, <1>5 DEF storeVars
<1>7. ASSUME NEW pc \in {"leased", "missing"}, Ask(r, pc), ~Asking(r, "idle"),
             UNCHANGED <<cycles, attempts>>, UNCHANGED bankVars, StoreQInv', Evolves
      PROVE  QInv'
  <2> DEFINE x == [recon[r] EXCEPT !.pc = pc]
  <2>1. recon[r] \in AskState /\ recon[r].cycle \in Cycles /\ recon[r].seq \in Rows(recon[r].cycle)
    BY <1>1, <1>7
  <2>2. x \in AskState /\ x.cycle = recon[r].cycle /\ x.seq = recon[r].seq
    BY <2>1 DEF AskState
  <2>3. recon' = [recon EXCEPT ![r] = x]
    BY <1>7 DEF Ask
  <2> HIDE DEF x
  <2>4. QED
    BY <2>1, <2>2, <2>3, <1>4, <1>7
<1>8. CASE TakeLeaseToAsk(r)
  <2>1. recon[r].cycle \in Cycles /\ ~Asking(r, "idle")
    BY <1>1, <1>8 DEF TakeLeaseToAsk, Asking
  <2>2. StoreQInv' /\ Evolves
    BY <2>1, <1>0, <1>8, AcquireLeaseStep DEF TakeLeaseToAsk
  <2>3. QED
    BY <2>1, <2>2, <1>7, <1>8 DEF TakeLeaseToAsk, AcquireLease
<1>9. CASE Settle(r)
  <2>0. ~Asking(r, "idle")
    BY <1>9 DEF Settle, Asking
  <2> PICK c \in Cycles : c = recon[r].cycle
    BY <2>0, <1>1
  <2> PICK i \in Rows(c) : i = recon[r].seq
    BY <2>0, <1>1
  <2>1. recon' = [recon EXCEPT ![r] = NotAsking] /\ UNCHANGED bankVars
    BY <1>9 DEF Settle, StopAsking
  <2>2. CASE ResolveNotDebited(c, i)
    <3>1. attempts[c][i].outcome \in Open /\ Refund(c, i)
      BY <2>2 DEF ResolveNotDebited, Resolvable
    <3>2. StoreQInv' /\ Evolves /\ BankQInv' /\ \A w \in Workers : Calm(w)
      BY <3>1, <2>1, RefundsDisturbNobody
    <3>3. QED
      BY <3>2, <2>1, <1>2, <1>3
  <2>3. CASE Paid(c, i) /\ ResolveDebited(c, i)
    <3>1. /\ StoreQInv' /\ Evolves
          /\ attempts[c][i].outcome \in Open
          /\ attempts'[c][i].outcome = "SUCCESS"
          /\ \A d \in Cycles : \A j \in Rows(d) : d # c \/ j # i => attempts'[d][j] = attempts[d][j]
          /\ \A d \in Cycles : Rows(d)' = Rows(d) /\ cycles'[d].version = cycles[d].version
          /\ \A d \in Cycles : cycles'[d].state = IF d = c THEN "recovered" ELSE cycles[d].state
      BY <1>0, <2>3, ResolveDebitedStep
    <3>2. \A w \in Workers : Calm(w)
      <4> SUFFICES ASSUME NEW w \in Workers, At(w, "recorded")
                   PROVE  cycles'[C(w)].version = cycles[C(w)].version /\ cycles'[C(w)].state # "pending"
        BY DEF Calm
      <4>1. WorkerOK(w) /\ ~At(w, "idle") /\ ExecuteTypeOK
        BY DEF QInv, WorkerQInv, At
      <4>2. C(w) \in Cycles /\ cycles[C(w)].state # "pending"
        BY <4>1, WorkerShape DEF WorkerOK
      <4>3. QED
        BY <4>2, <3>1
    <3>3. RecordsAgreeWithBank'
      <4> SUFFICES ASSUME NEW d \in Cycles, NEW j \in Rows(d)
                   PROVE  /\ attempts'[d][j].outcome = "SUCCESS" => Paid(d, j)
                          /\ attempts'[d][j].outcome = "FAILURE" =>
                               ledger[d][j] = <<"FAILURE", attempts'[d][j].code>>
        BY <2>1, <3>1 DEF RecordsAgreeWithBank, Paid, bankVars
      <4>1. CASE d = c /\ j = i
        BY <4>1, <2>3, <3>1
      <4>2. CASE d # c \/ j # i
        BY <4>2, <3>1, <1>0 DEF RecordsAgreeWithBank
      <4>3. QED
        BY <4>1, <4>2
    <3>4. RecoveredWasPaid'
      <4> SUFFICES ASSUME NEW d \in Cycles, cycles'[d].state = "recovered"
                   PROVE  \E j \in Rows(d) : Paid(d, j)
        BY <2>1, <3>1 DEF RecoveredWasPaid, Paid, bankVars
      <4>1. QED
        BY <2>3, <3>1, <1>0 DEF RecoveredWasPaid
    <3>5. BankQInv'
      BY <3>1, <3>3, <3>4, <2>1, CallsStay DEF BankQInv
    <3>6. QED
      BY <3>1, <3>2, <3>5, <2>1, <1>2, <1>3
  <2>4. QED
    BY <2>2, <2>3, <1>9 DEF Settle, Status, Paid
<1>10. CASE StillUnknown(r)
  BY <1>5, <1>7, <1>10 DEF StillUnknown, Asking, storeVars
<1>11. CASE Hold(r)
  <2>0. ~Asking(r, "idle")
    BY <1>11 DEF Hold, Asking
  <2> PICK c \in Cycles : c = recon[r].cycle
    BY <2>0, <1>1
  <2>1. SetState(c, "held") /\ recon' = [recon EXCEPT ![r] = NotAsking] /\ UNCHANGED bankVars
    BY <1>11 DEF Hold, StopAsking
  <2>2. /\ StoreQInv' /\ Evolves /\ UNCHANGED attempts
        /\ \A d \in Cycles : cycles'[d].version = cycles[d].version
        /\ \A d \in Cycles : cycles'[d].state = IF d = c THEN "held" ELSE cycles[d].state
    BY <1>0, <2>1, SetStateStep
  <2>3. NothingLearnt
    BY <2>2 DEF NothingLearnt, Open, Rows
  <2>4. \A w \in Workers : Calm(w)
    <3> SUFFICES ASSUME NEW w \in Workers, At(w, "recorded")
                 PROVE  cycles'[C(w)].version = cycles[C(w)].version /\ cycles'[C(w)].state # "pending"
      BY DEF Calm
    <3>1. WorkerOK(w) /\ ~At(w, "idle") /\ ExecuteTypeOK
      BY DEF QInv, WorkerQInv, At
    <3>2. C(w) \in Cycles /\ cycles[C(w)].state # "pending"
      BY <3>1, WorkerShape DEF WorkerOK
    <3>3. QED
      BY <3>2, <2>2
  <2>5. BankQInv'
    BY <2>1, <2>2, <2>3, BankStays
  <2>6. QED
    BY <2>1, <2>2, <2>4, <2>5, <1>2, <1>3
<1>12. CASE NothingToSettle(r) \/ CrashAsking(r)
  BY <1>4, <1>5, <1>12 DEF NothingToSettle, CrashAsking, StopAsking, storeVars
<1>13. QED
  BY <1>6, <1>8, <1>9, <1>10, <1>11, <1>12 DEF ReconcileStep

(* A new plan is good.                                                     *)
LEMMA NewPlan ==
  ASSUME QInv, NEW s \in Schedulers, NEW c \in Cycles, NEW age \in Early..Stale,
         Considers(s, c), MakePlan(s, c, age), UNCHANGED worker,
         ShortOfFunds(c) => TriggerOf(c).reply \in {"yes", "no", "expired"},
         cycles[c].used = 0 \/ Classify(LastFailureCode(c)) # "terminal"
  PROVE  sched'[s] \in Plan /\ PlanOK(s)' /\ \A m \in Schedulers \ {s} : sched'[m] = sched[m]
<1>0. StoreQInv /\ TypeOK /\ ScheduleTypeOK /\ PendingIsFinal /\ \A w \in Workers : WorkerOK(w)
  BY DEF QInv, StoreQInv, StoreInv, PlanQInv, WorkerQInv
<1>1. cycles[c].version \in Nat
  BY <1>0, Shapes
<1>2. /\ sched'[s] = [pc |-> "planned", cycle |-> c, version |-> cycles[c].version, age |-> age]
      /\ \A m \in Schedulers \ {s} : sched'[m] = sched[m]
      /\ UNCHANGED <<storeVars, triggers>>
  BY <1>0 DEF MakePlan, ScheduleTypeOK
<1>3. sched'[s] \in Plan
  BY <1>1, <1>2 DEF Plan
<1>4. cycles[c].state = "pending" /\ RowsFinal(c)
  BY <1>0 DEF Considers, SchedulableCycle, PendingIsFinal
<1>5. \A i \in Rows(c) : ~TerminalCode(attempts[c][i])
  <2> SUFFICES ASSUME NEW i \in Rows(c), TerminalCode(attempts[c][i]) PROVE FALSE
    OBVIOUS
  <2>1. cycles[c].used # 0
    BY <1>0, UnspentHasNoFailure DEF TerminalCode
  <2>2. LastFailureCode(c) = attempts[c][i].code
    BY <1>0, TerminalIsLatest
  <2>3. QED
    BY <2>1, <2>2 DEF TerminalCode
<1>6. \A w \in Workers : At(w, "recorded") => C(w) # c
  BY <1>0, <1>4 DEF WorkerOK, At
<1>7. QED
  <2>1. /\ sched'[s].cycle = c /\ sched'[s].version = cycles[c].version
        /\ UNCHANGED <<cycles, attempts, triggers>>
    BY <1>2 DEF storeVars
  <2>2. RowsFinal(c)' /\ (\A i \in Rows(c)' : ~TerminalCode(attempts'[c][i]))
    BY <2>1, <1>4, <1>5 DEF RowsFinal, Rows
  <2>3. ShortOfFunds(c)' => TriggerOf(c)'.reply \in {"yes", "no", "expired"}
    BY <2>1 DEF ShortOfFunds, TriggerOf, LastFailureCode, Failed
  <2>4. cycles'[c].version = cycles[c].version /\ cycles[c].version <= cycles[c].version
    BY <2>1, <1>1
  <2>5. PlanOK(s)'
    BY <2>1, <2>2, <2>3, <2>4, <1>6 DEF PlanOK, At, C
  <2>6. QED
    BY <2>5, <1>2, <1>3

(* The customer's answers, and their absence.                              *)
LEMMA TriggersStay ==
  ASSUME ScheduleTypeOK, TriggerStep
  PROVE  /\ UNCHANGED <<storeVars, sched>> /\ ScheduleTypeOK'
         /\ \A c \in Cycles : \A i \in 1..(MaxAttempts + 1) :
              triggers[c][i].reply \in {"yes", "no", "expired"}
                => triggers'[c][i].reply \in {"yes", "no", "expired"}
<1> PICK c \in Cycles :
      \/ \E reply \in {"yes", "no"} : Respond(c, reply)
      \/ \E i \in DOMAIN triggers[c] : TriggerExpires(c, i) \/ AnswerAges(c, i)
  BY DEF TriggerStep
<1>0. /\ triggers \in [Cycles -> [1..(MaxAttempts + 1) -> Trigger]]
      /\ DOMAIN triggers[c] = 1..(MaxAttempts + 1)
  BY DEF ScheduleTypeOK
<1>1. PICK i \in 1..(MaxAttempts + 1), t \in Trigger :
        /\ triggers' = [triggers EXCEPT ![c][i] = t]
        /\ t.reply \in {"yes", "no", "expired"}
        /\ UNCHANGED <<storeVars, sched>>
  <2>1. CASE \E reply \in {"yes", "no"} : Respond(c, reply)
    <3> PICK reply \in {"yes", "no"} : Respond(c, reply)
      BY <2>1
    <3> PICK i \in Unanswered(c) : triggers' = [triggers EXCEPT ![c][i].reply = reply]
      BY DEF Respond
    <3>1. i \in 1..(MaxAttempts + 1) /\ triggers[c][i] \in Trigger
      BY <1>0 DEF Unanswered
    <3>2. [triggers[c][i] EXCEPT !.reply = reply] \in Trigger
      BY <3>1 DEF Trigger
    <3>3. triggers' = [triggers EXCEPT ![c][i] = [triggers[c][i] EXCEPT !.reply = reply]]
      OBVIOUS
    <3>4. [triggers[c][i] EXCEPT !.reply = reply].reply = reply
      BY <3>1 DEF Trigger
    <3>5. QED
      BY <3>1, <3>2, <3>3, <3>4 DEF Respond
  <2>2. CASE \E i \in DOMAIN triggers[c] : TriggerExpires(c, i)
    <3> PICK i \in 1..(MaxAttempts + 1) : TriggerExpires(c, i)
      BY <1>0, <2>2
    <3> DEFINE t == [triggers[c][i] EXCEPT !.reply = "expired"]
    <3>1. triggers[c][i] \in Trigger
      BY <1>0
    <3>2. t \in Trigger /\ t.reply = "expired"
      BY <3>1 DEF Trigger
    <3>3. triggers' = [triggers EXCEPT ![c][i] = t] /\ UNCHANGED <<storeVars, sched>>
      BY DEF TriggerExpires
    <3> HIDE DEF t
    <3>4. QED
      BY <3>2, <3>3
  <2>3. CASE \E i \in DOMAIN triggers[c] : AnswerAges(c, i)
    <3> PICK i \in 1..(MaxAttempts + 1) : AnswerAges(c, i)
      BY <1>0, <2>3
    <3> DEFINE t == [triggers[c][i] EXCEPT !.age = @ + 1]
    <3>1. triggers[c][i] \in Trigger
      BY <1>0
    <3>2. t \in Trigger /\ t.reply = "yes"
      BY <3>1 DEF Trigger, AnswerAges, Early, Stale
    <3>3. triggers' = [triggers EXCEPT ![c][i] = t] /\ UNCHANGED <<storeVars, sched>>
      BY DEF AnswerAges
    <3> HIDE DEF t
    <3>4. QED
      BY <3>2, <3>3
  <2>4. QED
    BY <2>1, <2>2, <2>3
<1>2. \A d \in Cycles : \A j \in 1..(MaxAttempts + 1) :
        triggers'[d][j] = IF d = c /\ j = i THEN t ELSE triggers[d][j]
  BY <1>0, <1>1
<1>3. triggers' \in [Cycles -> [1..(MaxAttempts + 1) -> Trigger]]
  BY <1>0, <1>1
<1>4. QED
  BY <1>1, <1>2, <1>3 DEF ScheduleTypeOK

(* The scheduler.                                                          *)
LEMMA ScheduleKeeps ==
  ASSUME QInv, Scheduling, UNCHANGED <<bankVars, worker, recon, relay>>
  PROVE  QInv'
<1>0. /\ StoreQInv /\ TypeOK /\ ScheduleTypeOK /\ BankQInv
      /\ \A s \in Schedulers : PlanOK(s)
  BY DEF QInv, StoreQInv, StoreInv, PlanQInv
<1>1. ASSUME StoreQInv', Evolves, BankQInv', \A w \in Workers : Calm(w), PlanQInv'
      PROVE  QInv'
  <2>1. WorkerQInv'
    BY <1>1, WorkersStay DEF bankVars
  <2>2. ReconQInv' /\ RelayQInv'
    BY <1>1, ListsStay DEF QInv
  <2>3. QED
    BY <1>1, <2>1, <2>2 DEF QInv
<1>2. ASSUME UNCHANGED storeVars, PlanQInv'
      PROVE  QInv'
  <2>1. StoreQInv' /\ Evolves
    BY <1>0, <1>2, NoStoreStep
  <2>2. BankQInv' /\ \A w \in Workers : Calm(w)
    BY <1>2, <2>1, NothingHappens DEF storeVars
  <2>3. QED
    BY <1>1, <1>2, <2>1, <2>2
<1>3. CASE TriggerStep
  <2>1. /\ UNCHANGED <<storeVars, sched>> /\ ScheduleTypeOK'
        /\ \A c \in Cycles : \A i \in 1..(MaxAttempts + 1) :
             triggers[c][i].reply \in {"yes", "no", "expired"}
               => triggers'[c][i].reply \in {"yes", "no", "expired"}
    BY <1>0, <1>3, TriggersStay
  <2>2. StoreQInv' /\ Evolves
    BY <1>0, <2>1, NoStoreStep
  <2>3. \A s \in Schedulers : PlanOK(s)'
    BY <2>1, <2>2, PlanStays
  <2>4. QED
    BY <1>2, <2>1, <2>3 DEF PlanQInv
<1>4. ASSUME NEW s \in Schedulers, ScheduleStep(s)
      PROVE  QInv'
  <2>1. ASSUME StoreQInv', Evolves, UNCHANGED triggers, NEW x \in {NoPlan} \cup Plan,
               sched' = [sched EXCEPT ![s] = x], PlanOK(s)'
        PROVE  PlanQInv'
    <3>1. ScheduleTypeOK'
      BY <1>0, <2>1 DEF ScheduleTypeOK
    <3>2. \A m \in Schedulers \ {s} : sched'[m] = sched[m]
      BY <1>0, <2>1 DEF ScheduleTypeOK
    <3>3. \A m \in Schedulers \ {s} : PlanOK(m)'
      BY <2>1, <3>2, PlanStays
    <3>4. QED
      BY <2>1, <3>1, <3>3 DEF PlanQInv
  <2>2. ASSUME sched' = [sched EXCEPT ![s] = NoPlan] PROVE PlanOK(s)'
    <3>1. sched'[s] = NoPlan
      BY <1>0, <2>2 DEF ScheduleTypeOK
    <3>2. QED
      BY <3>1 DEF PlanOK, NoPlan
  <2>3. ASSUME NEW c \in Cycles, NEW age \in Early..Stale,
               Considers(s, c), MakePlan(s, c, age),
               ShortOfFunds(c) => TriggerOf(c).reply \in {"yes", "no", "expired"},
               cycles[c].used = 0 \/ Classify(LastFailureCode(c)) # "terminal"
        PROVE  QInv'
    <3>1. sched'[s] \in Plan /\ PlanOK(s)'
      BY <2>3, NewPlan
    <3>2. UNCHANGED <<storeVars, triggers>> /\ sched' = [sched EXCEPT ![s] = sched'[s]]
      BY <1>0, <2>3 DEF MakePlan, ScheduleTypeOK
    <3>3. StoreQInv' /\ Evolves
      BY <1>0, <3>2, NoStoreStep
    <3>4. QED
      BY <1>2, <2>1, <3>1, <3>2, <3>3
  <2>4. CASE Reserve(s)
    <3>0. sched[s] \in Plan /\ sched[s].pc = "planned"
      BY <1>0, <2>4 DEF Reserve, ScheduleTypeOK, NoPlan
    <3> PICK c \in Cycles : c = sched[s].cycle
      BY <3>0 DEF Plan
    <3>1. sched[s].age \in Early..Stale
      BY <3>0 DEF Plan
    <3>2. PICK age \in sched[s].age..Stale : ReserveAttempt(c, sched[s].version, age)
      BY <2>4 DEF Reserve
    <3>3. age \in Early..Stale
      BY <3>1, <3>2 DEF Early, Stale
    <3>4. sched[s].version = cycles[c].version
      BY <3>2 DEF ReserveAttempt, Reservable
    <3>5. /\ RowsFinal(c)
          /\ \A i \in Rows(c) : ~TerminalCode(attempts[c][i])
          /\ \A w \in Workers : At(w, "recorded") => C(w) # c
      BY <1>0, <3>0, <3>4 DEF PlanOK
    <3>6. /\ StoreQInv' /\ Evolves
          /\ \A d \in Cycles \ {c} : cycles'[d] = cycles[d] /\ attempts'[d] = attempts[d]
          /\ cycles'[c].state = "scheduled"
          /\ \A i \in Rows(c) : attempts'[c][i] = attempts[c][i]
          /\ \A i \in Rows(c)' \ Rows(c) : attempts'[c][i].outcome = "none"
      BY <1>0, <3>2, <3>3, <3>5, ReserveStep
    <3>7. NothingLearnt
      <4> SUFFICES ASSUME NEW d \in Cycles
                   PROVE  /\ cycles'[d].state = "recovered" => cycles[d].state = "recovered"
                          /\ \A i \in Rows(d)' : attempts'[d][i].outcome \in {"SUCCESS", "FAILURE"} =>
                               i \in Rows(d) /\ attempts[d][i].outcome \notin Open
        BY DEF NothingLearnt
      <4>1. CASE d = c
        BY <4>1, <3>6 DEF Open
      <4>2. CASE d # c
        BY <4>2, <3>6 DEF Open, Rows
      <4>3. QED
        BY <4>1, <4>2
    <3>8. BankQInv'
      BY <3>6, <3>7, BankStays
    <3>9. \A w \in Workers : Calm(w)
      <4> SUFFICES ASSUME NEW w \in Workers, At(w, "recorded")
                   PROVE  cycles'[C(w)].version = cycles[C(w)].version /\ cycles'[C(w)].state # "pending"
        BY DEF Calm
      <4>1. WorkerOK(w) /\ ~At(w, "idle") /\ ExecuteTypeOK
        BY DEF QInv, WorkerQInv, At
      <4>2. C(w) \in Cycles /\ cycles[C(w)].state # "pending"
        BY <4>1, WorkerShape DEF WorkerOK
      <4>3. QED
        BY <4>2, <3>5, <3>6
    <3>10. QED
      BY <1>1, <2>1, <2>2, <2>4, <3>6, <3>8, <3>9 DEF Reserve
  <2>5. CASE DropPlan(s)
    <3>1. StoreQInv' /\ Evolves
      BY <1>0, <2>5, NoStoreStep DEF DropPlan
    <3>2. QED
      BY <1>2, <2>1, <2>2, <2>5, <3>1 DEF DropPlan
  <2>6. ASSUME NEW c \in Cycles, PlanFirst(s, c) PROVE QInv'
    BY <2>3, <2>6 DEF PlanFirst, ShortOfFunds, Early, Stale
  <2>7. ASSUME NEW c \in Cycles, PlanRetry(s, c) PROVE QInv'
    BY <2>3, <2>7 DEF PlanRetry, Retryable, Early, Stale
  <2>8. ASSUME NEW c \in Cycles, AskCustomer(s, c) PROVE QInv'
    <3> DEFINE i == cycles[c].used + 1
               t == [triggers[c][i] EXCEPT !.reply = "waiting"]
    <3>0. i \in 1..(MaxAttempts + 1)
      BY <1>0, Shapes, MaxAttemptsAssumption
    <3>1. triggers[c][i] \in Trigger /\ triggers[c][i].reply = "absent"
      BY <1>0, <2>8, <3>0 DEF ScheduleTypeOK, AskCustomer, TriggerOf
    <3>2. t \in Trigger
      BY <3>1 DEF Trigger
    <3>3. triggers' = [triggers EXCEPT ![c][i] = t] /\ UNCHANGED <<storeVars, sched>>
      BY <2>8 DEF AskCustomer
    <3> HIDE DEF t, i
    <3>4. triggers \in [Cycles -> [1..(MaxAttempts + 1) -> Trigger]]
      BY <1>0 DEF ScheduleTypeOK
    <3>5. triggers' \in [Cycles -> [1..(MaxAttempts + 1) -> Trigger]]
      BY <3>0, <3>2, <3>3, <3>4
    <3>6. ScheduleTypeOK'
      BY <1>0, <3>3, <3>5 DEF ScheduleTypeOK
    <3>7. \A d \in Cycles : \A j \in 1..(MaxAttempts + 1) :
            triggers[d][j].reply \in {"yes", "no", "expired"}
              => triggers'[d][j].reply \in {"yes", "no", "expired"}
      BY <3>0, <3>1, <3>3, <3>4
    <3>8. StoreQInv' /\ Evolves
      BY <1>0, <3>3, NoStoreStep
    <3>9. \A m \in Schedulers : PlanOK(m)'
      BY <3>3, <3>7, <3>8, PlanStays
    <3>10. QED
      BY <1>2, <3>3, <3>6, <3>9 DEF PlanQInv
  <2>9. ASSUME NEW c \in Cycles, PlanConfirmed(s, c) PROVE QInv'
    <3>1. cycles[c].used + 1 \in 1..(MaxAttempts + 1)
      BY <1>0, Shapes, MaxAttemptsAssumption
    <3>2. TriggerOf(c).age \in Early..Stale
      BY <1>0, <3>1 DEF TriggerOf, ScheduleTypeOK, Trigger
    <3>3. Classify(LastFailureCode(c)) # "terminal"
      BY <2>9 DEF PlanConfirmed, ShortOfFunds, Classify
    <3>4. QED
      BY <2>3, <2>9, <3>2, <3>3 DEF PlanConfirmed
  <2>10. ASSUME NEW c \in Cycles, PlanUnconfirmed(s, c) PROVE QInv'
    <3>1. Classify(LastFailureCode(c)) # "terminal"
      BY <2>10 DEF PlanUnconfirmed, ShortOfFunds, Classify
    <3>2. Early \in Early..Stale
      BY DEF Early, Stale
    <3>3. QED
      BY <2>3, <2>10, <3>1, <3>2 DEF PlanUnconfirmed
  <2>11. QED
    BY <1>4, <2>4, <2>5, <2>6, <2>7, <2>8, <2>9, <2>10 DEF ScheduleStep
<1>5. QED
  BY <1>3, <1>4 DEF Scheduling

(* The worker: one step of its own.                                        *)
LEMMA FireKeeps ==
  ASSUME QInv, NEW w \in Workers, FireStep(w) \/ Crash(w),
         UNCHANGED <<recon, relay, scheduleVars>>
  PROVE  QInv'
<1>0. /\ StoreQInv /\ TypeOK /\ ExecuteTypeOK /\ BankQInv /\ BankTypeOK /\ RowsInOrder
      /\ CallsMatchRows /\ LedgerMatchesRows /\ RecordsAgreeWithBank /\ RecoveredWasPaid
      /\ \A v \in Workers : WorkerOK(v)
  BY DEF QInv, StoreQInv, StoreInv, BankQInv, WorkerQInv
<1>1. ~At(w, "idle") => /\ worker[w] \in FireState /\ C(w) \in Cycles /\ I(w) \in 1..MaxAttempts
                        /\ I(w) \in Rows(C(w))
  BY <1>0, WorkerShape DEF WorkerOK
<1>2. ASSUME StoreQInv', Evolves, BankQInv', UNCHANGED ledger,
             NEW x \in {Idle} \cup FireState, worker' = [worker EXCEPT ![w] = x],
             x.pc # "recorded", WorkerOK(w)', \A v \in Workers \ {w} : Calm(v)
      PROVE  QInv'
  <2>1. WorkerQInv'
    BY <1>2, WorkerMoves
  <2>2. ReconQInv' /\ RelayQInv'
    BY <1>2, ListsStay DEF QInv
  <2>3. worker'[w] = x /\ \A v \in Workers \ {w} : worker'[v] = worker[v]
    BY <1>0, <1>2 DEF ExecuteTypeOK
  <2>4. PlanQInv'
    BY <1>2, <2>3, PlansStay
  <2>5. QED
    BY <1>2, <2>1, <2>2, <2>4 DEF QInv
<1>3. ASSUME Finish(w) PROVE /\ worker' = [worker EXCEPT ![w] = Idle] /\ Idle.pc # "recorded"
                             /\ WorkerOK(w)'
  <2>1. worker' = [worker EXCEPT ![w] = Idle] /\ Idle.pc = "idle"
    BY <1>3 DEF Finish, Idle
  <2>2. worker'[w].pc = "idle"
    BY <1>0, <2>1 DEF ExecuteTypeOK
  <2>3. QED
    BY <2>1, <2>2 DEF WorkerOK, At
<1>4. ASSUME StoreQInv', Evolves, BankQInv', UNCHANGED ledger,
             Finish(w), \A v \in Workers \ {w} : Calm(v)
      PROVE  QInv'
  <2>1. /\ worker' = [worker EXCEPT ![w] = Idle] /\ Idle.pc # "recorded"
        /\ WorkerOK(w)' /\ Idle \in {Idle} \cup FireState
    BY <1>3, <1>4
  <2> HIDE DEF Idle, FireState
  <2>2. QED
    BY <1>2, <1>4, <2>1
<1>5. ASSUME UNCHANGED storeVars PROVE StoreQInv' /\ Evolves /\ \A v \in Workers : Calm(v)
  BY <1>0, <1>5, NoStoreStep, CyclesSame DEF storeVars
<1>6. ASSUME UNCHANGED <<storeVars, bankVars>> PROVE BankQInv'
  BY <1>5, <1>6, NothingHappens DEF storeVars
<1>7. CASE \E c \in Cycles : \E i \in DOMAIN attempts[c] : Claim(w, c, i)
  <2> PICK c \in Cycles : \E i \in DOMAIN attempts[c] : Claim(w, c, i)
    BY <1>7
  <2> PICK i \in Rows(c) : Claim(w, c, i)
    BY DEF Rows
  <2> DEFINE x == [pc |-> "fresh", cycle |-> c, seq |-> i, fence |-> 0, used |-> 0]
  <2>1. i \in 1..MaxAttempts
    BY <1>0, Shapes, MaxAttemptsAssumption DEF RowsInOrder
  <2>2. /\ x \in FireState /\ x.cycle = c /\ x.seq = i /\ x.pc = "fresh"
    BY <2>1, MaxAttemptsAssumption, MaxFenceAssumption DEF FireState
  <2>3. UNCHANGED <<storeVars, bankVars>> /\ worker' = [worker EXCEPT ![w] = x]
    BY DEF Claim
  <2> HIDE DEF x
  <2>4. worker'[w] = x
    BY <1>0, <2>3 DEF ExecuteTypeOK
  <2>5. WorkerOK(w)'
    BY <2>2, <2>3, <2>4 DEF WorkerOK, At, C, I, Rows, storeVars
  <2>6. QED
    BY <1>2, <1>5, <1>6, <2>2, <2>3, <2>5 DEF bankVars
<1>8. CASE \E c \in Cycles : \E i \in DOMAIN attempts[c] : AbandonStale(w, c, i)
  <2> PICK c \in Cycles : \E i \in DOMAIN attempts[c] : AbandonStale(w, c, i)
    BY <1>8
  <2> PICK i \in Rows(c) : AbandonStale(w, c, i)
    BY DEF Rows
  <2>1. Refund(c, i) /\ attempts[c][i].outcome \in Open /\ UNCHANGED <<worker, bankVars>>
    BY DEF AbandonStale, AbandonAttempt, Abandonable, Open
  <2>2. StoreQInv' /\ Evolves /\ BankQInv' /\ \A v \in Workers : Calm(v)
    BY <2>1, RefundsDisturbNobody
  <2>3. WorkerQInv'
    BY <2>1, <2>2, WorkersStay DEF bankVars
  <2>4. ReconQInv' /\ RelayQInv' /\ PlanQInv'
    BY <2>1, <2>2, ListsStay, PlansStay DEF QInv
  <2>5. QED
    BY <2>2, <2>3, <2>4 DEF QInv
<1>9. CASE TakeLease(w)
  <2>0. At(w, "fresh") /\ ~At(w, "idle")
    BY <1>9 DEF TakeLease, At
  <2> PICK c \in Cycles : c = C(w)
    BY <2>0, <1>1
  <2>1. AcquireLease(c) /\ UNCHANGED bankVars
    BY <1>9 DEF TakeLease
  <2>2. StoreQInv' /\ Evolves /\ leases'[c].fence \in 1..MaxFence
    BY <1>0, <2>1, AcquireLeaseStep
  <2> PICK fence \in 0..MaxFence : fence = leases'[c].fence
    BY <2>2, MaxFenceAssumption
  <2> DEFINE x == [worker[w] EXCEPT !.pc = "leased", !.fence = fence]
  <2>3. worker' = [worker EXCEPT ![w] = x]
    BY <1>9 DEF TakeLease
  <2>4. /\ x \in FireState /\ x.pc = "leased" /\ x.cycle = c /\ x.seq = I(w)
        /\ x.fence = fence
    BY <2>0, <1>1 DEF FireState, C, I
  <2> HIDE DEF x
  <2>5. worker'[w] = x
    BY <1>0, <2>3 DEF ExecuteTypeOK
  <2>6. UNCHANGED <<cycles, attempts>>
    BY <2>1 DEF AcquireLease
  <2>7. WorkerOK(w)'
    BY <2>0, <2>2, <2>4, <2>5, <2>6, <1>1 DEF WorkerOK, At, C, I, Rows
  <2>8. BankQInv' /\ \A v \in Workers : Calm(v)
    BY <2>1, <2>2, <2>6, NothingHappens
  <2>9. QED
    BY <1>2, <2>1, <2>2, <2>3, <2>4, <2>7, <2>8 DEF bankVars
<1>10. CASE PassGate(w)
  <2>0. At(w, "leased") /\ ~At(w, "idle")
    BY <1>10 DEF PassGate, At
  <2> DEFINE x == [worker[w] EXCEPT !.pc = "gated", !.used = cycles[C(w)].used]
  <2>1. worker' = [worker EXCEPT ![w] = x] /\ UNCHANGED <<storeVars, bankVars>>
    BY <1>10 DEF PassGate
  <2>2. cycles[C(w)].used \in 0..MaxAttempts
    BY <2>0, <1>0, <1>1, Shapes
  <2>3. /\ x \in FireState /\ x.pc = "gated" /\ x.cycle = C(w) /\ x.seq = I(w)
        /\ x.fence = worker[w].fence
    BY <2>0, <2>2, <1>1 DEF FireState, C, I
  <2> HIDE DEF x
  <2>4. worker'[w] = x
    BY <1>0, <2>1 DEF ExecuteTypeOK
  <2>5. attempts[C(w)][I(w)].notice = "onTime"
    BY <1>10 DEF PassGate, NoticeDelivered
  <2>6. worker[w].fence \in 1..leases[C(w)].fence
    BY <2>0, <1>0 DEF WorkerOK, At
  <2>7. C(w)' = C(w) /\ I(w)' = I(w)
    BY <2>3, <2>4 DEF C, I
  <2>8. WorkerOK(w)'
    BY <2>0, <2>1, <2>3, <2>4, <2>5, <2>6, <2>7, <1>1 DEF WorkerOK, At, Rows, storeVars
  <2>9. QED
    BY <1>2, <1>5, <1>6, <2>1, <2>3, <2>8 DEF bankVars
<1>11. CASE NoticeMissing(w)
  <2>0. ~At(w, "idle")
    BY <1>11 DEF NoticeMissing, At
  <2> PICK c \in Cycles : c = C(w)
    BY <2>0, <1>1
  <2> PICK i \in Rows(c) : i = I(w)
    BY <2>0, <1>1
  <2>1. Refund(c, i) /\ attempts[c][i].outcome \in Open /\ UNCHANGED bankVars /\ Finish(w)
    BY <1>11 DEF NoticeMissing, AbandonAttempt, Abandonable, Open
  <2>2. StoreQInv' /\ Evolves /\ BankQInv' /\ \A v \in Workers : Calm(v)
    BY <2>1, RefundsDisturbNobody
  <2>3. QED
    BY <1>4, <2>1, <2>2 DEF bankVars
<1>12. CASE MarkFired(w)
  <2>0. At(w, "gated") /\ ~At(w, "idle")
    BY <1>12 DEF MarkFired, At
  <2> PICK c \in Cycles : c = C(w)
    BY <2>0, <1>1
  <2> PICK i \in Rows(c) : i = I(w)
    BY <2>0, <1>1
  <2> PICK fence \in 1..MaxFence : fence = worker[w].fence /\ fence <= leases[c].fence
    <3>1. worker[w].fence \in 1..leases[C(w)].fence
      BY <2>0, <1>0 DEF WorkerOK, At
    <3>2. leases[c].fence \in 0..MaxFence
      BY <1>0, Shapes
    <3>3. QED
      BY <3>1, <3>2, MaxFenceAssumption
  <2>1. attempts[c][i].notice = "onTime"
    BY <2>0, <1>0 DEF WorkerOK
  <2>2. MarkAttemptFired(c, i, fence) /\ Goto(w, "fired") /\ UNCHANGED bankVars
    BY <1>12 DEF MarkFired
  <2>3. /\ StoreQInv' /\ Evolves
        /\ attempts'[c][i].fence = fence
        /\ \A d \in Cycles : cycles'[d].state = IF d = c THEN "in_flight" ELSE cycles[d].state
        /\ \A d \in Cycles : cycles'[d].version = cycles[d].version
        /\ \A d \in Cycles : \A j \in Rows(d) : attempts'[d][j].outcome = attempts[d][j].outcome
    BY <1>0, <2>1, <2>2, FireStep1
  <2>4. NothingLearnt
    <3>1. \A d \in Cycles : Rows(d)' = Rows(d)
      BY <2>3 DEF Evolves, Rows
    <3>2. QED
      BY <3>1, <2>3 DEF NothingLearnt, Open
  <2>5. BankQInv'
    BY <2>2, <2>3, <2>4, BankStays
  <2>6. \A v \in Workers : Calm(v)
    <3> SUFFICES ASSUME NEW v \in Workers, At(v, "recorded")
                 PROVE  cycles'[C(v)].version = cycles[C(v)].version /\ cycles'[C(v)].state # "pending"
      BY DEF Calm
    <3>1. WorkerOK(v) /\ ~At(v, "idle") /\ ExecuteTypeOK
      BY <1>0 DEF At
    <3>2. C(v) \in Cycles /\ cycles[C(v)].state # "pending"
      BY <3>1, WorkerShape DEF WorkerOK
    <3>3. QED
      BY <3>2, <2>3
  <2> DEFINE x == [worker[w] EXCEPT !.pc = "fired"]
  <2>7. worker' = [worker EXCEPT ![w] = x]
    BY <2>2 DEF Goto
  <2>8. /\ x \in FireState /\ x.pc = "fired" /\ x.cycle = c /\ x.seq = i /\ x.fence = fence
    BY <2>0, <1>1 DEF FireState, C, I
  <2> HIDE DEF x
  <2>9. worker'[w] = x
    BY <1>0, <2>7 DEF ExecuteTypeOK
  <2>10. C(w)' = c /\ I(w)' = i /\ i \in Rows(c)'
    BY <2>3, <2>8, <2>9 DEF C, I, Evolves, Rows
  <2>11. fence \in 1..leases'[c].fence
    <3>1. leases'[c].fence >= leases[c].fence
      BY <2>3 DEF Evolves
    <3>2. leases[c].fence \in Nat /\ leases'[c].fence \in Nat
      BY <1>0, <2>3, MaxFenceAssumption DEF StoreQInv, StoreInv, TypeOK, Lease
    <3>3. QED
      BY <3>1, <3>2
  <2>12. WorkerOK(w)'
    BY <2>3, <2>8, <2>9, <2>10, <2>11 DEF WorkerOK, At
  <2>13. QED
    BY <1>2, <2>2, <2>3, <2>5, <2>6, <2>7, <2>8, <2>12 DEF bankVars
<1>13. CASE CallBank(w)
  <2>0. At(w, "fired") /\ ~At(w, "idle")
    BY <1>13 DEF CallBank, At
  <2> PICK c \in Cycles : c = C(w)
    BY <2>0, <1>1
  <2> PICK i \in Rows(c) : i = I(w)
    BY <2>0, <1>1
  <2> DEFINE fence == worker[w].fence
             call == [cycle |-> c, seq |-> i, fence |-> fence, stage |-> "sent"]
             x == [worker[w] EXCEPT !.pc = "sent"]
  <2>1. /\ UNCHANGED <<ledger, highest>> /\ UNCHANGED storeVars
        /\ calls' = calls \cup {call} /\ worker' = [worker EXCEPT ![w] = x]
    BY <1>13 DEF CallBank, Debit, Goto
  <2>2. attempts[c][i].fence = fence /\ fence \in 1..leases[c].fence /\ leases[c].fence \in 0..MaxFence
    BY <2>0, <1>0, Shapes DEF WorkerOK, At
  <2>3. fence \in 1..MaxFence
    BY <2>2, MaxFenceAssumption
  <2>4. /\ call \in Call /\ call.cycle = c /\ call.seq = i /\ call.fence = fence
        /\ call.stage = "sent"
    BY <2>0, <2>3, <1>1 DEF Call, Stage
  <2>5. /\ x \in FireState /\ x.pc = "sent" /\ x.cycle = c /\ x.seq = i /\ x.fence = fence
    BY <2>0, <1>1 DEF FireState, C, I
  <2> HIDE DEF call, x
  <2>6. worker'[w] = x
    BY <1>0, <2>1 DEF ExecuteTypeOK
  <2>7. BankTypeOK'
    BY <1>0, <2>1, <2>4 DEF BankTypeOK
  <2>8. CallsMatchRows'
    BY <1>0, <2>1, <2>2, <2>4 DEF CallsMatchRows, Known, Rows, storeVars
  <2>9. LedgerMatchesRows' /\ RecordsAgreeWithBank' /\ RecoveredWasPaid'
    BY <1>0, <2>1 DEF LedgerMatchesRows, RecordsAgreeWithBank, RecoveredWasPaid, Known, Paid,
                      Rows, storeVars
  <2>10. BankQInv'
    BY <2>7, <2>8, <2>9 DEF BankQInv
  <2>11. WorkerOK(w)'
    BY <2>1, <2>2, <2>5, <2>6 DEF WorkerOK, At, C, I, Rows, storeVars
  <2>12. QED
    BY <1>2, <1>5, <2>1, <2>5, <2>10, <2>11
<1>14. CASE RecordAnswer(w)
  <2>0. At(w, "sent") /\ ~At(w, "idle")
    BY <1>14 DEF RecordAnswer, At
  <2> PICK c \in Cycles : c = C(w)
    BY <2>0, <1>1
  <2> PICK i \in Rows(c) : i = I(w)
    BY <2>0, <1>1
  <2> DEFINE x == [worker[w] EXCEPT !.pc = "recorded"]
  <2>1. i \in 1..MaxAttempts /\ Replied(c, i) /\ UNCHANGED bankVars /\ Goto(w, "recorded")
    BY <2>0, <1>1, <1>14 DEF RecordAnswer
  <2>2. Known(c, i)
    BY <2>1, <1>0 DEF Replied, CallsMatchRows
  <2>3. PICK outcome, code : /\ outcome = ledger[c][i][1] /\ code = ledger[c][i][2]
                             /\ RecordAttemptOutcome(c, i, outcome, code)
    BY <1>14 DEF RecordAnswer
  <2>4. ledger[c][i] \in Answer /\ outcome \in {"SUCCESS", "FAILURE"}
    BY <2>1, <2>2, <2>3, <1>0, KnownAnswer
  <2>5. <<outcome, code>> \in Answer /\ ledger[c][i] = <<outcome, code>>
    BY <2>3, <2>4 DEF Answer
  <2>6. /\ StoreQInv' /\ Evolves
        /\ i = Len(attempts[c]) /\ attempts[c][i].outcome = "none" /\ cycles[c].state # "pending"
        /\ attempts'[c][i].outcome = outcome /\ attempts'[c][i].code = code
        /\ \A d \in Cycles : \A j \in Rows(d) : d # c \/ j # i =>
             attempts'[d][j].outcome = attempts[d][j].outcome /\ attempts'[d][j].code = attempts[d][j].code
        /\ \A d \in Cycles : Rows(d)' = Rows(d) /\ cycles'[d].version = cycles[d].version
        /\ \A d \in Cycles : cycles'[d].state =
             IF d = c /\ outcome = "TIMEOUT" THEN "unknown" ELSE cycles[d].state
    BY <1>0, <2>3, <2>5, RecordStep
  <2>7. worker' = [worker EXCEPT ![w] = x]
    BY <2>1 DEF Goto
  <2>8. /\ x \in FireState /\ x.pc = "recorded" /\ x.cycle = c /\ x.seq = i
        /\ x.fence = worker[w].fence
    BY <2>0, <1>1 DEF FireState, C, I
  <2> HIDE DEF x
  <2>9. worker'[w] = x /\ \A v \in Workers \ {w} : worker'[v] = worker[v]
    BY <1>0, <2>7 DEF ExecuteTypeOK
  <2>10. \A v \in Workers : Calm(v) /\ (At(v, "recorded") => C(v) # c)
    <3> SUFFICES ASSUME NEW v \in Workers, At(v, "recorded")
                 PROVE  /\ cycles'[C(v)].version = cycles[C(v)].version
                        /\ cycles'[C(v)].state # "pending" /\ C(v) # c
      BY DEF Calm
    <3>1. WorkerOK(v) /\ ~At(v, "idle") /\ ExecuteTypeOK
      BY <1>0 DEF At
    <3>2. C(v) \in Cycles /\ cycles[C(v)].state # "pending" /\ I(v) \in Rows(C(v))
      BY <3>1, WorkerShape DEF WorkerOK
    <3>3. C(v) # c
      BY <3>2, <2>6, BusyHasNoOpen DEF Open
    <3>4. QED
      BY <3>2, <3>3, <2>6
  <2>11. RecordsAgreeWithBank'
    <3> SUFFICES ASSUME NEW d \in Cycles, NEW j \in Rows(d)
                 PROVE  /\ attempts'[d][j].outcome = "SUCCESS" => Paid(d, j)
                        /\ attempts'[d][j].outcome = "FAILURE" =>
                             ledger[d][j] = <<"FAILURE", attempts'[d][j].code>>
      BY <2>1, <2>6 DEF RecordsAgreeWithBank, Paid, bankVars
    <3>1. CASE d = c /\ j = i
      BY <3>1, <2>3, <2>5, <2>6 DEF Paid
    <3>2. CASE d # c \/ j # i
      BY <3>2, <2>6, <1>0 DEF RecordsAgreeWithBank
    <3>3. QED
      BY <3>1, <3>2
  <2>12. RecoveredWasPaid'
    <3> SUFFICES ASSUME NEW d \in Cycles, cycles'[d].state = "recovered"
                 PROVE  \E j \in Rows(d) : Paid(d, j)
      BY <2>1, <2>6 DEF RecoveredWasPaid, Paid, bankVars
    <3>1. QED
      BY <2>4, <2>6, <1>0 DEF RecoveredWasPaid
  <2>13. BankQInv'
    BY <2>1, <2>6, <2>11, <2>12, CallsStay DEF BankQInv
  <2>14. \A v \in Workers \ {w} : WorkerOK(v)'
    BY <2>1, <2>6, <2>9, <2>10, WorkerStays DEF bankVars
  <2>15. WorkerOK(w)'
    <3>1. C(w)' = c /\ I(w)' = i /\ i \in Rows(c)' /\ worker'[w].fence = worker[w].fence
          /\ worker'[w].pc = "recorded"
      BY <2>6, <2>8, <2>9 DEF C, I
    <3>2. Len(attempts'[c]) = Len(attempts[c]) /\ Kept(attempts[c][i], attempts'[c][i])
          /\ leases'[c].fence >= leases[c].fence
      BY <2>6 DEF Evolves
    <3>3. worker[w].fence \in 1..leases[c].fence /\ attempts[c][i].fence = worker[w].fence
      BY <2>0, <1>0 DEF WorkerOK, At
    <3>4. leases[c].fence \in Nat /\ leases'[c].fence \in Nat
      BY <1>0, <2>6, MaxFenceAssumption DEF StoreQInv, StoreInv, TypeOK, Lease
    <3>5. Fired(attempts[c][i])
      BY <3>3, <3>4 DEF Fired
    <3>6. attempts'[c][i].fence = worker[w].fence /\ worker[w].fence \in 1..leases'[c].fence
      BY <3>2, <3>3, <3>4, <3>5 DEF Kept
    <3>7. cycles'[c].state # "pending" /\ i = Len(attempts'[c])
      BY <2>4, <2>6, <3>2
    <3>8. Known(c, i)' /\ attempts'[c][i].outcome = ledger'[c][i][1]
      BY <2>1, <2>2, <2>3, <2>6 DEF Known, bankVars
    <3>9. QED
      BY <3>1, <3>6, <3>7, <3>8 DEF WorkerOK, At
  <2>16. ExecuteTypeOK'
    BY <1>0, <2>7, <2>8 DEF ExecuteTypeOK
  <2>17. RecordedAlone'
    <3>1. RecordedAlone
      BY DEF QInv, WorkerQInv
    <3>2. \A v \in Workers \ {w} : At(v, "recorded")' => At(v, "recorded") /\ C(v)' = C(v) /\ C(v)' # c
      BY <2>9, <2>10 DEF At, C
    <3>3. C(w)' = c
      BY <2>8, <2>9 DEF C
    <3>4. QED
      BY <3>1, <3>2, <3>3 DEF RecordedAlone
  <2>18. WorkerQInv'
    BY <2>14, <2>15, <2>16, <2>17 DEF WorkerQInv
  <2>19. ReconQInv' /\ RelayQInv'
    BY <2>6, ListsStay DEF QInv
  <2>20. ~RowsFinal(c)
    BY <2>6 DEF RowsFinal, Final
  <2>21. PlanQInv'
    BY <2>6, <2>8, <2>9, <2>20, PlansStay
  <2>22. QED
    BY <2>6, <2>13, <2>18, <2>19, <2>21 DEF QInv
<1>15. CASE RecordTimeout(w)
  <2>0. ~At(w, "idle")
    BY <1>15 DEF RecordTimeout, At
  <2> PICK c \in Cycles : c = C(w)
    BY <2>0, <1>1
  <2> PICK i \in Rows(c) : i = I(w)
    BY <2>0, <1>1
  <2>1. RecordAttemptOutcome(c, i, "TIMEOUT", "none") /\ Finish(w) /\ UNCHANGED bankVars
    BY <1>15 DEF RecordTimeout
  <2>2. /\ StoreQInv' /\ Evolves
        /\ attempts'[c][i].outcome = "TIMEOUT"
        /\ \A d \in Cycles : \A j \in Rows(d) : d # c \/ j # i =>
             attempts'[d][j].outcome = attempts[d][j].outcome
        /\ \A d \in Cycles : Rows(d)' = Rows(d) /\ cycles'[d].version = cycles[d].version
        /\ \A d \in Cycles : cycles'[d].state = IF d = c THEN "unknown" ELSE cycles[d].state
    <3>0. PICK outcome, code : outcome = "TIMEOUT" /\ code = "none"
      OBVIOUS
    <3>1. <<outcome, code>> \in Answer \cup {<<"TIMEOUT", "none">>}
      BY <3>0
    <3>2. RecordAttemptOutcome(c, i, outcome, code)
      BY <2>1, <3>0
    <3>3. /\ StoreQInv' /\ Evolves
          /\ attempts'[c][i].outcome = outcome
          /\ \A d \in Cycles : \A j \in Rows(d) : d # c \/ j # i =>
               attempts'[d][j].outcome = attempts[d][j].outcome
          /\ \A d \in Cycles : Rows(d)' = Rows(d) /\ cycles'[d].version = cycles[d].version
          /\ \A d \in Cycles : cycles'[d].state =
               IF d = c /\ outcome = "TIMEOUT" THEN "unknown" ELSE cycles[d].state
      BY <1>0, <3>1, <3>2, RecordStep
    <3>4. QED
      BY <3>0, <3>3
  <2>3. NothingLearnt
    <3> SUFFICES ASSUME NEW d \in Cycles
                 PROVE  /\ cycles'[d].state = "recovered" => cycles[d].state = "recovered"
                        /\ \A j \in Rows(d) : attempts'[d][j].outcome \in {"SUCCESS", "FAILURE"} =>
                             attempts[d][j].outcome \notin Open
      BY <2>2 DEF NothingLearnt
    <3>1. \A j \in Rows(d) : attempts'[d][j].outcome \in {"SUCCESS", "FAILURE"} =>
                             attempts[d][j].outcome \notin Open
      BY <2>2 DEF Open
    <3>2. QED
      BY <3>1, <2>2
  <2>4. BankQInv'
    BY <2>1, <2>2, <2>3, BankStays
  <2>5. \A v \in Workers : Calm(v)
    <3> SUFFICES ASSUME NEW v \in Workers, At(v, "recorded")
                 PROVE  cycles'[C(v)].version = cycles[C(v)].version /\ cycles'[C(v)].state # "pending"
      BY DEF Calm
    <3>1. WorkerOK(v) /\ ~At(v, "idle") /\ ExecuteTypeOK
      BY <1>0 DEF At
    <3>2. C(v) \in Cycles /\ cycles[C(v)].state # "pending"
      BY <3>1, WorkerShape DEF WorkerOK
    <3>3. QED
      BY <3>2, <2>2
  <2>6. QED
    BY <1>4, <2>1, <2>2, <2>4, <2>5 DEF bankVars
<1>16. CASE AdvanceCycle(w)
  <2>0. At(w, "recorded") /\ ~At(w, "idle")
    BY <1>16 DEF AdvanceCycle, At
  <2> PICK c \in Cycles : c = C(w)
    BY <2>0, <1>1
  <2> PICK i \in Rows(c) : i = I(w)
    BY <2>0, <1>1
  <2>1. PICK class : SetState(c, NextState(ledger[c][i][1], class, worker[w].used))
    BY <1>16 DEF AdvanceCycle
  <2> PICK state : state = NextState(ledger[c][i][1], class, worker[w].used)
    OBVIOUS
  <2>2. Finish(w) /\ UNCHANGED bankVars /\ SetState(c, state)
    BY <1>16, <2>1 DEF AdvanceCycle
  <2>3. /\ attempts[c][i].outcome = ledger[c][i][1] /\ Known(c, i)
        /\ attempts[c][i].outcome \in {"SUCCESS", "FAILURE"}
        /\ \A j \in Rows(c) : j # i => attempts[c][j].outcome \in Final
    BY <2>0, <1>0, BusyHasNoOpen DEF WorkerOK
  <2>4. /\ state \in Terminal \cup {"held", "pending"}
        /\ state = "recovered" => ledger[c][i][1] = "SUCCESS"
        /\ state = "pending" => ledger[c][i][1] # "SUCCESS"
    BY DEF NextState, Terminal
  <2>5. state = "pending" => RowsFinal(c)
    BY <2>3, <2>4 DEF RowsFinal, Final
  <2>6. /\ StoreQInv' /\ Evolves /\ UNCHANGED attempts
        /\ \A d \in Cycles : cycles'[d].version = cycles[d].version
        /\ \A d \in Cycles : cycles'[d].state = IF d = c THEN state ELSE cycles[d].state
    BY <1>0, <2>2, <2>4, <2>5, SetStateStep
  <2>7. RecordsAgreeWithBank'
    BY <1>0, <2>2, <2>6 DEF RecordsAgreeWithBank, Paid, Rows, bankVars
  <2>8. RecoveredWasPaid'
    <3> SUFFICES ASSUME NEW d \in Cycles, cycles'[d].state = "recovered"
                 PROVE  \E j \in Rows(d) : Paid(d, j)
      BY <2>2, <2>6 DEF RecoveredWasPaid, Paid, Rows, bankVars
    <3>1. QED
      BY <2>4, <2>6, <1>0 DEF RecoveredWasPaid, Paid
  <2>9. BankQInv'
    BY <2>2, <2>6, <2>7, <2>8, CallsStay DEF BankQInv
  <2>10. \A v \in Workers \ {w} : Calm(v)
    <3> SUFFICES ASSUME NEW v \in Workers \ {w}, At(v, "recorded")
                 PROVE  cycles'[C(v)].version = cycles[C(v)].version /\ cycles'[C(v)].state # "pending"
      BY DEF Calm
    <3>1. WorkerOK(v) /\ ~At(v, "idle") /\ ExecuteTypeOK
      BY <1>0 DEF At
    <3>2. C(v) \in Cycles /\ cycles[C(v)].state # "pending"
      BY <3>1, WorkerShape DEF WorkerOK
    <3>3. C(v) # c
      BY <2>0 DEF QInv, WorkerQInv, RecordedAlone
    <3>4. QED
      BY <3>2, <3>3, <2>6
  <2>11. QED
    BY <1>4, <2>2, <2>6, <2>9, <2>10 DEF bankVars
<1>17. CASE Conflict(w) \/ Crash(w)
  BY <1>4, <1>5, <1>6, <1>17 DEF Conflict, Crash, bankVars
<1>18. QED
  BY <1>7, <1>8, <1>9, <1>10, <1>11, <1>12, <1>13, <1>14, <1>15, <1>16, <1>17 DEF FireStep

-----------------------------------------------------------------------------
(* The theorems.                                                           *)

(* The invariant holds at first.                                           *)
LEMMA InitHolds == QInit => QInv
<1> SUFFICES ASSUME QInit PROVE QInv
  OBVIOUS
<1>1. /\ Init /\ BankInit /\ ExecuteInit /\ ReconcileInit /\ RelayInit /\ ScheduleInit
  BY DEF QInit
<1>2. StoreInv
  BY <1>1, InitKeepsInv
<1>3. \A c \in Cycles : /\ cycles[c].state = "pending" /\ attempts[c] = <<>>
                        /\ Rows(c) = {} /\ Len(attempts[c]) = 0
  BY <1>1 DEF Init, Rows
<1>4. StoreQInv
  BY <1>2, <1>3, MaxAttemptsAssumption
     DEF StoreQInv, RowsInOrder, PendingIsFinal, RowsFinal, NoticeGate, UnknownIsReconcilable,
         ScheduledIsClaimable, TerminalFailureIsLast
<1>5. \A c \in Cycles : \A i \in 1..MaxAttempts : ~Known(c, i)
  BY <1>1 DEF BankInit, Known
<1>6. BankTypeOK
  BY <1>1, MaxFenceAssumption DEF BankInit, BankTypeOK
<1>7. BankQInv
  BY <1>1, <1>3, <1>5, <1>6
     DEF BankQInv, BankInit, CallsMatchRows, LedgerMatchesRows, RecordsAgreeWithBank, RecoveredWasPaid
<1>8. WorkerQInv
  BY <1>1 DEF WorkerQInv, ExecuteInit, ExecuteTypeOK, WorkerOK, RecordedAlone, At, Idle
<1>9. ReconQInv
  BY <1>1 DEF ReconQInv, ReconcileInit, ReconcileTypeOK, Asking, NotAsking
<1>10. RelayQInv
  BY <1>1 DEF RelayQInv, RelayInit, RelayTypeOK, Relaying, NotRelaying
<1>11. NoTrigger \in Trigger
  BY DEF NoTrigger, Trigger, Early, Stale
<1>12. PlanQInv
  BY <1>1, <1>11 DEF PlanQInv, ScheduleInit, ScheduleTypeOK, PlanOK, NoPlan
<1>13. QED
  BY <1>4, <1>7, <1>8, <1>9, <1>10, <1>12 DEF QInv

(* Every step keeps it.                                                    *)
LEMMA NextKeeps == QInv /\ [QNext]_vars => QInv'
<1> SUFFICES ASSUME QInv, [QNext]_vars PROVE QInv'
  OBVIOUS
<1>1. CASE Firing /\ UNCHANGED <<recon, relay, scheduleVars>>
  BY <1>1, FireKeeps DEF Firing
<1>2. CASE Reconciling /\ UNCHANGED <<worker, relay, scheduleVars>>
  BY <1>2, ReconcileKeeps DEF Reconciling
<1>3. CASE RelayingAny /\ UNCHANGED <<bankVars, worker, recon, scheduleVars>>
  BY <1>3, RelayKeeps DEF RelayingAny
<1>4. CASE Scheduling /\ UNCHANGED <<bankVars, worker, recon, relay>>
  BY <1>4, ScheduleKeeps
<1>5. CASE BankStep /\ UNCHANGED <<storeVars, worker, recon, relay, scheduleVars>>
  BY <1>5, BankStepKeeps
<1>6. CASE Time /\ UNCHANGED <<bankVars, worker, recon, relay, scheduleVars>>
  BY <1>6, TimeKeeps
<1>7. CASE UNCHANGED vars
  <2>1. UNCHANGED <<storeVars, bankVars, worker, recon, relay, scheduleVars>>
    BY <1>7 DEF vars
  <2>2. StoreQInv' /\ Evolves
    BY <2>1, NoStoreStep DEF QInv
  <2>3. BankQInv' /\ \A w \in Workers : Calm(w)
    BY <2>1, <2>2, NothingHappens DEF storeVars
  <2>4. WorkerQInv'
    BY <2>1, <2>2, <2>3, WorkersStay DEF bankVars
  <2>5. ReconQInv' /\ RelayQInv' /\ PlanQInv'
    BY <2>1, <2>2, ListsStay, PlansStay DEF QInv
  <2>6. QED
    BY <2>2, <2>3, <2>4, <2>5 DEF QInv
<1>8. QED
  BY <1>1, <1>2, <1>3, <1>4, <1>5, <1>6, <1>7 DEF QNext

(* The inductive invariant of the running system.                          *)
THEOREM QuiescentInvariant == QSpec => []QInv
<1>1. QED
  BY InitHolds, NextKeeps, PTL DEF QSpec

(* Every table, ledger and process stays within its type.                  *)
THEOREM QuiescentTypeOK == QSpec => []QTypeOK
<1>1. QInv => QTypeOK
  BY DEF QInv, StoreQInv, StoreInv, BankQInv, WorkerQInv, ReconQInv, RelayQInv, PlanQInv, QTypeOK
<1>2. QED
  BY <1>1, QuiescentInvariant, PTL

(* A cycle never has two attempts open at once.                            *)
THEOREM OneAttemptIsOpen == QSpec => []OneOpenAttempt
<1>1. QInv => OneOpenAttempt
  <2> SUFFICES ASSUME QInv, NEW c \in Cycles PROVE Cardinality(OpenRows(c)) <= 1
    BY DEF OneOpenAttempt
  <2>1. StoreQInv
    BY DEF QInv
  <2>2. OpenRows(c) \subseteq {Len(attempts[c])}
    BY <2>1, OpenIsLast DEF OpenRows
  <2>3. /\ IsFiniteSet({Len(attempts[c])}) /\ Cardinality({Len(attempts[c])}) = 1
    BY FS_Singleton
  <2>4. Cardinality(OpenRows(c)) <= Cardinality({Len(attempts[c])})
    BY <2>2, <2>3, FS_Subset
  <2>5. QED
    BY <2>3, <2>4
<1>2. QED
  BY <1>1, QuiescentInvariant, PTL

(* No process leaves a cycle pending while an attempt of it is open.       *)
THEOREM PendingStaysSettled == QSpec => []PendingIsSettled
<1>1. QInv => PendingIsSettled
  BY DEF QInv, StoreQInv, PendingIsFinal, RowsFinal, Final, PendingIsSettled, OpenRows, Open
<1>2. QED
  BY <1>1, QuiescentInvariant, PTL

(* The bank hears only of attempts marked fired, under their fence.        *)
THEOREM WritesAhead == QSpec => []WriteAhead
<1>1. QInv => WriteAhead
  BY DEF QInv, BankQInv, CallsMatchRows, LedgerMatchesRows, WriteAhead
<1>2. QED
  BY <1>1, QuiescentInvariant, PTL

(* An attempt is fired only after a notice delivered in time.              *)
THEOREM NoticeComesFirst == QSpec => []NoticeGate
<1>1. QInv => NoticeGate
  BY DEF QInv, StoreQInv
<1>2. QED
  BY <1>1, QuiescentInvariant, PTL

(* What the store records of an attempt is what the bank did with it.      *)
THEOREM RecordsAgree == QSpec => []RecordsAgreeWithBank
<1>1. QInv => RecordsAgreeWithBank
  BY DEF QInv, BankQInv
<1>2. QED
  BY <1>1, QuiescentInvariant, PTL

(* A recovered cycle is one the bank took the money for.                  *)
THEOREM RecoveredMeansPaid == QSpec => []RecoveredWasPaid
<1>1. QInv => RecoveredWasPaid
  BY DEF QInv, BankQInv
<1>2. QED
  BY <1>1, QuiescentInvariant, PTL

(* Once the store knows of a success, no attempt follows it.               *)
THEOREM NothingFollowsSuccess == QSpec => []SuccessIsLast
<1>1. QInv => SuccessIsLast
  BY DEF QInv, StoreQInv, RowsInOrder, Final, SuccessIsLast
<1>2. QED
  BY <1>1, QuiescentInvariant, PTL

(* A debit followed by another attempt had been abandoned by the store.    *)
THEOREM PaidTwiceOnlyAbandoned == QSpec => []EarlierDebitsWereAbandoned
<1>1. QInv => EarlierDebitsWereAbandoned
  <2> SUFFICES ASSUME QInv, NEW c \in Cycles, NEW i \in Rows(c), Paid(c, i), i < Len(attempts[c])
               PROVE  attempts[c][i].outcome = "ABANDONED_STALE"
    BY DEF EarlierDebitsWereAbandoned
  <2>1. i # Len(attempts[c])
    BY Shapes DEF QInv, StoreQInv, StoreInv
  <2>2. attempts[c][i].outcome \in Final
    BY <2>1 DEF QInv, StoreQInv, RowsInOrder
  <2>3. attempts[c][i].outcome # "FAILURE"
    BY DEF QInv, BankQInv, RecordsAgreeWithBank, Paid
  <2>4. QED
    BY <2>2, <2>3 DEF Final
<1>2. QED
  BY <1>1, QuiescentInvariant, PTL

(* A cycle waiting for an answer is on the reconciler's list.              *)
THEOREM UnknownStaysReconcilable == QSpec => []UnknownIsReconcilable
<1>1. QInv => UnknownIsReconcilable
  BY DEF QInv, StoreQInv
<1>2. QED
  BY <1>1, QuiescentInvariant, PTL

(* A scheduled cycle has an attempt the worker will find when it is due.   *)
THEOREM ScheduledStaysClaimable == QSpec => []ScheduledIsClaimable
<1>1. QInv => ScheduledIsClaimable
  BY DEF QInv, StoreQInv
<1>2. QED
  BY <1>1, QuiescentInvariant, PTL

(* A terminal failure is never retried.                                    *)
THEOREM NothingFollowsTerminal == QSpec => []TerminalFailureIsLast
<1>1. QInv => TerminalFailureIsLast
  BY DEF QInv, StoreQInv
<1>2. QED
  BY <1>1, QuiescentInvariant, PTL

(* A rewrite of a row, whatever it writes, adds none.                      *)
LEMMA RewriteAddsNoRow ==
  ASSUME TypeOK, NEW c \in Cycles, NEW i \in Rows(c), NEW b, Rewrite(c, i, b)
  PROVE  \A d \in Cycles : Len(attempts'[d]) = Len(attempts[d])
<1>1. attempts' = [attempts EXCEPT ![c] = [attempts[c] EXCEPT ![i] = b]]
  BY DEF Rewrite
<1>2. attempts \in [Cycles -> Seq(Attempt)] /\ attempts[c] \in Seq(Attempt) /\ i \in 1..Len(attempts[c])
  BY DEF TypeOK, Rows
<1> DEFINE s == attempts[c]
           t == [s EXCEPT ![i] = b]
<1>3. t \in [1..Len(s) -> Attempt \cup {b}] /\ Len(s) \in Nat
  BY <1>2
<1> HIDE DEF t
<1>4. Len(t) = Len(s)
  BY <1>3
<1>5. QED
  BY <1>1, <1>2, <1>4 DEF t

(* Only a reservation adds one.                                            *)
LEMMA OnlyReserveAppends ==
  ASSUME QInv, QNext, ~\E s \in Schedulers : Reserve(s)
  PROVE  \A d \in Cycles : Len(attempts'[d]) = Len(attempts[d])
<1>0. TypeOK
  BY DEF QInv, StoreQInv, StoreInv
<1>1. CASE Firing
  <2> PICK w \in Workers : FireStep(w) \/ Crash(w)
    BY <1>1 DEF Firing
  <2>1. ~At(w, "idle") => C(w) \in Cycles /\ I(w) \in Rows(C(w))
    BY WorkerShape DEF QInv, WorkerQInv, WorkerOK
  <2>2. CASE \E c \in Cycles : \E i \in DOMAIN attempts[c] : Claim(w, c, i) \/ AbandonStale(w, c, i)
    BY <1>0, <2>2, RewriteAddsNoRow
       DEF Claim, AbandonStale, AbandonAttempt, Refund, storeVars, Rows
  <2>3. CASE NoticeMissing(w)
    BY <1>0, <2>1, <2>3, RewriteAddsNoRow DEF NoticeMissing, At, AbandonAttempt, Refund
  <2>4. CASE MarkFired(w)
    BY <1>0, <2>1, <2>4, RewriteAddsNoRow DEF MarkFired, At, MarkAttemptFired
  <2>5. CASE RecordAnswer(w) \/ RecordTimeout(w)
    BY <1>0, <2>1, <2>5, RewriteAddsNoRow DEF RecordAnswer, RecordTimeout, At, RecordAttemptOutcome
  <2>6. CASE TakeLease(w) \/ AdvanceCycle(w)
    BY <2>6 DEF TakeLease, AcquireLease, AdvanceCycle, SetState
  <2>7. CASE PassGate(w) \/ CallBank(w) \/ Conflict(w) \/ Crash(w)
    BY <2>7 DEF PassGate, CallBank, Conflict, Crash, storeVars
  <2>8. QED
    BY <2>2, <2>3, <2>4, <2>5, <2>6, <2>7 DEF FireStep
<1>2. CASE Reconciling
  <2> PICK r \in Reconcilers : ReconcileStep(r) \/ CrashAsking(r)
    BY <1>2 DEF Reconciling
  <2>1. ~Asking(r, "idle") => recon[r].cycle \in Cycles /\ recon[r].seq \in Rows(recon[r].cycle)
    BY DEF QInv, ReconQInv, ReconcileTypeOK, NotAsking, AskState, Asking
  <2>2. CASE Settle(r)
    BY <1>0, <2>1, <2>2, RewriteAddsNoRow
       DEF Settle, Asking, ResolveDebited, ResolveNotDebited, Refund
  <2>3. CASE TakeLeaseToAsk(r) \/ Hold(r)
    BY <2>3 DEF TakeLeaseToAsk, AcquireLease, Hold, SetState
  <2>4. CASE \/ \E c \in Cycles : \E i \in DOMAIN attempts[c] : Pick(r, c, i)
             \/ StillUnknown(r) \/ NothingToSettle(r) \/ CrashAsking(r)
    BY <2>4 DEF Pick, StillUnknown, NothingToSettle, CrashAsking, storeVars
  <2>5. QED
    BY <2>2, <2>3, <2>4 DEF ReconcileStep
<1>3. CASE RelayingAny
  <2> PICK l \in Relays : RelayStep(l)
    BY <1>3 DEF RelayingAny
  <2>1. ~Relaying(l, "idle") => relay[l].cycle \in Cycles /\ relay[l].seq \in Rows(relay[l].cycle)
    BY DEF QInv, RelayQInv, RelayTypeOK, NotRelaying, RelayState, Relaying
  <2>2. CASE TooLate(l)
    BY <1>0, <2>1, <2>2, RewriteAddsNoRow DEF TooLate, Relaying, AbandonAttempt, Refund
  <2>3. CASE Delivered(l)
    BY <1>0, <2>1, <2>3, RewriteAddsNoRow DEF Delivered, Relaying, MarkNoticeDelivered
  <2>4. CASE \/ \E c \in Cycles : \E i \in DOMAIN attempts[c] : PickNotice(l, c, i)
             \/ SendNotice(l) \/ LeaveNotice(l)
    BY <2>4 DEF PickNotice, SendNotice, LeaveNotice, storeVars
  <2>5. QED
    BY <2>2, <2>3, <2>4 DEF RelayStep
<1>4. CASE Scheduling
  <2>1. UNCHANGED storeVars
    <3>1. CASE TriggerStep
      BY <3>1 DEF TriggerStep, Respond, TriggerExpires, AnswerAges
    <3>2. CASE \E s \in Schedulers : ScheduleStep(s)
      BY <3>2 DEF ScheduleStep, DropPlan, PlanFirst, PlanRetry, AskCustomer, PlanConfirmed,
                  PlanUnconfirmed, MakePlan
    <3>3. QED
      BY <1>4, <3>1, <3>2 DEF Scheduling
  <2>2. QED
    BY <2>1 DEF storeVars
<1>5. CASE BankStep /\ UNCHANGED storeVars
  BY <1>5 DEF storeVars
<1>6. CASE Time
  BY <1>0, <1>6, RewriteAddsNoRow DEF Time, LeaseExpires, Elapse, Rows
<1>7. QED
  BY <1>1, <1>2, <1>3, <1>4, <1>5, <1>6 DEF QNext

(* After INSUFFICIENT_FUNDS no attempt is reserved before the customer has *)
(* answered or the question has expired.                                   *)
THEOREM CustomerIsAskedFirst == QSpec => AskedFirst
<1> DEFINE Asked == \A c \in Cycles :
                      Len(attempts'[c]) > Len(attempts[c]) /\ ShortOfFunds(c)
                        => TriggerOf(c).reply \in {"yes", "no", "expired"}
<1>1. QInv /\ [QNext]_vars => Asked \/ UNCHANGED vars
  <2> SUFFICES ASSUME QInv, QNext, NEW c \in Cycles,
                      Len(attempts'[c]) > Len(attempts[c]), ShortOfFunds(c)
               PROVE  TriggerOf(c).reply \in {"yes", "no", "expired"}
    OBVIOUS
  <2>0. TypeOK /\ ScheduleTypeOK /\ \A s \in Schedulers : PlanOK(s)
    BY DEF QInv, StoreQInv, StoreInv, PlanQInv
  <2>1. Len(attempts'[c]) # Len(attempts[c])
    BY <2>0, Shapes
  <2>2. PICK s \in Schedulers : Reserve(s)
    BY <2>1, OnlyReserveAppends
  <2>3. sched[s].cycle \in Cycles /\ sched[s].pc = "planned"
    BY <2>0, <2>2 DEF Reserve, ScheduleTypeOK, NoPlan, Plan
  <2> PICK d \in Cycles : d = sched[s].cycle
    BY <2>3
  <2>4. /\ cycles[d].version = sched[s].version
        /\ \A e \in Cycles \ {d} : attempts'[e] = attempts[e]
    BY <2>0, <2>2 DEF Reserve, ReserveAttempt, Reservable, TypeOK
  <2>5. c = d
    BY <2>1, <2>4
  <2>6. QED
    BY <2>0, <2>3, <2>4, <2>5 DEF PlanOK
<1>2. QED
  BY <1>1, QuiescentInvariant, PTL DEF QSpec, AskedFirst

-----------------------------------------------------------------------------
(* The running system does nothing to the tables but what the store offers *)
(* its clients, so what is proved of the store under any clients holds of  *)
(* it.                                                                     *)

LEMMA RowTransactionIsStep ==
  ASSUME NEW c \in Cycles, NEW i \in Rows(c), RowTransaction(c, i)
  PROVE  Next
BY DEF Next, Transaction, Rows

LEMMA FiringIsStoreStep ==
  ASSUME QInv, NEW w \in Workers, FireStep(w) \/ Crash(w)
  PROVE  [Next]_storeVars
<1>1. /\ ~At(w, "idle") => C(w) \in Cycles /\ I(w) \in Rows(C(w)) /\ worker[w].used \in 0..MaxAttempts
      /\ At(w, "gated") => worker[w].fence \in 1..leases[C(w)].fence
  BY WorkerShape DEF QInv, WorkerQInv, WorkerOK, At
<1>2. CASE \E c \in Cycles : \E i \in DOMAIN attempts[c] : Claim(w, c, i) \/ AbandonStale(w, c, i)
  BY <1>2, RowTransactionIsStep DEF Claim, AbandonStale, RowTransaction, Rows
<1>3. CASE NoticeMissing(w)
  BY <1>1, <1>3, RowTransactionIsStep DEF NoticeMissing, At, RowTransaction
<1>4. CASE MarkFired(w)
  <2>1. RowTransaction(C(w), I(w))
    BY <1>1, <1>4 DEF MarkFired, RowTransaction
  <2> QED BY <1>1, <1>4, <2>1, RowTransactionIsStep DEF MarkFired, At
<1>5. CASE RecordAnswer(w)
  <2>1. At(w, "sent") /\ ~At(w, "idle")
    BY <1>5 DEF RecordAnswer, At
  <2> PICK a : a = ledger[C(w)][I(w)]
    OBVIOUS
  <2>2. a \in Answer
    <3>1. Known(C(w), I(w)) /\ I(w) \in 1..MaxAttempts
      BY <1>5, <2>1, WorkerShape DEF RecordAnswer, Replied, QInv, WorkerQInv, BankQInv, CallsMatchRows
    <3> QED BY <1>1, <2>1, <3>1, KnownAnswer DEF QInv, BankQInv
  <2>3. RecordAttemptOutcome(C(w), I(w), a[1], a[2])
    BY <1>5 DEF RecordAnswer
  <2>4. RowTransaction(C(w), I(w))
    BY <2>2, <2>3 DEF RowTransaction
  <2> QED BY <1>1, <2>1, <2>4, RowTransactionIsStep
<1>6. CASE RecordTimeout(w)
  <2>1. At(w, "sent") /\ ~At(w, "idle")
    BY <1>6 DEF RecordTimeout, At
  <2> PICK a : a = <<"TIMEOUT", "none">>
    OBVIOUS
  <2>2. RecordAttemptOutcome(C(w), I(w), a[1], a[2])
    BY <1>6 DEF RecordTimeout
  <2>3. RowTransaction(C(w), I(w))
    BY <2>2 DEF RowTransaction
  <2> QED BY <1>1, <2>1, <2>3, RowTransactionIsStep
<1>7. CASE TakeLease(w)
  BY <1>1, <1>7 DEF TakeLease, At, Next, Transaction
<1>8. CASE AdvanceCycle(w)
  <2>1. C(w) \in Cycles
    BY <1>1, <1>8 DEF AdvanceCycle, At
  <2>2. \E state \in Terminal \cup {"held", "pending"} : SetState(C(w), state)
    BY <1>8 DEF AdvanceCycle, NextState, Terminal
  <2> QED BY <2>1, <2>2 DEF Next, Transaction
<1>9. CASE PassGate(w) \/ CallBank(w) \/ Conflict(w) \/ Crash(w)
  BY <1>9 DEF PassGate, CallBank, Conflict, Crash
<1> QED BY <1>2, <1>3, <1>4, <1>5, <1>6, <1>7, <1>8, <1>9 DEF FireStep

LEMMA ReconcilingIsStoreStep ==
  ASSUME QInv, NEW r \in Reconcilers, ReconcileStep(r) \/ CrashAsking(r)
  PROVE  [Next]_storeVars
<1>1. ~Asking(r, "idle") => recon[r].cycle \in Cycles /\ recon[r].seq \in Rows(recon[r].cycle)
  BY DEF QInv, ReconQInv, ReconcileTypeOK, NotAsking, AskState, Asking
<1>2. CASE Settle(r)
  BY <1>1, <1>2, RowTransactionIsStep DEF Settle, Asking, RowTransaction
<1>3. CASE TakeLeaseToAsk(r)
  BY <1>1, <1>3 DEF TakeLeaseToAsk, Asking, Next, Transaction
<1>4. CASE Hold(r)
  <2>1. recon[r].cycle \in Cycles /\ SetState(recon[r].cycle, "held")
    BY <1>1, <1>4 DEF Hold, Asking
  <2> QED BY <2>1 DEF Next, Transaction
<1>5. CASE \/ \E c \in Cycles : \E i \in DOMAIN attempts[c] : Pick(r, c, i)
           \/ StillUnknown(r) \/ NothingToSettle(r) \/ CrashAsking(r)
  BY <1>5 DEF Pick, StillUnknown, NothingToSettle, CrashAsking
<1> QED BY <1>2, <1>3, <1>4, <1>5 DEF ReconcileStep

LEMMA RelayingIsStoreStep ==
  ASSUME QInv, NEW l \in Relays, RelayStep(l)
  PROVE  [Next]_storeVars
<1>1. ~Relaying(l, "idle") => relay[l].cycle \in Cycles /\ relay[l].seq \in Rows(relay[l].cycle)
  BY DEF QInv, RelayQInv, RelayTypeOK, NotRelaying, RelayState, Relaying
<1>2. CASE TooLate(l) \/ Delivered(l)
  BY <1>1, <1>2, RowTransactionIsStep DEF TooLate, Delivered, Relaying, RowTransaction
<1>3. CASE \/ \E c \in Cycles : \E i \in DOMAIN attempts[c] : PickNotice(l, c, i)
           \/ SendNotice(l) \/ LeaveNotice(l)
  BY <1>3 DEF PickNotice, SendNotice, LeaveNotice
<1> QED BY <1>2, <1>3 DEF RelayStep

LEMMA SchedulingIsStoreStep ==
  ASSUME QInv, Scheduling
  PROVE  [Next]_storeVars
<1>1. CASE TriggerStep
  BY <1>1 DEF TriggerStep, Respond, TriggerExpires, AnswerAges
<1>2. ASSUME NEW s \in Schedulers, Reserve(s)
      PROVE  Next
  <2>1. sched[s].cycle \in Cycles /\ sched[s].age \in Early..Stale
    BY <1>2 DEF Reserve, QInv, PlanQInv, ScheduleTypeOK, NoPlan, Plan
  <2>2. PICK age \in sched[s].age..Stale : ReserveAttempt(sched[s].cycle, sched[s].version, age)
    BY <1>2 DEF Reserve
  <2>3. age \in Early..Stale /\ sched[s].version = cycles[sched[s].cycle].version
    BY <2>1, <2>2 DEF ReserveAttempt, Reservable, Early, Stale
  <2> QED BY <2>1, <2>2, <2>3 DEF Next, Transaction
<1>3. ASSUME NEW s \in Schedulers, ScheduleStep(s), ~Reserve(s)
      PROVE  UNCHANGED storeVars
  BY <1>3 DEF ScheduleStep, DropPlan, PlanFirst, PlanRetry, AskCustomer, PlanConfirmed,
              PlanUnconfirmed, MakePlan
<1> QED BY <1>1, <1>2, <1>3 DEF Scheduling

(* Every step of every process is a transaction of Store, with arguments   *)
(* its clients may pass, or the passing of time, or leaves the tables as   *)
(* they were: Store promises nothing that this system could not rely on,   *)
(* and asks nothing of its clients that this system does not do.           *)
THEOREM QuiescentUsesStore == QSpec => Spec
<1>1. QInit => Init
  BY DEF QInit
<1>2. QInv /\ [QNext]_vars => [Next]_storeVars
  <2> SUFFICES ASSUME QInv, [QNext]_vars PROVE [Next]_storeVars
    OBVIOUS
  <2>1. CASE Firing
    BY <2>1, FiringIsStoreStep DEF Firing
  <2>2. CASE Reconciling
    BY <2>2, ReconcilingIsStoreStep DEF Reconciling
  <2>3. CASE RelayingAny
    BY <2>3, RelayingIsStoreStep DEF RelayingAny
  <2>4. CASE Scheduling
    BY <2>4, SchedulingIsStoreStep
  <2>5. CASE Time
    BY <2>5 DEF Next
  <2>6. CASE UNCHANGED storeVars
    BY <2>6
  <2> QED BY <2>1, <2>2, <2>3, <2>4, <2>5, <2>6 DEF QNext, vars
<1> QED BY <1>1, <1>2, QuiescentInvariant, PTL DEF QSpec, Spec

(* So the running system keeps what Budget promises: never more than       *)
(* MaxAttempts slots of a cycle are charged, and each is settled once.     *)
THEOREM QuiescentImplementsBudget == QSpec => BudgetSpec
BY QuiescentUsesStore, StoreImplementsBudget, PTL

(* Nor does any process, however late it acts, take back what the store    *)
(* once wrote for good.                                                    *)
COROLLARY QuiescentHistoryIsKept == QSpec => [][HistoryKept]_storeVars
BY QuiescentUsesStore, StoreHistoryIsKept, PTL

(* Only the commit of a request says anything, and of an attempt of which  *)
(* nothing was said.                                                       *)
LEMMA OnlyCommitsSpeak ==
  ASSUME [QNext]_vars, ledger' # ledger
  PROVE  \E call \in calls : Commit(call) /\ ~Known(call.cycle, call.seq)
<1>1. Firing => ledger' = ledger
  BY DEF Firing, FireStep, Claim, AbandonStale, TakeLease, PassGate, NoticeMissing, MarkFired,
         CallBank, Debit, RecordAnswer, RecordTimeout, AdvanceCycle, Conflict, Crash, bankVars
<1>2. Reconciling => ledger' = ledger
  BY DEF Reconciling, ReconcileStep, Pick, TakeLeaseToAsk, Settle, StillUnknown, Hold,
         NothingToSettle, CrashAsking, bankVars
<1>3. BankStep
  BY <1>1, <1>2 DEF QNext, vars, bankVars
<1> QED BY <1>3 DEF BankStep, Admit, Reject, Drop, Commit

(* And the bank keeps what Answers promises whoever asks: the answer made  *)
(* known under an idempotency key is the only one, through every debit     *)
(* that is sent twice, dropped, delayed or overtaken.                      *)
THEOREM BankImplementsAnswers == QSpec => AnswersSpec
<1> DEFINE Keys == Cycles \X (1..MaxAttempts)
<1>1. QInit => A!Init
  <2> SUFFICES ASSUME QInit PROVE A!Init
    OBVIOUS
  <2>1. ledger = [c \in Cycles |-> [i \in 1..MaxAttempts |-> NoAnswer]]
    BY DEF QInit, BankInit
  <2> QED BY <2>1 DEF A!Init, Said
<1>2. QInv /\ [QNext]_vars => [A!Next]_Said
  <2> SUFFICES ASSUME QInv, [QNext]_vars, ledger' # ledger PROVE A!Next
    BY DEF Said
  <2>1. PICK call \in calls : Commit(call) /\ ~Known(call.cycle, call.seq)
    BY OnlyCommitsSpeak
  <2>2. call.cycle \in Cycles /\ call.seq \in 1..MaxAttempts
    BY DEF QInv, BankQInv, BankTypeOK, Call
  <2>3. PICK a \in Answer : ledger' = [ledger EXCEPT ![call.cycle][call.seq] = a]
    BY <2>1 DEF Commit
  <2> PICK k : k = <<call.cycle, call.seq>>
    OBVIOUS
  <2>4. k \in Keys /\ k[1] = call.cycle /\ k[2] = call.seq
    BY <2>2
  <2>5. ledger \in [Cycles -> [1..MaxAttempts -> Answer \cup {NoAnswer}]]
    BY DEF QInv, BankQInv, BankTypeOK
  <2>6. Said[k] = NoAnswer
    BY <2>1, <2>4 DEF Said, Known
  <2>7. Said' = [Said EXCEPT ![k] = a]
    <3>1. ASSUME NEW x \in Keys
          PROVE  ledger'[x[1]][x[2]] = IF x = k THEN a ELSE ledger[x[1]][x[2]]
      <4>1. x = <<x[1], x[2]>> /\ x[1] \in Cycles /\ x[2] \in 1..MaxAttempts
        OBVIOUS
      <4>2. x = k <=> x[1] = call.cycle /\ x[2] = call.seq
        BY <2>4, <4>1
      <4> QED BY <2>2, <2>3, <2>5, <4>1, <4>2
    <3>2. Said' = [x \in Keys |-> ledger'[x[1]][x[2]]] /\ Said = [x \in Keys |-> ledger[x[1]][x[2]]]
      BY DEF Said
    <3> QED BY <2>4, <3>1, <3>2
  <2>8. A!Say(k, a)
    BY <2>6, <2>7 DEF A!Say
  <2> QED BY <2>4, <2>8 DEF A!Next
<1> QED BY <1>1, <1>2, QuiescentInvariant, PTL DEF QSpec, AnswersSpec, A!Spec

-----------------------------------------------------------------------------
(* The verifier.                                                           *)

(* The four queries that read no clock return nothing in any state the     *)
(* running system can be in.                                               *)
THEOREM VerifierPasses == QSpec => []VerifyPasses
<1>1. QInv => VerifyPasses
  <2> SUFFICES ASSUME QInv PROVE VerifyPasses
    OBVIOUS
  <2>1. ASSUME NEW c \in Cycles
        PROVE  Cardinality({i \in Rows(c) : attempts[c][i].outcome = "SUCCESS"}) <= 1
    <3> DEFINE Successes == {i \in Rows(c) : attempts[c][i].outcome = "SUCCESS"}
    <3>1. Successes \subseteq {Len(attempts[c])}
      BY DEF QInv, StoreQInv, RowsInOrder, Final
    <3>2. IsFiniteSet({Len(attempts[c])}) /\ Cardinality({Len(attempts[c])}) = 1
      BY FS_Singleton
    <3>3. Cardinality(Successes) <= Cardinality({Len(attempts[c])})
      BY <3>1, <3>2, FS_Subset
    <3>4. QED
      BY <3>2, <3>3
  <2>2. DoubleDebits = {}
    <3> SUFFICES ASSUME NEW c \in DoubleDebits PROVE FALSE
      OBVIOUS
    <3>1. c \in Cycles /\ Cardinality({i \in Rows(c) : attempts[c][i].outcome = "SUCCESS"}) > 1
      BY DEF DoubleDebits
    <3> DEFINE n == Cardinality({i \in Rows(c) : attempts[c][i].outcome = "SUCCESS"})
    <3>2. n <= 1 /\ n > 1
      BY <2>1, <3>1
    <3>3. IsFiniteSet({i \in Rows(c) : attempts[c][i].outcome = "SUCCESS"})
      <4>1. {i \in Rows(c) : attempts[c][i].outcome = "SUCCESS"} \subseteq {Len(attempts[c])}
        BY <3>1 DEF QInv, StoreQInv, RowsInOrder, Final
      <4>2. QED
        BY <4>1, FS_Singleton, FS_Subset
    <3>4. n \in Nat
      BY <3>3, FS_CardinalityType
    <3> QED
      BY <3>2, <3>4
  <2>3. BudgetExceeded = {}
    <3> SUFFICES ASSUME NEW c \in Cycles PROVE ~(cycles[c].used > MaxAttempts)
      BY DEF BudgetExceeded
    <3>1. cycles[c].used \in 0..MaxAttempts
      BY DEF QInv, StoreQInv, StoreInv, TypeOK, Cycle
    <3> QED
      BY <3>1, MaxAttemptsAssumption
  <2>4. BudgetMismatch = {}
    BY DEF QInv, StoreQInv, StoreInv, BudgetAgrees, BudgetMismatch
  <2>5. MissingNotice = {}
    BY DEF QInv, StoreQInv, NoticeGate, MissingNotice
  <2>6. QED
    BY <2>2, <2>3, <2>4, <2>5 DEF VerifyPasses, Violations
<1>2. QED
  BY <1>1, QuiescentInvariant, PTL

-----------------------------------------------------------------------------
(* Why the claims of Claims do not hold.  Each is refuted by a run; here   *)
(* the steps that refute it are shown to be the only ones: no interleaving *)
(* of anything else, crashes and lost messages included, breaks it.        *)

(* What a step may do to a row.                                            *)

(* A row written, whatever is written, is one row.                         *)
LEMMA RewrittenRow ==
  ASSUME TypeOK, NEW d \in Cycles, NEW j \in Rows(d), NEW b, Rewrite(d, j, b),
         NEW c \in Cycles, NEW i \in Rows(c)
  PROVE  attempts'[c][i] = IF c = d /\ i = j THEN b ELSE attempts[c][i]
<1>1. attempts' = [attempts EXCEPT ![d] = [attempts[d] EXCEPT ![j] = b]]
  BY DEF Rewrite
<1>2. attempts \in [Cycles -> Seq(Attempt)] /\ attempts[d] \in Seq(Attempt)
  BY DEF TypeOK
<1>3. attempts[d] \in [1..Len(attempts[d]) -> Attempt] /\ j \in 1..Len(attempts[d])
  BY <1>2 DEF Rows
<1>4. c = d => i \in 1..Len(attempts[d])
  BY <1>2 DEF Rows
<1> QED BY <1>1, <1>2, <1>3, <1>4

(* The columns a transaction rewrites, of the row it names.                *)
LEMMA AbandonedRow ==
  ASSUME TypeOK, NEW d \in Cycles, NEW j \in Rows(d), Refund(d, j),
         NEW c \in Cycles, NEW i \in Rows(c)
  PROVE  /\ attempts'[c][i].fence = attempts[c][i].fence
         /\ ~(c = d /\ i = j) => attempts'[c][i] = attempts[c][i]
<1>1. attempts[d][j] \in Attempt
  BY Shapes
<1> QED BY <1>1, RewrittenRow DEF Refund, Attempt

(* How the outcome of an attempt may change in the running system.         *)
LEMMA HowOutcomesChange ==
  ASSUME QInv, [QNext]_vars, NEW c \in Cycles, NEW i \in Rows(c),
         attempts'[c][i].outcome \notin {attempts[c][i].outcome, "TIMEOUT"}
  PROVE  \/ \E w \in Workers : RecordAnswer(w) /\ C(w) = c /\ I(w) = i
         \/ AbandonAttempt(c, i)
         \/ \E r \in Reconcilers : Settle(r) /\ recon[r].cycle = c /\ recon[r].seq = i
<1>0. TypeOK /\ attempts' # attempts
  BY DEF QInv, StoreQInv, StoreInv
<1>1. ASSUME NEW d \in Cycles, NEW j \in Rows(d), AbandonAttempt(d, j)
      PROVE  AbandonAttempt(c, i)
  BY <1>0, <1>1, AbandonedRow DEF AbandonAttempt
<1>2. ASSUME NEW d \in Cycles, NEW j \in Rows(d), NEW b, Rewrite(d, j, b),
             b.outcome = attempts[d][j].outcome
      PROVE  FALSE
  BY <1>0, <1>2, RewrittenRow
<1>3. CASE Firing
  <2> PICK w \in Workers : FireStep(w) \/ Crash(w)
    BY <1>3 DEF Firing
  <2>1. ~At(w, "idle") => C(w) \in Cycles /\ I(w) \in Rows(C(w))
    BY WorkerShape DEF QInv, WorkerQInv, WorkerOK
  <2>2. CASE \E d \in Cycles : \E j \in DOMAIN attempts[d] : Claim(w, d, j) \/ AbandonStale(w, d, j)
    BY <1>0, <1>1, <2>2 DEF Claim, AbandonStale, storeVars, Rows
  <2>3. CASE NoticeMissing(w)
    BY <1>1, <2>1, <2>3 DEF NoticeMissing, At
  <2>4. CASE MarkFired(w)
    <3>1. C(w) \in Cycles /\ I(w) \in Rows(C(w))
      BY <2>1, <2>4 DEF MarkFired, At
    <3> DEFINE b == [attempts[C(w)][I(w)] EXCEPT !.fence = worker[w].fence]
    <3>2. Rewrite(C(w), I(w), b)
      BY <2>4 DEF MarkFired, MarkAttemptFired
    <3>3. b.outcome = attempts[C(w)][I(w)].outcome
      BY <1>0, <3>1, Shapes DEF Attempt
    <3> HIDE DEF b
    <3> QED BY <1>2, <3>1, <3>2, <3>3
  <2>5. CASE RecordAnswer(w)
    <3>1. C(w) \in Cycles /\ I(w) \in Rows(C(w))
      BY <2>1, <2>5 DEF RecordAnswer, At
    <3>2. C(w) = c /\ I(w) = i
      BY <1>0, <2>5, <3>1, RewrittenRow DEF RecordAnswer, RecordAttemptOutcome
    <3> QED BY <2>5, <3>2
  <2>6. CASE RecordTimeout(w)
    <3>1. C(w) \in Cycles /\ I(w) \in Rows(C(w))
      BY <2>1, <2>6 DEF RecordTimeout, At
    <3> DEFINE b == [attempts[C(w)][I(w)] EXCEPT !.outcome = "TIMEOUT", !.code = "none"]
    <3>2. Rewrite(C(w), I(w), b)
      BY <2>6 DEF RecordTimeout, RecordAttemptOutcome
    <3>3. b.outcome = "TIMEOUT"
      BY <1>0, <3>1, Shapes DEF Attempt
    <3> HIDE DEF b
    <3> QED BY <1>0, <3>1, <3>2, <3>3, RewrittenRow
  <2>7. CASE TakeLease(w) \/ AdvanceCycle(w)
    BY <1>0, <2>7 DEF TakeLease, AcquireLease, AdvanceCycle, SetState
  <2>8. CASE PassGate(w) \/ CallBank(w) \/ Conflict(w) \/ Crash(w)
    BY <1>0, <2>8 DEF PassGate, CallBank, Conflict, Crash, storeVars
  <2> QED BY <2>2, <2>3, <2>4, <2>5, <2>6, <2>7, <2>8 DEF FireStep
<1>4. CASE Reconciling
  <2> PICK r \in Reconcilers : ReconcileStep(r) \/ CrashAsking(r)
    BY <1>4 DEF Reconciling
  <2>1. ~Asking(r, "idle") => recon[r].cycle \in Cycles /\ recon[r].seq \in Rows(recon[r].cycle)
    BY DEF QInv, ReconQInv, ReconcileTypeOK, NotAsking, AskState, Asking
  <2>2. CASE Settle(r)
    <3>1. recon[r].cycle \in Cycles /\ recon[r].seq \in Rows(recon[r].cycle)
      BY <2>1, <2>2 DEF Settle, Asking
    <3>2. \E b : Rewrite(recon[r].cycle, recon[r].seq, b)
      BY <2>2 DEF Settle, ResolveDebited, ResolveNotDebited, Refund
    <3>3. recon[r].cycle = c /\ recon[r].seq = i
      BY <1>0, <3>1, <3>2, RewrittenRow
    <3> QED BY <2>2, <3>3
  <2>3. CASE TakeLeaseToAsk(r) \/ Hold(r)
    BY <1>0, <2>3 DEF TakeLeaseToAsk, AcquireLease, Hold, SetState
  <2>4. CASE \/ \E d \in Cycles : \E j \in DOMAIN attempts[d] : Pick(r, d, j)
             \/ StillUnknown(r) \/ NothingToSettle(r) \/ CrashAsking(r)
    BY <1>0, <2>4 DEF Pick, StillUnknown, NothingToSettle, CrashAsking, storeVars
  <2> QED BY <2>2, <2>3, <2>4 DEF ReconcileStep
<1>5. CASE RelayingAny
  <2> PICK l \in Relays : RelayStep(l)
    BY <1>5 DEF RelayingAny
  <2>1. ~Relaying(l, "idle") => relay[l].cycle \in Cycles /\ relay[l].seq \in Rows(relay[l].cycle)
    BY DEF QInv, RelayQInv, RelayTypeOK, NotRelaying, RelayState, Relaying
  <2>2. CASE TooLate(l)
    BY <1>1, <2>1, <2>2 DEF TooLate, Relaying
  <2>3. CASE Delivered(l)
    <3> DEFINE d == relay[l].cycle
               j == relay[l].seq
               b == [attempts[d][j] EXCEPT !.notice =
                       IF attempts[d][j].age = Early THEN "onTime" ELSE "late"]
    <3>1. d \in Cycles /\ j \in Rows(d)
      BY <2>1, <2>3 DEF Delivered, Relaying
    <3>2. Rewrite(d, j, b)
      BY <2>3 DEF Delivered, MarkNoticeDelivered
    <3>3. b.outcome = attempts[d][j].outcome
      BY <1>0, <3>1, Shapes DEF Attempt
    <3> HIDE DEF b
    <3> QED BY <1>2, <3>1, <3>2, <3>3
  <2>4. CASE \/ \E d \in Cycles : \E j \in DOMAIN attempts[d] : PickNotice(l, d, j)
             \/ SendNotice(l) \/ LeaveNotice(l)
    BY <1>0, <2>4 DEF PickNotice, SendNotice, LeaveNotice, storeVars
  <2> QED BY <2>2, <2>3, <2>4 DEF RelayStep
<1>6. CASE Scheduling
  <2>1. PICK s \in Schedulers : Reserve(s)
    <3>1. ASSUME ~\E s \in Schedulers : Reserve(s) PROVE UNCHANGED storeVars
      <4>1. CASE TriggerStep
        BY <4>1 DEF TriggerStep, Respond, TriggerExpires, AnswerAges
      <4>2. CASE \E s \in Schedulers : ScheduleStep(s)
        BY <3>1, <4>2 DEF ScheduleStep, DropPlan, PlanFirst, PlanRetry, AskCustomer,
                          PlanConfirmed, PlanUnconfirmed, MakePlan
      <4> QED BY <1>6, <4>1, <4>2 DEF Scheduling
    <3> QED BY <1>0, <3>1 DEF storeVars
  <2>2. sched[s].cycle \in Cycles
    BY <2>1 DEF Reserve, QInv, PlanQInv, ScheduleTypeOK, NoPlan, Plan
  <2>3. PICK age : ReserveAttempt(sched[s].cycle, sched[s].version, age)
    BY <2>1 DEF Reserve
  <2>4. attempts'[c][i] = attempts[c][i]
    BY <1>0, <2>2, <2>3, OldRowsStay DEF Rows
  <2> QED BY <2>4
<1>7. CASE BankStep /\ UNCHANGED storeVars
  BY <1>0, <1>7 DEF storeVars
<1>8. CASE Time
  <2> PICK d \in Cycles : LeaseExpires(d) \/ \E j \in DOMAIN attempts[d] : Elapse(d, j)
    BY <1>8 DEF Time
  <2>1. CASE LeaseExpires(d)
    BY <1>0, <2>1 DEF LeaseExpires
  <2>2. CASE \E j \in DOMAIN attempts[d] : Elapse(d, j)
    <3> PICK j \in Rows(d) : Elapse(d, j)
      BY <2>2 DEF Rows
    <3> DEFINE b == [attempts[d][j] EXCEPT !.age = @ + 1]
    <3>1. Rewrite(d, j, b)
      BY DEF Elapse
    <3>2. b.outcome = attempts[d][j].outcome
      BY <1>0, Shapes DEF Attempt
    <3> HIDE DEF b
    <3> QED BY <1>2, <3>1, <3>2
  <2> QED BY <2>1, <2>2
<1> QED BY <1>0, <1>3, <1>4, <1>5, <1>6, <1>7, <1>8 DEF QNext, vars, storeVars

(* An attempt begins without an outcome.                                   *)
LEMMA NewRowIsOpen ==
  ASSUME QInv, [QNext]_vars, NEW c \in Cycles, NEW i \in Rows(c)', i \notin Rows(c)
  PROVE  attempts'[c][i].outcome = "none"
<1>0. TypeOK /\ attempts[c] \in Seq(Attempt) /\ Rows(c) = 1..Len(attempts[c])
  BY Shapes DEF QInv, StoreQInv, StoreInv
<1>1. PICK s \in Schedulers : Reserve(s)
  <2>1. attempts' # attempts
    BY DEF Rows
  <2>2. QNext
    BY <2>1 DEF vars, storeVars
  <2> SUFFICES ASSUME ~\E s \in Schedulers : Reserve(s) PROVE FALSE
    OBVIOUS
  <2>3. Len(attempts'[c]) = Len(attempts[c])
    BY <2>2, OnlyReserveAppends
  <2>4. TypeOK'
    BY NextKeeps DEF QInv, StoreQInv, StoreInv
  <2>5. Rows(c)' = 1..Len(attempts'[c])
    BY <2>4 DEF TypeOK, Rows
  <2> QED BY <1>0, <2>3, <2>5
<1> DEFINE d == sched[s].cycle
<1>2. d \in Cycles
  BY <1>1 DEF Reserve, QInv, PlanQInv, ScheduleTypeOK, NoPlan, Plan
<1>3. PICK row : row.outcome = "none" /\ attempts' = [attempts EXCEPT ![d] = Append(attempts[d], row)]
  <2>1. PICK age : ReserveAttempt(d, sched[s].version, age)
    BY <1>1 DEF Reserve
  <2> QED BY <2>1 DEF ReserveAttempt
<1> HIDE DEF d
<1>4. attempts \in [Cycles -> Seq(Attempt)]
  BY <1>0 DEF TypeOK
<1>5. c = d
  BY <1>2, <1>3, <1>4 DEF Rows
<1>6. attempts'[c] = Append(attempts[c], row)
  BY <1>2, <1>3, <1>4, <1>5
<1>7. i = Len(attempts[c]) + 1
  BY <1>0, <1>6 DEF Rows
<1> QED BY <1>0, <1>3, <1>6, <1>7

(* So the answer known of an attempt stays.                               *)
LEMMA KnownStays ==
  ASSUME QInv, [QNext]_vars, NEW c \in Cycles, NEW i \in 1..MaxAttempts, Known(c, i)
  PROVE  ledger'[c][i] = ledger[c][i]
<1> SUFFICES ASSUME ledger' # ledger
             PROVE  ledger'[c][i] = ledger[c][i]
  OBVIOUS
<1>1. PICK call \in calls : Commit(call) /\ ~Known(call.cycle, call.seq)
  BY OnlyCommitsSpeak
<1>2. PICK a : ledger' = [ledger EXCEPT ![call.cycle][call.seq] = a]
  BY <1>1 DEF Commit
<1>3. ~(c = call.cycle /\ i = call.seq)
  BY <1>1
<1>4. ledger \in [Cycles -> [1..MaxAttempts -> Answer \cup {NoAnswer}]]
  BY DEF QInv, BankQInv, BankTypeOK
<1>5. call.cycle \in Cycles /\ call.seq \in 1..MaxAttempts
  BY DEF QInv, BankQInv, BankTypeOK, Call
<1> QED BY <1>2, <1>3, <1>4, <1>5

(* What the recording of an answer and the settling by a reconciler write. *)
LEMMA RecordedRow ==
  ASSUME QInv, NEW w \in Workers, RecordAnswer(w)
  PROVE  /\ C(w) \in Cycles /\ I(w) \in Rows(C(w)) /\ Known(C(w), I(w))
         /\ attempts'[C(w)][I(w)].outcome \in {"SUCCESS", "FAILURE"}
<1>1. ~At(w, "idle") /\ TypeOK /\ BankTypeOK
  BY DEF RecordAnswer, At, QInv, StoreQInv, StoreInv, BankQInv
<1>2. C(w) \in Cycles /\ I(w) \in Rows(C(w)) /\ I(w) \in 1..MaxAttempts
  BY <1>1, WorkerShape DEF QInv, WorkerQInv, WorkerOK
<1>3. Known(C(w), I(w))
  BY DEF RecordAnswer, Replied, QInv, BankQInv, CallsMatchRows
<1>4. ledger[C(w)][I(w)][1] \in {"SUCCESS", "FAILURE"}
  BY <1>1, <1>2, <1>3, KnownAnswer
<1> PICK o, code : o = ledger[C(w)][I(w)][1] /\ code = ledger[C(w)][I(w)][2]
  OBVIOUS
<1> DEFINE b == [attempts[C(w)][I(w)] EXCEPT !.outcome = o, !.code = code]
<1>5. Rewrite(C(w), I(w), b)
  BY DEF RecordAnswer, RecordAttemptOutcome
<1>6. b.outcome = o
  BY <1>1, <1>2, Shapes DEF Attempt
<1> HIDE DEF b
<1>7. attempts'[C(w)][I(w)] = b
  BY <1>1, <1>2, <1>5, RewrittenRow
<1> QED BY <1>2, <1>3, <1>4, <1>6, <1>7

LEMMA SettledRow ==
  ASSUME QInv, NEW r \in Reconcilers, Settle(r), NEW c, NEW i,
         c = recon[r].cycle, i = recon[r].seq
  PROVE  /\ c \in Cycles /\ i \in Rows(c) /\ attempts[c][i].outcome \in Open
         /\ cycles'[c].state \in {"recovered", "pending"}
         /\ attempts'[c][i].outcome = "ABANDONED_STALE" => ledger[c][i][1] = "FAILURE"
<1>0. TypeOK
  BY DEF QInv, StoreQInv, StoreInv
<1>1. c \in Cycles /\ i \in Rows(c)
  BY DEF Settle, Asking, QInv, ReconQInv, ReconcileTypeOK, NotAsking, AskState
<1>2. attempts[c][i].outcome \in Open
  BY DEF Settle, ResolveDebited, ResolveNotDebited, Resolvable
<1>3. cycles \in [Cycles -> [state: State, used: 0..MaxAttempts, version: Nat]]
  BY <1>0 DEF TypeOK, Cycle
<1>4. CASE ResolveDebited(c, i)
  <2> DEFINE b == [attempts[c][i] EXCEPT !.outcome = "SUCCESS"]
  <2>1. Rewrite(c, i, b)
    BY <1>4 DEF ResolveDebited
  <2>2. b.outcome = "SUCCESS"
    BY <1>0, <1>1, Shapes DEF Attempt
  <2> HIDE DEF b
  <2>3. attempts'[c][i].outcome = "SUCCESS"
    BY <1>0, <1>1, <2>1, <2>2, RewrittenRow
  <2>4. cycles'[c].state = "recovered"
    BY <1>1, <1>3, <1>4 DEF ResolveDebited
  <2> QED BY <1>1, <1>2, <2>3, <2>4
<1>5. CASE ledger[c][i][1] = "FAILURE" /\ ResolveNotDebited(c, i)
  <2>1. cycles'[c].state = "pending"
    BY <1>1, <1>3, <1>5 DEF ResolveNotDebited, Refund
  <2> QED BY <1>1, <1>2, <1>5, <2>1
<1> QED BY <1>4, <1>5 DEF Settle, Status

-----------------------------------------------------------------------------
(* Debits and hard declines of abandoned attempts.                         *)

(* What is known of an attempt that was abandoned after it was fired, if   *)
(* none is fired that has an outcome.                                      *)
AbandonedIsUnpaid ==
  \A c \in Cycles : \A i \in Rows(c) :
    attempts[c][i].outcome = "ABANDONED_STALE" /\ Fired(attempts[c][i])
      => ledger[c][i][1] = "FAILURE"

AbandonedIsSoft ==
  \A c \in Cycles : \A i \in Rows(c) :
    attempts[c][i].outcome = "ABANDONED_STALE" /\ Fired(attempts[c][i])
      => ~HardDeclined(c, i)

(* It was so before, or it is abandoned now by the reconciler, which the   *)
(* bank has told of a failure.                                             *)
LEMMA HowFiredIsAbandoned ==
  ASSUME QInv, [QNext]_vars, FiresOpenRow, NEW c \in Cycles, NEW i \in Rows(c)',
         attempts'[c][i].outcome = "ABANDONED_STALE", Fired(attempts'[c][i])
  PROVE  /\ i \in Rows(c)
         /\ \/ attempts[c][i].outcome = "ABANDONED_STALE" /\ Fired(attempts[c][i])
            \/ attempts[c][i].outcome \in Open /\ ledger[c][i][1] = "FAILURE"
<1>0. TypeOK
  BY DEF QInv, StoreQInv, StoreInv
<1>1. i \in Rows(c)
  BY NewRowIsOpen
<1>2. CASE attempts[c][i].outcome = "ABANDONED_STALE"
  <2>1. Fired(attempts[c][i])
    BY <1>1, <1>2 DEF FiresOpenRow
  <2> QED BY <1>1, <1>2, <2>1
<1>3. CASE attempts[c][i].outcome # "ABANDONED_STALE"
  <2>1. CASE \E w \in Workers : RecordAnswer(w) /\ C(w) = c /\ I(w) = i
    <3>1. attempts'[c][i].outcome \in {"SUCCESS", "FAILURE"}
      BY <2>1, RecordedRow
    <3> QED BY <3>1
  <2>2. CASE AbandonAttempt(c, i)
    <3>1. ~Fired(attempts[c][i]) /\ attempts'[c][i].fence = attempts[c][i].fence
      BY <1>0, <1>1, <2>2, AbandonedRow DEF AbandonAttempt, Abandonable
    <3> QED BY <3>1 DEF Fired
  <2>3. CASE \E r \in Reconcilers : Settle(r) /\ recon[r].cycle = c /\ recon[r].seq = i
    <3>1. attempts[c][i].outcome \in Open /\ ledger[c][i][1] = "FAILURE"
      BY <2>3, SettledRow
    <3> QED BY <1>1, <3>1
  <2>4. attempts'[c][i].outcome \notin {attempts[c][i].outcome, "TIMEOUT"}
    BY <1>3
  <2> QED BY <1>1, <2>1, <2>2, <2>3, <2>4, HowOutcomesChange
<1> QED BY <1>2, <1>3

(* An attempt of which the bank reports a failure is known to it.          *)
LEMMA FailureStays ==
  ASSUME QInv, [QNext]_vars, NEW c \in Cycles, NEW i \in Rows(c), ledger[c][i][1] = "FAILURE"
  PROVE  ledger'[c][i] = ledger[c][i]
<1>1. TypeOK /\ RowsInOrder
  BY DEF QInv, StoreQInv, StoreInv
<1>2. i \in 1..MaxAttempts
  BY <1>1, Shapes, MaxAttemptsAssumption DEF RowsInOrder
<1>3. Known(c, i)
  BY DEF Known, NoAnswer
<1> QED BY <1>2, <1>3, KnownStays

LEMMA UnpaidStays ==
  ASSUME QInv, [QNext]_vars, FiresOpenRow, AbandonedIsUnpaid
  PROVE  AbandonedIsUnpaid'
<1> SUFFICES ASSUME NEW c \in Cycles, NEW i \in Rows(c)',
                    attempts'[c][i].outcome = "ABANDONED_STALE", Fired(attempts'[c][i])
             PROVE  ledger'[c][i][1] = "FAILURE"
  BY DEF AbandonedIsUnpaid
<1>1. i \in Rows(c) /\ ledger[c][i][1] = "FAILURE"
  BY HowFiredIsAbandoned DEF AbandonedIsUnpaid
<1> QED BY <1>1, FailureStays

LEMMA SoftStays ==
  ASSUME QInv, [QNext]_vars, FiresOpenRow, RefundsNoHardDecline,
         AbandonedIsUnpaid, AbandonedIsSoft
  PROVE  AbandonedIsSoft'
<1> SUFFICES ASSUME NEW c \in Cycles, NEW i \in Rows(c)',
                    attempts'[c][i].outcome = "ABANDONED_STALE", Fired(attempts'[c][i])
             PROVE  ~HardDeclined(c, i)'
  BY DEF AbandonedIsSoft
<1>1. i \in Rows(c) /\ ledger[c][i][1] = "FAILURE" /\ ~HardDeclined(c, i)
  BY HowFiredIsAbandoned DEF AbandonedIsUnpaid, AbandonedIsSoft, RefundsNoHardDecline
<1> QED BY <1>1, FailureStays DEF HardDeclined

LEMMA NothingAbandonedAtFirst == QInit => AbandonedIsUnpaid /\ AbandonedIsSoft
BY DEF QInit, Init, AbandonedIsUnpaid, AbandonedIsSoft, Rows

(* README: the system never debits twice.  It does, but only when a worker *)
(* that stalled past the notice gate marks fired an attempt that was given *)
(* up while it slept; in every behaviour without such a step no cycle is   *)
(* ever debited twice, whatever is lost, late, sent again or dies.         *)
THEOREM DebitsTwiceOnlyByFiringSettled == QSpec /\ FiresOpenRows => []NeverDebitsTwice
<1>1. QInv /\ [QNext]_vars /\ [FiresOpenRow]_vars /\ AbandonedIsUnpaid => AbandonedIsUnpaid'
  <2>1. CASE UNCHANGED vars
    BY <2>1 DEF vars, storeVars, bankVars, AbandonedIsUnpaid, Rows
  <2> QED BY <2>1, UnpaidStays
<1>2. QInv /\ AbandonedIsUnpaid => NeverDebitsTwice
  <2> SUFFICES ASSUME QInv, AbandonedIsUnpaid, NEW c \in Cycles
               PROVE  Cardinality({i \in Rows(c) : Paid(c, i)}) <= 1
    BY DEF NeverDebitsTwice
  <2> DEFINE Debits == {i \in Rows(c) : Paid(c, i)}
  <2>1. ASSUME NEW i \in Rows(c), Paid(c, i)
        PROVE  i = Len(attempts[c])
    <3> SUFFICES ASSUME i # Len(attempts[c]) PROVE FALSE
      OBVIOUS
    <3>1. attempts[c][i].outcome \in Final
      BY DEF QInv, StoreQInv, RowsInOrder
    <3>2. attempts[c][i].outcome # "FAILURE"
      BY <2>1 DEF QInv, BankQInv, RecordsAgreeWithBank, Paid
    <3>3. i \in 1..MaxAttempts
      BY Shapes, MaxAttemptsAssumption DEF QInv, StoreQInv, StoreInv, RowsInOrder
    <3>4. Known(c, i)
      BY <2>1 DEF Paid, Known, NoAnswer
    <3>5. Fired(attempts[c][i])
      BY <3>3, <3>4 DEF QInv, BankQInv, LedgerMatchesRows
    <3> QED BY <2>1, <3>1, <3>2, <3>5 DEF Final, AbandonedIsUnpaid, Paid
  <2>2. Debits \subseteq {Len(attempts[c])}
    BY <2>1
  <2>3. IsFiniteSet({Len(attempts[c])}) /\ Cardinality({Len(attempts[c])}) = 1
    BY FS_Singleton
  <2> QED BY <2>2, <2>3, FS_Subset
<1> QED BY <1>1, <1>2, NothingAbandonedAtFirst, QuiescentInvariant, PTL DEF QSpec, FiresOpenRows

(* FAILURES A3: a hard decline is not retried.  It is, in two ways: by the *)
(* same late firing, which lets the bank decline an attempt the scheduler  *)
(* has moved past, and by the reconciler, which gives the budget of any    *)
(* failure back.  Without those two steps no hard decline, recorded or     *)
(* not, is ever followed by another attempt.                               *)
THEOREM HardDeclinesRetriedOnlyByThese ==
  QSpec /\ FiresOpenRows /\ HardDeclinesStayCharged => []HardDeclineIsFinal
<1>1. /\ QInv /\ [QNext]_vars /\ [FiresOpenRow]_vars /\ [RefundsNoHardDecline]_vars
      /\ AbandonedIsUnpaid /\ AbandonedIsSoft
      => AbandonedIsUnpaid' /\ AbandonedIsSoft'
  <2>1. CASE UNCHANGED vars
    BY <2>1 DEF vars, storeVars, bankVars, AbandonedIsUnpaid, AbandonedIsSoft, HardDeclined, Rows
  <2> QED BY <2>1, UnpaidStays, SoftStays
<1>2. QInv /\ AbandonedIsSoft => HardDeclineIsFinal
  <2> SUFFICES ASSUME QInv, AbandonedIsSoft, NEW c \in Cycles, NEW i \in Rows(c),
                      HardDeclined(c, i), i # Len(attempts[c])
               PROVE  FALSE
    BY DEF HardDeclineIsFinal, HardDeclined
  <2>1. attempts[c][i].outcome \in Final
    BY DEF QInv, StoreQInv, RowsInOrder
  <2>2. i \in 1..MaxAttempts
    BY Shapes, MaxAttemptsAssumption DEF QInv, StoreQInv, StoreInv, RowsInOrder
  <2>3. Known(c, i)
    BY DEF HardDeclined, Known, NoAnswer
  <2>4. CASE attempts[c][i].outcome = "ABANDONED_STALE"
    <3>1. Fired(attempts[c][i])
      BY <2>2, <2>3 DEF QInv, BankQInv, LedgerMatchesRows
    <3> QED BY <2>4, <3>1 DEF AbandonedIsSoft
  <2>5. CASE attempts[c][i].outcome = "FAILURE"
    <3>1. ledger[c][i] = <<"FAILURE", attempts[c][i].code>> /\ ledger[c][i] \in Answer
      BY <2>2, <2>3, <2>5, KnownAnswer DEF QInv, BankQInv, RecordsAgreeWithBank
    <3>2. attempts[c][i].code # "none" /\ Classify(attempts[c][i].code) = "terminal"
      BY <3>1, CodesAssumption DEF Answer, HardDeclined
    <3> QED BY <3>2 DEF QInv, StoreQInv, TerminalFailureIsLast
  <2> QED BY <2>1, <2>4, <2>5 DEF Final
<1> QED BY <1>1, <1>2, NothingAbandonedAtFirst, QuiescentInvariant, PTL
        DEF QSpec, FiresOpenRows, HardDeclinesStayCharged

-----------------------------------------------------------------------------
(* Cycles in flight.                                                       *)

(* A cycle in flight has an attempt waiting for its answer, or a worker    *)
(* that has just recorded one.                                             *)
InFlightIsHeld ==
  \A c \in Cycles : cycles[c].state = "in_flight" =>
    \/ \E w \in Workers : At(w, "recorded") /\ C(w) = c
    \/ \E i \in Rows(c) : Fired(attempts[c][i]) /\ attempts[c][i].outcome \in Open

(* Only the marking of an attempt sends a cycle into flight.               *)
LEMMA HowCyclesGoInFlight ==
  ASSUME QInv, [QNext]_vars, NEW c \in Cycles,
         cycles'[c].state = "in_flight", cycles[c].state # "in_flight"
  PROVE  \E w \in Workers : MarkFired(w) /\ C(w) = c
<1>0. /\ cycles \in [Cycles -> [state: State, used: 0..MaxAttempts, version: Nat]]
      /\ cycles' # cycles
  BY DEF QInv, StoreQInv, StoreInv, TypeOK, Cycle
<1>1. ASSUME NEW d, NEW state, state # "in_flight",
             \/ cycles' = [cycles EXCEPT ![d].state = state]
             \/ \E used, version :
                  cycles' = [cycles EXCEPT ![d] = [state |-> state, used |-> used, version |-> version]]
      PROVE  FALSE
  BY <1>0, <1>1
<1>2. ASSUME NEW d, NEW j, AbandonAttempt(d, j) \/ ResolveNotDebited(d, j)
      PROVE  FALSE
  BY <1>1, <1>2 DEF AbandonAttempt, ResolveNotDebited, Refund
<1>3. CASE Firing
  <2> PICK w \in Workers : FireStep(w) \/ Crash(w)
    BY <1>3 DEF Firing
  <2>1. CASE \E d \in Cycles : \E j \in DOMAIN attempts[d] : Claim(w, d, j) \/ AbandonStale(w, d, j)
    BY <1>0, <1>2, <2>1 DEF Claim, AbandonStale, storeVars
  <2>2. CASE NoticeMissing(w)
    BY <1>2, <2>2 DEF NoticeMissing
  <2>3. CASE MarkFired(w)
    <3>1. cycles' = [cycles EXCEPT ![C(w)].state = "in_flight"]
      BY <2>3 DEF MarkFired, MarkAttemptFired
    <3>2. C(w) = c
      BY <1>0, <3>1
    <3> QED BY <2>3, <3>2
  <2>4. CASE RecordAnswer(w) \/ RecordTimeout(w)
    <3>1. cycles' = [cycles EXCEPT ![C(w)].state = "unknown"] \/ cycles' = cycles
      BY <2>4 DEF RecordAnswer, RecordTimeout, RecordAttemptOutcome
    <3> QED BY <1>0, <1>1, <3>1
  <2>5. CASE AdvanceCycle(w)
    <3>1. PICK class : SetState(C(w), NextState(ledger[C(w)][I(w)][1], class, worker[w].used))
      BY <2>5 DEF AdvanceCycle
    <3>2. NextState(ledger[C(w)][I(w)][1], class, worker[w].used) # "in_flight"
      BY DEF NextState
    <3> QED BY <1>1, <3>1, <3>2 DEF SetState
  <2>6. CASE TakeLease(w) \/ PassGate(w) \/ CallBank(w) \/ Conflict(w) \/ Crash(w)
    BY <1>0, <2>6 DEF TakeLease, AcquireLease, PassGate, CallBank, Conflict, Crash, storeVars
  <2> QED BY <2>1, <2>2, <2>3, <2>4, <2>5, <2>6 DEF FireStep
<1>4. CASE Reconciling
  <2> PICK r \in Reconcilers : ReconcileStep(r) \/ CrashAsking(r)
    BY <1>4 DEF Reconciling
  <2>1. CASE Settle(r)
    <3>1. CASE ResolveDebited(recon[r].cycle, recon[r].seq)
      BY <1>1, <3>1 DEF ResolveDebited
    <3> QED BY <1>2, <2>1, <3>1 DEF Settle
  <2>2. CASE Hold(r)
    BY <1>1, <2>2 DEF Hold, SetState
  <2>3. CASE \/ \E d \in Cycles : \E j \in DOMAIN attempts[d] : Pick(r, d, j)
             \/ TakeLeaseToAsk(r) \/ StillUnknown(r) \/ NothingToSettle(r) \/ CrashAsking(r)
    BY <1>0, <2>3 DEF Pick, TakeLeaseToAsk, AcquireLease, StillUnknown, NothingToSettle,
                      CrashAsking, storeVars
  <2> QED BY <2>1, <2>2, <2>3 DEF ReconcileStep
<1>5. CASE RelayingAny
  <2> PICK l \in Relays : RelayStep(l)
    BY <1>5 DEF RelayingAny
  <2>1. CASE TooLate(l)
    BY <1>2, <2>1 DEF TooLate
  <2>2. CASE \/ \E d \in Cycles : \E j \in DOMAIN attempts[d] : PickNotice(l, d, j)
             \/ SendNotice(l) \/ Delivered(l) \/ LeaveNotice(l)
    BY <1>0, <2>2 DEF PickNotice, SendNotice, Delivered, MarkNoticeDelivered, LeaveNotice, storeVars
  <2> QED BY <2>1, <2>2 DEF RelayStep
<1>6. CASE Scheduling
  <2>1. CASE TriggerStep
    BY <1>0, <2>1 DEF TriggerStep, Respond, TriggerExpires, AnswerAges, storeVars
  <2>2. ASSUME NEW s \in Schedulers, Reserve(s) PROVE FALSE
    <3>1. PICK age : ReserveAttempt(sched[s].cycle, sched[s].version, age)
      BY <2>2 DEF Reserve
    <3>2. \E used, version :
            cycles' = [cycles EXCEPT ![sched[s].cycle] =
                         [state |-> "scheduled", used |-> used, version |-> version]]
      BY <3>1 DEF ReserveAttempt
    <3> QED BY <1>1, <3>2
  <2>3. ASSUME NEW s \in Schedulers, ScheduleStep(s), ~Reserve(s) PROVE FALSE
    BY <1>0, <2>3 DEF ScheduleStep, DropPlan, PlanFirst, PlanRetry, AskCustomer,
                      PlanConfirmed, PlanUnconfirmed, MakePlan, storeVars
  <2> QED BY <1>6, <2>1, <2>2, <2>3 DEF Scheduling
<1>7. CASE BankStep /\ UNCHANGED storeVars
  BY <1>0, <1>7 DEF storeVars
<1>8. CASE Time
  BY <1>0, <1>8 DEF Time, LeaseExpires, Elapse
<1> QED BY <1>0, <1>3, <1>4, <1>5, <1>6, <1>7, <1>8 DEF QNext, vars, storeVars

(* A worker leaves the recorded outcome only by moving on or by stopping.  *)
LEMMA HowRecordersLeave ==
  ASSUME QInv, [QNext]_vars, NEW w \in Workers, At(w, "recorded")
  PROVE  (At(w, "recorded")' /\ C(w)' = C(w)) \/ At(w, "idle")'
<1>0. worker \in [Workers -> {Idle} \cup FireState]
  BY DEF QInv, WorkerQInv, ExecuteTypeOK
<1> SUFFICES ASSUME worker'[w] # worker[w] PROVE At(w, "idle")'
  BY DEF At, C
<1>1. PICK v \in Workers : FireStep(v) \/ Crash(v)
  BY DEF QNext, vars, Firing
<1>2. v = w
  BY <1>0, <1>1 DEF FireStep, Crash, Claim, AbandonStale, TakeLease, PassGate, NoticeMissing,
                    MarkFired, CallBank, RecordAnswer, RecordTimeout, AdvanceCycle, Conflict,
                    Goto, Finish
<1>3. AdvanceCycle(w) \/ Conflict(w) \/ Crash(w)
  BY <1>1, <1>2 DEF FireStep, Claim, AbandonStale, TakeLease, PassGate, NoticeMissing,
                    MarkFired, CallBank, RecordAnswer, RecordTimeout, At
<1> QED BY <1>0, <1>3 DEF AdvanceCycle, Conflict, Crash, Finish, Idle, At

LEMMA AdvancingLands ==
  ASSUME QInv, NEW w \in Workers, At(w, "recorded"), AdvanceCycle(w)
  PROVE  cycles'[C(w)].state # "in_flight"
<1>1. C(w) \in Cycles /\ cycles \in [Cycles -> [state: State, used: 0..MaxAttempts, version: Nat]]
  BY WorkerShape DEF QInv, WorkerQInv, StoreQInv, StoreInv, TypeOK, Cycle, At
<1>2. PICK class : SetState(C(w), NextState(ledger[C(w)][I(w)][1], class, worker[w].used))
  BY DEF AdvanceCycle
<1>3. NextState(ledger[C(w)][I(w)][1], class, worker[w].used) # "in_flight"
  BY DEF NextState
<1> QED BY <1>1, <1>2, <1>3 DEF SetState

LEMMA FlightStaysHeld ==
  ASSUME QInv, QInv', [QNext]_vars, HistoryKept \/ UNCHANGED storeVars,
         FiresOpenRow, MovesOnFromRecord, InFlightIsHeld
  PROVE  InFlightIsHeld'
<1> SUFFICES ASSUME NEW c \in Cycles, cycles'[c].state = "in_flight"
             PROVE  \/ \E w \in Workers : At(w, "recorded")' /\ C(w)' = c
                    \/ \E i \in Rows(c)' :
                         Fired(attempts'[c][i]) /\ attempts'[c][i].outcome \in Open
  BY DEF InFlightIsHeld
<1>0. TypeOK
  BY DEF QInv, StoreQInv, StoreInv
<1>1. CASE cycles[c].state # "in_flight"
  <2>1. PICK w \in Workers : MarkFired(w) /\ C(w) = c
    BY <1>1, HowCyclesGoInFlight
  <2> DEFINE i == I(w)
             b == [attempts[c][i] EXCEPT !.fence = worker[w].fence]
  <2>2. ~At(w, "idle") /\ ~At(w, "fresh")
    BY <2>1 DEF MarkFired, At
  <2>3. i \in Rows(c) /\ worker[w].fence \in 1..leases[c].fence
    BY <2>1, <2>2 DEF QInv, WorkerQInv, WorkerOK
  <2>4. Rewrite(c, i, b) /\ ~Fired(attempts[c][i])
    BY <2>1 DEF MarkFired, MarkAttemptFired, Fireable
  <2>5. b.fence = worker[w].fence /\ b.outcome = attempts[c][i].outcome
    BY <1>0, <2>3, Shapes DEF Attempt
  <2>6. leases[c].fence \in Nat
    BY <1>0, MaxFenceAssumption DEF TypeOK, Lease
  <2> HIDE DEF b, i
  <2>7. attempts'[c][i] = b
    BY <1>0, <2>3, <2>4, RewrittenRow
  <2>8. Fired(attempts'[c][i])
    BY <2>3, <2>5, <2>6, <2>7 DEF Fired
  <2>9. attempts'[c][i].outcome = "none"
    BY <2>3, <2>4, <2>5, <2>7, <2>8 DEF FiresOpenRow
  <2>10. i \in Rows(c)'
    <3>1. HistoryKept \/ DOMAIN attempts'[c] = DOMAIN attempts[c]
      BY DEF storeVars
    <3> QED BY <2>3, <3>1 DEF HistoryKept, Rows
  <2> QED BY <2>8, <2>9, <2>10 DEF Open
<1>2. ASSUME NEW w \in Workers, At(w, "recorded"), C(w) = c
      PROVE  At(w, "recorded")' /\ C(w)' = c
  <2>1. CASE At(w, "idle")'
    <3>1. AdvanceCycle(w)
      BY <1>2, <2>1 DEF MovesOnFromRecord
    <3> QED BY <1>2, <3>1, AdvancingLands
  <2> QED BY <1>2, <2>1, HowRecordersLeave
<1>3. ASSUME NEW i \in Rows(c), Fired(attempts[c][i]), attempts[c][i].outcome \in Open,
             ~(i \in Rows(c)' /\ Fired(attempts'[c][i]) /\ attempts'[c][i].outcome \in Open)
      PROVE  \E w \in Workers : At(w, "recorded")' /\ C(w)' = c
  <2>1. i \in Rows(c)' /\ Fired(attempts'[c][i])
    <3>1. CASE HistoryKept
      BY <1>3, <3>1 DEF HistoryKept, Kept, Rows, Fired
    <3>2. CASE UNCHANGED storeVars
      BY <1>3, <3>2 DEF storeVars, Rows
    <3> QED BY <3>1, <3>2
  <2>2. attempts'[c][i].outcome \notin {attempts[c][i].outcome, "TIMEOUT"}
    BY <1>3, <2>1 DEF Open
  <2>3. CASE \E w \in Workers : RecordAnswer(w) /\ C(w) = c /\ I(w) = i
    <3>1. PICK w \in Workers : RecordAnswer(w) /\ C(w) = c
      BY <2>3
    <3>2. worker \in [Workers -> {Idle} \cup FireState] /\ worker[w] \in FireState
      BY <3>1, WorkerShape DEF QInv, WorkerQInv, ExecuteTypeOK, RecordAnswer, At
    <3>3. At(w, "recorded")' /\ C(w)' = c
      BY <3>1, <3>2 DEF RecordAnswer, Goto, At, C, FireState
    <3> QED BY <3>3
  <2>4. CASE AbandonAttempt(c, i)
    BY <1>3, <2>4 DEF AbandonAttempt, Abandonable
  <2>5. CASE \E r \in Reconcilers : Settle(r) /\ recon[r].cycle = c /\ recon[r].seq = i
    <3>1. cycles'[c].state \in {"recovered", "pending"}
      BY <2>5, SettledRow
    <3> QED BY <3>1
  <2> QED BY <2>2, <2>3, <2>4, <2>5, HowOutcomesChange
<1>4. CASE cycles[c].state = "in_flight"
  BY <1>2, <1>3, <1>4 DEF InFlightIsHeld
<1> QED BY <1>1, <1>4

(* ARCHITECTURE 8: another takes over a dead worker's cycle.  It does,     *)
(* unless an attempt with an outcome was fired, or the worker died between *)
(* recording an answer and moving the cycle on: any other cycle in flight  *)
(* has a worker busy with it, or an attempt on the reconciler's list.      *)
THEOREM FlightsLostOnlyByThese ==
  QSpec /\ FiresOpenRows /\ RecordedCyclesMoveOn => []InFlightIsTracked
<1>1. QInit => InFlightIsHeld
  BY DEF QInit, Init, InFlightIsHeld
<1>2. /\ QInv /\ QInv' /\ [QNext]_vars /\ [HistoryKept]_storeVars
      /\ [FiresOpenRow]_vars /\ [MovesOnFromRecord]_vars /\ InFlightIsHeld
      => InFlightIsHeld'
  <2>1. CASE UNCHANGED vars
    BY <2>1 DEF vars, storeVars, InFlightIsHeld, Rows, At, C
  <2> QED BY <2>1, FlightStaysHeld
<1>3. QInv /\ InFlightIsHeld => InFlightIsTracked
  <2> SUFFICES ASSUME QInv, InFlightIsHeld, NEW c \in Cycles, cycles[c].state = "in_flight"
               PROVE  \/ \E w \in Workers : ~At(w, "idle") /\ C(w) = c
                      \/ \E i \in Rows(c) : NeedsReconciliation(c, i)
    BY DEF InFlightIsTracked
  <2>1. CASE \E w \in Workers : At(w, "recorded") /\ C(w) = c
    BY <2>1 DEF At
  <2>2. CASE \E i \in Rows(c) : Fired(attempts[c][i]) /\ attempts[c][i].outcome \in Open
    BY <2>2 DEF NeedsReconciliation, Open
  <2> QED BY <2>1, <2>2 DEF InFlightIsHeld
<1> QED BY <1>1, <1>2, <1>3, QuiescentInvariant, QuiescentHistoryIsKept, PTL
        DEF QSpec, FiresOpenRows, RecordedCyclesMoveOn
=============================================================================
