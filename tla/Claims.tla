------------------------------- MODULE Claims -------------------------------
(***************************************************************************)
(* What README.md, docs/ARCHITECTURE.md and docs/FAILURES.md say of the    *)
(* running system and its code does not keep, each refuted by a run of its *)
(* own; and what the code would have to keep for them to hold.             *)
(***************************************************************************)
EXTENDS Quiescent

(* README: the system never debits twice, even across process crashes.     *)
NeverDebitsTwice ==
  \A c \in Cycles : Cardinality({i \in Rows(c) : Paid(c, i)}) <= 1

(* ARCHITECTURE 8: when a worker dies the lease expires and another takes  *)
(* over; so a cycle in flight is one some worker is busy with, or one the  *)
(* reconciler can find.                                                    *)
InFlightIsTracked ==
  \A c \in Cycles : cycles[c].state = "in_flight" =>
    \/ \E w \in Workers : ~At(w, "idle") /\ C(w) = c
    \/ \E i \in Rows(c) : NeedsReconciliation(c, i)

(* FAILURES A3: a hard decline is not retried, not even once.              *)
HardDeclineIsFinal ==
  \A c \in Cycles : \A i \in Rows(c) :
    ledger[c][i][1] = "FAILURE" /\ Classify(ledger[c][i][2]) = "terminal" => i = Len(attempts[c])

-----------------------------------------------------------------------------
(* What the code would have to keep for them to hold: each of these fails  *)
(* of one step, and the claims hold of every behaviour without such a step *)
(* (QuiescentProofs).                                                      *)

(* An attempt is marked fired only while it has no outcome.  The guard of  *)
(* MarkAttemptFired is fired_at IS NULL alone.                             *)
FiresOpenRow ==
  \A c \in Cycles : \A i \in Rows(c) :
    ~Fired(attempts[c][i]) /\ Fired(attempts'[c][i]) => attempts[c][i].outcome = "none"

FiresOpenRows == [][FiresOpenRow]_vars

(* The budget of a hard decline is not given back.  The reconciler calls   *)
(* ResolveNotDebited on every failure the bank reports, whatever its code. *)
HardDeclined(c, i) == ledger[c][i][1] = "FAILURE" /\ Classify(ledger[c][i][2]) = "terminal"

RefundsNoHardDecline ==
  \A c \in Cycles : \A i \in Rows(c) :
    attempts[c][i].outcome \in Open /\ attempts'[c][i].outcome = "ABANDONED_STALE"
      => ~HardDeclined(c, i)

HardDeclinesStayCharged == [][RefundsNoHardDecline]_vars

(* A worker that has recorded an outcome moves the cycle on.  The two are  *)
(* separate transactions, and a worker may die between them.               *)
MovesOnFromRecord ==
  \A w \in Workers : At(w, "recorded") /\ At(w, "idle")' => AdvanceCycle(w)

RecordedCyclesMoveOn == [][MovesOnFromRecord]_vars
=============================================================================
