----------------------------- MODULE Reconcile -----------------------------
(***************************************************************************)
(* The reconcile loop of a worker (internal/reconcile): an attempt whose   *)
(* outcome is not known is settled by asking the bank, under the cycle's   *)
(* lease.  The list it works from may be old by the time its turn comes.   *)
(***************************************************************************)
EXTENDS Store, Bank

CONSTANTS Reconcilers

VARIABLE recon

NotAsking == [pc |-> "idle"]
AskState  == [pc: {"picked", "leased", "missing"}, cycle: Cycles, seq: 1..MaxAttempts]

ReconcileInit == recon = [r \in Reconcilers |-> NotAsking]

Asking(r, pc) == recon[r].pc = pc
Ask(r, pc)    == recon' = [recon EXCEPT ![r].pc = pc]
StopAsking(r) == recon' = [recon EXCEPT ![r] = NotAsking]

Pick(r, c, i) ==
  /\ Asking(r, "idle")
  /\ NeedsReconciliation(c, i)
  /\ recon' = [recon EXCEPT ![r] = [pc |-> "picked", cycle |-> c, seq |-> i]]
  /\ UNCHANGED <<storeVars, bankVars>>

TakeLeaseToAsk(r) ==
  /\ Asking(r, "picked")
  /\ AcquireLease(recon[r].cycle)
  /\ Ask(r, "leased")
  /\ UNCHANGED bankVars

(* Mutated: any answer counts as a debit; the two answers are exchanged.   *)
SettleFound(r) ==
  /\ Asking(r, "leased")
  /\ Known(recon[r].cycle, recon[r].seq)
  /\ ResolveDebited(recon[r].cycle, recon[r].seq)
  /\ StopAsking(r)
  /\ UNCHANGED bankVars
SettleExchanged(r) ==
  /\ Asking(r, "leased")
  /\ LET c == recon[r].cycle
         i == recon[r].seq
     IN  \/ Status(c, i)[1] = "SUCCESS" /\ ResolveNotDebited(c, i)
         \/ Status(c, i)[1] = "FAILURE" /\ ResolveDebited(c, i)
  /\ StopAsking(r)
  /\ UNCHANGED bankVars

(* Status found an answer.  The ledger never changes one, so the update    *)
(* that follows is taken in the same step.                                 *)
Settle(r) ==
  /\ Asking(r, "leased")
  /\ LET c == recon[r].cycle
         i == recon[r].seq
     IN  \/ Status(c, i)[1] = "SUCCESS" /\ ResolveDebited(c, i)
         \/ Status(c, i)[1] = "FAILURE" /\ ResolveNotDebited(c, i)
  /\ StopAsking(r)
  /\ UNCHANGED bankVars

(* The last of MaxTries polls still found nothing; the earlier ones cannot *)
(* have found more, so they take no step.                                  *)
StillUnknown(r) ==
  /\ Asking(r, "leased")
  /\ Status(recon[r].cycle, recon[r].seq) = NoAnswer
  /\ Ask(r, "missing")
  /\ UNCHANGED <<storeVars, bankVars>>

(* Mutated: not found counts as not debited.                               *)
HoldAsPending(r) ==
  /\ Asking(r, "missing")
  /\ SetState(recon[r].cycle, "pending")
  /\ StopAsking(r)
  /\ UNCHANGED bankVars

Hold(r) ==
  /\ Asking(r, "missing")
  /\ SetState(recon[r].cycle, "held")
  /\ StopAsking(r)
  /\ UNCHANGED bankVars

(* The lease is taken, or the attempt was settled meanwhile.               *)
NothingToSettle(r) ==
  /\ \/ Asking(r, "picked") /\ leases[recon[r].cycle].live
     \/ /\ Asking(r, "leased")
        /\ Known(recon[r].cycle, recon[r].seq)
        /\ ~Resolvable(recon[r].cycle, recon[r].seq)
  /\ StopAsking(r)
  /\ UNCHANGED <<storeVars, bankVars>>

(* The process dies, the bank cannot be reached or the store fails.        *)
CrashAsking(r) ==
  /\ ~Asking(r, "idle")
  /\ StopAsking(r)
  /\ UNCHANGED <<storeVars, bankVars>>

ReconcileStep(r) ==
  \/ \E c \in Cycles : \E i \in DOMAIN attempts[c] : Pick(r, c, i)
  \/ TakeLeaseToAsk(r) \/ Settle(r) \/ StillUnknown(r) \/ Hold(r) \/ NothingToSettle(r)

ReconcileTypeOK == recon \in [Reconcilers -> {NotAsking} \cup AskState]
=============================================================================
