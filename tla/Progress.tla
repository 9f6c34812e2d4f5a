------------------------------ MODULE Progress ------------------------------
(***************************************************************************)
(* What the poll loops of a worker get done in the end                     *)
(* (cmd/quiescent/worker.go).  Each tick reads one page of the due list or *)
(* of the reconciliation list, oldest first, and works through it; what it *)
(* could not finish is on a later page only if that page reaches so far.   *)
(* One attempt of each of Last cycles stands for the rows of those lists.  *)
(* Debits and answers are as in Execute, Reconcile and Bank; an answer is  *)
(* an answer whichever it is, and every settled outcome is "settled".      *)
(***************************************************************************)
EXTENDS Integers, Sequences, FiniteSets

CONSTANTS
  Last,         (* attempts are 1..Last, in the order of scheduled_for      *)
  Batches,      (* what WORKER_BATCH may be set to, 20 unless set          *)
  Workers,
  Unnoticed,    (* attempts whose customer was not told in time            *)
  MaxLosses,    (* bound: requests the bank never hears of                 *)
  MaxCrashes    (* bound: worker deaths                                    *)

ASSUME LastAssumption  == Last \in Nat \ {0}
ASSUME BatchesAssumption == Batches \subseteq Nat \ {0}
ASSUME BoundsAssumption == MaxLosses \in Nat /\ MaxCrashes \in Nat

VARIABLES
  row,      (* attempts, each with its cycle's lease and held flag         *)
  bank,     (* how far the request of an attempt has come                  *)
  claim,    (* the claim loop of each worker: its page, and a program count *)
  ask,      (* the reconcile loop of each worker, likewise                 *)
  losses, crashes,
  batch     (* WORKER_BATCH, how long a page is                           *)

vars == <<row, bank, claim, ask, losses, crashes, batch>>

Rows == 1..Last

Ahead == 0    \* before scheduled_for
Due   == 1    \* up to ten minutes after it
Stale == 2

Row == [age: Ahead..Stale, noticed: BOOLEAN, fired: BOOLEAN,
        outcome: {"none", "TIMEOUT", "settled"}, leased: BOOLEAN, held: BOOLEAN]

NotSent == "notSent"
Resting == [pc |-> "next", page |-> <<>>]

Init ==
  /\ row = [r \in Rows |-> [age |-> Ahead, noticed |-> r \notin Unnoticed, fired |-> FALSE,
                            outcome |-> "none", leased |-> FALSE, held |-> FALSE]]
  /\ bank  = [r \in Rows |-> NotSent]
  /\ claim = [w \in Workers |-> Resting]
  /\ ask   = [w \in Workers |-> Resting]
  /\ losses = 0 /\ crashes = 0
  /\ batch \in Batches

-----------------------------------------------------------------------------
(* Pages.                                                                  *)

(* Mutated: settled attempts stay on the due list; an attempt whose cycle  *)
(* is held is off the reconciliation list.                                 *)
DueWhatever(r) == row[r].age >= Due
UnsettledNotHeld(r) ==
  /\ ~row[r].held
  /\ row[r].outcome = "TIMEOUT" \/ (row[r].fired /\ row[r].outcome = "none")

DueAttempt(r) == row[r].age >= Due /\ row[r].outcome = "none"

Unsettled(r) == row[r].outcome = "TIMEOUT" \/ (row[r].fired /\ row[r].outcome = "none")

(* ORDER BY scheduled_for LIMIT batch.                                     *)
Page(listed) ==
  LET page == {r \in listed : Cardinality({q \in listed : q <= r}) <= batch}
  IN  [i \in 1..Cardinality(page) |->
         CHOOSE r \in page : Cardinality({q \in page : q <= r}) = i]

Behind(loop) == [pc |-> "next", page |-> Tail(loop.page)]

-----------------------------------------------------------------------------
(* The claim loop: FireOne on the head of the page.                        *)

Claiming(w, pc) == claim[w].pc = pc /\ claim[w].page # <<>>
At(w) == Head(claim[w].page)
ToFire(w, pc) == claim' = [claim EXCEPT ![w].pc = pc]
NextClaim(w)  == claim' = [claim EXCEPT ![w] = Behind(@)]

ClaimTick(w) ==
  /\ claim[w] = Resting
  /\ claim' = [claim EXCEPT ![w].page = Page({r \in Rows : DueAttempt(r)})]
  /\ UNCHANGED <<row, bank, ask, losses, crashes, batch>>

Abandoned(r) ==
  IF ~row[r].fired /\ row[r].outcome = "none"
    THEN [row EXCEPT ![r].outcome = "settled", ![r].held = FALSE] ELSE row

(* Ten minutes late: given up, or skipped if it was fired, with no lease.  *)
TooLate(w) ==
  /\ Claiming(w, "next") /\ row[At(w)].age = Stale
  /\ row' = Abandoned(At(w))
  /\ NextClaim(w)
  /\ UNCHANGED <<bank, ask, losses, crashes, batch>>

(* Mutated: the lease of a stale attempt is taken all the same.            *)
LeaseAlways(w) ==
  /\ Claiming(w, "next") /\ (row[At(w)].age < Stale \/ row[At(w)].fired)
  /\ IF row[At(w)].leased
       THEN NextClaim(w) /\ UNCHANGED row
       ELSE ToFire(w, "leased") /\ row' = [row EXCEPT ![At(w)].leased = TRUE]
  /\ UNCHANGED <<bank, ask, losses, crashes, batch>>

(* An attempt that is still due is leased, even if it was fired before.    *)
Lease(w) ==
  /\ Claiming(w, "next") /\ row[At(w)].age < Stale
  /\ IF row[At(w)].leased
       THEN NextClaim(w) /\ UNCHANGED row
       ELSE ToFire(w, "leased") /\ row' = [row EXCEPT ![At(w)].leased = TRUE]
  /\ UNCHANGED <<bank, ask, losses, crashes, batch>>

(* The notice gate, MarkAttemptFired, which conflicts if it is fired, and  *)
(* the request, which the bank will hear of or will not.  A worker that    *)
(* dies between the mark and the call is one whose request is lost.        *)
Fire(w) ==
  /\ Claiming(w, "leased")
  /\ IF row[At(w)].noticed /\ ~row[At(w)].fired
       THEN /\ row' = [row EXCEPT ![At(w)].fired = TRUE, ![At(w)].held = FALSE]
            /\ ToFire(w, "sent")
            /\ \/ bank' = [bank EXCEPT ![At(w)] = "coming"] /\ UNCHANGED losses
               \/ /\ losses < MaxLosses /\ losses' = losses + 1
                  /\ bank' = [bank EXCEPT ![At(w)] = "lost"]
       ELSE /\ row' = IF row[At(w)].noticed THEN row ELSE Abandoned(At(w))
            /\ NextClaim(w)
            /\ UNCHANGED <<bank, losses>>
  /\ UNCHANGED <<ask, crashes, batch>>

(* RecordAttemptOutcome, with the answer (and the cycle is advanced), or   *)
(* TIMEOUT; it conflicts if the reconciler settled the attempt.            *)
Record(w) ==
  /\ Claiming(w, "sent")
  /\ IF row[At(w)].outcome # "none" THEN UNCHANGED row
     ELSE \/ row' = [row EXCEPT ![At(w)].outcome = "TIMEOUT", ![At(w)].held = FALSE]
          \/ /\ bank[At(w)] = "known"
             /\ row' = [row EXCEPT ![At(w)].outcome = "settled", ![At(w)].held = FALSE]
  /\ NextClaim(w)
  /\ UNCHANGED <<bank, ask, losses, crashes, batch>>

ClaimLoop(w) ==
  ClaimTick(w) \/ TooLate(w) \/ Lease(w) \/ Fire(w) \/ Record(w)

-----------------------------------------------------------------------------
(* The reconcile loop: Resolve on the head of the page.                    *)

Asking(w, pc) == ask[w].pc = pc /\ ask[w].page # <<>>
About(w) == Head(ask[w].page)
ToAsk(w, pc) == ask' = [ask EXCEPT ![w].pc = pc]
NextAsk(w)   == ask' = [ask EXCEPT ![w] = Behind(@)]

AskTick(w) ==
  /\ ask[w] = Resting
  /\ ask' = [ask EXCEPT ![w].page = Page({r \in Rows : Unsettled(r)})]
  /\ UNCHANGED <<row, bank, claim, losses, crashes, batch>>

AskLease(w) ==
  /\ Asking(w, "next")
  /\ IF row[About(w)].leased
       THEN NextAsk(w) /\ UNCHANGED row
       ELSE ToAsk(w, "leased") /\ row' = [row EXCEPT ![About(w)].leased = TRUE]
  /\ UNCHANGED <<bank, claim, losses, crashes, batch>>

Settle(w) ==
  /\ Asking(w, "leased") /\ bank[About(w)] = "known"
  /\ row' = IF Unsettled(About(w))
              THEN [row EXCEPT ![About(w)].outcome = "settled", ![About(w)].held = FALSE]
              ELSE row
  /\ NextAsk(w)
  /\ UNCHANGED <<bank, claim, losses, crashes, batch>>

StillUnknown(w) ==
  /\ Asking(w, "leased") /\ bank[About(w)] # "known"
  /\ ToAsk(w, "missing")
  /\ UNCHANGED <<row, bank, claim, losses, crashes, batch>>

Hold(w) ==
  /\ Asking(w, "missing")
  /\ row' = [row EXCEPT ![About(w)].held = TRUE]
  /\ NextAsk(w)
  /\ UNCHANGED <<bank, claim, losses, crashes, batch>>

AskLoop(w) == AskTick(w) \/ AskLease(w) \/ Settle(w) \/ StillUnknown(w) \/ Hold(w)

-----------------------------------------------------------------------------
(* The rest of the world.                                                  *)

BankCommits(r) ==
  /\ bank[r] = "coming" /\ bank' = [bank EXCEPT ![r] = "known"]
  /\ UNCHANGED <<row, claim, ask, losses, crashes, batch>>

LeaseExpires(r) ==
  /\ row[r].leased /\ row' = [row EXCEPT ![r].leased = FALSE]
  /\ UNCHANGED <<bank, claim, ask, losses, crashes, batch>>

(* Mutated: the clock runs on past what the columns can hold.              *)
ElapseOn(r) ==
  /\ \A q \in 1..(r - 1) : row[q].age > row[r].age
  /\ row' = [row EXCEPT ![r].age = @ + 1]
  /\ UNCHANGED <<bank, claim, ask, losses, crashes, batch>>

(* Attempts fall due, and go stale, in the order of scheduled_for.         *)
Elapse(r) ==
  /\ row[r].age < Stale /\ \A q \in 1..(r - 1) : row[q].age > row[r].age
  /\ row' = [row EXCEPT ![r].age = @ + 1]
  /\ UNCHANGED <<bank, claim, ask, losses, crashes, batch>>

(* A worker dies and is started again; its leases stay until they expire.  *)
Crash(w) ==
  /\ crashes < MaxCrashes /\ crashes' = crashes + 1
  /\ claim' = [claim EXCEPT ![w] = Resting] /\ ask' = [ask EXCEPT ![w] = Resting]
  /\ UNCHANGED <<row, bank, losses, batch>>

Next ==
  \/ \E w \in Workers : ClaimLoop(w) \/ AskLoop(w) \/ Crash(w)
  \/ \E r \in Rows : BankCommits(r) \/ LeaseExpires(r) \/ Elapse(r)

(* Every loop ticks and finishes its calls, which all time out; clocks and *)
(* leases run; a request that is not lost is handled.  Nothing is assumed  *)
(* about who wins a lease.                                                 *)
Fairness ==
  /\ \A w \in Workers : WF_vars(ClaimLoop(w)) /\ WF_vars(AskLoop(w))
  /\ \A r \in Rows : WF_vars(BankCommits(r)) /\ WF_vars(LeaseExpires(r)) /\ WF_vars(Elapse(r))

Spec == Init /\ [][Next]_vars /\ Fairness

-----------------------------------------------------------------------------
TypeOK ==
  /\ row \in [Rows -> Row]
  /\ bank \in [Rows -> {NotSent, "coming", "lost", "known"}]
  /\ claim \in [Workers -> [pc: {"next", "leased", "sent"}, page: Seq(Rows)]]
  /\ ask \in [Workers -> [pc: {"next", "leased", "missing"}, page: Seq(Rows)]]
  /\ losses \in 0..MaxLosses /\ crashes \in 0..MaxCrashes /\ batch \in Batches

Settled(r) == row[r].outcome = "settled"

(* The request is lost, and nobody settles the attempt but by an answer.   *)
Lost(r) == bank[r] = "lost" /\ row[r].outcome # "settled"

(* Attempts like that fill every page of the reconciliation list before it *)
(* is reached, no worker has it on a page, and none waits for its answer.  *)
Buried(r)    == Cardinality({q \in 1..(r - 1) : Lost(q)}) >= batch
Unasked(r)   == \A w \in Workers : \A i \in 1..Len(ask[w].page) : ask[w].page[i] # r
Unawaited(r) == \A w \in Workers : ~(Claiming(w, "sent") /\ At(w) = r)

Forgotten(r) ==
  /\ row[r].fired /\ row[r].outcome # "settled"
  /\ Buried(r) /\ Unasked(r) /\ Unawaited(r)

(* Fired by a worker that died, and nobody will record an outcome: it is   *)
(* on the due list for ever, as AbandonAttempt conflicts on fired_at.      *)
Stuck(r) ==
  /\ row[r].fired /\ row[r].outcome = "none" /\ Unawaited(r)
  /\ bank[r] = "lost" \/ Forgotten(r)

(* Attempts like that fill every page of the due list before it is reached.*)
CrowdedOut(r) == Cardinality({q \in 1..(r - 1) : Stuck(q)}) >= batch
Skipped(r) ==
  /\ ~row[r].fired /\ row[r].outcome = "none" /\ CrowdedOut(r)
  /\ \A w \in Workers : \A i \in 1..Len(claim[w].page) : claim[w].page[i] # r

(* Every attempt is fired or given up in the end, unless a full page of    *)
(* attempts whose workers died, and that nobody can settle, is before it   *)
(* on the due list; nothing else keeps the claim loop from it.  Such an    *)
(* attempt is skipped for ever (ProgressProofs).                           *)
EveryAttemptIsTaken == <>(\A r \in Rows : row[r].fired \/ Settled(r) \/ Skipped(r))

(* What was fired is settled or held for a human in the end: neither the   *)
(* claim loop, which takes its lease again as long as it is due, nor a     *)
(* crash keeps the reconciler from it for ever, but only a full page of    *)
(* attempts the bank never heard of before it.                             *)
FiredIsAnswered ==
  <>[](\A r \in Rows : row[r].fired => Settled(r) \/ row[r].held \/ Forgotten(r))

(* An answer the bank has committed to is recorded in the end, also when   *)
(* it came after the cycle was held, unless such a page is before it.      *)
AnswerIsRecorded ==
  <>[](\A r \in Rows : bank[r] = "known" => Settled(r) \/ Forgotten(r))

(* ARCHITECTURE 8, of an outage of the bank: all that was in flight is     *)
(* unknown, and reconciliation resolves it on recovery (by an answer, or   *)
(* by a hold).                                                             *)
OutageIsResolved ==
  \A r \in Rows : row[r].outcome = "TIMEOUT" ~> (Settled(r) \/ row[r].held)
=============================================================================
