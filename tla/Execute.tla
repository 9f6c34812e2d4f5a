------------------------------ MODULE Execute ------------------------------
(***************************************************************************)
(* The claim loop of a worker (internal/execute, cmd/quiescent/worker.go): *)
(* one attempt at a time is taken from the due list and fired.  FireOne is *)
(* cut at every call that other processes can see or that reads what they  *)
(* write; between two steps any time may pass, and a crash or a store      *)
(* error may end it.                                                       *)
(***************************************************************************)
EXTENDS Store, Bank

CONSTANTS Workers

VARIABLE worker

Idle == [pc |-> "idle"]
FireState == [pc: {"fresh", "leased", "gated", "fired", "sent", "recorded"},
              cycle: Cycles, seq: 1..MaxAttempts,
              fence: 0..MaxFence,         \* handle.Fence
              used: 0..MaxAttempts]       \* cycle.AttemptsUsed, as read

ExecuteInit == worker = [w \in Workers |-> Idle]

At(w, pc) == worker[w].pc = pc
Goto(w, pc) == worker' = [worker EXCEPT ![w].pc = pc]
Finish(w) == worker' = [worker EXCEPT ![w] = Idle]

C(w) == worker[w].cycle
I(w) == worker[w].seq

(* DueAttempts returns the attempt and it is not yet ten minutes late.     *)
Claim(w, c, i) ==
  /\ At(w, "idle")
  /\ DueAttempt(c, i) /\ attempts[c][i].age < Stale
  /\ worker' = [worker EXCEPT ![w] =
       [pc |-> "fresh", cycle |-> c, seq |-> i, fence |-> 0, used |-> 0]]
  /\ UNCHANGED <<storeVars, bankVars>>

(* It is: the attempt is given up without asking for the lease.  The call  *)
(* conflicts, and changes nothing, if the attempt is fired or resolved.    *)
AbandonStale(w, c, i) ==
  /\ At(w, "idle")
  /\ DueAttempt(c, i) /\ attempts[c][i].age = Stale
  /\ AbandonAttempt(c, i)
  /\ UNCHANGED <<worker, bankVars>>

(* Mutated: the fence is not carried along.                                *)
TakeLeaseUnfenced(w) ==
  /\ At(w, "fresh")
  /\ AcquireLease(C(w))
  /\ Goto(w, "leased")
  /\ UNCHANGED bankVars

TakeLease(w) ==
  /\ At(w, "fresh")
  /\ AcquireLease(C(w))
  /\ worker' = [worker EXCEPT ![w].pc = "leased", ![w].fence = leases'[C(w)].fence]
  /\ UNCHANGED bankVars

(* The notice gate, and the snapshot of the cycle that later decides       *)
(* whether the budget is spent.                                            *)
PassGate(w) ==
  /\ At(w, "leased")
  /\ NoticeDelivered(C(w), I(w))
  /\ worker' = [worker EXCEPT ![w].pc = "gated", ![w].used = cycles[C(w)].used]
  /\ UNCHANGED <<storeVars, bankVars>>

NoticeMissing(w) ==
  /\ At(w, "leased")
  /\ ~NoticeDelivered(C(w), I(w))
  /\ AbandonAttempt(C(w), I(w))
  /\ Finish(w)
  /\ UNCHANGED bankVars

MarkFired(w) ==
  /\ At(w, "gated")
  /\ MarkAttemptFired(C(w), I(w), worker[w].fence)
  /\ Goto(w, "fired")
  /\ UNCHANGED bankVars

CallBank(w) ==
  /\ At(w, "fired")
  /\ Debit(C(w), I(w), worker[w].fence)
  /\ Goto(w, "sent")
  /\ UNCHANGED storeVars

(* The bank's answer arrives and is recorded.                              *)
RecordAnswer(w) ==
  /\ At(w, "sent")
  /\ Replied(C(w), I(w))
  /\ RecordAttemptOutcome(C(w), I(w), ledger[C(w)][I(w)][1], ledger[C(w)][I(w)][2])
  /\ Goto(w, "recorded")
  /\ UNCHANGED bankVars

(* Any error of the call, a rejected fence included, is recorded as a      *)
(* TIMEOUT.  The request may still be on its way.                          *)
RecordTimeout(w) ==
  /\ At(w, "sent")
  /\ RecordAttemptOutcome(C(w), I(w), "TIMEOUT", "none")
  /\ Finish(w)
  /\ UNCHANGED bankVars

(* classify: the table, or for an unmapped code whatever class the model   *)
(* proposes (manual review if it is unsure or unreachable).                *)
ProposedClasses(code) == IF code \in Mapped THEN {Classify(code)} ELSE Class

NextState(outcome, class, used) ==
  CASE outcome = "SUCCESS"    -> "recovered"
    [] ~Retryable(class)      -> "escalated"
    [] used >= MaxAttempts    -> "abandoned"
    [] OTHER                  -> "pending"

AdvanceCycle(w) ==
  /\ At(w, "recorded")
  /\ LET answer == ledger[C(w)][I(w)]
     IN  \E class \in ProposedClasses(answer[2]) :
           SetState(C(w), NextState(answer[1], class, worker[w].used))
  /\ Finish(w)
  /\ UNCHANGED bankVars

(* A guarded update matched no row: FireOne returns without having changed *)
(* anything in this call.                                                  *)
Conflict(w) ==
  /\ \/ At(w, "fresh") /\ leases[C(w)].live
     \/ At(w, "leased") /\ ~NoticeDelivered(C(w), I(w)) /\ ~Abandonable(C(w), I(w))
     \/ At(w, "gated") /\ ~Fireable(C(w), I(w))
     \/ At(w, "sent") /\ ~Recordable(C(w), I(w))
  /\ Finish(w)
  /\ UNCHANGED <<storeVars, bankVars>>

(* The process dies, or a call to the store fails: what is done is done.   *)
Crash(w) ==
  /\ ~At(w, "idle")
  /\ Finish(w)
  /\ UNCHANGED <<storeVars, bankVars>>

FireStep(w) ==
  \/ \E c \in Cycles : \E i \in DOMAIN attempts[c] : Claim(w, c, i) \/ AbandonStale(w, c, i)
  \/ TakeLease(w) \/ PassGate(w) \/ NoticeMissing(w) \/ MarkFired(w) \/ CallBank(w)
  \/ RecordAnswer(w) \/ RecordTimeout(w) \/ AdvanceCycle(w) \/ Conflict(w)

ExecuteTypeOK == worker \in [Workers -> {Idle} \cup FireState]
=============================================================================
