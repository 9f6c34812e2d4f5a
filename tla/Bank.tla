-------------------------------- MODULE Bank --------------------------------
(***************************************************************************)
(* The bank as the workers meet it over HTTP (internal/provider): a debit  *)
(* call that may be lost, answered late or never, a fence check, and a     *)
(* ledger that keeps the first answer given under an idempotency key.  The *)
(* key of attempt i of cycle c is the pair <<c, i>> (cycleID:seq).         *)
(***************************************************************************)
EXTENDS Domain

VARIABLES
  calls,    (* debit requests not yet answered or lost                     *)
  ledger,   (* ledger[c][i]: the answer committed under the key, if any    *)
  highest   (* highest fence seen for a cycle                              *)

bankVars == <<calls, ledger, highest>>

Stage == {"sent", "admitted", "replied"}
Call  == [cycle: Cycles, seq: 1..MaxAttempts, fence: 1..MaxFence, stage: Stage]

BankInit ==
  /\ calls   = {}
  /\ ledger  = [c \in Cycles |-> [i \in 1..MaxAttempts |-> NoAnswer]]
  /\ highest = [c \in Cycles |-> 0]

Known(c, i) == ledger[c][i] # NoAnswer

Move(call, stage) == calls' = (calls \ {call}) \cup {[call EXCEPT !.stage = stage]}

(* A worker sends the request.                                             *)
Debit(c, i, fence) ==
  /\ calls' = calls \cup {[cycle |-> c, seq |-> i, fence |-> fence, stage |-> "sent"]}
  /\ UNCHANGED <<ledger, highest>>

(* The connection is dropped or the request refused: the caller sees an    *)
(* error.  It may happen before the commit or after it.                    *)
Drop(call) == calls' = calls \ {call} /\ UNCHANGED <<ledger, highest>>

(* AdmitFence, and the replay of an answer already in the ledger.  A lower *)
(* fence than one seen before is rejected.                                 *)
Admit(call) ==
  /\ call.stage = "sent"
  /\ call.fence >= highest[call.cycle]
  /\ highest' = [highest EXCEPT ![call.cycle] = call.fence]
  /\ Move(call, IF Known(call.cycle, call.seq) THEN "replied" ELSE "admitted")
  /\ UNCHANGED ledger

Reject(call) ==
  /\ call.stage = "sent"
  /\ call.fence < highest[call.cycle]
  /\ Drop(call)

(* Decide and Commit: the first answer under a key stays.                  *)
Commit(call) ==
  /\ call.stage = "admitted"
  /\ Move(call, "replied")
  /\ IF Known(call.cycle, call.seq)
       THEN UNCHANGED ledger
       ELSE \E a \in Answer : ledger' = [ledger EXCEPT ![call.cycle][call.seq] = a]
  /\ UNCHANGED highest

BankStep == \E call \in calls : Admit(call) \/ Reject(call) \/ Commit(call) \/ Drop(call)

(* The caller has the response in hand.                                    *)
Replied(c, i) == \E call \in calls : call.cycle = c /\ call.seq = i /\ call.stage = "replied"

(* GET /status                                                             *)
Status(c, i) == ledger[c][i]

BankTypeOK ==
  /\ calls \subseteq Call
  /\ ledger \in [Cycles -> [1..MaxAttempts -> Answer \cup {NoAnswer}]]
  /\ highest \in [Cycles -> 0..MaxFence]

(* The same promise as the ledger file keeps (Ledger), of these tables: an *)
(* answer once committed under a key is the only one ever.                 *)
Said == [k \in Cycles \X (1..MaxAttempts) |-> ledger[k[1]][k[2]]]

A == INSTANCE Answers WITH Keys <- Cycles \X (1..MaxAttempts), said <- Said
AnswersSpec == A!Spec
=============================================================================
