------------------------------- MODULE Domain -------------------------------
(***************************************************************************)
(* The vocabulary every part of Quiescent shares: states, outcomes and     *)
(* failure classes (internal/domain), and the table that turns a failure   *)
(* code into a class (internal/classify).                                  *)
(***************************************************************************)
EXTENDS Integers, Sequences, FiniteSets

CONSTANTS
  Cycles,       (* mandate cycles                                          *)
  MaxAttempts,  (* domain.MaxAttempts, 4 in the code                       *)
  Codes,        (* the failure codes the bank answers with                 *)
  MaxFence      (* bound: lease acquisitions per cycle                     *)

ASSUME MaxAttemptsAssumption == MaxAttempts \in Nat \ {0}
ASSUME MaxFenceAssumption    == MaxFence \in Nat
ASSUME CodesAssumption       == "none" \notin Codes

Terminal == {"recovered", "escalated", "abandoned"}
State    == {"pending", "scheduled", "in_flight", "unknown", "held"} \cup Terminal

(* An attempt's outcome; "none" is SQL NULL.  It is open until the bank's  *)
(* answer is known.                                                        *)
Outcome == {"SUCCESS", "FAILURE", "TIMEOUT", "ABANDONED_STALE"}
Open    == {"none", "TIMEOUT"}

(* What the bank answers a debit with: an outcome and a failure code.      *)
Answer   == {<<"SUCCESS", "none">>} \cup ({"FAILURE"} \X Codes)
NoAnswer == <<"none", "none">>

Class == {"retry_now", "retry_later", "terminal", "manual_review"}

Mapped == {"INSUFFICIENT_FUNDS", "PRE_DEBIT_NOTICE_MISSING", "MANDATE_REVOKED",
           "AMOUNT_EXCEEDS_LIMIT", "TECHNICAL_DECLINE", "ACCOUNT_FROZEN"}

(* classify.Classify: an unmapped code is for a human, until a model's     *)
(* proposal says otherwise.  TECHNICAL_DECLINE stands for the four codes   *)
(* of its class.                                                           *)
Classify(code) ==
  CASE code \in {"INSUFFICIENT_FUNDS", "PRE_DEBIT_NOTICE_MISSING"} -> "retry_later"
    [] code \in {"MANDATE_REVOKED", "AMOUNT_EXCEEDS_LIMIT"}        -> "terminal"
    [] code = "TECHNICAL_DECLINE"                                  -> "retry_now"
    [] OTHER                                                       -> "manual_review"

(* Mutated: terminal classes are retried too.                              *)
RetryableUnlessUnsure(class) == class # "manual_review"

Retryable(class) == class \in {"retry_now", "retry_later"}
=============================================================================
