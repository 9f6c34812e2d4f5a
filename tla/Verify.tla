------------------------------- MODULE Verify -------------------------------
(***************************************************************************)
(* The verifier (internal/verify, internal/store/invariants.go): queries   *)
(* over the tables, each returning what violates one of its invariants.    *)
(* Of the six, InvariantOrphaned compares updated_at with the clock and    *)
(* InvariantBlockedWindowFired reads the time of day, which these tables   *)
(* do not keep.                                                            *)
(***************************************************************************)
EXTENDS Quiescent

DoubleDebits ==
  {c \in Cycles : Cardinality({i \in Rows(c) : attempts[c][i].outcome = "SUCCESS"}) > 1}

BudgetExceeded == {c \in Cycles : cycles[c].used > MaxAttempts}

BudgetMismatch == {c \in Cycles : cycles[c].used # Cardinality(Charged(c))}

(* A notice late for scheduled_for may be in time for a fired_at some      *)
(* minutes later; it is counted as missing all the same.                   *)
MissingNotice ==
  {c \in Cycles : \E i \in Rows(c) : Fired(attempts[c][i]) /\ attempts[c][i].notice # "onTime"}

Violations == DoubleDebits \cup BudgetExceeded \cup BudgetMismatch \cup MissingNotice

(* The verifier never fails on these four, at whatever moment it is run    *)
(* and whatever died before: nothing any interleaving writes to the tables *)
(* is a violation it reports.  It reads the tables alone, so it passes     *)
(* also where Claims' NeverDebitsTwice does not hold.                      *)
VerifyPasses == Violations = {}
=============================================================================
