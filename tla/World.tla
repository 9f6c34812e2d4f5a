------------------------------- MODULE World -------------------------------
(***************************************************************************)
(* How the simulated bank decides a debit (internal/provider/outcome.go,   *)
(* world.go): a customer poor until payday and rich from it on, the rules  *)
(* of the two rails, and a draw that depends on the attempt and never on   *)
(* who asks.  Money is in thousands of paise, probabilities and draws are  *)
(* in ten thousandths, rounded down.                                       *)
(***************************************************************************)
EXTENDS Solve, FiniteSetsExt

CONSTANT DrawValues   (* the draws explored                                *)

ASSUME DrawsAssumption == DrawValues \subseteq 0..9999

(* The codes of class retry_now are one to everybody here, the two that    *)
(* UPI fails with among them.                                              *)
railRules ==
  [upi_autopay |-> [cap |-> 1500,  base |-> 8800,
                    transient |-> <<"TECHNICAL_DECLINE">>],
   enach       |-> [cap |-> 10000, base |-> 7800,
                    transient |-> <<"TECHNICAL_DECLINE", "ACCOUNT_FROZEN">>]]

Rails == DOMAIN railRules

(* A hash of the seed, the cycle and the attempt: most of it is the draw,  *)
(* and the rest picks the code of a transient failure.                     *)
Draws(rail) == [value: DrawValues, pick: DOMAIN railRules[rail].transient]

(* A customer has a payday in 1..28, so every month has it.  The day of    *)
(* the month is the IST one; due is the due day's, and instants are        *)
(* counted from that day's midnight.                                       *)
DayOfMonth(due, month, t) == ((due - 1 + t \div Day) % month) + 1

BalanceAt(customer, dayOfMonth) ==
  IF dayOfMonth >= customer.payday THEN customer.high ELSE customer.low

(* What is decided upon: provider.Conditions.                              *)
Conditions(rail, amount, balance, attempt, firedAt) ==
  [rail |-> rail, amount |-> amount, balance |-> balance, attempt |-> attempt,
   firedAt |-> firedAt, revoked |-> FALSE, ignoreWindow |-> FALSE]

blocked(c) == ~c.ignoreWindow /\ Blocked(c.firedAt)

OverLimit(c)    == c.amount <= 0 \/ c.amount > railRules[c.rail].cap
Insufficient(c) == c.balance < c.amount

(* Each attempt after the first is worth 95 hundredths of the one before.  *)
Fatigue(p, attempt) ==
  LET worn[n \in 1..attempt] == IF n = 1 THEN p ELSE (worn[n - 1] * 95) \div 100
  IN  worn[attempt]

(* What the rail gives, and the headroom above the amount.                 *)
ByHeadroom(c) ==
  LET base == railRules[c.rail].base
  IN  CASE c.balance >= 2 * c.amount       -> base + 500
        [] 10 * c.balance < 12 * c.amount  -> base - 1500
        [] OTHER                           -> base

Likelihood(c) == Max({500, Min({9800, Fatigue(ByHeadroom(c), c.attempt)})})

(* Mutated: the oracle is not told of the windows.                         *)
ProbabilityAtAnyHour(c) ==
  IF c.revoked \/ OverLimit(c) \/ Insufficient(c) THEN 0 ELSE Likelihood(c)

SuccessProbability(c) ==
  IF c.revoked \/ blocked(c) \/ OverLimit(c) \/ Insufficient(c)
    THEN 0
    ELSE Likelihood(c)

MaxAttempts == 4

(* One slot of the oracle's answer (oracle.go): by attempt.  Whether the   *)
(* bank ignores the windows is not handed on.                              *)
Probabilities(c) ==
  [n \in 1..MaxAttempts |->
     SuccessProbability([c EXCEPT !.attempt = n, !.ignoreWindow = FALSE])]

(* The answer: a failure code, or "none" for a success.  The first reason  *)
(* to refuse is the one given.                                             *)
Decide(c, draw) ==
  IF c.revoked            THEN "MANDATE_REVOKED"
  ELSE IF blocked(c)      THEN "TECHNICAL_DECLINE"
  ELSE IF OverLimit(c)    THEN "AMOUNT_EXCEEDS_LIMIT"
  ELSE IF Insufficient(c) THEN "INSUFFICIENT_FUNDS"
  ELSE IF draw.value < SuccessProbability(c) THEN "none"
  ELSE railRules[c.rail].transient[draw.pick]
=============================================================================
