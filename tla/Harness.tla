------------------------------ MODULE Harness ------------------------------
(***************************************************************************)
(* The measurement (internal/harness): the same cycles are run by the      *)
(* system, which learns the hours of a customer's successes and stops on   *)
(* a hard failure, by a baseline that retries blindly, and by an oracle    *)
(* that reads the true probabilities.  Nobody is meant to be luckier: a    *)
(* draw belongs to the attempt.  The three are pure functions of the       *)
(* seed, so the order they run in here, cycle by cycle, is as good as any. *)
(***************************************************************************)
EXTENDS World, Sequences

CONSTANTS
  Amounts, Dues,         (* what customers are charged, on which days      *)
  Months,                (* the lengths of the months that cycles fall in  *)
  Paydays, Lows, Highs,  (* what the balances may be                       *)
  Length                 (* bound: the cycles of a sequence, 6 in the code *)

ASSUME AmountsAssumption == Amounts \subseteq Nat /\ Lows \cup Highs \subseteq Nat
ASSUME DaysAssumption    == Dues \cup Paydays \subseteq 1..28 /\ Months \subseteq 28..31
ASSUME LengthAssumption  == Length \in Nat \ {0}

D == INSTANCE Domain WITH Cycles <- {}, MaxFence <- 0,
       Codes <- {"INSUFFICIENT_FUNDS", "TECHNICAL_DECLINE", "ACCOUNT_FROZEN",
                 "MANDATE_REVOKED", "AMOUNT_EXCEEDS_LIMIT"}

VARIABLES
  mandate,   (* the rail, amount and due day of the customer's cycles      *)
  cycle,     (* the cycle at hand: its number, month and balances          *)
  history,   (* the hours at which the system succeeded before             *)
  draws,     (* the draws seen so far, by attempt                          *)
  runs       (* what the three have done with the cycle                    *)

hvars == <<mandate, cycle, history, draws, runs>>

Policies == {"system", "baseline", "oracle"}
NotRun   == [fired |-> <<>>, code |-> "none", recovered |-> FALSE, over |-> FALSE]

Latest(run) == run.fired[Len(run.fired)]

(* A balance belongs to the cycle: the world knows no owner of a harness   *)
(* cycle and makes up a customer for each.                                 *)
AnyCycle(number) ==
  [number: {number}, month: Months, payday: Paydays, low: Lows, high: Highs]

HInit ==
  /\ mandate \in [rail: Rails, amount: Amounts, due: Dues]
  /\ cycle \in AnyCycle(1)
  /\ history = <<>>
  /\ draws = <<>>
  /\ runs = [p \in Policies |-> NotRun]

(* A cycle is due at midnight UTC, half past five in IST, and its mandate  *)
(* was set up thirty days before.                                          *)
DueDate          == 5 * Hour + 30 * Minute
mandateSetupLead == 30 * Day

(* predict.PreferredHour: the most frequent hour, the earliest of equals.  *)
Count(hour) == Cardinality({i \in DOMAIN history : history[i] = hour})
PreferredHour ==
  IF Len(history) < 2 THEN NoHour
  ELSE Min({h \in 0..23 : \A other \in 0..23 : Count(other) <= Count(h)})

At(number, t) ==
  Conditions(mandate.rail, mandate.amount,
             BalanceAt(cycle, DayOfMonth(mandate.due, cycle.month, t)), number, t)

(* The draw of an attempt, the same for all who make it.                   *)
DrawsOf(number) == IF number \in DOMAIN draws THEN {draws[number]} ELSE Draws(mandate.rail)

(* Mutated: every attempt is decided as if it were the first.              *)
FireAfresh(policy, t) ==
  LET run    == runs[policy]
      number == Len(run.fired) + 1
  IN  \E draw \in DrawsOf(number) :
        LET code == Decide(At(IF policy = "system" THEN 1 ELSE number, t), draw)
        IN  /\ draws' = IF number \in DOMAIN draws THEN draws ELSE Append(draws, draw)
            /\ runs' = [runs EXCEPT ![policy] =
                 [fired |-> Append(run.fired, t), code |-> code, recovered |-> code = "none",
                  over |-> code = "none" \/ number = MaxAttempts]]

(* One attempt: the loop goes on until a success or the fourth attempt.    *)
Fire(policy, t) ==
  LET run    == runs[policy]
      number == Len(run.fired) + 1
  IN  \E draw \in DrawsOf(number) :
        LET code == Decide(At(number, t), draw)
        IN  /\ draws' = IF number \in DOMAIN draws THEN draws ELSE Append(draws, draw)
            /\ runs' = [runs EXCEPT ![policy] =
                 [fired |-> Append(run.fired, t), code |-> code, recovered |-> code = "none",
                  over |-> code = "none" \/ number = MaxAttempts]]

SystemMayTry ==
  LET run == runs["system"]
  IN  run.fired = <<>> \/ HasNext(Len(run.fired), D!Retryable(D!Classify(run.code)))

(* SimulateSystem: the planner decides at the instant of the attempt       *)
(* before.                                                                 *)
SystemTries ==
  /\ ~runs["system"].over /\ SystemMayTry
  /\ LET fired == runs["system"].fired
         t     == IF fired = <<>>
                    THEN First(DueDate, PreferredHour, DueDate - mandateSetupLead)
                    ELSE Next(DueDate, Len(fired), PreferredHour, Latest(runs["system"]))
     IN  Fire("system", t)
  /\ UNCHANGED <<mandate, cycle, history>>

SystemStops ==
  /\ ~runs["system"].over /\ ~SystemMayTry
  /\ runs' = [runs EXCEPT !["system"].over = TRUE]
  /\ UNCHANGED <<mandate, cycle, history, draws>>

(* SimulateBaseline: fixed delays and nothing else.                        *)
baselineOffsets == <<0, 24 * Hour, 72 * Hour, 7 * 24 * Hour>>
BaselineTries ==
  /\ runs["system"].over /\ ~runs["baseline"].over
  /\ Fire("baseline", DueDate + baselineOffsets[Len(runs["baseline"].fired) + 1])
  /\ UNCHANGED <<mandate, cycle, history>>

(* Mutated: six days.                                                      *)
SearchedSixDays ==
  {t \in {DueDate + h * Hour : h \in 0..(6 * 24 - 1)} : ~Blocked(t)}

(* The hours of the seven days from the due date, but for the windows.     *)
Searched == {t \in {DueDate + h * Hour : h \in 0..(7 * 24 - 1)} : ~Blocked(t)}

(* BestSlot: the first of the likeliest.                                   *)
BestSlot(number) ==
  LET chance == [t \in Searched |-> SuccessProbability(At(number, t))]
      best   == Max({chance[t] : t \in Searched})
  IN  Min({t \in Searched : chance[t] = best})

(* Mutated: the oracle tries once more.                                    *)
OracleTriesOn ==
  /\ runs["baseline"].over
  /\ ~runs["oracle"].recovered /\ Len(runs["oracle"].fired) <= MaxAttempts
  /\ Fire("oracle", BestSlot(Len(runs["oracle"].fired) + 1))
  /\ UNCHANGED <<mandate, cycle, history>>

(* SimulateOracle.                                                         *)
OracleTries ==
  /\ runs["baseline"].over /\ ~runs["oracle"].over
  /\ Fire("oracle", BestSlot(Len(runs["oracle"].fired) + 1))
  /\ UNCHANGED <<mandate, cycle, history>>

(* SimulateCustomerSequence: the hour of a success is remembered.          *)
NextCycle ==
  /\ \A p \in Policies : runs[p].over
  /\ cycle.number < Length
  /\ cycle' \in AnyCycle(cycle.number + 1)
  /\ history' = IF runs["system"].recovered
                  THEN Append(history, minuteOfDay(Latest(runs["system"])) \div 60)
                  ELSE history
  /\ draws' = <<>>
  /\ runs' = [p \in Policies |-> NotRun]
  /\ UNCHANGED mandate

HNext == SystemTries \/ SystemStops \/ BaselineTries \/ OracleTries \/ NextCycle

HSpec == HInit /\ [][HNext]_hvars
-----------------------------------------------------------------------------
(* Nobody makes a fifth attempt, and a run that recovered is over.         *)
TypeOK ==
  /\ mandate \in [rail: Rails, amount: Amounts, due: Dues]
  /\ cycle \in UNION {AnyCycle(n) : n \in 1..Length}
  /\ Len(history) < cycle.number /\ \A i \in DOMAIN history : history[i] \in Hours \ {NoHour}
  /\ Len(draws) <= MaxAttempts /\ \A i \in DOMAIN draws : draws[i] \in Draws(mandate.rail)
  /\ \A p \in Policies :
       /\ Len(runs[p].fired) <= MaxAttempts
       /\ runs[p].recovered => runs[p].over

(* The oracle is the upper bound: what the system or the baseline          *)
(* recovers, it recovers, and with no more attempts (harness_test.go).     *)
OracleIsUpperBound ==
  runs["oracle"].over =>
    \A p \in Policies :
      runs[p].recovered => /\ runs["oracle"].recovered
                           /\ Len(runs["oracle"].fired) <= Len(runs[p].fired)

(* The system's days are the baseline's: neither the notice's lead, nor    *)
(* the windows, nor a learnt hour ever moves an attempt to another day.    *)
DaysAreTheBaselines ==
  \A i \in DOMAIN runs["system"].fired :
    runs["system"].fired[i] \div Day = (DueDate + baselineOffsets[i]) \div Day

(* So the system never recovers what the baseline loses, and what it loses *)
(* to the baseline it gave up because the failure was classified as one    *)
(* not to retry: the lift it captures is never above zero.                 *)
BaselineIsNotBeaten ==
  runs["baseline"].over =>
    /\ runs["system"].recovered => runs["baseline"].recovered
    /\ runs["baseline"].recovered /\ ~runs["system"].recovered =>
         ~D!Retryable(D!Classify(runs["system"].code))

(* What the oracle tells is what the bank would do: at any instant, of any *)
(* attempt, a debit succeeds exactly when its draw is below the            *)
(* probability, whatever reasons there are to refuse it.  Of a bank that   *)
(* ignores the windows it never tells too much.  A cycle is looked at      *)
(* before it is run.                                                       *)
TruthfulOracle ==
  draws = <<>> =>
    \A number \in 1..MaxAttempts, draw \in Draws(mandate.rail), revoked, ignoreWindow \in BOOLEAN,
       amount \in {0, mandate.amount, 1501}, t \in {0, 10 * Hour, 13 * Hour, 14 * Hour, 7 * Day} :
      LET c == [At(number, t) EXCEPT
                  !.amount = amount, !.revoked = revoked, !.ignoreWindow = ignoreWindow]
          told == draw.value < Probabilities(c)[number]
      IN  /\ told => Decide(c, draw) = "none"
          /\ Decide(c, draw) = "none" => told \/ ignoreWindow
=============================================================================
