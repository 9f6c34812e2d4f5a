------------------------------ MODULE Breaker ------------------------------
(***************************************************************************)
(* The client of the language model (internal/intelligence): two calls at  *)
(* a time, a bounded line of callers behind them, a time-out per call and  *)
(* a circuit breaker, so that a model that hangs cannot hold up whoever    *)
(* asks it.  Propose, Advise and Narrate are one call here; they differ in *)
(* the prompt and in the fallback.  Time runs in ticks; the steps between  *)
(* two waits take none.                                                    *)
(***************************************************************************)
EXTENDS Integers, Sequences, FiniteSets

CONSTANTS
  Callers,      (* goroutines that share a client                          *)
  Slots,        (* cap(sem), 2 in the code                                 *)
  MaxWait,      (* maxWait, 10                                             *)
  Threshold,    (* 3                                                       *)
  Cooldown,     (* ticks: 30 s                                             *)
  Timeout       (* ticks: 10 s                                             *)

ASSUME CallersAssumption == IsFiniteSet(Callers)
ASSUME LimitsAssumption == {Slots, MaxWait, Threshold, Cooldown, Timeout} \subseteq Nat \ {0}

VARIABLES
  pc,        (* where each caller is                                       *)
  age,       (* for how long it has been calling                           *)
  sem,       (* tokens in the channel: slots taken                         *)
  line,      (* callers blocked on the channel, first come first served    *)
  waiting,   (* the atomic counter                                         *)
  fails,     (* consecutiveFail; bound: it stops at the threshold + 1      *)
  cooling,   (* ticks until openUntil                                      *)
  stay,      (* for checking: how long each caller has been inside         *)
  rest       (* for checking: how much of the cooldown is left to a caller *)
             (* that saw the breaker trip                                  *)

vars == <<pc, age, sem, line, waiting, fails, cooling, stay, rest>>

Place == {"out", "entered", "counted", "refused", "inLine", "served", "calling", "answered"}

(* The places no time is spent at.                                         *)
Passing == {"entered", "counted", "refused", "served", "answered"}

Init ==
  /\ pc = [c \in Callers |-> "out"]
  /\ age = [c \in Callers |-> 0]
  /\ sem = 0 /\ line = <<>> /\ waiting = 0
  /\ fails = 0 /\ cooling = 0
  /\ stay = [c \in Callers |-> 0] /\ rest = [c \in Callers |-> 0]

Goes(c, from, to) == pc[c] = from /\ pc' = [pc EXCEPT ![c] = to]

(* A caller that finds the breaker open has its fallback at once, and      *)
(* nothing changes.                                                        *)
Enter(c) ==
  /\ Goes(c, "out", "entered") /\ cooling = 0
  /\ UNCHANGED <<age, sem, line, waiting, fails, cooling, stay, rest>>

(* acquire: one more is waiting, and that may be one too many.             *)
CountIn(c) ==
  /\ Goes(c, "entered", IF waiting + 1 > MaxWait THEN "refused" ELSE "counted")
  /\ waiting' = waiting + 1
  /\ UNCHANGED <<age, sem, line, fails, cooling, stay, rest>>

(* Mutated: the refused caller stays counted.                              *)
StayCounted(c) ==
  /\ Goes(c, "refused", "out")
  /\ UNCHANGED <<age, sem, line, waiting, fails, cooling, stay, rest>>

Refused(c) ==
  /\ Goes(c, "refused", "out")
  /\ waiting' = waiting - 1
  /\ UNCHANGED <<age, sem, line, fails, cooling, stay, rest>>

(* Mutated: the channel has room for one more.                             *)
SendTokenAnyway(c) ==
  /\ IF sem <= Slots
       THEN Goes(c, "counted", "served") /\ sem' = sem + 1 /\ UNCHANGED line
       ELSE Goes(c, "counted", "inLine") /\ line' = Append(line, c) /\ UNCHANGED sem
  /\ UNCHANGED <<age, waiting, fails, cooling, stay, rest>>

SendToken(c) ==
  /\ IF sem < Slots
       THEN Goes(c, "counted", "served") /\ sem' = sem + 1 /\ UNCHANGED line
       ELSE Goes(c, "counted", "inLine") /\ line' = Append(line, c) /\ UNCHANGED sem
  /\ UNCHANGED <<age, waiting, fails, cooling, stay, rest>>

(* The time-out is counted from here, not from when the caller came.       *)
CountOut(c) ==
  /\ Goes(c, "served", "calling")
  /\ waiting' = waiting - 1
  /\ age' = [age EXCEPT ![c] = 0]
  /\ UNCHANGED <<sem, line, fails, cooling, stay, rest>>

(* An answer that can be read, whatever class it names.                    *)
recordSuccess(c) ==
  /\ Goes(c, "calling", "answered") /\ age[c] < Timeout
  /\ fails' = 0
  /\ UNCHANGED <<age, sem, line, waiting, cooling, stay, rest>>

(* Mutated: the breaker trips once and not again.                          *)
TripOnce(c) ==
  /\ Goes(c, "calling", "answered")
  /\ fails' = IF fails > Threshold THEN fails ELSE fails + 1
  /\ cooling' = IF fails' = Threshold THEN Cooldown ELSE cooling
  /\ rest' = [rest EXCEPT ![c] = IF fails' >= Threshold THEN Cooldown ELSE @]
  /\ UNCHANGED <<age, sem, line, waiting, stay>>

(* An error, an answer that cannot be read, or the time-out.               *)
recordFailure(c) ==
  /\ Goes(c, "calling", "answered")
  /\ fails' = IF fails > Threshold THEN fails ELSE fails + 1
  /\ cooling' = IF fails' >= Threshold THEN Cooldown ELSE cooling
  /\ rest' = [rest EXCEPT ![c] = IF fails' >= Threshold THEN Cooldown ELSE @]
  /\ UNCHANGED <<age, sem, line, waiting, stay>>

(* Mutated: the token is handed to the last in line.                       *)
ReleaseToLast(c) ==
  /\ IF line = <<>>
       THEN Goes(c, "answered", "out") /\ sem' = sem - 1 /\ UNCHANGED line
       ELSE /\ pc[c] = "answered"
            /\ pc' = [pc EXCEPT ![c] = "out", ![line[Len(line)]] = "served"]
            /\ line' = SubSeq(line, 1, Len(line) - 1) /\ UNCHANGED sem
  /\ stay' = [stay EXCEPT ![c] = 0]
  /\ UNCHANGED <<age, waiting, fails, cooling, rest>>

(* The deferred release: a receive from the channel lets its first blocked *)
(* sender in.                                                              *)
Release(c) ==
  /\ IF line = <<>>
       THEN Goes(c, "answered", "out") /\ sem' = sem - 1 /\ UNCHANGED line
       ELSE /\ pc[c] = "answered"
            /\ pc' = [pc EXCEPT ![c] = "out", ![Head(line)] = "served"]
            /\ line' = Tail(line) /\ UNCHANGED sem
  /\ stay' = [stay EXCEPT ![c] = 0]
  /\ UNCHANGED <<age, waiting, fails, cooling, rest>>

(* Time passes only while everyone inside waits, and never beyond the end  *)
(* of a call's time.                                                       *)
Less(n) == IF n > 0 THEN n - 1 ELSE 0
Tick ==
  /\ \A c \in Callers : pc[c] \notin Passing /\ (pc[c] = "calling" => age[c] < Timeout)
  /\ age'  = [c \in Callers |-> IF pc[c] = "calling" THEN age[c] + 1 ELSE 0]
  /\ stay' = [c \in Callers |-> IF pc[c] = "out" THEN 0 ELSE stay[c] + 1]
  /\ rest' = [c \in Callers |-> Less(rest[c])]
  /\ cooling' = Less(cooling)
  /\ UNCHANGED <<pc, sem, line, waiting, fails>>

Step(c) ==
  \/ Enter(c) \/ CountIn(c) \/ Refused(c) \/ SendToken(c) \/ CountOut(c)
  \/ recordSuccess(c) \/ recordFailure(c) \/ Release(c)

Next == Tick \/ \E c \in Callers : Step(c)

Spec == Init /\ [][Next]_vars
-----------------------------------------------------------------------------
Are(places) == {c \in Callers : pc[c] \in places}

TypeOK ==
  /\ pc \in [Callers -> Place]
  /\ age \in [Callers -> 0..Timeout]
  /\ sem \in 0..Slots
  /\ {line[i] : i \in DOMAIN line} = Are({"inLine"}) /\ Len(line) = Cardinality(Are({"inLine"}))
  /\ fails \in 0..(Threshold + 1) /\ cooling \in 0..Cooldown
  /\ rest \in [Callers -> 0..Cooldown]

(* No slot and no place in the line is ever lost, however callers come,    *)
(* are refused, wait and leave: the counter and the tokens are the callers *)
(* that they stand for, and nobody waits while a slot is free.             *)
NothingLeaks ==
  /\ waiting = Cardinality(Are({"counted", "refused", "inLine", "served"}))
  /\ sem = Cardinality(Are({"served", "calling", "answered"}))
  /\ line # <<>> => sem = Slots

(* A model that hangs holds a caller up for its own time-out and those of  *)
(* the calls served before it, never longer: with a full line, one         *)
(* time-out for each row of Slots callers in it.                           *)
StayIsBounded ==
  \A c \in Callers : stay[c] <= Timeout * (1 + (MaxWait + Slots - 1) \div Slots)

(* Whoever saw the breaker trip calls no more until the cooldown is over,  *)
(* whatever the others' calls, begun before or since, come to: a caller    *)
(* alone spends one time-out per cooldown on a model that hangs.           *)
TrippedMeansRest == \A c \in Callers : rest[c] > 0 => pc[c] \in {"answered", "out"}
=============================================================================
