---------------------------- MODULE BreakerProofs ----------------------------
(***************************************************************************)
(* Theorems about the client of the language model, for every number of    *)
(* callers and slots and every limit.                                      *)
(***************************************************************************)
EXTENDS Breaker, FiniteSetTheorems, SequenceTheorems, TLAPS

(* Whom the counter, the channel and the line stand for.                   *)
Counted == {"counted", "refused", "inLine", "served"}
Holding == {"served", "calling", "answered"}

Counts ==
  /\ waiting = Cardinality(Are(Counted))
  /\ sem = Cardinality(Are(Holding))
  /\ sem <= Slots
  /\ line # <<>> => sem = Slots

Lined ==
  /\ line \in Seq(Callers)
  /\ \A c \in Callers : pc[c] = "inLine" <=> \E i \in 1..Len(line) : line[i] = c
  /\ \A i, j \in 1..Len(line) : line[i] = line[j] => i = j
  /\ Len(line) = Cardinality(Are({"inLine"}))

Clocks ==
  /\ age \in [Callers -> 0..Timeout]
  /\ fails \in 0..(Threshold + 1)
  /\ cooling \in 0..Cooldown

(* Nobody has more of the cooldown left than the breaker has.              *)
Rests ==
  /\ rest \in [Callers -> 0..Cooldown]
  /\ \A c \in Callers : rest[c] <= cooling
  /\ TrippedMeansRest

BreakerInv == pc \in [Callers -> Place] /\ Counts /\ Lined /\ Clocks /\ Rests

-----------------------------------------------------------------------------
LEMMA Limits ==
  /\ Slots \in Nat /\ Slots > 0 /\ Threshold \in Nat /\ Threshold > 0
  /\ Cooldown \in Nat /\ Cooldown > 0 /\ Timeout \in Nat /\ Timeout > 0
BY LimitsAssumption

(* Callers are finitely many wherever they are.                            *)
LEMMA AreFinite ==
  ASSUME NEW P
  PROVE  IsFiniteSet(Are(P)) /\ Cardinality(Are(P)) \in Nat
<1>1. Are(P) \in SUBSET Callers
  BY DEF Are
<1> QED BY <1>1, CallersAssumption, FS_Subset, FS_CardinalityType

(* A caller that goes from one place to another is one less of those here  *)
(* and one more of those there.                                            *)
At(f, P) == {c \in Callers : f[c] \in P}

Changes(n, m, from, to, P) ==
  /\ (from \in P <=> to \in P) => m = n
  /\ from \notin P /\ to \in P => m = n + 1
  /\ from \in P /\ to \notin P => m = n - 1

LEMMA Moves ==
  ASSUME NEW f \in [Callers -> Place], NEW c \in Callers, NEW to, NEW P,
         NEW g, g = [f EXCEPT ![c] = to]
  PROVE  /\ Cardinality(At(f, P)) \in Nat
         /\ Changes(Cardinality(At(f, P)), Cardinality(At(g, P)), f[c], to, P)
<1>1. \A d \in Callers : g[d] = IF d = c THEN to ELSE f[d]
  OBVIOUS
<1>2. IsFiniteSet(At(f, P)) /\ Cardinality(At(f, P)) \in Nat
  <2>1. At(f, P) \in SUBSET Callers
    BY DEF At
  <2> QED BY <2>1, CallersAssumption, FS_Subset, FS_CardinalityType
<1>3. ASSUME f[c] \notin P, to \in P
      PROVE  Cardinality(At(g, P)) = Cardinality(At(f, P)) + 1
  <2>1. At(g, P) = At(f, P) \cup {c} /\ c \notin At(f, P)
    BY <1>1, <1>3 DEF At
  <2> QED BY <1>2, <2>1, FS_AddElement
<1>4. ASSUME f[c] \in P, to \notin P
      PROVE  Cardinality(At(g, P)) = Cardinality(At(f, P)) - 1
  <2>1. At(g, P) = At(f, P) \ {c} /\ c \in At(f, P)
    BY <1>1, <1>4 DEF At
  <2> QED BY <1>2, <2>1, FS_RemoveElement
<1>5. (f[c] \in P <=> to \in P) => At(g, P) = At(f, P)
  BY <1>1 DEF At
<1> QED BY <1>2, <1>3, <1>4, <1>5 DEF Changes

(* So the counter, the tokens and the line that a move has to leave.       *)
LEMMA CountsMove ==
  ASSUME BreakerInv, NEW c \in Callers, NEW to, pc' = [pc EXCEPT ![c] = to]
  PROVE  /\ waiting \in Nat /\ sem \in Nat
         /\ Changes(waiting, Cardinality(Are(Counted)'), pc[c], to, Counted)
         /\ Changes(sem, Cardinality(Are(Holding)'), pc[c], to, Holding)
         /\ Changes(Len(line), Cardinality(Are({"inLine"})'), pc[c], to, {"inLine"})
<1>1. /\ waiting = Cardinality(Are(Counted)) /\ sem = Cardinality(Are(Holding))
      /\ Len(line) = Cardinality(Are({"inLine"})) /\ pc \in [Callers -> Place]
  BY DEF BreakerInv, Counts, Lined
<1>2. /\ Are(Counted) = At(pc, Counted) /\ Are(Counted)' = At(pc', Counted)
      /\ Are(Holding) = At(pc, Holding) /\ Are(Holding)' = At(pc', Holding)
      /\ Are({"inLine"}) = At(pc, {"inLine"}) /\ Are({"inLine"})' = At(pc', {"inLine"})
  BY DEF Are, At, Counted, Holding
<1>3. ASSUME NEW P
      PROVE  /\ Cardinality(At(pc, P)) \in Nat
             /\ Changes(Cardinality(At(pc, P)), Cardinality(At(pc', P)), pc[c], to, P)
  BY <1>1, Moves
<1> QED BY <1>1, <1>2, <1>3

(* A move that is not into the line or out of it.                          *)
LEMMA LineStays ==
  ASSUME BreakerInv, NEW c \in Callers, NEW to, pc[c] # "inLine", to # "inLine",
         pc' = [pc EXCEPT ![c] = to], UNCHANGED line
  PROVE  Lined'
<1>1. Cardinality(Are({"inLine"})') = Len(line)
  BY CountsMove DEF Changes
<1>2. \A d \in Callers : pc'[d] = "inLine" <=> pc[d] = "inLine"
  BY DEF BreakerInv
<1> QED BY <1>1, <1>2 DEF BreakerInv, Lined

(* The breaker is not touched, and nobody still resting comes in.          *)
LEMMA RestStays ==
  ASSUME BreakerInv, NEW c \in Callers, NEW to,
         pc' = [pc EXCEPT ![c] = to], rest[c] > 0 => to \in {"answered", "out"},
         UNCHANGED <<cooling, rest>>
  PROVE  Rests'
BY DEF BreakerInv, Rests, TrippedMeansRest

-----------------------------------------------------------------------------
(* The steps.                                                              *)

LEMMA ComingInKeepsInv ==
  ASSUME BreakerInv, NEW c \in Callers, Enter(c) \/ CountIn(c) \/ Refused(c) \/ CountOut(c)
  PROVE  BreakerInv'
<1>1. PICK to \in {"entered", "refused", "counted", "out", "calling"} :
        /\ pc' = [pc EXCEPT ![c] = to]
        /\ \/ Enter(c) /\ to = "entered"
           \/ CountIn(c) /\ to \in {"refused", "counted"}
           \/ Refused(c) /\ to = "out"
           \/ CountOut(c) /\ to = "calling"
  BY DEF Enter, CountIn, Refused, CountOut, Goes
<1>2. to \in Place /\ pc[c] # "inLine" /\ to # "inLine" /\ UNCHANGED <<sem, line, fails, cooling, rest>>
  BY <1>1 DEF Place, Enter, CountIn, Refused, CountOut, Goes
<1>3. pc' \in [Callers -> Place]
  BY <1>1, <1>2 DEF BreakerInv
<1>4. Lined'
  BY <1>1, <1>2, LineStays
<1>5. Cardinality(Are(Counted)') = waiting' /\ Cardinality(Are(Holding)') = sem'
  <2>1. waiting \in Nat /\ sem \in Nat
    BY AreFinite DEF BreakerInv, Counts
  <2>2. CASE Enter(c) /\ to = "entered"
    <3>1. pc[c] = "out" /\ waiting' = waiting
      BY <2>2 DEF Enter, Goes
    <3> QED BY <1>1, <1>2, <2>2, <3>1, CountsMove DEF Changes, Counted, Holding
  <2>3. CASE CountIn(c) /\ to \in {"refused", "counted"}
    <3>1. pc[c] = "entered" /\ waiting' = waiting + 1
      BY <2>3 DEF CountIn, Goes
    <3> QED BY <1>1, <1>2, <2>3, <3>1, CountsMove DEF Changes, Counted, Holding
  <2>4. CASE Refused(c) /\ to = "out"
    <3>1. pc[c] = "refused" /\ waiting' = waiting - 1
      BY <2>4 DEF Refused, Goes
    <3> QED BY <1>1, <1>2, <2>4, <3>1, CountsMove DEF Changes, Counted, Holding
  <2>5. CASE CountOut(c) /\ to = "calling"
    <3>1. pc[c] = "served" /\ waiting' = waiting - 1
      BY <2>5 DEF CountOut, Goes
    <3> QED BY <1>1, <1>2, <2>5, <3>1, CountsMove DEF Changes, Counted, Holding
  <2> QED BY <1>1, <2>2, <2>3, <2>4, <2>5
<1>6. Counts'
  BY <1>2, <1>5 DEF BreakerInv, Counts
<1>7. age' \in [Callers -> 0..Timeout]
  BY Limits DEF BreakerInv, Clocks, Enter, CountIn, Refused, CountOut
<1>8. Clocks'
  BY <1>2, <1>7 DEF BreakerInv, Clocks
<1>9. Rests'
  <2>1. rest[c] > 0 => to = "out"
    <3>1. CASE Enter(c)
      BY <3>1 DEF Enter, BreakerInv, Rests
    <3>2. CASE ~Enter(c)
      BY <1>1, <3>2 DEF CountIn, Refused, CountOut, Goes, BreakerInv, Rests, TrippedMeansRest
    <3> QED BY <3>1, <3>2
  <2> QED BY <1>1, <1>2, <2>1, RestStays
<1> QED BY <1>3, <1>4, <1>6, <1>8, <1>9 DEF BreakerInv

(* The channel is full, or it takes one more.                              *)
LEMMA SendTokenKeepsInv ==
  ASSUME BreakerInv, NEW c \in Callers, SendToken(c)
  PROVE  BreakerInv'
<1>1. pc[c] = "counted" /\ rest[c] = 0 /\ sem \in Nat /\ UNCHANGED <<age, waiting, fails, cooling, rest>>
  BY AreFinite DEF SendToken, Goes, BreakerInv, Counts, Rests, TrippedMeansRest
<1>2. Clocks'
  BY <1>1 DEF BreakerInv, Clocks
<1>3. CASE sem < Slots
  <2>1. pc' = [pc EXCEPT ![c] = "served"] /\ sem' = sem + 1 /\ UNCHANGED line
    BY <1>3 DEF SendToken, Goes
  <2>2. pc' \in [Callers -> Place] /\ Rests'
    <3>1. rest[c] > 0 => "served" \in {"answered", "out"}
      BY <1>1
    <3>2. Rests'
      BY <1>1, <2>1, <3>1, RestStays
    <3> QED BY <2>1, <3>2 DEF BreakerInv, Place
  <2>3. Lined'
    BY <1>1, <2>1, LineStays
  <2>4. Cardinality(Are(Counted)') = waiting' /\ Cardinality(Are(Holding)') = sem'
    <3>1. /\ Changes(waiting, Cardinality(Are(Counted)'), "counted", "served", Counted)
          /\ Changes(sem, Cardinality(Are(Holding)'), "counted", "served", Holding)
      BY <1>1, <2>1, CountsMove
    <3> QED BY <1>1, <2>1, <3>1 DEF Changes, Counted, Holding
  <2>5. line = <<>>
    BY <1>3, Limits DEF BreakerInv, Counts
  <2> QED BY <1>1, <1>2, <1>3, <2>1, <2>2, <2>3, <2>4, <2>5, Limits DEF BreakerInv, Counts
<1>4. CASE ~(sem < Slots)
  <2>1. pc' = [pc EXCEPT ![c] = "inLine"] /\ line' = Append(line, c) /\ UNCHANGED sem
    BY <1>4 DEF SendToken, Goes
  <2>2. pc' \in [Callers -> Place] /\ Rests'
    <3>1. rest[c] > 0 => "inLine" \in {"answered", "out"}
      BY <1>1
    <3>2. Rests'
      BY <1>1, <2>1, <3>1, RestStays
    <3> QED BY <2>1, <3>2 DEF BreakerInv, Place
  <2>3. Lined'
    <3> DEFINE n == Len(line)
    <3>1. /\ n \in Nat /\ line' \in Seq(Callers) /\ Len(line') = n + 1
          /\ \A i \in 1..n : line'[i] = line[i]
          /\ line'[n + 1] = c
      BY <2>1 DEF BreakerInv, Lined
    <3>2. \A i \in 1..n : line[i] # c
      BY <1>1 DEF BreakerInv, Lined
    <3>3. Cardinality(Are({"inLine"})') = n + 1
      BY <1>1, <2>1, <3>1, CountsMove DEF Changes
    <3> HIDE DEF n
    <3>4. \A i, j \in 1..(n + 1) : line'[i] = line'[j] => i = j
      <4>1. \A i \in 1..(n + 1) : i \in 1..n \/ i = n + 1
        BY <3>1
      <4> QED BY <3>1, <3>2, <4>1 DEF BreakerInv, Lined, n
    <3>5. ASSUME NEW d \in Callers
          PROVE  pc'[d] = "inLine" <=> \E i \in 1..(n + 1) : line'[i] = d
      <4>1. (\E i \in 1..(n + 1) : line'[i] = d) <=> d = c \/ \E i \in 1..n : line[i] = d
        BY <3>1
      <4>2. pc[d] = "inLine" <=> \E i \in 1..n : line[i] = d
        BY DEF BreakerInv, Lined, n
      <4> QED BY <2>1, <4>1, <4>2 DEF BreakerInv
    <3> QED BY <3>1, <3>3, <3>4, <3>5 DEF Lined
  <2>4. Cardinality(Are(Counted)') = waiting' /\ Cardinality(Are(Holding)') = sem'
    <3>1. /\ Changes(waiting, Cardinality(Are(Counted)'), "counted", "inLine", Counted)
          /\ Changes(sem, Cardinality(Are(Holding)'), "counted", "inLine", Holding)
      BY <1>1, <2>1, CountsMove
    <3> QED BY <1>1, <2>1, <3>1 DEF Changes, Counted, Holding
  <2>5. sem = Slots
    BY <1>1, <1>4, Limits DEF BreakerInv, Counts
  <2> QED BY <1>1, <1>2, <2>1, <2>2, <2>3, <2>4, <2>5, Limits DEF BreakerInv, Counts
<1> QED BY <1>3, <1>4

(* A call ends, well or not.                                               *)
LEMMA CallEndsKeepsInv ==
  ASSUME BreakerInv, NEW c \in Callers, recordSuccess(c) \/ recordFailure(c)
  PROVE  BreakerInv'
<1>1. /\ pc[c] = "calling" /\ pc' = [pc EXCEPT ![c] = "answered"]
      /\ UNCHANGED <<age, sem, line, waiting>>
  BY DEF recordSuccess, recordFailure, Goes
<1>2. pc' \in [Callers -> Place]
  BY <1>1 DEF BreakerInv, Place
<1>3. Lined'
  BY <1>1, LineStays
<1>4. Cardinality(Are(Counted)') = waiting' /\ Cardinality(Are(Holding)') = sem'
  <2>1. /\ Changes(waiting, Cardinality(Are(Counted)'), "calling", "answered", Counted)
        /\ Changes(sem, Cardinality(Are(Holding)'), "calling", "answered", Holding)
    BY <1>1, CountsMove
  <2> QED BY <1>1, <2>1 DEF Changes, Counted, Holding
<1>5. Counts'
  BY <1>1, <1>4 DEF BreakerInv, Counts
<1>6. Clocks' /\ Rests'
  <2>1. CASE recordSuccess(c)
    <3>1. fails' = 0 /\ UNCHANGED <<cooling, rest>>
      BY <2>1 DEF recordSuccess
    <3>2. Rests'
      BY <1>1, <3>1, RestStays
    <3> QED BY <1>1, <3>1, <3>2, Limits DEF BreakerInv, Clocks
  <2>2. CASE recordFailure(c)
    <3>1. fails' \in 0..(Threshold + 1) /\ fails \in Nat
      BY <2>2, Limits DEF recordFailure, BreakerInv, Clocks
    <3>2. CASE fails' >= Threshold
      <4>1. cooling' = Cooldown /\ rest' = [rest EXCEPT ![c] = Cooldown]
        BY <2>2, <3>2 DEF recordFailure
      <4> QED BY <1>1, <3>1, <4>1, Limits DEF BreakerInv, Clocks, Rests, TrippedMeansRest
    <3>3. CASE ~(fails' >= Threshold)
      <4>1. cooling' = cooling /\ rest' = rest
        BY <2>2, <3>3 DEF recordFailure, BreakerInv, Rests
      <4>2. Rests'
        BY <1>1, <4>1, RestStays
      <4> QED BY <1>1, <3>1, <4>1, <4>2 DEF BreakerInv, Clocks
    <3> QED BY <3>2, <3>3
  <2> QED BY <2>1, <2>2
<1> QED BY <1>2, <1>3, <1>5, <1>6 DEF BreakerInv

(* A slot is given back, to the first in line if there is one.             *)
LEMMA ReleaseKeepsInv ==
  ASSUME BreakerInv, NEW c \in Callers, Release(c)
  PROVE  BreakerInv'
<1>1. pc[c] = "answered" /\ UNCHANGED <<age, waiting, fails, cooling, rest>> /\ sem \in Nat
  BY AreFinite DEF Release, Goes, BreakerInv, Counts
<1>2. Clocks'
  BY <1>1 DEF BreakerInv, Clocks
<1>3. CASE line = <<>>
  <2>1. pc' = [pc EXCEPT ![c] = "out"] /\ sem' = sem - 1 /\ UNCHANGED line
    BY <1>3 DEF Release, Goes
  <2>2. pc' \in [Callers -> Place] /\ Rests'
    <3>1. Rests'
      BY <1>1, <2>1, RestStays
    <3> QED BY <2>1, <3>1 DEF BreakerInv, Place
  <2>3. Lined'
    BY <1>1, <2>1, LineStays
  <2>4. Cardinality(Are(Counted)') = waiting' /\ Cardinality(Are(Holding)') = sem'
    <3>1. /\ Changes(waiting, Cardinality(Are(Counted)'), "answered", "out", Counted)
          /\ Changes(sem, Cardinality(Are(Holding)'), "answered", "out", Holding)
      BY <1>1, <2>1, CountsMove
    <3> QED BY <1>1, <2>1, <3>1 DEF Changes, Counted, Holding
  <2> QED BY <1>1, <1>2, <1>3, <2>1, <2>2, <2>3, <2>4, Limits DEF BreakerInv, Counts
<1>4. CASE line # <<>>
  <2> DEFINE h == Head(line)
             n == Len(line)
  <2>1. /\ n \in Nat /\ n > 0 /\ h = line[1] /\ h \in Callers
        /\ Tail(line) \in Seq(Callers) /\ Len(Tail(line)) = n - 1
        /\ \A i \in 1..(n - 1) : Tail(line)[i] = line[i + 1]
    BY <1>4 DEF BreakerInv, Lined
  <2>2. pc[h] = "inLine" /\ h # c /\ rest[h] = 0
    BY <1>1, <2>1 DEF BreakerInv, Lined, Rests, TrippedMeansRest
  <2>3. pc' = [pc EXCEPT ![c] = "out", ![h] = "served"] /\ line' = Tail(line) /\ UNCHANGED sem
    BY <1>4 DEF Release
  <2> HIDE DEF h, n
  <2>4. /\ pc' \in [Callers -> Place]
        /\ \A d \in Callers : pc'[d] = IF d = h THEN "served" ELSE IF d = c THEN "out" ELSE pc[d]
    BY <2>1, <2>2, <2>3 DEF BreakerInv, Place
  <2>5. Rests'
    BY <1>1, <2>2, <2>4 DEF BreakerInv, Rests, TrippedMeansRest
  <2>6. Are(Counted)' = Are(Counted)
    BY <1>1, <2>1, <2>2, <2>4 DEF Are, Counted
  <2>7. Cardinality(Are(Holding)') = Cardinality(Are(Holding))
    <3>1. /\ Are(Holding)' = (Are(Holding) \ {c}) \cup {h}
          /\ c \in Are(Holding) /\ h \notin Are(Holding) \ {c}
      BY <1>1, <2>1, <2>2, <2>4 DEF Are, Holding
    <3>2. IsFiniteSet(Are(Holding)) /\ Cardinality(Are(Holding)) \in Nat
      BY AreFinite
    <3>3. /\ IsFiniteSet(Are(Holding) \ {c})
          /\ Cardinality(Are(Holding) \ {c}) = Cardinality(Are(Holding)) - 1
      BY <3>1, <3>2, FS_RemoveElement
    <3>4. Cardinality((Are(Holding) \ {c}) \cup {h}) = Cardinality(Are(Holding) \ {c}) + 1
      BY <3>1, <3>3, FS_AddElement
    <3> QED BY <3>1, <3>2, <3>3, <3>4
  <2>8. Lined'
    <3>1. Cardinality(Are({"inLine"})') = n - 1
      <4>1. Are({"inLine"})' = Are({"inLine"}) \ {h} /\ h \in Are({"inLine"})
        BY <1>1, <2>1, <2>2, <2>4 DEF Are
      <4> QED BY <4>1, AreFinite, FS_RemoveElement DEF BreakerInv, Lined, n
    <3>2. \A i, j \in 1..(n - 1) : line'[i] = line'[j] => i = j
      BY <2>1, <2>3 DEF BreakerInv, Lined, n
    <3>3. ASSUME NEW d \in Callers
          PROVE  pc'[d] = "inLine" <=> \E i \in 1..(n - 1) : line'[i] = d
      <4>1. pc'[d] = "inLine" <=> pc[d] = "inLine" /\ d # h
        BY <1>1, <2>2, <2>4
      <4>2. pc[d] = "inLine" <=> \E i \in 1..n : line[i] = d
        BY DEF BreakerInv, Lined, n
      <4>3. ASSUME NEW i \in 1..n, line[i] = d, d # h
            PROVE  i - 1 \in 1..(n - 1) /\ line'[i - 1] = d
        BY <2>1, <2>3, <4>3
      <4>4. ASSUME NEW i \in 1..(n - 1), line'[i] = d
            PROVE  i + 1 \in 1..n /\ line[i + 1] = d /\ d # h
        BY <2>1, <2>3, <4>4 DEF BreakerInv, Lined, n
      <4> QED BY <4>1, <4>2, <4>3, <4>4
    <3> QED BY <2>1, <2>3, <3>1, <3>2, <3>3 DEF Lined
  <2> QED BY <1>1, <1>2, <1>4, <2>3, <2>4, <2>5, <2>6, <2>7, <2>8 DEF BreakerInv, Counts
<1> QED BY <1>3, <1>4

(* Time passes.                                                            *)
LEMMA TickKeepsInv ==
  ASSUME BreakerInv, Tick
  PROVE  BreakerInv'
<1>1. UNCHANGED <<pc, sem, line, waiting, fails>>
  BY DEF Tick
<1>2. Counts' /\ Lined' /\ pc' \in [Callers -> Place]
  BY <1>1 DEF BreakerInv, Counts, Lined, Are
<1>3. Clocks'
  BY <1>1, Limits DEF BreakerInv, Clocks, Tick, Less
<1>4. Rests'
  BY <1>1, Limits DEF BreakerInv, Clocks, Rests, TrippedMeansRest, Tick, Less
<1> QED BY <1>2, <1>3, <1>4 DEF BreakerInv

-----------------------------------------------------------------------------
(* How long a stay can be.  A slot changes hands at least once in every    *)
(* Timeout, so the line moves on by Slots callers.                         *)

Longest == Timeout * ((MaxWait + Slots - 1) \div Slots)

(* What a holder of a slot has behind it of the time of its call.          *)
Spent(c) ==
  CASE pc[c] = "calling"  -> age[c]
    [] pc[c] = "answered" -> Timeout
    [] OTHER              -> 0

Older(n) == {c \in Are(Holding) : Spent(c) >= n}

(* Whoever has i - 1 callers before it in the line, q rows of Slots and    *)
(* some of the next, waits for as many of the holders as there are in that *)
(* last one, and then for q calls.  They are old enough for its stay.      *)
InTime(i, q) ==
  /\ q * Slots < i
  /\ Cardinality(Older(stay[line[i]] + (q + 1) * Timeout - Longest)) >= i - q * Slots

Queued == \A i \in 1..Len(line) : \E q \in Nat : InTime(i, q)

(* The time of the others is counted in ticks they were let in after.      *)
Stays ==
  /\ stay \in [Callers -> Nat]
  /\ \A c \in Callers :
       /\ pc[c] \in {"out", "entered", "counted", "refused"} => stay[c] = 0
       /\ pc[c] \in Holding => stay[c] <= Longest + Spent(c)

(* The line and those about to join it fit in.                             *)
Joining  == {"counted", "inLine"}
Admitted == Cardinality(Are(Joining)) <= MaxWait

StayInv == Admitted /\ Stays /\ Queued

LEMMA LongestIsNat ==
  /\ MaxWait \in Nat /\ MaxWait > 0
  /\ (MaxWait + Slots - 1) \div Slots \in Nat /\ Longest \in Nat
<1>1. MaxWait \in Nat /\ MaxWait > 0 /\ Slots \in Nat /\ Slots > 0 /\ Timeout \in Nat
  BY LimitsAssumption
<1>2. (MaxWait + Slots - 1) \div Slots \in Nat
  BY <1>1
<1>3. \A m, n \in Nat : m * n \in Nat
  OBVIOUS
<1> QED BY <1>1, <1>2, <1>3 DEF Longest

LEMMA OlderAreFinite ==
  ASSUME NEW n
  PROVE  /\ IsFiniteSet(Older(n)) /\ Cardinality(Older(n)) \in Nat
         /\ Cardinality(Older(n)) <= Cardinality(Are(Holding))
<1>1. Older(n) \subseteq Are(Holding)
  BY DEF Older
<1> QED BY <1>1, AreFinite, FS_Subset, FS_CardinalityType

LEMMA SpentIsNat ==
  ASSUME BreakerInv, NEW c \in Callers
  PROVE  Spent(c) \in Nat /\ Spent(c) <= Timeout
BY Limits DEF BreakerInv, Clocks, Spent

(* A caller in the line is in time.                                        *)
LEMMA LineIsInTime ==
  ASSUME BreakerInv, StayInv, NEW i \in 1..Len(line), NEW q \in Nat, InTime(i, q)
  PROVE  /\ line[i] \in Callers /\ stay[line[i]] \in Nat
         /\ q * Slots \in Nat /\ q * Timeout \in Nat
         /\ stay[line[i]] + q * Timeout <= Longest
<1> DEFINE n == stay[line[i]] + (q + 1) * Timeout - Longest
<1>1. line[i] \in Callers /\ stay[line[i]] \in Nat /\ i \in Nat
  BY DEF BreakerInv, Lined, StayInv, Stays
<1>2. /\ q * Slots \in Nat /\ q * Timeout \in Nat
      /\ (q + 1) * Timeout = q * Timeout + Timeout
  BY Limits
<1>3. Older(n) # {}
  <2>1. Cardinality(Older(n)) >= i - q * Slots /\ i - q * Slots > 0
    BY <1>1, <1>2 DEF InTime
  <2>2. Cardinality(Older(n)) # 0
    BY <1>1, <1>2, <2>1, OlderAreFinite
  <2> QED BY <2>2, FS_EmptySet
<1>4. PICK c \in Callers : Spent(c) >= n
  BY <1>3 DEF Older, Are
<1>5. Spent(c) \in Nat /\ Spent(c) <= Timeout
  BY SpentIsNat
<1> HIDE DEF n
<1>6. n <= Timeout /\ n = stay[line[i]] + q * Timeout + Timeout - Longest
  <2>1. n = stay[line[i]] + (q + 1) * Timeout - Longest
    BY DEF n
  <2> QED BY <1>1, <1>2, <1>4, <1>5, <2>1, LongestIsNat, Limits
<1> QED BY <1>1, <1>2, <1>6, LongestIsNat, Limits

(* Callers go between other places, and the holders grow no younger.       *)
LEMMA QueuedStays ==
  ASSUME BreakerInv, StayInv, UNCHANGED <<line, stay>>,
         Are(Holding) \subseteq Are(Holding)',
         \A d \in Are(Holding) : Spent(d)' \in Nat /\ Spent(d) <= Spent(d)'
  PROVE  Queued'
<1>1. ASSUME NEW n \in Int
      PROVE  Cardinality(Older(n)') >= Cardinality(Older(n)) /\ Cardinality(Older(n)') \in Nat
  <2>1. Older(n) \subseteq Older(n)'
    <3>1. \A d \in Are(Holding) : Spent(d) \in Nat
      BY SpentIsNat DEF Are
    <3> QED BY <3>1 DEF Older
  <2>2. IsFiniteSet(Older(n)')
    <3>1. Older(n)' \in SUBSET Callers
      BY DEF Older, Are
    <3> QED BY <3>1, CallersAssumption, FS_Subset
  <2> QED BY <2>1, <2>2, FS_Subset, FS_CardinalityType
<1> SUFFICES ASSUME NEW i \in 1..Len(line), NEW q \in Nat, InTime(i, q)
             PROVE  InTime(i, q)'
  BY DEF StayInv, Queued
<1> PICK n : n = stay[line[i]] + (q + 1) * Timeout - Longest
  OBVIOUS
<1>3. /\ i \in Nat /\ q * Slots \in Nat /\ n \in Int
  <2>1. (q + 1) * Timeout \in Nat
    BY Limits
  <2>2. /\ stay[line[i]] \in Nat /\ q * Slots \in Nat /\ Longest \in Nat
    BY LineIsInTime, LongestIsNat
  <2>3. \A a, b, d \in Nat : a + b - d \in Int
    OBVIOUS
  <2> QED BY <2>1, <2>2, <2>3
<1>4. q * Slots < i /\ Cardinality(Older(n)) >= i - q * Slots
  BY DEF InTime
<1>5. Cardinality(Older(n)') >= i - q * Slots
  <2>1. PICK a, b, z : a = Cardinality(Older(n)') /\ b = Cardinality(Older(n)) /\ z = i - q * Slots
    OBVIOUS
  <2>2. a \in Nat /\ b \in Nat /\ a >= b
    BY <1>1, <1>3, <2>1, OlderAreFinite
  <2>3. z \in Int /\ b >= z
    <3>1. \A x, y \in Nat : x - y \in Int
      OBVIOUS
    <3> QED BY <1>3, <1>4, <2>1, <3>1
  <2>4. a >= z
    BY <2>2, <2>3
  <2> QED BY <2>1, <2>4
<1> QED BY <1>4, <1>5 DEF InTime

-----------------------------------------------------------------------------
(* The same steps.                                                         *)

LEMMA JoiningMoves ==
  ASSUME BreakerInv, NEW c \in Callers, NEW to, pc' = [pc EXCEPT ![c] = to]
  PROVE  /\ Cardinality(Are(Joining)) \in Nat
         /\ Changes(Cardinality(Are(Joining)), Cardinality(Are(Joining)'), pc[c], to, Joining)
<1>1. Are(Joining) = At(pc, Joining) /\ Are(Joining)' = At(pc', Joining)
  BY DEF Are, At, Joining
<1>2. pc \in [Callers -> Place]
  BY DEF BreakerInv
<1> QED BY <1>1, <1>2, Moves

(* Nobody joins.                                                           *)
LEMMA AdmittedStays ==
  ASSUME BreakerInv, StayInv, NEW c \in Callers, NEW to, pc' = [pc EXCEPT ![c] = to],
         pc[c] \in Joining \/ to \notin Joining
  PROVE  Admitted'
<1> PICK m : m = Cardinality(Are(Joining))
  OBVIOUS
<1> PICK k : k = Cardinality(Are(Joining)')
  OBVIOUS
<1>1. m <= MaxWait /\ (Admitted' <=> k <= MaxWait)
  BY DEF StayInv, Admitted, Joining
<1>2. m \in Nat /\ (k = m \/ k = m - 1)
  BY JoiningMoves DEF Changes
<1> QED BY <1>1, <1>2, LongestIsNat

LEMMA ComingInKeepsStay ==
  ASSUME BreakerInv, StayInv, NEW c \in Callers, Enter(c) \/ CountIn(c) \/ Refused(c) \/ CountOut(c)
  PROVE  StayInv'
<1>1. PICK to \in {"entered", "refused", "counted", "out", "calling"} :
        /\ pc' = [pc EXCEPT ![c] = to] /\ UNCHANGED <<line, stay>>
        /\ \/ pc[c] = "out" /\ to = "entered" /\ UNCHANGED age
           \/ CountIn(c) /\ pc[c] = "entered" /\ to \in {"refused", "counted"} /\ UNCHANGED age
           \/ pc[c] = "refused" /\ to = "out" /\ UNCHANGED age
           \/ pc[c] = "served" /\ to = "calling" /\ age' = [age EXCEPT ![c] = 0]
  BY DEF Enter, CountIn, Refused, CountOut, Goes
<1>2. /\ pc \in [Callers -> Place] /\ age \in [Callers -> 0..Timeout]
      /\ \A d \in Callers : pc'[d] = IF d = c THEN to ELSE pc[d]
      /\ \A d \in Callers \ {c} : age'[d] = age[d]
  BY <1>1 DEF BreakerInv, Clocks
<1>3. \A d \in Callers \ {c} : Spent(d)' = Spent(d)
  BY <1>2 DEF Spent
<1>4. pc[c] \in Holding \/ to \in Holding
        => pc[c] = "served" /\ to = "calling" /\ Spent(c) = 0 /\ Spent(c)' = 0
  BY <1>1, <1>2 DEF Holding, Spent
<1>5. Admitted'
  <2>1. CASE to = "counted"
    <3>1. CountIn(c) /\ waiting + 1 <= MaxWait
      <4>1. CountIn(c) /\ pc' = [pc EXCEPT ![c] = IF waiting + 1 > MaxWait THEN "refused" ELSE "counted"]
        BY <1>1, <2>1 DEF CountIn, Goes
      <4>2. pc'[c] = "counted" /\ pc'[c] = IF waiting + 1 > MaxWait THEN "refused" ELSE "counted"
        BY <1>2, <2>1, <4>1
      <4>3. waiting \in Nat
        BY AreFinite DEF BreakerInv, Counts
      <4> QED BY <4>1, <4>2, <4>3, LongestIsNat
    <3>2. Cardinality(Are(Joining)) <= waiting /\ waiting \in Nat
      <4>1. Are(Joining) \subseteq Are(Counted)
        BY DEF Are, Joining, Counted
      <4> QED BY <4>1, AreFinite, FS_Subset DEF BreakerInv, Counts
    <3>3. Cardinality(Are(Joining)') = Cardinality(Are(Joining)) + 1
      BY <1>1, <2>1, JoiningMoves DEF Changes, Joining
    <3>4. Cardinality(Are(Joining)') <= MaxWait
      <4>1. Cardinality(Are(Joining)) \in Nat
        BY AreFinite
      <4> QED BY <3>1, <3>2, <3>3, <4>1, LongestIsNat
    <3> QED BY <3>4 DEF Admitted, Joining
  <2>2. CASE to # "counted"
    <3>1. to \notin Joining
      BY <1>1, <2>2 DEF Joining
    <3> QED BY <1>1, <3>1, AdmittedStays
  <2> QED BY <2>1, <2>2
<1>6. Stays'
  <2>1. ASSUME NEW d \in Callers
        PROVE  /\ pc'[d] \in {"out", "entered", "counted", "refused"} => stay'[d] = 0
               /\ pc'[d] \in Holding => stay'[d] <= Longest + Spent(d)'
    <3>1. CASE d # c
      BY <1>1, <1>2, <1>3, <3>1 DEF StayInv, Stays
    <3>2. CASE d = c
      <4>1. to # "calling" => pc[c] \in {"out", "entered", "refused"}
        BY <1>1
      <4>2. to \in {"out", "entered", "counted", "refused"} => stay[c] = 0
        BY <4>1 DEF StayInv, Stays
      <4>3. to \in Holding => stay[c] <= Longest + Spent(c)'
        BY <1>4 DEF StayInv, Stays, Holding
      <4> QED BY <1>1, <1>2, <3>2, <4>2, <4>3
    <3> QED BY <3>1, <3>2
  <2> QED BY <1>1, <2>1 DEF StayInv, Stays
<1>7. Queued'
  <2>1. \A d \in Are(Holding) : Spent(d)' \in Nat /\ Spent(d) <= Spent(d)'
    <3> SUFFICES ASSUME NEW d \in Are(Holding) PROVE Spent(d)' \in Nat /\ Spent(d) <= Spent(d)'
      OBVIOUS
    <3>1. Spent(d) \in Nat /\ d \in Callers /\ pc[d] \in Holding
      BY SpentIsNat DEF Are
    <3>2. Spent(d)' = Spent(d)
      BY <1>3, <1>4, <3>1
    <3> QED BY <3>1, <3>2
  <2>2. Are(Holding) \subseteq Are(Holding)'
    BY <1>2, <1>4 DEF Are, Holding
  <2> QED BY <1>1, <2>1, <2>2, QueuedStays
<1> QED BY <1>5, <1>6, <1>7 DEF StayInv

LEMMA CallEndsKeepsStay ==
  ASSUME BreakerInv, StayInv, NEW c \in Callers, recordSuccess(c) \/ recordFailure(c)
  PROVE  StayInv'
<1>1. /\ pc[c] = "calling" /\ pc' = [pc EXCEPT ![c] = "answered"]
      /\ UNCHANGED <<age, line, stay>>
  BY DEF recordSuccess, recordFailure, Goes
<1>2. /\ pc \in [Callers -> Place] /\ age \in [Callers -> 0..Timeout]
      /\ \A d \in Callers : pc'[d] = IF d = c THEN "answered" ELSE pc[d]
  BY <1>1 DEF BreakerInv, Clocks
<1>3. /\ \A d \in Callers \ {c} : Spent(d)' = Spent(d)
      /\ Spent(c) = age[c] /\ Spent(c)' = Timeout
  BY <1>1, <1>2 DEF Spent
<1>4. \A d \in Callers : Spent(d) \in Nat /\ Spent(d)' \in Nat /\ Spent(d) <= Spent(d)'
  BY <1>2, <1>3, SpentIsNat, Limits
<1>5. Admitted'
  <2>1. "answered" \notin Joining
    BY DEF Joining
  <2> QED BY <1>1, <2>1, AdmittedStays
<1>6. Stays'
  <2>1. ASSUME NEW d \in Callers, pc'[d] \in Holding
        PROVE  stay'[d] <= Longest + Spent(d)'
    <3>1. pc[d] \in Holding
      BY <1>1, <1>2, <2>1 DEF Holding
    <3> QED BY <1>1, <1>4, <3>1, LongestIsNat DEF StayInv, Stays
  <2>2. ASSUME NEW d \in Callers, pc'[d] \in {"out", "entered", "counted", "refused"}
        PROVE  stay'[d] = 0
    BY <1>1, <1>2, <2>2 DEF StayInv, Stays
  <2> QED BY <1>1, <2>1, <2>2 DEF StayInv, Stays
<1>7. Queued'
  <2>1. Are(Holding) \subseteq Are(Holding)'
    BY <1>1, <1>2 DEF Are, Holding
  <2> QED BY <1>1, <1>4, <2>1, QueuedStays DEF Are
<1> QED BY <1>5, <1>6, <1>7 DEF StayInv

(* Time passes for everybody alike.                                        *)
LEMMA TickKeepsStay ==
  ASSUME BreakerInv, StayInv, Tick
  PROVE  StayInv'
<1>1. /\ UNCHANGED <<pc, line>> /\ pc \in [Callers -> Place] /\ age \in [Callers -> 0..Timeout]
      /\ stay \in [Callers -> Nat]
      /\ \A d \in Callers : pc[d] \notin Passing /\ (pc[d] = "calling" => age[d] < Timeout)
      /\ age'  = [d \in Callers |-> IF pc[d] = "calling" THEN age[d] + 1 ELSE 0]
      /\ stay' = [d \in Callers |-> IF pc[d] = "out" THEN 0 ELSE stay[d] + 1]
  BY DEF Tick, BreakerInv, Clocks, StayInv, Stays
<1>2. Admitted'
  BY <1>1 DEF StayInv, Admitted, Are, Joining
<1>3. \A d \in Callers : pc[d] \in Holding =>
        pc[d] = "calling" /\ Spent(d) \in Nat /\ Spent(d)' = Spent(d) + 1
  BY <1>1, Limits DEF Holding, Passing, Spent
<1>4. Stays'
  <2>1. stay' \in [Callers -> Nat]
    BY <1>1
  <2>2. ASSUME NEW d \in Callers
        PROVE  /\ pc[d] \in {"out", "entered", "counted", "refused"} => stay'[d] = 0
               /\ pc[d] \in Holding => stay'[d] <= Longest + Spent(d)'
    <3>1. pc[d] \in {"out", "entered", "counted", "refused"} => pc[d] = "out"
      BY <1>1 DEF Passing
    <3>2. pc[d] \in Holding => stay'[d] = stay[d] + 1 /\ stay[d] <= Longest + Spent(d)
      BY <1>1 DEF StayInv, Stays, Holding
    <3> QED BY <1>1, <1>3, <3>1, <3>2, LongestIsNat
  <2> QED BY <1>1, <2>1, <2>2 DEF Stays
<1>5. ASSUME NEW n \in Int
      PROVE  Older(n + 1)' = Older(n)
  BY <1>1, <1>3 DEF Older, Are
<1>6. Queued'
  <2> SUFFICES ASSUME NEW i \in 1..Len(line), NEW q \in Nat, InTime(i, q)
               PROVE  InTime(i, q)'
    BY <1>1 DEF StayInv, Queued
  <2>1. /\ line[i] \in Callers /\ stay[line[i]] \in Nat /\ Longest \in Nat
        /\ (q + 1) * Timeout \in Nat
    BY LineIsInTime, LongestIsNat, Limits
  <2>2. stay'[line[i]] = stay[line[i]] + 1
    <3>1. pc[line[i]] = "inLine"
      BY <2>1 DEF BreakerInv, Lined
    <3> QED BY <1>1, <2>1, <3>1
  <2> PICK n : n = stay[line[i]] + (q + 1) * Timeout - Longest
    OBVIOUS
  <2>3. n \in Int
    BY <2>1
  <2>4. stay'[line[i]] + (q + 1) * Timeout - Longest = n + 1
    BY <2>1, <2>2
  <2>5. Older(stay[line[i]] + (q + 1) * Timeout - Longest)' = Older(n)
    BY <1>1, <1>5, <2>3, <2>4
  <2> QED BY <1>1, <2>5 DEF InTime, Longest
<1> QED BY <1>2, <1>4, <1>6 DEF StayInv

(* The channel is full and the caller joins the line, or it has a slot.    *)
LEMMA SendTokenKeepsStay ==
  ASSUME BreakerInv, StayInv, NEW c \in Callers, SendToken(c)
  PROVE  StayInv'
<1>1. pc[c] = "counted" /\ stay[c] = 0 /\ sem \in Nat /\ UNCHANGED <<age, stay>>
  BY AreFinite DEF SendToken, Goes, BreakerInv, Counts, StayInv, Stays
<1>2. PICK to \in {"served", "inLine"} :
        /\ pc' = [pc EXCEPT ![c] = to]
        /\ to = "served" => sem < Slots /\ UNCHANGED line
        /\ to = "inLine" => ~(sem < Slots) /\ line' = Append(line, c)
  BY DEF SendToken, Goes
<1>3. /\ pc \in [Callers -> Place] /\ age \in [Callers -> 0..Timeout]
      /\ \A d \in Callers : pc'[d] = IF d = c THEN to ELSE pc[d]
  BY <1>2 DEF BreakerInv, Clocks
<1>4. /\ \A d \in Callers \ {c} : Spent(d)' = Spent(d)
      /\ Spent(c)' = 0
  BY <1>1, <1>2, <1>3 DEF Spent
<1>5. Admitted'
  <2>1. pc[c] \in Joining
    BY <1>1 DEF Joining
  <2> QED BY <1>2, <2>1, AdmittedStays
<1>6. Stays'
  <2>1. ASSUME NEW d \in Callers
        PROVE  /\ pc'[d] \in {"out", "entered", "counted", "refused"} => stay'[d] = 0
               /\ pc'[d] \in Holding => stay'[d] <= Longest + Spent(d)'
    <3>1. CASE d # c
      BY <1>1, <1>3, <1>4, <3>1 DEF StayInv, Stays
    <3>2. CASE d = c
      BY <1>1, <1>3, <1>4, <3>2, LongestIsNat
    <3> QED BY <3>1, <3>2
  <2> QED BY <1>1, <2>1 DEF StayInv, Stays
<1>7. CASE to = "served"
  <2>1. line = <<>>
    BY <1>1, <1>2, <1>7, Limits DEF BreakerInv, Counts
  <2>2. Queued'
    BY <1>2, <1>7, <2>1 DEF Queued
  <2> QED BY <1>5, <1>6, <2>2 DEF StayInv
<1>8. CASE to = "inLine"
  <2> PICK n : n = Len(line)
    OBVIOUS
  <2>1. /\ n \in Nat /\ line' = Append(line, c) /\ Len(line') = n + 1
        /\ \A i \in 1..n : line'[i] = line[i]
        /\ line'[n + 1] = c /\ sem = Slots
    BY <1>1, <1>2, <1>8, Limits DEF BreakerInv, Lined, Counts
  <2>2. Are(Holding)' = Are(Holding) /\ \A d \in Are(Holding) : Spent(d)' = Spent(d)
    <3>1. c \notin Are(Holding) /\ to \notin Holding
      BY <1>1, <1>8 DEF Are, Holding
    <3> QED BY <1>3, <1>4, <3>1 DEF Are, Holding
  <2>3. \A m : Older(m)' = Older(m)
    BY <2>2 DEF Older
  <2>4. ASSUME NEW i \in 1..n
        PROVE  \E q \in Nat : InTime(i, q)'
    <3>1. PICK q \in Nat : InTime(i, q)
      BY <2>1 DEF StayInv, Queued
    <3> QED BY <1>1, <2>1, <2>3, <3>1 DEF InTime, Longest
  <2>5. n + 1 <= MaxWait
    <3>1. Are({"inLine"}) \subseteq Are(Joining) \ {c} /\ c \in Are(Joining)
      BY <1>1 DEF Are, Joining
    <3>2. /\ IsFiniteSet(Are(Joining) \ {c})
          /\ Cardinality(Are(Joining) \ {c}) = Cardinality(Are(Joining)) - 1
      BY <3>1, AreFinite, FS_RemoveElement
    <3>3. n <= Cardinality(Are(Joining) \ {c})
      BY <3>1, <3>2, FS_Subset DEF BreakerInv, Lined
    <3>4. Cardinality(Are(Joining) \ {c}) \in Nat /\ Cardinality(Are(Joining)) \in Nat
      BY <3>2, AreFinite, FS_CardinalityType
    <3> QED BY <2>1, <3>2, <3>3, <3>4, LongestIsNat DEF StayInv, Admitted
  <2>6. \E q \in Nat : InTime(n + 1, q)'
    <3> PICK q : q = n \div Slots
      OBVIOUS
    <3>1. /\ q \in Nat /\ q * Slots \in Nat /\ q * Slots <= n /\ n + 1 - q * Slots <= Slots
      BY <2>1, Limits
    <3>2. (q + 1) * Timeout <= Longest /\ (q + 1) * Timeout \in Nat
      <4> PICK r : r = (MaxWait + Slots - 1) \div Slots
        OBVIOUS
      <4>1. r \in Nat /\ q + 1 <= r
        <5>1. (n + Slots) \div Slots = q + 1
          BY <2>1, Limits
        <5>2. \A a, b \in Nat : a <= b => a \div Slots <= b \div Slots
          BY Limits
        <5>3. n + Slots <= MaxWait + Slots - 1 /\ n + Slots \in Nat /\ MaxWait + Slots - 1 \in Nat
          BY <2>1, <2>5, LongestIsNat, Limits
        <5> QED BY <5>1, <5>2, <5>3, LongestIsNat
      <4>2. \A a, b \in Nat : a <= b => a * Timeout <= b * Timeout /\ a * Timeout \in Nat
        BY Limits
      <4>3. (q + 1) * Timeout <= r * Timeout /\ (q + 1) * Timeout \in Nat
        BY <3>1, <4>1, <4>2
      <4>4. Longest = r * Timeout
        BY <4>1, Limits DEF Longest
      <4> QED BY <4>3, <4>4
    <3>3. Older(0 + (q + 1) * Timeout - Longest) = Are(Holding)
      <4>1. 0 + (q + 1) * Timeout - Longest <= 0 /\ 0 + (q + 1) * Timeout - Longest \in Int
        BY <3>2, LongestIsNat
      <4> QED BY <4>1, SpentIsNat DEF Older, Are
    <3>4. Cardinality(Older(0 + (q + 1) * Timeout - Longest)) = Slots
      BY <2>1, <3>3 DEF BreakerInv, Counts
    <3>5. InTime(n + 1, q)'
      <4>1. stay'[line'[n + 1]] = 0
        BY <1>1, <2>1
      <4>2. Cardinality(Older(stay[line[n + 1]] + (q + 1) * Timeout - Longest)') >= n + 1 - q * Slots
        BY <2>3, <3>1, <3>4, <4>1 DEF Longest
      <4> QED BY <2>1, <3>1, <4>1, <4>2 DEF InTime, Longest
    <3> QED BY <3>1, <3>5
  <2>7. Queued'
    <3>1. \A i \in 1..(n + 1) : i \in 1..n \/ i = n + 1
      BY <2>1
    <3> QED BY <2>1, <2>4, <2>6, <3>1 DEF Queued
  <2> QED BY <1>5, <1>6, <2>7 DEF StayInv
<1> QED BY <1>2, <1>7, <1>8

(* The line moves up by one, and one of the slots changes hands: whoever   *)
(* had the last row to itself has a row less before it.                    *)
LEMMA ReleaseKeepsStay ==
  ASSUME BreakerInv, StayInv, NEW c \in Callers, Release(c)
  PROVE  StayInv'
<1>1. pc[c] = "answered" /\ age' = age /\ stay' = [stay EXCEPT ![c] = 0]
  BY DEF Release, Goes
<1>2. /\ pc \in [Callers -> Place] /\ stay \in [Callers -> Nat]
      /\ \A d \in Callers : stay'[d] = IF d = c THEN 0 ELSE stay[d]
      /\ stay' \in [Callers -> Nat]
  BY <1>1 DEF BreakerInv, StayInv, Stays
<1>3. CASE line = <<>>
  <2>1. pc' = [pc EXCEPT ![c] = "out"] /\ line' = <<>>
    BY <1>3 DEF Release, Goes
  <2>2. \A d \in Callers : pc'[d] = IF d = c THEN "out" ELSE pc[d]
    BY <1>2, <2>1
  <2>3. Admitted'
    <3>1. "out" \notin Joining
      BY DEF Joining
    <3> QED BY <2>1, <3>1, AdmittedStays
  <2>4. Stays'
    <3>1. ASSUME NEW d \in Callers
          PROVE  /\ pc'[d] \in {"out", "entered", "counted", "refused"} => stay'[d] = 0
                 /\ pc'[d] \in Holding => stay'[d] <= Longest + Spent(d)'
      <4>1. CASE d = c
        BY <1>2, <2>2, <4>1 DEF Holding
      <4>2. CASE d # c
        <5>1. Spent(d)' = Spent(d)
          BY <1>1, <2>2, <4>2 DEF Spent
        <5> QED BY <1>2, <2>2, <4>2, <5>1 DEF StayInv, Stays
      <4> QED BY <4>1, <4>2
    <3> QED BY <1>2, <3>1 DEF Stays
  <2>5. Queued'
    <3>1. Len(line') = 0
      BY <2>1
    <3> QED BY <3>1 DEF Queued
  <2> QED BY <2>3, <2>4, <2>5 DEF StayInv
<1>4. CASE line # <<>>
  <2> PICK h : h = Head(line)
    OBVIOUS
  <2> PICK n : n = Len(line)
    OBVIOUS
  <2>1. /\ n \in Nat /\ n > 0 /\ h = line[1] /\ h \in Callers
        /\ Len(Tail(line)) = n - 1
        /\ \A i \in 1..(n - 1) : Tail(line)[i] = line[i + 1]
    BY <1>4 DEF BreakerInv, Lined
  <2>2. pc[h] = "inLine" /\ h # c /\ sem = Slots
    BY <1>1, <1>4, <2>1 DEF BreakerInv, Lined, Counts
  <2>3. pc' = [pc EXCEPT ![c] = "out", ![h] = "served"] /\ line' = Tail(line)
    BY <1>4 DEF Release
  <2>4. \A d \in Callers : pc'[d] = IF d = h THEN "served" ELSE IF d = c THEN "out" ELSE pc[d]
    BY <1>2, <2>1, <2>2, <2>3
  <2>5. \A d \in Callers \ {c} : Spent(d)' = Spent(d)
    BY <1>1, <2>2, <2>4 DEF Spent
  <2>6. Admitted'
    <3>1. Are(Joining)' \subseteq Are(Joining)
      BY <1>1, <2>2, <2>4 DEF Are, Joining
    <3>2. Cardinality(Are(Joining)') <= Cardinality(Are(Joining)) /\ Cardinality(Are(Joining)') \in Nat
      BY <3>1, AreFinite, FS_Subset, FS_CardinalityType
    <3>3. Cardinality(Are(Joining)') <= MaxWait
      <4>1. Cardinality(Are(Joining)) \in Nat /\ Cardinality(Are(Joining)) <= MaxWait
        BY AreFinite DEF StayInv, Admitted
      <4> QED BY <3>2, <4>1, LongestIsNat
    <3> QED BY <3>3 DEF Admitted, Joining
  <2>7. Stays'
    <3>1. ASSUME NEW d \in Callers
          PROVE  /\ pc'[d] \in {"out", "entered", "counted", "refused"} => stay'[d] = 0
                 /\ pc'[d] \in Holding => stay'[d] <= Longest + Spent(d)'
      <4>1. CASE d = c
        BY <1>2, <2>2, <2>4, <4>1 DEF Holding
      <4>2. CASE d = h
        <5>1. 1 \in 1..Len(line) /\ h = line[1]
          BY <2>1
        <5>2. PICK q \in Nat : InTime(1, q)
          BY <5>1 DEF StayInv, Queued
        <5>3. stay[h] <= Longest /\ stay[h] \in Nat
          BY <5>1, <5>2, LineIsInTime, LongestIsNat
        <5>4. stay'[h] = stay[h] /\ pc'[h] = "served" /\ Spent(h)' = 0
          BY <1>2, <2>1, <2>2, <2>4 DEF Spent
        <5> QED BY <4>2, <5>3, <5>4, LongestIsNat
      <4>3. CASE d \notin {c, h}
        BY <1>2, <2>4, <2>5, <4>3 DEF StayInv, Stays
      <4> QED BY <4>1, <4>2, <4>3
    <3> QED BY <1>2, <3>1 DEF Stays
  <2>8. ASSUME NEW m \in Int
        PROVE  /\ Cardinality(Older(m)') \in Nat
               /\ Cardinality(Older(m)') >= Cardinality(Older(m)) - 1
               /\ m <= 0 => Cardinality(Older(m)') = Slots
    <3>1. Older(m) \ {c} \subseteq Older(m)'
      BY <2>2, <2>4, <2>5 DEF Older, Are, Holding
    <3>2. IsFiniteSet(Older(m)') /\ Cardinality(Older(m)') \in Nat
      <4>1. Older(m)' \in SUBSET Callers
        BY DEF Older, Are
      <4> QED BY <4>1, CallersAssumption, FS_Subset, FS_CardinalityType
    <3>3. Cardinality(Older(m) \ {c}) <= Cardinality(Older(m)') /\ Cardinality(Older(m) \ {c}) \in Nat
      BY <3>1, <3>2, FS_Subset, FS_CardinalityType
    <3>4. /\ Cardinality(Older(m)) \in Nat
          /\ Cardinality(Older(m) \ {c}) >= Cardinality(Older(m)) - 1
      <4>1. IsFiniteSet(Older(m)) /\ Cardinality(Older(m)) \in Nat
        BY OlderAreFinite
      <4>2. CASE c \in Older(m)
        <5>1. Cardinality(Older(m) \ {c}) = Cardinality(Older(m)) - 1
          BY <4>1, <4>2, FS_RemoveElement
        <5> QED BY <4>1, <5>1
      <4>3. CASE c \notin Older(m)
        <5> PICK k : k = Cardinality(Older(m))
          OBVIOUS
        <5>1. Older(m) \ {c} = Older(m)
          BY <4>3
        <5>2. k \in Nat /\ Cardinality(Older(m) \ {c}) = k
          BY <4>1, <5>1, Zenon
        <5> QED BY <5>2
      <4> QED BY <4>1, <4>2, <4>3
    <3>5. ASSUME m <= 0
          PROVE  Cardinality(Older(m)') = Slots
      <4>1. BreakerInv'
        BY ReleaseKeepsInv
      <4>2. \A d \in Callers : Spent(d)' \in Nat
        <5>1. \A d \in Callers \ {c} : Spent(d)' \in Nat
          BY <2>5, SpentIsNat
        <5>2. Spent(c)' = 0
          BY <2>2, <2>4 DEF Spent
        <5> QED BY <5>1, <5>2
      <4>3. Older(m)' = Are(Holding)'
        BY <3>5, <4>2 DEF Older, Are
      <4>4. sem' = sem /\ sem' = Cardinality(Are(Holding)')
        BY <1>4, <4>1 DEF Release, BreakerInv, Counts
      <4> QED BY <2>2, <4>3, <4>4
    <3> QED BY <3>2, <3>3, <3>4, <3>5
  <2>9. Queued'
    <3> SUFFICES ASSUME NEW j \in 1..(n - 1) PROVE \E q \in Nat : InTime(j, q)'
      BY <2>1, <2>3 DEF Queued
    <3>1. j \in Nat /\ j + 1 \in 1..Len(line) /\ line'[j] = line[j + 1]
      BY <2>1, <2>3
    <3>2. PICK q \in Nat : InTime(j + 1, q)
      BY <3>1 DEF StayInv, Queued
    <3> PICK s : s = stay[line[j + 1]]
      OBVIOUS
    <3>3. /\ line[j + 1] \in Callers /\ s \in Nat /\ Longest \in Nat
          /\ q * Slots \in Nat /\ q * Timeout \in Nat
          /\ s + q * Timeout <= Longest
      BY <3>1, <3>2, LineIsInTime, LongestIsNat
    <3>4. stay'[line'[j]] = s
      <4>1. pc[line[j + 1]] = "inLine"
        BY <3>1, <3>3 DEF BreakerInv, Lined
      <4> QED BY <1>1, <1>2, <3>1, <3>3, <4>1
    <3>5. (q + 1) * Timeout = q * Timeout + Timeout
      BY Limits
    <3>6. CASE j > q * Slots
      <4> PICK m : m = s + (q + 1) * Timeout - Longest
        OBVIOUS
      <4>1. m \in Int
        BY <3>3, <3>5, Limits
      <4>2. Cardinality(Older(m)) >= j + 1 - q * Slots /\ Cardinality(Older(m)) \in Nat
        <5> PICK i : i = j + 1
          OBVIOUS
        <5>1. m = stay[line[i]] + (q + 1) * Timeout - Longest /\ InTime(i, q)
          BY <3>2
        <5>2. Cardinality(Older(m)) >= i - q * Slots
          BY <5>1 DEF InTime
        <5>3. i \in Nat /\ q * Slots \in Nat /\ Cardinality(Older(m)) \in Nat
          BY <3>1, <3>3, OlderAreFinite
        <5> QED BY <3>1, <3>3, <5>2, <5>3
      <4>3. Cardinality(Older(m)') >= j - q * Slots
        <5>1. /\ Cardinality(Older(m)') \in Nat
              /\ Cardinality(Older(m)') >= Cardinality(Older(m)) - 1
          BY <2>8, <4>1
        <5> QED BY <3>1, <3>3, <4>2, <5>1
      <4>4. Older(stay[line[j]] + (q + 1) * Timeout - Longest)' = Older(m)'
        BY <3>4 DEF Longest
      <4>5. InTime(j, q)'
        BY <3>6, <4>3, <4>4 DEF InTime, Longest
      <4> QED BY <4>5
    <3>7. CASE ~(j > q * Slots)
      <4>1. q * Slots = j /\ q \in Nat \ {0}
        <5>1. q * Slots < j + 1
          BY <3>2 DEF InTime
        <5>2. q * Slots = j /\ j > 0
          BY <3>1, <3>3, <3>7, <5>1
        <5>3. 0 * Slots = 0
          BY Limits
        <5> QED BY <5>2, <5>3
      <4> PICK p : p = q - 1
        OBVIOUS
      <4>2. p \in Nat /\ p + 1 = q /\ p * Slots = j - Slots /\ p * Slots < j
        <5>1. p \in Nat /\ p + 1 = q
          BY <4>1
        <5>2. (p + 1) * Slots = p * Slots + Slots /\ p * Slots \in Nat
          BY <5>1, Limits
        <5> QED BY <4>1, <5>1, <5>2, Limits
      <4> PICK m : m = s + (p + 1) * Timeout - Longest
        OBVIOUS
      <4>3. m \in Int /\ m <= 0
        <5> PICK b : b = q * Timeout
          OBVIOUS
        <5>1. (p + 1) * Timeout = b
          BY <4>2
        <5>2. s \in Nat /\ b \in Nat /\ s + b <= Longest
          BY <3>3
        <5>3. m = s + b - Longest /\ Longest \in Nat
          BY <5>1, LongestIsNat
        <5> QED BY <5>2, <5>3
      <4>4. Cardinality(Older(m)') = Slots
        BY <2>8, <4>3
      <4>5. Slots >= j - p * Slots
        BY <3>1, <4>2, Limits
      <4>6. Older(stay[line[j]] + (p + 1) * Timeout - Longest)' = Older(m)'
        BY <3>4 DEF Longest
      <4>7. InTime(j, p)'
        BY <4>2, <4>4, <4>5, <4>6 DEF InTime, Longest
      <4> QED BY <4>2, <4>7
    <3> QED BY <3>6, <3>7
  <2> QED BY <2>6, <2>7, <2>9 DEF StayInv
<1> QED BY <1>3, <1>4
-----------------------------------------------------------------------------
(* The theorems.                                                           *)

(* The invariant behind them, of every behaviour.                          *)
THEOREM BreakerInvariant == Spec => []BreakerInv
<1>1. Init => BreakerInv
  <2> SUFFICES ASSUME Init PROVE BreakerInv
    OBVIOUS
  <2>1. \A c \in Callers : pc[c] = "out"
    BY DEF Init
  <2>2. Are(Counted) = {} /\ Are(Holding) = {} /\ Are({"inLine"}) = {}
    BY <2>1 DEF Are, Counted, Holding
  <2>3. Counts
    BY <2>2, FS_EmptySet, Limits DEF Init, Counts
  <2>4. Lined
    BY <2>1, <2>2, FS_EmptySet, EmptySeq DEF Init, Lined
  <2>5. Clocks /\ Rests
    BY Limits DEF Init, Clocks, Rests, TrippedMeansRest
  <2> QED BY <2>3, <2>4, <2>5 DEF Init, BreakerInv, Place
<1>2. BreakerInv /\ [Next]_vars => BreakerInv'
  <2> SUFFICES ASSUME BreakerInv, [Next]_vars PROVE BreakerInv'
    OBVIOUS
  <2>1. CASE UNCHANGED vars
    BY <2>1 DEF vars, BreakerInv, Counts, Lined, Clocks, Rests, TrippedMeansRest, Are
  <2>2. CASE Tick
    BY <2>2, TickKeepsInv
  <2>3. ASSUME NEW c \in Callers, Step(c) PROVE BreakerInv'
    BY <2>3, ComingInKeepsInv, SendTokenKeepsInv, CallEndsKeepsInv, ReleaseKeepsInv DEF Step
  <2> QED BY <2>1, <2>2, <2>3 DEF Next
<1> QED BY <1>1, <1>2, PTL DEF Spec

(* Types; in particular no more slots are ever taken than there are, and   *)
(* the line is the callers that are blocked on the channel.                *)
THEOREM BreakerTypeOK == Spec => []TypeOK
<1>1. BreakerInv => TypeOK
  <2> SUFFICES ASSUME BreakerInv PROVE TypeOK
    OBVIOUS
  <2>1. sem \in 0..Slots
    BY AreFinite, Limits DEF BreakerInv, Counts
  <2>2. {line[i] : i \in DOMAIN line} = Are({"inLine"})
    BY DEF BreakerInv, Lined, Are
  <2> QED BY <2>1, <2>2 DEF BreakerInv, Lined, Clocks, Rests, TypeOK
<1> QED BY <1>1, BreakerInvariant, PTL

(* No slot and no place in the line is lost, whatever callers come to.     *)
THEOREM BreakerLeaksNothing == Spec => []NothingLeaks
<1>1. BreakerInv => NothingLeaks
  BY DEF BreakerInv, Counts, NothingLeaks, Counted, Holding
<1> QED BY <1>1, BreakerInvariant, PTL

(* Whoever saw the breaker trip calls no more until the cooldown is over.  *)
THEOREM BreakerMakesRest == Spec => []TrippedMeansRest
<1>1. BreakerInv => TrippedMeansRest
  BY DEF BreakerInv, Rests
<1> QED BY <1>1, BreakerInvariant, PTL

(* The invariant behind the bound on a stay, on top of the other one.      *)
THEOREM BreakerStays == Spec => []StayInv
<1>1. Init => StayInv
  <2> SUFFICES ASSUME Init PROVE StayInv
    OBVIOUS
  <2>1. \A c \in Callers : pc[c] = "out" /\ stay[c] = 0
    BY DEF Init
  <2>2. Are(Joining) = {}
    BY <2>1 DEF Are, Joining
  <2>3. Admitted
    <3>1. Cardinality(Are(Joining)) = 0
      BY <2>2, FS_EmptySet
    <3> QED BY <3>1, LongestIsNat DEF Admitted
  <2>4. Stays
    BY <2>1 DEF Init, Stays, Holding
  <2>5. Queued
    <3>1. Len(line) = 0
      BY DEF Init
    <3> QED BY <3>1 DEF Queued
  <2> QED BY <2>3, <2>4, <2>5 DEF StayInv
<1>2. BreakerInv /\ StayInv /\ [Next]_vars => StayInv'
  <2> SUFFICES ASSUME BreakerInv, StayInv, [Next]_vars PROVE StayInv'
    OBVIOUS
  <2>1. CASE UNCHANGED vars
    BY <2>1 DEF vars, StayInv, Admitted, Stays, Queued, InTime, Older, Spent, Are, Longest, Joining, Holding
  <2>2. CASE Tick
    BY <2>2, TickKeepsStay
  <2>3. ASSUME NEW c \in Callers, Step(c) PROVE StayInv'
    BY <2>3, ComingInKeepsStay, SendTokenKeepsStay, CallEndsKeepsStay, ReleaseKeepsStay DEF Step
  <2> QED BY <2>1, <2>2, <2>3 DEF Next
<1> QED BY <1>1, <1>2, BreakerInvariant, PTL DEF Spec

(* A model that hangs holds nobody up for longer than the calls before it  *)
(* and its own take.                                                       *)
THEOREM BreakerStayIsBounded == Spec => []StayIsBounded
<1>1. BreakerInv /\ StayInv => StayIsBounded
  <2> SUFFICES ASSUME BreakerInv, StayInv, NEW c \in Callers
               PROVE  stay[c] <= Timeout * (1 + (MaxWait + Slots - 1) \div Slots)
    BY DEF StayIsBounded
  <2>1. stay[c] \in Nat /\ pc[c] \in Place
    BY DEF StayInv, Stays, BreakerInv
  <2>2. Timeout * (1 + (MaxWait + Slots - 1) \div Slots) = Timeout + Longest
    <3> PICK r : r = (MaxWait + Slots - 1) \div Slots
      OBVIOUS
    <3>1. r \in Nat /\ Longest = Timeout * r
      BY LongestIsNat DEF Longest
    <3>2. Timeout * (1 + r) = Timeout + Timeout * r
      BY <3>1, Limits
    <3> QED BY <3>1, <3>2
  <2>3. stay[c] <= Timeout + Longest
    <3>1. CASE pc[c] = "inLine"
      <4>1. PICK i \in 1..Len(line) : line[i] = c
        BY <3>1 DEF BreakerInv, Lined
      <4>2. PICK q \in Nat : InTime(i, q)
        BY DEF StayInv, Queued
      <4>3. q * Timeout \in Nat /\ stay[line[i]] + q * Timeout <= Longest
        BY <4>2, LineIsInTime
      <4> QED BY <2>1, <4>1, <4>3, LongestIsNat, Limits
    <3>2. CASE pc[c] \in Holding
      BY <2>1, <3>2, SpentIsNat, LongestIsNat, Limits DEF StayInv, Stays
    <3>3. CASE pc[c] \in {"out", "entered", "counted", "refused"}
      BY <3>3, LongestIsNat, Limits DEF StayInv, Stays
    <3> QED BY <2>1, <3>1, <3>2, <3>3 DEF Place, Holding
  <2> QED BY <2>2, <2>3
<1> QED BY <1>1, BreakerInvariant, BreakerStays, PTL
=============================================================================
