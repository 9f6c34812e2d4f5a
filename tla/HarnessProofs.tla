--------------------------- MODULE HarnessProofs ---------------------------
(***************************************************************************)
(* Theorems about the measurement: what it can and cannot show, for every  *)
(* customer, mandate, month and sequence of draws.                         *)
(***************************************************************************)
EXTENDS Harness, SolveProofs, FiniteSetTheorems, WellFoundedInduction

(* A sequence of whatever is in it.                                        *)
IsSeq(f) == f \in Seq({f[i] : i \in DOMAIN f})

(* What the bank makes of the attempt number i at t.                       *)
Verdict(i, t) == Decide(At(i, t), draws[i])

(* The draws seen belong to the attempts made, and a run holds no success  *)
(* but a last one.                                                         *)
RunInv(p) ==
  LET fired == runs[p].fired
  IN  /\ DOMAIN runs[p] = {"fired", "code", "recovered", "over"}
      /\ IsSeq(fired) /\ Len(fired) <= Len(draws) /\ Len(fired) <= MaxAttempts
      /\ Len(fired) = MaxAttempts \/ runs[p].recovered => runs[p].over
      /\ runs[p].recovered => Len(fired) > 0
      /\ \A i \in 1..Len(fired) :
           Verdict(i, fired[i]) = "none" <=> i = Len(fired) /\ runs[p].recovered

dayOf == <<0, 1, 3, 7>>

(* The first attempt leaves the notice of the second its day.              *)
SystemInv ==
  LET fired == runs["system"].fired
  IN  /\ \A i \in 1..Len(fired) :
           fired[i] \in Nat /\ fired[i] \div Day = dayOf[i] /\ ~Blocked(fired[i])
      /\ Len(fired) > 0 => fired[1] % Day <= 23 * Hour
      /\ runs["system"].over =>
           \/ runs["system"].recovered \/ Len(fired) = MaxAttempts
           \/ Len(fired) > 0 /\ ~D!Retryable(D!Classify(runs["system"].code))

BaselineInv ==
  LET fired == runs["baseline"].fired
  IN  /\ \A i \in 1..Len(fired) : fired[i] = DueDate + baselineOffsets[i]
      /\ Len(fired) > 0 => runs["system"].over
      /\ runs["baseline"].over =>
           Len(fired) > 0 /\ (runs["baseline"].recovered \/ Len(fired) = MaxAttempts)

(* Where any instant of the day would do, the oracle's does.               *)
OracleInv ==
  LET fired == runs["oracle"].fired
  IN  /\ \A i \in 1..Len(fired) : \A t \in Nat :
           t \div Day = dayOf[i] /\ ~Blocked(t) /\ Verdict(i, t) = "none"
             => Verdict(i, fired[i]) = "none"
      /\ Len(fired) > 0 => runs["baseline"].over
      /\ runs["oracle"].over =>
           Len(fired) > 0 /\ (runs["oracle"].recovered \/ Len(fired) = MaxAttempts)

CycleInv ==
  /\ mandate \in [rail: Rails, amount: Amounts, due: Dues]
  /\ cycle.number \in 1..Length /\ cycle \in AnyCycle(cycle.number)
  /\ history \in Seq(0..23) /\ Len(history) < cycle.number
  /\ draws \in Seq(Draws(mandate.rail)) /\ Len(draws) <= MaxAttempts
  /\ DOMAIN runs = Policies

HarnessInv ==
  /\ CycleInv /\ \A p \in Policies : RunInv(p)
  /\ SystemInv /\ BaselineInv /\ OracleInv

-----------------------------------------------------------------------------
(* Days.                                                                   *)

(* The shift and the preferred hour keep an instant in its day, and put    *)
(* none later than eleven at night.                                        *)
LEMMA ShiftKeepsDay ==
  ASSUME NEW t \in Nat
  PROVE  LET s == ShiftPastBlockedWindow(t)
         IN  /\ s \in Nat /\ s \div Day = t \div Day
             /\ t % Day <= 23 * Hour => s % Day <= 23 * Hour
<1>1. CASE ~Blocked(t)
  BY <1>1 DEF ShiftPastBlockedWindow
<1>2. CASE Blocked(t)
  <2>1. PICK w \in blockedWindows :
          InWindow(w, t) /\ ShiftPastBlockedWindow(t) = Midnight(t) + (w.to + 5) * Minute
    BY <1>2, ChosenWindow
  <2>2. w.to \in {780, 1290}
    BY DEF blockedWindows
  <2>3. CASE w.to = 780
    BY <2>1, <2>3 DEF Midnight, Day, Hour, Minute
  <2>4. CASE w.to = 1290
    BY <2>1, <2>4 DEF Midnight, Day, Hour, Minute
  <2> QED BY <2>2, <2>3, <2>4
<1> QED BY <1>1, <1>2

LEMMA HourKeepsDay ==
  ASSUME NEW t \in Nat, NEW hour \in Hours, t % Day <= 23 * Hour
  PROVE  LET s == applyPreferredHour(t, hour)
         IN  s \in Nat /\ s \div Day = t \div Day /\ s % Day <= 23 * Hour
<1>1. CASE hour = NoHour
  BY <1>1 DEF applyPreferredHour
<1>2. CASE hour \in 0..23
  <2>1. hour # NoHour
    BY <1>2 DEF NoHour
  <2> QED BY <1>2, <2>1 DEF applyPreferredHour, Midnight, Day, Hour
<1> QED BY <1>1, <1>2 DEF Hours

(* The first attempt is made on the due day, whatever the hour.            *)
LEMMA FirstDay ==
  ASSUME NEW hour \in Hours
  PROVE  LET t == First(DueDate, hour, DueDate - mandateSetupLead)
         IN  t \in Nat /\ t \div Day = 0 /\ t % Day <= 23 * Hour /\ ~Blocked(t)
<1> DEFINE s == applyPreferredHour(DueDate, hour)
<1>1. DueDate \in Nat /\ DueDate \div Day = 0 /\ DueDate % Day <= 23 * Hour
  BY DEF DueDate, Day, Hour, Minute
<1>2. s \in Nat /\ s \div Day = 0 /\ s % Day <= 23 * Hour
  BY <1>1, HourKeepsDay
<1> HIDE DEF s
<1>3. ensureNoticeLead(s, DueDate - mandateSetupLead) = s
  BY <1>2 DEF ensureNoticeLead, NoticeLead, noticeLeadBuffer, mandateSetupLead, DueDate,
              Day, Hour, Minute
<1>4. First(DueDate, hour, DueDate - mandateSetupLead) = ShiftPastBlockedWindow(s)
  BY <1>3 DEF First, Slot, s
<1> QED BY <1>2, <1>4, ShiftKeepsDay, ShiftIsClear

(* A retry is made on the day of its offset: the notice of the second      *)
(* attempt still fits in, and the days between the later ones are more     *)
(* than it needs.                                                          *)
LEMMA NextDay ==
  ASSUME NEW hour \in Hours, NEW n \in 1..3, NEW now \in Nat, now \div Day = dayOf[n],
         n = 1 => now % Day <= 23 * Hour
  PROVE  LET t == Next(DueDate, n, hour, now)
         IN  t \in Nat /\ t \div Day = dayOf[n + 1] /\ ~Blocked(t)
<1> DEFINE u == DueDate + offsets[n]
           s == applyPreferredHour(u, hour)
           e == ensureNoticeLead(s, now)
<1>1. u \in Nat /\ u \div Day = dayOf[n + 1] /\ u % Day <= 23 * Hour
  BY DEF DueDate, offsets, dayOf, Day, Hour, Minute
<1> HIDE DEF u
<1>2. s \in Nat /\ s \div Day = dayOf[n + 1] /\ s % Day <= 23 * Hour
  BY <1>1, HourKeepsDay
<1> HIDE DEF s
<1>3. e \in Nat /\ e \div Day = dayOf[n + 1]
  <2>1. CASE n = 1
    BY <1>2, <2>1 DEF e, ensureNoticeLead, NoticeLead, noticeLeadBuffer, dayOf, Day, Hour, Minute
  <2>2. CASE n = 2
    BY <1>2, <2>2 DEF e, ensureNoticeLead, NoticeLead, noticeLeadBuffer, dayOf, Day, Hour, Minute
  <2>3. CASE n = 3
    BY <1>2, <2>3 DEF e, ensureNoticeLead, NoticeLead, noticeLeadBuffer, dayOf, Day, Hour, Minute
  <2> QED BY <2>1, <2>2, <2>3
<1>4. Next(DueDate, n, hour, now) = ShiftPastBlockedWindow(e)
  BY DEF Next, Slot, u, s, e
<1> HIDE DEF e
<1> QED BY <1>3, <1>4, ShiftKeepsDay, ShiftIsClear

-----------------------------------------------------------------------------
(* The predictor.                                                          *)

(* A set of naturals has a least one, which Min picks; with a bound it has *)
(* a highest one.                                                          *)
LEMMA LeastExists ==
  ASSUME NEW S \in SUBSET Nat, S # {}
  PROVE  Min(S) \in S /\ \A y \in S : Min(S) <= y
<1> DEFINE R == OpToRel(<, Nat)
<1>1. IsWellFoundedOn(R, Nat)
  BY NatLessThanWellFounded
<1> HIDE DEF R
<1>2. PICK x \in S : \A y \in S : ~(<<y, x>> \in R)
  BY <1>1, WFMin
<1>3. \A y \in S : ~(y < x)
  BY <1>2 DEF R, OpToRel
<1>4. \E z \in S : \A y \in S : z <= y
  BY <1>3
<1> QED BY <1>4 DEF Min

LEMMA HighestExists ==
  ASSUME NEW n \in Nat, NEW S \in SUBSET (0..n), S # {}
  PROVE  \E x \in S : \A y \in S : y <= x
<1> DEFINE T == {n - i : i \in S}
<1>1. T \in SUBSET Nat /\ T # {}
  <2>1. \A i \in S : n - i \in Nat
    OBVIOUS
  <2> QED BY <2>1
<1> HIDE DEF T
<1>2. Min(T) \in T /\ \A y \in T : Min(T) <= y
  BY <1>1, LeastExists
<1>3. PICK x \in S : Min(T) = n - x
  BY <1>2 DEF T
<1>4. ASSUME NEW y \in S
      PROVE  y <= x
  <2>1. n - y \in T /\ x \in 0..n /\ y \in 0..n
    BY DEF T
  <2> QED BY <1>2, <1>3, <2>1
<1> QED BY <1>4

(* Of the hours of the day one has the most successes, so there is a vote. *)
LEMMA AnHourIsPreferred ==
  ASSUME history \in Seq(0..23)
  PROVE  PreferredHour \in Hours
<1> DEFINE n == Len(history)
           S == {Count(h) : h \in 0..23}
           T == {h \in 0..23 : \A other \in 0..23 : Count(other) <= Count(h)}
<1>1. n \in Nat /\ DOMAIN history = 1..n
  OBVIOUS
<1>2. \A h \in 0..23 : Count(h) \in 0..n
  <2>1. IsFiniteSet(1..n) /\ Cardinality(1..n) = n
    BY <1>1, FS_Interval
  <2>2. ASSUME NEW h \in 0..23
        PROVE  Count(h) \in 0..n
    <3> DEFINE C == {i \in 1..n : history[i] = h}
    <3>1. IsFiniteSet(C) /\ Cardinality(C) <= n
      BY <2>1, FS_Subset
    <3>2. Cardinality(C) \in Nat
      BY <3>1, FS_CardinalityType
    <3>3. Count(h) = Cardinality(C)
      BY <1>1 DEF Count
    <3> HIDE DEF C
    <3> QED BY <1>1, <3>1, <3>2, <3>3
  <2> QED BY <2>2
<1> HIDE DEF n
<1>3. \E h \in 0..23 : \A other \in 0..23 : Count(other) <= Count(h)
  <2>1. S \in SUBSET (0..n) /\ S # {}
    <3>1. \A x \in S : x \in 0..n
      BY <1>2
    <3>2. Count(0) \in S
      OBVIOUS
    <3> QED BY <3>1, <3>2
  <2>2. \E x \in S : \A y \in S : y <= x
    BY <1>1, <2>1, HighestExists
  <2> QED BY <2>2
<1>4. T \in SUBSET Nat /\ T # {} /\ T \subseteq 0..23
  <2>1. PICK h \in 0..23 : \A other \in 0..23 : Count(other) <= Count(h)
    BY <1>3
  <2>2. h \in T
    BY <2>1
  <2>3. T \subseteq 0..23
    OBVIOUS
  <2> HIDE DEF T
  <2> QED BY <2>2, <2>3
<1>5. Min(T) \in 0..23
  BY <1>4, LeastExists
<1> QED BY <1>5 DEF PreferredHour, Hours

-----------------------------------------------------------------------------
(* An attempt.                                                             *)

LEMMA Appended ==
  ASSUME NEW f, IsSeq(f), NEW t
  PROVE  LET g == Append(f, t)
         IN  /\ IsSeq(g) /\ Len(f) \in Nat /\ Len(g) = Len(f) + 1
             /\ \A i \in 1..Len(f) : g[i] = f[i]
             /\ g[Len(f) + 1] = t
<1> DEFINE S == {f[i] : i \in DOMAIN f} \cup {t}
           g == Append(f, t)
<1>1. f \in Seq(S) /\ t \in S
  <2>1. f \in Seq({f[i] : i \in DOMAIN f})
    BY DEF IsSeq
  <2>2. {f[i] : i \in DOMAIN f} \subseteq S
    OBVIOUS
  <2> HIDE DEF S
  <2>3. f \in Seq(S)
    BY <2>1, <2>2
  <2> QED BY <2>3 DEF S
<1> HIDE DEF S
<1>2. /\ g \in Seq(S) /\ Len(f) \in Nat /\ Len(g) = Len(f) + 1
      /\ \A i \in 1..Len(f) : g[i] = f[i]
      /\ g[Len(f) + 1] = t
  BY <1>1
<1> HIDE DEF g
<1>3. g \in Seq({g[i] : i \in DOMAIN g})
  <2>1. DOMAIN g = 1..Len(g) /\ Len(g) \in Nat /\ g = [i \in 1..Len(g) |-> g[i]]
    BY <1>2
  <2> DEFINE U == {g[i] : i \in DOMAIN g}
  <2>2. \A i \in 1..Len(g) : g[i] \in U
    BY <2>1
  <2> HIDE DEF U
  <2>3. [i \in 1..Len(g) |-> g[i]] \in Seq(U)
    BY <2>1, <2>2
  <2> QED BY <2>1, <2>3 DEF U
<1> QED BY <1>2, <1>3 DEF IsSeq, g

(* A cycle that is looked at twice is the same.                            *)
LEMMA SameConditions ==
  ASSUME UNCHANGED <<mandate, cycle>>, NEW i, NEW t
  PROVE  At(i, t)' = At(i, t)
BY DEF At, Conditions, BalanceAt, DayOfMonth

(* One attempt of a run that may make it.                                  *)
LEMMA FireKeepsRuns ==
  ASSUME CycleInv, \A p \in Policies : RunInv(p),
         UNCHANGED <<mandate, cycle, history>>,
         NEW policy \in Policies, NEW t, Fire(policy, t), ~runs[policy].over
  PROVE  /\ CycleInv' /\ \A p \in Policies : RunInv(p)'
         /\ \A i \in 1..Len(draws) : \A u : Verdict(i, u)' = Verdict(i, u)
         /\ \A p \in Policies \ {policy} : runs'[p] = runs[p]
         /\ runs'[policy].fired = Append(runs[policy].fired, t)
         /\ Len(runs[policy].fired) \in 0..(MaxAttempts - 1)
         /\ Len(runs'[policy].fired) = Len(runs[policy].fired) + 1
         /\ \A i \in 1..Len(runs[policy].fired) : runs'[policy].fired[i] = runs[policy].fired[i]
         /\ runs'[policy].fired[Len(runs[policy].fired) + 1] = t
         /\ runs'[policy].over =>
              runs'[policy].recovered \/ Len(runs'[policy].fired) = MaxAttempts
<1> PICK fired : fired = runs[policy].fired
  OBVIOUS
<1> DEFINE number == Len(fired) + 1
           new    == Append(fired, t)
<1>1. PICK draw \in DrawsOf(number) :
        /\ draws' = IF number \in DOMAIN draws THEN draws ELSE Append(draws, draw)
        /\ runs' = [runs EXCEPT ![policy] =
             [fired |-> new, code |-> Decide(At(number, t), draw),
              recovered |-> Decide(At(number, t), draw) = "none",
              over |-> Decide(At(number, t), draw) = "none" \/ number = MaxAttempts]]
  BY DEF Fire
<1>2. /\ IsSeq(fired) /\ Len(fired) <= Len(draws) /\ Len(fired) <= MaxAttempts
      /\ Len(fired) # MaxAttempts /\ ~runs[policy].recovered
      /\ draws \in Seq(Draws(mandate.rail)) /\ Len(draws) <= MaxAttempts /\ DOMAIN runs = Policies
      /\ \A i \in 1..Len(fired) : Verdict(i, fired[i]) # "none"
  BY DEF RunInv, CycleInv
<1>3. /\ IsSeq(new) /\ Len(fired) \in Nat /\ Len(new) = Len(fired) + 1
      /\ \A i \in 1..Len(fired) : new[i] = fired[i]
      /\ new[number] = t
  BY <1>2, Appended
<1>4. /\ runs'[policy].fired = new /\ DOMAIN runs' = Policies
      /\ DOMAIN runs'[policy] = {"fired", "code", "recovered", "over"}
      /\ runs'[policy].recovered = (Decide(At(number, t), draw) = "none")
      /\ runs'[policy].over = (Decide(At(number, t), draw) = "none" \/ number = MaxAttempts)
      /\ \A p \in Policies \ {policy} : runs'[p] = runs[p]
  BY <1>1, <1>2
<1> HIDE DEF new
<1>5. number \in 1..MaxAttempts /\ Len(draws) \in Nat
  <2>1. Len(draws) \in Nat
    BY <1>2
  <2>2. PICK n \in Nat : n = Len(fired)
    BY <1>3
  <2>3. n <= 4 /\ n # 4
    BY <1>2, <2>2 DEF MaxAttempts
  <2>4. n + 1 \in 1..4
    BY <2>3
  <2> QED BY <2>1, <2>2, <2>4 DEF MaxAttempts
<1>6. /\ draws' \in Seq(Draws(mandate.rail)) /\ Len(draws) <= Len(draws') /\ Len(draws') <= MaxAttempts
      /\ number <= Len(draws') /\ draws'[number] = draw
      /\ \A i \in 1..Len(draws) : draws'[i] = draws[i]
  <2>1. CASE number \in DOMAIN draws
    <3>1. draws' = draws /\ draw = draws[number]
      BY <1>1, <2>1 DEF DrawsOf
    <3> QED BY <1>2, <2>1, <3>1
  <2>2. CASE number \notin DOMAIN draws
    <3>1. draws' = Append(draws, draw) /\ draw \in Draws(mandate.rail)
      BY <1>1, <2>2 DEF DrawsOf
    <3>2. Len(draws) = Len(fired)
      BY <1>2, <1>3, <2>2
    <3> QED BY <1>2, <1>5, <3>1, <3>2
  <2> QED BY <2>1, <2>2
<1>7. CycleInv'
  <2>1. Len(draws') <= MaxAttempts
    BY <1>6
  <2> QED BY <1>4, <1>6 DEF CycleInv, AnyCycle
<1>8. \A i \in 1..Len(draws) : \A u : Verdict(i, u)' = Verdict(i, u)
  <2>1. ASSUME NEW i \in 1..Len(draws), NEW u
        PROVE  Decide(At(i, u)', draws'[i]) = Decide(At(i, u), draws[i])
    BY <1>6, SameConditions
  <2> QED BY <2>1 DEF Verdict
<1>9. ASSUME NEW p \in Policies
      PROVE  RunInv(p)'
  <2>1. CASE p = policy
    <3>1. Verdict(number, t)' = Decide(At(number, t), draw)
      BY <1>5, <1>6, SameConditions DEF Verdict
    <3>2. ASSUME NEW i \in 1..Len(new)
          PROVE  (Verdict(i, new[i])' = "none") <=> (i = Len(new) /\ runs'[policy].recovered)
      <4>1. CASE i = number
        BY <1>3, <1>4, <3>1, <4>1
      <4>2. CASE i # number
        <5>1. i \in 1..Len(fired) /\ i \in 1..Len(draws) /\ i # Len(new)
          BY <1>2, <1>3, <1>5, <4>2
        <5> QED BY <1>2, <1>3, <1>8, <5>1
      <4> QED BY <4>1, <4>2
    <3>3. Len(new) > 0 /\ Len(new) <= Len(draws') /\ Len(new) <= MaxAttempts
      BY <1>3, <1>5, <1>6
    <3>4. number = MaxAttempts \/ runs'[policy].recovered => runs'[policy].over
      BY <1>4
    <3> QED BY <1>3, <1>4, <2>1, <3>2, <3>3, <3>4 DEF RunInv, Verdict
  <2>2. CASE p # policy
    <3>1. RunInv(p) /\ runs'[p] = runs[p] /\ Len(runs[p].fired) <= Len(draws)
      BY <1>4, <2>2 DEF RunInv
    <3> PICK f : f = runs[p].fired
      OBVIOUS
    <3>2. Len(f) \in Nat /\ Len(f) <= Len(draws) /\ Len(f) <= Len(draws')
      <4>1. Len(f) \in Nat
        BY <3>1, Appended DEF RunInv
      <4> QED BY <1>5, <1>6, <3>1, <4>1
    <3>3. \A i \in 1..Len(f) : Verdict(i, f[i])' = Verdict(i, f[i])
      BY <1>5, <1>8, <3>2
    <3> QED BY <3>1, <3>2, <3>3 DEF RunInv, Verdict
  <2> QED BY <2>1, <2>2
<1>10. Len(fired) \in 0..(MaxAttempts - 1)
  <2>1. PICK n \in Nat : n = Len(fired)
    BY <1>3
  <2>2. n + 1 \in 1..4
    BY <1>5, <2>1 DEF MaxAttempts
  <2>3. n \in 0..3
    BY <2>2
  <2> QED BY <2>1, <2>3 DEF MaxAttempts
<1>11. /\ Len(runs'[policy].fired) = Len(fired) + 1
       /\ \A i \in 1..Len(fired) : runs'[policy].fired[i] = fired[i]
       /\ runs'[policy].fired[Len(fired) + 1] = t
  BY <1>3, <1>4
<1>12. runs'[policy].over =>
         runs'[policy].recovered \/ Len(runs'[policy].fired) = MaxAttempts
  BY <1>3, <1>4
<1> QED BY <1>4, <1>7, <1>8, <1>9, <1>10, <1>11, <1>12 DEF new

-----------------------------------------------------------------------------
(* The bank's decision.                                                    *)

(* On one day, outside the windows, an attempt has one chance, and the     *)
(* bank decides it in one way.                                             *)
LEMMA SameChance ==
  ASSUME NEW i, NEW t, NEW u, t \div Day = u \div Day, ~Blocked(t), ~Blocked(u)
  PROVE  /\ SuccessProbability(At(i, t)) = SuccessProbability(At(i, u))
         /\ \A draw : Decide(At(i, t), draw) = Decide(At(i, u), draw)
<1> PICK c : c = At(i, t)
  OBVIOUS
<1> PICK d : d = At(i, u)
  OBVIOUS
<1>1. /\ c.rail = d.rail /\ c.amount = d.amount /\ c.balance = d.balance /\ c.attempt = d.attempt
      /\ c.firedAt = t /\ d.firedAt = u /\ ~c.revoked /\ ~d.revoked
  BY DEF At, Conditions, DayOfMonth
<1>2. ~blocked(c) /\ ~blocked(d)
  BY <1>1 DEF blocked
<1>3. OverLimit(c) = OverLimit(d) /\ Insufficient(c) = Insufficient(d) /\ Likelihood(c) = Likelihood(d)
  BY <1>1 DEF OverLimit, Insufficient, Likelihood, ByHeadroom
<1>4. SuccessProbability(c) = SuccessProbability(d)
  BY <1>1, <1>2, <1>3 DEF SuccessProbability
<1>5. \A draw : Decide(c, draw) = Decide(d, draw)
  BY <1>1, <1>2, <1>3, <1>4 DEF Decide
<1> QED BY <1>4, <1>5

(* Four attempts wear a probability down to a natural number.              *)
LEMMA FatigueIsNat ==
  ASSUME NEW p \in Nat, NEW attempt \in 1..4
  PROVE  Fatigue(p, attempt) \in Nat
<1> DEFINE worn == CHOOSE w : w = [n \in 1..attempt |-> IF n = 1 THEN p ELSE (w[n - 1] * 95) \div 100]
<1>1. Fatigue(p, attempt) = worn[attempt]
  BY Zenon DEF Fatigue
<1> DEFINE w2 == (p * 95) \div 100
           w3 == (w2 * 95) \div 100
           w4 == (w3 * 95) \div 100
           g  == [n \in 1..attempt |-> IF n = 1 THEN p ELSE IF n = 2 THEN w2 ELSE IF n = 3 THEN w3 ELSE w4]
<1>2. w2 \in Nat /\ w3 \in Nat /\ w4 \in Nat
  <2>1. \A x \in Nat : (x * 95) \div 100 \in Nat
    OBVIOUS
  <2> QED BY <2>1
<1>3. g = [n \in 1..attempt |-> IF n = 1 THEN p ELSE (g[n - 1] * 95) \div 100]
  <2> HIDE DEF w2, w3, w4
  <2>1. \A n \in 1..attempt : n # 1 => n \in {2, 3, 4} /\ n - 1 \in 1..attempt
    OBVIOUS
  <2>2. ASSUME NEW n \in 1..attempt
        PROVE  g[n] = IF n = 1 THEN p ELSE (g[n - 1] * 95) \div 100
    <3>1. CASE n = 1
      BY <3>1
    <3>2. CASE n = 2
      <4>1. g[1] = p /\ g[2] = w2
        BY <3>2
      <4> QED BY <3>2, <4>1 DEF w2
    <3>3. CASE n = 3
      <4>1. g[2] = w2 /\ g[3] = w3
        BY <3>3
      <4> QED BY <3>3, <4>1 DEF w3
    <3>4. CASE n = 4
      <4>1. g[3] = w3 /\ g[4] = w4
        BY <3>4
      <4> QED BY <3>4, <4>1 DEF w4
    <3> QED BY <2>1, <3>1, <3>2, <3>3, <3>4
  <2> DEFINE h == [n \in 1..attempt |-> IF n = 1 THEN p ELSE (g[n - 1] * 95) \div 100]
  <2>3. \A n \in 1..attempt : g[n] = h[n]
    BY <2>2
  <2>4. g = [n \in 1..attempt |-> g[n]] /\ h = [n \in 1..attempt |-> h[n]]
    OBVIOUS
  <2> HIDE DEF g, h
  <2>5. g = h
    BY <2>3, <2>4
  <2> QED BY <2>5 DEF h
<1> HIDE DEF g
<1>4. \E w : w = [n \in 1..attempt |-> IF n = 1 THEN p ELSE (w[n - 1] * 95) \div 100]
  BY <1>3
<1>5. worn = [n \in 1..attempt |-> IF n = 1 THEN p ELSE (worn[n - 1] * 95) \div 100]
  BY <1>4
<1> HIDE DEF worn
<1>6. \A n \in 1..attempt : worn[n] = IF n = 1 THEN p ELSE (worn[n - 1] * 95) \div 100
  BY <1>5
<1>7. worn[attempt] \in Nat
  BY <1>6
<1> QED BY <1>1, <1>7

LEMMA DrawsAreTyped ==
  ASSUME NEW rail \in Rails, NEW d \in Draws(rail)
  PROVE  d.value \in Nat /\ railRules[rail].transient[d.pick] # "none"
<1>1. \A x \in DrawValues : x \in Nat
  BY DrawsAssumption
<1>2. d.value \in DrawValues
  BY DEF Draws
<1>3. railRules[rail].transient[d.pick] # "none"
  BY DEF Draws, Rails, railRules
<1> QED BY <1>1, <1>2, <1>3

LEMMA ChanceIsTyped ==
  ASSUME NEW c, c.rail \in Rails, c.attempt \in 1..4
  PROVE  SuccessProbability(c) \in Nat /\ SuccessProbability(c) <= 9800
<1> DEFINE base == railRules[c.rail].base
           worn  == Fatigue(ByHeadroom(c), c.attempt)
           least == Min({9800, worn})
<1>1. base \in {8800, 7800}
  BY DEF Rails, railRules
<1>2. ByHeadroom(c) \in Nat
  <2> HIDE DEF base
  <2>1. base + 500 \in Nat /\ base - 1500 \in Nat /\ base \in Nat
    BY <1>1
  <2>2. ByHeadroom(c) \in {base + 500, base - 1500, base}
    BY DEF ByHeadroom, base
  <2> QED BY <2>1, <2>2
<1>3. worn \in Nat
  BY <1>2, FatigueIsNat
<1> HIDE DEF worn
<1>4. least \in Nat /\ least <= 9800
  <2>1. {9800, worn} \in SUBSET Nat /\ {9800, worn} # {}
    BY <1>3
  <2>2. least \in {9800, worn} /\ \A y \in {9800, worn} : least <= y
    BY <2>1, LeastExists
  <2> HIDE DEF least
  <2> QED BY <1>3, <2>2
<1> HIDE DEF least
<1> PICK m \in Nat : m = least /\ m <= 9800
  BY <1>4
<1>5. Max({500, m}) \in Nat /\ Max({500, m}) <= 9800
  <2>1. CASE m <= 500
    <3>1. 500 \in {500, m} /\ \A y \in {500, m} : 500 >= y
      BY <2>1
    <3>2. Max({500, m}) \in {500, m}
      BY <3>1 DEF Max
    <3> QED BY <3>2
  <2>2. CASE ~(m <= 500)
    <3>1. m \in {500, m} /\ \A y \in {500, m} : m >= y
      BY <2>2
    <3>2. Max({500, m}) \in {500, m}
      BY <3>1 DEF Max
    <3> QED BY <3>2
  <2> QED BY <2>1, <2>2
<1>6. Likelihood(c) = Max({500, m})
  BY DEF Likelihood, least, worn
<1> QED BY <1>5, <1>6 DEF SuccessProbability

(* Every day an attempt may fall on is searched at some hour.              *)
LEMMA EveryDayIsSearched ==
  ASSUME NEW i \in 1..4
  PROVE  \E t \in Searched : t \in Nat /\ t \div Day = dayOf[i] /\ ~Blocked(t)
<1> DEFINE h == <<0, 24, 72, 167>>[i]
           t == DueDate + h * Hour
<1>1. h \in 0..(7 * 24 - 1) /\ h \in Nat
  OBVIOUS
<1>2. t \in Nat /\ t \div Day = dayOf[i] /\ minuteOfDay(t) \in {330, 270}
  BY DEF DueDate, dayOf, minuteOfDay, Day, Hour, Minute
<1>3. ~Blocked(t)
  BY <1>2 DEF Blocked, InWindow, blockedWindows
<1>4. t \in Searched
  BY <1>1, <1>3 DEF Searched
<1> QED BY <1>2, <1>3, <1>4

(* What some instant of the day would bring, the best slot brings.         *)
LEMMA BestSlotIsBest ==
  ASSUME mandate \in [rail: Rails, amount: Amounts, due: Dues],
         NEW i \in 1..4, NEW u \in Nat, u \div Day = dayOf[i], ~Blocked(u),
         NEW d \in Draws(mandate.rail), Decide(At(i, u), d) = "none"
  PROVE  Decide(At(i, BestSlot(i)), d) = "none"
<1> DEFINE chance == [t \in Searched |-> SuccessProbability(At(i, t))]
           S    == {chance[t] : t \in Searched}
           best == Max(S)
           T    == {t \in Searched : chance[t] = best}
<1> HIDE DEF chance, S, best, T
<1>1. mandate.rail \in Rails /\ railRules[mandate.rail].transient[d.pick] # "none"
  BY DrawsAreTyped
<1> PICK w \in Nat : w = d.value
  BY DrawsAreTyped
<1>2. ASSUME NEW t
      PROVE  LET c == At(i, t)
             IN  /\ c.rail = mandate.rail /\ c.attempt = i /\ ~c.revoked
                 /\ c.amount = mandate.amount /\ c.firedAt = t /\ (blocked(c) <=> Blocked(t))
  BY DEF At, Conditions, blocked
<1> DEFINE P(t) == SuccessProbability(At(i, t))
<1> HIDE DEF P
<1>3. ASSUME NEW t
      PROVE  P(t) \in Nat /\ P(t) <= 9800
  <2> PICK c : c = At(i, t)
    OBVIOUS
  <2>1. c.rail \in Rails /\ c.attempt \in 1..4
    BY <1>1, <1>2
  <2>2. SuccessProbability(c) \in Nat /\ SuccessProbability(c) <= 9800
    BY <2>1, ChanceIsTyped
  <2> QED BY <2>2 DEF P
<1> PICK n \in Nat : \A t : P(t) \in 0..n
  <2>1. PICK top \in Nat : \A t : P(t) \in Nat /\ P(t) <= top
    BY <1>3
  <2>2. \A t : P(t) \in 0..top
    <3> TAKE t
    <3>1. PICK y \in Nat : y = P(t) /\ y <= top
      BY <2>1
    <3>2. y \in 0..top
      BY <3>1
    <3> QED BY <3>1, <3>2
  <2> QED BY <2>2
<1>4. PICK v \in Searched : v \in Nat /\ v \div Day = dayOf[i] /\ ~Blocked(v)
  BY EveryDayIsSearched
<1>5. S = {P(t) : t \in Searched} /\ T = {t \in Searched : P(t) = best}
  BY DEF S, T, chance, P
<1>6. S \in SUBSET (0..n) /\ S # {}
  <2>1. S \subseteq 0..n
    BY <1>5
  <2>2. P(v) \in S
    BY <1>4, <1>5
  <2> QED BY <2>1, <2>2
<1>7. PICK x \in S : \A y \in S : y <= x
  BY <1>6, HighestExists
<1>8. best \in S /\ \A y \in S : y <= best
  <2>1. \A y \in S : x >= y
    BY <1>6, <1>7
  <2>2. best \in S /\ \A y \in S : best >= y
    BY <2>1 DEF Max, best
  <2> QED BY <1>6, <2>2
<1>9. T \in SUBSET Nat /\ T # {}
  <2>1. Searched \subseteq Nat
    BY DEF Searched, DueDate, Hour, Minute
  <2>2. PICK t \in Searched : P(t) = best
    BY <1>5, <1>8
  <2>3. t \in T /\ T \subseteq Searched
    BY <1>5, <2>2
  <2> QED BY <2>1, <2>3
<1>10. Min(T) \in T
  BY <1>9, LeastExists
<1>11. BestSlot(i) = Min(T)
  BY DEF BestSlot, best, S, T, chance
<1> PICK b \in Searched : b = BestSlot(i) /\ P(b) = best
  <2>1. \A t \in T : t \in Searched /\ P(t) = best
    BY <1>5
  <2> QED BY <1>10, <1>11, <2>1
<1>12. ~OverLimit(At(i, u)) /\ w < P(u)
  <2> PICK c : c = At(i, u)
    OBVIOUS
  <2>1. c.rail = mandate.rail /\ Decide(c, d) = "none"
    BY <1>2
  <2>2. ~OverLimit(c) /\ d.value < SuccessProbability(c)
    BY <1>1, <2>1 DEF Decide
  <2> QED BY <2>2 DEF P
<1>13. P(u) = P(v)
  BY <1>4, SameChance DEF P
<1>14. w < P(b)
  <2>1. P(v) <= P(b)
    BY <1>4, <1>5, <1>8
  <2>2. PICK x1 \in 0..n, x2 \in 0..n : x1 = P(v) /\ x2 = P(b)
    OBVIOUS
  <2>3. w < x1 /\ x1 <= x2
    BY <1>12, <1>13, <2>1, <2>2
  <2>4. w < x2
    BY <2>3
  <2> QED BY <2>2, <2>4
<1> PICK c : c = At(i, b)
  OBVIOUS
<1>15. /\ ~c.revoked /\ c.rail = mandate.rail /\ c.amount = mandate.amount /\ ~blocked(c)
       /\ d.value < SuccessProbability(c) /\ SuccessProbability(c) # 0
  <2>1. ~Blocked(b)
    BY DEF Searched
  <2>2. P(b) # 0
    <3>1. PICK y \in 0..n : y = P(b)
      OBVIOUS
    <3>2. y # 0
      BY <1>14, <3>1
    <3> QED BY <3>1, <3>2
  <2>3. P(b) = SuccessProbability(c)
    BY DEF P
  <2> QED BY <1>2, <1>14, <2>1, <2>2, <2>3
<1>16. ~OverLimit(c)
  BY <1>2, <1>12, <1>15 DEF OverLimit
<1>17. ~Insufficient(c)
  BY <1>15 DEF SuccessProbability
<1>18. Decide(c, d) = "none"
  BY <1>15, <1>16, <1>17 DEF Decide
<1> QED BY <1>18

(* The baseline is not over before the system is.                          *)
LEMMA BaselineWaits ==
  ASSUME BaselineInv, ~runs["system"].over
  PROVE  ~runs["baseline"].over
BY DEF BaselineInv

LEMMA SystemTriesKeepsInv ==
  ASSUME HarnessInv, SystemTries
  PROVE  HarnessInv'
<1> PICK fired : fired = runs["system"].fired
  OBVIOUS
<1> PICK t : t = IF fired = <<>>
                   THEN First(DueDate, PreferredHour, DueDate - mandateSetupLead)
                   ELSE Next(DueDate, Len(fired), PreferredHour, fired[Len(fired)])
  OBVIOUS
<1>1. /\ ~runs["system"].over /\ SystemMayTry /\ Fire("system", t)
      /\ UNCHANGED <<mandate, cycle, history>>
  BY DEF SystemTries, Latest
<1>2. /\ CycleInv /\ \A p \in Policies : RunInv(p)
      /\ SystemInv /\ BaselineInv /\ "system" \in Policies /\ "baseline" \in Policies
      /\ OracleInv /\ "oracle" \in Policies
  BY DEF HarnessInv, Policies
<1>3. /\ CycleInv' /\ \A p \in Policies : RunInv(p)'
      /\ \A p \in Policies \ {"system"} : runs'[p] = runs[p]
      /\ Len(fired) \in 0..(MaxAttempts - 1)
      /\ Len(runs'["system"].fired) = Len(fired) + 1
      /\ \A i \in 1..Len(fired) : runs'["system"].fired[i] = fired[i]
      /\ runs'["system"].fired[Len(fired) + 1] = t
      /\ runs'["system"].over =>
           runs'["system"].recovered \/ Len(runs'["system"].fired) = MaxAttempts
  BY <1>1, <1>2, FireKeepsRuns
<1>4. PreferredHour \in Hours
  BY <1>2, AnHourIsPreferred DEF CycleInv
<1>5. /\ t \in Nat /\ t \div Day = dayOf[Len(fired) + 1] /\ ~Blocked(t)
      /\ Len(fired) = 0 => t % Day <= 23 * Hour
  <2>1. CASE Len(fired) = 0
    <3>1. fired = <<>>
      BY <1>2, <2>1 DEF RunInv, IsSeq
    <3> QED BY <1>4, <2>1, <3>1, FirstDay DEF dayOf
  <2>2. CASE Len(fired) # 0
    <3>1. Len(fired) \in 1..3 /\ fired # <<>>
      BY <1>3, <2>2 DEF MaxAttempts
    <3>2. /\ fired[Len(fired)] \in Nat /\ fired[Len(fired)] \div Day = dayOf[Len(fired)]
          /\ Len(fired) = 1 => fired[Len(fired)] % Day <= 23 * Hour
      BY <1>2, <3>1 DEF SystemInv
    <3> QED BY <1>4, <2>2, <3>1, <3>2, NextDay
  <2> QED BY <2>1, <2>2
<1>6. SystemInv'
  <2>1. ASSUME NEW i \in 1..(Len(fired) + 1)
        PROVE  LET u == runs'["system"].fired[i]
               IN  u \in Nat /\ u \div Day = dayOf[i] /\ ~Blocked(u)
    <3>1. CASE i = Len(fired) + 1
      BY <1>3, <1>5, <3>1
    <3>2. CASE i # Len(fired) + 1
      <4>1. i \in 1..Len(fired)
        BY <1>3, <3>2
      <4> QED BY <1>2, <1>3, <4>1 DEF SystemInv
    <3> QED BY <3>1, <3>2
  <2>2. runs'["system"].fired[1] % Day <= 23 * Hour
    <3>1. CASE Len(fired) = 0
      BY <1>3, <1>5, <3>1
    <3>2. CASE Len(fired) # 0
      <4>1. Len(fired) > 0 /\ 1 \in 1..Len(fired)
        BY <1>3, <3>2
      <4> QED BY <1>2, <1>3, <4>1 DEF SystemInv
    <3> QED BY <3>1, <3>2
  <2> QED BY <1>3, <2>1, <2>2 DEF SystemInv
<1>7. BaselineInv'
  <2>1. Len(runs["baseline"].fired) = 0
    <3>1. ~(Len(runs["baseline"].fired) > 0) /\ IsSeq(runs["baseline"].fired)
      BY <1>1, <1>2 DEF BaselineInv, RunInv
    <3> QED BY <3>1, Appended
  <2>2. runs'["baseline"] = runs["baseline"]
    BY <1>2, <1>3
  <2> QED BY <1>2, <2>1, <2>2 DEF BaselineInv
<1>8. OracleInv'
  <2>1. runs'["oracle"] = runs["oracle"] /\ ~runs["baseline"].over /\ RunInv("oracle")
    BY <1>1, <1>2, <1>3, BaselineWaits
  <2>2. Len(runs["oracle"].fired) = 0
    <3>1. ~(Len(runs["oracle"].fired) > 0) /\ IsSeq(runs["oracle"].fired)
      BY <1>2, <2>1 DEF OracleInv, RunInv
    <3> QED BY <3>1, Appended
  <2> QED BY <1>2, <2>1, <2>2 DEF OracleInv
<1> QED BY <1>3, <1>6, <1>7, <1>8 DEF HarnessInv

LEMMA SystemStopsKeepsInv ==
  ASSUME HarnessInv, SystemStops
  PROVE  HarnessInv'
<1>1. /\ ~runs["system"].over /\ ~SystemMayTry
      /\ runs' = [runs EXCEPT !["system"].over = TRUE]
      /\ UNCHANGED <<mandate, cycle, history, draws>>
  BY DEF SystemStops
<1>2. /\ CycleInv /\ \A p \in Policies : RunInv(p)
      /\ SystemInv /\ BaselineInv /\ "system" \in Policies /\ "baseline" \in Policies
      /\ DOMAIN runs = Policies /\ OracleInv /\ "oracle" \in Policies
  BY DEF HarnessInv, Policies, CycleInv
<1>3. /\ DOMAIN runs' = Policies
      /\ \A p \in Policies \ {"system"} : runs'[p] = runs[p]
      /\ runs'["system"] = [runs["system"] EXCEPT !.over = TRUE]
  BY <1>1, <1>2
<1>4. /\ runs'["system"].over = TRUE /\ runs'["system"].fired = runs["system"].fired
      /\ runs'["system"].code = runs["system"].code
      /\ runs'["system"].recovered = runs["system"].recovered
      /\ DOMAIN runs'["system"] = DOMAIN runs["system"]
  BY <1>2, <1>3 DEF RunInv
<1>5. \A p \in Policies : /\ runs'[p].fired = runs[p].fired /\ DOMAIN runs'[p] = DOMAIN runs[p]
                          /\ runs'[p].recovered = runs[p].recovered
                          /\ runs[p].over => runs'[p].over
  BY <1>3, <1>4
<1>6. CycleInv'
  BY <1>1, <1>2, <1>3 DEF CycleInv, AnyCycle
<1>7. ASSUME NEW p \in Policies
      PROVE  RunInv(p)'
  <2>1. \A i, t : Verdict(i, t)' = Verdict(i, t)
    BY <1>1, SameConditions DEF Verdict
  <2>2. RunInv(p)
    BY <1>2
  <2> PICK f : f = runs[p].fired
    OBVIOUS
  <2>3. \A i \in 1..Len(f) : Verdict(i, f[i])' = Verdict(i, f[i])
    BY <2>1
  <2> QED BY <1>1, <1>5, <2>2, <2>3 DEF RunInv, Verdict
<1>8. SystemInv'
  <2>1. Len(runs["system"].fired) > 0 /\ ~D!Retryable(D!Classify(runs["system"].code))
    <3>1. Len(runs["system"].fired) \in Nat /\ Len(runs["system"].fired) < 4
      <4>1. IsSeq(runs["system"].fired) /\ Len(runs["system"].fired) <= 4 /\ Len(runs["system"].fired) # 4
        BY <1>1, <1>2 DEF RunInv, MaxAttempts
      <4>2. Len(runs["system"].fired) \in Nat
        BY <4>1, Appended
      <4>3. PICK n \in Nat : n = Len(runs["system"].fired)
        BY <4>2
      <4>4. n <= 4 /\ n # 4
        BY <4>1, <4>3
      <4>5. n < 4
        BY <4>4
      <4> QED BY <4>3, <4>5
    <3>2. Len(runs["system"].fired) # 0
      <4>1. runs["system"].fired # <<>>
        BY <1>1 DEF SystemMayTry
      <4> QED BY <1>2, <4>1 DEF RunInv, IsSeq
    <3>3. Len(runs["system"].fired) \in DOMAIN offsets
      BY <3>1, <3>2 DEF offsets
    <3> QED BY <1>1, <3>1, <3>2, <3>3 DEF SystemMayTry, HasNext
  <2> QED BY <1>2, <1>4, <2>1 DEF SystemInv
<1>9. BaselineInv'
  BY <1>2, <1>3, <1>4 DEF BaselineInv
<1>10. OracleInv'
  <2>1. ~runs["baseline"].over /\ RunInv("oracle")
    BY <1>1, <1>2, BaselineWaits
  <2>2. Len(runs["oracle"].fired) = 0
    <3>1. ~(Len(runs["oracle"].fired) > 0) /\ IsSeq(runs["oracle"].fired)
      BY <1>2, <2>1 DEF OracleInv, RunInv
    <3> QED BY <3>1, Appended
  <2> QED BY <1>2, <1>3, <2>1, <2>2 DEF OracleInv
<1> QED BY <1>6, <1>7, <1>8, <1>9, <1>10 DEF HarnessInv

LEMMA BaselineTriesKeepsInv ==
  ASSUME HarnessInv, BaselineTries
  PROVE  HarnessInv'
<1> PICK fired : fired = runs["baseline"].fired
  OBVIOUS
<1> PICK t : t = DueDate + baselineOffsets[Len(fired) + 1]
  OBVIOUS
<1>1. /\ runs["system"].over /\ ~runs["baseline"].over /\ Fire("baseline", t)
      /\ UNCHANGED <<mandate, cycle, history>>
  BY DEF BaselineTries
<1>2. /\ CycleInv /\ \A p \in Policies : RunInv(p)
      /\ SystemInv /\ BaselineInv /\ "system" \in Policies /\ "baseline" \in Policies
      /\ OracleInv /\ "oracle" \in Policies
  BY DEF HarnessInv, Policies
<1>3. /\ CycleInv' /\ \A p \in Policies : RunInv(p)'
      /\ \A p \in Policies \ {"baseline"} : runs'[p] = runs[p]
      /\ Len(fired) \in 0..(MaxAttempts - 1)
      /\ Len(runs'["baseline"].fired) = Len(fired) + 1
      /\ \A i \in 1..Len(fired) : runs'["baseline"].fired[i] = fired[i]
      /\ runs'["baseline"].fired[Len(fired) + 1] = t
      /\ runs'["baseline"].over =>
           runs'["baseline"].recovered \/ Len(runs'["baseline"].fired) = MaxAttempts
  BY <1>1, <1>2, FireKeepsRuns
<1>4. runs'["system"] = runs["system"]
  BY <1>2, <1>3
<1>5. SystemInv'
  BY <1>2, <1>4 DEF SystemInv
<1>6. BaselineInv'
  <2>1. \A i \in 1..(Len(fired) + 1) : runs'["baseline"].fired[i] = DueDate + baselineOffsets[i]
    <3>1. ASSUME NEW i \in 1..(Len(fired) + 1), i # Len(fired) + 1
          PROVE  i \in 1..Len(fired)
      BY <1>3, <3>1
    <3> QED BY <1>2, <1>3, <3>1 DEF BaselineInv
  <2>2. Len(fired) + 1 > 0
    BY <1>3
  <2> QED BY <1>1, <1>3, <1>4, <2>1, <2>2 DEF BaselineInv
<1>7. OracleInv'
  <2>1. runs'["oracle"] = runs["oracle"] /\ RunInv("oracle")
    BY <1>2, <1>3
  <2>2. Len(runs["oracle"].fired) = 0
    <3>1. ~(Len(runs["oracle"].fired) > 0) /\ IsSeq(runs["oracle"].fired)
      BY <1>1, <1>2, <2>1 DEF OracleInv, RunInv
    <3> QED BY <3>1, Appended
  <2> QED BY <1>1, <1>2, <2>1, <2>2 DEF OracleInv
<1> QED BY <1>3, <1>5, <1>6, <1>7 DEF HarnessInv

LEMMA OracleTriesKeepsInv ==
  ASSUME HarnessInv, OracleTries
  PROVE  HarnessInv'
<1> PICK fired : fired = runs["oracle"].fired
  OBVIOUS
<1> PICK t : t = BestSlot(Len(fired) + 1)
  OBVIOUS
<1>1. /\ runs["baseline"].over /\ ~runs["oracle"].over /\ Fire("oracle", t)
      /\ UNCHANGED <<mandate, cycle, history>>
  BY DEF OracleTries
<1>2. /\ CycleInv /\ \A p \in Policies : RunInv(p)
      /\ SystemInv /\ BaselineInv /\ OracleInv /\ Policies = {"system", "baseline", "oracle"}
      /\ "oracle" \in Policies
  BY DEF HarnessInv, Policies
<1>3. /\ CycleInv' /\ \A p \in Policies : RunInv(p)'
      /\ \A i \in 1..Len(draws) : \A u : Verdict(i, u)' = Verdict(i, u)
      /\ \A p \in Policies \ {"oracle"} : runs'[p] = runs[p]
      /\ Len(fired) \in 0..(MaxAttempts - 1)
      /\ Len(runs'["oracle"].fired) = Len(fired) + 1
      /\ \A i \in 1..Len(fired) : runs'["oracle"].fired[i] = fired[i]
      /\ runs'["oracle"].fired[Len(fired) + 1] = t
      /\ runs'["oracle"].over =>
           runs'["oracle"].recovered \/ Len(runs'["oracle"].fired) = MaxAttempts
  BY <1>1, <1>2, FireKeepsRuns
<1>4. runs'["system"] = runs["system"] /\ runs'["baseline"] = runs["baseline"]
  BY <1>2, <1>3
<1>5. SystemInv' /\ BaselineInv'
  BY <1>2, <1>4 DEF SystemInv, BaselineInv
<1>6. ASSUME NEW i \in 1..(Len(fired) + 1), NEW u \in Nat,
             u \div Day = dayOf[i], ~Blocked(u), Verdict(i, u)' = "none"
      PROVE  Verdict(i, runs["oracle"].fired[i])' = "none"
  <2> PICK at : at = runs'["oracle"].fired[i]
    OBVIOUS
  <2>1. CASE i = Len(fired) + 1
    <3>1. i \in 1..4 /\ at = BestSlot(i)
      <4>1. PICK n \in 0..3 : n = Len(fired)
        BY <1>3 DEF MaxAttempts
      <4>2. n + 1 \in 1..4
        OBVIOUS
      <4> QED BY <1>3, <2>1, <4>1, <4>2
    <3>2. draws' \in Seq(Draws(mandate.rail)) /\ Len(fired) + 1 <= Len(draws')
      BY <1>1, <1>2, <1>3 DEF CycleInv, RunInv
    <3>3. PICK d \in Draws(mandate.rail) : d = draws'[i]
      BY <1>3, <2>1, <3>1, <3>2
    <3>4. Decide(At(i, u), d) = "none"
      BY <1>1, <1>6, <3>3, SameConditions DEF Verdict
    <3>5. Decide(At(i, at), d) = "none"
      BY <1>2, <1>6, <3>1, <3>4, BestSlotIsBest DEF CycleInv
    <3>6. Decide(At(i, at)', d) = "none"
      BY <1>1, <3>5, SameConditions
    <3> QED BY <3>3, <3>6 DEF Verdict
  <2>2. CASE i # Len(fired) + 1
    <3>1. i \in 1..Len(fired) /\ i \in 1..Len(draws) /\ at = fired[i]
      <4>1. i \in 1..Len(fired)
        BY <1>3, <2>2
      <4>2. Len(fired) <= Len(draws) /\ Len(draws) \in Nat
        BY <1>2 DEF RunInv, CycleInv
      <4> QED BY <1>3, <4>1, <4>2
    <3>2. Verdict(i, u) = "none"
      BY <1>3, <1>6, <3>1
    <3>3. Verdict(i, at) = "none"
      BY <1>2, <1>6, <3>1, <3>2 DEF OracleInv
    <3>4. Verdict(i, at)' = "none"
      BY <1>3, <3>1, <3>3
    <3> QED BY <3>4 DEF Verdict
  <2> QED BY <2>1, <2>2
<1>7. OracleInv'
  <2>1. Len(fired) + 1 > 0 /\ Len(runs'["oracle"].fired) = Len(fired) + 1
    BY <1>3
  <2> QED BY <1>1, <1>3, <1>4, <1>6, <2>1 DEF OracleInv
<1> QED BY <1>3, <1>5, <1>7 DEF HarnessInv

(* The hour of a success is an hour of the day.                            *)
LEMMA NextCycleKeepsInv ==
  ASSUME HarnessInv, NextCycle
  PROVE  HarnessInv'
<1>1. /\ cycle.number < Length /\ cycle' \in AnyCycle(cycle.number + 1) /\ draws' = <<>>
      /\ history' = IF runs["system"].recovered
                      THEN Append(history, minuteOfDay(Latest(runs["system"])) \div 60)
                      ELSE history
      /\ runs' = [p \in Policies |-> NotRun] /\ UNCHANGED mandate
  BY DEF NextCycle
<1>2. /\ CycleInv /\ RunInv("system") /\ SystemInv /\ "baseline" \in Policies /\ "system" \in Policies
  BY DEF HarnessInv, Policies
<1>3. history' \in Seq(0..23) /\ Len(history') <= Len(history) + 1 /\ Len(history) \in Nat
  <2>1. CASE runs["system"].recovered
    <3>1. Len(runs["system"].fired) \in 1..Len(runs["system"].fired)
      BY <1>2, <2>1, Appended DEF RunInv
    <3>2. Latest(runs["system"]) \in Nat
      BY <1>2, <3>1 DEF SystemInv, Latest
    <3>3. minuteOfDay(Latest(runs["system"])) \div 60 \in 0..23
      BY <3>2 DEF minuteOfDay, Day, Minute
    <3> QED BY <1>1, <1>2, <2>1, <3>3 DEF CycleInv
  <2>2. CASE ~runs["system"].recovered
    BY <1>1, <1>2, <2>2 DEF CycleInv
  <2> QED BY <2>1, <2>2
<1>4. cycle'.number = cycle.number + 1 /\ cycle'.number \in 1..Length
  <2>1. cycle'.number = cycle.number + 1
    BY <1>1 DEF AnyCycle
  <2> QED BY <1>1, <1>2, <2>1, LengthAssumption DEF CycleInv
<1>5. CycleInv'
  <2>1. Len(history') < cycle'.number
    BY <1>2, <1>3, <1>4 DEF CycleInv
  <2>2. draws' \in Seq(Draws(mandate'.rail)) /\ Len(draws') <= MaxAttempts
    BY <1>1 DEF MaxAttempts
  <2> QED BY <1>1, <1>2, <1>3, <1>4, <2>1, <2>2 DEF CycleInv
<1>6. \A p \in Policies : /\ runs'[p].fired = <<>> /\ ~runs'[p].over /\ ~runs'[p].recovered
                          /\ DOMAIN runs'[p] = {"fired", "code", "recovered", "over"}
  BY <1>1 DEF NotRun
<1>7. /\ Len(<<>>) = 0 /\ IsSeq(<<>>) /\ 1..0 = {} /\ ~(0 > 0) /\ 0 # MaxAttempts
      /\ 0 <= MaxAttempts
  BY DEF IsSeq, MaxAttempts
<1>8. ASSUME NEW p \in Policies
      PROVE  RunInv(p)'
  <2>1. /\ IsSeq(runs'[p].fired) /\ Len(runs'[p].fired) = 0 /\ Len(runs'[p].fired) <= Len(draws')
        /\ \A i \in 1..Len(runs'[p].fired) : FALSE
    BY <1>1, <1>6, <1>7
  <2> QED BY <1>6, <1>7, <2>1 DEF RunInv, IsSeq
<1>9. SystemInv' /\ BaselineInv' /\ OracleInv'
  BY <1>2, <1>6, <1>7 DEF SystemInv, BaselineInv, OracleInv, Policies
<1> QED BY <1>5, <1>8, <1>9 DEF HarnessInv

-----------------------------------------------------------------------------
LEMMA HInitIsInv ==
  ASSUME HInit
  PROVE  HarnessInv
<1>1. /\ mandate \in [rail: Rails, amount: Amounts, due: Dues] /\ cycle \in AnyCycle(1)
      /\ history = <<>> /\ draws = <<>> /\ runs = [p \in Policies |-> NotRun]
  BY DEF HInit
<1>2. CycleInv
  <2>1. cycle.number = 1 /\ 1 \in 1..Length
    BY <1>1, LengthAssumption DEF AnyCycle
  <2>2. /\ history \in Seq(0..23) /\ Len(history) = 0 /\ draws \in Seq(Draws(mandate.rail))
        /\ Len(draws) <= MaxAttempts
    BY <1>1 DEF MaxAttempts
  <2> QED BY <1>1, <2>1, <2>2 DEF CycleInv
<1>3. \A p \in Policies : /\ runs[p].fired = <<>> /\ ~runs[p].over /\ ~runs[p].recovered
                          /\ DOMAIN runs[p] = {"fired", "code", "recovered", "over"}
  BY <1>1 DEF NotRun
<1>4. /\ Len(<<>>) = 0 /\ IsSeq(<<>>) /\ 1..0 = {} /\ ~(0 > 0) /\ 0 # MaxAttempts
      /\ 0 <= MaxAttempts
  BY DEF IsSeq, MaxAttempts
<1>5. ASSUME NEW p \in Policies
      PROVE  RunInv(p)
  BY <1>1, <1>3, <1>4 DEF RunInv
<1>6. "system" \in Policies /\ "baseline" \in Policies /\ "oracle" \in Policies
  BY DEF Policies
<1>7. SystemInv /\ BaselineInv /\ OracleInv
  BY <1>3, <1>4, <1>6 DEF SystemInv, BaselineInv, OracleInv
<1> QED BY <1>2, <1>5, <1>7 DEF HarnessInv

(* What is known of the three runs of a cycle.                             *)
THEOREM HarnessInvariant == HSpec => []HarnessInv
<1>1. HInit => HarnessInv
  BY HInitIsInv
<1>2. HarnessInv /\ [HNext]_hvars => HarnessInv'
  <2>1. SUFFICES ASSUME HarnessInv, [HNext]_hvars
                 PROVE  HarnessInv'
    OBVIOUS
  <2>2. CASE UNCHANGED hvars
    BY <2>1, <2>2 DEF hvars, HarnessInv, CycleInv, AnyCycle, RunInv, Verdict, At, Conditions,
                      BalanceAt, DayOfMonth, SystemInv, BaselineInv, OracleInv
  <2> QED
    BY <2>1, <2>2, SystemTriesKeepsInv, SystemStopsKeepsInv, BaselineTriesKeepsInv,
       OracleTriesKeepsInv, NextCycleKeepsInv DEF HNext
<1> QED BY <1>1, <1>2, PTL DEF HSpec

LEMMA Members ==
  ASSUME NEW S, NEW s \in Seq(S)
  PROVE  \A i \in DOMAIN s : s[i] \in S
OBVIOUS

(* No policy makes a fifth attempt, no hour is none of the day, no draw    *)
(* is not one of the rail's.                                               *)
THEOREM HarnessTypeOK == HSpec => []TypeOK
<1>1. HarnessInv => TypeOK
  <2>1. SUFFICES ASSUME HarnessInv
                 PROVE  TypeOK
    OBVIOUS
  <2>2. CycleInv /\ \A p \in Policies : RunInv(p)
    BY <2>1 DEF HarnessInv
  <2>3. \A i \in DOMAIN history : history[i] \in Hours \ {NoHour}
    <3>1. history \in Seq(0..23)
      BY <2>2 DEF CycleInv
    <3>2. 0..23 \subseteq Hours \ {NoHour}
      BY DEF Hours, NoHour
    <3>3. \A i \in DOMAIN history : history[i] \in 0..23
      BY <3>1, Members
    <3> QED BY <3>2, <3>3
  <2>4. cycle \in UNION {AnyCycle(n) : n \in 1..Length}
    BY <2>2 DEF CycleInv
  <2> QED BY <2>2, <2>3, <2>4 DEF CycleInv, RunInv, TypeOK
<1> QED BY <1>1, HarnessInvariant, PTL

(* Neither the lead of the notice nor a window nor a learnt hour moves an  *)
(* attempt of the system to another day than the baseline's.               *)
THEOREM SystemKeepsTheDays == HSpec => []DaysAreTheBaselines
<1>1. HarnessInv => DaysAreTheBaselines
  <2>1. SUFFICES ASSUME HarnessInv, NEW i \in DOMAIN runs["system"].fired
                 PROVE  runs["system"].fired[i] \div Day = (DueDate + baselineOffsets[i]) \div Day
    BY DEF DaysAreTheBaselines
  <2>2. SystemInv /\ RunInv("system")
    BY <2>1 DEF HarnessInv, Policies
  <2>3. i \in 1..Len(runs["system"].fired) /\ i \in 1..4
    <3>1. Len(runs["system"].fired) \in Nat /\ Len(runs["system"].fired) <= 4
      BY <2>2, Appended DEF RunInv, MaxAttempts
    <3>2. DOMAIN runs["system"].fired = 1..Len(runs["system"].fired)
      BY <2>2 DEF RunInv, IsSeq
    <3> QED BY <2>1, <3>1, <3>2
  <2>4. runs["system"].fired[i] \div Day = dayOf[i]
    BY <2>2, <2>3 DEF SystemInv
  <2>5. (DueDate + baselineOffsets[i]) \div Day = dayOf[i]
    BY <2>3 DEF DueDate, baselineOffsets, dayOf, Day, Hour, Minute
  <2> QED BY <2>4, <2>5
<1> QED BY <1>1, HarnessInvariant, PTL

(* So the system recovers nothing that the baseline loses, and loses to it *)
(* only what it gave up for good: SimulateSystem and SimulateBaseline on   *)
(* any customer.                                                           *)
THEOREM NoLiftToCapture == HSpec => []BaselineIsNotBeaten
<1>1. ASSUME HarnessInv, runs["baseline"].over
      PROVE  /\ runs["system"].recovered => runs["baseline"].recovered
             /\ runs["baseline"].recovered /\ ~runs["system"].recovered =>
                  ~D!Retryable(D!Classify(runs["system"].code))
  <2> PICK s : s = runs["system"]
    OBVIOUS
  <2> PICK b : b = runs["baseline"]
    OBVIOUS
  <2>1. SystemInv /\ BaselineInv /\ RunInv("system") /\ RunInv("baseline")
    BY <1>1 DEF HarnessInv, Policies
  <2>2. PICK n \in Nat, m \in Nat : n = Len(s.fired) /\ m = Len(b.fired)
    BY <2>1, Appended DEF RunInv
  <2>3. /\ n <= 4 /\ m <= 4 /\ 0 < m
        /\ s.recovered => 0 < n
        /\ \A i \in 1..n : Verdict(i, s.fired[i]) = "none" <=> i = n /\ s.recovered
        /\ \A i \in 1..m : Verdict(i, b.fired[i]) = "none" <=> i = m /\ b.recovered
    BY <1>1, <2>1, <2>2 DEF RunInv, BaselineInv, MaxAttempts
  <2>4. /\ b.recovered \/ m = 4
        /\ s.recovered \/ n = 4 \/ ~D!Retryable(D!Classify(s.code))
    BY <1>1, <2>1, <2>2, <2>3 DEF SystemInv, BaselineInv, MaxAttempts
  <2>5. ASSUME NEW i \in 1..n, i <= m
        PROVE  Verdict(i, s.fired[i]) = Verdict(i, b.fired[i])
    <3>1. i \in 1..m /\ i \in 1..4
      BY <2>3, <2>5
    <3>2. s.fired[i] \div Day = dayOf[i] /\ ~Blocked(s.fired[i])
      BY <2>1, <2>2 DEF SystemInv
    <3>3. b.fired[i] = DueDate + baselineOffsets[i]
      BY <2>1, <2>2, <3>1 DEF BaselineInv
    <3>4. b.fired[i] \div Day = dayOf[i] /\ minuteOfDay(b.fired[i]) = 330
      BY <3>1, <3>3 DEF DueDate, baselineOffsets, dayOf, minuteOfDay, Day, Hour, Minute
    <3>5. ~Blocked(b.fired[i])
      BY <3>4 DEF Blocked, InWindow, blockedWindows
    <3> QED BY <3>2, <3>4, <3>5, SameChance DEF Verdict
  <2>6. ASSUME s.recovered, ~b.recovered
        PROVE  FALSE
    <3>1. m = 4 /\ n \in 1..n /\ n <= m /\ n \in 1..m
      BY <2>3, <2>4, <2>6
    <3> QED BY <2>3, <2>5, <2>6, <3>1
  <2>7. ASSUME b.recovered, ~s.recovered, n = 4
        PROVE  FALSE
    <3>1. m \in 1..m /\ m \in 1..n /\ m <= m
      BY <2>3, <2>7
    <3> QED BY <2>3, <2>5, <2>7, <3>1
  <2> QED BY <2>4, <2>6, <2>7
<1>2. HarnessInv => BaselineIsNotBeaten
  BY <1>1 DEF BaselineIsNotBeaten
<1> QED BY <1>2, HarnessInvariant, PTL

(* And the oracle is never behind either of them: an hour it searches is   *)
(* as good as any of that day, and it takes the best (SimulateOracle).     *)
THEOREM NobodyBeatsTheOracle == HSpec => []OracleIsUpperBound
<1>1. ASSUME HarnessInv, runs["oracle"].over, NEW p \in Policies, runs[p].recovered
      PROVE  runs["oracle"].recovered /\ Len(runs["oracle"].fired) <= Len(runs[p].fired)
  <2> PICK s : s = runs[p]
    OBVIOUS
  <2> PICK o : o = runs["oracle"]
    OBVIOUS
  <2>1. /\ SystemInv /\ BaselineInv /\ OracleInv /\ RunInv(p) /\ RunInv("oracle")
        /\ Policies = {"system", "baseline", "oracle"}
    BY <1>1 DEF HarnessInv, Policies
  <2>2. PICK n \in Nat, m \in Nat : n = Len(s.fired) /\ m = Len(o.fired)
    BY <2>1, Appended DEF RunInv
  <2>3. /\ 0 < n /\ n <= 4 /\ m <= 4
        /\ Verdict(n, s.fired[n]) = "none"
        /\ \A i \in 1..m : Verdict(i, o.fired[i]) = "none" => i = m /\ o.recovered
        /\ o.recovered \/ m = 4
    <3>1. 0 < n /\ n <= 4 /\ m <= 4
      BY <1>1, <2>1, <2>2 DEF RunInv, MaxAttempts
    <3>2. n \in 1..n
      BY <3>1
    <3> QED BY <1>1, <2>1, <2>2, <3>1, <3>2 DEF RunInv, OracleInv, MaxAttempts
  <2>4. CASE p = "oracle"
    BY <1>1, <2>2, <2>4
  <2>5. CASE p # "oracle"
    <3>1. n \in 1..n /\ n \in 1..4
      BY <2>3
    <3>2. s.fired[n] \in Nat /\ s.fired[n] \div Day = dayOf[n] /\ ~Blocked(s.fired[n])
      <4>1. CASE p = "system"
        BY <2>1, <2>2, <3>1, <4>1 DEF SystemInv
      <4>2. CASE p = "baseline"
        <5>1. s.fired[n] = DueDate + baselineOffsets[n]
          BY <2>1, <2>2, <3>1, <4>2 DEF BaselineInv
        <5>2. /\ s.fired[n] \in Nat /\ s.fired[n] \div Day = dayOf[n]
              /\ minuteOfDay(s.fired[n]) = 330
          BY <3>1, <5>1 DEF DueDate, baselineOffsets, dayOf, minuteOfDay, Day, Hour, Minute
        <5>3. ~Blocked(s.fired[n])
          BY <5>2 DEF Blocked, InWindow, blockedWindows
        <5> QED BY <5>2, <5>3
      <4> QED BY <2>1, <2>5, <4>1, <4>2
    <3>3. CASE n <= m
      <4>1. n \in 1..m
        BY <2>3, <3>3
      <4>2. Verdict(n, o.fired[n]) = "none"
        BY <2>1, <2>2, <2>3, <3>2, <4>1 DEF OracleInv
      <4>3. n = m /\ o.recovered
        BY <2>3, <4>1, <4>2
      <4> QED BY <2>2, <4>3
    <3>4. CASE ~(n <= m)
      <4>1. m <= n /\ m # 4
        BY <2>3, <3>4
      <4> QED BY <2>2, <2>3, <4>1
    <3> QED BY <3>3, <3>4
  <2> QED BY <2>4, <2>5
<1>2. HarnessInv => OracleIsUpperBound
  BY <1>1 DEF OracleIsUpperBound
<1> QED BY <1>2, HarnessInvariant, PTL

(* The answer about one attempt and the decision on it, under one draw.    *)
LEMMA ToldIsTrue ==
  ASSUME NEW c, NEW number \in 1..MaxAttempts, c.attempt = number, c.rail \in Rails,
         DOMAIN c = {"rail", "amount", "balance", "attempt", "firedAt", "revoked", "ignoreWindow"},
         NEW draw \in Draws(c.rail)
  PROVE  /\ draw.value < Probabilities(c)[number] => Decide(c, draw) = "none"
         /\ Decide(c, draw) = "none" => draw.value < Probabilities(c)[number] \/ c.ignoreWindow
<1> PICK e : e = [c EXCEPT !.attempt = number, !.ignoreWindow = FALSE]
  OBVIOUS
<1>1. Probabilities(c)[number] = SuccessProbability(e)
  BY DEF Probabilities
<1>2. /\ e.rail = c.rail /\ e.amount = c.amount /\ e.balance = c.balance /\ e.attempt = c.attempt
      /\ e.revoked = c.revoked /\ ~e.ignoreWindow /\ e.firedAt = c.firedAt
  OBVIOUS
<1>3. railRules[c.rail].transient[draw.pick] # "none"
  BY DrawsAreTyped
<1> PICK w \in Nat : w = draw.value
  BY DrawsAreTyped
<1>4. /\ OverLimit(e) <=> OverLimit(c)
      /\ Insufficient(e) <=> Insufficient(c)
      /\ Likelihood(e) = Likelihood(c)
  <2>1. ByHeadroom(e) = ByHeadroom(c)
    BY <1>2 DEF ByHeadroom
  <2>2. Likelihood(e) = Likelihood(c)
    BY <1>2, <2>1 DEF Likelihood
  <2> QED BY <1>2, <2>2 DEF OverLimit, Insufficient
<1>5. (blocked(c) => blocked(e)) /\ (~c.ignoreWindow => (blocked(e) <=> blocked(c)))
  BY <1>2 DEF blocked
<1>6. ASSUME w < SuccessProbability(e)
      PROVE  Decide(c, draw) = "none"
  <2>1. ~(w < 0)
    OBVIOUS
  <2>2. ~e.revoked /\ ~blocked(e) /\ ~OverLimit(e) /\ ~Insufficient(e)
    BY <1>6, <2>1 DEF SuccessProbability
  <2>3. SuccessProbability(c) = SuccessProbability(e)
    BY <1>2, <1>4, <1>5, <2>2 DEF SuccessProbability
  <2> QED BY <1>2, <1>4, <1>5, <1>6, <2>2, <2>3 DEF Decide
<1>7. ASSUME Decide(c, draw) = "none", ~c.ignoreWindow
      PROVE  w < SuccessProbability(e)
  <2>1. /\ ~c.revoked /\ ~blocked(c) /\ ~OverLimit(c) /\ ~Insufficient(c)
        /\ w < SuccessProbability(c)
    BY <1>3, <1>7 DEF Decide
  <2>2. SuccessProbability(c) = SuccessProbability(e)
    BY <1>2, <1>4, <1>5, <1>7, <2>1 DEF SuccessProbability
  <2> QED BY <2>1, <2>2
<1> QED BY <1>1, <1>6, <1>7

(* What the oracle is told is what the bank would do (oracle.go), but for  *)
(* the hours in which a bank that ignores the windows debits all the same. *)
THEOREM OracleTellsTheTruth == HSpec => []TruthfulOracle
<1>1. HarnessInv => TruthfulOracle
  <2>1. SUFFICES ASSUME HarnessInv, draws = <<>>,
                        NEW number \in 1..MaxAttempts, NEW draw \in Draws(mandate.rail),
                        NEW revoked \in BOOLEAN, NEW ignoreWindow \in BOOLEAN,
                        NEW amount \in {0, mandate.amount, 1501},
                        NEW t \in {0, 10 * Hour, 13 * Hour, 14 * Hour, 7 * Day}
                 PROVE  LET c == [At(number, t) EXCEPT !.amount = amount, !.revoked = revoked,
                                                       !.ignoreWindow = ignoreWindow]
                            told == draw.value < Probabilities(c)[number]
                        IN  /\ told => Decide(c, draw) = "none"
                            /\ Decide(c, draw) = "none" => told \/ ignoreWindow
    BY DEF TruthfulOracle
  <2>2. PICK c : c = [At(number, t) EXCEPT
                        !.amount = amount, !.revoked = revoked, !.ignoreWindow = ignoreWindow]
    OBVIOUS
  <2>3. /\ c.attempt = number /\ c.rail = mandate.rail /\ c.ignoreWindow = ignoreWindow
        /\ DOMAIN c = {"rail", "amount", "balance", "attempt", "firedAt", "revoked", "ignoreWindow"}
    BY <2>2 DEF At, Conditions
  <2>4. mandate.rail \in Rails
    BY <2>1 DEF HarnessInv, CycleInv
  <2>5. /\ draw.value < Probabilities(c)[number] => Decide(c, draw) = "none"
        /\ Decide(c, draw) = "none" => draw.value < Probabilities(c)[number] \/ ignoreWindow
    BY <2>3, <2>4, ToldIsTrue
  <2> QED BY <2>2, <2>5
<1> QED BY <1>1, HarnessInvariant, PTL
=============================================================================
