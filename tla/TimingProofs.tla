---------------------------- MODULE TimingProofs ----------------------------
(***************************************************************************)
(* Theorems about a cycle against the wall clock, for every due date,      *)
(* preferred hour, MaxAttempts and way the clock moves.                    *)
(***************************************************************************)
EXTENDS Timing, SolveProofs, SequenceTheorems, FiniteSetTheorems

-----------------------------------------------------------------------------
(* The inductive invariant.                                                *)

(* What the shapes of the state have to say for the steps to be typed.     *)
Typed ==
  /\ now \in Nat /\ dueDate \in Nat
  /\ used \in Int /\ used <= Len(attempts)
  /\ attempts \in Seq(Attempt) /\ Len(attempts) <= MaxAttempts
  /\ triggers \in [1..(MaxAttempts + 1) -> Trigger]
  /\ \A k \in DOMAIN triggers : triggers[k].yes => triggers[k].replied # Never

(* An attempt lives after it is planned, and none is planned before the    *)
(* earlier ones are settled.                                               *)
InOrder ==
  /\ \A i \in DOMAIN attempts :
       /\ attempts[i].planned <= now /\ attempts[i].settled <= now
       /\ attempts[i].notice # Never => attempts[i].planned <= attempts[i].notice
  /\ \A j \in DOMAIN attempts : \A i \in 1..(j - 1) :
       attempts[i].settled # Never /\ attempts[i].settled <= attempts[j].planned

TimingInv == Typed /\ InOrder /\ ScheduledOutsideWindows /\ RelayHasTime

-----------------------------------------------------------------------------
(* The columns of a row.                                                   *)
LEMMA Columns ==
  ASSUME Typed, NEW i \in DOMAIN attempts
  PROVE  /\ attempts[i] \in Attempt
         /\ attempts[i].at \in Nat /\ attempts[i].planned \in Nat
         /\ attempts[i].notice \in Int /\ attempts[i].settled \in Int
<1>1. attempts[i] \in Attempt
  BY DEF Typed
<1> QED BY <1>1 DEF Attempt, Instant, Never

(* Overlap is excluded by the order alone: an attempt that may fire was    *)
(* notified after it was planned, and planned after the earlier ones.      *)
LEMMA OrderKeepsClaimsApart ==
  ASSUME TimingInv
  PROVE  ClaimsDoNotOverlap
<1> SUFFICES ASSUME NEW j \in DOMAIN attempts, NEW i \in 1..(j - 1),
                    OnTime(attempts[j]), attempts[i].settled >= attempts[i].at
             PROVE  attempts[j].at > attempts[i].at + staleAfter
  BY DEF ClaimsDoNotOverlap
<1>1. i \in DOMAIN attempts
  BY DEF TimingInv, Typed
<1>3. /\ attempts[i].at \in Nat /\ attempts[i].settled \in Int
      /\ attempts[j].at \in Nat /\ attempts[j].planned \in Nat /\ attempts[j].notice \in Int
  BY <1>1, Columns DEF TimingInv
<1>4. attempts[i].settled <= attempts[j].planned
  BY DEF TimingInv, InOrder
<1>5. /\ attempts[j].planned <= attempts[j].notice
      /\ attempts[j].notice <= attempts[j].at - NoticeLead
  BY DEF TimingInv, InOrder, OnTime
<1> QED
  BY <1>3, <1>4, <1>5 DEF staleAfter, NoticeLead, Hour, Minute

-----------------------------------------------------------------------------
(* The steps.                                                              *)

(* The reservation of an instant that is clear and leaves the notice time. *)
LEMMA ReserveKeepsInv ==
  ASSUME TimingInv, NEW at \in Nat, Reserve(at), ~Blocked(at),
         \/ at >= now + NoticeLead + noticeLeadBuffer
         \/ \E k \in DOMAIN triggers : triggers[k].yes /\ at = AfterConfirmation(triggers[k].replied)
  PROVE  TimingInv'
<1> DEFINE a == [at |-> at, planned |-> now, notice |-> Never, fired |-> Never,
                 settled |-> Never, code |-> "none"]
           n == Len(attempts)
<1>1. a \in Attempt
  BY DEF TimingInv, Typed, Attempt, Instant, Codes
<1>2. attempts' = Append(attempts, a) /\ used' = used + 1 /\ UNCHANGED <<now, dueDate, triggers>>
  BY DEF Reserve
<1>3. attempts \in Seq(Attempt) /\ n \in Nat /\ n < MaxAttempts /\ DOMAIN attempts = 1..n
  BY DEF TimingInv, Typed, Reserve, Schedulable
<1>4. /\ a.at = at /\ a.planned = now /\ a.notice = Never /\ a.settled = Never
  OBVIOUS
<1> HIDE DEF a
<1>5. /\ attempts' \in Seq(Attempt) /\ Len(attempts') = n + 1
      /\ DOMAIN attempts' = 1..(n + 1)
      /\ \A i \in 1..n : attempts'[i] = attempts[i]
      /\ attempts'[n + 1] = a
  BY <1>1, <1>2, <1>3
<1>6. \A i \in 1..n : attempts[i].settled # Never
  BY <1>3 DEF Reserve, Schedulable, Open
<1> HIDE DEF n
<1>7. Typed'
  BY <1>2, <1>3, <1>5, MaxAttemptsAssumption DEF TimingInv, Typed, n
<1>8. InOrder'
  <2>1. now \in Nat
    BY DEF TimingInv, Typed
  <2>2. \A i \in 1..(n + 1) :
          /\ attempts'[i].planned <= now' /\ attempts'[i].settled <= now'
          /\ attempts'[i].notice # Never => attempts'[i].planned <= attempts'[i].notice
    BY <1>2, <1>3, <1>4, <1>5, <2>1 DEF TimingInv, InOrder, Never
  <2>3. ASSUME NEW j \in 1..(n + 1), NEW i \in 1..(j - 1)
        PROVE  attempts'[i].settled # Never /\ attempts'[i].settled <= attempts'[j].planned
    <3>1. i \in 1..n
      BY <1>3, <2>3
    <3>2. CASE j \in 1..n
      BY <1>3, <1>5, <3>1, <3>2 DEF TimingInv, InOrder
    <3>3. CASE j = n + 1
      BY <1>3, <1>4, <1>5, <1>6, <3>1, <3>3 DEF TimingInv, InOrder
    <3> QED BY <1>3, <3>2, <3>3
  <2> QED BY <1>5, <2>2, <2>3 DEF InOrder
<1>9. ScheduledOutsideWindows'
  BY <1>3, <1>4, <1>5 DEF TimingInv, ScheduledOutsideWindows
<1>10. RelayHasTime'
  <2>1. \/ a.planned + noticeLeadBuffer <= DeliverBy(a)
        \/ \E k \in DOMAIN triggers : triggers[k].yes /\ a.at = AfterConfirmation(triggers[k].replied)
    BY <1>4 DEF TimingInv, Typed, DeliverBy, NoticeLead, noticeLeadBuffer, Hour, Minute
  <2> QED BY <1>2, <1>3, <1>5, <2>1 DEF TimingInv, RelayHasTime
<1> QED BY <1>7, <1>8, <1>9, <1>10 DEF TimingInv

(* An attempt is rewritten, its plan left alone: a notice is delivered now,*)
(* or it is settled now.                                                   *)
LEMMA RewriteKeepsInv ==
  ASSUME TimingInv, NEW i \in DOMAIN attempts, NEW a \in Attempt,
         attempts' = [attempts EXCEPT ![i] = a],
         a.at = attempts[i].at, a.planned = attempts[i].planned,
         a.notice \in {attempts[i].notice, now},
         a.settled = attempts[i].settled \/ (Open(i) /\ a.settled = now),
         used' \in {used, used - 1}, UNCHANGED <<now, dueDate, triggers>>
  PROVE  TimingInv'
<1>1. attempts \in Seq(Attempt) /\ DOMAIN attempts = 1..Len(attempts) /\ now \in Nat
  BY DEF TimingInv, Typed
<1>2. /\ attempts' \in Seq(Attempt) /\ Len(attempts') = Len(attempts)
      /\ DOMAIN attempts' = DOMAIN attempts
      /\ \A j \in DOMAIN attempts : attempts'[j] = IF j = i THEN a ELSE attempts[j]
  BY <1>1, ExceptSeq
<1>3. Typed'
  BY <1>2 DEF TimingInv, Typed
<1>4. InOrder'
  <2>1. attempts[i].planned \in Nat
    BY <1>1 DEF Attempt
  <2>2. \A j \in DOMAIN attempts :
          /\ attempts'[j].planned <= now' /\ attempts'[j].settled <= now'
          /\ attempts'[j].notice # Never => attempts'[j].planned <= attempts'[j].notice
    BY <1>1, <1>2, <2>1 DEF TimingInv, InOrder
  <2>3. ASSUME NEW j \in DOMAIN attempts, NEW k \in 1..(j - 1)
        PROVE  attempts'[k].settled # Never /\ attempts'[k].settled <= attempts'[j].planned
    <3>1. k \in DOMAIN attempts
      BY <1>1
    <3>2. attempts[k].settled # Never /\ attempts[k].settled <= attempts[j].planned
      BY DEF TimingInv, InOrder
    <3> QED BY <1>2, <3>1, <3>2 DEF Open
  <2> QED BY <1>2, <2>2, <2>3 DEF InOrder
<1>5. ScheduledOutsideWindows'
  BY <1>2 DEF TimingInv, ScheduledOutsideWindows
<1>6. RelayHasTime'
  BY <1>2 DEF TimingInv, RelayHasTime, DeliverBy
<1> QED BY <1>3, <1>4, <1>5, <1>6 DEF TimingInv

(* A step of the relay, the worker or the bank, on one attempt.            *)
LEMMA AttemptStepKeepsInv ==
  ASSUME TimingInv, NEW i \in DOMAIN attempts,
         Deliver(i) \/ TooLate(i) \/ Fire(i) \/ GiveUp(i) \/ Settle(i)
  PROVE  TimingInv'
<1>1. attempts \in Seq(Attempt) /\ attempts[i] \in Attempt /\ now \in Nat /\ now \in Instant
  BY DEF TimingInv, Typed, Instant
<1>2. CASE Deliver(i)
  <2> DEFINE a == [attempts[i] EXCEPT !.notice = now]
  <2>1. a \in Attempt /\ attempts' = [attempts EXCEPT ![i] = a]
    BY <1>1, <1>2 DEF Deliver, Attempt
  <2>2. a.at = attempts[i].at /\ a.planned = attempts[i].planned /\ a.notice = now
          /\ a.settled = attempts[i].settled
    BY <1>1 DEF Attempt
  <2>3. used' \in {used, used - 1} /\ UNCHANGED <<now, dueDate, triggers>>
    BY <1>2 DEF Deliver
  <2>4. /\ a.notice \in {attempts[i].notice, now}
        /\ a.settled = attempts[i].settled \/ (Open(i) /\ a.settled = now)
    BY <2>2
  <2> HIDE DEF a
  <2> QED BY <2>1, <2>2, <2>3, <2>4, RewriteKeepsInv
<1>3. CASE Fire(i)
  <2> DEFINE a == [attempts[i] EXCEPT !.fired = now]
  <2>1. a \in Attempt /\ attempts' = [attempts EXCEPT ![i] = a]
    BY <1>1, <1>3 DEF Fire, Attempt
  <2>2. a.at = attempts[i].at /\ a.planned = attempts[i].planned
          /\ a.notice = attempts[i].notice /\ a.settled = attempts[i].settled
    BY <1>1 DEF Attempt
  <2>3. used' \in {used, used - 1} /\ UNCHANGED <<now, dueDate, triggers>>
    BY <1>3 DEF Fire
  <2>4. /\ a.notice \in {attempts[i].notice, now}
        /\ a.settled = attempts[i].settled \/ (Open(i) /\ a.settled = now)
    BY <2>2
  <2> HIDE DEF a
  <2> QED BY <2>1, <2>2, <2>3, <2>4, RewriteKeepsInv
<1>4. CASE Abandon(i)
  <2> DEFINE a == [attempts[i] EXCEPT !.settled = now]
  <2>1. a \in Attempt /\ attempts' = [attempts EXCEPT ![i] = a]
    BY <1>1, <1>4 DEF Abandon, Attempt
  <2>2. a.at = attempts[i].at /\ a.planned = attempts[i].planned
          /\ a.notice = attempts[i].notice /\ a.settled = now
    BY <1>1 DEF Attempt
  <2> HIDE DEF a
  <2> QED BY <1>4, <2>1, <2>2, RewriteKeepsInv DEF Abandon
<1>5. CASE Settle(i)
  <2>1. PICK code \in Codes :
          /\ attempts' = [attempts EXCEPT ![i].settled = now, ![i].code = code]
          /\ used' = IF code = "none" THEN used - 1 ELSE used
    BY <1>5 DEF Settle
  <2> DEFINE a == [attempts[i] EXCEPT !.settled = now, !.code = code]
  <2>2. a \in Attempt /\ attempts' = [attempts EXCEPT ![i] = a]
    BY <1>1, <2>1 DEF Attempt
  <2>3. a.at = attempts[i].at /\ a.planned = attempts[i].planned
          /\ a.notice = attempts[i].notice /\ a.settled = now
    BY <1>1 DEF Attempt
  <2>4. used' \in {used, used - 1} /\ Open(i) /\ UNCHANGED <<now, dueDate, triggers>>
    BY <1>5, <2>1 DEF Settle
  <2> HIDE DEF a
  <2> QED BY <2>2, <2>3, <2>4, RewriteKeepsInv
<1> QED BY <1>2, <1>3, <1>4, <1>5 DEF TooLate, GiveUp

(* The clock moves on.                                                     *)
LEMMA TickKeepsInv ==
  ASSUME TimingInv, Tick
  PROVE  TimingInv'
<1>1. PICK t \in Deadlines \cup {now + d : d \in Steps} : now < t /\ t <= Horizon /\ now' = t
  BY DEF Tick
<1>2. t \in Int
  <2>1. CASE t \in UNION {DeadlinesOf(attempts[i]) : i \in DOMAIN attempts}
    <3>1. PICK X \in {DeadlinesOf(attempts[i]) : i \in DOMAIN attempts} : t \in X
      BY <2>1
    <3>2. PICK i \in DOMAIN attempts : X = DeadlinesOf(attempts[i])
      BY <3>1, Zenon
    <3>3. t \in DeadlinesOf(attempts[i])
      BY <3>1, <3>2
    <3> QED
      BY <3>3, Columns DEF TimingInv, DeadlinesOf, DeliverBy, NoticeLead, staleAfter, Hour, Minute
  <2>2. CASE t \in {triggers[k].sent + triggerTimeout + 1 : k \in DOMAIN triggers}
    <3>1. PICK k \in DOMAIN triggers : t = triggers[k].sent + triggerTimeout + 1
      BY <2>2
    <3>2. triggers[k] \in Trigger
      BY DEF TimingInv, Typed
    <3> QED BY <3>1, <3>2 DEF Trigger, Instant, Never, triggerTimeout, Hour
  <2>3. CASE t \in {now + d : d \in Steps}
    BY <2>3, StepsAssumption DEF TimingInv, Typed
  <2> QED BY <1>1, <2>1, <2>2, <2>3 DEF Deadlines
<1>3. now \in Nat /\ now' \in Nat /\ now < now'
  BY <1>1, <1>2 DEF TimingInv, Typed
<1>4. UNCHANGED <<dueDate, used, attempts, triggers>>
  BY DEF Tick
<1>5. InOrder'
  <2>1. \A i \in DOMAIN attempts : attempts[i].planned \in Int /\ attempts[i].settled \in Int
    BY Columns DEF TimingInv
  <2> QED BY <1>3, <1>4, <2>1 DEF TimingInv, InOrder
<1> QED BY <1>3, <1>4, <1>5
           DEF TimingInv, Typed, ScheduledOutsideWindows, RelayHasTime, DeliverBy

(* A question is put to the customer, or answered now.                     *)
LEMMA TriggerStepKeepsInv ==
  ASSUME TimingInv, Ask \/ \E yes \in BOOLEAN : Respond(yes)
  PROVE  TimingInv'
<1>1. UNCHANGED <<now, dueDate, used, attempts>>
  BY DEF Ask, Respond
<1>2. triggers \in [1..(MaxAttempts + 1) -> Trigger] /\ now \in Instant /\ now # Never
  BY DEF TimingInv, Typed, Instant, Never
<1>3. /\ triggers' \in [1..(MaxAttempts + 1) -> Trigger]
      /\ \A k \in DOMAIN triggers' : triggers'[k].yes => triggers'[k].replied # Never
      /\ \A k \in DOMAIN triggers : triggers[k].yes =>
           triggers'[k].yes /\ triggers'[k].replied = triggers[k].replied
  <2>1. CASE Ask
    BY <1>2, <2>1 DEF Ask, Trigger, TimingInv, Typed
  <2>2. CASE \E yes \in BOOLEAN : Respond(yes)
    <3>1. PICK yes \in BOOLEAN, k \in Unanswered :
            triggers' = [triggers EXCEPT ![k].replied = now, ![k].yes = yes]
      BY <2>2 DEF Respond
    <3>2. k \in 1..(MaxAttempts + 1) /\ triggers[k].replied = Never
      BY <1>2 DEF Unanswered
    <3>3. ~triggers[k].yes
      BY <1>2, <3>2 DEF TimingInv, Typed
    <3>4. triggers' = [triggers EXCEPT ![k] = [triggers[k] EXCEPT !.replied = now, !.yes = yes]]
      BY <1>2, <3>1, <3>2
    <3>5. [triggers[k] EXCEPT !.replied = now, !.yes = yes] \in Trigger
      BY <1>2, <3>2 DEF Trigger
    <3> QED BY <1>2, <3>2, <3>3, <3>4, <3>5 DEF TimingInv, Typed, Trigger
  <2> QED BY <2>1, <2>2
<1>4. RelayHasTime'
  BY <1>1, <1>2, <1>3 DEF TimingInv, RelayHasTime, DeliverBy
<1> QED BY <1>1, <1>3, <1>4
           DEF TimingInv, Typed, InOrder, ScheduledOutsideWindows

(* The scheduler reserves an instant the solver gave it.                   *)
LEMMA ScheduleKeepsInv ==
  ASSUME TimingInv,
         ScheduleFirst \/ ScheduleRetry \/ ScheduleConfirmed \/ ScheduleUnconfirmed
  PROVE  TimingInv'
<1>1. now \in Nat /\ dueDate \in Nat /\ used \in Int
  BY DEF TimingInv, Typed
<1>2. CASE ScheduleFirst
  <2>1. PICK hour \in PreferredHours : Reserve(First(dueDate, hour, now))
    BY <1>2 DEF ScheduleFirst
  <2> DEFINE at == First(dueDate, hour, now)
  <2>2. at \in Nat /\ at >= now + NoticeLead + noticeLeadBuffer /\ ~Blocked(at)
    BY <1>1, PreferredHoursAssumption, FirstIsReachable
  <2>3. Reserve(at)
    BY <2>1
  <2> HIDE DEF at
  <2> QED BY <2>2, <2>3, ReserveKeepsInv
<1>3. CASE ScheduleNext
  <2>1. PICK hour \in PreferredHours : Reserve(Next(dueDate, used, hour, now))
    BY <1>3 DEF ScheduleNext
  <2>2. HasNext(used, TRUE) /\ used \in Nat
    BY <1>3 DEF ScheduleNext, HasNext, offsets
  <2> DEFINE at == Next(dueDate, used, hour, now)
  <2>3. at \in Nat /\ at >= now + NoticeLead + noticeLeadBuffer /\ ~Blocked(at)
    BY <1>1, <2>2, PreferredHoursAssumption, NextIsReachable
  <2>4. Reserve(at)
    BY <2>1
  <2> HIDE DEF at
  <2> QED BY <2>3, <2>4, ReserveKeepsInv
<1>4. CASE ScheduleConfirmed
  <2> DEFINE k == used + 1
             at == AfterConfirmation(triggers[k].replied)
  <2>1. k \in DOMAIN triggers
    <3>1. used > 0 /\ used <= Len(attempts) /\ Len(attempts) \in Nat /\ Len(attempts) <= MaxAttempts
      BY <1>4 DEF ScheduleConfirmed, ShortOfFunds, TimingInv, Typed
    <3> QED BY <1>1, <3>1, MaxAttemptsAssumption DEF TimingInv, Typed
  <2>2. triggers[k].yes /\ Reserve(at)
    BY <1>4 DEF ScheduleConfirmed, Asked
  <2>3. triggers[k].replied \in Nat
    <3>1. triggers[k] \in Trigger
      BY <2>1 DEF TimingInv, Typed
    <3> QED BY <2>1, <2>2, <3>1 DEF TimingInv, Typed, Trigger, Instant
  <2>4. at \in Nat /\ ~Blocked(at)
    BY <2>3, ConfirmedIsClear
  <2>5. \E l \in DOMAIN triggers : triggers[l].yes /\ at = AfterConfirmation(triggers[l].replied)
    BY <2>1, <2>2
  <2> HIDE DEF at, k
  <2> QED BY <2>2, <2>4, <2>5, ReserveKeepsInv
<1> QED BY <1>2, <1>3, <1>4 DEF ScheduleRetry, ScheduleUnconfirmed

-----------------------------------------------------------------------------
(* The count of attempts.                                                  *)

(* The attempts the cycle pays for: those still open, and those the bank   *)
(* declined.                                                               *)
Charged == {i \in DOMAIN attempts : Open(i) \/ attempts[i].code # "none"}

UsedAgrees ==
  /\ used = Cardinality(Charged)
  /\ \A i \in DOMAIN attempts : Open(i) => attempts[i].code = "none"

LEMMA ChargedIsFinite ==
  ASSUME Typed
  PROVE  /\ IsFiniteSet(Charged) /\ Cardinality(Charged) \in Nat
         /\ Cardinality(Charged) <= Len(attempts)
<1>1. Charged \in SUBSET (1..Len(attempts)) /\ Len(attempts) \in Nat
  BY DEF Charged, Typed
<1>2. IsFiniteSet(1..Len(attempts)) /\ Cardinality(1..Len(attempts)) = Len(attempts)
  BY <1>1, FS_Interval
<1> QED BY <1>1, <1>2, FS_Subset, FS_CardinalityType

(* A reservation is one more to pay for.                                   *)
LEMMA ReserveIsCounted ==
  ASSUME TimingInv, UsedAgrees, NEW at \in Nat, Reserve(at)
  PROVE  UsedAgrees'
<1> DEFINE a == [at |-> at, planned |-> now, notice |-> Never, fired |-> Never,
                 settled |-> Never, code |-> "none"]
           n == Len(attempts)
<1>1. a \in Attempt /\ a.settled = Never /\ a.code = "none"
  BY DEF TimingInv, Typed, Attempt, Instant, Codes
<1>2. attempts' = Append(attempts, a) /\ used' = used + 1
  BY DEF Reserve
<1> HIDE DEF a
<1>3. /\ n \in Nat /\ DOMAIN attempts = 1..n /\ DOMAIN attempts' = 1..(n + 1)
      /\ \A i \in 1..n : attempts'[i] = attempts[i]
      /\ attempts'[n + 1] = a
  BY <1>1, <1>2 DEF TimingInv, Typed
<1> HIDE DEF n
<1>4. Charged' = Charged \cup {n + 1} /\ n + 1 \notin Charged
  BY <1>1, <1>3 DEF Charged, Open
<1>5. Cardinality(Charged') = Cardinality(Charged) + 1
  BY <1>4, ChargedIsFinite, FS_AddElement DEF TimingInv
<1>6. \A i \in DOMAIN attempts' : Open(i)' => attempts'[i].code = "none"
  BY <1>1, <1>3 DEF UsedAgrees, Open
<1> QED BY <1>2, <1>5, <1>6 DEF UsedAgrees

(* What becomes of one attempt changes the count by what it adds or takes. *)
LEMMA RewriteIsCounted ==
  ASSUME TimingInv, UsedAgrees, NEW i \in DOMAIN attempts, NEW a \in Attempt,
         attempts' = [attempts EXCEPT ![i] = a],
         \/ /\ a.settled = attempts[i].settled /\ a.code = attempts[i].code /\ used' = used
         \/ /\ Open(i) /\ a.settled # Never
            /\ used' = IF a.code = "none" THEN used - 1 ELSE used
  PROVE  UsedAgrees'
<1>1. /\ DOMAIN attempts' = DOMAIN attempts
      /\ \A j \in DOMAIN attempts : attempts'[j] = IF j = i THEN a ELSE attempts[j]
  BY ExceptSeq DEF TimingInv, Typed
<1>2. /\ IsFiniteSet(Charged) /\ Cardinality(Charged) \in Nat /\ used = Cardinality(Charged)
  BY ChargedIsFinite DEF TimingInv, UsedAgrees
<1>3. CASE a.settled = attempts[i].settled /\ a.code = attempts[i].code /\ used' = used
  <2>1. Charged' = Charged
    BY <1>1, <1>3 DEF Charged, Open
  <2> QED BY <1>1, <1>2, <1>3, <2>1 DEF UsedAgrees, Open
<1>4. CASE Open(i) /\ a.settled # Never /\ used' = IF a.code = "none" THEN used - 1 ELSE used
  <2>1. i \in Charged
    BY <1>4 DEF Charged
  <2>2. Charged' = IF a.code = "none" THEN Charged \ {i} ELSE Charged
    BY <1>1, <1>4, <2>1 DEF Charged, Open
  <2>3. Cardinality(Charged \ {i}) = Cardinality(Charged) - 1
    BY <1>2, <2>1, FS_RemoveElement
  <2>4. used' = Cardinality(Charged')
    BY <1>2, <1>4, <2>2, <2>3
  <2>5. \A j \in DOMAIN attempts' : Open(j)' => attempts'[j].code = "none"
    BY <1>1, <1>4 DEF UsedAgrees, Open
  <2> QED BY <2>4, <2>5 DEF UsedAgrees
<1> QED BY <1>3, <1>4

LEMMA AttemptStepIsCounted ==
  ASSUME TimingInv, UsedAgrees, NEW i \in DOMAIN attempts,
         Deliver(i) \/ TooLate(i) \/ Fire(i) \/ GiveUp(i) \/ Settle(i)
  PROVE  UsedAgrees'
<1>1. attempts[i] \in Attempt /\ now \in Instant /\ now # Never
  BY DEF TimingInv, Typed, Instant, Never
<1>2. CASE Deliver(i)
  <2> DEFINE a == [attempts[i] EXCEPT !.notice = now]
  <2>1. /\ a \in Attempt /\ attempts' = [attempts EXCEPT ![i] = a]
        /\ a.settled = attempts[i].settled /\ a.code = attempts[i].code /\ used' = used
    BY <1>1, <1>2 DEF Deliver, Attempt
  <2> HIDE DEF a
  <2> QED BY <2>1, RewriteIsCounted
<1>3. CASE Fire(i)
  <2> DEFINE a == [attempts[i] EXCEPT !.fired = now]
  <2>1. /\ a \in Attempt /\ attempts' = [attempts EXCEPT ![i] = a]
        /\ a.settled = attempts[i].settled /\ a.code = attempts[i].code /\ used' = used
    BY <1>1, <1>3 DEF Fire, Attempt
  <2> HIDE DEF a
  <2> QED BY <2>1, RewriteIsCounted
<1>4. CASE Abandon(i)
  <2> DEFINE a == [attempts[i] EXCEPT !.settled = now]
  <2>1. /\ a \in Attempt /\ attempts' = [attempts EXCEPT ![i] = a]
        /\ a.settled = now /\ a.code = attempts[i].code
    BY <1>1, <1>4 DEF Abandon, Attempt
  <2>2. Open(i) /\ used' = used - 1 /\ attempts[i].code = "none"
    BY <1>4 DEF Abandon, UsedAgrees
  <2> HIDE DEF a
  <2> QED BY <1>1, <2>1, <2>2, RewriteIsCounted
<1>5. CASE Settle(i)
  <2>1. PICK code \in Codes :
          /\ attempts' = [attempts EXCEPT ![i].settled = now, ![i].code = code]
          /\ used' = IF code = "none" THEN used - 1 ELSE used
    BY <1>5 DEF Settle
  <2> DEFINE a == [attempts[i] EXCEPT !.settled = now, !.code = code]
  <2>2. /\ a \in Attempt /\ attempts' = [attempts EXCEPT ![i] = a]
        /\ a.settled = now /\ a.code = code
    BY <1>1, <2>1 DEF Attempt
  <2>3. Open(i)
    BY <1>5 DEF Settle
  <2> HIDE DEF a
  <2> QED BY <1>1, <2>1, <2>2, <2>3, RewriteIsCounted
<1> QED BY <1>2, <1>3, <1>4, <1>5 DEF TooLate, GiveUp

LEMMA ScheduleIsCounted ==
  ASSUME TimingInv, UsedAgrees,
         ScheduleFirst \/ ScheduleRetry \/ ScheduleConfirmed \/ ScheduleUnconfirmed
  PROVE  UsedAgrees'
<1>1. \E at \in Nat : Reserve(at)
  <2>1. now \in Nat /\ dueDate \in Nat /\ used \in Nat /\ used <= Len(attempts)
    BY ChargedIsFinite DEF TimingInv, Typed, UsedAgrees
  <2>2. CASE ScheduleFirst
    <3>1. \A hour \in PreferredHours : First(dueDate, hour, now) \in Nat
      BY <2>1, PreferredHoursAssumption, FirstIsReachable
    <3> QED BY <2>2, <3>1 DEF ScheduleFirst
  <2>3. CASE ScheduleNext
    <3>1. \A hour \in PreferredHours : Next(dueDate, used, hour, now) \in Nat
      BY <2>1, <2>3, PreferredHoursAssumption, NextIsReachable DEF ScheduleNext
    <3> QED BY <2>3, <3>1 DEF ScheduleNext
  <2>4. CASE ScheduleConfirmed
    <3>1. used + 1 \in DOMAIN triggers
      BY <2>1, MaxAttemptsAssumption DEF TimingInv, Typed
    <3>2. Asked \in Trigger /\ Asked.yes /\ Asked.replied # Never
      BY <2>4, <3>1 DEF ScheduleConfirmed, Asked, TimingInv, Typed
    <3>3. Asked.replied \in Nat
      BY <3>2 DEF Trigger, Instant
    <3>4. AfterConfirmation(Asked.replied) \in Nat
      BY <3>3, ConfirmedIsClear
    <3> QED BY <2>4, <3>4 DEF ScheduleConfirmed
  <2> QED BY <2>2, <2>3, <2>4 DEF ScheduleRetry, ScheduleUnconfirmed
<1> QED BY <1>1, ReserveIsCounted

-----------------------------------------------------------------------------
(* The theorems.                                                           *)

(* The invariant behind them, of every behaviour.                          *)
THEOREM TimingInvariant == Spec => []TimingInv
<1>1. Init => TimingInv
  BY MaxAttemptsAssumption, DueDatesAssumption
     DEF Init, TimingInv, Typed, InOrder, ScheduledOutsideWindows, RelayHasTime,
         Trigger, Instant, Never
<1>2. TimingInv /\ [TimingNext]_vars => TimingInv'
  <2> SUFFICES ASSUME TimingInv, [TimingNext]_vars
               PROVE  TimingInv'
    OBVIOUS
  <2>1. CASE Tick
    BY <2>1, TickKeepsInv
  <2>2. CASE ScheduleFirst \/ ScheduleRetry \/ ScheduleConfirmed \/ ScheduleUnconfirmed
    BY <2>2, ScheduleKeepsInv
  <2>3. CASE Ask \/ \E yes \in BOOLEAN : Respond(yes)
    BY <2>3, TriggerStepKeepsInv
  <2>4. CASE \E i \in DOMAIN attempts :
               Deliver(i) \/ TooLate(i) \/ Fire(i) \/ GiveUp(i) \/ Settle(i)
    BY <2>4, AttemptStepKeepsInv
  <2>5. CASE UNCHANGED vars
    BY <2>5 DEF vars, TimingInv, Typed, InOrder, ScheduledOutsideWindows, RelayHasTime, DeliverBy
  <2> QED BY <2>1, <2>2, <2>3, <2>4, <2>5 DEF TimingNext
<1> QED BY <1>1, <1>2, PTL DEF Spec

(* Types: the count of attempts used stays between none and MaxAttempts,   *)
(* since it is the count of those to pay for.                              *)
THEOREM TimingTypeOK == Spec => []TypeOK
<1>1. Init => UsedAgrees
  <2> SUFFICES ASSUME Init PROVE UsedAgrees
    OBVIOUS
  <2>1. Charged = {} /\ DOMAIN attempts = {}
    BY DEF Init, Charged
  <2> QED BY <2>1, FS_EmptySet DEF Init, UsedAgrees
<1>2. TimingInv /\ UsedAgrees /\ [TimingNext]_vars => UsedAgrees'
  <2> SUFFICES ASSUME TimingInv, UsedAgrees, [TimingNext]_vars
               PROVE  UsedAgrees'
    OBVIOUS
  <2>1. CASE Tick \/ Ask \/ (\E yes \in BOOLEAN : Respond(yes)) \/ UNCHANGED vars
    <3>1. UNCHANGED <<used, attempts>>
      BY <2>1 DEF Tick, Ask, Respond, vars
    <3> QED BY <3>1 DEF UsedAgrees, Charged, Open
  <2>2. CASE ScheduleFirst \/ ScheduleRetry \/ ScheduleConfirmed \/ ScheduleUnconfirmed
    BY <2>2, ScheduleIsCounted
  <2>3. CASE \E i \in DOMAIN attempts :
               Deliver(i) \/ TooLate(i) \/ Fire(i) \/ GiveUp(i) \/ Settle(i)
    BY <2>3, AttemptStepIsCounted
  <2> QED BY <2>1, <2>2, <2>3 DEF TimingNext
<1>3. TimingInv /\ UsedAgrees => TypeOK
  <2> SUFFICES ASSUME TimingInv, UsedAgrees PROVE TypeOK
    OBVIOUS
  <2>1. used \in 0..MaxAttempts
    BY ChargedIsFinite, MaxAttemptsAssumption DEF TimingInv, Typed, UsedAgrees
  <2> QED BY <2>1 DEF TimingInv, Typed, TypeOK
<1> QED BY <1>1, <1>2, <1>3, TimingInvariant, PTL DEF Spec

(* Two attempts of a cycle are never up for claiming at the same time: the *)
(* order in which the store's model lets attempts fall due is the clock's. *)
THEOREM TimingClaimsDoNotOverlap == Spec => []ClaimsDoNotOverlap
<1>1. TimingInv => ClaimsDoNotOverlap
  BY OrderKeepsClaimsApart
<1> QED BY <1>1, TimingInvariant, PTL

(* No attempt is scheduled into a blocked window.                          *)
THEOREM TimingScheduledOutsideWindows == Spec => []ScheduledOutsideWindows
<1>1. TimingInv => ScheduledOutsideWindows
  BY DEF TimingInv
<1> QED BY <1>1, TimingInvariant, PTL

(* Every attempt leaves the relay its fifteen minutes, but for one dated   *)
(* by the customer's answer.                                               *)
THEOREM TimingRelayHasTime == Spec => []RelayHasTime
<1>1. TimingInv => RelayHasTime
  BY DEF TimingInv
<1> QED BY <1>1, TimingInvariant, PTL
=============================================================================
