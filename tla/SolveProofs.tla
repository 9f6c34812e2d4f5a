---------------------------- MODULE SolveProofs ----------------------------
(***************************************************************************)
(* What the solver's instants keep to, for every due date, preferred hour  *)
(* and clock: later than asked for, outside the blocked windows, and far   *)
(* enough ahead for the notice.                                            *)
(***************************************************************************)
EXTENDS Solve, TLAPS

(* The midnight before an instant is an instant.                           *)
LEMMA MidnightIsNat ==
  ASSUME NEW t \in Nat
  PROVE  Midnight(t) \in Nat
BY DEF Midnight, Day

(* An instant falls within its minute.                                     *)
LEMMA WithinMinute ==
  ASSUME NEW t \in Nat
  PROVE  /\ minuteOfDay(t) \in Nat
         /\ Midnight(t) + minuteOfDay(t) * Minute <= t
         /\ t < Midnight(t) + (minuteOfDay(t) + 1) * Minute
BY DEF Midnight, minuteOfDay, Day, Minute

(* The minute five past the end of a window is where it is put.            *)
LEMMA MinuteAfterWindow ==
  ASSUME NEW t \in Nat, NEW m \in {785, 1295}
  PROVE  minuteOfDay(Midnight(t) + m * Minute) = m
BY DEF Midnight, minuteOfDay, Day, Minute

(* Seen from a blocked instant, the chosen window is one the instant is in.*)
LEMMA ChosenWindow ==
  ASSUME NEW t \in Nat, Blocked(t)
  PROVE  \E w \in blockedWindows :
           InWindow(w, t) /\ ShiftPastBlockedWindow(t) = Midnight(t) + (w.to + 5) * Minute
BY DEF Blocked, ShiftPastBlockedWindow

(* The shift moves an instant forward, by at most the longer window and    *)
(* five minutes, never back.                                               *)
THEOREM ShiftIsForward ==
  ASSUME NEW t \in Nat
  PROVE  /\ ShiftPastBlockedWindow(t) \in Nat
         /\ t <= ShiftPastBlockedWindow(t)
         /\ ShiftPastBlockedWindow(t) <= t + 275 * Minute
<1>1. CASE ~Blocked(t)
  BY <1>1 DEF ShiftPastBlockedWindow, Minute
<1>2. CASE Blocked(t)
  <2>1. PICK w \in blockedWindows :
          InWindow(w, t) /\ ShiftPastBlockedWindow(t) = Midnight(t) + (w.to + 5) * Minute
    BY <1>2, ChosenWindow
  <2>2. /\ w.from \in Nat /\ w.to \in Nat /\ w.to <= w.from + 270
        /\ w.from <= minuteOfDay(t) /\ minuteOfDay(t) <= w.to
    BY <2>1 DEF blockedWindows, InWindow
  <2> QED BY <2>1, <2>2, MidnightIsNat, WithinMinute DEF Minute
<1> QED BY <1>1, <1>2

(* What the shift returns is outside both windows: the minute five past    *)
(* the end of one is not in the other.                                     *)
THEOREM ShiftIsClear ==
  ASSUME NEW t \in Nat
  PROVE  ~Blocked(ShiftPastBlockedWindow(t))
<1>1. CASE ~Blocked(t)
  BY <1>1 DEF ShiftPastBlockedWindow
<1>2. CASE Blocked(t)
  <2>1. PICK w \in blockedWindows :
          InWindow(w, t) /\ ShiftPastBlockedWindow(t) = Midnight(t) + (w.to + 5) * Minute
    BY <1>2, ChosenWindow
  <2>2. w.to + 5 \in {785, 1295}
    BY DEF blockedWindows
  <2>3. minuteOfDay(ShiftPastBlockedWindow(t)) = w.to + 5
    BY <2>1, <2>2, MinuteAfterWindow
  <2> QED BY <2>2, <2>3 DEF Blocked, InWindow, blockedWindows
<1> QED BY <1>1, <1>2

(* A preferred hour moves an instant within its day.                       *)
LEMMA HourIsNat ==
  ASSUME NEW t \in Nat, NEW hour \in Hours
  PROVE  applyPreferredHour(t, hour) \in Nat
<1>1. CASE hour = NoHour
  BY <1>1 DEF applyPreferredHour
<1>2. CASE hour \in 0..23
  <2>1. Midnight(t) \in Nat
    BY MidnightIsNat
  <2> QED BY <1>2, <2>1 DEF applyPreferredHour, NoHour, Hour
<1> QED BY <1>1, <1>2 DEF Hours

(* FAILURES C11: whatever day and hour are asked for, a slot leaves the    *)
(* notice its 24 hours and the relay its fifteen minutes, and is outside   *)
(* the blocked windows.                                                    *)
THEOREM SlotIsReachable ==
  ASSUME NEW t \in Nat, NEW hour \in Hours, NEW now \in Nat
  PROVE  /\ Slot(t, hour, now) \in Nat
         /\ Slot(t, hour, now) >= now + NoticeLead + noticeLeadBuffer
         /\ ~Blocked(Slot(t, hour, now))
<1> DEFINE e == ensureNoticeLead(applyPreferredHour(t, hour), now)
<1>1. e \in Nat /\ e >= now + NoticeLead + noticeLeadBuffer
  BY HourIsNat DEF ensureNoticeLead, NoticeLead, noticeLeadBuffer, Hour, Minute
<1> HIDE DEF e
<1>2. Slot(t, hour, now) = ShiftPastBlockedWindow(e)
  BY DEF Slot, e
<1> QED
  BY <1>1, <1>2, ShiftIsForward, ShiftIsClear
     DEF NoticeLead, noticeLeadBuffer, Hour, Minute

(* The same of the two entry points of the solver.                         *)
LEMMA FirstIsReachable ==
  ASSUME NEW due \in Nat, NEW hour \in Hours, NEW now \in Nat
  PROVE  /\ First(due, hour, now) \in Nat
         /\ First(due, hour, now) >= now + NoticeLead + noticeLeadBuffer
         /\ ~Blocked(First(due, hour, now))
BY SlotIsReachable DEF First

(* And of the retry, while there is one.                                   *)
LEMMA NextIsReachable ==
  ASSUME NEW due \in Nat, NEW used \in Nat, HasNext(used, TRUE),
         NEW hour \in Hours, NEW now \in Nat
  PROVE  /\ Next(due, used, hour, now) \in Nat
         /\ Next(due, used, hour, now) >= now + NoticeLead + noticeLeadBuffer
         /\ ~Blocked(Next(due, used, hour, now))
<1>1. due + offsets[used] \in Nat
  BY DEF HasNext, offsets, Hour
<1> QED BY <1>1, SlotIsReachable DEF Next

(* A confirmed balance counts its 24 hours from the answer.                *)
LEMMA ConfirmedIsClear ==
  ASSUME NEW respondedAt \in Nat
  PROVE  /\ AfterConfirmation(respondedAt) \in Nat
         /\ AfterConfirmation(respondedAt) >= respondedAt + NoticeLead + noticeLeadBuffer
         /\ ~Blocked(AfterConfirmation(respondedAt))
<1>1. respondedAt + NoticeLead + noticeLeadBuffer \in Nat
  BY DEF NoticeLead, noticeLeadBuffer, Hour, Minute
<1> QED BY <1>1, ShiftIsForward, ShiftIsClear DEF AfterConfirmation
=============================================================================
