-------------------------------- MODULE Solve --------------------------------
(***************************************************************************)
(* When an attempt is scheduled (internal/solve, internal/domain/window.go)*)
(* Instants are whole seconds counted from a midnight in IST, which has no *)
(* daylight saving, so that the local hour and minute are remainders.      *)
(***************************************************************************)
EXTENDS Integers, Sequences

Minute == 60
Hour   == 3600
Day    == 86400

NoticeLead       == 24 * Hour
noticeLeadBuffer == 15 * Minute
offsets          == <<24 * Hour, 72 * Hour, 7 * 24 * Hour>>

(* A preferred hour, or none: *int in the code.                            *)
NoHour == 24
Hours  == 0..23 \cup {NoHour}

Midnight(t)    == t - (t % Day)
minuteOfDay(t) == (t % Day) \div Minute

(* The two windows in which the rail refuses autopay, in minutes of the    *)
(* day.  The last minute belongs to the window.                            *)
blockedWindows == {[from |-> 600, to |-> 780], [from |-> 1020, to |-> 1290]}

InWindow(w, t) == minuteOfDay(t) \in w.from..w.to
Blocked(t)     == \E w \in blockedWindows : InWindow(w, t)

(* Mutated: to the end of the window.                                      *)
ShiftToWindowEnd(t) ==
  IF Blocked(t)
    THEN LET w == CHOOSE v \in blockedWindows : InWindow(v, t)
         IN  Midnight(t) + w.to * Minute
    ELSE t

ShiftPastBlockedWindow(t) ==
  IF Blocked(t)
    THEN LET w == CHOOSE v \in blockedWindows : InWindow(v, t)
         IN  Midnight(t) + (w.to + 5) * Minute
    ELSE t

applyPreferredHour(t, hour) == IF hour = NoHour THEN t ELSE Midnight(t) + hour * Hour

(* Mutated: the lead is kept, the minutes the relay needs are not.         *)
ensureBareLead(candidate, now) ==
  IF candidate >= now + NoticeLead THEN candidate ELSE now + NoticeLead

ensureNoticeLead(candidate, now) ==
  LET earliest == now + NoticeLead + noticeLeadBuffer
  IN  IF candidate >= earliest THEN candidate ELSE earliest

(* The hour is applied first, so the lead and the windows have the last    *)
(* word.                                                                   *)
Slot(t, hour, now) ==
  ShiftPastBlockedWindow(ensureNoticeLead(applyPreferredHour(t, hour), now))

First(dueDate, hour, now) == Slot(dueDate, hour, now)

(* There is a slot after each attempt but the last; a failure that is not  *)
(* retryable has none.                                                     *)
HasNext(attemptsUsed, retryable) == retryable /\ attemptsUsed \in DOMAIN offsets

(* Mutated: the offset is counted from the attempt before.                 *)
NextFromLast(dueDate, attemptsUsed, hour, now) == Slot(now + offsets[attemptsUsed], hour, now)

Next(dueDate, attemptsUsed, hour, now) == Slot(dueDate + offsets[attemptsUsed], hour, now)

AfterConfirmation(respondedAt) ==
  ShiftPastBlockedWindow(respondedAt + NoticeLead + noticeLeadBuffer)
=============================================================================
