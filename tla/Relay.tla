------------------------------- MODULE Relay -------------------------------
(***************************************************************************)
(* The outbox relay of a worker (internal/outbox): pre-debit notices are   *)
(* sent at least once, and an attempt whose notice missed its deadline is  *)
(* cancelled rather than sent late.  Relays share no lease.                *)
(***************************************************************************)
EXTENDS Store

CONSTANTS Relays

VARIABLE relay

NotRelaying == [pc |-> "idle"]
RelayState  == [pc: {"picked", "sent"}, cycle: Cycles, seq: 1..MaxAttempts]

RelayInit == relay = [l \in Relays |-> NotRelaying]

Relaying(l, pc)  == relay[l].pc = pc
StopRelaying(l)  == relay' = [relay EXCEPT ![l] = NotRelaying]
EntryAge(l)      == attempts[relay[l].cycle][relay[l].seq].age

PickNotice(l, c, i) ==
  /\ Relaying(l, "idle")
  /\ PendingNotice(c, i)
  /\ relay' = [relay EXCEPT ![l] = [pc |-> "picked", cycle |-> c, seq |-> i]]
  /\ UNCHANGED storeVars

(* deliver_by has passed: the attempt is abandoned even if another relay   *)
(* delivered its notice since the list was read.                           *)
TooLate(l) ==
  /\ Relaying(l, "picked")
  /\ EntryAge(l) > Early
  /\ AbandonAttempt(relay[l].cycle, relay[l].seq)
  /\ StopRelaying(l)

SendNotice(l) ==
  /\ Relaying(l, "picked")
  /\ EntryAge(l) = Early
  /\ relay' = [relay EXCEPT ![l].pc = "sent"]
  /\ UNCHANGED storeVars

Delivered(l) ==
  /\ Relaying(l, "sent")
  /\ MarkNoticeDelivered(relay[l].cycle, relay[l].seq)
  /\ StopRelaying(l)

(* The attempt or its notice was settled by another process, the send      *)
(* failed, or the process died: the list is read again at the next tick.   *)
LeaveNotice(l) ==
  /\ ~Relaying(l, "idle")
  /\ StopRelaying(l)
  /\ UNCHANGED storeVars

RelayStep(l) ==
  \/ \E c \in Cycles : \E i \in DOMAIN attempts[c] : PickNotice(l, c, i)
  \/ TooLate(l) \/ SendNotice(l) \/ Delivered(l) \/ LeaveNotice(l)

RelayTypeOK == relay \in [Relays -> {NotRelaying} \cup RelayState]
=============================================================================
