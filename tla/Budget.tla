------------------------------- MODULE Budget -------------------------------
(***************************************************************************)
(* What the attempt budget of a mandate cycle promises, apart from how the *)
(* store keeps it: at most MaxAttempts slots are charged at any time, a    *)
(* slot is settled once, as spent or refunded, and stays settled.          *)
(***************************************************************************)
EXTENDS Integers, Sequences, FiniteSets

CONSTANTS Cycles, MaxAttempts

VARIABLE slots    (* slots[c]: the slots ever reserved for cycle c, in order *)

Slot == {"reserved", "spent", "refunded"}

Charged(c) == {i \in DOMAIN slots[c] : slots[c][i] # "refunded"}

Init == slots = [c \in Cycles |-> <<>>]

Reserve(c) ==
  /\ Cardinality(Charged(c)) < MaxAttempts
  /\ slots' = [slots EXCEPT ![c] = Append(@, "reserved")]

Settle(c, i, as) ==
  /\ slots[c][i] = "reserved"
  /\ slots' = [slots EXCEPT ![c][i] = as]

Next == \E c \in Cycles :
  \/ Reserve(c)
  \/ \E i \in DOMAIN slots[c] : \E as \in {"spent", "refunded"} : Settle(c, i, as)

Spec == Init /\ [][Next]_slots
=============================================================================
