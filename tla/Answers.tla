------------------------------- MODULE Answers -------------------------------
(***************************************************************************)
(* What the bank promises whoever asks, apart from how it keeps it: the    *)
(* first answer made known under an idempotency key is the only one ever.  *)
(***************************************************************************)
CONSTANTS Keys, Answer, NoAnswer

VARIABLE said     (* said[k]: the answer made known under key k             *)

Init == said = [k \in Keys |-> NoAnswer]

Say(k, answer) ==
  /\ said[k] = NoAnswer
  /\ said' = [said EXCEPT ![k] = answer]

Next == \E k \in Keys : \E answer \in Answer : Say(k, answer)

Spec == Init /\ [][Next]_said
=============================================================================
