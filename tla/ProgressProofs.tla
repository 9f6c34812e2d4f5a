--------------------------- MODULE ProgressProofs ---------------------------
(***************************************************************************)
(* Theorems about the poll loops, for every number of attempts and workers *)
(* and every page: what a page is, and what becomes of an attempt that no  *)
(* page reaches any more.                                                  *)
(***************************************************************************)
EXTENDS Progress, FiniteSetTheorems, WellFoundedInduction, TLAPS

-----------------------------------------------------------------------------
(* Pages.                                                                  *)

(* How far down a list an attempt is.                                      *)
Rank(S, r) == Cardinality({q \in S : q <= r})

(* The attempts of a list that a page has room for.                        *)
First(S) == {r \in S : Rank(S, r) <= batch}

LEMMA RowsAreFinite ==
  ASSUME NEW S, S \subseteq Rows
  PROVE  IsFiniteSet(S) /\ Cardinality(S) \in Nat
<1>1. IsFiniteSet(Rows)
  BY LastAssumption, FS_Interval DEF Rows
<1> QED BY <1>1, FS_Subset, FS_CardinalityType

LEMMA RowsAreNats ==
  ASSUME NEW S, S \subseteq Rows, NEW r \in S
  PROVE  r \in Nat /\ 1 <= r /\ r <= Last
<1>1. r \in Rows
  OBVIOUS
<1> QED BY <1>1, LastAssumption DEF Rows

LEMMA RankIsNat ==
  ASSUME NEW S, S \subseteq Rows, NEW r
  PROVE  Rank(S, r) \in Nat /\ Rank(S, r) <= Cardinality(S)
<1>1. {q \in S : q <= r} \in SUBSET S
  OBVIOUS
<1> QED BY <1>1, RowsAreFinite, FS_Subset DEF Rank

(* Each attempt of a list is further down than those before it.            *)
LEMMA RanksAreInOrder ==
  ASSUME NEW S, S \subseteq Rows, NEW r \in S, NEW q \in S, q < r
  PROVE  Rank(S, q) < Rank(S, r)
<1>0. \A p \in S : p \in Nat
  BY RowsAreNats
<1>1. {p \in S : p <= q} \in SUBSET {p \in S : p <= r}
  BY <1>0
<1>2. r \in {p \in S : p <= r} /\ r \notin {p \in S : p <= q}
  BY <1>0
<1>3. IsFiniteSet({p \in S : p <= r}) /\ {p \in S : p <= r} \subseteq Rows
  BY RowsAreFinite
<1>4. /\ Cardinality({p \in S : p <= q}) <= Cardinality({p \in S : p <= r})
      /\ Cardinality({p \in S : p <= q}) # Cardinality({p \in S : p <= r})
  BY <1>1, <1>2, <1>3, FS_Subset
<1> QED BY <1>4, RankIsNat DEF Rank

(* A list has one attempt at each place.                                   *)
LEMMA RankExists ==
  ASSUME NEW S, S \subseteq Rows, NEW i \in 1..Cardinality(S)
  PROVE  \E r \in S : Rank(S, r) = i
<1> DEFINE T == {t \in Nat : Rank(S, t) >= i}
           R == OpToRel(<, Nat)
<1>0. i \in Nat /\ i >= 1 /\ \A p \in S : p \in Nat /\ 1 <= p /\ p <= Last
  BY RowsAreNats, RowsAreFinite
<1>1. IsWellFoundedOn(R, Nat)
  BY NatLessThanWellFounded
<1>2. T \subseteq Nat /\ Last \in T
  <2>1. {q \in S : q <= Last} = S
    BY <1>0
  <2>2. Rank(S, Last) = Cardinality(S)
    BY <2>1 DEF Rank
  <2> QED BY <1>0, <2>2, LastAssumption, RankIsNat
<1> HIDE DEF T, R
<1>3. PICK r \in T : \A t \in T : ~(<<t, r>> \in R)
  BY <1>1, <1>2, WFMin
<1>4. r \in Nat /\ Rank(S, r) >= i /\ \A t \in T : ~(t < r)
  BY <1>2, <1>3 DEF T, R, OpToRel
<1>5. r # 0
  <2>1. {q \in S : q <= 0} = {}
    BY <1>0
  <2>2. Rank(S, 0) = 0
    BY <2>1, FS_EmptySet DEF Rank
  <2> QED BY <1>0, <1>4, <2>2
<1>6. Rank(S, r - 1) < i /\ Rank(S, r - 1) \in Nat
  <2>1. r - 1 \in Nat /\ r - 1 < r
    BY <1>4, <1>5
  <2>2. r - 1 \notin T
    BY <1>4, <2>1
  <2> QED BY <2>1, <2>2, RankIsNat DEF T
<1>7. r \in S
  <2>1. r \notin S => {q \in S : q <= r} = {q \in S : q <= r - 1}
    BY <1>0, <1>4
  <2>2. r \notin S => Rank(S, r) = Rank(S, r - 1)
    BY <2>1 DEF Rank
  <2> QED BY <1>4, <1>6, <2>2
<1>8. Rank(S, r) <= Rank(S, r - 1) + 1
  <2>0. \A q \in S : q <= r <=> q <= r - 1 \/ q = r
    BY <1>0, <1>4
  <2>1. {q \in S : q <= r} = {q \in S : q <= r - 1} \cup {r}
    BY <1>7, <2>0
  <2>2. r \notin {q \in S : q <= r - 1} /\ {q \in S : q <= r - 1} \subseteq Rows
    BY <1>4
  <2>3. Cardinality({q \in S : q <= r}) = Cardinality({q \in S : q <= r - 1}) + 1
    BY <2>1, <2>2, RowsAreFinite, FS_AddElement
  <2> QED BY <2>3, RankIsNat DEF Rank
<1>9. Rank(S, r) \in Nat
  BY RankIsNat
<1>10. Rank(S, r) = i
  BY <1>0, <1>4, <1>6, <1>8, <1>9
<1> QED BY <1>7, <1>10

(* A page is the batch oldest attempts of its list, oldest first.          *)
LEMMA PageIsOldest ==
  ASSUME NEW S, S \subseteq Rows
  PROVE  /\ Page(S) \in Seq(Rows) /\ Len(Page(S)) = Cardinality(First(S))
         /\ \A i \in 1..Len(Page(S)) : Page(S)[i] \in First(S) /\ Rank(First(S), Page(S)[i]) = i
         /\ \A r \in First(S) : \E i \in 1..Len(Page(S)) : Page(S)[i] = r
<1> PICK P : P = First(S)
  OBVIOUS
<1> PICK n : n = Cardinality(P)
  OBVIOUS
<1>1. P \subseteq S /\ P \subseteq Rows /\ n \in Nat
  <2>1. P \subseteq S
    BY DEF First
  <2> QED BY <2>1, RowsAreFinite
<1>2. Page(S) = [i \in 1..n |-> CHOOSE r \in P : Rank(P, r) = i]
  BY DEF Page, First, Rank
<1>3. ASSUME NEW i \in 1..n
      PROVE  Page(S)[i] \in P /\ Rank(P, Page(S)[i]) = i
  <2>1. \E r \in P : Rank(P, r) = i
    BY <1>1, RankExists
  <2>2. /\ (CHOOSE r \in P : Rank(P, r) = i) \in P
        /\ Rank(P, CHOOSE r \in P : Rank(P, r) = i) = i
    BY <2>1
  <2>3. Page(S)[i] = CHOOSE r \in P : Rank(P, r) = i
    BY <1>2
  <2> QED BY <2>2, <2>3
<1>4. Page(S) \in Seq(Rows) /\ Len(Page(S)) = n
  <2>1. \A i \in 1..n : (CHOOSE r \in P : Rank(P, r) = i) \in Rows
    BY <1>1, <1>2, <1>3
  <2> QED BY <1>1, <1>2, <2>1
<1>5. ASSUME NEW r \in P
      PROVE  \E i \in 1..n : Page(S)[i] = r
  <2>1. Rank(P, r) \in 1..n
    <3>1. r \in {q \in P : q <= r}
      BY <1>1, RowsAreNats
    <3>2. {q \in P : q <= r} \subseteq Rows
      BY <1>1
    <3>3. Rank(P, r) # 0
      BY <3>1, <3>2, RowsAreFinite, FS_EmptySet DEF Rank
    <3> QED BY <1>1, <3>3, RankIsNat
  <2> PICK i \in 1..n : i = Rank(P, r)
    BY <2>1
  <2>2. Page(S)[i] \in P /\ Rank(P, Page(S)[i]) = Rank(P, r)
    BY <1>3
  <2>3. Page(S)[i] \in Nat /\ r \in Nat
    BY <1>1, <2>2, RowsAreNats
  <2>4. ~(Page(S)[i] < r) /\ ~(r < Page(S)[i])
    BY <1>1, <2>2, RanksAreInOrder, RankIsNat
  <2> QED BY <2>3, <2>4
<1> QED BY <1>3, <1>4, <1>5

-----------------------------------------------------------------------------
(* The invariant: types, and a request has been sent of what was fired.    *)

Bank == {NotSent, "coming", "lost", "known"}
ClaimLoops == [pc: {"next", "leased", "sent"}, page: Seq(Rows)]
AskLoops   == [pc: {"next", "leased", "missing"}, page: Seq(Rows)]

Heard == \A r \in Rows : row[r].fired <=> bank[r] # NotSent

PInv == TypeOK /\ Heard

(* What is lost stays so.                                                  *)
LostStay == \A r \in Rows : Lost(r) => Lost(r)'

(* What any step but the sending of a request does to an attempt: it is    *)
(* settled only without a request, or with the bank's answer to it.        *)
LEMMA RowChanges ==
  ASSUME PInv, NEW r \in Rows, NEW x \in Row, row' = [row EXCEPT ![r] = x], bank' = bank,
         x.fired = row[r].fired,
         x.outcome = "settled" => row[r].outcome = "settled" \/ bank[r] \in {NotSent, "known"}
  PROVE  row' \in [Rows -> Row] /\ Heard' /\ LostStay
<1>1. row \in [Rows -> Row]
  BY DEF PInv, TypeOK
<1>2. \A q \in Rows : row'[q] = IF q = r THEN x ELSE row[q]
  BY <1>1
<1>3. row' \in [Rows -> Row]
  BY <1>1
<1>4. Heard'
  BY <1>2 DEF PInv, Heard
<1>5. LostStay
  BY <1>2 DEF LostStay, Lost, NotSent
<1> QED BY <1>3, <1>4, <1>5

LEMMA RowsStay ==
  ASSUME PInv, row' = row, bank' = bank
  PROVE  row' \in [Rows -> Row] /\ Heard' /\ LostStay
BY DEF PInv, TypeOK, Heard, LostStay, Lost

(* What the steps do to the attempt at the head of a page.                 *)
LEMMA AnAttempt ==
  ASSUME PInv, NEW r \in Rows
  PROVE  /\ row[r] \in Row /\ row[r].age \in Ahead..Stale
         /\ row[r].outcome \in {"none", "TIMEOUT", "settled"}
         /\ row[r].fired \in BOOLEAN /\ row[r].leased \in BOOLEAN /\ row[r].held \in BOOLEAN
         /\ \A o \in {"none", "TIMEOUT", "settled"} : \A b \in BOOLEAN :
              [row[r] EXCEPT !.outcome = o, !.held = b] \in Row
         /\ \A b \in BOOLEAN : [row[r] EXCEPT !.leased = b] \in Row
         /\ \A b \in BOOLEAN : [row[r] EXCEPT !.held = b] \in Row
         /\ \A b, d \in BOOLEAN : [row[r] EXCEPT !.fired = b, !.held = d] \in Row
         /\ \A n \in Ahead..Stale : [row[r] EXCEPT !.age = n] \in Row
<1>1. row[r] \in Row
  BY DEF PInv, TypeOK
<1> QED BY <1>1 DEF Row

LEMMA HeadsOfPages ==
  ASSUME PInv, NEW w \in Workers
  PROVE  /\ claim[w] \in ClaimLoops /\ claim[w].page \in Seq(Rows)
         /\ ask[w] \in AskLoops /\ ask[w].page \in Seq(Rows)
         /\ claim[w].page # <<>> => At(w) \in Rows /\ Tail(claim[w].page) \in Seq(Rows)
         /\ ask[w].page # <<>> => About(w) \in Rows /\ Tail(ask[w].page) \in Seq(Rows)
<1>1. claim[w] \in ClaimLoops /\ ask[w] \in AskLoops
  BY DEF PInv, TypeOK, ClaimLoops, AskLoops
<1>2. claim[w].page \in Seq(Rows) /\ ask[w].page \in Seq(Rows)
  BY <1>1 DEF ClaimLoops, AskLoops
<1> QED BY <1>1, <1>2 DEF At, About

LEMMA AbandonedRows ==
  ASSUME PInv, NEW r \in Rows, row' = Abandoned(r), bank' = bank
  PROVE  row' \in [Rows -> Row] /\ Heard' /\ LostStay
<1>1. CASE ~row[r].fired /\ row[r].outcome = "none"
  <2>1. row' = [row EXCEPT ![r] = [row[r] EXCEPT !.outcome = "settled", !.held = FALSE]]
    BY <1>1 DEF Abandoned, PInv, TypeOK
  <2> PICK x : x = [row[r] EXCEPT !.outcome = "settled", !.held = FALSE]
    OBVIOUS
  <2>2. x \in Row /\ x.fired = row[r].fired
    <3>1. row[r] \in Row
      BY AnAttempt
    <3> QED BY <3>1 DEF Row
  <2>3. bank[r] = NotSent
    BY <1>1 DEF PInv, Heard
  <2> QED BY <2>1, <2>2, <2>3, RowChanges
<1>2. CASE ~(~row[r].fired /\ row[r].outcome = "none")
  BY <1>2, RowsStay DEF Abandoned
<1> QED BY <1>1, <1>2

LEMMA LoopGoesOn ==
  ASSUME PInv, NEW w \in Workers
  PROVE  /\ claim[w].page # <<>> => [claim EXCEPT ![w] = Behind(@)] \in [Workers -> ClaimLoops]
         /\ \A pc \in {"next", "leased", "sent"} : [claim EXCEPT ![w].pc = pc] \in [Workers -> ClaimLoops]
         /\ \A p \in Seq(Rows) : [claim EXCEPT ![w].page = p] \in [Workers -> ClaimLoops]
         /\ [claim EXCEPT ![w] = Resting] \in [Workers -> ClaimLoops]
<1>1. claim \in [Workers -> ClaimLoops] /\ claim[w] \in ClaimLoops
  BY DEF PInv, TypeOK, ClaimLoops
<1>2. claim[w].page # <<>> => Behind(claim[w]) \in ClaimLoops
  BY HeadsOfPages DEF Behind, ClaimLoops
<1>3. Resting \in ClaimLoops
  <2>1. <<>> \in Seq(Rows)
    OBVIOUS
  <2> QED BY <2>1 DEF Resting, ClaimLoops
<1>4. \A pc \in {"next", "leased", "sent"} : [claim[w] EXCEPT !.pc = pc] \in ClaimLoops
  BY <1>1 DEF ClaimLoops
<1>5. \A p \in Seq(Rows) : [claim[w] EXCEPT !.page = p] \in ClaimLoops
  BY <1>1 DEF ClaimLoops
<1> QED BY <1>1, <1>2, <1>3, <1>4, <1>5

LEMMA AskGoesOn ==
  ASSUME PInv, NEW w \in Workers
  PROVE  /\ ask[w].page # <<>> => [ask EXCEPT ![w] = Behind(@)] \in [Workers -> AskLoops]
         /\ \A pc \in {"next", "leased", "missing"} : [ask EXCEPT ![w].pc = pc] \in [Workers -> AskLoops]
         /\ \A p \in Seq(Rows) : [ask EXCEPT ![w].page = p] \in [Workers -> AskLoops]
         /\ [ask EXCEPT ![w] = Resting] \in [Workers -> AskLoops]
<1>1. ask \in [Workers -> AskLoops] /\ ask[w] \in AskLoops
  BY DEF PInv, TypeOK, AskLoops
<1>2. ask[w].page # <<>> => Behind(ask[w]) \in AskLoops
  BY HeadsOfPages DEF Behind, AskLoops
<1>3. Resting \in AskLoops
  <2>1. <<>> \in Seq(Rows)
    OBVIOUS
  <2> QED BY <2>1 DEF Resting, AskLoops
<1>4. \A pc \in {"next", "leased", "missing"} : [ask[w] EXCEPT !.pc = pc] \in AskLoops
  BY <1>1 DEF AskLoops
<1>5. \A p \in Seq(Rows) : [ask[w] EXCEPT !.page = p] \in AskLoops
  BY <1>1 DEF AskLoops
<1> QED BY <1>1, <1>2, <1>3, <1>4, <1>5

-----------------------------------------------------------------------------
(* The steps.                                                              *)

Counters == losses \in 0..MaxLosses /\ crashes \in 0..MaxCrashes /\ batch \in Batches

LEMMA ClaimLoopKeeps ==
  ASSUME PInv, NEW w \in Workers, ClaimLoop(w)
  PROVE  /\ row' \in [Rows -> Row] /\ Heard' /\ LostStay /\ bank' \in [Rows -> Bank]
         /\ claim' \in [Workers -> ClaimLoops] /\ ask' = ask /\ Counters'
<1>1. bank \in [Rows -> Bank] /\ Counters /\ row \in [Rows -> Row]
  BY DEF PInv, TypeOK, Bank, Counters
<1>2. CASE ClaimTick(w)
  <2> PICK p : p = Page({r \in Rows : DueAttempt(r)})
    OBVIOUS
  <2>1. p \in Seq(Rows)
    BY PageIsOldest
  <2> QED BY <1>1, <1>2, <2>1, LoopGoesOn, RowsStay DEF ClaimTick, Counters
<1>3. CASE TooLate(w)
  <2>1. At(w) \in Rows /\ claim[w].page # <<>>
    BY <1>3, HeadsOfPages DEF TooLate, Claiming
  <2>2. row' = Abandoned(At(w)) /\ NextClaim(w) /\ UNCHANGED <<bank, ask, losses, crashes, batch>>
    BY <1>3 DEF TooLate
  <2> QED BY <1>1, <2>1, <2>2, AbandonedRows, LoopGoesOn DEF NextClaim, Counters
<1>4. CASE Lease(w)
  <2>1. At(w) \in Rows /\ claim[w].page # <<>>
    BY <1>4, HeadsOfPages DEF Lease, Claiming
  <2>2. UNCHANGED <<bank, ask, losses, crashes, batch>>
    BY <1>4 DEF Lease
  <2>3. CASE row[At(w)].leased
    BY <1>1, <1>4, <2>1, <2>2, <2>3, LoopGoesOn, RowsStay DEF Lease, NextClaim, Counters
  <2>4. CASE ~row[At(w)].leased
    <3> PICK x : x = [row[At(w)] EXCEPT !.leased = TRUE]
      OBVIOUS
    <3>1. row' = [row EXCEPT ![At(w)] = x] /\ ToFire(w, "leased")
      BY <1>4, <2>4 DEF Lease
    <3>2. x \in Row /\ x.fired = row[At(w)].fired /\ x.outcome = row[At(w)].outcome
      BY <1>1, <2>1 DEF Row
    <3>3. row' \in [Rows -> Row] /\ Heard' /\ LostStay
      BY <2>1, <2>2, <3>1, <3>2, RowChanges
    <3> QED BY <1>1, <2>2, <3>1, <3>3, LoopGoesOn DEF ToFire, Counters
  <2> QED BY <2>3, <2>4
<1>5. CASE Fire(w)
  <2>1. At(w) \in Rows /\ claim[w].page # <<>>
    BY <1>5, HeadsOfPages DEF Fire, Claiming
  <2> PICK r \in Rows : r = At(w)
    BY <2>1
  <2>2. UNCHANGED <<ask, crashes, batch>>
    BY <1>5 DEF Fire
  <2>3. CASE row[r].noticed /\ ~row[r].fired
    <3> PICK x : x = [row[r] EXCEPT !.fired = TRUE, !.held = FALSE]
      OBVIOUS
    <3>1. /\ row' = [row EXCEPT ![r] = x] /\ ToFire(w, "sent")
          /\ \/ bank' = [bank EXCEPT ![r] = "coming"] /\ UNCHANGED losses
             \/ /\ losses < MaxLosses /\ losses' = losses + 1
                /\ bank' = [bank EXCEPT ![r] = "lost"]
      BY <1>5, <2>3 DEF Fire
    <3>2. x \in Row /\ x.fired = TRUE
      BY <1>1 DEF Row
    <3>3. PICK b \in {"coming", "lost"} : bank' = [bank EXCEPT ![r] = b]
      BY <3>1
    <3>4. /\ \A q \in Rows : row'[q] = IF q = r THEN x ELSE row[q]
          /\ \A q \in Rows : bank'[q] = IF q = r THEN b ELSE bank[q]
      BY <1>1, <3>1, <3>3
    <3>5. row' \in [Rows -> Row] /\ bank' \in [Rows -> Bank]
      BY <1>1, <3>1, <3>2, <3>3 DEF Bank
    <3>6. Heard'
      BY <3>2, <3>4 DEF PInv, Heard, NotSent
    <3>7. LostStay
      <4>1. bank[r] = NotSent
        BY <2>3 DEF PInv, Heard
      <4> QED BY <3>4, <4>1 DEF LostStay, Lost, NotSent
    <3>8. Counters'
      <4>1. losses' \in 0..MaxLosses
        BY <1>1, <3>1, BoundsAssumption DEF Counters
      <4> QED BY <1>1, <2>2, <4>1 DEF Counters
    <3> QED BY <2>2, <3>1, <3>5, <3>6, <3>7, <3>8, LoopGoesOn DEF ToFire
  <2>4. CASE ~(row[r].noticed /\ ~row[r].fired)
    <3>1. /\ row' = IF row[r].noticed THEN row ELSE Abandoned(r)
          /\ NextClaim(w) /\ UNCHANGED <<bank, losses>>
      BY <1>5, <2>4 DEF Fire
    <3>2. row' \in [Rows -> Row] /\ Heard' /\ LostStay
      BY <3>1, RowsStay, AbandonedRows
    <3> QED BY <1>1, <2>1, <2>2, <3>1, <3>2, LoopGoesOn DEF NextClaim, Counters
  <2> QED BY <2>3, <2>4
<1>6. CASE Record(w)
  <2>1. At(w) \in Rows /\ claim[w].page # <<>>
    BY <1>6, HeadsOfPages DEF Record, Claiming
  <2> PICK r \in Rows : r = At(w)
    BY <2>1
  <2>2. NextClaim(w) /\ UNCHANGED <<bank, ask, losses, crashes, batch>>
    BY <1>6 DEF Record
  <2>3. \/ row' = row
        \/ \E o \in {"TIMEOUT", "settled"} :
             /\ row' = [row EXCEPT ![r] = [row[r] EXCEPT !.outcome = o, !.held = FALSE]]
             /\ o = "settled" => bank[r] = "known"
    BY <1>6 DEF Record
  <2>4. row' \in [Rows -> Row] /\ Heard' /\ LostStay
    <3>1. CASE row' = row
      BY <2>2, <3>1, RowsStay
    <3>2. ASSUME NEW o \in {"TIMEOUT", "settled"},
                 row' = [row EXCEPT ![r] = [row[r] EXCEPT !.outcome = o, !.held = FALSE]],
                 o = "settled" => bank[r] = "known"
          PROVE  row' \in [Rows -> Row] /\ Heard' /\ LostStay
      <4> PICK x : x = [row[r] EXCEPT !.outcome = o, !.held = FALSE]
        OBVIOUS
      <4>1. x \in Row /\ x.fired = row[r].fired /\ x.outcome = o
        BY <1>1 DEF Row
      <4> QED BY <2>2, <3>2, <4>1, RowChanges
    <3> QED BY <2>3, <3>1, <3>2
  <2> QED BY <1>1, <2>1, <2>2, <2>4, LoopGoesOn DEF NextClaim, Counters
<1> QED BY <1>2, <1>3, <1>4, <1>5, <1>6 DEF ClaimLoop

LEMMA AskLoopKeeps ==
  ASSUME PInv, NEW w \in Workers, AskLoop(w)
  PROVE  /\ row' \in [Rows -> Row] /\ Heard' /\ LostStay /\ bank' = bank
         /\ ask' \in [Workers -> AskLoops] /\ UNCHANGED <<claim, losses, crashes, batch>>
<1>1. row \in [Rows -> Row]
  BY DEF PInv, TypeOK
<1>2. CASE AskTick(w)
  <2> PICK p : p = Page({r \in Rows : Unsettled(r)})
    OBVIOUS
  <2>1. p \in Seq(Rows)
    BY PageIsOldest
  <2> QED BY <1>2, <2>1, AskGoesOn, RowsStay DEF AskTick
<1>3. CASE AskLease(w) \/ Settle(w) \/ StillUnknown(w) \/ Hold(w)
  <2>1. About(w) \in Rows /\ ask[w].page # <<>>
    BY <1>3, HeadsOfPages DEF AskLease, Settle, StillUnknown, Hold, Asking
  <2> PICK r \in Rows : r = About(w)
    BY <2>1
  <2>2. UNCHANGED <<bank, claim, losses, crashes, batch>>
    BY <1>3 DEF AskLease, Settle, StillUnknown, Hold
  <2>3. ask' \in [Workers -> AskLoops]
    BY <1>3, <2>1, AskGoesOn DEF AskLease, Settle, StillUnknown, Hold, NextAsk, ToAsk
  <2>4. \/ row' = row
        \/ row' = [row EXCEPT ![r] = [row[r] EXCEPT !.leased = TRUE]]
        \/ row' = [row EXCEPT ![r] = [row[r] EXCEPT !.held = TRUE]]
        \/ /\ row' = [row EXCEPT ![r] = [row[r] EXCEPT !.outcome = "settled", !.held = FALSE]]
           /\ bank[r] = "known"
    BY <1>3 DEF AskLease, Settle, StillUnknown, Hold
  <2>5. row' \in [Rows -> Row] /\ Heard' /\ LostStay
    <3>1. CASE row' = row
      BY <2>2, <3>1, RowsStay
    <3>2. ASSUME NEW x, row' = [row EXCEPT ![r] = x],
                 \/ x = [row[r] EXCEPT !.leased = TRUE]
                 \/ x = [row[r] EXCEPT !.held = TRUE]
                 \/ x = [row[r] EXCEPT !.outcome = "settled", !.held = FALSE] /\ bank[r] = "known"
          PROVE  row' \in [Rows -> Row] /\ Heard' /\ LostStay
      <4>1. x \in Row /\ x.fired = row[r].fired
        BY <1>1, <3>2 DEF Row
      <4>2. x.outcome = row[r].outcome \/ bank[r] = "known"
        BY <1>1, <3>2 DEF Row
      <4> QED BY <2>2, <3>2, <4>1, <4>2, RowChanges
    <3> QED BY <2>4, <3>1, <3>2
  <2> QED BY <2>2, <2>3, <2>5
<1> QED BY <1>2, <1>3 DEF AskLoop

LEMMA WorldKeeps ==
  ASSUME PInv, NEW r \in Rows, BankCommits(r) \/ LeaseExpires(r) \/ Elapse(r)
  PROVE  /\ row' \in [Rows -> Row] /\ Heard' /\ LostStay /\ bank' \in [Rows -> Bank]
         /\ UNCHANGED <<claim, ask, losses, crashes, batch>>
<1>1. bank \in [Rows -> Bank] /\ row \in [Rows -> Row]
  BY DEF PInv, TypeOK, Bank
<1>2. UNCHANGED <<claim, ask, losses, crashes, batch>>
  BY DEF BankCommits, LeaseExpires, Elapse
<1>3. CASE BankCommits(r)
  <2>1. bank[r] = "coming" /\ bank' = [bank EXCEPT ![r] = "known"] /\ row' = row
    BY <1>3 DEF BankCommits
  <2>2. \A q \in Rows : bank'[q] = IF q = r THEN "known" ELSE bank[q]
    BY <1>1, <2>1
  <2>3. Heard' /\ LostStay
    BY <2>1, <2>2 DEF PInv, Heard, LostStay, Lost, NotSent
  <2> QED BY <1>1, <1>2, <2>1, <2>3 DEF Bank
<1>4. CASE LeaseExpires(r) \/ Elapse(r)
  <2>1. bank' = bank
    BY <1>4 DEF LeaseExpires, Elapse
  <2>2. PICK x : /\ row' = [row EXCEPT ![r] = x]
                 /\ \/ x = [row[r] EXCEPT !.leased = FALSE]
                    \/ x = [row[r] EXCEPT !.age = @ + 1] /\ row[r].age < Stale
    BY <1>4 DEF LeaseExpires, Elapse
  <2>3. x \in Row /\ x.fired = row[r].fired /\ x.outcome = row[r].outcome
    <3>1. row[r] \in Row /\ row[r].age \in 0..2
      BY <1>1 DEF Row, Ahead, Stale
    <3>2. row[r].age < 2 => row[r].age + 1 \in 0..2
      BY <3>1
    <3> QED BY <2>2, <3>1, <3>2 DEF Row, Ahead, Stale
  <2> QED BY <1>1, <1>2, <2>1, <2>2, <2>3, RowChanges
<1> QED BY <1>3, <1>4

LEMMA CrashKeeps ==
  ASSUME PInv, NEW w \in Workers, Crash(w)
  PROVE  /\ row' \in [Rows -> Row] /\ Heard' /\ LostStay /\ bank' = bank
         /\ claim' \in [Workers -> ClaimLoops] /\ ask' \in [Workers -> AskLoops] /\ Counters'
<1>1. UNCHANGED <<row, bank, losses, batch>> /\ crashes < MaxCrashes /\ crashes' = crashes + 1
  BY DEF Crash
<1>2. Counters'
  BY <1>1, BoundsAssumption DEF PInv, TypeOK, Counters
<1> QED BY <1>1, <1>2, LoopGoesOn, AskGoesOn, RowsStay DEF Crash

LEMMA StepKeeps ==
  ASSUME PInv, [Next]_vars
  PROVE  PInv' /\ LostStay
<1>1. /\ bank \in [Rows -> Bank] /\ Counters
      /\ claim \in [Workers -> ClaimLoops] /\ ask \in [Workers -> AskLoops]
  BY DEF PInv, TypeOK, Bank, Counters, ClaimLoops, AskLoops
<1>2. SUFFICES /\ row' \in [Rows -> Row] /\ Heard' /\ LostStay /\ bank' \in [Rows -> Bank]
               /\ claim' \in [Workers -> ClaimLoops] /\ ask' \in [Workers -> AskLoops] /\ Counters'
  BY DEF PInv, TypeOK, Bank, Counters, ClaimLoops, AskLoops
<1>3. CASE UNCHANGED vars
  BY <1>1, <1>3, RowsStay DEF vars, Counters
<1>4. ASSUME NEW w \in Workers, ClaimLoop(w) \/ AskLoop(w) \/ Crash(w)
      PROVE  /\ row' \in [Rows -> Row] /\ Heard' /\ LostStay /\ bank' \in [Rows -> Bank]
             /\ claim' \in [Workers -> ClaimLoops] /\ ask' \in [Workers -> AskLoops] /\ Counters'
  <2>1. CASE ClaimLoop(w)
    BY <1>1, <2>1, ClaimLoopKeeps
  <2>2. CASE AskLoop(w)
    BY <1>1, <2>2, AskLoopKeeps DEF Counters
  <2>3. CASE Crash(w)
    BY <1>1, <2>3, CrashKeeps
  <2> QED BY <1>4, <2>1, <2>2, <2>3
<1>5. ASSUME NEW r \in Rows, BankCommits(r) \/ LeaseExpires(r) \/ Elapse(r)
      PROVE  /\ row' \in [Rows -> Row] /\ Heard' /\ LostStay /\ bank' \in [Rows -> Bank]
             /\ claim' \in [Workers -> ClaimLoops] /\ ask' \in [Workers -> AskLoops] /\ Counters'
  BY <1>1, <1>5, WorldKeeps DEF Counters
<1> QED BY <1>3, <1>4, <1>5 DEF Next

-----------------------------------------------------------------------------
(* The theorems.                                                           *)

THEOREM ProgressInvariant == Spec => []PInv
<1>1. Init => PInv
  <2> SUFFICES ASSUME Init PROVE PInv
    OBVIOUS
  <2>1. \A r \in Rows : row[r] \in Row /\ ~row[r].fired
    BY DEF Init, Row, Ahead, Stale
  <2>2. row \in [Rows -> Row] /\ bank \in [Rows -> Bank]
    BY <2>1 DEF Init, Bank
  <2>3. Resting \in ClaimLoops /\ Resting \in AskLoops
    <3>1. <<>> \in Seq(Rows)
      OBVIOUS
    <3> QED BY <3>1 DEF Resting, ClaimLoops, AskLoops
  <2>4. claim \in [Workers -> ClaimLoops] /\ ask \in [Workers -> AskLoops]
    BY <2>3 DEF Init
  <2>5. Heard
    BY <2>1 DEF Init, Heard
  <2> QED BY <2>2, <2>4, <2>5, BoundsAssumption DEF Init, PInv, TypeOK, Bank, ClaimLoops, AskLoops
<1>2. PInv /\ [Next]_vars => PInv'
  BY StepKeeps
<1> QED BY <1>1, <1>2, PTL DEF Spec

(* Every loop is at an attempt that exists, whatever its list and however  *)
(* short its page: a page has one attempt at each of its places.           *)
THEOREM ProgressTypeOK == Spec => []TypeOK
<1>1. PInv => TypeOK
  BY DEF PInv
<1> QED BY <1>1, ProgressInvariant, PTL

LEMMA BatchIsNat ==
  ASSUME PInv
  PROVE  batch \in Nat /\ batch > 0
BY BatchesAssumption DEF PInv, TypeOK

LEMMA BatchStays == [Next]_vars => batch' = batch
BY DEF Next, vars, ClaimLoop, ClaimTick, TooLate, Lease, Fire, Record,
       AskLoop, AskTick, AskLease, Settle, StillUnknown, Hold,
       BankCommits, LeaseExpires, Elapse, Crash

(* An attempt with a full page before it on a list is not on its page.     *)
LEMMA BehindAFullPage ==
  ASSUME PInv, NEW r \in Rows, NEW S, S \subseteq Rows, NEW B, B \subseteq S,
         \A q \in B : q < r, Cardinality(B) >= batch
  PROVE  \A i \in 1..Len(Page(S)) : Page(S)[i] # r
<1>1. r \in Nat
  BY LastAssumption DEF Rows
<1>2. r \in S => Rank(S, r) > batch
  <2> SUFFICES ASSUME r \in S PROVE Rank(S, r) > batch
    OBVIOUS
  <2>1. B \cup {r} \subseteq {q \in S : q <= r} /\ r \notin B
    BY <1>1, RowsAreNats
  <2>2. IsFiniteSet(B) /\ Cardinality(B) \in Nat
    BY RowsAreFinite
  <2>3. Cardinality(B \cup {r}) = Cardinality(B) + 1
    BY <2>1, <2>2, FS_AddElement
  <2>4. IsFiniteSet({q \in S : q <= r})
    BY RowsAreFinite
  <2>5. Cardinality(B \cup {r}) <= Rank(S, r)
    BY <2>1, <2>4, FS_Subset DEF Rank
  <2>6. Rank(S, r) \in Nat /\ batch \in Nat
    BY RankIsNat, BatchIsNat
  <2>7. Cardinality(B) + 1 <= Rank(S, r)
    BY <2>3, <2>5
  <2> QED BY <2>2, <2>6, <2>7
<1>3. r \notin First(S)
  <2>1. Rank(S, r) \in Nat /\ batch \in Nat
    BY RankIsNat, BatchIsNat
  <2>2. ~(Rank(S, r) <= batch /\ Rank(S, r) > batch)
    BY <2>1
  <2> QED BY <1>2, <2>2 DEF First
<1> QED BY <1>3, PageIsOldest

(* What is buried stays so, and is on no page of the reconciliation list.  *)
LEMMA BuriedIsOffThePage ==
  ASSUME PInv, NEW r \in Rows, Buried(r)
  PROVE  \A i \in 1..Len(Page({q \in Rows : Unsettled(q)})) :
           Page({q \in Rows : Unsettled(q)})[i] # r
<1> PICK B : B = {q \in 1..(r - 1) : Lost(q)}
  OBVIOUS
<1>1. \A q \in B : q \in Rows /\ q < r /\ Lost(q)
  BY LastAssumption DEF Rows
<1>2. B \subseteq {q \in Rows : Unsettled(q)}
  BY <1>1 DEF PInv, Heard, TypeOK, Row, Lost, Unsettled, NotSent
<1>3. Cardinality(B) >= batch
  BY DEF Buried
<1> QED BY <1>1, <1>2, <1>3, BehindAFullPage

LEMMA BuriedStays ==
  ASSUME PInv, [Next]_vars, NEW r \in Rows, Buried(r)
  PROVE  Buried(r)'
<1> PICK B : B = {q \in 1..(r - 1) : Lost(q)}
  OBVIOUS
<1> PICK D : D = {q \in 1..(r - 1) : Lost(q)'}
  OBVIOUS
<1>1. \A q \in 1..(r - 1) : q \in Rows
  BY LastAssumption DEF Rows
<1>2. B \subseteq D /\ D \subseteq Rows
  BY <1>1, StepKeeps DEF LostStay
<1>3. Cardinality(B) <= Cardinality(D) /\ Cardinality(B) \in Nat /\ Cardinality(D) \in Nat
  BY <1>2, RowsAreFinite, FS_Subset
<1>4. Cardinality(D) >= batch
  BY <1>3, BatchIsNat, BatchStays DEF Buried
<1> QED BY <1>4, BatchStays DEF Buried

(* The page of a reconcile loop only loses attempts between two ticks.     *)
LEMMA PagesShrink ==
  ASSUME PInv, NEW r \in Rows, Buried(r), [Next]_vars, NEW v \in Workers,
         \A i \in 1..Len(ask[v].page) : ask[v].page[i] # r
  PROVE  \A i \in 1..Len(ask'[v].page) : ask'[v].page[i] # r
<1>1. ask \in [Workers -> AskLoops] /\ ask[v].page \in Seq(Rows)
  BY HeadsOfPages DEF PInv, TypeOK, AskLoops
<1>2. CASE ask'[v].page = ask[v].page
  BY <1>2
<1>3. CASE ask'[v].page = Tail(ask[v].page) /\ ask[v].page # <<>>
  <2>1. \A i \in 1..Len(Tail(ask[v].page)) :
          i + 1 \in 1..Len(ask[v].page) /\ Tail(ask[v].page)[i] = ask[v].page[i + 1]
    BY <1>1, <1>3
  <2> QED BY <1>3, <2>1
<1>4. CASE ask'[v].page = <<>>
  BY <1>4
<1>5. CASE ask'[v].page = Page({q \in Rows : Unsettled(q)})
  BY <1>5, BuriedIsOffThePage
<1>6. \/ ask'[v].page = ask[v].page
      \/ ask'[v].page = Tail(ask[v].page) /\ ask[v].page # <<>>
      \/ ask'[v].page = <<>>
      \/ ask'[v].page = Page({q \in Rows : Unsettled(q)})
  <2>1. ASSUME NEW w \in Workers, AskLoop(w)
        PROVE  \/ ask'[v].page = ask[v].page
               \/ ask'[v].page = Tail(ask[v].page) /\ ask[v].page # <<>>
               \/ ask'[v].page = Page({q \in Rows : Unsettled(q)})
    <3>1. ask[w] \in AskLoops
      BY <1>1
    <3>2. CASE AskTick(w)
      BY <1>1, <3>1, <3>2 DEF AskTick, AskLoops
    <3>3. CASE AskLease(w) \/ Settle(w) \/ StillUnknown(w) \/ Hold(w)
      <4>1. ask[w].page # <<>> /\ (NextAsk(w) \/ ToAsk(w, "leased") \/ ToAsk(w, "missing"))
        BY <3>3 DEF AskLease, Settle, StillUnknown, Hold, Asking
      <4>2. CASE NextAsk(w)
        <5>1. ask'[v] = IF v = w THEN Behind(ask[w]) ELSE ask[v]
          BY <1>1, <4>2 DEF NextAsk
        <5> QED BY <4>1, <5>1 DEF Behind
      <4>3. ASSUME NEW pc, ToAsk(w, pc)
            PROVE  ask'[v].page = ask[v].page
        <5>1. ask'[v] = IF v = w THEN [ask[w] EXCEPT !.pc = pc] ELSE ask[v]
          BY <1>1, <4>3 DEF ToAsk
        <5> QED BY <3>1, <5>1 DEF AskLoops
      <4> QED BY <4>1, <4>2, <4>3
    <3> QED BY <2>1, <3>2, <3>3 DEF AskLoop
  <2>2. ASSUME NEW w \in Workers, Crash(w)
        PROVE  ask'[v].page = ask[v].page \/ ask'[v].page = <<>>
    BY <1>1, <2>2 DEF Crash, Resting
  <2>3. ASSUME NEW w \in Workers, ClaimLoop(w)
        PROVE  ask' = ask
    BY <2>3, ClaimLoopKeeps
  <2>4. ASSUME NEW q \in Rows, BankCommits(q) \/ LeaseExpires(q) \/ Elapse(q)
        PROVE  ask' = ask
    BY <2>4, WorldKeeps
  <2> QED BY <2>1, <2>2, <2>3, <2>4 DEF Next, vars
<1> QED BY <1>2, <1>3, <1>4, <1>5, <1>6

-----------------------------------------------------------------------------
(* Which step changes what of an attempt, and what of a claim loop.        *)

LEMMA HeadsAreOnPages ==
  ASSUME PInv, NEW w \in Workers
  PROVE  /\ claim[w].page # <<>> => \E i \in 1..Len(claim[w].page) : claim[w].page[i] = At(w)
         /\ ask[w].page # <<>> => \E i \in 1..Len(ask[w].page) : ask[w].page[i] = About(w)
<1>1. claim[w].page \in Seq(Rows) /\ ask[w].page \in Seq(Rows)
  BY HeadsOfPages
<1>2. \A p \in Seq(Rows) : p # <<>> => 1 \in 1..Len(p) /\ p[1] = Head(p)
  OBVIOUS
<1> QED BY <1>1, <1>2 DEF At, About

(* An attempt is marked, or given up, only by a claim loop that has it on  *)
(* its page; an outcome is recorded by the loop that waits for the answer, *)
(* or with the answer by a reconcile loop that has it on its page, which   *)
(* is also what holds it.                                                  *)
Untouched(r) ==
  /\ row'[r].fired = row[r].fired /\ row'[r].outcome = row[r].outcome
  /\ row'[r].held = row[r].held
Taken(w, r) == claim[w].page # <<>> /\ At(w) = r /\ ~row[r].fired
Answered(w, r) == Claiming(w, "sent") /\ At(w) = r /\ row[r].outcome = "none" /\ row'[r].fired = row[r].fired
Resolved(w, r) ==
  /\ ask[w].page # <<>> /\ About(w) = r /\ row'[r].fired = row[r].fired
  /\ row'[r].outcome = row[r].outcome \/ bank[r] = "known"

LEMMA AttemptChanges ==
  ASSUME PInv, [Next]_vars, NEW r \in Rows
  PROVE  /\ row'[r].age >= row[r].age /\ row[r].age \in Ahead..Stale /\ row'[r].age \in Ahead..Stale
         /\ \/ Untouched(r)
            \/ \E w \in Workers : Taken(w, r) \/ Answered(w, r) \/ Resolved(w, r)
<1>1. row \in [Rows -> Row] /\ row[r] \in Row
  BY DEF PInv, TypeOK
<1>2. row'[r] \in Row
  BY StepKeeps DEF PInv, TypeOK
<1>3. row[r].age \in Ahead..Stale /\ row'[r].age \in Ahead..Stale
  BY <1>1, <1>2 DEF Row
<1>4. CASE row' = row
  BY <1>3, <1>4 DEF Untouched, Ahead, Stale
<1>5. ASSUME NEW w \in Workers, ClaimLoop(w)
      PROVE  row'[r].age = row[r].age /\ (Untouched(r) \/ Taken(w, r) \/ Answered(w, r))
  <2>1. CASE ClaimTick(w)
    BY <2>1 DEF ClaimTick, Untouched
  <2>2. CASE TooLate(w)
    BY <1>1, <2>2 DEF TooLate, Claiming, Abandoned, Untouched, Taken, Row
  <2>3. CASE Lease(w)
    BY <1>1, <2>3 DEF Lease, Untouched, Row
  <2>4. CASE Fire(w)
    BY <1>1, <2>4 DEF Fire, Claiming, Abandoned, Untouched, Taken, Row
  <2>5. CASE Record(w)
    BY <1>1, <2>5 DEF Record, Untouched, Answered, Row
  <2> QED BY <1>5, <2>1, <2>2, <2>3, <2>4, <2>5 DEF ClaimLoop
<1>6. ASSUME NEW w \in Workers, AskLoop(w)
      PROVE  row'[r].age = row[r].age /\ (Untouched(r) \/ Resolved(w, r))
  <2>1. CASE AskTick(w) \/ StillUnknown(w)
    BY <2>1 DEF AskTick, StillUnknown, Untouched
  <2>2. CASE AskLease(w)
    BY <1>1, <2>2 DEF AskLease, Untouched, Row
  <2>3. CASE Settle(w)
    BY <1>1, <2>3 DEF Settle, Asking, Untouched, Resolved, Row
  <2>4. CASE Hold(w)
    BY <1>1, <2>4 DEF Hold, Asking, Untouched, Resolved, Row
  <2> QED BY <1>6, <2>1, <2>2, <2>3, <2>4 DEF AskLoop
<1>7. ASSUME NEW q \in Rows, LeaseExpires(q) \/ Elapse(q)
      PROVE  row'[r].age >= row[r].age /\ Untouched(r)
  BY <1>1, <1>3, <1>7 DEF LeaseExpires, Elapse, Untouched, Row, Ahead, Stale
<1>8. \/ row' = row
      \/ \E w \in Workers : ClaimLoop(w) \/ AskLoop(w)
      \/ \E q \in Rows : LeaseExpires(q) \/ Elapse(q)
  BY DEF Next, vars, Crash, BankCommits
<1>9. row'[r].age = row[r].age => row'[r].age >= row[r].age
  BY <1>3 DEF Ahead, Stale
<1> QED BY <1>3, <1>4, <1>5, <1>6, <1>7, <1>8, <1>9

(* A claim loop goes on at its page, or takes the due list as its next;    *)
(* it waits for an answer only to what it has just fired.                  *)
DuePage == Page({q \in Rows : DueAttempt(q)})

LEMMA ClaimChanges ==
  ASSUME PInv, [Next]_vars, NEW v \in Workers
  PROVE  \/ claim'[v] = claim[v]
         \/ /\ claim[v].page # <<>> /\ claim'[v].page = claim[v].page
            /\ claim'[v].pc = "sent" => ~row[At(v)].fired
         \/ claim[v].page # <<>> /\ claim'[v] = Behind(claim[v])
         \/ claim'[v] = Resting
         \/ claim'[v].pc = "next" /\ claim'[v].page = DuePage
<1>1. claim \in [Workers -> ClaimLoops] /\ claim[v] \in ClaimLoops
  BY DEF PInv, TypeOK, ClaimLoops
<1>2. ASSUME NEW w \in Workers, w # v, ClaimLoop(w) \/ Crash(w)
      PROVE  claim'[v] = claim[v]
  BY <1>1, <1>2 DEF ClaimLoop, ClaimTick, TooLate, Lease, Fire, Record, Crash, NextClaim, ToFire
<1>3. CASE ClaimTick(v)
  BY <1>1, <1>3 DEF ClaimTick, ClaimLoops, DuePage, Resting
<1>4. CASE NextClaim(v) /\ claim[v].page # <<>>
  BY <1>1, <1>4 DEF NextClaim
<1>5. ASSUME NEW pc \in {"leased", "sent"}, ToFire(v, pc), claim[v].page # <<>>,
             pc = "sent" => ~row[At(v)].fired
      PROVE  /\ claim[v].page # <<>> /\ claim'[v].page = claim[v].page
             /\ claim'[v].pc = "sent" => ~row[At(v)].fired
  BY <1>1, <1>5 DEF ToFire, ClaimLoops
<1>6. CASE TooLate(v) \/ Lease(v) \/ Fire(v) \/ Record(v)
  <2>1. \/ NextClaim(v) /\ claim[v].page # <<>>
        \/ ToFire(v, "leased") /\ claim[v].page # <<>>
        \/ ToFire(v, "sent") /\ claim[v].page # <<>> /\ ~row[At(v)].fired
    BY <1>6 DEF TooLate, Lease, Fire, Record, Claiming
  <2>2. "leased" # "sent"
    OBVIOUS
  <2> QED BY <1>4, <1>5, <2>1, <2>2
<1>7. CASE Crash(v)
  BY <1>1, <1>7 DEF Crash
<1>8. CASE ClaimLoop(v)
  BY <1>3, <1>6, <1>8 DEF ClaimLoop
<1>9. ASSUME NEW w \in Workers, AskLoop(w)
      PROVE  claim' = claim
  BY <1>9, AskLoopKeeps
<1>10. ASSUME NEW q \in Rows, BankCommits(q) \/ LeaseExpires(q) \/ Elapse(q)
       PROVE  claim' = claim
  BY <1>10, WorldKeeps
<1> QED BY <1>2, <1>7, <1>8, <1>9, <1>10 DEF Next, vars

LEMMA UnawaitedStays ==
  ASSUME PInv, [Next]_vars, NEW r \in Rows, row[r].fired, Unawaited(r)
  PROVE  Unawaited(r)'
<1> SUFFICES ASSUME NEW v \in Workers, claim'[v].pc = "sent", claim'[v].page # <<>>,
                    Head(claim'[v].page) = r
             PROVE  FALSE
  BY DEF Unawaited, Claiming, At
<1>1. claim'[v] # Resting /\ claim'[v] # Behind(claim[v]) /\ claim'[v].pc # "next"
  BY DEF Resting, Behind
<1> QED BY <1>1, ClaimChanges DEF Unawaited, Claiming, At

-----------------------------------------------------------------------------
(* The reconciliation list.                                                *)

(* Nobody but who is to record an answer settles or holds an attempt.      *)
LEMMA NobodySettles ==
  ASSUME PInv, [Next]_vars, NEW r \in Rows, row[r].fired, Unawaited(r),
         bank[r] = "lost" \/ Unasked(r)
  PROVE  /\ row'[r].fired /\ row'[r].outcome = row[r].outcome
         /\ Unasked(r) => row'[r].held = row[r].held
<1>1. ASSUME NEW w \in Workers
      PROVE  ~Taken(w, r) /\ ~Answered(w, r)
  BY DEF Taken, Answered, Unawaited
<1>2. ASSUME NEW w \in Workers, Resolved(w, r)
      PROVE  ~Unasked(r)
  BY <1>2, HeadsAreOnPages DEF Resolved, Unasked
<1>3. ASSUME NEW w \in Workers, Resolved(w, r)
      PROVE  row'[r].fired /\ (bank[r] = "lost" => row'[r].outcome = row[r].outcome)
  BY <1>3 DEF Resolved
<1> QED BY <1>1, <1>2, <1>3, AttemptChanges DEF Untouched

LEMMA UnaskedStays ==
  ASSUME PInv, [Next]_vars, NEW r \in Rows, Buried(r), Unasked(r)
  PROVE  Unasked(r)'
BY PagesShrink DEF Unasked

LEMMA ForgottenStays ==
  ASSUME PInv, [Next]_vars, NEW r \in Rows, Forgotten(r)
  PROVE  /\ Forgotten(r)'
         /\ row'[r].outcome = row[r].outcome /\ row'[r].held = row[r].held
<1>1. Buried(r)' /\ Unasked(r)' /\ Unawaited(r)'
  BY BuriedStays, UnaskedStays, UnawaitedStays DEF Forgotten
<1>2. row'[r].fired /\ row'[r].outcome = row[r].outcome /\ row'[r].held = row[r].held
  BY NobodySettles DEF Forgotten
<1> QED BY <1>1, <1>2 DEF Forgotten

(* Once batch attempts the bank never heard of fill the page, a later one  *)
(* that is on no page, and whose answer no worker waits for, is not        *)
(* settled ever, whether the bank has answered it or not, and whatever is  *)
(* restarted: no fairness helps.                                           *)
THEOREM ForgottenForEver ==
  ASSUME NEW r \in Rows
  PROVE  Spec => [](Forgotten(r) => []Forgotten(r))
<1>1. PInv /\ Forgotten(r) /\ [Next]_vars => Forgotten(r)'
  BY ForgottenStays
<1> QED BY <1>1, ProgressInvariant, PTL DEF Spec

(* So an outage in which batch requests are lost leaves attempts that      *)
(* reconciliation does not resolve, as ARCHITECTURE 8 says it will: what   *)
(* OutageIsResolved shows of one page with room for one attempt, of every  *)
(* page, and with whatever fairness.                                       *)
COROLLARY OutageStaysUnresolved ==
  ASSUME NEW r \in Rows
  PROVE  Spec /\ <>(Forgotten(r) /\ row[r].outcome = "TIMEOUT" /\ ~row[r].held)
           => ~(row[r].outcome = "TIMEOUT" ~> (Settled(r) \/ row[r].held))
<1> DEFINE Unresolved == Forgotten(r) /\ row[r].outcome = "TIMEOUT" /\ ~row[r].held
<1>1. PInv /\ Unresolved /\ [Next]_vars => Unresolved'
  BY ForgottenStays
<1>2. Unresolved => row[r].outcome = "TIMEOUT" /\ ~(Settled(r) \/ row[r].held)
  BY DEF Settled
<1> HIDE DEF Unresolved
<1>3. Spec /\ <>Unresolved => ~(row[r].outcome = "TIMEOUT" ~> (Settled(r) \/ row[r].held))
  BY <1>1, <1>2, ProgressInvariant, PTL DEF Spec
<1> QED BY <1>3 DEF Unresolved

-----------------------------------------------------------------------------
(* The due list.                                                           *)

(* Only what has come due is on a page of the claim loop, or was fired.    *)
Reached ==
  /\ \A r \in Rows : row[r].fired => row[r].age >= Due
  /\ \A w \in Workers : \A i \in 1..Len(claim[w].page) : row[claim[w].page[i]].age >= Due

LEMMA DuePageIsDue ==
  \A i \in 1..Len(DuePage) : DuePage[i] \in Rows /\ DueAttempt(DuePage[i])
<1>1. First({q \in Rows : DueAttempt(q)}) \subseteq {q \in Rows : DueAttempt(q)}
  BY DEF First
<1> QED BY <1>1, PageIsOldest DEF DuePage

LEMMA ReachedStays ==
  ASSUME PInv, Reached, [Next]_vars
  PROVE  Reached'
<1>1. ASSUME NEW r \in Rows, row[r].age >= Due
      PROVE  row'[r].age >= Due
  BY <1>1, AttemptChanges DEF Ahead, Due, Stale
<1>2. ASSUME NEW r \in Rows, row'[r].fired
      PROVE  row'[r].age >= Due
  <2>1. row[r].fired \/ \E w \in Workers : Taken(w, r)
    BY <1>2, AttemptChanges DEF Untouched, Answered, Resolved
  <2>2. row[r].age >= Due
    BY <2>1, HeadsAreOnPages DEF Reached, Taken
  <2> QED BY <1>1, <2>2
<1>3. ASSUME NEW v \in Workers, NEW i \in 1..Len(claim'[v].page)
      PROVE  row'[claim'[v].page[i]].age >= Due
  <2>1. claim[v].page \in Seq(Rows)
    BY HeadsOfPages
  <2>2. \A j \in 1..Len(claim[v].page) : claim[v].page[j] \in Rows /\ row[claim[v].page[j]].age >= Due
    BY <2>1 DEF Reached
  <2>3. CASE claim'[v].page = claim[v].page
    BY <1>1, <2>2, <2>3
  <2>4. CASE claim[v].page # <<>> /\ claim'[v] = Behind(claim[v])
    <3>1. claim'[v].page = Tail(claim[v].page)
      BY <2>4 DEF Behind
    <3>2. i + 1 \in 1..Len(claim[v].page) /\ claim'[v].page[i] = claim[v].page[i + 1]
      BY <2>1, <2>4, <3>1
    <3> QED BY <1>1, <2>2, <3>2
  <2>5. claim'[v] # Resting
    BY DEF Resting
  <2>6. CASE claim'[v].page = DuePage
    BY <1>1, <2>6, DuePageIsDue DEF DueAttempt
  <2> QED BY <2>3, <2>4, <2>5, <2>6, ClaimChanges
<1> QED BY <1>2, <1>3 DEF Reached

LEMMA ReachedInvariant == Spec => []Reached
<1>1. Init => Reached
  BY DEF Init, Reached, Resting
<1>2. PInv /\ Reached /\ [Next]_vars => Reached'
  BY ReachedStays
<1> QED BY <1>1, <1>2, ProgressInvariant, PTL DEF Spec

(* What is crowded out stays so, and is on no page of the due list.        *)
LEMMA CrowdedOutIsOffThePage ==
  ASSUME PInv, Reached, NEW r \in Rows, CrowdedOut(r)
  PROVE  \A i \in 1..Len(DuePage) : DuePage[i] # r
<1> PICK B : B = {q \in 1..(r - 1) : Stuck(q)}
  OBVIOUS
<1>1. \A q \in B : q \in Rows /\ q < r /\ Stuck(q)
  BY LastAssumption DEF Rows
<1>2. B \subseteq {q \in Rows : DueAttempt(q)}
  BY <1>1 DEF Reached, Stuck, DueAttempt
<1>3. Cardinality(B) >= batch
  BY DEF CrowdedOut
<1> QED BY <1>1, <1>2, <1>3, BehindAFullPage DEF DuePage

LEMMA StuckStays ==
  ASSUME PInv, [Next]_vars, NEW r \in Rows, Stuck(r)
  PROVE  Stuck(r)'
<1>1. row'[r].fired /\ row'[r].outcome = "none"
  BY NobodySettles DEF Stuck, Forgotten
<1>2. Unawaited(r)'
  BY UnawaitedStays DEF Stuck
<1>3. bank[r] = "lost" => bank'[r] = "lost"
  BY StepKeeps DEF LostStay, Lost, Stuck
<1>4. Forgotten(r) => Forgotten(r)'
  BY ForgottenStays
<1> QED BY <1>1, <1>2, <1>3, <1>4 DEF Stuck

LEMMA CrowdedOutStays ==
  ASSUME PInv, [Next]_vars, NEW r \in Rows, CrowdedOut(r)
  PROVE  CrowdedOut(r)'
<1> PICK B : B = {q \in 1..(r - 1) : Stuck(q)}
  OBVIOUS
<1> PICK D : D = {q \in 1..(r - 1) : Stuck(q)'}
  OBVIOUS
<1>1. \A q \in 1..(r - 1) : q \in Rows
  BY LastAssumption DEF Rows
<1>2. B \subseteq D /\ D \subseteq Rows
  BY <1>1, StuckStays
<1>3. Cardinality(B) <= Cardinality(D) /\ Cardinality(B) \in Nat /\ Cardinality(D) \in Nat
  BY <1>2, RowsAreFinite, FS_Subset
<1>4. Cardinality(D) >= batch
  BY <1>3, BatchIsNat, BatchStays DEF CrowdedOut
<1> QED BY <1>4, BatchStays DEF CrowdedOut

LEMMA SkippedStays ==
  ASSUME PInv, Reached, [Next]_vars, NEW r \in Rows, Skipped(r)
  PROVE  Skipped(r)'
<1>1. CrowdedOut(r)'
  BY CrowdedOutStays DEF Skipped
<1>2. ASSUME NEW v \in Workers, NEW i \in 1..Len(claim'[v].page)
      PROVE  claim'[v].page[i] # r
  <2>1. claim[v].page \in Seq(Rows) /\ \A j \in 1..Len(claim[v].page) : claim[v].page[j] # r
    BY HeadsOfPages DEF Skipped
  <2>2. CASE claim'[v].page = claim[v].page
    BY <2>1, <2>2
  <2>3. CASE claim[v].page # <<>> /\ claim'[v] = Behind(claim[v])
    <3>1. claim'[v].page = Tail(claim[v].page)
      BY <2>3 DEF Behind
    <3>2. i + 1 \in 1..Len(claim[v].page) /\ claim'[v].page[i] = claim[v].page[i + 1]
      BY <2>1, <2>3, <3>1
    <3> QED BY <2>1, <3>2
  <2>4. claim'[v] # Resting
    BY DEF Resting
  <2>5. CASE claim'[v].page = DuePage
    BY <2>5, CrowdedOutIsOffThePage DEF Skipped
  <2> QED BY <2>2, <2>3, <2>4, <2>5, ClaimChanges
<1>3. ASSUME NEW w \in Workers
      PROVE  ~Taken(w, r) /\ ~Answered(w, r)
  BY HeadsAreOnPages DEF Skipped, Taken, Answered, Claiming
<1>4. ASSUME NEW w \in Workers, Resolved(w, r)
      PROVE  row'[r].fired = row[r].fired /\ row'[r].outcome = row[r].outcome
  BY <1>4 DEF Resolved, Skipped, PInv, Heard, NotSent
<1>5. row'[r].fired = row[r].fired /\ row'[r].outcome = row[r].outcome
  BY <1>3, <1>4, AttemptChanges DEF Untouched
<1> QED BY <1>1, <1>2, <1>5 DEF Skipped

(* Once batch attempts whose worker died, and that nobody can settle, fill *)
(* the page of the due list, a later attempt is skipped for ever: it is    *)
(* not fired, nor given up, in time or late, and no fairness helps.        *)
THEOREM SkippedForEver ==
  ASSUME NEW r \in Rows
  PROVE  Spec => [](Skipped(r) => [](Skipped(r) /\ ~row[r].fired /\ ~Settled(r)))
<1>1. PInv /\ Reached /\ Skipped(r) /\ [Next]_vars => Skipped(r)'
  BY SkippedStays
<1>2. Skipped(r) => ~row[r].fired /\ ~Settled(r)
  BY DEF Skipped, Settled
<1> QED BY <1>1, <1>2, ProgressInvariant, ReachedInvariant, PTL DEF Spec
=============================================================================
