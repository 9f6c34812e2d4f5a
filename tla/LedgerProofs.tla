---------------------------- MODULE LedgerProofs ----------------------------
(***************************************************************************)
(* Theorems about the bank's ledger, for every set of keys, requests and   *)
(* fences and a file of any length.                                        *)
(***************************************************************************)
EXTENDS Ledger, SequenceTheorems, WellFoundedInduction, TLAPS

(* m has every debit, fence and revocation that n has.                     *)
Includes(m, n) ==
  /\ \A k \in Keys : n.debits[k] # NoEntry => m.debits[k] = n.debits[k]
  /\ \A c \in Cycles : n.fences[c] <= m.fences[c]
  /\ n.revoked \subseteq m.revoked

(* m bears out whatever callers were told.                                 *)
Upholds(m) ==
  /\ \A k \in Keys :
       said[k] # NoAnswer => m.debits[k] # NoEntry /\ m.debits[k].answer = said[k]
  /\ \A c \in Cycles : passed[c] <= m.fences[c]
  /\ barred \subseteq m.revoked

(* How a request stands to its cycle and to memory.                        *)
Handled(q) ==
  /\ q.floor <= passed[q.key[1]]
  /\ q.late => q.key[1] \in barred
  /\ q.pc # "arrived" => q.floor <= q.fence /\ q.fence <= memory.fences[q.key[1]]
  /\ q.pc \in {"decided", "committed"} =>
       q.answer \in Answer /\ (q.late => q.answer = "MANDATE_REVOKED")
  /\ q.pc = "committed" => memory.debits[q.key] = [hash |-> q.hash, answer |-> q.answer]

(* The file, as long as it can be read, is behind memory, and memory is    *)
(* behind what was told.  Before a power failure every line is synced.     *)
Behind ==
  /\ faults = "power" => synced = Len(file)
  /\ up => Upholds(memory) /\ (Readable(file) => Includes(Replay(file), memory))
  /\ ~up => memory = Empty /\ (Readable(file) => Upholds(Replay(file)))
  /\ \A r \in Requests : request[r] # Free => up /\ Handled(request[r])

LedgerInv == TypeOK /\ Behind

-----------------------------------------------------------------------------
(* Lines and what they replay to.                                          *)

(* A set of naturals with a bound has a highest one, which Max picks.      *)
LEMMA MaxIsHighest ==
  ASSUME NEW n \in Nat, NEW S \in SUBSET (0..n), S # {}
  PROVE  Max(S) \in S /\ \A j \in S : j <= Max(S)
<1> DEFINE T == {n - i : i \in S}
           R == OpToRel(<, Nat)
<1>1. \A i \in S : i \in 0..n /\ n - i \in Nat
  OBVIOUS
<1>2. T \subseteq Nat /\ T # {} /\ IsWellFoundedOn(R, Nat)
  BY <1>1, NatLessThanWellFounded
<1> HIDE DEF T, R
<1>3. PICK t \in T : \A u \in T : ~(<<u, t>> \in R)
  BY <1>2, WFMin
<1>4. \A u \in T : ~(u < t)
  BY <1>2, <1>3 DEF R, OpToRel
<1>5. PICK i \in S : t = n - i
  BY <1>3 DEF T
<1>6. \A j \in S : ~(n - j < n - i)
  BY <1>4, <1>5 DEF T
<1>7. \E x \in S : \A y \in S : x >= y
  BY <1>1, <1>6
<1>8. Max(S) \in S /\ \A y \in S : Max(S) >= y
  BY <1>7 DEF Max
<1> QED BY <1>1, <1>8

LEMMA AppendLine ==
  ASSUME NEW f \in Seq(Line), NEW l \in Line
  PROVE  /\ Len(f) \in Nat /\ DOMAIN f = 1..Len(f)
         /\ Append(f, l) \in Seq(Line) /\ DOMAIN Append(f, l) = 1..(Len(f) + 1)
         /\ Len(Append(f, l)) = Len(f) + 1
         /\ \A i \in 1..Len(f) : Append(f, l)[i] = f[i] /\ f[i] \in Line
         /\ Append(f, l)[Len(f) + 1] = l
OBVIOUS

(* The five kinds of line, and what their columns hold.                    *)
LEMMA Kinds ==
  ASSUME NEW l \in Line
  PROVE  /\ l.kind = "debit" => l.key \in Keys /\ l.entry \in Entry
         /\ l.kind = "fence" => l.cycle \in Cycles /\ l.fence \in 1..MaxFence
         /\ l.kind = "revoke" => l = RevokeLine(l.cycle) /\ l.cycle \in Cycles
         /\ l.kind \in {"debit", "fence", "revoke", "header", "garbage"}
BY DEF Line, Header, Garbage, RevokeLine

LEMMA MadeLines ==
  /\ Header \in Line /\ Garbage \in Line
  /\ \A c \in Cycles : RevokeLine(c) \in Line
  /\ \A c \in Cycles : \A n \in 1..MaxFence : FenceLine(c, n) \in Line
  /\ \A k \in Keys : \A e \in Entry : DebitLine(k, e) \in Line
BY DEF Line, Header, Garbage, RevokeLine, FenceLine, DebitLine

(* The entry under a key is the one of the line added, if it is its line.  *)
LEMMA AppendToDebits ==
  ASSUME NEW f \in Seq(Line), NEW l \in Line, NEW k \in Keys
  PROVE  /\ l.kind = "debit" /\ l.key = k => LastEntry(Append(f, l), k) = l.entry
         /\ ~(l.kind = "debit" /\ l.key = k) => LastEntry(Append(f, l), k) = LastEntry(f, k)
<1> DEFINE g == Append(f, l)
           n == Len(f)
<1>1. /\ n \in Nat /\ DOMAIN f = 1..n /\ DOMAIN g = 1..(n + 1)
      /\ \A i \in 1..n : g[i] = f[i]
      /\ g[n + 1] = l
  BY AppendLine
<1> HIDE DEF g, n
<1>2. DebitsOf(f, k) \in SUBSET (0..n) /\ DebitsOf(g, k) \in SUBSET (0..(n + 1))
  BY <1>1 DEF DebitsOf
<1>3. CASE l.kind = "debit" /\ l.key = k
  <2>1. n + 1 \in DebitsOf(g, k) /\ n + 1 \in Nat
    BY <1>1, <1>3 DEF DebitsOf
  <2>2. Max(DebitsOf(g, k)) \in DebitsOf(g, k) /\ n + 1 <= Max(DebitsOf(g, k))
    BY <1>2, <2>1, MaxIsHighest
  <2>3. Max(DebitsOf(g, k)) = n + 1
    BY <1>1, <1>2, <2>2
  <2> QED BY <1>1, <1>3, <2>1, <2>3 DEF LastEntry, g
<1>4. CASE ~(l.kind = "debit" /\ l.key = k)
  <2>1. DebitsOf(g, k) = DebitsOf(f, k)
    BY <1>1, <1>4 DEF DebitsOf
  <2>2. CASE DebitsOf(f, k) = {}
    BY <1>4, <2>1, <2>2 DEF LastEntry, g
  <2>3. CASE DebitsOf(f, k) # {}
    <3>1. Max(DebitsOf(f, k)) \in DebitsOf(f, k)
      BY <1>1, <1>2, <2>3, MaxIsHighest
    <3>2. g[Max(DebitsOf(f, k))] = f[Max(DebitsOf(f, k))]
      BY <1>1, <3>1 DEF DebitsOf
    <3> QED BY <1>4, <2>1, <2>3, <3>2 DEF LastEntry, g
  <2> QED BY <2>2, <2>3
<1> QED BY <1>3, <1>4

(* The fences of a cycle are those it had, and the one of the line added.  *)
LEMMA FencesAreTyped ==
  ASSUME NEW f \in Seq(Line), NEW c \in Cycles
  PROVE  /\ Replay(f).fences[c] \in 0..MaxFence
         /\ \A n \in FencesOf(f, c) : n <= Replay(f).fences[c]
         /\ FencesOf(f, c) = {} => Replay(f).fences[c] = 0
<1>1. {0} \cup FencesOf(f, c) \in SUBSET (0..MaxFence) /\ MaxFence \in Nat
  <2>1. ASSUME NEW i \in DOMAIN f, f[i].kind = "fence"
        PROVE  f[i].fence \in 0..MaxFence
    BY <2>1, Kinds
  <2> QED BY <2>1, LedgerMaxFenceAssumption DEF FencesOf
<1>2. /\ Max({0} \cup FencesOf(f, c)) \in {0} \cup FencesOf(f, c)
      /\ \A j \in {0} \cup FencesOf(f, c) : j <= Max({0} \cup FencesOf(f, c))
  BY <1>1, MaxIsHighest
<1>3. Replay(f).fences[c] = Max({0} \cup FencesOf(f, c))
  BY DEF Replay
<1> QED BY <1>1, <1>2, <1>3

LEMMA AppendToFences ==
  ASSUME NEW f \in Seq(Line), NEW l \in Line, NEW c \in Cycles
  PROVE  /\ Replay(f).fences[c] <= Replay(Append(f, l)).fences[c]
         /\ l.kind = "fence" /\ l.cycle = c => l.fence <= Replay(Append(f, l)).fences[c]
         /\ l.kind # "fence" => Replay(Append(f, l)).fences[c] = Replay(f).fences[c]
<1> DEFINE g == Append(f, l)
           n == Len(f)
<1>1. /\ n \in Nat /\ DOMAIN f = 1..n /\ g \in Seq(Line) /\ DOMAIN g = 1..(n + 1)
      /\ \A i \in 1..n : g[i] = f[i]
      /\ g[n + 1] = l
  BY AppendLine
<1> HIDE DEF g, n
<1>2. FencesOf(f, c) \subseteq FencesOf(g, c)
  BY <1>1 DEF FencesOf
<1>3. l.kind = "fence" /\ l.cycle = c => l.fence \in FencesOf(g, c)
  BY <1>1 DEF FencesOf
<1>4. l.kind # "fence" => FencesOf(g, c) = FencesOf(f, c)
  BY <1>1 DEF FencesOf
<1>5. /\ Replay(f).fences[c] = Max({0} \cup FencesOf(f, c))
      /\ Replay(g).fences[c] = Max({0} \cup FencesOf(g, c))
  BY DEF Replay
<1>6. /\ Replay(f).fences[c] \in 0..MaxFence /\ Replay(g).fences[c] \in 0..MaxFence
      /\ \A m \in FencesOf(g, c) : m <= Replay(g).fences[c]
  BY <1>1, FencesAreTyped
<1>7. Replay(f).fences[c] \in {0} \cup FencesOf(f, c)
  <2>1. {0} \cup FencesOf(f, c) \in SUBSET (0..MaxFence)
    <3>1. ASSUME NEW i \in DOMAIN f, f[i].kind = "fence"
          PROVE  f[i].fence \in 0..MaxFence
      BY <3>1, Kinds
    <3> QED BY <3>1, LedgerMaxFenceAssumption DEF FencesOf
  <2> QED BY <1>5, <2>1, LedgerMaxFenceAssumption, MaxIsHighest
<1>8. Replay(f).fences[c] <= Replay(g).fences[c]
  BY <1>2, <1>6, <1>7
<1> QED BY <1>3, <1>4, <1>5, <1>6, <1>8 DEF g

LEMMA AppendToRevoked ==
  ASSUME NEW f \in Seq(Line), NEW l \in Line
  PROVE  /\ Replay(f).revoked \subseteq Replay(Append(f, l)).revoked
         /\ l.kind = "revoke" => l.cycle \in Replay(Append(f, l)).revoked
         /\ l.kind # "revoke" => Replay(Append(f, l)).revoked = Replay(f).revoked
<1> DEFINE g == Append(f, l)
           n == Len(f)
<1>1. /\ n \in Nat /\ DOMAIN f = 1..n /\ DOMAIN g = 1..(n + 1)
      /\ \A i \in 1..n : g[i] = f[i]
      /\ g[n + 1] = l
  BY AppendLine
<1> HIDE DEF g, n
<1>2. \A c \in Cycles : l = RevokeLine(c) => l.kind = "revoke"
  BY DEF RevokeLine
<1>3. /\ Replay(f).revoked = {c \in Cycles : \E i \in 1..n : f[i] = RevokeLine(c)}
      /\ Replay(g).revoked = {c \in Cycles : \E i \in 1..(n + 1) : g[i] = RevokeLine(c)}
  BY <1>1 DEF Replay
<1>4. \A c \in Cycles :
        (\E i \in 1..(n + 1) : g[i] = RevokeLine(c))
          <=> l = RevokeLine(c) \/ \E i \in 1..n : f[i] = RevokeLine(c)
  BY <1>1
<1>5. l.kind = "revoke" => l.cycle \in Cycles /\ l = RevokeLine(l.cycle)
  BY Kinds
<1> QED BY <1>2, <1>3, <1>4, <1>5 DEF g

(* What the file replays to has the types of memory, and an empty file     *)
(* replays to the memory of a bank that is down.                           *)
LEMMA ReplayIsTyped ==
  ASSUME NEW f \in Seq(Line)
  PROVE  Replay(f) \in Memory
<1>1. ASSUME NEW k \in Keys
      PROVE  LastEntry(f, k) \in Entry \cup {NoEntry}
  <2>1. CASE DebitsOf(f, k) = {}
    BY <2>1 DEF LastEntry
  <2>2. CASE DebitsOf(f, k) # {}
    <3>1. DebitsOf(f, k) \in SUBSET (0..Len(f)) /\ Len(f) \in Nat
      BY DEF DebitsOf
    <3>2. Max(DebitsOf(f, k)) \in DebitsOf(f, k)
      BY <2>2, <3>1, MaxIsHighest
    <3>3. f[Max(DebitsOf(f, k))] \in Line /\ f[Max(DebitsOf(f, k))].kind = "debit"
      BY <3>2 DEF DebitsOf
    <3> QED BY <2>2, <3>3, Kinds DEF LastEntry
  <2> QED BY <2>1, <2>2
<1>2. \A c \in Cycles : Max({0} \cup FencesOf(f, c)) \in 0..MaxFence
  BY FencesAreTyped DEF Replay
<1> QED BY <1>1, <1>2 DEF Replay, Memory

LEMMA EmptyIsNothing ==
  /\ Empty \in Memory
  /\ \A k \in Keys : Empty.debits[k] = NoEntry
  /\ \A c \in Cycles : Empty.fences[c] = 0
  /\ Empty.revoked = {}
<1>1. <<>> \in Seq(Line) /\ DOMAIN <<>> = {}
  OBVIOUS
<1>2. \A k \in Keys : LastEntry(<<>>, k) = NoEntry
  BY <1>1 DEF LastEntry, DebitsOf
<1>3. \A c \in Cycles : FencesOf(<<>>, c) = {}
  BY <1>1 DEF FencesOf
<1>4. \A c \in Cycles : Replay(<<>>).fences[c] = 0
  BY <1>1, <1>3, FencesAreTyped
<1>5. Empty \in Memory
  BY <1>1, ReplayIsTyped DEF Empty
<1> QED BY <1>1, <1>2, <1>4, <1>5 DEF Empty, Replay

(* A debit under a key that memory does not have, or any line of another   *)
(* kind, leaves memory behind the file.                                    *)
LEMMA AppendIncludes ==
  ASSUME NEW f \in Seq(Line), NEW l \in Line, NEW m, Includes(Replay(f), m),
         l.kind = "debit" => m.debits[l.key] = NoEntry,
         \A c \in Cycles : m.fences[c] \in Nat
  PROVE  Includes(Replay(Append(f, l)), m)
<1> DEFINE g == Append(f, l)
<1>1. \A k \in Keys : Replay(f).debits[k] = LastEntry(f, k) /\ Replay(g).debits[k] = LastEntry(g, k)
  BY DEF Replay
<1>2. \A c \in Cycles : Replay(f).fences[c] \in Nat /\ Replay(g).fences[c] \in Nat
  <2>1. g \in Seq(Line)
    BY AppendLine
  <2>2. 0..MaxFence \subseteq Nat
    BY LedgerMaxFenceAssumption
  <2> QED BY <2>1, <2>2, FencesAreTyped
<1>3. /\ \A k \in Keys : ~(l.kind = "debit" /\ l.key = k) => LastEntry(g, k) = LastEntry(f, k)
      /\ \A c \in Cycles : Replay(f).fences[c] <= Replay(g).fences[c]
      /\ Replay(f).revoked \subseteq Replay(g).revoked
  BY AppendToDebits, AppendToFences, AppendToRevoked
<1> HIDE DEF g
<1>4. \A k \in Keys : m.debits[k] # NoEntry => Replay(g).debits[k] = m.debits[k]
  BY <1>1, <1>3 DEF Includes
<1>5. \A c \in Cycles : m.fences[c] <= Replay(g).fences[c]
  BY <1>2, <1>3 DEF Includes
<1>6. m.revoked \subseteq Replay(g).revoked
  BY <1>3 DEF Includes
<1> QED BY <1>4, <1>5, <1>6 DEF Includes, g

-----------------------------------------------------------------------------
(* Writing.                                                                *)

(* A file that can be read after a line was added could be read before it, *)
(* and the line is there as it was written.                                *)
LEMMA WithLine ==
  ASSUME file \in Seq(Line), NEW l \in Line
  PROVE  /\ With(l) \in Seq(Line) /\ Len(file) <= Len(With(l))
         /\ Readable(With(l)) => Readable(file) /\ With(l) = Append(file, l)
<1>1. /\ Garbage \in Line /\ Len(file) \in Nat /\ DOMAIN file = 1..Len(file)
      /\ \A i \in 1..Len(file) : file[i] \in Line
  BY MadeLines
<1>2. CASE ended
  <2>1. With(l) = Append(file, l)
    BY <1>2 DEF With
  <2>2. /\ Append(file, l) \in Seq(Line) /\ Len(Append(file, l)) = Len(file) + 1
        /\ DOMAIN Append(file, l) = 1..(Len(file) + 1)
        /\ \A i \in 1..Len(file) : Append(file, l)[i] = file[i]
    BY AppendLine
  <2>3. Readable(Append(file, l)) => Readable(file)
    BY <1>1, <2>2 DEF Readable
  <2> QED BY <1>1, <2>1, <2>2, <2>3
<1>3. CASE ~ended
  <2> DEFINE head == SubSeq(file, 1, Len(file) - 1)
  <2>1. head \in Seq(Line) /\ Len(file) <= Len(head) + 1
    BY <1>1
  <2>2. With(l) = Append(head, Garbage)
    BY <1>3 DEF With
  <2> HIDE DEF head
  <2>3. /\ Append(head, Garbage) \in Seq(Line) /\ Len(head) \in Nat
        /\ Len(Append(head, Garbage)) = Len(head) + 1
        /\ Len(head) + 1 \in DOMAIN Append(head, Garbage)
        /\ Append(head, Garbage)[Len(head) + 1] = Garbage
    BY <1>1, <2>1, AppendLine
  <2>4. ~Readable(Append(head, Garbage))
    BY <2>3 DEF Readable
  <2> QED BY <1>1, <2>1, <2>2, <2>3, <2>4
<1> QED BY <1>2, <1>3

(* What the disk may look like after an attempt to write a line.           *)
DiskTyped == file \in Seq(Line) /\ ended \in BOOLEAN /\ synced \in 0..Len(file)

LEMMA Writes ==
  ASSUME DiskTyped, NEW l \in Line, Write(l)
  PROVE  /\ DiskTyped' /\ synced' = Len(file')
         /\ Readable(file') => Readable(file) /\ file' = Append(file, l)
<1>1. file' = With(l) /\ ended' = TRUE /\ synced' = Len(file')
  BY DEF Write
<1>2. /\ file' \in Seq(Line)
      /\ Readable(file') => Readable(file) /\ file' = Append(file, l)
  BY <1>1, WithLine DEF DiskTyped
<1>3. Len(file') \in Nat
  BY <1>2
<1> QED BY <1>1, <1>2, <1>3 DEF DiskTyped

LEMMA WritesPart ==
  ASSUME DiskTyped, NEW l \in Line, PartlyWritten(l)
  PROVE  /\ file' \in Seq(Line) /\ ended' \in BOOLEAN /\ Len(file) <= Len(file')
         /\ Readable(file') => Readable(file) /\ file' \in {file, Append(file, l)}
<1>1. file \in Seq(Line) /\ Garbage \in Line /\ Len(file) \in Nat /\ ended \in BOOLEAN
  BY MadeLines DEF DiskTyped
<1>2. CASE file' = file /\ ended' = ended
  BY <1>1, <1>2
<1>3. CASE file' = With(Garbage) /\ ended' = FALSE
  <2>1. /\ file' \in Seq(Line) /\ Len(file) <= Len(file')
        /\ Readable(file') => file' = Append(file, Garbage)
    BY <1>1, <1>3, WithLine
  <2>2. ~Readable(Append(file, Garbage))
    <3>1. /\ Len(file) + 1 \in DOMAIN Append(file, Garbage)
          /\ Append(file, Garbage)[Len(file) + 1] = Garbage
      BY <1>1, AppendLine
    <3> QED BY <3>1 DEF Readable
  <2> QED BY <1>3, <2>1, <2>2
<1>4. CASE file' = With(l) /\ ended' \in BOOLEAN
  BY <1>1, <1>4, WithLine
<1> QED BY <1>2, <1>3, <1>4 DEF PartlyWritten

LEMMA WriteFailing ==
  ASSUME DiskTyped, NEW l \in Line, WriteFails(l)
  PROVE  /\ DiskTyped' /\ faults = "errors"
         /\ Readable(file') => Readable(file) /\ file' \in {file, Append(file, l)}
<1>1. PartlyWritten(l) /\ synced' = synced /\ faults = "errors"
  BY DEF WriteFails
<1>2. /\ file' \in Seq(Line) /\ ended' \in BOOLEAN /\ Len(file) <= Len(file')
      /\ Readable(file') => Readable(file) /\ file' \in {file, Append(file, l)}
  BY <1>1, WritesPart
<1>3. synced' \in 0..Len(file')
  BY <1>1, <1>2 DEF DiskTyped
<1> QED BY <1>1, <1>2, <1>3 DEF DiskTyped

-----------------------------------------------------------------------------
(* Requests.                                                               *)

(* Two naturals have a greater one.                                        *)
LEMMA MaxOfTwo ==
  ASSUME NEW n \in 0..MaxFence, NEW m \in 0..MaxFence
  PROVE  Max({n, m}) \in {n, m} /\ n <= Max({n, m}) /\ m <= Max({n, m})
<1>1. {n, m} \in SUBSET (0..MaxFence) /\ {n, m} # {}
  OBVIOUS
<1> QED BY <1>1, LedgerMaxFenceAssumption, MaxIsHighest

LEMMA MemoryTypes ==
  ASSUME TypeOK
  PROVE  /\ \A k \in Keys : memory.debits[k] \in Entry \cup {NoEntry} /\ k[1] \in Cycles
         /\ \A c \in Cycles : memory.fences[c] \in 0..MaxFence /\ passed[c] \in 0..MaxFence
         /\ 0..MaxFence \subseteq Nat
         /\ DiskTyped
BY LedgerMaxFenceAssumption DEF TypeOK, Memory, DiskTyped, Keys

(* A request that is being handled.                                        *)
LEMMA RequestAt ==
  ASSUME LedgerInv, NEW r \in Requests, NEW pc, In(r, pc), pc # "free"
  PROVE  /\ up /\ request[r] \in Request /\ request[r].pc = pc /\ Handled(request[r])
         /\ K(r) \in Keys /\ Cy(r) \in Cycles /\ Cy(r) = K(r)[1]
         /\ request[r].fence \in 0..MaxFence /\ request[r].floor \in 0..MaxFence
         /\ request[r].hash \in Hashes
<1>1. up /\ request[r].pc = pc /\ request[r] \in Request \cup {Free}
  BY DEF In, LedgerInv, TypeOK
<1>2. request[r] # Free
  BY <1>1 DEF Free
<1>3. request[r] \in Request /\ Handled(request[r])
  BY <1>1, <1>2 DEF LedgerInv, Behind
<1> QED BY <1>1, <1>3 DEF Request, Keys, K, Cy

(* Memory and history only grow, so a request stays as it stands.          *)
LEMMA HandledStays ==
  ASSUME NEW q \in Request, Handled(q), memory \in Memory, memory' \in Memory,
         Includes(memory', memory),
         passed \in [Cycles -> 0..MaxFence], passed' \in [Cycles -> 0..MaxFence],
         \A c \in Cycles : passed[c] <= passed'[c], barred \subseteq barred'
  PROVE  Handled(q)'
<1>1. /\ q.key \in Keys /\ q.key[1] \in Cycles /\ q.floor \in 0..MaxFence /\ q.fence \in 0..MaxFence
      /\ q.answer \in Answer \cup {NoAnswer}
  BY DEF Request, Keys
<1>2. /\ memory.fences[q.key[1]] \in 0..MaxFence /\ memory'.fences[q.key[1]] \in 0..MaxFence
      /\ memory.fences[q.key[1]] <= memory'.fences[q.key[1]]
      /\ passed[q.key[1]] \in 0..MaxFence /\ passed'[q.key[1]] \in 0..MaxFence
      /\ passed[q.key[1]] <= passed'[q.key[1]]
  BY <1>1 DEF Memory, Includes
<1>3. 0..MaxFence \subseteq Nat
  BY LedgerMaxFenceAssumption
<1>4. q.floor <= passed'[q.key[1]]
  BY <1>1, <1>2, <1>3 DEF Handled
<1>5. q.late => q.key[1] \in barred'
  BY DEF Handled
<1>6. q.pc # "arrived" => q.floor <= q.fence /\ q.fence <= memory'.fences[q.key[1]]
  BY <1>1, <1>2, <1>3 DEF Handled
<1>7. q.pc = "committed" => memory'.debits[q.key] = [hash |-> q.hash, answer |-> q.answer]
  <2>1. SUFFICES ASSUME q.pc = "committed"
                 PROVE  memory'.debits[q.key] = memory.debits[q.key]
    BY DEF Handled
  <2>2. memory.debits[q.key] = [hash |-> q.hash, answer |-> q.answer] /\ q.answer \in Answer
    BY <2>1 DEF Handled
  <2>3. memory.debits[q.key] # NoEntry
    BY <2>2 DEF NoEntry, Answer, NoAnswer
  <2> QED BY <1>1, <2>3 DEF Includes
<1> QED BY <1>4, <1>5, <1>6, <1>7 DEF Handled

(* A step of a bank that runs: memory grows, the file stays behind it, and *)
(* it behind what is told; the requests are as they were, answered, or     *)
(* well handled.                                                           *)
Runs ==
  /\ up' = up /\ faults' = faults /\ DiskTyped' /\ (faults = "power" => synced' = Len(file'))
  /\ memory' \in Memory /\ Includes(memory', memory)
  /\ Readable(file') => Includes(Replay(file'), memory')
  /\ said' \in [Keys -> Answer \cup {NoAnswer}]
  /\ passed' \in [Cycles -> 0..MaxFence] /\ \A c \in Cycles : passed[c] <= passed'[c]
  /\ barred \subseteq barred' /\ barred' \subseteq Cycles

LEMMA RunsKeepsInv ==
  ASSUME LedgerInv, up, Runs, Upholds(memory)',
         \/ request' = request
         \/ \E r \in Requests : \E q \in Request \cup {Free} :
              request' = [request EXCEPT ![r] = q] /\ (q # Free => Handled(q)')
  PROVE  LedgerInv'
<1>1. request \in [Requests -> Request \cup {Free}] /\ memory \in Memory
        /\ passed \in [Cycles -> 0..MaxFence] /\ faults \in {"errors", "power"}
  BY DEF LedgerInv, TypeOK
<1>2. request' \in [Requests -> Request \cup {Free}]
  BY <1>1
<1>3. TypeOK'
  BY <1>1, <1>2 DEF Runs, DiskTyped, TypeOK, LedgerInv
<1>4. ASSUME NEW s \in Requests, request'[s] # Free
      PROVE  Handled(request[s])'
  <2>1. CASE request'[s] = request[s]
    <3>1. request[s] \in Request /\ Handled(request[s])
      BY <1>1, <1>4, <2>1 DEF LedgerInv, Behind
    <3>2. \A p \in Request : Handled(p) => Handled(p)'
      BY <1>1, HandledStays DEF Runs
    <3>3. PICK p \in Request : p = request[s]
      BY <3>1
    <3>4. Handled(p)' /\ p = request'[s]
      BY <2>1, <3>1, <3>2, <3>3
    <3> QED BY <3>4 DEF Handled
  <2>2. CASE request'[s] # request[s]
    <3>1. request' # request
      BY <2>2
    <3>2. PICK r \in Requests, q \in Request \cup {Free} :
            request' = [request EXCEPT ![r] = q] /\ (q # Free => Handled(q)')
      BY <3>1
    <3>3. request'[s] = q /\ Handled(q)'
      BY <1>1, <1>4, <2>2, <3>2
    <3> QED BY <3>3 DEF Handled
  <2> QED BY <2>1, <2>2
<1>5. Behind'
  BY <1>4 DEF Runs, Behind
<1> QED BY <1>3, <1>5 DEF LedgerInv

(* Nothing but requests changes.                                           *)
LEMMA RunsStill ==
  ASSUME LedgerInv, up, UNCHANGED <<disk, faults, process, history>>
  PROVE  Runs /\ Upholds(memory)'
<1>1. /\ UNCHANGED <<file, ended, synced, faults, up, memory, said, passed, barred>>
      /\ memory \in Memory /\ DiskTyped
  BY MemoryTypes DEF disk, process, history, LedgerInv, TypeOK
<1>2. Includes(memory, memory) /\ \A c \in Cycles : passed[c] <= passed[c]
  BY MemoryTypes DEF Includes, LedgerInv
<1>3. Upholds(memory)' /\ DiskTyped' /\ (Readable(file') => Includes(Replay(file'), memory'))
  BY <1>1 DEF LedgerInv, Behind, Upholds, DiskTyped
<1> QED BY <1>1, <1>2, <1>3 DEF Runs, LedgerInv, TypeOK, Behind

(* An answer that memory holds is told.  Told again, it is the same.       *)
LEMMA RunsTelling ==
  ASSUME LedgerInv, up, UNCHANGED <<disk, faults, process>>,
         NEW k \in Keys, memory.debits[k] # NoEntry,
         NEW n \in 0..MaxFence, n <= memory.fences[k[1]],
         said' = [said EXCEPT ![k] = memory.debits[k].answer],
         passed' = [passed EXCEPT ![k[1]] = Max({passed[k[1]], n})] \/ passed' = passed,
         barred' = barred
  PROVE  Runs /\ Upholds(memory)' /\ [A!Next]_said
<1> DEFINE answer == memory.debits[k].answer
<1>1. /\ UNCHANGED <<file, ended, synced, faults, up, memory, barred>>
      /\ memory \in Memory /\ DiskTyped /\ k[1] \in Cycles /\ 0..MaxFence \subseteq Nat
      /\ said \in [Keys -> Answer \cup {NoAnswer}] /\ passed \in [Cycles -> 0..MaxFence]
      /\ Upholds(memory)
  BY MemoryTypes DEF disk, process, LedgerInv, TypeOK, Behind
<1>2. answer \in Answer
  BY <1>1 DEF Memory, Entry
<1> HIDE DEF answer
<1>3. said' = [said EXCEPT ![k] = answer] /\ said' \in [Keys -> Answer \cup {NoAnswer}]
  BY <1>1, <1>2 DEF answer
<1>4. /\ passed' \in [Cycles -> 0..MaxFence]
      /\ \A c \in Cycles : passed[c] <= passed'[c] /\ passed'[c] <= memory.fences[c]
  <2>1. \A c \in Cycles : /\ passed[c] \in Nat /\ memory.fences[c] \in Nat
                          /\ passed[c] <= memory.fences[c]
    BY <1>1, MemoryTypes DEF LedgerInv, Upholds
  <2>2. /\ Max({passed[k[1]], n}) \in {passed[k[1]], n}
        /\ passed[k[1]] <= Max({passed[k[1]], n})
    BY <1>1, MaxOfTwo
  <2> QED BY <1>1, <2>1, <2>2
<1>5. Includes(memory, memory)
  BY MemoryTypes DEF Includes, LedgerInv
<1>6. Upholds(memory)'
  BY <1>1, <1>3, <1>4 DEF Upholds, answer
<1>7. Runs
  BY <1>1, <1>3, <1>4, <1>5 DEF Runs, LedgerInv, TypeOK, Behind, DiskTyped
<1>8. [A!Next]_said
  <2>1. CASE said[k] = NoAnswer
    BY <1>2, <1>3, <2>1 DEF A!Next, A!Say
  <2>2. CASE said[k] # NoAnswer
    BY <1>1, <1>3, <2>2 DEF Upholds, answer
  <2> QED BY <2>1, <2>2
<1> QED BY <1>6, <1>7, <1>8

(* A line is written, and memory takes it in; or the writing fails, and    *)
(* the line may be in the file all the same.                               *)
LEMMA RunsWriting ==
  ASSUME LedgerInv, up, up' = up, faults' = faults,
         said' = said, passed' = passed, barred \subseteq barred', barred' \subseteq Cycles,
         NEW l \in Line, l.kind = "debit" => memory.debits[l.key] = NoEntry,
         \/ WriteFails(l) /\ memory' = memory /\ barred' = barred
         \/ /\ Write(l) /\ memory' \in Memory /\ Includes(memory', memory)
            /\ barred' \subseteq memory'.revoked
            /\ Readable(file) /\ Includes(Replay(file), memory)
                 => Includes(Replay(Append(file, l)), memory')
  PROVE  Runs /\ Upholds(memory)'
<1>1. /\ memory \in Memory /\ DiskTyped /\ 0..MaxFence \subseteq Nat
      /\ Upholds(memory) /\ (Readable(file) => Includes(Replay(file), memory))
      /\ \A c \in Cycles : memory.fences[c] \in Nat /\ passed[c] \in Nat
  BY MemoryTypes DEF LedgerInv, TypeOK, Behind
<1>2. Includes(memory, memory) /\ \A c \in Cycles : passed[c] <= passed'[c]
  BY <1>1 DEF Includes
<1>3. memory' \in Memory /\ Includes(memory', memory) /\ barred' \subseteq memory'.revoked
  BY <1>1, <1>2 DEF Upholds
<1>4. Upholds(memory)'
  <2>1. \A c \in Cycles : memory'.fences[c] \in Nat
    BY <1>1, <1>3 DEF Memory
  <2>2. \A c \in Cycles : passed'[c] <= memory'.fences[c]
    BY <1>1, <1>3, <2>1 DEF Upholds, Includes
  <2> QED BY <1>1, <1>3, <2>2 DEF Upholds, Includes
<1>5. CASE WriteFails(l) /\ memory' = memory
  <2>1. /\ DiskTyped' /\ faults = "errors"
        /\ Readable(file') => Readable(file) /\ file' \in {file, Append(file, l)}
    BY <1>1, <1>5, WriteFailing
  <2>2. Readable(file') => Includes(Replay(file'), memory')
    <3>1. file \in Seq(Line)
      BY <1>1 DEF DiskTyped
    <3> QED BY <1>1, <1>5, <2>1, <3>1, AppendIncludes
  <2> QED BY <1>2, <1>3, <1>4, <2>1, <2>2 DEF Runs, LedgerInv, TypeOK
<1>6. CASE ~(WriteFails(l) /\ memory' = memory)
  <2>1. /\ Write(l)
        /\ Readable(file) /\ Includes(Replay(file), memory)
             => Includes(Replay(Append(file, l)), memory')
    BY <1>6
  <2>2. /\ DiskTyped' /\ synced' = Len(file')
        /\ Readable(file') => Readable(file) /\ file' = Append(file, l)
    BY <1>1, <2>1, Writes
  <2>3. Readable(file') => Includes(Replay(file'), memory')
    BY <1>1, <2>1, <2>2
  <2> QED BY <1>2, <1>3, <1>4, <2>2, <2>3 DEF Runs, LedgerInv, TypeOK
<1> QED BY <1>5, <1>6

-----------------------------------------------------------------------------
(* The steps.                                                              *)

LEMMA ArriveKeepsInv ==
  ASSUME LedgerInv, NEW r \in Requests, NEW k \in Keys, NEW h \in Hashes, NEW f \in 1..MaxFence,
         Arrive(r, k, h, f)
  PROVE  LedgerInv' /\ said' = said
<1> DEFINE new == [pc |-> "arrived", key |-> k, hash |-> h, fence |-> f, answer |-> NoAnswer,
                   floor |-> passed[k[1]], late |-> k[1] \in barred]
<1>1. /\ up /\ UNCHANGED <<disk, faults, process, history>>
      /\ request' = [request EXCEPT ![r] = new]
  BY DEF Arrive, In
<1>2. /\ passed[k[1]] \in 0..MaxFence /\ k[1] \in Cycles /\ 0..MaxFence \subseteq Nat
      /\ 1..MaxFence \subseteq 0..MaxFence
  BY MemoryTypes, LedgerMaxFenceAssumption DEF LedgerInv
<1>3. said' = said /\ passed' = passed /\ barred' = barred
  BY <1>1 DEF history
<1>4. (k[1] \in barred) \in BOOLEAN
  OBVIOUS
<1>5. new \in Request
  BY <1>2, <1>4 DEF Request
<1> PICK q \in Request : q = new
  BY <1>5
<1>6. passed[k[1]] <= passed[k[1]]
  BY <1>2
<1>7. Handled(q)'
  BY <1>2, <1>3, <1>6 DEF Handled
<1>8. Runs /\ Upholds(memory)'
  BY <1>1, RunsStill
<1>9. \E s \in Requests : \E p \in Request \cup {Free} :
        request' = [request EXCEPT ![s] = p] /\ (p # Free => Handled(p)')
  BY <1>1, <1>7
<1> QED BY <1>1, <1>3, <1>8, <1>9, RunsKeepsInv

(* Every step of a request that is done with it.                           *)
LEMMA LeaveKeepsInv ==
  ASSUME LedgerInv, up, Runs, Upholds(memory)', NEW r \in Requests, Leave(r)
  PROVE  LedgerInv'
<1>1. \E s \in Requests : \E p \in Request \cup {Free} :
        request' = [request EXCEPT ![s] = p] /\ (p # Free => Handled(p)')
  BY DEF Leave
<1> QED BY <1>1, RunsKeepsInv

(* And of one that goes on as q.                                           *)
LEMMA GoKeepsInv ==
  ASSUME LedgerInv, up, Runs, Upholds(memory)', NEW r \in Requests, NEW q \in Request,
         request' = [request EXCEPT ![r] = q], Handled(q)'
  PROVE  LedgerInv'
<1>1. \E s \in Requests : \E p \in Request \cup {Free} :
        request' = [request EXCEPT ![s] = p] /\ (p # Free => Handled(p)')
  OBVIOUS
<1> QED BY <1>1, RunsKeepsInv

LEMMA AdmitFenceKeepsInv ==
  ASSUME LedgerInv, NEW r \in Requests, AdmitFence(r)
  PROVE  LedgerInv' /\ said' = said
<1> DEFINE fence == request[r].fence
           c     == Cy(r)
           line  == FenceLine(c, fence)
<1>1. In(r, "arrived") /\ UNCHANGED <<up, faults, history>>
  BY DEF AdmitFence
<1>2. /\ up /\ request[r] \in Request /\ Handled(request[r]) /\ K(r) \in Keys /\ c \in Cycles
      /\ c = K(r)[1] /\ fence \in 0..MaxFence /\ request[r].floor \in 0..MaxFence
      /\ request[r].pc = "arrived"
  BY <1>1, RequestAt
<1>3. said' = said /\ passed' = passed /\ barred' = barred
  BY <1>1 DEF history
<1>4. /\ memory \in Memory /\ memory.fences[c] \in 0..MaxFence /\ passed[c] \in 0..MaxFence
      /\ 0..MaxFence \subseteq Nat /\ passed[c] <= memory.fences[c]
      /\ Upholds(memory) /\ barred \subseteq Cycles
  BY <1>2, MemoryTypes DEF LedgerInv, TypeOK, Behind, Upholds
<1>5. PICK q \in Request :
        /\ q = [request[r] EXCEPT !.pc = "admitted"]
        /\ q.key = K(r) /\ q.pc = "admitted" /\ q.fence = fence
        /\ q.floor = request[r].floor /\ q.late = request[r].late
  <2>1. [request[r] EXCEPT !.pc = "admitted"] \in Request
    BY <1>2 DEF Request
  <2> QED BY <1>2, <2>1 DEF Request, K
<1>6. q.floor <= passed[c] /\ (q.late => c \in barred)
  BY <1>2, <1>5 DEF Handled, K
<1>7. Go(r, "admitted") => request' = [request EXCEPT ![r] = q]
  BY <1>5 DEF Go, LedgerInv, TypeOK
<1>8. ASSUME memory'.fences[c] = fence, memory.fences[c] <= fence
      PROVE  Handled(q)'
  <2>1. q.floor <= fence /\ fence <= fence
    BY <1>2, <1>4, <1>5, <1>6, <1>8
  <2> QED BY <1>2, <1>3, <1>5, <1>6, <1>8, <2>1 DEF Handled
<1>9. CASE fence < memory.fences[c] /\ Leave(r) /\ UNCHANGED <<disk, memory>>
  <2>1. UNCHANGED <<disk, faults, process, history>>
    BY <1>1, <1>9 DEF process
  <2> QED BY <1>2, <1>3, <1>9, <2>1, RunsStill, LeaveKeepsInv
<1>10. CASE fence = memory.fences[c] /\ Go(r, "admitted") /\ UNCHANGED <<disk, memory>>
  <2>1. UNCHANGED <<disk, faults, process, history>>
    BY <1>1, <1>10 DEF process
  <2>2. memory'.fences[c] = fence /\ memory.fences[c] <= fence
    BY <1>2, <1>4, <1>10
  <2> QED BY <1>2, <1>3, <1>5, <1>7, <1>8, <1>10, <2>1, <2>2, RunsStill, GoKeepsInv
<1>11. CASE fence > memory.fences[c] /\ WriteFails(line) /\ Leave(r) /\ UNCHANGED memory
  <2>1. fence \in 1..MaxFence
    BY <1>2, <1>4, <1>11
  <2>2. line \in Line /\ line.kind # "debit"
    BY <1>2, <2>1, MadeLines DEF FenceLine
  <2> HIDE DEF line
  <2>3. Runs /\ Upholds(memory)'
    BY <1>1, <1>2, <1>3, <1>4, <1>11, <2>2, RunsWriting
  <2> QED BY <1>2, <1>3, <1>11, <2>3, LeaveKeepsInv
<1>12. CASE /\ fence > memory.fences[c] /\ Write(line) /\ Go(r, "admitted")
            /\ memory' = [memory EXCEPT !.fences[c] = fence]
  <2>1. fence \in 1..MaxFence /\ memory.fences[c] <= fence
    BY <1>2, <1>4, <1>12
  <2>2. line \in Line /\ line.kind = "fence" /\ line.cycle = c /\ line.fence = fence
    BY <1>2, <2>1, MadeLines DEF FenceLine
  <2> HIDE DEF line
  <2>3. /\ memory' \in Memory /\ memory'.debits = memory.debits /\ memory'.revoked = memory.revoked
        /\ memory'.fences[c] = fence
        /\ \A d \in Cycles : d # c => memory'.fences[d] = memory.fences[d]
    BY <1>2, <1>4, <1>12 DEF Memory
  <2>4. Includes(memory', memory)
    BY <1>4, <2>1, <2>3, MemoryTypes DEF Includes, LedgerInv
  <2>5. ASSUME Includes(Replay(file), memory)
        PROVE  Includes(Replay(Append(file, line)), memory')
    <3>1. file \in Seq(Line) /\ \A d \in Cycles : memory.fences[d] \in Nat
      BY MemoryTypes DEF LedgerInv, DiskTyped
    <3>2. Includes(Replay(Append(file, line)), memory)
      BY <2>2, <2>5, <3>1, AppendIncludes
    <3>3. fence <= Replay(Append(file, line)).fences[c]
      BY <1>2, <2>2, <3>1, AppendToFences
    <3> QED BY <2>3, <3>2, <3>3 DEF Includes
  <2>6. barred' \subseteq memory'.revoked
    BY <1>3, <1>4, <2>3 DEF Upholds
  <2>7. Runs /\ Upholds(memory)'
    BY <1>1, <1>2, <1>3, <1>4, <1>12, <2>2, <2>3, <2>4, <2>5, <2>6, RunsWriting
  <2>8. Handled(q)'
    BY <1>8, <2>1, <2>3
  <2> QED BY <1>2, <1>3, <1>5, <1>7, <1>12, <2>7, <2>8, GoKeepsInv
<1> QED BY <1>9, <1>10, <1>11, <1>12 DEF AdmitFence

(* The entry found is told if it was made for the same request.            *)
LEMMA ReplayedKeepsInv ==
  ASSUME LedgerInv, NEW r \in Requests, NEW pc \in {"admitted", "decided"}, In(r, pc),
         memory.debits[K(r)] # NoEntry, Replayed(r, memory.debits[K(r)]),
         UNCHANGED <<disk, faults, process>>
  PROVE  LedgerInv' /\ [A!Next]_said
<1>1. /\ up /\ K(r) \in Keys /\ Handled(request[r]) /\ request[r].pc = pc
      /\ request[r].fence \in 0..MaxFence /\ Cy(r) = K(r)[1]
  BY RequestAt
<1>2. request[r].fence <= memory.fences[K(r)[1]] /\ Leave(r)
  BY <1>1 DEF Handled, Replayed, Cy, K
<1>3. CASE Tell(K(r), memory.debits[K(r)].answer, request[r].fence)
  <2>1. /\ said' = [said EXCEPT ![K(r)] = memory.debits[K(r)].answer]
        /\ passed' = [passed EXCEPT ![K(r)[1]] = Max({passed[K(r)[1]], request[r].fence})]
        /\ barred' = barred
    BY <1>3 DEF Tell, LedgerInv, TypeOK
  <2>2. Runs /\ Upholds(memory)' /\ [A!Next]_said
    BY <1>1, <1>2, <2>1, RunsTelling
  <2> QED BY <1>1, <1>2, <2>2, LeaveKeepsInv
<1>4. CASE UNCHANGED history
  <2>1. Runs /\ Upholds(memory)' /\ said' = said
    BY <1>1, <1>4, RunsStill DEF history
  <2> QED BY <1>1, <1>2, <2>1, LeaveKeepsInv
<1> QED BY <1>3, <1>4 DEF Replayed

LEMMA DecideKeepsInv ==
  ASSUME LedgerInv, NEW r \in Requests, Decide(r)
  PROVE  LedgerInv' /\ [A!Next]_said
<1> DEFINE answers == IF Cy(r) \in memory.revoked THEN {"MANDATE_REVOKED"} ELSE {"paid", "declined"}
<1>1. In(r, "admitted") /\ UNCHANGED <<disk, faults, process>>
  BY DEF Decide
<1>2. /\ up /\ request[r] \in Request /\ Handled(request[r]) /\ request[r].pc = "admitted"
      /\ Cy(r) = request[r].key[1]
  BY <1>1, RequestAt DEF Cy
<1>3. CASE memory.debits[K(r)] # NoEntry /\ Replayed(r, memory.debits[K(r)])
  BY <1>1, <1>3, ReplayedKeepsInv
<1>4. CASE /\ memory.debits[K(r)] = NoEntry /\ UNCHANGED history
           /\ \E answer \in answers :
                request' = [request EXCEPT ![r].answer = answer, ![r].pc = "decided"]
  <2>1. PICK answer \in answers :
          request' = [request EXCEPT ![r].answer = answer, ![r].pc = "decided"]
    BY <1>4
  <2> DEFINE new == [request[r] EXCEPT !.answer = answer, !.pc = "decided"]
  <2>2. answer \in Answer /\ (Cy(r) \in memory.revoked => answer = "MANDATE_REVOKED")
    BY DEF Answer
  <2>3. request' = [request EXCEPT ![r] = new]
    BY <2>1 DEF LedgerInv, TypeOK
  <2>4. PICK q \in Request :
          /\ q = new /\ q.key = request[r].key /\ q.pc = "decided" /\ q.fence = request[r].fence
          /\ q.floor = request[r].floor /\ q.late = request[r].late /\ q.answer = answer
    <3>1. new \in Request
      BY <1>2, <2>2 DEF Request
    <3> QED BY <1>2, <3>1 DEF Request
  <2>5. Runs /\ Upholds(memory)' /\ UNCHANGED <<memory, said, passed, barred>>
    BY <1>1, <1>2, <1>4, RunsStill DEF history, process
  <2>6. q.late => answer = "MANDATE_REVOKED"
    BY <1>2, <2>2, <2>4 DEF Handled, LedgerInv, Behind, Upholds
  <2>7. Handled(q)'
    BY <1>2, <2>2, <2>4, <2>5, <2>6 DEF Handled
  <2> QED BY <1>2, <2>3, <2>4, <2>5, <2>7, GoKeepsInv
<1> QED BY <1>3, <1>4 DEF Decide

LEMMA CommitKeepsInv ==
  ASSUME LedgerInv, NEW r \in Requests, Commit(r)
  PROVE  LedgerInv' /\ [A!Next]_said
<1> DEFINE k     == K(r)
           entry == [hash |-> request[r].hash, answer |-> request[r].answer]
           line  == DebitLine(k, entry)
<1>1. In(r, "decided") /\ UNCHANGED <<up, faults>>
  BY DEF Commit
<1>2. /\ up /\ request[r] \in Request /\ Handled(request[r]) /\ k \in Keys /\ k = request[r].key
      /\ request[r].pc = "decided" /\ request[r].answer \in Answer /\ request[r].hash \in Hashes
  BY <1>1, RequestAt DEF K, Handled
<1>3. entry \in Entry /\ entry # NoEntry
  BY <1>2 DEF Entry, NoEntry, Answer, NoAnswer
<1>4. line \in Line /\ line.kind = "debit" /\ line.key = k /\ line.entry = entry
  BY <1>2, <1>3, MadeLines DEF DebitLine
<1>5. /\ memory \in Memory /\ barred \subseteq Cycles /\ Upholds(memory) /\ file \in Seq(Line)
      /\ \A c \in Cycles : memory.fences[c] \in Nat
  BY <1>2, MemoryTypes DEF LedgerInv, TypeOK, Behind
<1>6. CASE memory.debits[k] # NoEntry /\ Replayed(r, memory.debits[k]) /\ UNCHANGED <<disk, memory>>
  BY <1>1, <1>6, ReplayedKeepsInv DEF process
<1>7. CASE /\ memory.debits[k] = NoEntry /\ UNCHANGED history
           /\ WriteFails(line) /\ Leave(r) /\ UNCHANGED memory
  <2> HIDE DEF line
  <2>1. said' = said /\ passed' = passed /\ barred' = barred
    BY <1>7 DEF history
  <2>2. Runs /\ Upholds(memory)'
    BY <1>1, <1>2, <1>4, <1>5, <1>7, <2>1, RunsWriting
  <2> QED BY <1>2, <1>7, <2>1, <2>2, LeaveKeepsInv
<1>8. CASE /\ memory.debits[k] = NoEntry /\ UNCHANGED history
           /\ Write(line) /\ Go(r, "committed")
           /\ memory' = [memory EXCEPT !.debits[k] = entry]
  <2> HIDE DEF line
  <2>1. said' = said /\ passed' = passed /\ barred' = barred
    BY <1>8 DEF history
  <2>2. /\ memory' \in Memory /\ memory'.fences = memory.fences /\ memory'.revoked = memory.revoked
        /\ memory'.debits[k] = entry
        /\ \A l \in Keys : l # k => memory'.debits[l] = memory.debits[l]
    BY <1>2, <1>3, <1>5, <1>8 DEF Memory
  <2>3. Includes(memory', memory)
    BY <1>5, <1>8, <2>2 DEF Includes
  <2>4. ASSUME Includes(Replay(file), memory)
        PROVE  Includes(Replay(Append(file, line)), memory')
    <3>1. Includes(Replay(Append(file, line)), memory)
      BY <1>4, <1>5, <1>8, <2>4, AppendIncludes
    <3>2. Replay(Append(file, line)).debits[k] = entry
      <4>1. LastEntry(Append(file, line), k) = entry
        BY <1>2, <1>4, <1>5, AppendToDebits
      <4> QED BY <1>2, <4>1 DEF Replay
    <3> QED BY <2>2, <3>1, <3>2 DEF Includes
  <2>5. barred' \subseteq memory'.revoked
    BY <1>5, <2>1, <2>2 DEF Upholds
  <2>6. Runs /\ Upholds(memory)'
    BY <1>1, <1>2, <1>4, <1>5, <1>8, <2>1, <2>2, <2>3, <2>4, <2>5, RunsWriting
  <2>7. PICK q \in Request :
          /\ q = [request[r] EXCEPT !.pc = "committed"]
          /\ q.key = k /\ q.pc = "committed" /\ q.fence = request[r].fence
          /\ q.floor = request[r].floor /\ q.late = request[r].late
          /\ q.hash = request[r].hash /\ q.answer = request[r].answer
    <3>1. [request[r] EXCEPT !.pc = "committed"] \in Request
      BY <1>2 DEF Request
    <3> QED BY <1>2, <3>1 DEF Request
  <2>8. request' = [request EXCEPT ![r] = q]
    BY <1>8, <2>7 DEF Go, LedgerInv, TypeOK
  <2>9. Handled(q)'
    BY <1>2, <2>1, <2>2, <2>7 DEF Handled
  <2> QED BY <1>2, <2>1, <2>6, <2>8, <2>9, GoKeepsInv
<1> QED BY <1>6, <1>7, <1>8 DEF Commit

LEMMA ReplyKeepsInv ==
  ASSUME LedgerInv, NEW r \in Requests, Reply(r)
  PROVE  LedgerInv' /\ [A!Next]_said
<1>1. /\ In(r, "committed") /\ Tell(K(r), request[r].answer, request[r].fence) /\ Leave(r)
      /\ UNCHANGED <<disk, faults, process>>
  BY DEF Reply
<1>2. /\ up /\ K(r) \in Keys /\ Handled(request[r]) /\ request[r].pc = "committed"
      /\ request[r].fence \in 0..MaxFence /\ K(r) = request[r].key
  BY <1>1, RequestAt DEF K
<1>3. /\ memory.debits[K(r)] = [hash |-> request[r].hash, answer |-> request[r].answer]
      /\ request[r].answer \in Answer /\ request[r].fence <= memory.fences[K(r)[1]]
  BY <1>2 DEF Handled
<1>4. memory.debits[K(r)] # NoEntry /\ memory.debits[K(r)].answer = request[r].answer
  BY <1>3 DEF NoEntry, Answer, NoAnswer
<1>5. /\ said' = [said EXCEPT ![K(r)] = memory.debits[K(r)].answer]
      /\ passed' = [passed EXCEPT ![K(r)[1]] = Max({passed[K(r)[1]], request[r].fence})]
      /\ barred' = barred
  BY <1>1, <1>4 DEF Tell, LedgerInv, TypeOK
<1>6. Runs /\ Upholds(memory)' /\ [A!Next]_said
  BY <1>1, <1>2, <1>3, <1>4, <1>5, RunsTelling
<1> QED BY <1>1, <1>2, <1>6, LeaveKeepsInv

LEMMA DropKeepsInv ==
  ASSUME LedgerInv, NEW r \in Requests, Drop(r)
  PROVE  LedgerInv' /\ said' = said
<1>1. up /\ Leave(r) /\ UNCHANGED <<disk, faults, process, history>>
  BY DEF Drop, In
<1>2. Runs /\ Upholds(memory)'
  BY <1>1, RunsStill
<1> QED BY <1>1, <1>2, LeaveKeepsInv DEF history

LEMMA HandleStatusKeepsInv ==
  ASSUME LedgerInv, NEW k \in Keys, HandleStatus(k)
  PROVE  LedgerInv' /\ [A!Next]_said
<1>1. /\ up /\ memory.debits[k] # NoEntry /\ UNCHANGED <<disk, faults, process>> /\ request' = request
      /\ said' = [said EXCEPT ![k] = memory.debits[k].answer] /\ passed' = passed /\ barred' = barred
  BY DEF HandleStatus
<1>2. 0 \in 0..MaxFence /\ 0 <= memory.fences[k[1]]
  BY MemoryTypes, LedgerMaxFenceAssumption DEF LedgerInv
<1>3. Runs /\ Upholds(memory)' /\ [A!Next]_said
  BY <1>1, <1>2, RunsTelling
<1> QED BY <1>1, <1>3, RunsKeepsInv

LEMMA RevokeKeepsInv ==
  ASSUME LedgerInv, NEW c \in Cycles, Revoke(c)
  PROVE  LedgerInv' /\ said' = said
<1> DEFINE line == RevokeLine(c)
<1>1. up /\ UNCHANGED <<up, faults, request, said, passed>>
  BY DEF Revoke
<1>2. /\ memory \in Memory /\ barred \subseteq Cycles /\ Upholds(memory) /\ file \in Seq(Line)
      /\ \A d \in Cycles : memory.fences[d] \in Nat /\ passed[d] <= passed[d]
  BY <1>1, MemoryTypes DEF LedgerInv, TypeOK, Behind
<1>3. line \in Line /\ line.kind = "revoke" /\ line.cycle = c
  BY MadeLines DEF RevokeLine
<1>4. Runs /\ Upholds(memory)'
  <2>1. CASE c \in memory.revoked /\ barred' = barred \cup {c} /\ UNCHANGED <<disk, memory>>
    <3>1. UNCHANGED <<file, ended, synced, memory>>
      BY <2>1 DEF disk
    <3>2. Upholds(memory)'
      BY <1>1, <1>2, <2>1, <3>1 DEF Upholds
    <3>3. Includes(memory, memory)
      BY <1>2 DEF Includes
    <3> QED BY <1>1, <1>2, <2>1, <3>1, <3>2, <3>3, MemoryTypes
            DEF Runs, LedgerInv, TypeOK, Behind, DiskTyped
  <2>2. CASE WriteFails(line) /\ UNCHANGED <<barred, memory>>
    BY <1>1, <1>2, <1>3, <2>2, RunsWriting
  <2>3. CASE /\ Write(line) /\ barred' = barred \cup {c}
             /\ memory' = [memory EXCEPT !.revoked = @ \cup {c}]
    <3> HIDE DEF line
    <3>1. /\ memory' \in Memory /\ memory'.fences = memory.fences /\ memory'.debits = memory.debits
          /\ memory'.revoked = memory.revoked \cup {c}
      BY <1>2, <2>3 DEF Memory
    <3>2. Includes(memory', memory)
      BY <1>2, <3>1 DEF Includes
    <3>3. ASSUME Includes(Replay(file), memory)
          PROVE  Includes(Replay(Append(file, line)), memory')
      <4>1. Includes(Replay(Append(file, line)), memory)
        BY <1>2, <1>3, <3>3, AppendIncludes
      <4>2. c \in Replay(Append(file, line)).revoked
        BY <1>2, <1>3, AppendToRevoked
      <4> QED BY <3>1, <4>1, <4>2 DEF Includes
    <3>4. barred' \subseteq memory'.revoked /\ barred \subseteq barred' /\ barred' \subseteq Cycles
      BY <1>2, <2>3, <3>1 DEF Upholds
    <3> QED BY <1>1, <1>2, <1>3, <2>3, <3>1, <3>2, <3>3, <3>4, RunsWriting
  <2> QED BY <2>1, <2>2, <2>3 DEF Revoke
<1> QED BY <1>1, <1>4, RunsKeepsInv

-----------------------------------------------------------------------------
(* Deaths and restarts.                                                    *)

(* What upholds the answers told still does when more is known.            *)
LEMMA UpholdsMore ==
  ASSUME TypeOK, NEW m \in Memory, NEW n \in Memory, Upholds(n), Includes(m, n)
  PROVE  Upholds(m)
<1>1. \A c \in Cycles : /\ passed[c] \in 0..MaxFence /\ m.fences[c] \in 0..MaxFence
                        /\ n.fences[c] \in 0..MaxFence
  BY DEF TypeOK, Memory
<1>2. \A c \in Cycles : passed[c] <= m.fences[c]
  BY <1>1, LedgerMaxFenceAssumption DEF Upholds, Includes
<1> QED BY <1>2 DEF Upholds, Includes

(* The bank is down, and what is on disk upholds what was told.            *)
LEMMA DownKeepsInv ==
  ASSUME LedgerInv, DiskTyped', up' = FALSE, memory' = Empty,
         faults' = faults, UNCHANGED history, faults = "power" => synced' = Len(file'),
         request' = [r \in Requests |-> Free],
         Readable(file') => Upholds(Replay(file'))
  PROVE  LedgerInv' /\ said' = said
<1>1. said' = said /\ passed' = passed /\ barred' = barred
  BY DEF history
<1>2. TypeOK'
  BY <1>1, EmptyIsNothing DEF LedgerInv, TypeOK, DiskTyped
<1>3. Behind'
  BY <1>1 DEF Behind, Upholds
<1> QED BY <1>1, <1>2, <1>3 DEF LedgerInv

LEMMA DieKeepsInv ==
  ASSUME LedgerInv, Die
  PROVE  LedgerInv' /\ said' = said
<1>1. /\ up /\ up' = FALSE /\ memory' = Empty /\ request' = [r \in Requests |-> Free]
      /\ faults = "errors" /\ UNCHANGED <<disk, faults, history>>
  BY DEF Die, Dead
<1>2. file' = file /\ DiskTyped /\ DiskTyped' /\ TypeOK /\ memory \in Memory
  BY <1>1, MemoryTypes DEF disk, DiskTyped, LedgerInv, TypeOK
<1>3. ASSUME Readable(file)
      PROVE  Upholds(Replay(file))
  <2>1. Includes(Replay(file), memory) /\ Upholds(memory)
    BY <1>1, <1>3 DEF LedgerInv, Behind
  <2>2. Replay(file) \in Memory
    BY <1>2, ReplayIsTyped DEF DiskTyped
  <2> QED BY <1>2, <2>1, <2>2, UpholdsMore
<1> QED BY <1>1, <1>2, <1>3, DownKeepsInv

(* What may be half written when the power fails.                          *)
LEMMA BeingWrittenIsNew ==
  ASSUME LedgerInv, up, NEW l \in BeingWritten
  PROVE  l \in Line /\ (l.kind = "debit" => memory.debits[l.key] = NoEntry)
<1>1. CASE \E r \in Requests : Raising(r) /\ l = FenceLine(Cy(r), request[r].fence)
  <2>1. PICK r \in Requests : Raising(r) /\ l = FenceLine(Cy(r), request[r].fence)
    BY <1>1
  <2>2. Cy(r) \in Cycles /\ request[r].fence \in 0..MaxFence
    BY <2>1, RequestAt DEF Raising, In
  <2>3. request[r].fence \in 1..MaxFence
    <3>1. memory.fences[Cy(r)] \in 0..MaxFence /\ 0..MaxFence \subseteq Nat
      BY <2>2, MemoryTypes DEF LedgerInv
    <3> QED BY <2>1, <2>2, <3>1 DEF Raising
  <2> QED BY <2>1, <2>2, <2>3, MadeLines DEF FenceLine
<1>2. CASE \E r \in Requests : /\ Committing(r)
                               /\ l = DebitLine(K(r), [hash |-> request[r].hash,
                                                       answer |-> request[r].answer])
  <2>1. PICK r \in Requests : /\ Committing(r)
                              /\ l = DebitLine(K(r), [hash |-> request[r].hash,
                                                      answer |-> request[r].answer])
    BY <1>2
  <2>2. K(r) \in Keys /\ request[r].hash \in Hashes /\ request[r].answer \in Answer
    BY <2>1, RequestAt DEF Committing, In, Handled
  <2>3. [hash |-> request[r].hash, answer |-> request[r].answer] \in Entry
    BY <2>2 DEF Entry
  <2>4. l.key = K(r) /\ memory.debits[K(r)] = NoEntry
    BY <2>1 DEF DebitLine, Committing
  <2> QED BY <2>1, <2>2, <2>3, <2>4, MadeLines
<1>3. CASE \E c \in Cycles : l = RevokeLine(c)
  BY <1>3, MadeLines DEF RevokeLine
<1> QED BY <1>1, <1>2, <1>3 DEF BeingWritten

LEMMA PowerFailsKeepsInv ==
  ASSUME LedgerInv, PowerFails
  PROVE  LedgerInv' /\ said' = said
<1>1. /\ up /\ up' = FALSE /\ memory' = Empty /\ request' = [r \in Requests |-> Free]
      /\ faults = "power" /\ UNCHANGED <<faults, history>> /\ synced' = Len(file')
  BY DEF PowerFails, Dead
<1>2. /\ DiskTyped /\ TypeOK /\ memory \in Memory /\ synced = Len(file) /\ Upholds(memory)
      /\ Readable(file) => Includes(Replay(file), memory)
      /\ \A c \in Cycles : memory.fences[c] \in Nat
  BY <1>1, MemoryTypes DEF LedgerInv, TypeOK, Behind
<1>3. /\ file' \in Seq(Line) /\ ended' \in BOOLEAN
      /\ Readable(file') => Includes(Replay(file'), memory)
  <2>1. CASE \E line \in BeingWritten : PartlyWritten(line)
    <3>1. PICK line \in BeingWritten : PartlyWritten(line)
      BY <2>1
    <3>2. line \in Line /\ (line.kind = "debit" => memory.debits[line.key] = NoEntry)
      BY <1>1, BeingWrittenIsNew
    <3>3. /\ file' \in Seq(Line) /\ ended' \in BOOLEAN
          /\ Readable(file') => Readable(file) /\ file' \in {file, Append(file, line)}
      BY <1>2, <3>1, <3>2, WritesPart
    <3>4. file \in Seq(Line)
      BY <1>2 DEF DiskTyped
    <3> QED BY <1>2, <3>2, <3>3, <3>4, AppendIncludes
  <2>2. CASE \E n \in synced..Len(file) : file' = SubSeq(file, 1, n) /\ ended' = ended
    <3>1. file \in Seq(Line) /\ Len(file) \in Nat /\ ended \in BOOLEAN
      BY <1>2 DEF DiskTyped
    <3>2. file' = SubSeq(file, 1, Len(file)) /\ ended' = ended
      BY <1>2, <2>2, <3>1
    <3>3. SubSeq(file, 1, Len(file)) = file
      BY <3>1
    <3> QED BY <1>2, <3>1, <3>2, <3>3
  <2> QED BY <2>1, <2>2 DEF PowerFails
<1>4. DiskTyped'
  <2>1. Len(file') \in Nat
    BY <1>3
  <2> QED BY <1>1, <1>3, <2>1 DEF DiskTyped
<1>5. ASSUME Readable(file')
      PROVE  Upholds(Replay(file'))
  <2>1. PICK m \in Memory : m = Replay(file')
    BY <1>3, ReplayIsTyped
  <2> QED BY <1>2, <1>3, <1>5, <2>1, UpholdsMore
<1> QED BY <1>1, <1>4, <1>5, DownKeepsInv

(* The bank starts again with what its file replays to; a file that says   *)
(* nothing is given a header first, and that write may fail.               *)
LEMMA OpenLedgerKeepsInv ==
  ASSUME LedgerInv, OpenLedger
  PROVE  LedgerInv' /\ said' = said
<1>1. /\ ~up /\ Readable(file) /\ UNCHANGED <<faults, request, history>>
      /\ said' = said /\ passed' = passed /\ barred' = barred
  BY DEF OpenLedger, history
<1>2. /\ DiskTyped /\ TypeOK /\ memory = Empty /\ file \in Seq(Line)
      /\ faults = "power" => synced = Len(file)
      /\ Replay(file) \in Memory /\ Upholds(Replay(file))
  BY <1>1, MemoryTypes, ReplayIsTyped DEF LedgerInv, Behind, DiskTyped
<1>3. request = [r \in Requests |-> Free]
  BY <1>1 DEF LedgerInv, TypeOK, Behind
<1>4. \A m \in Memory : Includes(m, Empty)
  <2>1. \A m \in Memory : \A c \in Cycles : m.fences[c] \in Nat
    BY LedgerMaxFenceAssumption DEF Memory
  <2> QED BY <2>1, EmptyIsNothing DEF Includes
<1>5. ASSUME NEW m \in Memory, DiskTyped', up' = TRUE, memory' = m, Upholds(m),
             Readable(file') => Includes(Replay(file'), m),
             faults = "power" => synced' = Len(file')
      PROVE  LedgerInv'
  <2>1. TypeOK'
    BY <1>1, <1>2, <1>5 DEF TypeOK, DiskTyped
  <2>2. Behind'
    <3>1. Upholds(memory)'
      BY <1>1, <1>5 DEF Upholds
    <3>2. \A r \in Requests : request'[r] = Free
      BY <1>1, <1>3
    <3> QED BY <1>1, <1>5, <3>1, <3>2 DEF Behind
  <2> QED BY <2>1, <2>2 DEF LedgerInv
<1>6. CASE UNCHANGED disk /\ up' = TRUE /\ memory' = Replay(file)
  <2>1. file' = file /\ DiskTyped' /\ (faults = "power" => synced' = Len(file'))
    BY <1>2, <1>6 DEF disk, DiskTyped
  <2>2. Includes(Replay(file), Replay(file))
    BY <1>2, FencesAreTyped, LedgerMaxFenceAssumption DEF Includes
  <2>3. PICK m \in Memory : m = Replay(file)
    BY <1>2
  <2> QED BY <1>1, <1>2, <1>5, <1>6, <2>1, <2>2, <2>3
<1>7. CASE Replay(file) = Empty /\ UNCHANGED memory /\ Write(Header) /\ up' = TRUE
  <2>1. DiskTyped' /\ synced' = Len(file')
    BY <1>2, <1>7, MadeLines, Writes
  <2>2. Includes(Replay(file'), Empty)
    <3>1. file' \in Seq(Line)
      BY <2>1 DEF DiskTyped
    <3> QED BY <1>4, <3>1, ReplayIsTyped
  <2>3. PICK m \in Memory : m = Empty
    BY EmptyIsNothing
  <2> QED BY <1>1, <1>2, <1>5, <1>7, <2>1, <2>2, <2>3
<1>8. CASE Replay(file) = Empty /\ UNCHANGED memory /\ WriteFails(Header) /\ UNCHANGED up
  <2>1. /\ DiskTyped' /\ faults = "errors"
        /\ Readable(file') => file' \in {file, Append(file, Header)}
    BY <1>2, <1>8, MadeLines, WriteFailing
  <2>2. ASSUME Readable(file')
        PROVE  Upholds(Replay(file'))
    <3>1. Replay(file') \in Memory
      BY <2>1, ReplayIsTyped DEF DiskTyped
    <3> QED BY <1>2, <1>4, <1>8, <3>1, EmptyIsNothing, UpholdsMore
  <2>3. up' = FALSE
    BY <1>1, <1>2, <1>8 DEF TypeOK
  <2> QED BY <1>1, <1>2, <1>3, <1>8, <2>1, <2>2, <2>3, DownKeepsInv
<1> QED BY <1>1, <1>6, <1>7, <1>8 DEF OpenLedger

-----------------------------------------------------------------------------
LEMMA InitIsBehind ==
  ASSUME Init
  PROVE  LedgerInv
<1> DEFINE f == <<Header>>
<1>1. /\ f \in Seq(Line) /\ Len(f) = 1 /\ DOMAIN f = {1} /\ f[1] = Header /\ Header # Garbage
      /\ file = f /\ ended = TRUE /\ synced = 1 /\ faults \in {"errors", "power"}
      /\ up = TRUE /\ memory = Empty /\ request = [r \in Requests |-> Free]
      /\ said = [k \in Keys |-> NoAnswer] /\ passed = [c \in Cycles |-> 0] /\ barred = {}
  BY MadeLines DEF Init, Header, Garbage
<1> HIDE DEF f
<1>2. 0 \in 0..MaxFence /\ Empty \in Memory
  BY EmptyIsNothing, LedgerMaxFenceAssumption
<1>3. TypeOK
  <2>1. synced \in 0..Len(file) /\ file \in Seq(Line)
    <3>1. 1 \in 0..1 /\ synced = 1 /\ Len(file) = 1
      BY <1>1
    <3> QED BY <1>1, <3>1
  <2>2. Free \in Request \cup {Free} /\ NoAnswer \in Answer \cup {NoAnswer}
    OBVIOUS
  <2> QED BY <1>1, <1>2, <2>1, <2>2 DEF TypeOK
<1>4. Upholds(memory)
  BY <1>1, <1>2, EmptyIsNothing DEF Upholds
<1>5. Includes(Replay(f), Empty)
  <2>1. Replay(f) \in Memory
    BY <1>1, ReplayIsTyped
  <2>2. \A c \in Cycles : 0 <= Replay(f).fences[c]
    BY <2>1, LedgerMaxFenceAssumption DEF Memory
  <2> QED BY <2>2, EmptyIsNothing DEF Includes
<1>6. Behind
  BY <1>1, <1>4, <1>5 DEF Behind
<1> QED BY <1>3, <1>6 DEF LedgerInv

LEMMA NextKeepsInv ==
  ASSUME LedgerInv, [Next]_vars
  PROVE  LedgerInv' /\ [A!Next]_said
<1>1. CASE OpenLedger \/ Die \/ PowerFails
  BY <1>1, OpenLedgerKeepsInv, DieKeepsInv, PowerFailsKeepsInv
<1>2. CASE \E r \in Requests : HandleDebit(r)
  <2>1. PICK r \in Requests : HandleDebit(r)
    BY <1>2
  <2>2. CASE \E k \in Keys : \E h \in Hashes : \E f \in 1..MaxFence : Arrive(r, k, h, f)
    BY <2>2, ArriveKeepsInv
  <2>3. CASE AdmitFence(r) \/ Drop(r)
    BY <2>3, AdmitFenceKeepsInv, DropKeepsInv
  <2>4. CASE Decide(r) \/ Commit(r) \/ Reply(r)
    BY <2>4, DecideKeepsInv, CommitKeepsInv, ReplyKeepsInv
  <2> QED BY <2>1, <2>2, <2>3, <2>4 DEF HandleDebit
<1>3. CASE \E k \in Keys : HandleStatus(k)
  BY <1>3, HandleStatusKeepsInv
<1>4. CASE \E c \in Cycles : Revoke(c)
  BY <1>4, RevokeKeepsInv
<1>5. CASE UNCHANGED vars
  <2>1. /\ UNCHANGED <<file, ended, synced, faults, up, memory, request, said, passed, barred>>
    BY <1>5 DEF vars, disk, process, history
  <2>2. TypeOK'
    BY <2>1 DEF LedgerInv, TypeOK
  <2>3. Behind'
    BY <2>1 DEF LedgerInv, Behind, Upholds, Handled
  <2> QED BY <2>1, <2>2, <2>3 DEF LedgerInv
<1> QED BY <1>1, <1>2, <1>3, <1>4, <1>5 DEF Next

(* The file stays behind memory, and memory behind what was told.          *)
THEOREM LedgerInvariant == Spec => []LedgerInv
<1>1. Init => LedgerInv
  BY InitIsBehind
<1>2. LedgerInv /\ [Next]_vars => LedgerInv'
  BY NextKeepsInv
<1> QED BY <1>1, <1>2, PTL DEF Spec

(* The lines, maps and requests of the ledger keep their types.            *)
THEOREM LedgerTypeOK == Spec => []TypeOK
<1>1. LedgerInv => TypeOK
  BY DEF LedgerInv
<1> QED BY <1>1, LedgerInvariant, PTL

(* Memory as rebuilt from the file has every debit, fence and revocation   *)
(* that memory has now (OpenLedger after any death, ledger.go).            *)
THEOREM RestartRemembers == Spec => []RestartForgetsNothing
<1>1. LedgerInv => RestartForgetsNothing
  BY DEF LedgerInv, Behind, Includes, RestartForgetsNothing
<1> QED BY <1>1, LedgerInvariant, PTL

(* A fence below one already answered is never admitted (AdmitFence).      *)
THEOREM StaleFencesStayOut == Spec => []StaleFenceStaysOut
<1>1. LedgerInv => StaleFenceStaysOut
  <2>1. SUFFICES ASSUME LedgerInv, NEW r \in Requests, request[r].pc \notin {"free", "arrived"}
                 PROVE  request[r].fence >= request[r].floor
    BY DEF StaleFenceStaysOut
  <2>2. request[r] # Free
    BY <2>1 DEF Free
  <2>3. request[r] \in Request /\ Handled(request[r])
    BY <2>1, <2>2 DEF LedgerInv, TypeOK, Behind
  <2>4. request[r].fence \in Nat /\ request[r].floor \in Nat
    BY <2>3, LedgerMaxFenceAssumption DEF Request
  <2> QED BY <2>1, <2>3, <2>4 DEF Handled
<1> QED BY <1>1, LedgerInvariant, PTL

(* No debit goes through once the revocation of its mandate was            *)
(* acknowledged (handleInject, Decide).                                    *)
THEOREM RevocationsHold == Spec => []RevocationHolds
<1>1. LedgerInv => RevocationHolds
  <2>1. SUFFICES ASSUME LedgerInv, NEW r \in Requests
                 PROVE  request[r].pc \in {"decided", "committed"} /\ request[r].late
                          => request[r].answer = "MANDATE_REVOKED"
    BY DEF RevocationHolds
  <2>2. request[r].pc \in {"decided", "committed"} => Handled(request[r])
    BY <2>1 DEF LedgerInv, Behind, Free
  <2> QED BY <2>2 DEF Handled
<1> QED BY <1>1, LedgerInvariant, PTL

(* The ledger keeps its promise: one answer for each key, ever, through    *)
(* replays, overtaken requests, failed writes and deaths.                  *)
THEOREM LedgerImplementsAnswers == Spec => AnswersSpec
<1>1. Init => A!Init
  BY DEF Init, A!Init
<1>2. LedgerInv /\ [Next]_vars => [A!Next]_said
  BY NextKeepsInv
<1> QED BY <1>1, <1>2, LedgerInvariant, PTL DEF Spec, AnswersSpec, A!Spec
=============================================================================
