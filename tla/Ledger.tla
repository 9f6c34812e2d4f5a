------------------------------- MODULE Ledger -------------------------------
(***************************************************************************)
(* The bank's ledger (internal/provider/ledger.go) under the requests that *)
(* use it (sim.go): a file of lines, each written and synced before memory *)
(* says so, and memory rebuilt from the file after a death.  Each call of  *)
(* the ledger holds its mutex, so it is one step; requests interleave      *)
(* between calls.  Bank.tla takes from here that an answer, once given,    *)
(* stays, and that an admitted fence is never forgotten.                   *)
(***************************************************************************)
EXTENDS Integers, Sequences, FiniteSetsExt

CONSTANTS
  Cycles, Seqs,   (* an idempotency key is <<cycle, seq>>                   *)
  Hashes,         (* request hashes: what else a request may ask for        *)
  MaxFence,
  Requests,       (* POST /debit requests handled at a time                 *)
  MaxLines        (* bound: lines of the file                               *)

ASSUME LedgerMaxFenceAssumption == MaxFence \in Nat

VARIABLES
  file,     (* the lines of the file, header lines included                *)
  ended,    (* whether the last line has its newline                       *)
  synced,   (* how many lines are sure to survive a power failure          *)
  faults,   (* "errors": writes fail and the process dies; "power": the    *)
            (* power fails                                                 *)
  up,       (* whether the bank is running                                 *)
  memory,   (* the maps of Ledger, empty while it is down                  *)
  request,  (* the requests being handled                                  *)
  said,     (* history: the answer made known under each key               *)
  passed,   (* history: highest fence of a request that was answered       *)
  barred    (* history: cycles whose revocation was acknowledged           *)

disk    == <<file, ended, synced>>
history == <<said, passed, barred>>
process == <<up, memory>>
vars    == <<disk, faults, process, request, history>>

Keys     == Cycles \X Seqs
Answer   == {"paid", "declined", "MANDATE_REVOKED"}
NoAnswer == "none"

Entry   == [hash: Hashes, answer: Answer]
NoEntry == [hash |-> "none", answer |-> NoAnswer]

DebitLine(k, e)  == [kind |-> "debit", key |-> k, entry |-> e]
FenceLine(c, f)  == [kind |-> "fence", cycle |-> c, fence |-> f]
RevokeLine(c)    == [kind |-> "revoke", cycle |-> c]
Header           == [kind |-> "header"]
Garbage          == [kind |-> "garbage"]   \* a line json.Unmarshal refuses

Line == [kind: {"debit"}, key: Keys, entry: Entry]
          \cup [kind: {"fence"}, cycle: Cycles, fence: 1..MaxFence]
          \cup [kind: {"revoke"}, cycle: Cycles] \cup {Header, Garbage}

Memory  == [debits: [Keys -> Entry \cup {NoEntry}], fences: [Cycles -> 0..MaxFence],
            revoked: SUBSET Cycles]

Free    == [pc |-> "free"]
Request == [pc: {"arrived", "admitted", "decided", "committed"},
            key: Keys, hash: Hashes, fence: 0..MaxFence,
            answer: Answer \cup {NoAnswer},
            floor: 0..MaxFence,    \* history: passed[cycle] on arrival
            late: BOOLEAN]         \* history: the cycle was barred on arrival

-----------------------------------------------------------------------------
(* Replay.                                                                 *)

Readable(f) == \A i \in DOMAIN f : f[i] # Garbage

DebitsOf(f, k) == {i \in DOMAIN f : f[i].kind = "debit" /\ f[i].key = k}

(* Mutated: the first line of a key wins.                                   *)
FirstEntry(f, k) ==
  IF DebitsOf(f, k) = {} THEN NoEntry ELSE f[Min(DebitsOf(f, k))].entry

(* The last line of a key wins.                                            *)
LastEntry(f, k) ==
  IF DebitsOf(f, k) = {} THEN NoEntry ELSE f[Max(DebitsOf(f, k))].entry

FencesOf(f, c) == {f[i].fence : i \in {j \in DOMAIN f : f[j].kind = "fence" /\ f[j].cycle = c}}

(* Mutated: the highest fence seen is taken for one to hand out next.      *)
ReplayNextFence(f) ==
  [debits  |-> [k \in Keys |-> LastEntry(f, k)],
   fences  |-> [c \in Cycles |-> 1 + Max({0} \cup FencesOf(f, c))],
   revoked |-> {c \in Cycles : \E i \in DOMAIN f : f[i] = RevokeLine(c)}]

Replay(f) ==
  [debits  |-> [k \in Keys |-> LastEntry(f, k)],
   fences  |-> [c \in Cycles |-> Max({0} \cup FencesOf(f, c))],
   revoked |-> {c \in Cycles : \E i \in DOMAIN f : f[i] = RevokeLine(c)}]

Empty == Replay(<<>>)

-----------------------------------------------------------------------------
(* Ledger.write: the line and its newline in one write, then a sync.       *)

(* What follows an unended line becomes part of it.                        *)
With(line) ==
  IF ended THEN Append(file, line) ELSE Append(SubSeq(file, 1, Len(file) - 1), Garbage)

(* Mutated: the file is not synced.                                        *)
WriteUnsynced(line) ==
  /\ Len(file) < MaxLines
  /\ file' = With(line) /\ ended' = TRUE /\ UNCHANGED synced

Write(line) ==
  /\ Len(file) < MaxLines
  /\ file' = With(line) /\ ended' = TRUE /\ synced' = Len(file')

(* The write stops somewhere, or the sync fails: nothing, a part, all but  *)
(* the newline, or everything is in the file.                              *)
PartlyWritten(line) ==
  /\ Len(file) < MaxLines
  /\ \/ file' = file /\ ended' = ended
     \/ file' = With(Garbage) /\ ended' = FALSE
     \/ file' = With(line) /\ ended' \in BOOLEAN

WriteFails(line) == faults = "errors" /\ PartlyWritten(line) /\ UNCHANGED synced

-----------------------------------------------------------------------------
(* OpenLedger: an empty ledger is given a header, another one each time.   *)
(* The seed is the configuration's and stays the same.                     *)

Init ==
  /\ file = <<Header>> /\ ended = TRUE /\ synced = 1
  /\ faults \in {"errors", "power"}
  /\ up = TRUE /\ memory = Empty
  /\ request = [r \in Requests |-> Free]
  /\ said = [k \in Keys |-> NoAnswer]
  /\ passed = [c \in Cycles |-> 0]
  /\ barred = {}

OpenLedger ==
  /\ ~up /\ Readable(file)
  /\ \/ /\ Replay(file) # Empty /\ UNCHANGED disk
        /\ up' = TRUE /\ memory' = Replay(file)
     \/ /\ Replay(file) = Empty /\ UNCHANGED memory
        /\ (Write(Header) /\ up' = TRUE) \/ (WriteFails(Header) /\ UNCHANGED up)
  /\ UNCHANGED <<faults, request, history>>

-----------------------------------------------------------------------------
(* handleDebit.                                                            *)

In(r, pc)  == up /\ request[r].pc = pc
K(r)       == request[r].key
Cy(r)      == request[r].key[1]
Go(r, pc)  == request' = [request EXCEPT ![r].pc = pc]
Leave(r)   == request' = [request EXCEPT ![r] = Free]

Arrive(r, k, h, f) ==
  /\ In(r, "free")
  /\ request' = [request EXCEPT ![r] =
       [pc |-> "arrived", key |-> k, hash |-> h, fence |-> f, answer |-> NoAnswer,
        floor |-> passed[k[1]], late |-> k[1] \in barred]]
  /\ UNCHANGED <<disk, faults, process, history>>

(* Mutated: the highest fence is raised in memory alone.                   *)
AdmitInMemory(r) ==
  /\ In(r, "arrived")
  /\ IF request[r].fence < memory.fences[Cy(r)] THEN Leave(r) /\ UNCHANGED memory
     ELSE Go(r, "admitted") /\ memory' = [memory EXCEPT !.fences[Cy(r)] = request[r].fence]
  /\ UNCHANGED <<up, disk, faults, history>>

(* A fence above the highest is written first; one below it is refused.    *)
AdmitFence(r) ==
  /\ In(r, "arrived")
  /\ LET fence == request[r].fence
         line  == FenceLine(Cy(r), fence)
     IN  \/ fence < memory.fences[Cy(r)] /\ Leave(r) /\ UNCHANGED <<disk, memory>>
         \/ fence = memory.fences[Cy(r)] /\ Go(r, "admitted") /\ UNCHANGED <<disk, memory>>
         \/ /\ fence > memory.fences[Cy(r)]
            /\ \/ /\ Write(line) /\ Go(r, "admitted")
                  /\ memory' = [memory EXCEPT !.fences[Cy(r)] = fence]
               \/ WriteFails(line) /\ Leave(r) /\ UNCHANGED memory
  /\ UNCHANGED <<up, faults, history>>

(* A response with the answer leaves for the caller.                       *)
Tell(k, answer, fence) ==
  /\ said' = [said EXCEPT ![k] = answer]
  /\ passed' = [passed EXCEPT ![k[1]] = Max({@, fence})]
  /\ UNCHANGED barred

(* The entry found is returned if it was made for the same request.        *)
Replayed(r, entry) ==
  /\ IF entry.hash = request[r].hash
       THEN Tell(K(r), entry.answer, request[r].fence) ELSE UNCHANGED history
  /\ Leave(r)

(* Lookup; then Decide asks for the mandate first, and the rest depends on *)
(* balance and chance.  Nothing the two read is written by the same call,  *)
(* so they are one step.                                                   *)
Decide(r) ==
  /\ In(r, "admitted")
  /\ LET entry   == memory.debits[K(r)]
         answers == IF Cy(r) \in memory.revoked THEN {"MANDATE_REVOKED"} ELSE {"paid", "declined"}
     IN  \/ entry # NoEntry /\ Replayed(r, entry)
         \/ /\ entry = NoEntry /\ UNCHANGED history
            /\ \E answer \in answers :
                 request' = [request EXCEPT ![r].answer = answer, ![r].pc = "decided"]
  /\ UNCHANGED <<disk, faults, process>>

(* A request that was overtaken under its key returns what the other one   *)
(* committed.                                                              *)
Commit(r) ==
  /\ In(r, "decided")
  /\ LET prior == memory.debits[K(r)]
         entry == [hash |-> request[r].hash, answer |-> request[r].answer]
         line  == DebitLine(K(r), entry)
     IN  \/ prior # NoEntry /\ Replayed(r, prior) /\ UNCHANGED <<disk, memory>>
         \/ /\ prior = NoEntry /\ UNCHANGED history
            /\ \/ /\ Write(line) /\ Go(r, "committed")
                  /\ memory' = [memory EXCEPT !.debits[K(r)] = entry]
               \/ WriteFails(line) /\ Leave(r) /\ UNCHANGED memory
  /\ UNCHANGED <<up, faults>>

Reply(r) ==
  /\ In(r, "committed")
  /\ Tell(K(r), request[r].answer, request[r].fence)
  /\ Leave(r)
  /\ UNCHANGED <<disk, faults, process>>

(* An injected fault drops the connection before or after the commit.      *)
Drop(r) ==
  /\ In(r, "decided") \/ In(r, "committed")
  /\ Leave(r)
  /\ UNCHANGED <<disk, faults, process, history>>

HandleDebit(r) ==
  \/ \E k \in Keys : \E h \in Hashes : \E f \in 1..MaxFence : Arrive(r, k, h, f)
  \/ AdmitFence(r) \/ Decide(r) \/ Commit(r) \/ Reply(r) \/ Drop(r)

(* GET /status, with an answer.                                            *)
HandleStatus(k) ==
  /\ up /\ memory.debits[k] # NoEntry
  /\ said' = [said EXCEPT ![k] = memory.debits[k].answer]
  /\ UNCHANGED <<disk, faults, process, request, passed, barred>>

(* Mutated: acknowledged from memory alone.                                *)
RevokeInMemory(c) ==
  /\ up
  /\ memory' = [memory EXCEPT !.revoked = @ \cup {c}]
  /\ barred' = barred \cup {c}
  /\ UNCHANGED <<up, disk, faults, request, said, passed>>

(* POST /inject of revokeMandate.                                          *)
Revoke(c) ==
  /\ up
  /\ \/ c \in memory.revoked /\ barred' = barred \cup {c} /\ UNCHANGED <<disk, memory>>
     \/ /\ c \notin memory.revoked
        /\ \/ /\ Write(RevokeLine(c)) /\ barred' = barred \cup {c}
              /\ memory' = [memory EXCEPT !.revoked = @ \cup {c}]
           \/ WriteFails(RevokeLine(c)) /\ UNCHANGED <<barred, memory>>
  /\ UNCHANGED <<up, faults, request, said, passed>>

-----------------------------------------------------------------------------
(* Deaths.  A death in the middle of a write is one that follows a write   *)
(* that failed, for a process; a power failure also takes what was not     *)
(* synced.                                                                 *)

Dead == up' = FALSE /\ memory' = Empty /\ request' = [r \in Requests |-> Free]

Die ==
  /\ faults = "errors" /\ up /\ Dead
  /\ UNCHANGED <<disk, faults, history>>

Raising(r)    == request[r].pc = "arrived" /\ request[r].fence > memory.fences[Cy(r)]
Committing(r) == request[r].pc = "decided" /\ memory.debits[K(r)] = NoEntry
BeingWritten ==
  {FenceLine(Cy(r), request[r].fence) : r \in {q \in Requests : Raising(q)}}
    \cup {DebitLine(K(r), [hash |-> request[r].hash, answer |-> request[r].answer]) :
            r \in {q \in Requests : Committing(q)}}
    \cup {RevokeLine(c) : c \in Cycles \ memory.revoked}

PowerFails ==
  /\ faults = "power" /\ up /\ Dead
  /\ \/ \E line \in BeingWritten : PartlyWritten(line)
     \/ \E n \in synced..Len(file) : file' = SubSeq(file, 1, n) /\ ended' = ended
  /\ synced' = Len(file')
  /\ UNCHANGED <<faults, history>>

Next ==
  \/ OpenLedger \/ Die \/ PowerFails
  \/ \E r \in Requests : HandleDebit(r)
  \/ \E k \in Keys : HandleStatus(k)
  \/ \E c \in Cycles : Revoke(c)

Spec == Init /\ [][Next]_vars

-----------------------------------------------------------------------------
TypeOK ==
  /\ file \in Seq(Line) /\ ended \in BOOLEAN /\ synced \in 0..Len(file)
  /\ faults \in {"errors", "power"}
  /\ up \in BOOLEAN /\ memory \in Memory
  /\ request \in [Requests -> Request \cup {Free}]
  /\ said \in [Keys -> Answer \cup {NoAnswer}]
  /\ passed \in [Cycles -> 0..MaxFence]
  /\ barred \subseteq Cycles

(* A restart forgets nothing: what memory holds, the file replays to.  The *)
(* file may know of more, a debit whose caller was told of an error.  Only *)
(* a line run together with an unended one is lost, and then the ledger    *)
(* refuses to open.                                                        *)
RestartForgetsNothing ==
  up /\ Readable(file) =>
    LET restarted == Replay(file)
    IN  /\ \A k \in Keys : memory.debits[k] # NoEntry => restarted.debits[k] = memory.debits[k]
        /\ \A c \in Cycles : memory.fences[c] <= restarted.fences[c]
        /\ memory.revoked \subseteq restarted.revoked

(* A request that arrives after one with a higher fence was answered is    *)
(* never admitted, whatever died in between.                               *)
StaleFenceStaysOut ==
  \A r \in Requests : request[r].pc \notin {"free", "arrived"} => request[r].fence >= request[r].floor

(* A request that arrives after a revocation was acknowledged never debits *)
(* the account, whatever died in between.                                  *)
RevocationHolds ==
  \A r \in Requests :
    request[r].pc \in {"decided", "committed"} /\ request[r].late
      => request[r].answer = "MANDATE_REVOKED"

(* Every answer made known, by POST /debit or GET /status, is the one and  *)
(* only answer under its key, across failed writes, retries and restarts.  *)
A == INSTANCE Answers
AnswersSpec == A!Spec
=============================================================================
