# Quiescent in TLA+

Quiescent recovers failed UPI AutoPay mandates: it schedules at most four debit
attempts for a mandate cycle, sends the pre-debit notice each of them needs,
fires them at a bank, and finds out what happened when an answer is lost. These
modules model that program: the store its processes share, the processes and
their poll loops, the bank with its ledger file and the way it decides, the
arithmetic that chooses when a debit is attempted, the client of the language
model, and the measurement of retry policies. TLC checks them on small instances; TLAPS proves the
statements listed under *Proofs* for every value of the constants.

Every definition follows the source. Where the text says what a line does, the
line is in `src/` at the commit modelled, and `PROJECT.json` maps each
definition to its lines.

## 1. The system

| Part | Source | State it keeps | Operations | What makes it correct |
|---|---|---|---|---|
| Store | `internal/store`, migrations 1 and 3 | `mandate_cycles`, `attempts`, `outbox`, `leases`, `balance_triggers` | one SQL transaction each | the cached `attempts_used` agrees with the rows; a refund is made once and never lost |
| Claim loop | `internal/execute`, `internal/lease`, `cmd/quiescent/worker.go` | none of its own (locals of `FireOne`) | due list → stale check → lease → notice gate → mark fired → debit → record → advance | write-ahead; one debit per cycle; no debit without a notice; no cycle lost |
| Reconcile loop | `internal/reconcile` | locals of `Resolve` | list → lease → polls → settle, or hold | what is recorded is what the bank did |
| Outbox relay | `internal/outbox` | locals of `ProcessOne` | list → send → mark delivered, or cancel the attempt | a late notice cancels rather than warns late |
| Scheduler | `internal/schedule`, `cmd/quiescent/scheduler.go` | locals of `ScheduleNext` | read cycle → plan → reserve against the version read | never two open attempts; a customer short of funds is asked first |
| Customer's answer | `cmd/quiescent/respond.go` | `balance_triggers` | answer the latest open question | an answer is used for the attempt it was asked for |
| Solver, windows | `internal/solve`, `internal/domain/window.go` | none | `First`, `Next`, `AfterConfirmation` | no instant inside a blocked window, none without 24 h 15 min of lead |
| Predictor | `internal/predict` | none | vote over past successes | an hour of the day, or none; it never moves a retry to another day |
| Bank | `internal/provider` (`sim`, `ledger`, `inject`) | ledger file; its copy in memory: answers, highest fence per cycle, revocations | debit, status, inject | first answer under a key stays, across failed writes and restarts; older fences and revoked mandates are refused |
| Bank's decision | `internal/provider` (`outcome`, `world`, `oracle`) | seed, customers | decide, tell the probabilities | what the oracle tells is what the bank does |
| Classifier | `internal/classify` | table | code → class | a hard decline is not retryable |
| Model client | `internal/intelligence` | slots, line of waiting callers, circuit breaker | propose, advise, narrate | a model that hangs holds nobody up for long; a model is never trusted below its threshold |
| Verifier | `internal/verify`, `internal/store/invariants.go` | none | six read-only queries | no false alarm, no blind spot |
| Harness | `internal/harness` | hours of past successes | three policies over the same cycles | nobody is luckier; the oracle is the upper bound |
| Command line, audit, stats, history, seeding | `cmd/quiescent/*`, `internal/store/audit.go`, … | audit log | printing, inserts, reports | no decision reads them but the success history |

The processes share nothing but Postgres and the bank. A *worker* runs the
claim, reconcile and relay loops in three goroutines; any number of workers and
schedulers run. They exclude one another by rows: the lease of a cycle (a fence
that grows, 30 s long), the version of a cycle (compared by `ReserveAttempt`),
and the `WHERE` clauses of the guarded updates (`fired_at IS NULL`,
`outcome IS NULL`, …). The bank learns of a debit by one HTTP call which may be
lost, refused, or answered after the caller gave up.

What is hard here:

* **Interleaving.** `FireOne` is seven separate store and bank calls. A worker
  may be stalled between any two of them while another abandons the attempt
  (`execute.go:55`, without the lease), the relay cancels it, the reconciler
  settles it, and the scheduler replaces it.
* **Crashes.** The answer is recorded and the cycle advanced in two
  transactions (`execute.go:126`, `:129`); the row is marked fired before the
  request leaves (`:101`).
* **Lost and late answers.** A timeout is recorded while the request may still
  be on its way; the reconciler polls until the bank knows the key, or gives up.
* **Deadlines.** The notice needs 24 hours before the debit, the relay 15
  minutes before that, the claim is good for ten minutes, two windows of the
  day are closed, and a balance question lapses after twenty hours.
* **Pages.** Each tick reads one page of a list, oldest first, cut at
  `WORKER_BATCH`. Rows that stay on a list for ever keep others off it.
* **A file.** The bank's memory is rebuilt from lines that may be written in
  part, or be whole though their sync failed.
* **Waiting.** Callers of the model queue for two slots behind a breaker that
  others trip meanwhile.
* **Counters.** `attempts_used` is a cached count, charged and refunded in six
  places; the sequence number only grows and is capped at the same four.

`PROJECT.json` lists each of these under `hazards` at its line.

## 2. Modules

```
Domain ── Store ──┬── Execute ───┐           Solve ─┬─ Timing ── TimingProofs
   └───── Bank ───┼── Reconcile ─┤             │    ├─ SolveProofs (extended by the
                  ├── Relay ─────┼─ Quiescent  │    │  proofs of Timing and Harness)
                  └── Schedule ──┘     │       └─ World ── Harness ── HarnessProofs
                                       ├ Verify ─┬ MCQuiescent
Budget ◁─ Store (refinement)           │         └──────────┐
            ├ MCStore                  └ Claims ── QuiescentProofs
            └ StoreProofs ──────────────────────────────────┘

Answers ◁┬ Ledger (refinement) ─┬─ MCLedger     Breaker ─┬─ MCBreaker
         └ Bank (refinement)    └─ LedgerProofs          └─ BreakerProofs

Progress ── ProgressProofs
```

`Quiescent` answers what may happen; `Progress` what must; `Ledger` keeps the
two promises of the bank that `Bank` takes for granted (an answer given stays,
an admitted fence is not forgotten).

**Domain** holds states, outcomes and the classification table. The four codes
classified `retry_now` behave alike and are one, `TECHNICAL_DECLINE`; any code
the table does not have is `UNMAPPED`, for which the model client may propose
any class.

**Store** has one operator per transaction: the guard is the `WHERE` clause or
validation whose failure the caller sees as a conflict, the primed variables
are the columns written. `Rewrite` is an update of one attempt's row. Three
representations differ from the schema:
* an attempt carries its outbox row, since `ReserveAttempt` inserts both in one
  transaction and nothing else inserts either;
* `fence = 0` is `fired_at IS NULL` (the two columns are set together);
* instants become the stretch of an attempt's life the clock is in: `Early`
  (until `deliver_by`), `Closed` (until `scheduled_for`), `Due` (for ten
  minutes), `Stale`. Each row ages by itself, but for the rule of `Elapse`: an
  attempt notified in time falls due only when the earlier ones of its cycle
  are stale. That rule is not assumed: it is the property `ClaimsDoNotOverlap`
  of `Timing`, where instants are numbers, and is proved there.

A lease may lapse at any time: nothing in the code bounds how long a process is
stalled, so nothing bounds what happens within 30 seconds of its own clock.
Cycles exist from the start (`CreateCycle` and the lease seeded by its trigger
are `Init`). `Store!Next` lets clients call any transaction in any order with
any argument, which is what `store_clients` checks and `StoreProofs` proves
about; `ResolveAttemptOutcome`, which no process calls, is included.

**Budget** says what the store promises about the four attempts, without saying
how: a slot is reserved, then spent or refunded once, and at most `MaxAttempts`
are charged. `Store!BudgetSpec` maps each row to its slot.

**Bank** is `handleDebit` cut at its two critical sections (`AdmitFence`,
`Commit`), the dropped connection and the refused fence, with the ledger as a
function from key to first answer. What the bank decides is any outcome and any
code: `oracle.go` draws it from a seed.

**Execute** is `FireOne`: `Claim` (the due list and the stale check; the list
may be read long before the lease is asked for), `TakeLease`, `PassGate` /
`NoticeMissing`, `MarkFired`, `CallBank`, `RecordAnswer` / `RecordTimeout`,
`AdvanceCycle`, with `Conflict` for a guarded update that matches no row and
`Crash` for a death or a store error anywhere. The gate and the reading of
`attempts_used` are one step: `onTime` never changes once it is set. One call
per attempt is ever made, because only one `MarkFired` succeeds. A timeout may
be recorded at any time after the call, the request still under way.

**Reconcile** is `Resolve`. Of its polls only the last one that finds nothing
is a step, since an earlier one that found nothing changed nothing; a found
answer never changes in the ledger, so reading it and the update that follows
are one step.

**Relay** is `ProcessOne`: the deadline is compared before the send and the row
marked after it, with several relays working the same list.

**Schedule** is `ScheduleNext` with the balance trigger: what is read and the
reservation are two steps, and the version decides. The plan's `age` is `Early`
where `solve` floors it by the lead, and the age of the answer where
`AfterConfirmation` counts from the answer.

**Quiescent** composes them; **Verify** adds the verifier's queries, and
**Claims** statements of the repository's documents that the code does not keep
(section 6), with what the code would have to keep for them to hold.

**Progress** is the claim and the reconcile loop again, for liveness. One
attempt of each of `Last` cycles makes up the two lists, so the page, its order
and its limit are kept, and who holds a lease is a flag that a lapse clears.
What `Execute` and `Reconcile` take apart for the sake of races is joined again
where only the order of *visits* matters (the gate, the mark and the call are
one step), and every settled outcome is one value. The request is heard by the
bank (`coming`, then `known`) or never (`lost`, at most `MaxLosses` times).
`batch`, the length of a page, is chosen at the start and stays.

**Ledger** is `ledger.go` under the requests of `sim.go`. The file is a sequence
of lines, the last of which may lack its newline, with a mark of how far it is
synced. A write that fails leaves nothing, a part, all but the newline, or the
whole line. What follows an unended line runs together with it, and
`OpenLedger` refuses such a file for ever. `faults` is chosen at the start:
"errors" (writes and syncs fail, the process dies) or "power" (the power fails,
and what was not synced goes). **Answers** is what the ledger promises, without
the file: one answer under a key.

**World** is how the simulated bank decides: rail rules, balances before and
from payday, probability and decision from one set of conditions. Draws come
from the set `DrawValues` in place of a hash. **Harness** runs a sequence of
cycles under the system's policy, the blind baseline and the oracle, with the
predictor's vote over the hours of past successes. Its cycles have no owner the
world knows, so the world makes up a customer for each (`World.Cycle` falls
back to one named after the cycle), and the model does the same.

**Breaker** is the model client: `acquire` with its counter and its channel,
the time-out and the breaker. Go's channel lets blocked senders in first come
first served, which `line` keeps. Time is in ticks and passes only when
everyone inside waits.

**Solve** is the arithmetic of `internal/solve` and `window.go` on seconds
counted from a midnight in IST (no daylight saving). **Timing** runs one cycle
against a numeric clock. Each handler happens at an instant there (`Quiescent`
cuts them apart), a success is left out because it ends the cycle, and the
predictor's hour is any hour of the constant `PreferredHours`. The notice may
be marked delivered at any time after a plan that still had its deadline ahead:
the send is outside the transaction and may be slow.

## 3. Runs

| Run | Module | What it shows | Distinct states |
|---|---|---|---|
| `store_clients` | MCStore | arbitrary clients: `attempts_used` agrees with the rows, no refund is refused, the store implements `Budget` | 276k |
| `racing_workers` | MCQuiescent | two workers, a reconciler, a relay and a scheduler over one cycle, with crashes: eleven properties and the type invariant | 913k |
| `asking_customer` | MCQuiescent | two schedulers and two relays race on a cycle short of funds | 1.2M |
| `wall_clock` | Timing | the instants chosen over two days, with every deadline | 4.6M |
| `progress` | Progress | fair poll loops get every attempt taken, settled or held, but for the ones a full page of others hides | 1.0M |
| `ledger_file` | MCLedger | the bank's promises across failed writes, deaths and power failures; it implements `Answers` | 3.8M |
| `policies` | Harness | three policies over three cycles of a customer, any balances and draws of the sets | 735k |
| `breaker` | MCBreaker | five callers, two slots, a line of three | 338k |

The properties of `racing_workers`, in the order of the hazards they answer:

* `VerifyPasses`: four of the verifier's six queries never return a row.
* `PendingIsSettled`: no write of a stalled process hands a cycle back while an
  attempt of it is open, which would hide it from the scheduler for good.
* `WriteAhead`: the bank never hears of an attempt whose row does not say fired,
  under the same fence.
* `NoticeGate`: a fired attempt was notified in time (README invariant 6).
* `RecordsAgreeWithBank`, `RecoveredWasPaid`: what the store records is what the
  bank did, whoever records it and however late the answer came.
* `SuccessIsLast`, `EarlierDebitsWereAbandoned`: what does hold of README's
  invariant 1. The store never reserves an attempt past a success it knows of,
  and a second debit can only come from an attempt the store had abandoned.
* `UnknownIsReconcilable`, `ScheduledIsClaimable`: a cycle in one of the waiting
  states has the row by which its loop finds it.
* `TerminalFailureIsLast`: a recorded hard decline is never followed by a retry.

`asking_customer` has `OneOpenAttempt`, that two schedulers never leave a cycle
with two open attempts, and `AskedFirst`, an action property: at the step that
reserves an attempt after `INSUFFICIENT_FUNDS`, the question for that attempt
was answered or has lapsed. `wall_clock` checks `ScheduledOutsideWindows`,
`ClaimsDoNotOverlap` and `RelayHasTime`.

`progress` is about what must happen, and where it does not. An attempt that was
fired and whose request was lost is a thing no loop can finish: it stays on the
reconciliation list for ever, and if its worker died before it recorded
`TIMEOUT`, on the due list too, since a hold changes only the cycle and
`AbandonAttempt` conflicts on `fired_at`. A full page of those hides what comes
after them. The properties say that nothing else does:

* `EveryAttemptIsTaken`: each attempt is fired or given up, unless it is
  `Skipped`, that is, unless as many attempts before it as the page has places
  are fired, without an outcome, and with nobody left to record one (`Stuck`).
  Rows that can still be settled, or fewer of the others, delay it only.
* `FiredIsAnswered`: the claim loop takes the lease of a fired attempt again at
  each tick while it is due, and yet the attempt is settled or held, because it
  goes stale and stale attempts are never leased; unless it is `Forgotten`, that
  is, behind a full page of attempts the bank never heard of.
* `AnswerIsRecorded`: an answer that came after its cycle was held is recorded
  all the same, because a held attempt stays on the list; with the same
  exception.

The run reaches the exceptions: without any one of them TLC finds the property
violated. That an attempt in one of them stays there for ever is proved
(section 5), so they cannot be made narrower by waiting longer.

`ledger_file`: `RestartForgetsNothing` (memory never knows more than a restart
would find), `StaleFenceStaysOut` (a request that arrives after one with a
higher fence was answered is not admitted, whatever died in between),
`RevocationHolds` (nor is a debit after an acknowledged revocation decided in
its favour), and the refinement `AnswersSpec`, which is the reason that replay
may keep the last line of a key where `Commit` keeps the first: a second line is
only ever written when nobody was told of the first. A *stale* fence admitted
before the newer one may still commit after it; the property does not say
otherwise, and the code does not prevent it.

`policies`: `OracleIsUpperBound` is what `harness_test.go` samples;
`DaysAreTheBaselines` and `BaselineIsNotBeaten` are why README's measurement
finds no lift, for any balance and draw: the solver's days are the baseline's
whatever hour is learnt, so the system recovers nothing the baseline loses, and
loses to it only where a code is classified as not to be retried.
`TruthfulOracle`: what `/oracle/probabilities` tells is what `Decide` does,
except that a bank told to ignore the windows succeeds in them when the oracle
says never (`Sim.Probabilities` does not hand the setting on).

`breaker`: `NothingLeaks` (counter and channel are the callers they stand for,
through refusals and time-outs), `StayIsBounded` (the time-out starts after the
wait for a slot, so the bound is a time-out for each row of callers in the line,
and not the single one the documents name), `TrippedMeansRest` (whoever saw the
breaker trip makes no call within the cooldown, whatever older calls come to).

Every property has a mutant in `PROJECT.json`: a plausible slip in one mapped
definition, kept beside it under a comment that starts with *Mutated*, which
makes the property fail under the same configuration. Those operators are used
by nothing else.

## 4. Bounds

* **One cycle.** Two cycles share no row, lease, key or fence; only the order
  in which a loop visits them, which `Quiescent` leaves open. `Progress` keeps
  that order and has several cycles of one attempt each.
* **`MaxAttempts`** is 2 (4 in the code), 3 in `Timing`: two give a first
  attempt, its replacement and the end of the budget, which are the cases the
  code tells apart. The proofs take any value.
* **`MaxFence`** caps lease acquisitions, 3 in `racing_workers`: two workers and
  the reconciler each hold the lease once, or one of them again after a crash.
* **`Codes`**: one code per class the run needs.
* **`Timing`**: the clock moves to the instants around which a handler would
  decide otherwise (`Deadlines`) and by whole days (`Steps`), until `Horizon`,
  a little more than two days: a first attempt, the give-up or the failure, and
  the retry 24 h 15 min later. The due date 122100 is 9:55 on the second day,
  five minutes before a window opens; 0 is a due date already past.
* **`Progress`**: three attempts and pages of one or of two, so that the list is
  longer than the page; two lost requests and two deaths of the worker, so that
  either page can fill with attempts that stay on it for ever; the third attempt,
  the one that may be hidden then, not notified. `OutageIsResolved` needs only a
  page of one and one lost request.
* **`Ledger`**: one cycle and one attempt, two request hashes (the same key with
  another body), two fences, two requests at a time, five lines of the file. A
  fault either loses what was not synced or fails a write, as `faults` says.
  What combines the two (the process dies between the write and the sync, the
  restart answers from the unsynced line, then the power fails) is out of the
  model: the code does not keep its promise then.
* **`Harness`**: three cycles in a row, the draws 0, 7600 and 9999 (below, among
  and above the probabilities), two amounts, two due dates, three paydays, and
  low balances on both sides of an amount. `World` counts in thousands of paise
  and ten-thousandths.
* **`Breaker`**: five callers against two slots and a line of three, so that one
  more than the line allows can be counted and is refused; `Threshold`, `Cooldown`
  and `Timeout` are 2, 3 and 2 ticks. In deployment each process has one caller
  at a time; more is the contract of the client itself.
* **`Crashes`** is TRUE in every passing run of the composition; the refuting
  runs set it to FALSE where the trace does not need a crash.
* Symmetry is used among processes, callers and requests, which only their names
  tell apart, and only with safety properties.

Deadlock is checked in `breaker`, where a caller inside must always be able to
get out. Elsewhere it is off: a cycle that ended or waits for a human has
nothing more to do, a batch of the harness ends, and the bounds on fences,
lines and clock stop the others.

**Fairness** is assumed in `Progress` alone, and only weak. Each of the two
loops of a worker keeps going: `pollLoop` starts a tick every `WORKER_INTERVAL`
and every call in it ends, by an answer or by its time-out. The bank commits a
request that reached it, the lease of a process that stopped lapses after 30
seconds, and the clock moves each attempt on. Nothing is said of who wins a lease, and
no action is strongly fair. The number of lost requests and deaths is bounded:
an outage ends. All other runs are about safety, where a process may stop for ever.

## 5. Proofs

`StoreProofs`. The inductive invariant is `StoreInv == TypeOK /\ BudgetAgrees`.
`BudgetAgrees` needs the types, because a refund must find a positive counter
to subtract from; `TypeOK` needs `BudgetAgrees`, because only the count of
charged rows tells that the counter is positive when an open row is given back.
Every transaction on a row is shown to be a `Rewrite` of that row, and the
count of charged rows to change by what the counter changes by. From it:
`StoreTypeOK`, `StoreBudgetAgrees`, `StoreRefundNeverRefused`, and
`StoreImplementsBudget`: each transaction is a step of `Budget` or leaves every
slot as it is. `StoreHistoryIsKept` is about steps: whatever clients call, no
transaction takes back a fence, a version or a row, nor, in a row, the fence it
was fired under, a notice in time, or a settled outcome with its code. `Kept`,
what a `Rewrite` never takes back, is what the next proof builds on.

`QuiescentProofs`. The safety of the whole composition, for any number of
cycles, attempts, fences, workers, reconcilers, relays and schedulers, with
crashes or without. The inductive invariant `QInv` has a part for each module:
`StoreQInv`, `BankQInv`, `WorkerQInv`, `ReconQInv`, `RelayQInv` and `PlanQInv`.
Most of it says what a process that read the store some time ago may still rely
on, and two lemmas carry it across the steps of the others:
* *Evolves*: rows, fences and versions only grow; a fence once written, a notice
  in time and a settled outcome stay. So what a worker, a relay or a reconciler
  saw is still so, or the guard of its update now fails.
* *Calm*: nobody touches the cycle whose answer a worker has recorded and whose
  advance is still to come. Every other loop asks for an open row, an unknown
  outcome or another state of the cycle.

A plan made against the version the cycle still has finds all rows final, no
terminal code among them, no worker about to advance the cycle, and the
customer asked; this is what the reservation needs for `OneOpenAttempt`,
`SuccessIsLast`, `TerminalFailureIsLast` and `AskedFirst`. The latest failure of
a cycle is a `CHOOSE`; that there is one is shown from the well-foundedness of
the naturals. All twelve properties of `racing_workers` and the
two of `asking_customer` are theorems, the action property `AskedFirst` and the
verifier's `VerifyPasses` among them.

Three more relate the composition to the other specifications.
`QuiescentUsesStore`: every step of every process is a transaction of `Store`,
with arguments its clients may pass, or leaves the tables alone; so the system
asks nothing of the store that was not proved of arbitrary clients, and
`QuiescentImplementsBudget` and `QuiescentHistoryIsKept` follow.
`BankImplementsAnswers`: with several callers, and calls dropped, late or
overtaken, what the bank has said under a key is a step of `Answers` or a
stutter. `LedgerProofs` shows the same of the file, so the two models of the
bank promise one thing.

The last part of `QuiescentProofs` is about `Claims`. Three claims of the
documents are refuted by runs (section 6). A trace shows one way to break a
claim; these theorems show that there is no other. Each takes as a hypothesis, about steps, what the code does not keep:

| Theorem | Claim | Holds of every behaviour in which |
|---|---|---|
| `DebitsTwiceOnlyByFiringSettled` | `NeverDebitsTwice` | no attempt with an outcome is marked fired (`FiresOpenRows`) |
| `HardDeclinesRetriedOnlyByThese` | `HardDeclineIsFinal` | besides, no hard decline is refunded (`HardDeclinesStayCharged`) |
| `FlightsLostOnlyByThese` | `InFlightIsTracked` | `FiresOpenRows`, and a worker that recorded an outcome moves the cycle on (`RecordedCyclesMoveOn`) |

The invariants are `QInv` with, for the first two, what is known of an attempt
that was fired and then abandoned: the bank refused it (`AbandonedIsUnpaid`), and
not for good (`AbandonedIsSoft`). For the third it is `InFlightIsHeld`: a cycle
in flight has an open fired attempt, or a worker that has just recorded its
outcome. They rest on lemmas about how an outcome may change
(`HowOutcomesChange`) and how a cycle gets into flight (`HowCyclesGoInFlight`),
over all steps of all processes. In the model checker each conditional claim
holds with the constants of `MCQuiescent`, crashes included, and without any
one of its hypotheses it fails, so none is idle. Read as advice: `AND outcome IS
NULL` in `MarkAttemptFired` keeps the first, the code of a failure kept by the
reconciler the second, and recording and advancing in one transaction the third.

`SolveProofs`. `ShiftIsForward`, `ShiftIsClear`: pushing an instant past a
blocked window moves it forward by at most four hours and 35 minutes, and the
result is in neither window. `SlotIsReachable`: whatever the due date, the
preferred hour and the clock, `Slot` leaves 24 h 15 min and is outside the
windows; so for `First` and for `Next`. `AfterConfirmation` has the windows and
its lead from the answer, not from the clock.

`TimingProofs`. The inductive invariant `TimingInv` is most of the types, `InOrder`
(each attempt was planned after the previous one was settled, notified after it
was planned, and settled after it was fired), `ScheduledOutsideWindows` and
`RelayHasTime`. `ClaimsDoNotOverlap` follows from `InOrder`: an attempt that may
fire was planned, and then notified, after the earlier one was settled, and its
notice is 24 hours before it is due. So the rule of `Store!Elapse`, on which the
proofs about the composition rest, holds for every budget, due date, hour and
clock, and not only within the horizon of the run. `TimingTypeOK` adds that
`used` stays within the budget; for this it needs `UsedAgrees`, that the count
is the number of attempts to pay for.

`LedgerProofs`. The inductive invariant is `TypeOK` and `Behind`: what the file
replays to has at least what memory has, memory has at least what callers were
told, and each request under way stands to both as its place in the handler
says. Under power failures every line is synced before memory takes it in, so
the cut takes only lines nobody was told of. The lemmas are about one more line:
replaying it adds its entry, its fence or its revocation and takes nothing away,
unless it runs together with an unended one, and then the file cannot be read
again. That there is a last line for a key is from the well-foundedness of the
naturals. From it the three invariants of `ledger_file`, and
`LedgerImplementsAnswers`: `Commit`, a reply and a look-up under a key are steps
of `Answers` or stutters, for any keys, requests, fences and length of file.

`BreakerProofs`. `BreakerInv` has the counter, the channel and the line as the
cardinalities of the callers at the places of the code that hold them (`Counts`,
`Lined`), and nobody's rest longer than what is left of the cooldown (`Rests`).
Hence `BreakerLeaksNothing` and `BreakerMakesRest` for any number of callers and
any limits. `BreakerStayIsBounded` needs `StayInv`, that everyone in the line is
in time. With i - 1 callers before it, a caller waits for as many of the present holders
as do not fill a row of `Slots`, and then for q rows of calls, at most a
time-out each; enough holders must have so little of their own time-out left
that its stay will be within the bound (`InTime`). A holder who leaves hands its
slot to the head of the line and moves everyone up by one, so the count stays
right; a tick ages holders and waiters alike. Hence nobody is held up for longer
than a time-out for each row of the line and one more.

`ProgressProofs`. What fairness brings stays with TLC; proved is what it cannot
bring. A page is the first `batch` rows of a list; the lemmas say that it holds
rows of the list, one at each place, in order, and none that has `batch` rows of
the list before it (`BehindAFullPage`). `ProgressTypeOK` follows, since a loop
must find an attempt at the head of its page. `AttemptChanges` says which loop
changes what of an attempt, and that it must have it at the head of its page. A
request the bank never heard of is lost for good, so its attempt stays on the
reconciliation list:

* `ForgottenForEver`: an attempt with `batch` such ones before it, on no page now
  and with no worker waiting for its answer, never gets on a page again, whatever
  dies or starts anew. So `OutageStaysUnresolved`: if it had timed out and was
  not held, it is neither settled nor held, ever. The state it starts from is the
  one the run `outage_is_resolved` reaches.
* `SkippedForEver`: a fired attempt that nobody can settle stays on the due list,
  which takes one more invariant, `Reached`: what was fired, or is on a page of
  the claim loop, has come due. So an attempt with `batch` such ones before it is
  never fired nor given up.

Both hold for any number of cycles and workers, any length of page, and under any
fairness.

`HarnessProofs`. The three policies run the same cycle one after the other, so
the invariant keeps, for each run, that the draws belong to its attempts by
number and that only the last of them can be the success. The system's attempts
fall on the days 0, 1, 3 and 7 after the due date, outside the windows
(`SystemInv`); the first is not after eleven at night, which is what leaves the
second its 24 hours and 15 minutes. Two instants of one day outside the windows
get the same verdict, since the balance changes with the day and nothing else
with the hour; hence `NoLiftToCapture`. `NobodyBeatsTheOracle` needs besides that every such
day has an hour the oracle searches, and that the success probability tells, as
`OracleTellsTheTruth` says, what the decision would be. So what `policies` shows
holds for every amount, balance, payday, month, rail and draw.

Assumed of the constants: `MaxAttempts` is positive, `MaxFence` is a natural
number, `"none"` is not a code, `Crashes` is a Boolean; sets of cycles, codes,
processes, requests and keys are any sets. In `Timing`, dates, steps and the
horizon are natural numbers and hours are hours of a day. In `Harness`, amounts
and balances are natural numbers, dates and months those of a calendar, draws
are below 10000 and the batch is not empty. In `Breaker`, the callers are
finitely many and the limits positive. In `Progress`, there is at least one
cycle, pages have a positive length, and the bounds on lost requests and deaths are
natural numbers.

Only model-checked: the three liveness properties of `Progress`, since liveness
under fairness is beyond the prover. Every invariant, action property and
refinement the passing runs check is a theorem. That the four claims of section
6 fail is shown by traces of TLC.

## 6. Where documents and code part

Four runs are expected to end in a violation. Each quotes a document, and TLC
shows the code doing otherwise; `PROJECT.json` has the lines.

* `never_debits_twice`: a worker is stalled for ten minutes after the notice
  gate. Another one abandons the attempt as stale and the scheduler reserves a
  second one. `MarkAttemptFired` asks only for `fired_at IS NULL`
  (`store/attempt.go:36`), so the first worker wakes up and debits; its answer
  cannot be recorded over `ABANDONED_STALE`, and the second attempt is fired when
  it falls due. The keys differ and no fence is out of order.
* `in_flight_is_tracked`: a crash between recording the answer and advancing
  the cycle leaves it `in_flight` with no open attempt. No list returns it.
* `hard_decline_is_final`: a failure found by reconciliation is refunded and
  its code dropped, whatever the code was.
* `outage_is_resolved`: an attempt whose request was lost is held, which changes
  the cycle and not the attempt. It keeps its outcome `TIMEOUT`, stays on the
  first page of `NeedsReconciliation`, and is asked for again at every tick. With
  `WORKER_BATCH` of them, a newer attempt is never asked for, although the bank
  has its answer (`ARCHITECTURE.md:605` has reconciliation resolve an outage).

The steps in the first three traces are the only ones that break those claims
(`QuiescentProofs`), and the fourth happens with every page and number of cycles
once as many requests are lost as the page has places (`ProgressProofs`).
`FiredIsAnswered` and `AnswerIsRecorded` say of that limit that it is the only
one.

Seen while modelling, with no run kept for them:

* The due list has the same fault. `DueAttempts` (`store/due.go:16`) returns
  fired rows as long as they have no outcome. If a worker dies between
  `MarkAttemptFired` and the record and the bank never has the request, the
  reconciler holds the cycle and leaves the row, and ten minutes later
  `AbandonAttempt` conflicts at every tick. `JOURNAL.md:842` saw such a row; since
  then the reconciler asks for it, which helps if the bank has an answer. One
  row like that costs a place of every page; `WORKER_BATCH` of them, and no
  worker takes any later attempt again (`SkippedForEver`), while
  `ARCHITECTURE.md:602` has the death of a worker stop nothing and reach one
  cycle. The exception `EveryAttemptIsTaken` makes is this.
* A refund gives back the budget and not the sequence number
  (`store/validate.go:36`). After four rows every tick plans an attempt that
  is refused (`ARCHITECTURE.md:551`, `FAILURES.md:374`).
* A crash after marking the row and before sending ends in `held`, where
  `FAILURES.md:243` expects the budget back: a bank that never saw the key
  answers as one that will.
* `HoldCycle` overwrites what the cycle has become since the polls began, a
  terminal state included (`README.md:114`).
* `AfterConfirmation` counts the lead from the answer. Used a while later, it
  plans an attempt whose notice is already late (`README.md:211`).
* The windows are looked at when the instant is planned. An attempt planned at
  9:55 may be fired at 10:05 (`README.md:159`).
* The verifier's third query (`store/invariants.go:21`) reports any scheduled or
  pending cycle not updated for an hour, which a cycle that waits its 24 hours
  is. Its first query looks at successes the store has recorded, so a debit of an
  abandoned attempt is none to it.
* The documents give the model's time-out as two seconds (`ARCHITECTURE.md:64`);
  `intelligence/client.go:31` has ten, and it starts after the wait for a slot.
* The oracle is not told of `IgnoreBlockedWindows` (`provider/oracle.go:132`),
  and says never of an hour in which that bank debits.

`policies` confirms three statements, and `HarnessProofs` proves them: the oracle
is an upper bound, the blind baseline's days are the system's by construction, and
the system does not beat it.

## 7. Not modelled, and the plan

Left out for good: the audit log, reports and statistics (nothing reads them to
decide), wording and reasons, argument parsing, migrations as such, test
fixtures, HTTP and JSON, the hash behind the draws, the confidence interval of
the report, prompts. The rate limiter and the jitter only delay steps that may be
delayed anyway. `create --fire-in` puts a cycle into the store by hand for a
demonstration, past the planner. The loop that narrates and advises writes only
to the log. Two of the verifier's six queries compare a column with the clock of
the database. The seed mismatch that makes `OpenLedger` refuse a file is a check
of one line.

In order of importance, still to be written:

1. **Pages** of the relay and of the scheduler: one conflict ends the relay's
   tick, and cycles the scheduler refuses stay at the head of its list.
2. **A proof** that `Execute` and `Reconcile`, with the steps of a visit joined,
   do to one attempt what a visit of `Progress` does, so that its liveness may be
   read as the composition's.
3. **The bank's file under both faults**, stating what is still promised when a
   restart discloses a line that was not synced.
4. **The liveness of the composition**, with the races of `Execute` and
   `Reconcile` left apart, on an instance TLC can finish.

## 8. Running

```
tlasany Quiescent.tla
tlc -workers 2 -config MCQuiescent.cfg MCQuiescent.tla
tlc -workers 2 -config Progress.cfg Progress.tla
tlc -workers 2 -config MCLedger.cfg MCLedger.tla
tlapm StoreProofs.tla
tlapm QuiescentProofs.tla
tlapm ProgressProofs.tla
tlapm LedgerProofs.tla
tlapm HarnessProofs.tla
```
