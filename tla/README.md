# Decision Assistant: TLA+ specifications

Decision Assistant is an MCP server.  A client sends the signals of a change to
the tool `assess`; the server answers `ALLOW`, `BLOCK`, or `REQUIRE_CONFIRM`
with a receipt.  A client that confirms presents the receipt with
`confirm.mode = EXECUTE`, and the server consumes it: once, for one plan,
before it expires.  Receipts, the replay index and the decision log live in one
SQLite file that several server processes may share.

The specifications are about what makes that promise hard to keep: two
processes between any two SQL statements, a process that dies in the middle of a
call or of its first start, statements that fail, clients that retry what was
already done, a machine that loses power, a clock that is set back, files that
are rewritten without a lock, and rules that overlap.

Paths below are relative to `src/`, the checkout; the program is in `src/src/`.

## 1. Inventory

### Components

| Component | Source | State it keeps | Operations |
|---|---|---|---|
| execution control | `server.ts` | local variables of one call | the handler of `tools/call` for `assess` |
| assessment | `modules/assess` | none (pure, random draws injected) | `assess`, signal mappings, plan hash |
| guardrail | `modules/receipt` | none | `evaluateGuardrail` |
| policy | `modules/policy` | none | `evaluate`, modes cold and full |
| risk | `modules/risk` | none | cold rules, AI momentum, blackhole, score, decision |
| receipt and replay store | `persistence/sqlite_store.ts` | tables `receipts`, `replay_index` | issue, find active, consume |
| decision log | `persistence/sqlite_store.ts` | table `decision_logs`, append-only by triggers | append, list |
| store opening | `persistence/sqlite_store.ts` | schema, identity, version of the file | open, create, migrate, validate |
| state.json | `persistence/state.ts` | last 200 artifacts, cooldown | `appendArtifact`, `setCooldown`, `isInCooldown` |
| telemetry | `telemetry.ts`, `scripts/telemetry_report.ts` | JSONL file, errors swallowed | record an interruption, report |
| other tools | `runtime/tools` | none (`detect_triggers` appends an artifact) | `detect_triggers`, `plan`, `followup` |
| errors | `runtime/error_semantics.ts` | none | classification, payloads, exit codes |
| configuration | `config` | none | defaults, clamping of texts |
| transport, entry point | `runtime/mcp_server.ts`, `bin` | none | JSON-RPC over stdio |
| clients in the repository | `archive/examples`, `scripts`, `demo` (repository root) | the receipt they were handed | ask, confirm, confirm wrongly, retry |

### How they interact

`server.ts` is the only place where pure and stateful parts meet.  It
normalises the arguments, takes one timestamp, calls `assess` (which calls
policy, risk and guardrail and touches nothing), writes an artifact to
`state.json`, and then issues SQL statements through the store: one
`decision.assessed` event always, then either *find, issue or reuse, log* or
*consume, log* or nothing.  A consumption that is rejected is logged, and the
signals are assessed a second time without the confirmation to offer a
replacement receipt.  In between it appends lines to the telemetry file, whose
errors are swallowed; the receipt id ties a line to the store.

The handler has no `await`, so two calls of one process never interleave.  Two
processes do, between any two statements; only `consumeReceipt` opens a
transaction (`BEGIN IMMEDIATE`).  Opening the file uses no transaction at all.

### What is hard, and what makes it correct

| Component | Hard behaviour | Correct when |
|---|---|---|
| store | concurrent consumption; failure or death inside the transaction; seven early returns that must roll back; three queries that test the expiry in their own words; commits a power loss may undo | a receipt is consumed exactly when its key is indexed (`StoreAtomic`); all queries agree (`QueriesAgree`); what comes back after a loss of power is one moment of the past (`StoreAtomic` and `LogSound` in `PowerLoss`) |
| execution control | stale reads between find and issue; the drawn receipt against the reused one; retries after a lost answer; a timestamp older than the write; the clock set back | one execution per receipt (`ExecutedOnce`); gated signals pass only with a receipt of that plan (`GateHolds`); offers are stored (`OfferedIsStored`); errors are true (`TruthfulErrors`); every call is answered and clients get through (`GetsThrough`) |
| decision log | events are statements of their own after the COMMIT | the log never claims too much (`LogSound`), and an answer has its whole trail (`AnswerEvidence`) |
| store opening | statement-by-statement creation and migration, raced and interrupted | foreign files stay untouched; who opened has a complete store; a store that could be opened still can; somebody gets through |
| policy, risk, guardrail, `detect_triggers` | first-hit rules, two thresholds, a gate that reads the wording of a reason, two mappings of the same signals | more work is never let through more easily (`GateMonotone`, `RiskMonotone`); a hard stop cannot be confirmed (`HardStopKept`); the hint is stricter than the gate only for the number it reads in place of `files_touched` (`HintHarsher`) |
| telemetry | lines that get lost; answers that write none | a confirmation in the file is an execution in the store (`ConfirmedBacked`), and one that was never pending is explained (`UnpromptedExplained`) |
| state.json | read, change and rewrite without a lock; truncated writes; a shared default array | the newest is first and nothing undisturbed is lost (`NewestFirst`, `KeepsUndisturbed`); what failed comes back only one way (`FailedOnlyFromFallback`) |

`PROJECT.json` lists every hazard at its line with the properties that cover it.

## 2. Modules

| Module | Role |
|---|---|
| `Receipts` | the two tables as values; what a query or a sequence of checks computes from them |
| `ExecutionControl` | extends `Receipts`: processes, handler steps, transaction, lock, faults, clock, answers, log; the properties |
| `ExecutionGate` | abstract specification: bindings are offered, granted once, announced once |
| `ExecutionInvariant` | the inductive invariants of `ExecutionControl`: `IInv`, `LogInv`, `AInv`, `ClockInv` |
| `ExecutionControlProofs` | its theorems about tables and transaction, from `IInv` |
| `ExecutionAnswersProofs` | its theorems about logs, answers, time, and that it implements `ExecutionGate` |
| `Interruptions`, `InterruptionsProofs` | `ExecutionControl` with its telemetry; its theorems |
| `RoundTrip`, `RoundTripProofs` | `ExecutionControl` with clients that follow its answers until their plan is executed; its theorems |
| `PowerLoss`, `PowerLossProofs` | `ExecutionControl` on a machine that loses power; its theorems |
| `ArtifactState`, `ArtifactStateProofs` | state.json between processes; its theorems |
| `StoreOpen`, `StoreOpenProofs` | opening, creating and migrating the file; its theorems |
| `Policy` | signals to gate: cold rules, full rules, guardrail; the policy `detect_triggers` reports |
| `RiskScore` | trend to score and decision |
| `GrowingWork`, `GrowingWorkProofs` | successive assessments of growing work over `Policy` and `RiskScore`; its theorems |
| `MC...` | instances for TLC |

### ExecutionControl and the code

`pc[s]` is where the handler of process `s` stands; a label is named for the
statement that comes next.  `req[s]` are the handler's local variables.

| Action | Code |
|---|---|
| `Receive` | normalisation, `requestTs`, first `assess`, artifact written |
| `ReceiveAndFail` | no signals (`INVALID_INPUT`), or state.json cannot be written (`INTERNAL_ERROR`) |
| `LogAssessed` | the event written for every assessment, then the three branches |
| `Find`, `Issue`, `LogIssued`, `LogReused` | the `REQUIRE_CONFIRM` branch, and the replacement after a rejection |
| `BeginConsume` | `BEGIN IMMEDIATE` |
| `CheckReceipt` | SELECT and the checks in order (`ConsumeVerdict`), with ROLLBACK on each rejection |
| `InsertReplay`, `MarkConsumed`, `CommitConsume` | INSERT, conditional UPDATE, COMMIT |
| `LogConsumed`, `LogAccepted` | two autocommitted INSERTs |
| `LogRejected` | `execute.rejected`, second `assess`, its artifact |
| `Respond` | the answer reaches the client |
| `BusyTimeout`, `IssueConflict`, `StatementFails` | an exception in a statement: `withPersistence` makes it `PERSISTENCE_FAILURE` |
| `Crash`, `Restart` | the process dies, SQLite rolls back; it is started again |
| `Tick`, `SetBack` | the wall clock goes on, or is corrected backwards |

What is abstracted, and why nothing is lost for the properties:

- A plan hash is one value per class of gated signals.  Signals are their class:
  a plan, `low` (ALLOW), `extreme` (BLOCK), `absent`.
- The writes of the transaction stay in `pending` until COMMIT.  Readers see
  committed tables only, as in WAL mode.  COMMIT is durable.
- The random draws of receipt id and nonce are any value, including one that
  is taken; a client may present any binding, so it may guess, reuse and
  mix up.
- INSERT and the SELECT that reads the row back are one step of `Issue`: the
  row is committed by the INSERT and no one can change an active row except by
  consuming it, which the answer of `issueReceipt` does not show.
- The `~Usable` branch of `MarkConsumed` cannot be taken while the lock is
  held; it is defensive in the code and kept in the model.
- An ACK carries a receipt id or none: telemetry records it, the store does not.
- The order of events of different calls (`listAll`) is not kept: the log is one
  sequence per decision, and `ListByReceiptId` collects from all of them.
- `getReceiptState` and `hasExecutionKey` have no caller in the server; they are
  `ReceiptState` and `HasExecutionKey` of `Receipts`, for `QueriesAgree`.
- Formatting and payload texts are left out.

`MaxCalls`, `MaxClock` and `MaxFaults` bound a behaviour.  `Exhausted` lets it
stutter at the end, so that deadlock checking stays on and a deadlock is a
handler that cannot go on.  `Backwards` says whether `SetBack` may happen, which
counts as a fault.

### Interruptions and the code

Telemetry is written while a call is served and read by no call, so its lines
are added in the step that ends the call, by an answer or by a crash: `Lines` is
what `recordInterruption` has been called with by then, decided by the
label and the answer.  `AppendLines` puts any part of them into the file: an
append that throws is swallowed, and a process may die before it.  `lost` holds
the others, `MaxLost` bounds them.  A line that got no receipt id draws a random
one, which no other line carries: `None`.  `ReportIds` is the grouping that
`telemetry_report.ts` divides into an execution rate.

### RoundTrip and the code

One client per server process, as over stdio.  `held[s]` is the binding the
client was handed last and presents next; `Send` makes the call (`NextCall`),
`Learn` reads the answer: accepted, a receipt to present, or the same call again.
That is what `scripts/verify_use_smoke.mjs` and `scripts/verify_guardrail.ts` do, up
to the replay that is rejected with a fresh receipt; there they stop.  Going on
after a failure, and starting the server again when it died, is what a client of
such a server has to do and is assumed of it.

`Misuse` presents something else than was handed out: another `plan_hash` or
nonce, a receipt id nobody has, or other signals: those of another plan, extreme
ones, or ones that need no confirmation.  It is external: no code of the
repository makes all of these calls, but the handler cannot tell what its callers
put into `confirm`.  The last kind is the one that is not harmless: `assess()`
answers ALLOW without looking at `confirm`, and the handler then consumes the
receipt presented (`server.ts:519`), which is what the run `plan_binding` is about.
`MisuseContained` states that this is the only way, and that it reaches no other
receipt than the one presented under its own binding.

The steps of the server are those of `ExecutionControl`, narrowed in two ways.
`FreshDraw`: a drawn receipt id is one nobody has.  `SoFarSoGood`: one thing goes
wrong in a behaviour, a failing statement or file write, a crash, a misuse, or a
wait for the lock that runs into `busy_timeout`.

### PowerLoss and the code

`survivors` are the states of the three tables the machine may come back with:
every commit since the last checkpoint of the WAL, which is what
`synchronous = NORMAL` promises.  `Work` is any step of `ExecutionControl` without
another fault, `Checkpoint` may come at any time (SQLite decides), `Outage` stops
every process and picks one of the survivors.

### ArtifactState and the code

`Load` is `appendArtifact` up to the call of `saveState`, `Open` and `Write` are
the two halves of `writeFileSync`.  `fallback[s]` is the array of `DEFAULT_STATE`,
which the shallow copy shares between all loads of a process and `unshift` changes
in place.  Two writers that both truncate may leave the end of the longer text
behind the shorter one: `garbled`.  An artifact is the number of its append.
`since`, `failed`, `blind` record history for the properties.

### StoreOpen and the code

`file` is the database, `pc[s]` the statement that process `s` issues next.
`ReadState` and `CheckColumns` are the inspection before anything is written;
`Statement` issues the pragmas, `CREATE ... IF NOT EXISTS`, identity and
version; `ReadColumns` and `AddColumn` are the migration, read and ALTER TABLE
apart; `Validate` is the last check; `Interrupt` kills the process or fails a
statement.  The three reads of `readExistingStoreState` are one step: other
openers only move identity and version between values both accepted.  Indexes
are left out because nothing checks them.

### Policy, RiskScore and GrowingWork

`Change` are the signals the mapping hands to the policy, `Trend` those it does
not.  Every rule is one operator, in the order of the code.  A text is the set
of phrases the guardrail looks for in it, which is what
`isThresholdStyleBlock` reads.  `Hinted` is the other mapping of signals, that of
`detect_triggers`: one number, the first it finds under three names
(`HintedFiles`), two of which only it reads (`median_alias`, `files_alias`).  Every
number is reported or not, independently of the others, and 0 stands for both.  A behaviour of `GrowingWork` is a sequence of
assessments of one piece of work that only grows.

## 3. Runs

| Run | Instance | Distinct states | Shows |
|---|---|---|---|
| `one_process` | `MCInterruptions`: 1 process, 2 plans, 2 receipt ids, 2 nonces, 3 calls, 1 tick, no faults, 1 lost line | 2.1M | `GateHolds`, `TruthfulErrors`, `OneLiveReceiptPerPlan`, `QueriesAgree`, `ConfirmedBacked`, `UnpromptedExplained` |
| `two_processes` | `MCExecutionControl`: 2 processes, 1 plan, 2 receipt ids, 1 nonce, 3 calls, 1 tick, 1 fault, which may be a clock set back | 1.4M | `TypeOK`, `StoreAtomic`, `ExecutedOnce`, `OfferedIsStored`, `LogSound`, `AnswerEvidence`, `Lifecycle`, `ImplementsGate` |
| `round_trip` | `MCRoundTrip`: 2 clients and processes, 1 plan and a wrong one, 1 nonce and a wrong one, 4 receipt ids, 9 calls, one thing goes wrong | 426k | `GetsThrough`, `HonestRejections`, `MisuseContained` |
| `power_loss` | `MCPowerLoss`: 2 processes, 1 plan, 1 receipt id, 3 calls, 2 losses of power | 1.3M | `StoreAtomic`, `LogSound`, `ExecutedOnceBetweenLosses` |
| `artifact_state` | `MCArtifactState`: 2 processes, 6 artifacts, 2 kept, 2 faults | 347k | `TypeOK`, `NewestFirst`, `KeepsUndisturbed`, `FailedOnlyFromFallback` |
| `store_open` | `MCStoreOpen`: 2 openers, 2 faults, every kind of file | 185k | `ForeignUntouched`, `OpenIsComplete`, `MigrationCrashSafe`, `SupportedAccepted`, `SomeoneOpens`, `TypeOK` |
| `growing_work` | `MCGrowingWork`: every threshold, both modes | 93k | `HardStopKept`, `HintHarsher`, `GateMonotone`, `RiskMonotone` |
| five `violation` runs | as `one_process` without telemetry, as `two_processes` without `SetBack`, as `store_open` with an empty file | | section 5 |

Why the bounds are enough:

- Three calls are the shortest history with every interaction: one issues, one
  consumes, one replays or competes.  Two plans and two nonces let a binding be
  wrong in each part; two receipt ids let an offer differ from the draw and
  collide with it.  `TTL` is 1, so one tick separates just before from exactly
  at the expiry, where `>` and `<=` must agree.
- `two_processes` gives up the second plan and nonce, which distinguish
  bindings and not interleavings, for the second process and a fault at any
  point.  `one_process` covers the bindings, without faults: they are what
  `two_processes` is for.  `OneLiveReceiptPerPlan`, `QueriesAgree` and
  `TruthfulErrors` also need a clock that does not go back: a receipt that
  expired and is valid again would be a second live one.  The proofs of section 6
  remove the bounds for the properties they reach.
- `round_trip` lets both clients get through although one thing goes wrong: a
  round trip takes two calls, a lost race one more, and the failure or the misuse
  another.  `MaxCalls` and the receipt ids suffice for every behaviour, otherwise
  `GetsThrough` would fail; that is why the run may stop (no deadlock check) when
  both are done.  Both clients work on one plan, so that they compete for its
  receipts; the second plan and nonce are the wrong ones of a misuse.  The
  constraint `DrawsFirst` therefore has the first nonce drawn every time: a
  nonce is only compared with the one stored for the same receipt.
- `power_loss` needs an issue, an execution, a loss that undoes one or both, and
  a retry; the second loss strikes the retry.  A process dying alone is the fault
  of `two_processes`.
- `artifact_state`: the cut of the list shows with three artifacts; six let both
  processes append after each of two faults.  The real cap is 200.
- `store_open` starts from each combination of identity, version, tables,
  damage, migrated column and triggers; two faults interrupt a start and its
  retry, or both openers.
- `growing_work`: the gate and the score are step functions, so `MCGrowingWork`
  takes for each signal 0 and the least value reaching each step.  The
  constraint `OneGrows` lets either the change or the trend grow, because the
  gate reads only the one and the score only the other, and lets the two names
  that only `detect_triggers` reads grow only while the signals of the later cold
  rules are absent; under the third name the number meets all of them.  The run does not check
  deadlock: growth ends when every signal is at its largest.

Symmetry is used on receipt ids, nonces and processes, in runs without
liveness properties only; no specification distinguishes their members, except
`RoundTrip`, which takes the least unused id and uses no symmetry.

Each property of a passing run has a mutant: a definition changed as a
plausible bug would change it (a `BEGIN` without lock, a rejection without
ROLLBACK, a forgotten nonce, a window between two thresholds, a `push` for an
`unshift`, ...), with which the run finds the property violated.  The mutants
stand before the definition they change.

## 4. Fairness

`StoreOpen` assumes weak fairness of `Open(s)`, the synchronous code at
start-up.  Nothing is assumed of crashes or restarts: `SomeoneOpens` speaks of
processes that were started, and gives way when one of them is interrupted.

`RoundTripSpec` assumes weak fairness of `GetsOn(s)` for each client and its
process, which is three things that never compete, because the label of the
process enables one of them at a time:

- `Serve(s)`: the handler is synchronous code, and a statement that waits for
  the lock of another process ends after `busy_timeout` (5 s) with an error, so
  a process that has a call gets on with it.
- `Send(s)`: a client that is not done sends its next call.
- `Recover(s)`: a server that died is started again.

The first is a fact of the code, the other two are what `GetsThrough` asks of a
client.  Nothing has to fail, and the clock stands
still: a receipt lives for five minutes, a round trip takes milliseconds.  Weak
fairness is enough although a writer can be kept waiting: waiting ends in an
error, and `SoFarSoGood` allows one such error, so a lock that is never given
back shows as a client that never gets through.

## 5. Where documents and code disagree

Each is a `violation` run and a finding in `PROJECT.json`, with the line quoted.

| Run | What the code does |
|---|---|
| `plan_binding` | EXECUTE with signals that need no confirmation consumes the receipt of another plan and is logged as accepted |
| `rejection_evidence` | an EXECUTE rejected for its plan hash leaves no `execute.rejected` event |
| `consumption_evidence` | a crash or a failing INSERT after the COMMIT leaves a consumed receipt without `receipt.consumed` |
| `duplicate_receipts` | two processes that both find no active receipt each issue one |
| `first_start` | a process killed between two `CREATE TABLE` leaves a file every later start rejects as PARTIAL_SCHEMA |

Noticed while reading, without a run:

- In full mode the blackhole rule cannot fire: `toInfraSignals` does not hand
  its signals on (`modules/policy/evaluate.ts:144`).  The model has
  `Blackhole(NoTrend)` there for that reason.
- With the default configuration the AI momentum rule adds nothing: its
  threshold on files is the warning threshold.
- `detect_triggers` never looks at `files_touched`, which is what `assess` counts;
  it takes the median of the files per change, under two names, or
  `filesTouched` for it, and evaluates that in full mode whatever mode the server
  is in.  So the two tools disagree about the same signals either way: a median
  sent without `files_touched` is a warning to `detect_triggers` and is allowed by
  `assess` in full mode, and `files_touched` sent alone is nothing to
  `detect_triggers`.  `HintHarsher` says when it is the stricter one: exactly when
  its number is over a threshold that `files_touched` has not reached, and the gate
  has no other reason to be as strict.
- The expiry is compared with the timestamp of the call (`server.ts:335`), taken
  before the waits of its statements: a receipt that expires meanwhile is
  consumed.  When the clock is set back, an expired receipt can be executed.
- A client whose accepted EXECUTE got no answer is told `REPLAY_DETECTED` and
  handed a replacement; confirming that executes the plan a second time with a
  second receipt.  One execution per receipt is what the code promises, not one
  per plan.
- A power loss may undo an accepted execution, and the receipt can then be
  accepted again: `ExecutedOnceBetweenLosses` is all that is left of
  `ExecutedOnce`.
- A rejected EXECUTE hands out a replacement without a telemetry line, so the
  execution rate of the report may exceed 100 %.
- An artifact whose append failed may turn up in state.json later, and the array
  of `DEFAULT_STATE` grows for as long as no file can be read.
- The archived round-trip demo presents no nonce, which `normalizeConfirm` takes
  for the legacy confirmation: it never reaches `consumeReceipt`.
- `decision.assessed` carries `EXECUTE_ACCEPTED` before the receipt is consumed,
  and `REQUIRE_CONFIRM` for a plain ALLOW; it names the drawn receipt although
  another is reused.  `LogSound` is about the later events for that reason.

## 6. Proofs

Every safety property that a passing run checks is also a theorem, checked by
TLAPS for every value of the constants: any number of processes, receipts,
plans, nonces, calls, artifacts and faults.  The assumptions are the named ones,
`ReceiptsAssumption`, `ControlAssumption`, `ArtifactAssumption`,
`StoreOpenAssumption`, `PolicyAssumption`, `LevelsAssumption`, which TLC
evaluates in the runs; they say that bounds are natural numbers, that thresholds
are ordered, and that the values standing for "none" or for words of the code are
no ids.  `PROJECT.json` lists the theorems.  Each invariant below was checked by
TLC, on the instance of the run it belongs to or a smaller one, before it was
proved.

**Tables and transaction** (`ExecutionControlProofs`: `TypeCorrect`,
`StoreAtomicHolds`, `LifecycleHolds`).  `StoreAtomic` is not inductive: a COMMIT
applies what earlier statements left in `pending`, on the strength of a check
made before them.  `IInv` adds what links them:

- `TypeInv`: types; a handler at work serves a call that was received; inside
  `consumeReceipt` that call presented a binding; what is about to be marked
  consumed exists.
- `LockOwner`: exactly the process inside the transaction holds the lock.
- `Transaction`: what `pending` holds at each label, and that the verdict of
  `ConsumeVerdict` is still `ok` up to the COMMIT.

The argument: only the owner of the lock consumes or indexes, and while a
transaction is open nobody else writes the rows it checked (`Issue` needs the
lock free), so the verdict stays good and COMMIT moves one receipt and its own
key together.  Every interruption drops `pending` and the lock together.

**Logs and answers** (`ExecutionAnswersProofs`).  An answer is about a call whose
log was written several steps ago, and about tables that others have changed
since.  `LogInv` is `IInv` with what a call has recorded by the time it is at a
label, `AInv` adds its answer:

- `Served`: a call has one handler and then at most one answer, and a call that
  was not received has no log.  Without it two handlers could write one trail.
- `Handled`: what the handler knows at each label (`Assessed`, `Offers`,
  `Executes`), and the trail it has written.
- `Recording`: a trail is one of `Trails`, and every event is true of the tables.
- `Once`: of two calls that name one receipt, one at most has recorded its
  consumption or is between the COMMIT and that record.  This is the gap in
  which neither table nor log says who consumed it.
- `GoodAnswer`: what was true when the answer was made, in terms that stay true.

It is inductive because tables, log and calls only grow (`Growth`): what is true of
a binding (`Holds`, `Spent`), of a rejection (`Explained`) and of a confirmation
(`Rightful`) stays true, so each handler only has to be followed from label to
label.  `GateHoldsAlways`, `OfferedIsStoredHolds`, `LogSoundHolds`,
`AnswerEvidenceHolds`, `ExecutedOnceHolds` and `QueriesAgreeHolds` follow.
`ImplementsGateHolds` maps each step: `Issue` offers, `CommitConsume` grants, the
answer to an accepted call announces, all others stutter.  That nothing is granted
before it is offered is `Transaction`, that nothing is announced twice is `Once`.

**Time** (same module).  Two theorems have hypotheses, which are those of the runs.
`TruthfulErrorsHolds` assumes that the clock is not set back (`~Backwards`): a
receipt called expired would be valid again.  `TimeInv` says that no handler's
timestamp is ahead of the clock and that what was called expired is.
`OneLiveReceiptPerPlanHolds` assumes moreover `OneServer`: the run
`duplicate_receipts` shows two processes that break it.  `Successive` says
that of two active receipts of one plan the first had expired when the second was
issued, and that nothing was issued since the call in service took its timestamp.

**Telemetry** (`InterruptionsProofs`).  `ConfirmedBackedHolds`, from `Confirmations`: a
confirmed line is of a call that is over, so its log has its last word
(`OverStable`), and `Once` makes it the only one of its receipt.
`UnpromptedExplainedHolds`, from `Prompting`: every stored receipt was prompted for,
or a handler is about to hand it out.  It assumes one process and `MaxFaults = 0`,
as in its run: a process that dies, or waits in vain for the lock of another,
after it has issued a receipt leaves one nobody was prompted for, which a client
may present all the same.

**Round trips** (`RoundTripProofs`).  `HonestRejectionsHolds` and
`MisuseContainedHolds`, from `RInv`: `InTime` (the clock stands still, so no
receipt expires), `Handed` (what a client holds is stored, for its plan), `Honest` (a call
that was not misused presents what fits, so `REPLAY_DETECTED` is all that can be said
of it) and `Misusing`: a misused call is `Exempt`, its signals need no confirmation
and it presents what is stored, or it is `Contained`.  Contained calls are stopped by
the assessment, or what they present is `Foreign` by the time it is checked: stored
under another binding, or an id that no one has or is about to have.

**Loss of power** (`PowerLossProofs`).  `AtomicAcrossLosses`, `LogSoundAcrossLosses`,
`ExecutedOnceBetweenLossesHolds`, from `PInv`.  Here tables and log do not only
grow.  What is left is that `LogInv` speaks of no answer: it holds of every
commit (`Sound(x)` for all `survivors`), and so again after an `Outage`, which
leaves nobody at work (`RestoredLogInv`).  Answers are vouched for while their call is
`Current`, received since the last loss; two accepted calls for one receipt that are
both current contradict `Once`.  TLC has checked `PInv` with three calls and one loss,
and with two of each.

`TelemetryIsExecution` and `RoundTripIsExecution` state that these
specifications implement `ExecutionControl`, so that its theorems hold there.
`PowerLoss` does not: `Outage` takes back what was committed.

**state.json** (`ArtifactStateProofs`).  `TypeCorrect`, `NewestFirstHolds`,
`KeepsUndisturbedHolds`, `FailedOnlyFromFallbackHolds`, from `AppendInv`: `Listings`
(every list, file or array is in order and holds nothing newer than the last
append), `Own` (what is being appended, or failed, is in no other list, unless it
went into a default array) and `Undisturbed` (while no append is disturbed one
process at most is at work, and its list continues the file).

**Store opening** (`StoreOpenProofs`).  `ForeignUntouchedHolds` from `OnlyRead`: with a
file that must be refused, every process is still at a reading label, and one at the
columns will find them damaged.  `OpenIsCompleteHolds` from `Stamped`: past its
identity and version statements a process has them in the file, and an open one has a
sound file; no statement of any process takes anything away (`FileGrows`).
`MigrationCrashSafeHolds` from the same lemma.  `SupportedAcceptedHolds` from
`Accepting`: a process past a creating statement finds what it created, whoever
else migrates, so the last check cannot fail.

**Growing work** (`GrowingWorkProofs`).  `GateGrows` and `RiskGrows` show the gate and the
score monotone over all naturals, one lemma per part of the score; `Growth` shows that
every action grows the change or the trend.  `GateMonotoneHolds`,
`RiskMonotoneHolds` and `HardStopKeptHolds` follow.  `HintHarsherHolds`
rests on `NoBlackhole` (the full policy sees no trend), `HintFromFiles` (the
hint is decided by one number and two limits) and `GateOfFiles` (the gate has
reached neither limit in `files_touched` when it is milder).

Only model-checked: `GetsThrough` and `SomeoneOpens`, because liveness under fairness
is out of the prover's reach.  No module has a RECURSIVE operator.

Two things came out of the proofs.  `ControlAssumption` has to keep `None`
apart from the errors of `consumeReceipt`: a handler without an error would
otherwise count as rejected.  And the unused receipt id that `RoundTrip` draws is
a member of a set, not a CHOOSE, which says nothing once all ids are used.

## 7. Plan

Done, in this order: `Receipts`, `ExecutionControl`, `ExecutionGate`, `StoreOpen`,
`Policy`, `RiskScore`, `GrowingWork` and their first theorems; the clock set back and
the remaining queries in `ExecutionControl`, `Interruptions`, `RoundTrip`,
`PowerLoss`, `ArtifactState` and the hint of `detect_triggers`; then theorems for
every safety property.

What could still be added:

1. The expiry against the clock instead of the call's timestamp (`server.ts:335`, the
   hazard without a property): how late a receipt can be consumed is a question of
   `busy_timeout`, which has no length in the model.
2. An abstract specification of the store under loss of power, a log of commits of
   which a suffix may be cut, and a proof that `PowerLoss` implements it.
3. Weaker hypotheses for `UnpromptedExplained`: faults, with receipts that a dead
   process left behind as a third explanation.
4. The composition of `StoreOpen` with `ExecutionControl`, a process that opens the
   file again while others serve calls.  Little is to be learnt from it: `FileGrows`
   shows that an opener takes nothing away from the file, and the handlers read
   nothing that a migration changes.

## 8. Not modelled

- Transport, tool schemas, payload formatting, exit codes, logging and
  re-exports: pure I/O and fixed texts.
- `plan` and `followup`: fixed answers.
- `setCooldown` and `isInCooldown`: nothing calls them.
- Time windows, rates and rankings of the telemetry report: arithmetic on a file
  that was already read.
- The clamping of texts and the suggested exits of the policy: no decision reads
  them.  Hashing is a value per class of signals.
- Indexes of the store, which nothing checks, and `listAll` of the log.
- The scripts and tests that call single functions, CI and documents.
