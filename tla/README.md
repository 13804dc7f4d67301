# boolean-maybe in TLA+

`boolean-maybe submit` delivers one JSON Job Entry to an external service over
HTTP, at most once, from any number of short-lived processes that share one
SQLite file. This directory holds its TLA+ model, the TLC configurations that
check it, and TLAPS proofs about its core. Paths below are relative to the
repository; line numbers are in `PROJECT.json`.

## Inventory

| Component | State | Operations | Talks to |
|---|---|---|---|
| durable store (`persistence/transactions.py`, `rate_limit_gate.py`) | tables `jobs`, `submission_attempts`, `attempt_observations`, `service_rate_limit_gate` | authorize or defer, renew lease, claim expired attempt, finalize, authorize reconciliation, record reconciliation, append and consume observations, advance gate; each one `BEGIN IMMEDIATE` transaction | SQLite |
| submit workflow (`application/submit.py`) | one coroutine: resolved key, `submitted_this_invocation` | authorization loop, dispatch, finalize, render | store, client, recovery, reconciliation |
| recovery and waiting (`recovery.py`, `waiting.py`) | captured ownership, slept seconds | quarantine, claim, waits with lease renewal | store |
| reconciliation sequence (`reconciliation_sequence.py`) | GETs made, not-before, last evidence | late evidence, authorize, GET, observe, gate, finalize | store, client |
| classification (`classification.py`) | none | HTTP result to evidence | - |
| external client (`external/`) | one connection, one deadline | POST, GET | service |
| simulated service (`simulator/service.py`, `state.py`, `scenario.py`) | processed records, ordinals, per-key locks | answer POST and GET under a scenario | - |
| simulator server (`simulator/server.py`) | worker semaphore, active threads and sockets | accept, work, shut down | service |
| schema, connection (`schema.py`, `connection.py`) | `user_version`, schema objects | create, migrate, verify | SQLite |
| delay policy (`backoff.py`, `retry_after.py`) | none | cap, jitter, parse, maximum | - |
| history projection (`history_projection.py`) | none | read attempts and observations | store |
| canonical JSON, keys, clocks, CLI, logs | none | pure functions and I/O | - |

Hard behaviours: several invocations interleave between any two transactions;
a process may be paused past its lease, killed, or cancelled at every await; a
POST may be processed after the client gave up on it and after the attempt has
a new owner; a stale owner leaves late evidence that the current owner may or
may not see in time; a service-wide 429 gate is shared by all jobs; the wall
clock may be stepped. `PROJECT.json` lists these hazards at their lines, with
the properties that cover them.

What makes the components correct:

* store: the tables agree, budget and delays hold, ownership is fenced,
  outcomes are final, evidence is used once and for the right attempt;
* workflow: one effect at most, stored and reported outcomes are true,
  `submitted` is honest, every invocation ends;
* client: the evidence an exchange ends with is true, wherever it broke off;
* simulator: one record per key, handlers of a key one after another, every
  worker permit accounted for, shutdown always ends;
* schema: an interrupted or repeated migration is a whole migration or none;
* connection: a transaction is whole or absent although threads share it;
* delay policy: never earlier than the server asks for, maximum of both sources.

## Modules

| Module | What it is |
|---|---|
| `JobLifecycle` | abstract specification: what the store promises about one job |
| `JobStore` | every transaction as an action, used by the most general client |
| `JobStoreProofs` | TLAPS proofs about `JobStore`: its inductive invariant and its action properties |
| `LifecycleProofs` | TLAPS proofs that `JobStore` implements `JobLifecycle`, and about late evidence |
| `Delivery` | abstract specification: what the user is promised about one job |
| `SubmitWorkflow` | invocations, the service and the clock, on top of `JobStore` |
| `WorkflowProofs` | TLAPS proofs about `SubmitWorkflow`: at most one effect, true outcomes and reports, and that it implements `Delivery` |
| `HandoverProofs` | TLAPS proofs about how attempts change hands in `SubmitWorkflow`, and that it is a client of `JobStore` |
| `WaitingProofs` | TLAPS proof about the wait budget of `SubmitWorkflow` |
| `RetryDelay` | backoff cap, `Retry-After` parser and their maximum, as sets of possible results |
| `RetryDelayProofs` | TLAPS proofs about `RetryDelay` |
| `RemoteService` | abstract specification: what a client may rely on about the simulated service |
| `SimulatorService` | the simulator's handlers, one access to a shared table per step |
| `SimulatorServer` | its accept loop, worker permits, handler threads and shutdown |
| `ClientExchange` | one exchange of the client with that server, or with a stranger: evidence and delay |
| `ExchangeProofs` | TLAPS proofs about `ClientExchange` and the two modules it extends |
| `DatabaseConnection` | processes and threads on SQLite connections, one statement per step |
| `ConnectionProofs` | TLAPS proofs about `DatabaseConnection` |
| `MCJobStore`, `MCSubmitWorkflow`, `MCClientExchange`, `MCDatabaseConnection` | constants for TLC |

The modules stand on three levels. `DatabaseConnection` is below `JobStore`: it
shows that a transaction is the one step it is there, whoever shares the file
or the connection. `JobStore` is the level of the promises about a job, and
`SubmitWorkflow` runs invocations on it. `ClientExchange` is beside them: it
composes the client with the simulator and shows that the evidence an exchange
ends with is true, which `SubmitWorkflow` takes as given.

### JobStore

`jobs`, `attempts`, `observations`, `gate` are the four tables, `clock` the
wall clock. A transaction runs under `BEGIN IMMEDIATE`, so one that commits is
one action; one that rolls back or only reads is no step. An instant is an
integer (timestamps are fixed-width text whose order is the order of
instants), NULL is 0. A row keeps the columns some code branches on; ids,
digests, diagnostics and remote request ids are left out. `evidence_category`
keeps the values the code distinguishes: 5xx, MAYBE_SENT and protocol-uncertain
evidence are treated alike everywhere and are one value, `"uncertain"`.

`finalize_submission_attempt` is split by disposition into `FinalizeSucceeded`,
`FinalizePermanentFailure`, `FinalizeRateLimited`, `FinalizeNotSent` and
`FinalizeRetained`. `Owns` is `_owns_active_attempt`; it is part of every
guarded transaction and missing, as in the code, from `AppendObservation`,
`AppendLateObservation` and the gate. The CHECK constraints that a stepped
clock can violate (`updated_at >= created_at`, `completed_at >= started_at`)
are guards: the statement raises and nothing is committed.

`Next` lets any token run any transaction on any attempt at any time. It is
therefore a superset of what the application does, which the property
`WorkflowUsesStore` checks and `WorkflowIsAClient` proves, and whatever is
proved of `JobStore` holds however invocations are interleaved, paused or killed.

### SubmitWorkflow

A token is one invocation, `inv[t]` its coroutine, with `pc` at the awaits:

| `pc` | code |
|---|---|
| `authorize`, `wait` | loop of `_run_with_connection`, `wait_if_it_fits` |
| `sleep` | `WaitBudget.sleep`; `then` says what follows |
| `claim` | `recover_and_reconcile` after the quarantine |
| `renew`, `post`, `posted`, `finalize`, `appendLate` | `_dispatch_and_finalize` |
| `late`, `reconcile`, `reconWait`, `reconRenew`, `get`, `observe`, `advanceGate`, `backoff` | `run_reconciliation_sequence` |
| `lastLate`, `record`, `appendLateGet` | `_finalize` of the sequence |
| `done`, `crashed` | the process is over, with or without a report |

`wire[t]` is the POST of the invocation, an entity of its own: `Dispatch`
sends it, `Deadline` gives up on it, `Arrive` is the service taking it, which
may come after the deadline, after the process is gone and after a takeover.
An invocation sends another POST only when the one before was answered, so one
slot is enough. `remote` and `accepted` are the service: it binds a key to a
payload and, deliberately weaker than the simulator, accepts a POST again when
it comes again, so `AtMostOnceEffect` is a property of the client. It may
answer 400, 429 or 5xx to anything and 429 to a GET, which the client handles
although the simulator does not do all of it.

Faults: `crash` (killed, or cancelled where cancellation does nothing more),
`persistence` (a transaction raises and is rolled back), `cancel` (cancelled
during the renewal before dispatch, which completes the attempt as not sent),
`foreign` (another client binds the key at the service).

### SimulatorService, SimulatorServer, ClientExchange

`call[r]` is a request, `handler[r]` the thread that handles it; `pc` goes
through `process_request_thread` (`spawned`, `reading`), the handlers of
`service.py` (`lockFor`, `enter`, `inspect`, `decide`, `waiting`) and `_deliver`
(`deliver`, `finish`). `lockTable`, `ordinals` and `records` are the three
tables of `KeyCoordinator`; each has a guard, so one access is one step, and
what makes several of them one is the lock of the key, a request's name for the
thread that created it. `Enter` is the lock together with the ordinal, which no
other thread reads without that lock. A scenario plan is a function; the
operators `Resolve` and `ResolveAction` are those of `scenario.py`. `valid` says
whether a request passes the checks of `server.py`; one that does not is answered
400 before any table is looked at, which the client reads by its operation: a
POST was rejected, a GET told nothing.

`loop` is `serve_forever` with the connection it holds while it waits for a
permit, `main` is where `shutdown_and_close` stands: called after an interrupt
of the loop, as `simulator/cli.py` does, or while the loop runs in another
thread, as the tests do. `wire[r]` is the connection as the client left it and
`reply[r]` the answer on its way. A socket is closed under its handler
(`cut`), and a client may stop in the middle of a request for good.

`client[r]` is what `submit_job` or `reconcile_job` made of the exchange.
`ConnectFails`, `GiveUp` and `ReceiveAnswer` are the three results of
`send_request`; `GiveUp` is enabled whenever the exchange is under way, since
the deadline may pass or the socket fail at any moment. A `stranger` may answer
with any status, shape, digest and header, which is what the classification has
to withstand; only there is `Settle`, the delay a 429 leads to, checked.
`RoundedUp` has two results where the float product of
`math.ceil(delta_seconds * 1000)` may be a little too large.

### DatabaseConnection

`file` is what is committed, `draft` what the open transaction made of it,
`lock` the connection that is in a transaction. `main[p]` is the coroutine of
a process from `open_connection` through its first authorization and renewal to
its end, `thread[p][k]` the thread of `asyncio.to_thread` that runs one of its
transactions: cancelling the `await` leaves it running, or withdraws it if it
has not started. Since the processes use jobs of their own, what they share is
the file and its lock. A row holds the transaction that wrote it last. Faults:
`crash`, `busy` (BEGIN is refused after five seconds), `error`
(`OperationalError`), `check` (any other exception after the first statements,
which nothing rolls back until the connection is closed).

## Runs

| Run | Question | Size |
|---|---|---|
| `store_budget` | invariants, fencing, `ImplementsLifecycle`: 1 job, 3 attempts, clock to 4 | 1,050,000 states |
| `store_gate` | the gate across 2 jobs, delays 0 and 2 | 212,000 |
| `store_late` | two late rows against completion, retry and takeover; agreement of the tables, retry delay, final outcomes and fencing with the clock stepped back and forth | 2,561,000 |
| `flow_effect` | effect, truth of outcomes and reports, `ImplementsDelivery`: two Job Entries under one key, all faults | 702,000 |
| `flow_takeover` | three invocations take one attempt over in turn: evidence used before giving up, `TermsAreExclusive` | 898,000 |
| `flow_ends` | chunked waits, two GETs, `WorkflowUsesStore`, `WaitsFitCeiling`; `InvocationEnds` when the other invocation may crash | 109,000 |
| `exchange` | the simulator with two requests under nine workloads, one or two workers, shutdown at any moment; a stranger with every answer; `ImplementsService`, `ShutdownEnds`, `RequestsEnd` | 280,000 |
| `connection` | eight kinds of file, two processes, all faults, both cancellations; `ProcessesEnd` | 238,000 |
| `doc_submitted`, `doc_not_found`, `doc_sleep`, `doc_cancel` | sentences of the feature specification or of a comment the code does not keep | violations |

Every property of a passing run has a mutant in `PROJECT.json`, `EvidenceIsTrue`
one for a broken exchange and one for a rejection: an operator
marked `Mistake:` in the modules, which replaces the definition it stands
before and makes TLC find the property violated.

Bounds. A job needs two attempts for anything about retries and three to see
the middle of the budget; a lease of one or two units and a takeover need two
tokens, a second takeover a third. The time unit is the quarantine (ten
seconds). In the workflow runs the lease is shorter than the real six units,
so takeovers come sooner and more often than in reality; `doc_sleep` uses the
real ratios. `LastTick` bounds how far time passes by itself; sleepers may move
it further, and `MaxClock`, `MaxGeneration` and `MaxObservations` are large
enough in the workflow runs that no guard on them is ever the reason for
stopping. In the store runs they cut the state space: `MaxGeneration` 2 allows
one takeover of each attempt, `MaxObservations` bounds the rows that
`FinalizeRetained` and the two appends add, never those of a completing
transaction. In `exchange` two requests are enough
for every pair of operations on one key, and one worker for every wait on a
permit; a second key lets a request for one key pass another that waits on
the other; `BaseDelay`, `MaxCap` and `MaxServerDelay` are scaled down, so that three
ordinals reach the cap and a header of three seconds exceeds the maximum, and
the instants lie at, just before and just after a whole millisecond. In
`connection` each process runs once; two are enough for one to find what the
other left.

Deadlock is not checked: when all invocations have ended and the
clock is at its bound nothing is left to do. Tokens are symmetric, except in
`flow_ends`, where symmetry would be unsound.

Fairness. `FairWorkSpec` assumes weak fairness of `Proceed(t)`: a live process
is scheduled, a transaction ends (`busy_timeout` bounds waiting for the lock),
a sleep ends, a request meets its deadline (`send_request` enforces it). No
fairness for `Arrive`, for faults or for the clock: the service owes no answer.
`FairExchangeSpec` assumes it of the accept loop, of the thread that closes the
server, and of each handler thread, whose wait is bounded by
`RealWaiter.DURATION_SECONDS`; a lock or a permit that stays free is taken.
Nothing is assumed of a client. `FairSpec` of `DatabaseConnection` assumes it
of every process and every thread; weak fairness of `BEGIN` is enough because a
transaction is made once per process.

## Divergences found

* `doc_submitted`: `AlreadyCompleted` reports `submitted = false` even when
  this invocation POSTed before (429, wait, another invocation succeeded).
* `doc_not_found`: late evidence is not checked before the terminal
  `AMBIGUOUS` that follows a 404.
* `doc_sleep`: the quarantine ignores what is left of the wait ceiling.
* `doc_cancel`: a cancelled renewal leaves the attempt `STARTED` when its thread
  is in its transaction: the completing transaction then begins on the same
  connection, raises, and is swallowed. The comment at `connection.py:40` says
  that access is never concurrent.

Read but not run: `ownership_lost` carries a literal or stale `SUBMITTING`;
a `Retry-After` of more than 4300 digits makes `int()` raise instead of being
rejected as overflowing; cancellation during the authorization leaves a
`STARTED` attempt nobody sends; an `IntegrityError` leaves the transaction open
until the connection is closed; a permit is lost when a handler thread cannot
be started; `append_observation` stores a stale owner's GET with
`is_late = 0`; a late reconciliation conflict is stored with status 200 and is
never actionable, which requires 409; a stale owner's 429 reaches the gate only
when it is consumed; the lease is not renewed after an HTTP observation.

## Proofs

`JobStoreProofs` proves, for every value of the constants satisfying the named
assumptions of `JobStore`:

* `TypeCorrect`, `TablesNeverDisagree`, `BudgetNeverExceeded`,
  `RetryDelayAlwaysHonoured`: `Spec => []` of the invariants the runs check;
* `OutcomesStayFinal`, `TakeoverAlwaysFenced`: the action properties, with any
  clock;
* `LostOwnershipStaysLost`: `OwnershipNeverRegained`, assuming the clock is
  not stepped back (`ForwardClock`); with a clock stepped back an expired
  lease becomes valid again, so the assumption is needed;
* `RateLimitAlwaysQuiet`: `RateLimitWindowQuiet`, also under `ForwardClock`,
  since a 429 recorded after a step back may carry an instant before a start
  that was made legitimately. It compares rows of different jobs; the inductive
  argument is that the gate covers every recorded 429 (`GateCovers`), that a
  start finds the gate in the past, and that every recorded start lies in the
  past (`StartedInPast`), so that a 429 recorded now finds no start after it. It
  is about the 429s recorded with an attempt. One that answers a GET raises the
  gate, too (`AdvanceGateForReconciliation`), but leaves no row with its delay
  and its instant that a start could be compared with.

None of the invariants is inductive alone. `StoreInvariant` establishes their
strengthening: besides types and table agreement it says what the row of a
STARTED attempt and of a completed one look like, that an absent job has no
rows, that a retryable job has budget left, and that successive attempts are
separated by their delay. Each transaction is one step of the proof, and the
transactions share the lemmas about the pieces they are made of (`Complete`,
`Authorize`, `SetLease`, ...).

`LifecycleProofs` builds on the same invariant:

* `StoreImplementsLifecycle`: `Spec => ImplementsLifecycle`. The mapping is
  the one of the runs: the stage of a job from its row and, when it failed,
  from its latest attempt; the tries are its attempts. `StartAttempt` is a try,
  `DeferAttempt` of an unknown key an acceptance, each completion the
  corresponding settlement, everything else leaves the abstract state alone;
* `ConsumedEvidenceHolds`: `ConsumedEvidenceDecides` is inductive relative to
  the invariant of the store. A consumed row stays decided since a completed
  attempt never changes, and it stays the only one of its attempt since a
  consumption finds the attempt `STARTED`.

`RetryDelayProofs` proves `DelaysKeepServer` for every header, clock, ordinal
and jitter: the delay keeps what `Retry-After` asks for, within a millisecond
of rounding, and is bounded by it or by the cap. That the cap is a natural
number is an assumption (`CapAssumption`): it rests on powers of two, which
the provers do not compute; TLC evaluates it for the ordinals of the run.

`ExchangeProofs`, under `ServiceAssumption`, `ServerAssumption`,
`ExchangeAssumption` and `CapAssumption` (types and bounds of the constants,
and that a `Workload` is well formed), for any number of requests, keys and
workers:

* `ExchangeTyped`, `KeysSerialized`, `PermitsNeverLeak`, `EvidenceHolds`,
  `ServerIsKept`: `ExchangeSpec => []` of the invariants of the run;
* `ServiceImplemented`: the handlers implement `RemoteService`. `Decide` under
  the lock of the key is the instant at which a request is handled; every
  other step of threads, loop, sockets and clients is a stutter.

Their inductive invariant has three parts. Of the handlers (`ServiceInv`): a
thread past `lock_for` has the lock that is in the table, and holds it until it
has decided; ordinals are given once, under the lock; only the first POST of a
key may be answered 429; what a thread has seen is still so when it decides; an
answer is true of the records. Of the server: the accept loop has its
connection in its hands while it waits (`LoopHolds`), and permits, running
threads and lost permits add up (`PermitsAccounted`). Of the clients: an answer
on its way is the one its handler gave (`Served`), and a conclusion comes from
such an answer or from nothing (`Concluded`). The truth of evidence needs all
three: it compares what a client holds with a table it cannot see.

`ConnectionProofs`, under `ConnectionAssumption` and `SchemaAssumption`, for
any number of processes and for every initial schema:

* `ConnectionTyped`, `MigrationIsWhole`, `TransactionsStayWhole`:
  `ConnectionSpec => []` of the invariants of the run;
* `ReadyIsMigrated`: the action property of an opened connection.

`ConnectionInv` says who holds the lock and that of the threads sharing a
connection one is in a transaction (`Locks`); what the open transaction has
made so far: of a migration, that the objects behind it are its own and were
absent, and those ahead are as they were (`Migrating`); of a row, which
statements are done (`Written`). Each step is proved for the process that
makes it; one lemma (`OthersStay`) shows that the others lose nothing, since a
commit touches only the rows of its own process and there is no draft without
the lock.

`WorkflowProofs`, under the assumptions of `JobStore` and those of
`SubmitWorkflow` (`WaitAssumption`, `PayloadAssumption`), for any number of
keys, payloads and invocations, any delays and all faults:

* `WorkflowTyped`, `EffectAtMostOnce`, `OutcomesAreTrue`,
  `SubmittedStaysHonest`, `ReportsHold`: `WorkSpec => []` of the invariants of
  the runs;
* `WorkflowImplementsDelivery`: `WorkSpec => ImplementsDelivery`. The `Arrive`
  that accepts a POST is the abstract effect, a completion is the verdict, and
  everything else is a stutter;
* `WorkflowKeepsOutcomes`, `WorkflowKeepsTables`: the promises of the store,
  kept by the application. `JobStore` proves them of `Next`, whose guards carry
  the bounds of the most general client; the steps of `WorkNext` have none of
  these bounds, so they are proved of them directly, from the lemmas about
  the transactions.

`WorkInvariant` establishes the strengthening `FullInv`: the invariant of the
store, types, and what the store cannot see, for each key and each invocation.

* For a key (`KeyInv`). The service accepted at most one POST, for the job's
  payload (`ServiceAgrees`). At most one POST is in flight and none once one
  was accepted, at most one invocation is between its claim and the end of its
  exchange, and while an invocation has yet to POST or holds negative evidence
  nothing was accepted and nothing is on its way (`OnePost`). A job that may be
  submitted again is silent: nothing accepted, in flight or about to be sent;
  a failed one is silent or its key is bound elsewhere; a succeeded one was
  accepted (`Judged`). A late row that may be consumed is true of the service
  (`LateRows`).
* For an invocation (`TokenInv`). Its evidence is true (`Truth`); it knows an
  attempt of a job that has its payload (`Routed`); `submitted` says whether
  it POSTed (`Honest`); what it reports is what the row says (`Reported`).

That is why the effect is unique although a lease may expire during a POST: a
takeover does not send, it reconciles; only a completion makes a job
submittable again; and a completion as retryable needs evidence that the one
POST had no effect, which the invocation that sent it holds or left as a late
row. Every step is of one of four kinds (it moves no POST nearer; it decides a
job on true evidence; it sends, answers or loses the POST of one key; it leaves
a late row), and a closing lemma for each kind (`StepKeeps`, `DecisionKeeps`,
`OnlyMineKeeps`, ...) does the conjuncts once.

`HandoverProofs`, under the same assumptions, is about the fencing terms
(attempt, generation) that invocations act under:

* `TermsStayExclusive`, `InconclusiveUsesEvidence`: `WorkSpec => []` of the
  invariants of `flow_takeover`;
* `WorkflowTransacts`: every step of `WorkNext` is a `Transaction` or leaves the
  store alone. `Transaction` says how the application calls the store: as the
  owner with the current generation, or with late evidence of a generation that
  was granted. It carries no bound;
* `WorkflowIsAClient`: `WorkSpec /\ []WithinBounds => WorkflowUsesStore`, where
  `WithinBounds` says of clock, generations and rows what the guards of `Next`
  say, if the most general client may report what a stale owner does and the
  clock may move to any instant ahead (`MCSubmitWorkflow` satisfies both);
* `WorkflowFencesTakeovers`, `WorkflowRegainsNothing`, `WorkflowKeepsQuiet`,
  `WorkflowConsumesOnce`, `WorkflowImplementsLifecycle`: what is proved of
  `JobStore`, kept by the application without those bounds. The second and the
  third need a clock that is not stepped back, which `SubmitWorkflow` assumes
  (`ForwardAssumption`).

`InconclusiveUsedEvidence` is not inductive. An invocation that was fenced off
does not know it, and goes on recording GETs; one under the last generation of
an attempt already given up would make evidence overlooked that was not. That
nobody can do this takes the whole of `HandInv`: who acts under a term was
granted it (`Granted`), and is alone in that (`TermsAreExclusive`); who is about
to give an attempt up has seen every late row that came before its GETs
(`UsedEvidence`), and being the only holder of the last term, leaves none behind
(`Closed`). In a step at most one invocation moves; it keeps its term, or takes
one that this step has created with a generation no attempt had before (`Turn`).
That a term newly granted is nobody's is the point of comparing owner,
generation and lease again in the claim, after ten seconds of quarantine.

The promises of the store are then one lemma each: the step lemmas of
`JobStoreProofs` and `LifecycleProofs` are about kinds of steps, not about
`Next`, so that they serve both.

`WaitingProofs` proves `WaitsStayWithinCeiling`. `WaitBudget` is asked once for
a wait that is slept in chunks, with renewals of the lease between; its
invariant says that in the middle of such a wait what was slept and what is
left fit the ceiling (`WaitInv`). The quarantine is exempt, as in the code;
that `SleepsWithinCeiling` fails because of it is what `doc_sleep` shows.

Only model-checked: liveness (`InvocationEnds`, `ShutdownEnds`, `RequestsEnd`,
`ProcessesEnd`), which is beyond the prover, and the violations of the four
`doc_` runs. Every other property of a passing run has its theorem.

## Not modelled

Parsing, canonicalization, rendering, logging and the command lines; generated
idempotency keys (nobody else uses a fresh key, so it is a key with one
invocation); remote request ids and diagnostics; an adapter that raises (it
catches everything it calls); corrupted rows, which `JobMatchesAttempts` shows
to be unreachable by transactions. `SubmitWorkflow` assumes a forward clock, as
its sleeps are monotonic and would otherwise need a second clock. The history
projection reads rows after the outcome is fixed, decides nothing, and its
failure is swallowed. Of the simulator: draining of an oversized body, the end
of daemon threads with the process, a bind that fails. Of the connection: the
read-only transaction of a lookup that finds nothing to write, and what follows
the dispatch, which is `SubmitWorkflow`.

## Plan

1. `HistoryProjection`: what the projection shows while others commit.
2. A proof that the service of `SubmitWorkflow`, one step for a POST or a GET,
   allows what `RemoteService` promises.
