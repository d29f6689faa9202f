# Verification of the ledger

TLA+ specifications of the event-sourced double-entry ledger in `src/`, the TLC
configurations that check them on small instances, and TLAPS proofs for the
properties that were proved for every instance. `PROJECT.json` maps each
definition to the source lines it models, lists the runs, the mutants that show
each property can fail, the hazards and the theorems.

Source paths below are relative to `src/src/ledger/`.

## 1. Inventory

| Component | State | Operations | Modelled by |
|---|---|---|---|
| Account aggregate, `domain/accounts/` | status, currency, available and reserved buckets, applied operation ids | open, deposit, hold, release_hold, debit, credit, freeze, close | `Account` |
| Transfer aggregate, `domain/transfers/` | status, failure reason | initiate, mark_held, mark_posted, complete, fail, park_for_reconciliation, reconcile | `Transfer` |
| Transfer workflow, `temporal/workflows/` | status, `holding`, `posted`, pending resolution | run, its compensation, `_await_resolution`, the resolve signal | `TransferSaga` |
| Transfer activities, `temporal/activities/` | none of their own | ten activities: load, decide, append | `TransferSaga` |
| Journal, `domain/ledger/` | one immutable entry per stream | post, reversal, the posting service's account checks | `Journal`, `TransferSaga` |
| Aggregate base, repository, `domain/shared/aggregate.py`, `eventstore/repository.py` | version, pending events | load, save at the expected version | `TransferSaga`, `EventStore` |
| Postgres event store, `eventstore/postgres.py` | the `events` table, its identity sequence, an advisory lock | append, load_stream, read_all | `EventStore` |
| In-memory event store, `eventstore/memory.py` | one list | the same, atomically | `EventLog` |
| Outbox relay, `outbox/` | the durable checkpoint | run_once, drain, restart | `OutboxRelay` |
| HTTP operations, `api/routers/` | none of their own | open, deposit, freeze, close, create_transfer, resolve_transfer | `TransferSaga`; with the Idempotency-Key header `Idempotency`; the queries `ReadModels` |
| HTTP idempotency store, `api/idempotency.py` | a claim or a stored response per key and route | claim, complete, discard | `Idempotency` |
| Read models, `projections/` | balances, statements, an in-memory checkpoint, an asyncio lock | catch_up, balance_of, statement_of | `ReadModels` |
| Serialization and upcasting, `eventstore/serialization.py` | registered event classes | register, deserialize | `Serialization` |
| Event feed, wiring, settings, auth, health, telemetry, showcase | none or fixed at start | | not modelled |

**How they interact.** An HTTP request starts a workflow per transfer. The
workflow awaits one activity after another: `record_initiated`, `hold_funds`,
`post_journal`, `settle_debit`, `settle_credit`. Each activity loads an aggregate
from the event store, lets it decide, and appends at the version it loaded; most
then record a milestone on the transfer's stream in a second append. Temporal
retries a failed or lost attempt (5 times, 3 for the credit). A failure before
the credit is compensated (`release_hold`, `reverse_journal`, `fail_transfer`); a
failed credit parks the transfer until an operator signals a decision. The relay
and the read models tail the same event store by global position. A deposit or a
transfer request with an Idempotency-Key claims its key before the work and records
the response after it.

**What makes it correct.**

- Account: no bucket goes negative, an operation id is applied at most once.
- Transfer: the status moves along the legal edges and never claims what did not
  happen.
- Saga: money is neither lost nor paid twice, a failed transfer leaves nothing
  behind, every transfer settles, the two records of the outcome agree.
- Event store: versions are contiguous, an append is atomic and checked, positions
  become visible in order.
- Relay: no committed event is skipped, order is kept, everything is published.
- Idempotency store: an acknowledged effect is not repeated under its key, and every
  answer is that effect's.
- Read models: each event applied once, a query sees the writes before it and ends.
- Journal: exactly the balanced entries are accepted.
- Upcasting: an old payload passes exactly the upcasters between its version and
  the current one.

**What is hard here.** Decisions are taken on a loaded copy and appended after
other awaits. An attempt can have its effect and be reported lost, then be retried
when the account has changed; it can even time out and run on beside its retry.
The workflow acts on what it was told, not on what landed. Conflicts use up
attempts. The hazards in `PROJECT.json` name the line where each of these bites.

## 2. Modules

| Module | Role |
|---|---|
| `Account`, `Transfer` | the aggregates as pure operators: a command gives the event, the error or nothing; `Apply` and `RecordTransfer` fold an event |
| `Journal` | journal entries as pure operators: balancing, posting, reversal |
| `Serialization` | registration and upcasting as pure operators |
| `TransferSaga` | composes the aggregates and the journal with the workflow, the activities, Temporal and the HTTP operations |
| `TransferLifecycle` | abstract: what the saga promises about a transfer's recorded status and its effects |
| `MCTransferSaga`, `MCTransferAdmission` | instances of the saga; the second also checks `Journal` on bounded entries |
| `EventStore` | the Postgres store, one step per SQL statement |
| `EventLog` | abstract: the in-memory store |
| `MCEventStore` | instance of the store, with symmetry |
| `OutboxRelay` | the relay, composed with `EventStore` |
| `Idempotency` | the idempotency stores and the two handlers that use them |
| `MCIdempotency` | instance of it |
| `ReadModels` | the projections, their runner and the queries, composed with `Account` and `Serialization` |
| `TransferSaga_proofs`, `Idempotency_proofs`, `EventStore_proofs`, `OutboxRelay_proofs` | theorems about these modules; the last builds on the one before |

### TransferSaga

`account[a]`, `transfer[t]` and `journal[t]` are the folds of the event streams;
their `version` is the length of the stream. `workflow[t]` holds the local
variables of `run` and the activity it awaits (`at`). `running` is the set of
activity attempts executing on workers, each with its program position, the event
it buffered and the version it expects. `resolving[t]` holds the operator
decisions that passed the check of `resolve_transfer` and are not signalled yet;
any number of requests may carry the same one, so a signal may leave it there.
`deposited` is a history variable.

Atomicity: the activities are coroutines and every store call is an await, so a
step is one load with the decision taken on it, or one append. `Command`,
`AppendAccount`, `AppendJournal`, `Milestone` and `AppendTransfer` are these steps;
each activity is the disjunction of its own. An HTTP handler that changes an
account is one step: it takes effect only if nothing was appended since its load.
`create_transfer` and the two halves of `resolve_transfer` are steps too.

Temporal is external. An attempt ends by returning (`ActivityReturns`), by raising
(`ActivityRaises`), by being lost at any point, after its last append included
(`AttemptLost`), or by timing out while its coroutine runs on
(`AttemptTimesOut`: a run with attempt number 0, whose result nobody awaits and
whose appends still count). `AttemptFails` retries or raises `ActivityError` in the
workflow, and the operators `OnReturn` and `OnActivityError` are the two halves of
the code after each await of `run`. The constant `WorkerFaults` says which of these
faults an instance has: `"interrupt"` loses attempts that have a retry left,
`"exhaust"` the last one too, `"zombie"` lets timed out attempts run on.

Abstractions: ids are model values; money is an integer and a currency; messages
and details are left out. An entry is posted by `Journal!Post` on the two legs the
activity builds, and `journal[t]` holds the kinds of entries on the transfer's journal
and reversal streams. Python integers do not overflow.

### EventStore and OutboxRelay

`events` are the committed rows, `sequence` the identity sequence (which a rollback
does not return), `append[w]` the transaction of writer `w`: loaded, waiting for the
advisory lock, locked, inserting. A statement sees what was committed before it
(READ COMMITTED), the unique key makes an insert wait for an uncommitted equal key,
and `Abort` rolls back between any two statements.

A relay process is waiting, reading or publishing; `checkpoint` is its durable row,
`published` the positions ever handed to the publisher. `Stop` loses all but the
checkpoint. Several processes may run: nothing in the code prevents it.

### Idempotency

`row[k]` is what the store holds under a key and route: free, claimed for a body, or
done with a response. `handler[r]` is the coroutine of the r-th request, at `claim`,
`lookup` (the second statement of the Postgres claim), its work (`load` and `append`
for a deposit, `start` for a transfer), `complete`, `discard`, or its answer.
`performed[k]` is the history of effects under a key, each acknowledged or not.
`backend` chooses the store: the in-memory claim is one step, the Postgres claim two.
`Die` ends a handler where its `except Exception` does not run (process gone, task
cancelled, the completing statement itself failing). In `AppendDeposit` and
`StartTransfer` the effect may happen and the await still raise. A body stands for its
fingerprint, and the response of a deposit is the balance after it, that of a transfer
its new id.

### ReadModels

`log` is the event log, written by whatever the account rules allow, with holes, events
of other streams and events the process cannot deserialize (a newer release writes to
the same log). `models` are the two projections, `lock` the queue of the asyncio lock
with its holder first, `query[q]` a query waiting, reading or ended. Between the two
suspensions (the lock, `read_all`) the code does not yield, so a batch is applied and
the checkpoint saved in one step; a projector that raises leaves the events before it
applied and the checkpoint behind. `Cancel` and `Restart` strike at any suspension.

### Journal and Serialization

Pure operators checked over bounded inputs against a reference: `Post` against "the
legs of each currency sum to zero, debits negative", `Deserialize` against a chain of
payloads, one per schema version.

## 3. Runs

All of them check deadlock. In the saga `Quiescent` marks the states where every
started workflow returned, died or is parked and nothing executes: there the system
may rest, anywhere else a state without successor is an error.

| Run | Instance | Properties |
|---|---|---|
| `saga_faults` | one transfer, 2 attempts, all faults, one abandoned run at a time, both accounts freezable | `TypeOK`, `NoStaleAppend`, `BalancesExplained`, `CompensatesWhatItKnows`, `ImplementsLifecycle` |
| `saga_contention` | two transfers from A to B, funds for one, up to one deposit on A and two on B, B may freeze or close, 5/3 attempts, reliable workers | `NoStaleAppend`, `BalancesExplained`, `NoSilentLoss`, `PaidOnce`, `OutcomesAgree` |
| `saga_retries` | two transfers, 2 attempts, lost attempts are retried, deposits, accounts stay open | `FailedLeavesNothing`, `PaidOnce`, `OutcomesAgree`, `BooksAgree`, `DiesOnlyHolding` |
| `saga_progress` | a transfer to an account opened meanwhile (and closable) and one to another currency, 3/2 attempts, lost attempts are retried; every journal entry of up to 4 legs | `MoneyKeepsCurrency`, `FailedLeavesNothing`, `Settles`, `Resolves`, `AcceptsExactlyBalanced`, `ReversalCancels` |
| `event_store` | three writers, two streams, batches of 2, four positions | `StoreTypeOK`, `StreamsContiguous`, `CommitOrder`, `ImplementsEventLog` |
| `outbox_relay` | two relays, two writers, three positions, batches of 2, one stop | `TypeOK`, `NothingSkipped`, `PublishedInOrder`, `EventuallyPublished` |
| `http_idempotency` | three requests, one key on both routes, two bodies, one request without key, either store, handlers that die, lost acknowledgements | `TypeOK`, `ClaimHeld`, `AcknowledgedOnce`, `AnswersTrue`, `MismatchMeansOther`, `ClaimsEnd` |
| `read_models` | two queries, four positions, batches of 2; every registration of up to 4 schema versions | `TypeOK`, `ModelsExact`, `AnswersCurrent`, `QueriesEnd`, `UpcastsExactly` |

What they show:

- Whatever the faults, the version check keeps stale decisions off the streams,
  each operation id moves money once, the balances of an account are explained by
  the operations on its stream, effects happen in causal order, and no recorded
  status claims an effect that did not happen. `TransferLifecycle` states what holds
  without any assumption; its claims about `failed` are weak, because the findings
  below show that the documentation's stronger ones do not hold under every fault.
  A transfer recorded `failed` has undone all its workflow was told of; what an attempt
  did without the workflow being told is not undone (see below).
- With reliable workers and the real retry limits, no money is lost in silence or paid
  twice and the outcome reported is the one recorded, even though a destination
  freezes, closes or is contended until a credit's attempts are used up, and operator
  decisions race.
- A workflow may die. Conflicts and lost attempts can use up the attempts of
  `release_hold`, whose error escapes the `except` clause: the hold then stays, as in
  the finding `frozen_compensation`, without any account being frozen. At the real
  limit of five attempts this takes five appends to the source racing one compensation;
  with the two attempts of `saga_retries` a lost attempt and a conflict are enough.
  `DiesOnlyHolding` shows that this is the only way to die there: before the debit, the
  hold in place, the stream saying `held` or `posted`.
- With lost and retried attempts and accounts that stay open, idempotent operation
  ids are enough: a failed transfer leaves nothing, money is paid once, the
  workflow's result is the recorded status, and once every workflow returned the
  journal explains the balances (but for refunds, see below).
- Every started transfer returns or is parked, and an operator who keeps asking for
  a refund ends a parked workflow.
- No money crosses currencies, although the destination's currency is looked at
  only when the journal entry is posted.
- The Postgres store implements the in-memory store, and commits positions in order.
- The relay skips nothing, keeps the order and publishes everything.
- `_assert_balanced` accepts exactly the balanced entries, and a reversal cancels its
  entry on every account.
- Although `complete` and `discard` name the key and not the claimant, a claim has one
  holder; an effect whose acknowledgement arrived is never repeated under its key, and
  every success told is that effect's. A claim ends unless its handler died: then the
  key answers "in progress" for good: the stores have no expiry.
- Each event is applied to the models once, and a query is told what the aggregates
  say at some moment between its request and its answer. After a projector raised in
  the middle of a batch the models count the events before it once more at every try,
  but no query gets past the event that made it raise, so none is told.
- A payload passes exactly the upcasters between its version and the current one.

**Bounds and why they are enough.** Two transfers between the same two accounts
give every pair of activities that touch one stream; a third adds only more of the
same conflicts. One abandoned run beside a live one gives every overlap of a retry
with its late predecessor. With two attempts each there is a first attempt, a retry
and an exhaustion; the run that is about the limits themselves uses 5 and 3.
`MaxDeposited = 2` lets an account receive deposits until a credit's three attempts
are used up by conflicts (two deposits on B and the rival's credit), so a parked
transfer whose destination accepts a later credit is reached. It does not suffice to use
up the five attempts of another activity; `saga_retries`, with two, is about that. Four
positions with
batches of two give an append in the middle of which another is rolled back or
waits; three positions with a batch size of two make the relay cross a batch border
with a hole in it. The writers beside the relay share one stream, so there the unique
key alone orders them and the advisory lock is idle: two streams make the liveness check
too large. The lock is the business of `event_store` (`CommitOrder`), and that with it
no relay skips or reorders is proved for any number of streams (`NeverSkips`,
`FirstPublishedInOrder`). Three requests give a holder, a rival that meets its claim and a
later one that meets the result of either; one key suffices because rows do not
interact. Two queries give a holder of the lock and one that waits or is cancelled
behind it; four positions with batches of two give a drain of two full batches, and one
across a hole. Four legs give two on each side in two currencies; four schema versions
give a chain of three upcasters, entered anywhere.

**Fairness.** `Fairness` asks weak fairness of the live attempts of each transfer
(Temporal redelivers a task until a worker takes it, and an attempt that is not lost
runs to its end, because no activity waits for anything but the store) and of the
workflow's park loop. Retry limits bound lost attempts, so losing them needs no
fairness. Clients owe nothing. `Resolves` adds an operator who keeps asking for a
refund and, from some time on, none who asks for another credit: a later signal
overwrites an unconsumed one, so without this a refund may be overwritten for ever.
Both liveness properties are checked under this stronger specification; `Settles`
does not depend on it, since no operator decision is admitted before the transfer is
parked. There are no deposits in this run: conflicts with them may use up the attempts
of a compensating activity, and the workflow execution then dies, which `Settles` does not
allow. The destination of this run closes but does not freeze, because with freezing
`Resolves` fails for the reason of the findings below: a credit that landed and
completed the transfer in a lost attempt, whose retry meets a frozen destination, parks
the workflow while its stream says `completed`; `resolve_transfer` then admits no
decision and the workflow waits for good. (A destination with money on it cannot be
closed.) In the relay, `run_relay` polls for ever and a stopped process is restarted;
writers owe nothing. A handler of the HTTP API that does not die runs to its end (it
waits for the database and Temporal only), and a query that is not cancelled goes on
when it holds the lock and the store answers. `QueriesEnd` also needs the log to stop
growing: `drain` reads until a batch is empty, so writers who for ever append faster
than it reads would keep one query, and all behind it, waiting. Here `MaxPosition`
bounds the log.

### Findings

Four runs check what the documentation says and find it violated. All four need an
unlucky moment: an account frozen at it, an attempt used up, or an acknowledgement lost.

| Run | What happens | What it contradicts |
|---|---|---|
| `frozen_compensation` | the source is frozen after the hold; `release_hold` checks that the account is open, fails until its attempts are used up, and the workflow execution dies with the hold in place | "release the hold and reach the `Failed` state" (transfers specification) |
| `frozen_credit` | a credit landed, its attempt is lost, the destination is frozen, the retry fails: the transfer is parked and refunded, and both accounts have the money | "the destination account remains uncredited" (transfers specification) |
| `failed_park` | `park_transfer` runs out of attempts; its error is caught by the outer `except`, which records `Failed` after the debit | "NOT record a false `Failed` state" (transfers specification) |
| `lost_acknowledgement` | a deposit committed, or a workflow started, but the answer was lost: the handler discards the key and the client's retry performs the operation again (a transfer id is minted per request, so Temporal cannot recognise it) | "credited only once and the second call returns the first response", "started exactly once" (idempotency specification) |

The debit has the same weakness as the credit: a debit landed, its attempt is lost, the
source is frozen, the retry fails, the debit is compensated as if it had not happened
and the workflow dies, against "No silent money loss" (ADR-0003). It is left out of the
runs because the cause is that of `frozen_credit`.

The common causes are that `account.py` checks the status before it looks up the
operation id, so a replay of an applied operation is an error on an account that is
no longer open, and that `park_transfer` is awaited inside the `try` whose handler
compensates failures before the debit. `lost_acknowledgement` comes from reading every
exception as "nothing happened".

Met while modelling, and not the subject of a run:

- A transfer recorded `failed` may keep its hold: when the last attempt of `hold_funds`
  appends the hold and is then lost, the workflow was never told, `holding` is false and
  `release_hold` is not called. The transfers specification says of a failure after the
  hold "release the hold and reach the `Failed` state". `FailedLeavesNothing` is
  violated as soon as `WorkerFaults` contains `"exhaust"`; it is checked where the
  last attempt reports, and `CompensatesWhatItKnows` says what holds anyway.
- `refund_source` leaves the journal entry of a refunded transfer unreversed, although
  the ledger specification has corrections made by compensating entries. `BooksAgree`
  therefore leaves refunded transfers out.
- A Postgres claim answers MISMATCH to an equal request when the row it collided with
  was discarded between its two statements; the in-memory store cannot. The idempotency
  specification asks for implementations that "classify a claim identically as new,
  in-progress, mismatched, or a replay". `MismatchMeansOther` states what holds for
  both: no such answer after an equal request succeeded.
- The statement projection reads the stored payload without upcasting
  (`projections/read_models.py:148`); with every event in its first version this makes
  no difference.

## 4. Proofs

Four modules hold theorems, each for every value of the constants its assumptions allow.

### TransferSaga_proofs

For any sets of accounts and transfers, any amounts, currencies, retry limits and
faults:

- `TypeCorrect`: `Spec => []TypeOK`. In particular neither bucket of an account is
  ever negative.
- `StaleAppendsRefused`: `Spec => []NoStaleAppend`. An append that passes the version
  check records a decision the account's rules still allow.

Assumptions: `InputAssumption` and `RetryAssumption` of `TransferSaga`. Inputs name
accounts and positive amounts, in a currency some account has; retry limits are
positive; bounds are natural numbers.

Neither property is inductive. Subtracting from a bucket keeps it in `Nat` only if
the decision was sound for the state it is appended to, which is `NoStaleAppend`;
`NoStaleAppend` survives another run's append because that append moves the version
away from every run that expects the old one, which needs expected versions never
to run ahead of the stream; and the workflow's reaction to an outcome has a type only
if the outcome is that of the activity it awaits. So the inductive invariant is

    Inv == TypeOK /\ Attended /\ (\A r \in running : Prepared(r)) /\ NoStaleAppend

where `Attended` says that a transfer has at most one live attempt, of the activity
its workflow awaits, and `Prepared` that what a run is about to append fits the stream
and expects no version the stream has not reached. The lemmas go bottom up: `ApplyType`
and `CommandsSound` about the aggregate, one lemma per kind of step (`CommandInv`,
`PostEntryInv`, `AppendAccountInv`, `AppendJournalInv`, `MilestoneInv`,
`AppendTransferInv`), `ActivityInv` for the ten activities, `OutcomeInv` for Temporal's
outcomes, `ClientInv` for the HTTP operations, `ConsumeInv` for the park loop, `NextInv`
for all.

### Idempotency_proofs

For any keys, bodies, number of requests, stores and faults (`KeyAssumption`):

- `ClaimsExclusive`: `[]ClaimHeld`, `NeverRepeated`: `[]AcknowledgedOnce`,
  `AnswersAgree`: `[]AnswersTrue`, `MismatchTrue`: `MismatchMeansOther`.

That an acknowledged effect is not repeated is a fact about the row, not about the
history. The inductive invariant therefore adds `Held` (whoever works under a key holds
its row, alone), `Guarded` (the row of an acknowledged effect is not free, has that
effect's body, and the only work left under it is to complete it), `Answered` (every
`done` row, and every handler about to complete or answered, tells an acknowledged
effect's response) and `StepsFit` (a handler at a step has what the step uses).
`MismatchMeansOther` follows from `Guarded`: the row of a success cannot be discarded
between the two statements of a Postgres claim.

### EventStore_proofs and OutboxRelay_proofs

For any writers, streams, relays and batch sizes (`StoreAssumption`, `RelayAssumption`):

- `VersionsContiguous`: `StoreSpec => []StreamsContiguous`,
  `PositionsCommittedInOrder`: `StoreSpec => CommitOrder`;
- `NeverSkips`: `Spec => []NothingSkipped`, `FirstPublishedInOrder`:
  `Spec => PublishedInOrder`.

The store's argument is mutual exclusion under the advisory lock: while a writer
inserts nobody else does, so the stream it checked stays at the version it expects
(`Continues`: its rows carry on from there, without a gap, above every committed
position). The relay's argument uses it: because commits only add positions above all
others, a batch stays a gapless stretch of the committed positions above the one its
relay stands on, which is published (`Gapless`); publishing the least of it passes
nothing.

### Only model-checked

`BalancesExplained` and `BooksAgree` (their sums need induction over sets); the other
properties about outcomes of a transfer; the refinements `ImplementsLifecycle` and
`ImplementsEventLog` (the second ranks rows by cardinality); the read models, whose folds
need induction over the log; the operators of `Journal` and `Serialization` over bounded
inputs; and liveness, which is beyond the prover.

## 5. Not modelled

The event feed is a stateless page over `read_all`. Store selection, migration,
settings, application assembly, authentication, error translation, health probes,
telemetry and the showcase page keep no state of their own or do pure I/O. Payload
formats, metadata and trace propagation do not influence control. Temporal's own
durability, and Postgres beyond the isolation described above, are taken as given.
