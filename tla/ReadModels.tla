------------------------------ MODULE ReadModels ------------------------------
(***************************************************************************)
(* The query side (src/ledger/projections): balances and statements kept   *)
(* in memory by one API process, caught up with the event log by every     *)
(* query, under an asyncio lock.                                           *)
(*                                                                         *)
(* The only real suspensions of a query are waiting for the lock and       *)
(* read_all: the projectors and the in-memory checkpoint never yield, so   *)
(* the batch that read_all returned is applied, and the checkpoint saved,  *)
(* in one step.  Events are appended meanwhile, in the order of their      *)
(* positions (EventStore shows CommitOrder), with holes where an append    *)
(* was rolled back.  A query is cancelled, its read fails, or the process  *)
(* restarts, at any suspension.  A process may meet events it cannot       *)
(* deserialize: a newer release writes to the same log.                    *)
(***************************************************************************)
EXTENDS Account, Serialization, FiniteSets, TLC

CONSTANTS
  Accounts,    \* account ids; other streams share the log
  Amounts,     \* amounts of commands
  Queries,     \* balance or statement requests, each made once
  BatchSize,   \* events read at a time
  MaxPosition  \* bound: positions drawn, those of rolled back appends included

ASSUME ReadAssumption ==
  /\ Amounts \subseteq Nat \ {0}
  /\ BatchSize \in Nat \ {0}
  /\ MaxPosition \in Nat

VARIABLES
  log,         \* the committed events in global order
  models,      \* the two projections: balances and statements, per account
  checkpoint,  \* the in-memory checkpoint
  lock,        \* the queries at the asyncio lock; the first one holds it
  query        \* query[q]: what query q is doing

vars == <<log, models, checkpoint, lock, query>>

OtherStream == "other"
Unregistered == "unregistered"

\* build_event_registry: every account event, in its first version.
Registry == [e \in AccountEvent |-> [version |-> 1, upcasters |-> <<>>]]
-----------------------------------------------------------------------------
(* The write side: whatever the aggregate's rules allow.                     *)

Money(n) == [amount |-> n, currency |-> "EUR"]

\* The aggregate of a after the first n events of the log.
Aggregate(a, n) ==
  FoldLeft(LAMBDA acc, e : IF e.stream = a /\ e.type \in AccountEvent
                           THEN Apply(acc, e.type, Money(e.amount), acc.version) ELSE acc,
           NewAccount("EUR"), SubSeq(log, 1, n))

\* The events the commands may record.
Allowed(acc, m) ==
  IF acc.version = 0 THEN {"AccountOpened"}
  ELSE {Deposit(acc, m), Hold(acc, m, acc.version), ReleaseHold(acc, m, acc.version),
        Debit(acc, m, acc.version), Credit(acc, m, acc.version), Freeze(acc), Close(acc)}
         \cap AccountEvent

LastPosition == IF log = <<>> THEN 0 ELSE Last(log).position

AppendEvent(stream, type, amount) ==
  /\ \E position \in LastPosition + 1 .. MaxPosition :
       log' = Append(log, [position |-> position, stream |-> stream, type |-> type,
                           schema |-> 1, amount |-> amount])
  /\ UNCHANGED <<models, checkpoint, lock, query>>

Write ==
  \/ \E a \in Accounts, n \in Amounts : \E e \in Allowed(Aggregate(a, Len(log)), Money(n)) :
       AppendEvent(a, e, n)
  \/ AppendEvent(OtherStream, "TransferInitiated", 0)
  \/ \E a \in Accounts : AppendEvent(a, Unregistered, 0)
-----------------------------------------------------------------------------
(* The projectors.                                                           *)

NoModels == [balances |-> <<>>, statements |-> <<>>, raised |-> FALSE]

Opened == [available |-> 0, reserved |-> 0, status |-> "open"]

\* AccountBalancesProjection.project, on an entry that exists.
Moved(b, type, n) ==
  CASE type \in {"FundsDeposited", "AccountCredited"} -> [b EXCEPT !.available = @ + n]
    [] type = "FundsHeld"      -> [b EXCEPT !.available = @ - n, !.reserved = @ + n]
    [] type = "HoldReleased"   -> [b EXCEPT !.reserved = @ - n, !.available = @ + n]
    [] type = "AccountDebited" -> [b EXCEPT !.reserved = @ - n]
    [] type = "AccountFrozen"  -> [b EXCEPT !.status = "frozen"]
    [] type = "AccountClosed"  -> [b EXCEPT !.status = "closed"]

\* It raises on an event it cannot deserialize, and on an account it has not seen.
ProjectRaises(m, e) ==
  \/ e.type \notin DOMAIN Registry
  \/ e.type # "AccountOpened" /\ e.stream \notin DOMAIN m.balances

ProjectBalance(m, e) ==
  LET n == Deserialize(Registry[e.type], e.schema, e.amount)
  IN (e.stream :> IF e.type = "AccountOpened" THEN Opened
                  ELSE Moved(m.balances[e.stream], e.type, n)) @@ m.balances

AmountEvent == {"FundsDeposited", "FundsHeld", "HoldReleased", "AccountDebited", "AccountCredited"}

Line(e) == [position |-> e.position, kind |-> e.type, amount |-> e.amount]

\* AccountStatementProjection.project.
ProjectStatement(m, e) ==
  LET lines == IF e.stream \in DOMAIN m.statements THEN m.statements[e.stream] ELSE <<>>
  IN CASE e.type = "AccountOpened" -> (e.stream :> lines) @@ m.statements
       [] e.type \in AmountEvent   -> (e.stream :> Append(lines, Line(e))) @@ m.statements
       [] OTHER                    -> m.statements

\* One turn of the loop of run_once: both projectors, the balances first.
Project(m, e) ==
  IF m.raised \/ e.stream \notin Accounts THEN m
  ELSE IF ProjectRaises(m, e) THEN [m EXCEPT !.raised = TRUE]
  ELSE [m EXCEPT !.balances = ProjectBalance(m, e), !.statements = ProjectStatement(m, e)]

\* balance_of (the handler turns None into 404) and statement_of.
BalanceOf(m, a) == IF a \in DOMAIN m.balances THEN m.balances[a] ELSE [status |-> "not_found"]
StatementOf(m, a) == IF a \in DOMAIN m.statements THEN m.statements[a] ELSE <<>>
-----------------------------------------------------------------------------
(* Queries.                                                                  *)

NotAsked == [step |-> "new", asked |-> 0, batch |-> <<>>]

\* catch_up: queue at the lock.  "asked" is how long the log was then.
Ask(q) ==
  /\ query[q].step = "new"
  /\ query' = [query EXCEPT ![q].step = "wait", ![q].asked = Len(log)]
  /\ lock' = Append(lock, q)
  /\ UNCHANGED <<log, models, checkpoint>>

\* Mutant: the lock is not awaited.
HoldsLockAnyway(q) == TRUE

HoldsLock(q) == Head(lock) = q

\* read_all: the first events above a position.
ReadAll(from, limit) ==
  LET later == SelectSeq(log, LAMBDA e : e.position > from)
  IN SubSeq(later, 1, IF Len(later) < limit THEN Len(later) ELSE limit)

\* run_once: the statement of read_all; what it returns arrives later.
Read(q) ==
  /\ query[q].step = "wait"
  /\ HoldsLock(q)
  /\ query' = [query EXCEPT ![q].step = "read", ![q].batch = ReadAll(checkpoint, BatchSize)]
  /\ UNCHANGED <<log, models, checkpoint, lock>>

Leave(q) == SelectSeq(lock, LAMBDA p : p # q)

\* Mutant: a query that ends early does not release the lock.
EndsHolding(q, how) ==
  /\ query' = [query EXCEPT ![q] = [NotAsked EXCEPT !.step = how]]
  /\ lock' = IF how = "failed" THEN lock ELSE Leave(q)

\* "async with" releases the lock, or leaves its queue, however the query ends.
Ends(q, how) ==
  /\ query' = [query EXCEPT ![q] = [NotAsked EXCEPT !.step = how]]
  /\ lock' = Leave(q)

\* Mutant: catch_up runs one batch instead of draining.
ApplyBatchOnce(q) ==
  LET after == FoldLeft(Project, models, query[q].batch)
  IN /\ query[q].step = "read"
     /\ ~after.raised
     /\ models' = after
     /\ checkpoint' = IF query[q].batch = <<>> THEN checkpoint ELSE Last(query[q].batch).position
     /\ Ends(q, "answered")
     /\ UNCHANGED log

\* The batch arrives.  An empty one ends the drain, and the query is told what the models
\* hold at that step; otherwise it is applied and run_once starts again.  When a projector raises, the
\* events before stay applied and the checkpoint stays behind.
ApplyBatch(q) ==
  LET batch == query[q].batch
      after == FoldLeft(Project, models, batch)
  IN /\ query[q].step = "read"
     /\ \/ /\ batch = <<>>
           /\ Ends(q, "answered")
           /\ UNCHANGED <<models, checkpoint>>
        \/ /\ batch # <<>> /\ ~after.raised
           /\ models' = after
           /\ checkpoint' = Last(batch).position
           /\ query' = [query EXCEPT ![q].step = "wait", ![q].batch = <<>>]
           /\ UNCHANGED lock
        \/ /\ batch # <<>> /\ after.raised
           /\ models' = [after EXCEPT !.raised = FALSE]
           /\ UNCHANGED checkpoint
           /\ Ends(q, "failed")
     /\ UNCHANGED log

\* The client goes away, or read_all fails.
Cancel(q) ==
  /\ query[q].step \in {"wait", "read"}
  /\ Ends(q, "cancelled")
  /\ UNCHANGED <<log, models, checkpoint>>

\* The process restarts with empty models; its queries are lost.
Restart ==
  /\ models' = NoModels
  /\ checkpoint' = 0
  /\ lock' = <<>>
  /\ query' = [q \in Queries |-> IF query[q].step \in {"wait", "read"}
                                 THEN [NotAsked EXCEPT !.step = "cancelled"] ELSE query[q]]
  /\ UNCHANGED log
-----------------------------------------------------------------------------
Init ==
  /\ log = <<>>
  /\ models = NoModels
  /\ checkpoint = 0
  /\ lock = <<>>
  /\ query = [q \in Queries |-> NotAsked]

CatchUp(q) == Read(q) \/ ApplyBatch(q)

Next ==
  \/ Write
  \/ \E q \in Queries : Ask(q) \/ CatchUp(q) \/ Cancel(q)
  \/ Restart

Spec == Init /\ [][Next]_vars

\* A query that is not cancelled goes on when the lock is its own and when the store
\* answers.  Writers, clients and the orchestrator owe nothing.
FairSpec == Spec /\ \A q \in Queries : WF_vars(CatchUp(q))
-----------------------------------------------------------------------------
\* What the models hold if they are made from the first n events, each once.
Expected(n) ==
  LET account == [a \in Accounts |-> Aggregate(a, n)]
      opened == {a \in Accounts : account[a].version # 0}
      moves(a) == SelectSeq(SubSeq(log, 1, n), LAMBDA e : e.stream = a /\ e.type \in AmountEvent)
  IN [balances   |-> [a \in opened |-> [available |-> account[a].available,
                                        reserved |-> account[a].reserved,
                                        status |-> account[a].status]],
      statements |-> [a \in opened |-> [i \in DOMAIN moves(a) |-> Line(moves(a)[i])]],
      raised     |-> FALSE]

\* The number of events up to position p.
UpTo(p) == Cardinality({i \in DOMAIN log : log[i].position <= p})

\* The log is in order of position, the checkpoint is the position of an event, and the
\* queries at the lock are those that wait or read, each once.
TypeOK ==
  /\ \A i, j \in DOMAIN log : i < j => log[i].position < log[j].position
  /\ checkpoint \in {0} \cup {log[i].position : i \in DOMAIN log}
  /\ \A q \in Queries : query[q].step \in {"new", "wait", "read", "answered", "failed", "cancelled"}
  /\ Range(lock) = {q \in Queries : query[q].step \in {"wait", "read"}}
  /\ Len(lock) = Cardinality(Range(lock))

\* Each event up to the checkpoint has been applied exactly once and no later one, by
\* however many queries, cancellations and restarts, as long as the process could
\* deserialize what it read ("applied exactly once", projections specification; the +=
\* of read_models.py under the lock of read_models_service.py).
ModelsExact ==
  (\A i \in DOMAIN log : log[i].position > checkpoint => log[i].type # Unregistered) =>
    models = Expected(UpTo(checkpoint))

\* A query is told exactly what the account aggregates say at some time between its
\* request and its answer, so it sees every write before it and no event twice.  This
\* holds even after a projector raised half way through a batch: the models then count
\* events twice, but no query gets past the event that made it raise.
AnswersCurrent ==
  [][\A q \in Queries : query[q].step = "read" /\ query'[q].step = "answered" =>
       \E n \in query[q].asked .. Len(log) :
         LET expected == Expected(n)
         IN \A a \in Accounts : /\ BalanceOf(models', a) = BalanceOf(expected, a)
                               /\ StatementOf(models', a) = StatementOf(expected, a)]_vars

\* Every query ends, told, failed or cancelled: each is made once, and in the end none is
\* left at the lock, which is passed on whatever happens to its holder.  A drain ends
\* because the log stops growing here (MaxPosition): writers who for ever append faster
\* than drain reads would keep it going (runner.py, drain).
QueriesEnd == <>[](\A q \in Queries : query[q].step \notin {"wait", "read"})

\* A payload takes every step from the version it was stored under to the current one,
\* each once and in order ("old events keep deserializing after the model evolves",
\* serialization.py): there is a payload for each version in between, the first is the
\* stored one, each is the upcast of the one before, and the last is what is returned.
\* It is about the operators alone and evaluated once, at the start.
UpcastsExactly ==
  Init => \A reg \in Registrations, p \in Payloads : \A stored \in 1 .. reg.version :
    \E step \in [stored .. reg.version -> Payloads] :
      /\ step[stored] = p
      /\ \A v \in stored .. reg.version - 1 : step[v + 1] = reg.upcasters[v][step[v]]
      /\ step[reg.version] = Deserialize(reg, stored, p)
=============================================================================
