------------------------------ MODULE EventStore ------------------------------
(***************************************************************************)
(* PostgresEventStore (src/ledger/eventstore/postgres.py) under concurrent *)
(* writers.  A writer loads a stream, decides, and appends in one database *)
(* transaction: take the advisory lock, compare the stream's version with  *)
(* the one it loaded, insert row by row, commit.  Each statement is a step *)
(* of its own; the transaction may be rolled back between any two.         *)
(*                                                                         *)
(* Postgres (external) runs the transaction at READ COMMITTED: a statement *)
(* sees the rows committed before it.  The identity sequence that gives    *)
(* out global positions is not transactional: a rolled back insert leaves  *)
(* a hole.                                                                 *)
(***************************************************************************)
EXTENDS Integers, FiniteSets, FiniteSetsExt

CONSTANTS
  Writers,      \* tasks that append: API requests and activity attempts
  Streams,      \* stream ids
  MaxBatch,     \* bound: events buffered by one command
  MaxPosition   \* bound: values taken from the identity sequence

ASSUME StoreAssumption == MaxBatch \in Nat /\ MaxPosition \in Nat

VARIABLES
  events,     \* the committed rows of the events table
  sequence,   \* the last value of the identity sequence
  append      \* append[w]: what writer w is doing

storeVars == <<events, sequence, append>>

\* "rows" are the writer's uncommitted rows, "left" the events still to insert.
Idle == [step |-> "idle", stream |-> "none", expected |-> 0, left |-> 0, rows |-> {}]

Versions(s) == {r.version : r \in {x \in events : x.stream = s}}

\* pg_advisory_xact_lock is held from the lock statement to COMMIT or ROLLBACK.
LockHolders == {w \in Writers : append[w].step \in {"locked", "insert"}}
-----------------------------------------------------------------------------
\* The repository loads the stream; the aggregate's version counts the events
\* replayed.  Then the command buffers n events.
LoadStream(w, s, n) ==
  /\ append[w].step = "idle"
  /\ append' = [append EXCEPT ![w] = [step |-> "begin", stream |-> s, left |-> n, rows |-> {},
                                      expected |-> Cardinality(Versions(s))]]
  /\ UNCHANGED <<events, sequence>>

\* Mutant: the transaction does not wait for the lock.
TakeLockFreely(w) ==
  /\ append[w].step = "begin"
  /\ append' = [append EXCEPT ![w].step = "locked"]
  /\ UNCHANGED <<events, sequence>>

TakeLock(w) ==
  /\ append[w].step = "begin"
  /\ LockHolders = {}
  /\ append' = [append EXCEPT ![w].step = "locked"]
  /\ UNCHANGED <<events, sequence>>

Rollback(w) == append' = [append EXCEPT ![w] = Idle]

CheckVersion(w) ==
  /\ append[w].step = "locked"
  /\ IF Max({0} \cup Versions(append[w].stream)) = append[w].expected
     THEN append' = [append EXCEPT ![w].step = "insert"]
     ELSE Rollback(w)
  /\ UNCHANGED <<events, sequence>>

\* Mutant: the offset of the first event is 0.
NextRowFromZero(w) ==
  [position |-> sequence + 1, stream |-> append[w].stream,
   version |-> append[w].expected + Cardinality(append[w].rows)]

\* The row the next insert adds; its position comes from the sequence.
NextRow(w) ==
  [position |-> sequence + 1, stream |-> append[w].stream,
   version |-> append[w].expected + Cardinality(append[w].rows) + 1]

SameKey(r, x) == r.stream = x.stream /\ r.version = x.version

\* UNIQUE (stream_type, stream_id, version): an insert waits for a transaction that
\* inserted the same key, and conflicts with a row that is there.
InsertEvent(w) ==
  LET row == NextRow(w)
  IN /\ append[w].step = "insert"
     /\ append[w].left > 0
     /\ sequence < MaxPosition
     /\ \A v \in Writers \ {w} : ~ \E x \in append[v].rows : SameKey(row, x)
     /\ sequence' = sequence + 1
     /\ IF \E x \in events \cup append[w].rows : SameKey(row, x)
        THEN Rollback(w)
        ELSE append' = [append EXCEPT ![w].rows = @ \cup {row}, ![w].left = @ - 1]
     /\ UNCHANGED events

Commit(w) ==
  /\ append[w].step = "insert"
  /\ append[w].left = 0
  /\ events' = events \cup append[w].rows
  /\ append' = [append EXCEPT ![w] = Idle]
  /\ UNCHANGED sequence

\* The connection or the process is lost, or the task is cancelled.
Abort(w) ==
  /\ append[w].step # "idle"
  /\ Rollback(w)
  /\ UNCHANGED <<events, sequence>>
-----------------------------------------------------------------------------
StoreInit ==
  /\ events = {}
  /\ sequence = 0
  /\ append = [w \in Writers |-> Idle]

StoreNext ==
  \E w \in Writers :
    \/ \E s \in Streams, n \in 1 .. MaxBatch : LoadStream(w, s, n)
    \/ TakeLock(w) \/ CheckVersion(w) \/ InsertEvent(w) \/ Commit(w) \/ Abort(w)

StoreSpec == StoreInit /\ [][StoreNext]_storeVars
-----------------------------------------------------------------------------
Row == [position : 1 .. MaxPosition, stream : Streams, version : Nat \ {0}]

\* Every variable has its type.
StoreTypeOK ==
  /\ events \subseteq Row
  /\ sequence \in 0 .. MaxPosition
  /\ append \in [Writers -> [step : {"idle", "begin", "locked", "insert"},
                              stream : Streams \cup {"none"}, expected : Nat,
                              left : 0 .. MaxBatch, rows : SUBSET Row]]

\* The versions of a stream are 1, 2, ..., n, each given to one event, and their global
\* positions increase with them: however appends interleave or are rolled back, of
\* those that expect the same version one wins (postgres.py, append).
StreamsContiguous ==
  /\ \A s \in Streams : Versions(s) = 1 .. Cardinality(Versions(s))
  /\ \A r, x \in events :
       /\ SameKey(r, x) => r = x
       /\ r.stream = x.stream /\ r.version < x.version => r.position < x.position

\* Global positions are committed in order: no row appears below a position some
\* consumer may already have passed (the advisory lock of postgres.py).
CommitOrder == [][\A r \in events' \ events, x \in events : x.position < r.position]_storeVars

\* The committed rows in the order of their positions.
Ranked(i) == CHOOSE r \in events : Cardinality({x \in events : x.position < r.position}) = i - 1

Log == INSTANCE EventLog WITH
  log <- [i \in 1 .. Cardinality(events) |->
            [stream |-> Ranked(i).stream, version |-> Ranked(i).version]]

\* The Postgres store implements the in-memory one: an append is atomic, extends the
\* log at its end and only at the version it expected (memory.py).
ImplementsEventLog == Log!LogSpec
=============================================================================
