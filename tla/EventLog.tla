------------------------------- MODULE EventLog -------------------------------
(***************************************************************************)
(* What an event store promises: one log, appended to in atomic batches,   *)
(* each at the version its caller expects of the stream.  This is the      *)
(* in-memory store (src/ledger/eventstore/memory.py), where an append runs *)
(* without an await; "Semantically identical to the Postgres store".       *)
(***************************************************************************)
EXTENDS Integers, Sequences, FiniteSetsExt

CONSTANTS
  Streams,   \* stream ids
  MaxBatch   \* bound: events buffered by one command

VARIABLE log  \* the events in global order

CurrentVersion(s) ==
  Max({0} \cup {log[i].version : i \in {j \in DOMAIN log : log[j].stream = s}})

AppendEvents(s, expected, n) ==
  /\ CurrentVersion(s) = expected
  /\ log' = log \o [i \in 1 .. n |-> [stream |-> s, version |-> expected + i]]

LogInit == log = <<>>

LogNext == \E s \in Streams, n \in 1 .. MaxBatch : AppendEvents(s, CurrentVersion(s), n)

LogSpec == LogInit /\ [][LogNext]_log
=============================================================================
