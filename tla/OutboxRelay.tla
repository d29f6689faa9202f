------------------------------ MODULE OutboxRelay ------------------------------
(***************************************************************************)
(* OutboxRelay (src/ledger/outbox/relay.py) tailing the event store: load  *)
(* the durable checkpoint, read a batch above it, publish the events one   *)
(* by one, save the checkpoint.  Appends go on between any two of these    *)
(* steps.  A relay process may stop at any point (a signal, a crash, or an *)
(* exception, which ends run_relay) and be started again: all it keeps is  *)
(* the checkpoint.  Nothing stops two processes from running side by side. *)
(***************************************************************************)
EXTENDS EventStore

CONSTANTS
  Relays,      \* relay processes on the same checkpoint
  BatchSize,   \* events read at a time
  MaxStops     \* bound: times a relay stops

ASSUME RelayAssumption == BatchSize \in Nat \ {0} /\ MaxStops \in Nat

VARIABLES
  checkpoint,  \* the row of relay_checkpoints
  relay,       \* relay[i]: what process i is doing
  published,   \* the positions handed to the publisher at least once
  stops        \* times a relay stopped

relayVars == <<checkpoint, relay, published, stops>>
vars == <<storeVars, relayVars>>

\* "batch" holds the positions still to publish, "position" the last one done.
Waiting == [step |-> "wait", position |-> 0, batch |-> {}]

Positions == {r.position : r \in events}

\* Mutant: the limit keeps the last events, not the first.
ReadAllLatest(from, limit) ==
  LET later == {p \in Positions : p > from}
  IN {p \in later : Cardinality({q \in later : q > p}) < limit}

\* read_all: the first events above a position.
ReadAll(from, limit) ==
  LET later == {p \in Positions : p > from}
  IN {p \in later : Cardinality({q \in later : q < p}) < limit}
-----------------------------------------------------------------------------
(* run_once.                                                                 *)

LoadCheckpoint(i) ==
  /\ relay[i].step = "wait"
  /\ relay' = [relay EXCEPT ![i] = [step |-> "read", position |-> checkpoint, batch |-> {}]]
  /\ UNCHANGED <<checkpoint, published, stops>>

\* An empty batch ends the drain.
ReadBatch(i) ==
  LET batch == ReadAll(relay[i].position, BatchSize)
  IN /\ relay[i].step = "read"
     /\ relay' = [relay EXCEPT ![i] = IF batch = {} THEN Waiting
                                      ELSE [@ EXCEPT !.step = "publish", !.batch = batch]]
     /\ UNCHANGED <<checkpoint, published, stops>>

Publish(i) ==
  LET p == Min(relay[i].batch)
  IN /\ relay[i].step = "publish"
     /\ relay[i].batch # {}
     /\ published' = published \cup {p}
     /\ relay' = [relay EXCEPT ![i].position = p, ![i].batch = @ \ {p}]
     /\ UNCHANGED <<checkpoint, stops>>

\* Mutant: the checkpoint is saved before the events are published.
SaveCheckpointEarly(i) ==
  /\ relay[i].step = "publish"
  /\ checkpoint' = Max(relay[i].batch \cup {relay[i].position})
  /\ relay' = IF relay[i].batch = {} THEN [relay EXCEPT ![i] = Waiting] ELSE relay
  /\ UNCHANGED <<published, stops>>

SaveCheckpoint(i) ==
  /\ relay[i].step = "publish"
  /\ relay[i].batch = {}
  /\ checkpoint' = relay[i].position
  /\ relay' = [relay EXCEPT ![i] = Waiting]
  /\ UNCHANGED <<published, stops>>

Stop(i) ==
  /\ stops < MaxStops
  /\ stops' = stops + 1
  /\ relay' = [relay EXCEPT ![i] = Waiting]
  /\ UNCHANGED <<checkpoint, published>>

RunOnce(i) == LoadCheckpoint(i) \/ ReadBatch(i) \/ Publish(i) \/ SaveCheckpoint(i)
-----------------------------------------------------------------------------
Init ==
  /\ StoreInit
  /\ checkpoint = 0
  /\ relay = [i \in Relays |-> Waiting]
  /\ published = {}
  /\ stops = 0

Next ==
  \/ StoreNext /\ UNCHANGED relayVars
  \/ (\E i \in Relays : RunOnce(i) \/ Stop(i)) /\ UNCHANGED storeVars

Spec == Init /\ [][Next]_vars

\* run_relay polls for ever, and the orchestrator restarts a process that stopped.
\* Writers owe nothing.
FairSpec == Spec /\ \A i \in Relays : WF_vars(RunOnce(i) /\ UNCHANGED storeVars)
-----------------------------------------------------------------------------
\* Every variable has its type.
TypeOK ==
  /\ StoreTypeOK
  /\ checkpoint \in 0 .. MaxPosition
  /\ relay \in [Relays -> [step : {"wait", "read", "publish"}, position : 0 .. MaxPosition,
                           batch : SUBSET (1 .. MaxPosition)]]
  /\ published \subseteq 1 .. MaxPosition
  /\ stops \in 0 .. MaxStops

\* A consumer that advances a cursor never skips a committed event: what is below a
\* published position, or below the durable checkpoint, has been published, although
\* appends commit while the relay reads (run_once, and the lock of postgres.py).
NothingSkipped ==
  \A p \in Positions, q \in published \cup {checkpoint} : p <= q => p \in published

\* Events are published for the first time in the order of their positions
\* ("ascending global-position order", outbox specification), by however many relays.
PublishedInOrder ==
  [][\A p \in published' \ published, q \in published : q < p]_vars

\* Every committed event is published eventually, although relays stop and restart.
EventuallyPublished ==
  \A p \in 1 .. MaxPosition : p \in Positions ~> p \in published
=============================================================================
