----------------------------- MODULE MCEventStore -----------------------------
(* Small instances of EventStore.  Writers are interchangeable, and so are    *)
(* streams.                                                                   *)
EXTENDS EventStore, TLC

Symmetry == Permutations(Writers) \cup Permutations(Streams)
=============================================================================
