----------------------------- MODULE Serialization -----------------------------
(***************************************************************************)
(* EventRegistry (src/ledger/eventstore/serialization.py): what becomes of *)
(* a stored payload on its way to an event.  A registration gives the      *)
(* current schema version of an event class and the upcasters that lead to *)
(* it: upcasters[i] takes a payload from version i to version i + 1.  The  *)
(* JSON form of a payload is left out.                                     *)
(***************************************************************************)
EXTENDS Integers, Sequences, SequencesExt

\* register accepts a class only with one upcaster per earlier version.
Registers(reg) == Len(reg.upcasters) = reg.version - 1

\* Mutant: the loop starts one version late.
UpcastersFromLate(reg, stored) == SubSeq(reg.upcasters, stored + 1, reg.version - 1)

\* The upcasters of range(schema_version, registration.schema_version).  A payload of a
\* later version than the registered one passes none.
UpcastersFrom(reg, stored) == SubSeq(reg.upcasters, stored, reg.version - 1)

\* deserialize, for a registered type.
Deserialize(reg, stored, payload) ==
  FoldLeft(LAMBDA data, upcaster : upcaster[data], payload, UpcastersFrom(reg, stored))
-----------------------------------------------------------------------------
CONSTANTS
  Payloads,    \* payloads upcasters are tried on
  MaxVersion   \* bound: schema versions

\* Every registration of a class with up to MaxVersion schema versions.
Registrations ==
  {reg \in [version : 1 .. MaxVersion,
            upcasters : BoundedSeq([Payloads -> Payloads], MaxVersion - 1)] : Registers(reg)}
=============================================================================
