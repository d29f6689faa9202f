--------------------------- MODULE OutboxRelay_proofs ---------------------------
(***************************************************************************)
(* Proofs about OutboxRelay for any writers, relays and batch sizes:       *)
(* NothingSkipped and PublishedInOrder.  They rest on the store committing *)
(* positions in order (EventStore_proofs): a batch then stays a gapless    *)
(* stretch of the committed positions above what its relay published.      *)
(***************************************************************************)
EXTENDS OutboxRelay, EventStore_proofs, WellFoundedInduction

\* What a relay holds: it stands on a published position, and its batch has no gap.
Gapless(i) ==
  /\ relay[i].position \in published \cup {0}
  /\ relay[i].batch \subseteq Positions
  /\ \A p \in relay[i].batch : p > relay[i].position
  /\ \A p \in Positions, q \in relay[i].batch :
       p > relay[i].position /\ p < q => p \in relay[i].batch

RelayInv ==
  /\ Inv
  /\ TypeOK
  /\ published \subseteq Positions
  /\ checkpoint \in published \cup {0}
  /\ NothingSkipped
  /\ \A i \in Relays : Gapless(i)

RelayType ==
  [step : {"wait", "read", "publish"}, position : 0 .. MaxPosition,
   batch : SUBSET (1 .. MaxPosition)]
-----------------------------------------------------------------------------
\* A set of positions has a least one: the set below it is minimal for inclusion.
LEMMA LeastPosition ==
  ASSUME NEW S \in SUBSET (1 .. MaxPosition), S # {}
  PROVE  Min(S) \in S /\ \A y \in S : Min(S) <= y
<1> DEFINE Below(p) == {q \in S : q <= p}
           T == {Below(p) : p \in S}
           R == StrictSubsetOrdering(S)
           F == FiniteSubsetsOf(S)
<1>1. IsFiniteSet(1 .. MaxPosition) /\ S \subseteq Nat
  BY FS_Interval, StoreAssumption
<1>2. IsFiniteSet(S)
  BY <1>1, FS_Subset
<1>3. T \subseteq F /\ T # {}
  <2>1. F = SUBSET S
    BY <1>2, FS_FiniteSubsetsOfFinite
  <2>2. T \subseteq SUBSET S /\ T # {}
    OBVIOUS
  <2> QED  BY <2>1, <2>2
<1>4. IsWellFoundedOn(R, F)
  BY FS_StrictSubsetOrderingWellFounded
<1>5. \E x \in T : \A y \in T : ~(<<y, x>> \in R)
  <2> HIDE DEF T, R, F
  <2> QED  BY <1>3, <1>4, WFMin
<1>6. PICK p \in S : \A q \in S : ~(<<Below(q), Below(p)>> \in R)
  BY <1>5
<1>7. ASSUME NEW q \in S, q < p  PROVE FALSE
  <2>1. p \in Below(p) /\ p \notin Below(q) /\ Below(q) \subseteq Below(p)
    <3>1. p \in Nat /\ q \in Nat
      BY <1>1
    <3>2. \A x \in S : x <= q => x <= p
      BY <1>1, <1>7
    <3>3. p <= p /\ ~(p <= q)
      BY <1>7, <3>1
    <3> QED  BY <3>2, <3>3, Zenon
  <2>2. <<Below(q), Below(p)>> \in R
    BY <2>1 DEF StrictSubsetOrdering
  <2> QED  BY <1>6, <2>2
<1>8. \A y \in S : p <= y
  BY <1>1, <1>7
<1> QED  BY <1>8 DEF Min

\* Positions are numbers of the sequence.
LEMMA PositionsType ==
  ASSUME StoreTypeOK
  PROVE  Positions \subseteq 1 .. MaxPosition /\ Positions \subseteq Nat \ {0}
BY StoreAssumption DEF StoreTypeOK, Row, Positions

\* What is at or below a position a relay stands on has been published.
LEMMA BelowPublished ==
  ASSUME RelayInv, NEW c \in published \cup {0}, NEW p \in Positions, p <= c
  PROVE  p \in published
<1>1. p \in Nat \ {0}
  BY PositionsType DEF RelayInv, TypeOK
<1>2. c \in published
  BY <1>1
<1> QED  BY <1>2 DEF RelayInv, NothingSkipped

\* A step of relay i alone, to a record d, that publishes at most positions p with
\* nothing unpublished below, and leaves the checkpoint on a published position.
LEMMA RelayStep ==
  ASSUME RelayInv, NEW i \in Relays, NEW d \in RelayType, UNCHANGED storeVars,
         relay' = [relay EXCEPT ![i] = d], stops' \in 0 .. MaxStops,
         published \subseteq published', published' \subseteq Positions,
         checkpoint' \in published' \cup {0},
         \A p \in Positions, q \in published' : p <= q => p \in published',
         d.position \in published' \cup {0}, d.batch \subseteq Positions,
         \A p \in d.batch : p > d.position,
         \A p \in Positions, q \in d.batch : p > d.position /\ p < q => p \in d.batch
  PROVE  RelayInv'
<1>0. Inv /\ TypeOK /\ StoreTypeOK /\ relay \in [Relays -> RelayType]
  BY DEF RelayInv, TypeOK, RelayType
<1>1. Positions' = Positions
  BY DEF storeVars, Positions
<1>2. Inv'
  BY <1>0, NextInv
<1>3. Positions \subseteq 1 .. MaxPosition /\ Positions \subseteq Nat \ {0}
  BY <1>0, PositionsType
<1>4. /\ relay' \in [Relays -> RelayType] /\ relay'[i] = d
      /\ \A j \in Relays \ {i} : relay'[j] = relay[j]
  BY <1>0
<1>5. TypeOK'
  <2>1. StoreTypeOK'
    BY <1>2 DEF Inv
  <2>2. checkpoint' \in 0 .. MaxPosition /\ published' \subseteq 1 .. MaxPosition
    BY <1>3, StoreAssumption
  <2> QED  BY <1>4, <2>1, <2>2 DEF TypeOK, RelayType
<1>6. NothingSkipped'
  BY <1>1, <1>3 DEF NothingSkipped
<1>7. ASSUME NEW j \in Relays  PROVE Gapless(j)'
  <2>1. CASE j = i
    BY <1>1, <1>4, <2>1 DEF Gapless
  <2>2. CASE j # i
    <3>1. Gapless(j) /\ relay'[j] = relay[j]
      BY <1>4, <2>2 DEF RelayInv
    <3> QED  BY <1>1, <3>1 DEF Gapless
  <2> QED  BY <2>1, <2>2
<1> QED  BY <1>1, <1>2, <1>5, <1>6, <1>7 DEF RelayInv

\* A relay with nothing in hand.
LEMMA WaitingType ==
  /\ Waiting \in RelayType
  /\ Waiting.position = 0 /\ Waiting.batch = {}
BY StoreAssumption DEF Waiting, RelayType

\* read_all returns the first positions above the one given, without a gap.
LEMMA ReadAllGapless ==
  ASSUME StoreTypeOK, NEW from \in Nat
  PROVE  /\ ReadAll(from, BatchSize) \subseteq Positions
         /\ \A p \in ReadAll(from, BatchSize) : p > from
         /\ \A p \in Positions, q \in ReadAll(from, BatchSize) :
              p > from /\ p < q => p \in ReadAll(from, BatchSize)
<1> DEFINE later == {p \in Positions : p > from}
           Before(p) == {q \in later : q < p}
<1>1. later \subseteq 1 .. MaxPosition /\ later \subseteq Nat
  BY PositionsType
<1>2. IsFiniteSet(later)
  <2>1. IsFiniteSet(1 .. MaxPosition)
    BY FS_Interval, StoreAssumption
  <2> HIDE DEF later
  <2> QED  BY <1>1, <2>1, FS_Subset
<1>3. ReadAll(from, BatchSize) = {p \in later : Cardinality(Before(p)) < BatchSize}
  BY DEF ReadAll
<1>4. ASSUME NEW p \in later, NEW q \in later, p < q, Cardinality(Before(q)) < BatchSize
      PROVE  Cardinality(Before(p)) < BatchSize
  <2>1. Before(q) \in SUBSET later /\ Before(p) \in SUBSET Before(q)
    BY <1>1, <1>4
  <2> HIDE DEF later, Before
  <2>2. IsFiniteSet(Before(q))
    BY <1>2, <2>1, FS_Subset
  <2>3. IsFiniteSet(Before(p)) /\ Cardinality(Before(p)) <= Cardinality(Before(q))
    BY <2>1, <2>2, FS_Subset
  <2>4. Cardinality(Before(p)) \in Nat /\ Cardinality(Before(q)) \in Nat
    BY <2>2, <2>3, FS_CardinalityType
  <2> QED  BY <1>4, <2>3, <2>4, RelayAssumption
<1> HIDE DEF Before
<1> QED  BY <1>3, <1>4
-----------------------------------------------------------------------------
\* An append commits above every position, so above every batch and every cursor.
LEMMA StoreStep ==
  ASSUME RelayInv, StoreNext, UNCHANGED relayVars
  PROVE  RelayInv'
<1>0. Inv /\ TypeOK /\ StoreTypeOK
  BY DEF RelayInv, TypeOK
<1>1. Inv' /\ [\A r \in events' \ events, x \in events : x.position < r.position]_storeVars
  BY <1>0, NextInv
<1>2. StoreTypeOK' /\ StoreTypeOK
  BY <1>0, <1>1 DEF Inv
<1>3. Positions' \subseteq Nat \ {0} /\ Positions \subseteq Nat \ {0}
  BY <1>2, StoreAssumption DEF StoreTypeOK, Row, Positions
<1>4. events \subseteq events'
  <2>1. CASE \E w \in Writers : Commit(w)
    BY <2>1 DEF Commit
  <2>2. CASE UNCHANGED events
    BY <2>2
  <2> QED  BY <2>1, <2>2 DEF StoreNext, LoadStream, TakeLock, CheckVersion, InsertEvent, Abort
<1>5. Positions \subseteq Positions'
  BY <1>4 DEF Positions
<1>6. \A p \in Positions' \ Positions, q \in Positions : q < p
  BY <1>1 DEF Positions, storeVars
<1>7. TypeOK'
  BY <1>0, <1>2 DEF TypeOK, relayVars
<1>8. NothingSkipped'
  <2> SUFFICES ASSUME NEW p \in Positions', NEW q \in published \cup {checkpoint}, p <= q
               PROVE  p \in published
    BY DEF NothingSkipped, relayVars
  <2>1. q \in Positions \cup {0}
    BY DEF RelayInv
  <2>2. p \in Positions
    BY <1>3, <1>6, <2>1
  <2> QED  BY <2>2 DEF RelayInv, NothingSkipped
<1>9. ASSUME NEW i \in Relays  PROVE Gapless(i)'
  <2>1. Gapless(i) /\ relay'[i] = relay[i] /\ published' = published
    BY DEF RelayInv, relayVars
  <2>2. ASSUME NEW p \in Positions', NEW q \in relay[i].batch, p > relay[i].position, p < q
        PROVE  p \in relay[i].batch
    <3>1. q \in Positions
      BY <2>1 DEF Gapless
    <3>2. p \in Positions
      BY <1>3, <1>6, <2>2, <3>1
    <3> QED  BY <2>1, <2>2, <3>2 DEF Gapless
  <2>3. relay[i].batch \subseteq Positions'
    BY <1>5, <2>1 DEF Gapless
  <2> QED  BY <2>1, <2>2, <2>3 DEF Gapless
<1>10. (published \subseteq Positions)' /\ (checkpoint \in published \cup {0})'
  BY <1>5 DEF RelayInv, relayVars
<1> QED  BY <1>1, <1>7, <1>8, <1>9, <1>10 DEF RelayInv

\* Publishing the least position of a batch passes no committed one.
LEMMA PublishInv ==
  ASSUME RelayInv, NEW i \in Relays, Publish(i), UNCHANGED storeVars
  PROVE  RelayInv'
<1> DEFINE m == Min(relay[i].batch)
           d == [relay[i] EXCEPT !.position = m, !.batch = @ \ {m}]
<1>0. /\ TypeOK /\ StoreTypeOK /\ Gapless(i) /\ relay \in [Relays -> RelayType]
      /\ relay[i] \in RelayType /\ relay[i].batch \subseteq 1 .. MaxPosition
  BY DEF RelayInv, TypeOK, RelayType
<1>1. Positions \subseteq 1 .. MaxPosition /\ Positions \subseteq Nat \ {0}
  BY <1>0, PositionsType
<1>2. m \in relay[i].batch /\ \A y \in relay[i].batch : m <= y
  BY <1>0, LeastPosition DEF Publish
<1>3. /\ published' = published \cup {m} /\ UNCHANGED <<checkpoint, stops>>
      /\ relay' = [relay EXCEPT ![i].position = m, ![i].batch = @ \ {m}]
  BY DEF Publish
<1> HIDE DEF m
<1>4. relay' = [relay EXCEPT ![i] = d]
  BY <1>0, <1>3
<1>5. d \in RelayType /\ d.position = m /\ d.batch = relay[i].batch \ {m}
  <2>1. m \in 0 .. MaxPosition /\ relay[i].batch \ {m} \in SUBSET (1 .. MaxPosition)
    BY <1>0, <1>2, StoreAssumption
  <2> QED  BY <1>0, <2>1 DEF RelayType
<1>6. m \in Positions /\ m > relay[i].position /\ relay[i].position \in Nat
  BY <1>0, <1>2, StoreAssumption DEF Gapless, RelayType
<1>7. ASSUME NEW p \in Positions, NEW q \in published \cup {m}, p <= q
      PROVE  p \in published \cup {m}
  <2>1. CASE q \in published
    BY <1>7, <2>1 DEF RelayInv, NothingSkipped
  <2>2. CASE q = m /\ p <= relay[i].position
    <3>1. relay[i].position \in published \cup {0}
      BY <1>0 DEF Gapless
    <3> QED  BY <2>2, <3>1, BelowPublished
  <2>3. CASE q = m /\ p > relay[i].position /\ p # m
    <3>1. p < m
      BY <1>1, <1>6, <1>7, <2>3
    <3>2. p \in relay[i].batch
      BY <1>0, <1>2, <2>3, <3>1 DEF Gapless
    <3> QED  BY <1>1, <1>2, <1>6, <3>1, <3>2
  <2> QED  BY <1>1, <1>6, <1>7, <2>1, <2>2, <2>3
<1>8. \A p \in d.batch : p > d.position /\ p \in Positions
  BY <1>0, <1>1, <1>2, <1>5 DEF Gapless
<1>9. ASSUME NEW p \in Positions, NEW q \in d.batch, p > d.position, p < q
      PROVE  p \in d.batch
  <2>1. p > relay[i].position /\ p # m
    BY <1>1, <1>5, <1>6, <1>9
  <2> QED  BY <1>0, <1>5, <1>9, <2>1 DEF Gapless
<1>10. /\ published \subseteq published' /\ published' \subseteq Positions
       /\ checkpoint' \in published' \cup {0} /\ stops' \in 0 .. MaxStops
       /\ d.position \in published' \cup {0} /\ d.batch \subseteq Positions
  BY <1>0, <1>3, <1>5, <1>6, <1>8 DEF RelayInv, TypeOK
<1>11. \A p \in Positions, q \in published' : p <= q => p \in published'
  BY <1>3, <1>7
<1> HIDE DEF d
<1> QED  BY <1>4, <1>5, <1>8, <1>9, <1>10, <1>11, RelayStep
-----------------------------------------------------------------------------
\* The relays wait, and nothing is published.
LEMMA RelayInit == Init => RelayInv
<1> SUFFICES ASSUME Init PROVE RelayInv
  OBVIOUS
<1>1. Inv
  BY InitInv DEF Init
<1>2. TypeOK
  BY <1>1, WaitingType, StoreAssumption, RelayAssumption DEF Init, TypeOK, Inv, RelayType
<1>3. Positions = {}
  BY DEF Init, StoreInit, Positions
<1>4. \A i \in Relays : relay[i] = Waiting
  BY DEF Init
<1> QED  BY <1>1, <1>2, <1>3, <1>4, WaitingType DEF RelayInv, Init, NothingSkipped, Gapless

\* Every step keeps the invariant.
LEMMA RelayNext ==
  ASSUME RelayInv, [Next]_vars
  PROVE  RelayInv'
<1>0. /\ TypeOK /\ StoreTypeOK /\ relay \in [Relays -> RelayType]
      /\ published \subseteq Positions /\ checkpoint \in published \cup {0}
      /\ \A p \in Positions, q \in published : p <= q => p \in published
      /\ stops \in 0 .. MaxStops
  BY DEF RelayInv, TypeOK, RelayType, NothingSkipped
<1>1. ASSUME NEW i \in Relays, LoadCheckpoint(i), UNCHANGED storeVars  PROVE RelayInv'
  <2> DEFINE d == [step |-> "read", position |-> checkpoint, batch |-> {}]
  <2>1. /\ relay' = [relay EXCEPT ![i] = d] /\ UNCHANGED <<checkpoint, published, stops>>
        /\ d \in RelayType /\ d.position = checkpoint /\ d.batch = {}
    BY <1>0, <1>1 DEF LoadCheckpoint, RelayType, TypeOK
  <2> HIDE DEF d
  <2> QED  BY <1>0, <1>1, <2>1, RelayStep
<1>2. ASSUME NEW i \in Relays, ReadBatch(i), UNCHANGED storeVars  PROVE RelayInv'
  <2> DEFINE b == ReadAll(relay[i].position, BatchSize)
             d == IF b = {} THEN Waiting ELSE [relay[i] EXCEPT !.step = "publish", !.batch = b]
  <2>1. relay[i] \in RelayType /\ relay[i].position \in Nat /\ Gapless(i)
    BY <1>0, StoreAssumption DEF RelayType, RelayInv
  <2>2. /\ b \subseteq Positions
        /\ \A p \in b : p > relay[i].position
        /\ \A p \in Positions, q \in b : p > relay[i].position /\ p < q => p \in b
    BY <1>0, <2>1, ReadAllGapless
  <2>3. b \subseteq 1 .. MaxPosition
    BY <1>0, <2>2, PositionsType
  <2>4. relay' = [relay EXCEPT ![i] = d] /\ UNCHANGED <<checkpoint, published, stops>>
    BY <1>0, <1>2 DEF ReadBatch
  <2> HIDE DEF b
  <2>5. CASE b = {}
    <3>1. d \in RelayType /\ d.position = 0 /\ d.batch = {}
      BY <2>5, WaitingType
    <3> HIDE DEF d
    <3> QED  BY <1>0, <1>2, <2>4, <3>1, RelayStep
  <2>6. CASE b # {}
    <3>1. d \in RelayType /\ d.position = relay[i].position /\ d.batch = b
      BY <2>1, <2>3, <2>6 DEF RelayType
    <3>2. d.position \in published \cup {0}
      BY <2>1, <3>1 DEF Gapless
    <3> HIDE DEF d
    <3> QED  BY <1>0, <1>2, <2>2, <2>4, <3>1, <3>2, RelayStep
  <2> QED  BY <2>5, <2>6
<1>3. ASSUME NEW i \in Relays, Publish(i), UNCHANGED storeVars  PROVE RelayInv'
  BY <1>3, PublishInv
<1>4. ASSUME NEW i \in Relays, SaveCheckpoint(i), UNCHANGED storeVars  PROVE RelayInv'
  <2> DEFINE d == Waiting
  <2>1. relay[i].position \in published \cup {0}
    BY DEF RelayInv, Gapless
  <2>2. /\ relay' = [relay EXCEPT ![i] = d] /\ UNCHANGED <<published, stops>>
        /\ checkpoint' \in published \cup {0}
        /\ d \in RelayType /\ d.position = 0 /\ d.batch = {}
    BY <1>4, <2>1, WaitingType DEF SaveCheckpoint
  <2> HIDE DEF d
  <2> QED  BY <1>0, <1>4, <2>2, RelayStep
<1>5. ASSUME NEW i \in Relays, Stop(i), UNCHANGED storeVars  PROVE RelayInv'
  <2> DEFINE d == Waiting
  <2>1. /\ relay' = [relay EXCEPT ![i] = d] /\ UNCHANGED <<published, checkpoint>>
        /\ d \in RelayType /\ d.position = 0 /\ d.batch = {} /\ stops' \in 0 .. MaxStops
    BY <1>0, <1>5, WaitingType, RelayAssumption DEF Stop
  <2> HIDE DEF d
  <2> QED  BY <1>0, <1>5, <2>1, RelayStep
<1>6. ASSUME StoreNext, UNCHANGED relayVars  PROVE RelayInv'
  BY <1>6, StoreStep
<1>7. CASE UNCHANGED vars
  <2>1. UNCHANGED storeVars /\ UNCHANGED relayVars
    BY <1>7 DEF vars
  <2>2. Inv' /\ Positions' = Positions
    BY <2>1, NextInv DEF RelayInv, storeVars, Positions
  <2> QED  BY <2>1, <2>2 DEF RelayInv, TypeOK, StoreTypeOK, NothingSkipped, Gapless, storeVars,
                             relayVars
<1> QED  BY <1>1, <1>2, <1>3, <1>4, <1>5, <1>6, <1>7 DEF Next, RunOnce

\* The inductive invariant of the relays and the store together.
THEOREM RelayInvariance == Spec => []RelayInv
<1>1. RelayInv /\ [Next]_vars => RelayInv'
  BY RelayNext
<1> QED  BY <1>1, RelayInit, PTL DEF Spec

\* Whatever commits while relays read, stop and restart, no committed event at or below
\* a published position or the checkpoint is left unpublished (relay.py, run_once).
THEOREM NeverSkips == Spec => []NothingSkipped
BY RelayInvariance, PTL DEF RelayInv

\* However many relays share the checkpoint, events are first published in ascending
\* position order (relay.py, run_once).
THEOREM FirstPublishedInOrder == Spec => PublishedInOrder
<1>1. RelayInv /\ RelayInv' /\ [Next]_vars =>
        [\A p \in published' \ published, q \in published : q < p]_vars
  <2> SUFFICES ASSUME RelayInv, RelayInv', Next,
                      NEW p \in published' \ published, NEW q \in published
               PROVE  q < p
    OBVIOUS
  <2>1. UNCHANGED storeVars
    BY DEF Next, relayVars
  <2>2. p \in Positions /\ q \in Positions
    BY <2>1 DEF RelayInv, storeVars, Positions
  <2>3. p \in Nat /\ q \in Nat
    BY <2>2, PositionsType DEF RelayInv, TypeOK
  <2>4. ~(p <= q)
    BY <2>2 DEF RelayInv, NothingSkipped
  <2> QED  BY <2>3, <2>4
<1> QED  BY <1>1, RelayInvariance, PTL DEF Spec, PublishedInOrder
=============================================================================
