--------------------------- MODULE EventStore_proofs ---------------------------
(***************************************************************************)
(* Proofs about EventStore for any writers, streams and batch sizes:       *)
(* StreamsContiguous and CommitOrder.  Both rest on the advisory lock.     *)
(* While a writer inserts nobody else does, so the stream it checked stays *)
(* at the version it expects, and the positions it draws are above all     *)
(* that was committed.                                                     *)
(***************************************************************************)
EXTENDS EventStore, FiniteSetTheorems, TLAPS

Locked(w) == append[w].step \in {"locked", "insert"}

\* The advisory lock has one holder, and only it has rows.
Exclusive ==
  /\ \A w, v \in Writers : Locked(w) /\ Locked(v) => w = v
  /\ \A w \in Writers : append[w].step # "insert" => append[w].rows = {}
  /\ \A w \in Writers : append[w].step # "idle" => append[w].stream \in Streams

\* The versions of a stream are an initial segment.
Segments == \A s \in Streams : \E n \in Nat : Versions(s) = 1 .. n

\* Rows of one stream are ordered by version as by position.
Ordered(rows) ==
  \A r, x \in rows :
    /\ SameKey(r, x) => r = x
    /\ r.stream = x.stream /\ r.version < x.version => r.position < x.position

\* The rows of an insert continue the stream it checked, above every committed position.
Continues(w) ==
  /\ Versions(append[w].stream) = 1 .. append[w].expected
  /\ IsFiniteSet(append[w].rows)
  /\ \A r \in append[w].rows :
       /\ r.stream = append[w].stream
       /\ r.version > append[w].expected
       /\ r.version <= append[w].expected + Cardinality(append[w].rows)
       /\ r.position <= sequence
       /\ \A x \in events : x.position < r.position
  /\ \A v \in Nat :
       v > append[w].expected /\ v <= append[w].expected + Cardinality(append[w].rows) =>
         \E r \in append[w].rows : r.version = v
  /\ Ordered(append[w].rows)

Inv ==
  /\ StoreTypeOK
  /\ Exclusive
  /\ Segments
  /\ Ordered(events)
  /\ \A x \in events : x.position <= sequence
  /\ \A w \in Writers : append[w].step = "insert" => Continues(w)
-----------------------------------------------------------------------------
\* SELECT COALESCE(MAX(version), 0) over versions without a gap.
LEMMA MaxOfSegment ==
  ASSUME NEW n \in Nat
  PROVE  Max({0} \cup 1 .. n) = n
<1> DEFINE S == {0} \cup 1 .. n
<1>1. n \in S /\ (\A y \in S : n >= y)
  OBVIOUS
<1>2. Max(S) \in S /\ (\A y \in S : Max(S) >= y)
  BY <1>1 DEF Max
<1> QED  BY <1>1, <1>2

\* What the rows of one stream are.
LEMMA VersionsMember ==
  ASSUME NEW s, NEW v
  PROVE  v \in Versions(s) <=> \E x \in events : x.stream = s /\ x.version = v
BY DEF Versions

AppendType ==
  [step : {"idle", "begin", "locked", "insert"}, stream : Streams \cup {"none"}, expected : Nat,
   left : 0 .. MaxBatch, rows : SUBSET Row]

\* Nothing is pending for an idle writer.
LEMMA IdleType == Idle \in AppendType /\ Idle.step = "idle" /\ Idle.rows = {}
BY StoreAssumption DEF Idle, AppendType

\* A step that leaves the table and the sequence alone, and gives writer w a record d
\* without rows.
LEMMA QuietInv ==
  ASSUME Inv, NEW w \in Writers, NEW d \in AppendType, append' = [append EXCEPT ![w] = d],
         UNCHANGED events, sequence' \in 0 .. MaxPosition, sequence' >= sequence,
         d.rows = {}, d.step # "idle" => d.stream \in Streams,
         d.step \in {"locked", "insert"} => \A v \in Writers \ {w} : ~Locked(v),
         d.step = "insert" => Versions(d.stream) = 1 .. d.expected
  PROVE  Inv'
<1>0. StoreTypeOK /\ Exclusive /\ Segments /\ Ordered(events)
  BY DEF Inv
<1>1. /\ append \in [Writers -> AppendType] /\ append'[w] = d
      /\ \A v \in Writers \ {w} : append'[v] = append[v]
      /\ append' \in [Writers -> AppendType]
  BY <1>0 DEF StoreTypeOK, AppendType
<1>2. sequence \in Nat /\ sequence' \in Nat /\ events' = events
  BY <1>0, StoreAssumption DEF StoreTypeOK
<1>3. StoreTypeOK'
  BY <1>0, <1>1, <1>2 DEF StoreTypeOK, AppendType
<1>4. Exclusive'
  BY <1>0, <1>1 DEF Exclusive, Locked
<1>5. \A s : Versions(s)' = Versions(s)
  BY <1>2 DEF Versions
<1>6. Segments' /\ Ordered(events)'
  BY <1>0, <1>2, <1>5 DEF Segments, Ordered, SameKey
<1>7. (\A x \in events : x.position <= sequence)'
  BY <1>0, <1>2, StoreAssumption DEF Inv, StoreTypeOK, Row
<1>8. ASSUME NEW v \in Writers, append'[v].step = "insert"  PROVE Continues(v)'
  <2>1. CASE v = w
    <3>1. IsFiniteSet(append'[v].rows) /\ Cardinality(append'[v].rows) = 0 /\ append'[v].rows = {}
      BY <1>1, <2>1, FS_EmptySet
    <3>2. (Versions(append[v].stream) = 1 .. append[v].expected)'
      BY <1>1, <1>2, <1>8, <2>1 DEF Versions
    <3>3. append'[v].expected \in Nat
      BY <1>1, <2>1 DEF AppendType
    <3> QED  BY <3>1, <3>2, <3>3 DEF Continues, Ordered
  <2>2. CASE v # w
    <3>1. append'[v] = append[v] /\ Continues(v)
      BY <1>1, <1>8, <2>2 DEF Inv
    <3>2. \A r \in append[v].rows : r.position <= sequence'
      BY <1>1, <1>2, <3>1 DEF Continues, AppendType, Row
    <3> QED  BY <1>2, <1>5, <3>1, <3>2 DEF Continues, Ordered, SameKey
  <2> QED  BY <2>1, <2>2
<1> QED  BY <1>3, <1>4, <1>6, <1>7, <1>8 DEF Inv

\* An insert that meets no row with its key extends the writer's rows by one.
LEMMA InsertInv ==
  ASSUME Inv, NEW w \in Writers, append[w].step = "insert", append[w].left > 0,
         sequence < MaxPosition, sequence' = sequence + 1, UNCHANGED events,
         append' = [append EXCEPT ![w].rows = @ \cup {NextRow(w)}, ![w].left = @ - 1]
  PROVE  Inv'
<1> DEFINE row == NextRow(w)
           rows == append[w].rows
           e == append[w].expected
           n == Cardinality(rows)
           d == [append[w] EXCEPT !.rows = rows \cup {row}, !.left = @ - 1]
<1>0. StoreTypeOK /\ Exclusive /\ Segments /\ Ordered(events) /\ Continues(w)
  BY DEF Inv
<1>1. /\ append \in [Writers -> AppendType] /\ append[w] \in AppendType
      /\ sequence \in Nat /\ sequence' \in 1 .. MaxPosition
      /\ e \in Nat /\ rows \subseteq Row /\ append[w].stream \in Streams
  BY <1>0, StoreAssumption DEF StoreTypeOK, AppendType, Exclusive
<1>2. IsFiniteSet(rows) /\ n \in Nat
  BY <1>0, FS_CardinalityType DEF Continues
<1>3. /\ row.position = sequence + 1 /\ row.stream = append[w].stream /\ row.version = e + n + 1
      /\ row \in Row
  BY <1>1, <1>2 DEF NextRow, Row
<1>4. \A r \in rows : /\ r.stream = append[w].stream /\ r.version > e /\ r.version <= e + n
                      /\ r.position <= sequence /\ r.position \in Nat /\ r.version \in Nat
  BY <1>0, <1>1, StoreAssumption DEF Continues, Row
<1>5. row \notin rows
  BY <1>1, <1>3, <1>4
<1> HIDE DEF row
<1>6. IsFiniteSet(rows \cup {row}) /\ Cardinality(rows \cup {row}) = n + 1
  BY <1>2, <1>5, FS_AddElement
<1>7. /\ d \in AppendType /\ d.rows = rows \cup {row} /\ d.step = "insert"
      /\ d.stream = append[w].stream /\ d.expected = e
  <2>1. append[w].left - 1 \in 0 .. MaxBatch /\ rows \cup {row} \in SUBSET Row
    BY <1>1, <1>3, StoreAssumption DEF AppendType
  <2> QED  BY <1>1, <2>1 DEF AppendType
<1>8. append' = [append EXCEPT ![w] = d]
  BY <1>1 DEF row
<1> HIDE DEF d
<1>9. /\ append' \in [Writers -> AppendType] /\ append'[w] = d
      /\ \A v \in Writers \ {w} : append'[v] = append[v]
  BY <1>1, <1>7, <1>8
<1>10. StoreTypeOK'
  BY <1>0, <1>1, <1>9 DEF StoreTypeOK, AppendType
<1>11. Exclusive'
  BY <1>0, <1>1, <1>7, <1>9 DEF Exclusive, Locked
<1>12. Segments' /\ Ordered(events)'
  BY <1>0 DEF Segments, Ordered, SameKey, Versions
<1>13. \A x \in events : x.position <= sequence /\ x.position \in Nat
  BY <1>0, StoreAssumption DEF Inv, StoreTypeOK, Row
<1>14. Continues(w)'
  <2>1. (Versions(append[w].stream) = 1 .. append[w].expected)'
    BY <1>0, <1>7, <1>9 DEF Continues, Versions
  <2>2. \A r \in rows \cup {row} :
          /\ r.stream = append[w].stream /\ r.version > e /\ r.version <= e + (n + 1)
          /\ r.position <= sequence' /\ \A x \in events : x.position < r.position
    <3>1. ASSUME NEW r \in rows
          PROVE  /\ r.stream = append[w].stream /\ r.version > e /\ r.version <= e + (n + 1)
                 /\ r.position <= sequence' /\ \A x \in events : x.position < r.position
      <4>1. \A x \in events : x.position < r.position
        BY <1>0 DEF Continues
      <4> QED  BY <1>1, <1>2, <1>4, <4>1
    <3>2. /\ row.stream = append[w].stream /\ row.version > e /\ row.version <= e + (n + 1)
          /\ row.position <= sequence' /\ \A x \in events : x.position < row.position
      BY <1>1, <1>2, <1>3, <1>13
    <3> QED  BY <3>1, <3>2
  <2>3. ASSUME NEW v \in Nat, v > e, v <= e + (n + 1)
        PROVE  \E r \in rows \cup {row} : r.version = v
    <3>1. CASE v <= e + n
      BY <1>0, <2>3, <3>1 DEF Continues
    <3>2. CASE v = e + n + 1
      BY <1>3, <3>2
    <3> QED  BY <1>1, <1>2, <2>3, <3>1, <3>2
  <2>4. Ordered(rows \cup {row})
    <3>1. Ordered(rows)
      BY <1>0 DEF Continues
    <3>2. \A r \in rows : r.version < row.version /\ r.position < row.position
      BY <1>1, <1>2, <1>3, <1>4
    <3>3. row.version \in Nat /\ row.position \in Nat
      BY <1>1, <1>2, <1>3
    <3>4. ASSUME NEW r \in rows \cup {row}, NEW x \in rows \cup {row}
          PROVE  /\ SameKey(r, x) => r = x
                 /\ r.stream = x.stream /\ r.version < x.version => r.position < x.position
      <4>1. CASE r \in rows /\ x \in rows
        BY <3>1, <4>1 DEF Ordered
      <4>2. CASE r = row /\ x = row
        BY <3>3, <4>2
      <4>3. CASE r = row /\ x \in rows
        BY <1>4, <3>2, <3>3, <4>3 DEF SameKey
      <4>4. CASE r \in rows /\ x = row
        BY <1>4, <3>2, <3>3, <4>4 DEF SameKey
      <4> QED  BY <4>1, <4>2, <4>3, <4>4
    <3> QED  BY <3>4 DEF Ordered
  <2>5. /\ append'[w].rows = rows \cup {row} /\ append'[w].expected = e
        /\ append'[w].stream = append[w].stream
    BY <1>7, <1>9
  <2>6. events' = events
    OBVIOUS
  <2> HIDE DEF rows, e, n
  <2>7. (\A r \in append[w].rows :
           /\ r.stream = append[w].stream
           /\ r.version > append[w].expected
           /\ r.version <= append[w].expected + Cardinality(append[w].rows)
           /\ r.position <= sequence
           /\ \A x \in events : x.position < r.position)'
    BY <1>6, <2>2, <2>5, <2>6
  <2>8. (\A v \in Nat :
           v > append[w].expected /\ v <= append[w].expected + Cardinality(append[w].rows) =>
             \E r \in append[w].rows : r.version = v)'
    BY <1>6, <2>3, <2>5
  <2>9. IsFiniteSet(append[w].rows)' /\ Ordered(append[w].rows)'
    BY <1>6, <2>4, <2>5 DEF Ordered, SameKey
  <2> QED  BY <2>1, <2>7, <2>8, <2>9 DEF Continues
<1>15. ASSUME NEW v \in Writers, append'[v].step = "insert"  PROVE v = w
  BY <1>0, <1>9, <1>15 DEF Exclusive, Locked
<1>16. (\A x \in events : x.position <= sequence)'
  BY <1>1, <1>13
<1> QED  BY <1>10, <1>11, <1>12, <1>14, <1>15, <1>16 DEF Inv

\* COMMIT makes the rows visible at the end of their stream.
LEMMA CommitInv ==
  ASSUME Inv, NEW w \in Writers, Commit(w)
  PROVE  Inv' /\ \A r \in events' \ events, x \in events : x.position < r.position
<1> DEFINE rows == append[w].rows
           s == append[w].stream
           e == append[w].expected
           n == Cardinality(rows)
<1>0. StoreTypeOK /\ Exclusive /\ Segments /\ Ordered(events) /\ Continues(w)
  BY DEF Inv, Commit
<1>1. /\ append \in [Writers -> AppendType] /\ append[w] \in AppendType
      /\ append[w].step = "insert" /\ e \in Nat /\ rows \subseteq Row
      /\ events' = events \cup rows /\ sequence' = sequence /\ sequence \in Nat
      /\ append' = [append EXCEPT ![w] = Idle]
  BY <1>0, StoreAssumption DEF StoreTypeOK, AppendType, Commit
<1>2. n \in Nat
  BY <1>0, FS_CardinalityType DEF Continues
<1>3. \A r \in rows : /\ r.stream = s /\ r.version > e /\ r.version <= e + n /\ r.version \in Nat
                      /\ r.position <= sequence /\ \A x \in events : x.position < r.position
  BY <1>0, <1>1 DEF Continues, Row
<1>4. \A v \in Nat : v > e /\ v <= e + n => \E r \in rows : r.version = v
  BY <1>0 DEF Continues
<1>5. \A x \in events : x.position <= sequence /\ x.position \in Nat /\ x.version \in Nat
  BY <1>0, StoreAssumption DEF Inv, StoreTypeOK, Row
<1>6. \A x \in events : x.stream = s => x.version <= e
  <2>1. Versions(s) = 1 .. e
    BY <1>0 DEF Continues
  <2>2. \A x \in events : x.stream = s => x.version \in Versions(s)
    BY DEF Versions
  <2> HIDE DEF s, e
  <2> QED  BY <1>1, <2>1, <2>2
<1>7. /\ append' \in [Writers -> AppendType] /\ append'[w] = Idle
      /\ \A v \in Writers \ {w} : append'[v] = append[v]
  BY <1>1, IdleType
<1>8. StoreTypeOK'
  BY <1>0, <1>1, <1>7 DEF StoreTypeOK, AppendType
<1>9. Exclusive'
  BY <1>0, <1>7, IdleType DEF Exclusive, Locked
<1>10. Segments'
  <2>1. ASSUME NEW t \in Streams  PROVE \E m \in Nat : Versions(t)' = 1 .. m
    <3>1. CASE t # s
      <4>1. Versions(t)' = Versions(t)
        BY <1>1, <1>3, <3>1 DEF Versions
      <4> QED  BY <1>0, <4>1 DEF Segments
    <3>2. CASE t = s
      <4>1. Versions(s) = 1 .. e
        BY <1>0 DEF Continues
      <4>2. ASSUME NEW v
            PROVE  v \in Versions(t)' <=> v \in Versions(s) \/ \E r \in rows : r.version = v
        <5>1. v \in Versions(t)' <=> \E x \in events' : x.stream = t /\ x.version = v
          BY DEF Versions
        <5>2. v \in Versions(s) <=> \E x \in events : x.stream = s /\ x.version = v
          BY VersionsMember
        <5> HIDE DEF rows, s
        <5> QED  BY <1>1, <1>3, <3>2, <5>1, <5>2
      <4>3. ASSUME NEW v
            PROVE  v \in Versions(t)' <=> v \in 1 .. e + n
        <5>1. (\E r \in rows : r.version = v) <=> v \in Nat /\ v > e /\ v <= e + n
          BY <1>3, <1>4
        <5> HIDE DEF rows, e, n
        <5> QED  BY <1>1, <1>2, <4>1, <4>2, <5>1
      <4>4. Versions(t)' = 1 .. e + n
        BY <4>3
      <4> QED  BY <1>1, <1>2, <4>4
    <3> QED  BY <3>1, <3>2
  <2> QED  BY <2>1 DEF Segments
<1>11. Ordered(events)'
  <2>1. Ordered(rows)
    BY <1>0 DEF Continues
  <2> HIDE DEF rows, s, e, n
  <2>2. ASSUME NEW r \in events \cup rows, NEW x \in events \cup rows
        PROVE  /\ SameKey(r, x) => r = x
               /\ r.stream = x.stream /\ r.version < x.version => r.position < x.position
    <3>1. CASE r \in events /\ x \in events
      BY <1>0, <3>1 DEF Ordered
    <3>2. CASE r \in rows /\ x \in rows
      BY <2>1, <3>2 DEF Ordered
    <3>3. CASE r \in events /\ x \in rows
      BY <1>1, <1>3, <1>5, <1>6, <3>3 DEF SameKey
    <3>4. CASE r \in rows /\ x \in events
      BY <1>1, <1>3, <1>5, <1>6, <3>4 DEF SameKey
    <3> QED  BY <3>1, <3>2, <3>3, <3>4
  <2> QED  BY <1>1, <2>2 DEF Ordered, SameKey
<1>12. (\A x \in events : x.position <= sequence)'
  BY <1>1, <1>3, <1>5
<1>13. \A v \in Writers : append'[v].step # "insert"
  BY <1>0, <1>1, <1>7, IdleType DEF Exclusive, Locked
<1>14. \A r \in events' \ events, x \in events : x.position < r.position
  BY <1>1, <1>3
<1> QED  BY <1>8, <1>9, <1>10, <1>11, <1>12, <1>13, <1>14 DEF Inv
-----------------------------------------------------------------------------
\* Rolling back leaves nothing but a hole in the sequence.
LEMMA RollbackInv ==
  ASSUME Inv, NEW w \in Writers, Rollback(w), UNCHANGED events,
         sequence' \in 0 .. MaxPosition, sequence' >= sequence
  PROVE  Inv'
<1> DEFINE d == Idle
<1>1. /\ append' = [append EXCEPT ![w] = d] /\ d \in AppendType
      /\ d.rows = {} /\ d.step = "idle"
  BY IdleType DEF Rollback
<1> HIDE DEF d
<1> QED  BY <1>1, QuietInv

\* An empty table without gaps.
LEMMA InitInv == StoreInit => Inv
<1> SUFFICES ASSUME StoreInit PROVE Inv
  OBVIOUS
<1>1. \A w \in Writers : append[w] = Idle
  BY DEF StoreInit
<1>2. StoreTypeOK
  BY IdleType, StoreAssumption DEF StoreInit, StoreTypeOK, AppendType
<1>3. Exclusive
  BY <1>1, IdleType DEF Exclusive, Locked
<1>4. \A s \in Streams : Versions(s) = 1 .. 0
  BY DEF StoreInit, Versions
<1>5. Segments
  BY <1>4 DEF Segments
<1> QED  BY <1>1, <1>2, <1>3, <1>5, IdleType DEF Inv, StoreInit, Ordered

\* Every step keeps the invariant, and commits above what was committed.
LEMMA NextInv ==
  ASSUME Inv, [StoreNext]_storeVars
  PROVE  Inv' /\ [\A r \in events' \ events, x \in events : x.position < r.position]_storeVars
<1> DEFINE Above == \A r \in events' \ events, x \in events : x.position < r.position
<1>0. /\ StoreTypeOK /\ Exclusive /\ Segments /\ append \in [Writers -> AppendType]
      /\ sequence \in 0 .. MaxPosition /\ sequence >= sequence
  BY StoreAssumption DEF Inv, StoreTypeOK, AppendType
<1>1. ASSUME NEW w \in Writers, NEW t \in Streams, NEW m \in 1 .. MaxBatch, LoadStream(w, t, m)
      PROVE  Inv' /\ Above
  <2> DEFINE d == [step |-> "begin", stream |-> t, left |-> m, rows |-> {},
                   expected |-> Cardinality(Versions(t))]
  <2>1. append' = [append EXCEPT ![w] = d] /\ UNCHANGED <<events, sequence>>
    BY <1>1 DEF LoadStream
  <2>2. PICK n \in Nat : Versions(t) = 1 .. n
    BY <1>0 DEF Segments
  <2>3. Cardinality(Versions(t)) \in Nat
    <3>1. IsFiniteSet(1 .. n)
      BY FS_Interval
    <3> QED  BY <2>2, <3>1, FS_CardinalityType
  <2>4. d \in AppendType /\ d.rows = {} /\ d.step = "begin" /\ d.stream \in Streams
    BY <2>3, StoreAssumption DEF AppendType
  <2> HIDE DEF d
  <2> QED  BY <1>0, <2>1, <2>4, QuietInv
<1>2. ASSUME NEW w \in Writers, TakeLock(w)  PROVE Inv' /\ Above
  <2> DEFINE d == [append[w] EXCEPT !.step = "locked"]
  <2>1. append' = [append EXCEPT ![w] = d] /\ UNCHANGED <<events, sequence>>
    BY <1>0, <1>2 DEF TakeLock
  <2>2. /\ d \in AppendType /\ d.rows = {} /\ d.step = "locked" /\ d.stream \in Streams
        /\ \A v \in Writers : ~Locked(v)
    BY <1>0, <1>2 DEF TakeLock, LockHolders, Locked, Exclusive, AppendType
  <2> HIDE DEF d
  <2> QED  BY <1>0, <2>1, <2>2, QuietInv
<1>3. ASSUME NEW w \in Writers, CheckVersion(w)  PROVE Inv' /\ Above
  <2>0. append[w].step = "locked" /\ append[w].stream \in Streams /\ append[w].rows = {}
        /\ UNCHANGED <<events, sequence>>
    BY <1>0, <1>3 DEF CheckVersion, Exclusive
  <2>1. CASE Rollback(w)
    BY <1>0, <2>0, <2>1, RollbackInv
  <2>2. CASE /\ Max({0} \cup Versions(append[w].stream)) = append[w].expected
             /\ append' = [append EXCEPT ![w].step = "insert"]
    <3> DEFINE d == [append[w] EXCEPT !.step = "insert"]
    <3>1. append' = [append EXCEPT ![w] = d]
      BY <1>0, <2>2
    <3>2. PICK n \in Nat : Versions(append[w].stream) = 1 .. n
      BY <1>0, <2>0 DEF Segments
    <3>3. n = append[w].expected
      BY <2>2, <3>2, MaxOfSegment
    <3>4. /\ d \in AppendType /\ d.rows = {} /\ d.step = "insert" /\ d.stream \in Streams
          /\ d.stream = append[w].stream /\ d.expected = append[w].expected
      BY <1>0, <2>0 DEF AppendType
    <3>5. \A v \in Writers \ {w} : ~Locked(v)
      BY <1>0, <2>0 DEF Exclusive, Locked
    <3>6. Versions(d.stream) = 1 .. d.expected
      BY <3>2, <3>3, <3>4
    <3> HIDE DEF d
    <3> QED  BY <1>0, <2>0, <3>1, <3>4, <3>5, <3>6, QuietInv
  <2> QED  BY <1>3, <2>1, <2>2 DEF CheckVersion
<1>4. ASSUME NEW w \in Writers, InsertEvent(w)  PROVE Inv' /\ Above
  <2>0. /\ append[w].step = "insert" /\ append[w].left > 0 /\ sequence < MaxPosition
        /\ sequence' = sequence + 1 /\ UNCHANGED events
    BY <1>4 DEF InsertEvent
  <2>1. CASE Rollback(w)
    <3>1. sequence' \in 0 .. MaxPosition /\ sequence' >= sequence
      BY <1>0, <2>0, StoreAssumption
    <3> QED  BY <2>0, <2>1, <3>1, RollbackInv
  <2>2. CASE append' = [append EXCEPT ![w].rows = @ \cup {NextRow(w)}, ![w].left = @ - 1]
    BY <2>0, <2>2, InsertInv
  <2> QED  BY <1>4, <2>0, <2>1, <2>2 DEF InsertEvent
<1>5. ASSUME NEW w \in Writers, Commit(w)  PROVE Inv' /\ Above
  BY <1>5, CommitInv
<1>6. ASSUME NEW w \in Writers, Abort(w)  PROVE Inv' /\ Above
  BY <1>0, <1>6, RollbackInv DEF Abort
<1>7. CASE UNCHANGED storeVars
  <2>1. Inv'
    BY <1>7 DEF Inv, StoreTypeOK, Exclusive, Locked, Segments, Versions, Ordered, SameKey,
                Continues, storeVars
  <2> QED  BY <1>7, <2>1
<1> QED  BY <1>1, <1>2, <1>3, <1>4, <1>5, <1>6, <1>7 DEF StoreNext

\* The inductive invariant holds in every reachable state.
THEOREM Invariance == StoreSpec => []Inv
<1>1. Inv /\ [StoreNext]_storeVars => Inv'
  BY NextInv
<1> QED  BY <1>1, InitInv, PTL DEF StoreSpec

\* However appends interleave or are rolled back, the versions of every stream are
\* 1, 2, ..., n, each given to one event, in the order of their positions (postgres.py,
\* append).
THEOREM VersionsContiguous == StoreSpec => []StreamsContiguous
<1>1. Inv => StreamsContiguous
  <2> SUFFICES ASSUME Inv PROVE StreamsContiguous
    OBVIOUS
  <2>1. ASSUME NEW s \in Streams  PROVE Versions(s) = 1 .. Cardinality(Versions(s))
    <3>1. PICK n \in Nat : Versions(s) = 1 .. n
      BY DEF Inv, Segments
    <3>2. Cardinality(Versions(s)) = n
      BY <3>1, FS_Interval
    <3> QED  BY <3>1, <3>2
  <2> QED  BY <2>1 DEF StreamsContiguous, Inv, Ordered
<1> QED  BY <1>1, Invariance, PTL

\* Positions are committed in order, so a consumer that tails the table by position
\* passes nothing that appears later (the advisory lock of postgres.py).
THEOREM PositionsCommittedInOrder == StoreSpec => CommitOrder
<1>1. Inv /\ [StoreNext]_storeVars =>
        [\A r \in events' \ events, x \in events : x.position < r.position]_storeVars
  BY NextInv
<1> QED  BY <1>1, Invariance, PTL DEF StoreSpec, CommitOrder
=============================================================================
