CONSTANTS
  Writers = {w1, w2}
  Streams = {s1}
  MaxBatch = 1
  MaxPosition = 3
  Relays = {r1, r2}
  BatchSize = 2
  MaxStops = 1
SPECIFICATION FairSpec
INVARIANTS
  TypeOK
  NothingSkipped
PROPERTIES
  PublishedInOrder
  EventuallyPublished
