CONSTANTS
  Writers = {w1, w2, w3}
  Streams = {s1, s2}
  MaxBatch = 2
  MaxPosition = 4
SYMMETRY Symmetry
SPECIFICATION StoreSpec
INVARIANTS
  StoreTypeOK
  StreamsContiguous
PROPERTIES
  CommitOrder
  ImplementsEventLog
