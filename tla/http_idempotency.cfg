\* Three requests under one key, handlers that die and acknowledgements that are lost.
CONSTANTS
  K = K
  NoKey = NoKey
  Keys = {K}
  Amounts = {1, 2}
  Inputs <- MCInputs
  MaxRequests = 3
  Backends = {"memory", "postgres"}
  Faults = {"die", "lost"}
SPECIFICATION FairSpec
INVARIANTS
  TypeOK
  ClaimHeld
  AcknowledgedOnce
  AnswersTrue
PROPERTIES
  MismatchMeansOther
  ClaimsEnd
