\* Two queries over a log of up to four events, holes among them, read in batches of two.
CONSTANTS
  Accounts = {A}
  Amounts = {1}
  Queries = {q1, q2}
  BatchSize = 2
  MaxPosition = 4
  Payloads = {0, 1}
  MaxVersion = 4
SPECIFICATION FairSpec
INVARIANTS
  TypeOK
  ModelsExact
  UpcastsExactly
PROPERTIES
  AnswersCurrent
  QueriesEnd
