CONSTANTS
  A = A
  B = B
  Accounts = {A, B}
  Transfers = {t1}
  Input <- MCInput
  Currency <- MCCurrency
  Opened = {A, B}
  Funds <- MCFunds
  DepositAmounts = {}
  MaxDeposited = 1
  Freezable = {A, B}
  Closable = {}
  MaxAttempts = 2
  CreditAttempts = 2
  WorkerFaults = {"exhaust", "zombie"}
  MaxZombies = 1
SPECIFICATION Spec
INVARIANTS
  TypeOK
  NoStaleAppend
  BalancesExplained
  CompensatesWhatItKnows
PROPERTIES
  ImplementsLifecycle
