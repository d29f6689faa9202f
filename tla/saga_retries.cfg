CONSTANTS
  A = A
  B = B
  Accounts = {A, B}
  Transfers = {t1, t2}
  Input <- MCInput
  Currency <- MCCurrency
  Opened = {A, B}
  Funds <- MCFunds
  DepositAmounts = {1}
  MaxDeposited = 2
  Freezable = {}
  Closable = {}
  MaxAttempts = 2
  CreditAttempts = 2
  WorkerFaults = {"interrupt"}
  MaxZombies = 0
SPECIFICATION Spec
INVARIANTS
  FailedLeavesNothing
  PaidOnce
  OutcomesAgree
  BooksAgree
  DiesOnlyHolding
