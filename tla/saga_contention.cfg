CONSTANTS
  A = A
  B = B
  Accounts = {A, B}
  Transfers = {t1, t2}
  Input <- MCInput
  Currency <- MCCurrency
  Opened = {A, B}
  Funds <- MCFunds
  DepositAmounts = {1}
  MaxDeposited = 2
  Freezable = {B}
  Closable = {B}
  MaxAttempts = 5
  CreditAttempts = 3
  WorkerFaults = {}
  MaxZombies = 0
SPECIFICATION Spec
INVARIANTS
  NoStaleAppend
  BalancesExplained
  NoSilentLoss
  PaidOnce
  OutcomesAgree
