CONSTANTS
  A = A
  B = B
  Accounts = {A, B}
  Transfers = {t1}
  Input <- MCInput
  Currency <- MCCurrency
  Opened = {A, B}
  Funds <- MCFunds
  DepositAmounts = {}
  MaxDeposited = 1
  Freezable = {A}
  Closable = {}
  MaxAttempts = 5
  CreditAttempts = 3
  WorkerFaults = {}
  MaxZombies = 0
SPECIFICATION Spec
INVARIANTS
  NoHoldStranded
