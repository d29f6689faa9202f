\* Transfers that may not settle: to an account that is not open yet and may close again,
\* and to an account in another currency.  Attempts are lost.
CONSTANTS
  A = A
  B = B
  C = C
  toUnopened = toUnopened
  toOtherCurrency = toOtherCurrency
  Accounts = {A, B, C}
  Transfers = {toUnopened, toOtherCurrency}
  Input <- MCInput
  Currency <- MCCurrency
  Opened = {A, C}
  Funds <- MCFunds
  DepositAmounts = {}
  MaxDeposited = 1
  Freezable = {}
  Closable = {B}
  MaxAttempts = 3
  CreditAttempts = 2
  WorkerFaults = {"interrupt"}
  MaxZombies = 0
  MaxLegs = 4
SPECIFICATION OperatedSpec
INVARIANTS
  MoneyKeepsCurrency
  FailedLeavesNothing
  AcceptsExactlyBalanced
  ReversalCancels
PROPERTIES
  Settles
  Resolves
