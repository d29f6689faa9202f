---------------------------- MODULE MCTransferSaga ----------------------------
(* Small instances of TransferSaga: transfers of one unit from account A to  *)
(* account B, in the currency both accounts are opened in.                   *)
EXTENDS TransferSaga

CONSTANTS A, B

MCInput ==
  [t \in Transfers |-> [source |-> A, destination |-> B, amount |-> 1, currency |-> "EUR"]]

MCCurrency == [a \in Accounts |-> "EUR"]

\* Funds for one transfer.
MCFunds == [a \in Accounts |-> IF a = A THEN 1 ELSE 0]
=============================================================================
