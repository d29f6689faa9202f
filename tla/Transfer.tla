------------------------------- MODULE Transfer -------------------------------
(***************************************************************************)
(* The Transfer aggregate (src/ledger/domain/transfers/transfer.py).  Its  *)
(* commands differ only in the statuses they accept and the event they     *)
(* record, so the aggregate is two tables.                                 *)
(***************************************************************************)
EXTENDS Integers

NonTerminal == {"initiated", "held", "posted"}

TransferStatus == NonTerminal \cup
                  {"completed", "failed", "needs_reconciliation", "reconciled"}

FailureReason == {"insufficient_funds", "conflict", "unknown_account", "account_not_active",
                  "currency_mismatch", "unbalanced_entry", "other"}

\* The stream nobody appended to is in status "none".
NewTransfer == [status |-> "none", reason |-> "none", version |-> 0]

\* Mutant: complete is refused once the transfer was parked.
RecordableFromUnparked ==
  [TransferInitiated               |-> {"none"},
   TransferHeld                    |-> {"initiated"},
   TransferPosted                  |-> {"held"},
   TransferCompleted               |-> {"posted"},
   TransferFailed                  |-> NonTerminal,
   TransferParkedForReconciliation |-> {"posted"},
   TransferReconciled              |-> {"needs_reconciliation"}]

\* The statuses from which a command may record its event: initiate, mark_held,
\* mark_posted, complete, fail, park_for_reconciliation and reconcile.
RecordableFrom ==
  [TransferInitiated               |-> {"none"},
   TransferHeld                    |-> {"initiated"},
   TransferPosted                  |-> {"held"},
   TransferCompleted               |-> {"posted", "needs_reconciliation"},
   TransferFailed                  |-> NonTerminal,
   TransferParkedForReconciliation |-> {"posted"},
   TransferReconciled              |-> {"needs_reconciliation"}]

TransferEvent == DOMAIN RecordableFrom

\* _apply: the status each event leads to.
StatusAfter ==
  [TransferInitiated               |-> "initiated",
   TransferHeld                    |-> "held",
   TransferPosted                  |-> "posted",
   TransferCompleted               |-> "completed",
   TransferFailed                  |-> "failed",
   TransferParkedForReconciliation |-> "needs_reconciliation",
   TransferReconciled              |-> "reconciled"]

RecordTransfer(tr, e, reason) ==
  [status  |-> StatusAfter[e],
   reason  |-> IF e = "TransferFailed" THEN reason ELSE tr.reason,
   version |-> tr.version + 1]
=============================================================================
