------------------------------- MODULE Account -------------------------------
(***************************************************************************)
(* The Account aggregate (src/ledger/domain/accounts/account.py) as pure   *)
(* operators.  An account is the fold of its event stream: "version" is    *)
(* the number of events in the stream, so version 0 is an account nobody   *)
(* opened.  A command decides, on the state that was loaded, what the      *)
(* aggregate buffers: the name of one event, the code of the domain error  *)
(* it raises, or "none" when it records nothing.  Apply is the single      *)
(* mutation point.                                                         *)
(***************************************************************************)
EXTENDS Integers

AccountStatus == {"open", "frozen", "closed"}

\* The events that carry an operation id.
SettlementEvent == {"FundsHeld", "HoldReleased", "AccountDebited", "AccountCredited"}

AccountEvent == SettlementEvent \cup
                {"AccountOpened", "FundsDeposited", "AccountFrozen", "AccountClosed"}

AccountError == {"unknown_account", "account_not_active", "currency_mismatch",
                 "insufficient_funds", "invalid_transition", "account_not_empty"}

\* A stream nobody appended to.  The fresh aggregate is inert: its status is closed.
\* "currency" is the one the account will be opened in.
NewAccount(currency) ==
  [status |-> "closed", currency |-> currency, available |-> 0, reserved |-> 0,
   ops |-> {}, version |-> 0]

-----------------------------------------------------------------------------
(* Commands. "m" is the money moved (a positive amount and a currency), "op" *)
(* the operation id of the saga step.                                        *)

\* _assert_operational: what happens unless the account is open and in m's currency.
Operational(acc, m, then) ==
  IF acc.status # "open" THEN "account_not_active"
  ELSE IF m.currency # acc.currency THEN "currency_mismatch"
  ELSE then

\* Mutant: the operation id is not looked up.
OnceOperationalNoDedupe(acc, m, op, then) == Operational(acc, m, then)

\* A command that was applied before records nothing; the check comes after
\* _assert_operational, as in the code.
OnceOperational(acc, m, op, then) ==
  Operational(acc, m, IF op \in acc.ops THEN "none" ELSE then)

Deposit(acc, m) == Operational(acc, m, "FundsDeposited")

\* Mutant: the available balance is not checked.
HoldUnchecked(acc, m, op) == OnceOperational(acc, m, op, "FundsHeld")

Hold(acc, m, op) ==
  OnceOperational(acc, m, op,
    IF acc.available < m.amount THEN "insufficient_funds" ELSE "FundsHeld")

ReleaseHold(acc, m, op) ==
  OnceOperational(acc, m, op,
    IF acc.reserved < m.amount THEN "insufficient_funds" ELSE "HoldReleased")

Debit(acc, m, op) ==
  OnceOperational(acc, m, op,
    IF acc.reserved < m.amount THEN "insufficient_funds" ELSE "AccountDebited")

Credit(acc, m, op) == OnceOperational(acc, m, op, "AccountCredited")

Freeze(acc) == IF acc.status # "open" THEN "invalid_transition" ELSE "AccountFrozen"

Close(acc) ==
  IF acc.status = "closed" THEN "invalid_transition"
  ELSE IF acc.available # 0 \/ acc.reserved # 0 THEN "account_not_empty"
  ELSE "AccountClosed"

-----------------------------------------------------------------------------
(* Apply(acc, e, m, op): the account after event e.  "m" and "op" are read only *)
(* for the events that carry them.                                             *)

Apply(acc, e, m, op) ==
  LET next == [acc EXCEPT !.version = @ + 1]
      moved == [next EXCEPT !.ops = @ \cup {op}]
  IN CASE e = "AccountOpened"   -> [next EXCEPT !.status = "open"]
       [] e = "FundsDeposited"  -> [next EXCEPT !.available = @ + m.amount]
       [] e = "FundsHeld"       -> [moved EXCEPT !.available = @ - m.amount,
                                                 !.reserved = @ + m.amount]
       [] e = "HoldReleased"    -> [moved EXCEPT !.reserved = @ - m.amount,
                                                 !.available = @ + m.amount]
       [] e = "AccountDebited"  -> [moved EXCEPT !.reserved = @ - m.amount]
       [] e = "AccountCredited" -> [moved EXCEPT !.available = @ + m.amount]
       [] e = "AccountFrozen"   -> [next EXCEPT !.status = "frozen"]
       [] e = "AccountClosed"   -> [next EXCEPT !.status = "closed"]
=============================================================================
