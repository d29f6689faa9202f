-------------------------------- MODULE Journal --------------------------------
(***************************************************************************)
(* Journal entries (src/ledger/domain/ledger/journal_entry.py, leg.py) as  *)
(* pure operators: a leg debits or credits an amount on an account, an     *)
(* entry is a sequence of legs that _assert_balanced accepted.             *)
(***************************************************************************)
EXTENDS Integers, Sequences, FiniteSetsExt

LegDirection == {"debit", "credit"}

Leg(direction, a, m) ==
  [direction |-> direction, account |-> a, amount |-> m.amount, currency |-> m.currency]

\* The keys of debit_total or credit_total, and the value under one of them; the
\* defaultdict holds 0 under the others.
Currencies(legs, d) == {legs[i].currency : i \in {j \in DOMAIN legs : legs[j].direction = d}}

Total(legs, d, c) ==
  MapThenSumSet(LAMBDA i : legs[i].amount,
                {i \in DOMAIN legs : legs[i].direction = d /\ legs[i].currency = c})

\* Mutant: only the currencies with a debit are compared.
UnequalDebited(legs) ==
  \E c \in Currencies(legs, "debit") : Total(legs, "debit", c) # Total(legs, "credit", c)

Unequal(legs) ==
  \E c \in Currencies(legs, "debit") \cup Currencies(legs, "credit") :
    Total(legs, "debit", c) # Total(legs, "credit", c)

\* JournalEntry.post: the event it records, or the code of the error it raises.
Post(legs) ==
  IF legs = <<>> THEN "unbalanced_entry"
  ELSE IF \E i \in DOMAIN legs : legs[i].amount <= 0 THEN "invalid_amount"
  ELSE IF \E d \in LegDirection : Currencies(legs, d) = {} THEN "unbalanced_entry"
  ELSE IF Unequal(legs) THEN "unbalanced_entry"
  ELSE "JournalEntryPosted"

\* Mutant: the directions are not swapped.
ReversedSame(legs) == legs

\* The legs reverse_journal posts.
Reversed(legs) ==
  [i \in DOMAIN legs |->
     [legs[i] EXCEPT !.direction = IF @ = "debit" THEN "credit" ELSE "debit"]]
-----------------------------------------------------------------------------
(* What an entry means for the books.                                        *)

\* What the legs numbered S add to a balance.
Net(legs, S) ==
  MapThenSumSet(LAMBDA i : IF legs[i].direction = "credit" THEN legs[i].amount
                                                           ELSE - legs[i].amount, S)

NetOn(legs, a) == Net(legs, {i \in DOMAIN legs : legs[i].account = a})
NetIn(legs, c) == Net(legs, {i \in DOMAIN legs : legs[i].currency = c})
=============================================================================
