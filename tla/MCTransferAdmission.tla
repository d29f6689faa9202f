-------------------------- MODULE MCTransferAdmission --------------------------
(* An instance of TransferSaga whose transfers may not settle: A holds euros, *)
(* B is not opened yet, C is a dollar account.  It also checks the journal's   *)
(* operators on every entry of a few legs.                                     *)
EXTENDS TransferSaga, SequencesExt

CONSTANTS
  A, B, C, toUnopened, toOtherCurrency,
  MaxLegs   \* bound: legs of the entries the journal's operators are checked on

MCInput ==
  toUnopened      :> [source |-> A, destination |-> B, amount |-> 1, currency |-> "EUR"] @@
  toOtherCurrency :> [source |-> A, destination |-> C, amount |-> 1, currency |-> "EUR"]

MCCurrency == [a \in Accounts |-> IF a = C THEN "USD" ELSE "EUR"]

MCFunds == [a \in Accounts |-> IF a = A THEN 1 ELSE 0]

\* The entries of up to MaxLegs legs on the accounts S, with amounts N.
Entries(S, N) ==
  BoundedSeq([direction : LegDirection, account : S, amount : N, currency : {"EUR", "USD"}], MaxLegs)

\* _assert_balanced accepts an entry exactly when it has legs, each leg is positive and
\* the legs of every currency sum to zero with debits counted negative.  That it then
\* has both a debit and a credit, which the code asks for separately, follows
\* (journal_entry.py).  It is about the operators alone and evaluated once, at the start.
AcceptsExactlyBalanced ==
  Init => \A legs \in Entries({A}, -1 .. 2) :
    Post(legs) = "JournalEntryPosted" <=>
      /\ legs # <<>>
      /\ \A i \in DOMAIN legs : legs[i].amount > 0
      /\ \A c \in {"EUR", "USD"} : NetIn(legs, c) = 0

\* The reversal of an accepted entry is accepted, and the two cancel out on every
\* account and in every currency ("nets to zero", reverse_journal).  Evaluated once too.
ReversalCancels ==
  Init => \A legs \in Entries({A, B}, 1 .. 2) : Post(legs) = "JournalEntryPosted" =>
    /\ Post(Reversed(legs)) = "JournalEntryPosted"
    /\ \A a \in {A, B}, c \in {"EUR", "USD"} :
         LET on == {i \in DOMAIN legs : legs[i].account = a /\ legs[i].currency = c}
         IN Net(legs, on) + Net(Reversed(legs), on) = 0
=============================================================================
