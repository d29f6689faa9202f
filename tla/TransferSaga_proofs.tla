------------------------- MODULE TransferSaga_proofs -------------------------
(***************************************************************************)
(* Proofs about TransferSaga for any accounts, transfers, retry policies   *)
(* and faults: TypeOK and NoStaleAppend.  TypeOK is not inductive: that no *)
(* bucket goes negative rests on NoStaleAppend, which rests on the version *)
(* check, and that the workflow knows what to do with an outcome rests on  *)
(* Attended.                                                               *)
(***************************************************************************)
EXTENDS TransferSaga, TLAPS

AccountActivity ==
  {"hold_funds", "settle_debit", "settle_credit", "refund_source", "release_hold"}

\* What a run is about to append fits the stream, and it expects no version that the
\* stream has not reached.
Prepared(r) ==
  /\ r.step = "append_account" => /\ r.act \in AccountActivity
                                  /\ r.event \in SettlementEvent
                                  /\ r.expected <= Loaded(r).version
  /\ r.step = "append_transfer" => r.event \in TransferEvent

\* A workflow awaits the activity of the live attempt of its transfer, of which there
\* is at most one.
Attended ==
  /\ \A x \in running : Live(x) => workflow[x.t].at = x.act
  /\ \A x, y \in running : Live(x) /\ Live(y) /\ x.t = y.t => x = y

Inv ==
  /\ TypeOK
  /\ Attended
  /\ \A r \in running : Prepared(r)
  /\ NoStaleAppend
-----------------------------------------------------------------------------
(* Money and accounts.                                                       *)

\* The input of a transfer names accounts and a positive amount.
LEMMA MoneyType ==
  ASSUME NEW t \in Transfers
  PROVE  /\ Source(t) \in Accounts
         /\ Destination(t) \in Accounts
         /\ Money(t) \in [amount : Nat, currency : {Currency[a] : a \in Accounts}]
         /\ Money(t).amount \in Nat \ {0}
BY InputAssumption DEF Source, Destination, Money

\* An account with every field but its currency replaced.
Changed(acc, s, av, re, o, v) ==
  [acc EXCEPT !.status = s, !.available = av, !.reserved = re, !.ops = o, !.version = v]

\* Replacing fields by values of their types keeps the type.
LEMMA ChangedType ==
  ASSUME NEW acc \in AccountType, NEW s \in AccountStatus, NEW av \in Nat, NEW re \in Nat,
         NEW o \in SUBSET (Transfers \X OperationStep), NEW v \in Nat
  PROVE  /\ Changed(acc, s, av, re, o, v) \in AccountType
         /\ Changed(acc, s, av, re, o, v).version = v
BY DEF AccountType, AccountStatus, Changed

\* Apply (account.py, _apply) keeps the type of an account whose buckets cover the
\* amount, and advances its version by one.
LEMMA ApplyType ==
  ASSUME NEW acc \in AccountType,
         NEW m \in [amount : Nat, currency : {Currency[a] : a \in Accounts}],
         NEW e \in AccountEvent, NEW op,
         e \in SettlementEvent => op \in Transfers \X OperationStep,
         e = "FundsHeld" => acc.available >= m.amount,
         e \in {"HoldReleased", "AccountDebited"} => acc.reserved >= m.amount
  PROVE  /\ Apply(acc, e, m, op) \in AccountType
         /\ Apply(acc, e, m, op).version = acc.version + 1
<1> DEFINE next(s, av, re, o) == Changed(acc, s, av, re, o, acc.version + 1)
<1> DEFINE ops == acc.ops \cup {op}
<1>0. /\ acc.status \in AccountStatus /\ acc.available \in Nat /\ acc.reserved \in Nat
      /\ acc.ops \in SUBSET (Transfers \X OperationStep) /\ acc.version \in Nat
      /\ m.amount \in Nat
  BY DEF AccountType
<1>1. e \in SettlementEvent => ops \in SUBSET (Transfers \X OperationStep)
  BY <1>0
<1>2. CASE e = "AccountOpened"
  <2>1. Apply(acc, e, m, op) = next("open", acc.available, acc.reserved, acc.ops)
    BY <1>2 DEF Apply, Changed, AccountType
  <2> QED  BY <1>0, <2>1, ChangedType DEF AccountStatus
<1>3. CASE e = "FundsDeposited"
  <2>1. Apply(acc, e, m, op) = next(acc.status, acc.available + m.amount, acc.reserved, acc.ops)
    BY <1>3 DEF Apply, Changed, AccountType
  <2> QED  BY <1>0, <2>1, ChangedType
<1>4. CASE e = "FundsHeld"
  <2>1. Apply(acc, e, m, op) =
          next(acc.status, acc.available - m.amount, acc.reserved + m.amount, ops)
    BY <1>4 DEF Apply, Changed, AccountType
  <2>2. acc.available - m.amount \in Nat /\ ops \in SUBSET (Transfers \X OperationStep)
    BY <1>0, <1>1, <1>4 DEF SettlementEvent
  <2> QED  BY <1>0, <2>1, <2>2, ChangedType
<1>5. CASE e = "HoldReleased"
  <2>1. Apply(acc, e, m, op) =
          next(acc.status, acc.available + m.amount, acc.reserved - m.amount, ops)
    BY <1>5 DEF Apply, Changed, AccountType
  <2>2. acc.reserved - m.amount \in Nat /\ ops \in SUBSET (Transfers \X OperationStep)
    BY <1>0, <1>1, <1>5 DEF SettlementEvent
  <2> QED  BY <1>0, <2>1, <2>2, ChangedType
<1>6. CASE e = "AccountDebited"
  <2>1. Apply(acc, e, m, op) = next(acc.status, acc.available, acc.reserved - m.amount, ops)
    BY <1>6 DEF Apply, Changed, AccountType
  <2>2. acc.reserved - m.amount \in Nat /\ ops \in SUBSET (Transfers \X OperationStep)
    BY <1>0, <1>1, <1>6 DEF SettlementEvent
  <2> QED  BY <1>0, <2>1, <2>2, ChangedType
<1>7. CASE e = "AccountCredited"
  <2>1. Apply(acc, e, m, op) = next(acc.status, acc.available + m.amount, acc.reserved, ops)
    BY <1>7 DEF Apply, Changed, AccountType
  <2>2. ops \in SUBSET (Transfers \X OperationStep)
    BY <1>1, <1>7 DEF SettlementEvent
  <2> QED  BY <1>0, <2>1, <2>2, ChangedType
<1>8. CASE e = "AccountFrozen"
  <2>1. Apply(acc, e, m, op) = next("frozen", acc.available, acc.reserved, acc.ops)
    BY <1>8 DEF Apply, Changed, AccountType
  <2> QED  BY <1>0, <2>1, ChangedType DEF AccountStatus
<1>9. CASE e = "AccountClosed"
  <2>1. Apply(acc, e, m, op) = next("closed", acc.available, acc.reserved, acc.ops)
    BY <1>9 DEF Apply, Changed, AccountType
  <2> QED  BY <1>0, <2>1, ChangedType DEF AccountStatus
<1> QED
  BY <1>2, <1>3, <1>4, <1>5, <1>6, <1>7, <1>8, <1>9 DEF AccountEvent, SettlementEvent
-----------------------------------------------------------------------------
(* Decisions of the aggregate and runs.                                      *)

\* A decision on acc is an error, nothing, or an event acc's rules allow.
Sound(d, acc, m, op) ==
  /\ d \in SettlementEvent \cup AccountError \cup {"none"}
  /\ d \in SettlementEvent =>
       /\ acc.status = "open"
       /\ op \notin acc.ops
       /\ d = "FundsHeld" => acc.available >= m.amount
       /\ d \in {"HoldReleased", "AccountDebited"} => acc.reserved >= m.amount

\* The settlement commands of account.py decide soundly.
LEMMA CommandsSound ==
  ASSUME NEW acc \in AccountType, NEW m, m.amount \in Nat, NEW op
  PROVE  /\ Sound(Hold(acc, m, op), acc, m, op)
         /\ Sound(ReleaseHold(acc, m, op), acc, m, op)
         /\ Sound(Debit(acc, m, op), acc, m, op)
         /\ Sound(Credit(acc, m, op), acc, m, op)
<1> acc.available \in Nat /\ acc.reserved \in Nat
  BY DEF AccountType
<1>1. Sound(Hold(acc, m, op), acc, m, op)
  BY DEF Sound, Hold, OnceOperational, Operational, SettlementEvent, AccountError
<1>2. Sound(ReleaseHold(acc, m, op), acc, m, op)
  BY DEF Sound, ReleaseHold, OnceOperational, Operational, SettlementEvent, AccountError
<1>3. Sound(Debit(acc, m, op), acc, m, op)
  BY DEF Sound, Debit, OnceOperational, Operational, SettlementEvent, AccountError
<1>4. Sound(Credit(acc, m, op), acc, m, op)
  BY DEF Sound, Credit, OnceOperational, Operational, SettlementEvent, AccountError
<1> QED  BY <1>1, <1>2, <1>3, <1>4

\* The transfer's events, listed.
LEMMA TransferEvents ==
  TransferEvent = {"TransferInitiated", "TransferHeld", "TransferPosted", "TransferCompleted",
                   "TransferFailed", "TransferParkedForReconciliation", "TransferReconciled"}
BY DEF TransferEvent, RecordableFrom

\* The account and the operation id of a settlement activity.
LEMMA OperationType ==
  ASSUME NEW r \in RunType
  PROVE  /\ r.t \in Transfers
         /\ AccountOf(r) \in Accounts
         /\ r.act \in AccountActivity => Operation(r) \in Transfers \X OperationStep
<1>1. r.t \in Transfers
  BY DEF RunType
<1>2. AccountOf(r) \in Accounts
  BY <1>1, MoneyType DEF AccountOf
<1>3. ASSUME r.act \in AccountActivity
      PROVE  Operation(r) \in Transfers \X OperationStep
  BY <1>1, <1>3 DEF Operation, OperationId, OperationStep, AccountActivity
<1> QED  BY <1>1, <1>2, <1>3

\* The errors a run raises.
RaisedError ==
  AccountError \cup {"conflict", "same_account_transfer", "unbalanced_entry", "invalid_amount"}

\* A run keeps its identity: transfer, activity and attempt.
Continues(r, next) ==
  /\ next \in RunType
  /\ next.t = r.t /\ next.act = r.act /\ next.attempt = r.attempt

\* The ways a run goes on.
LEMMA RunContinues ==
  ASSUME NEW r \in RunType
  PROVE  /\ \A s \in RunStepName : Continues(r, GoTo(r, s)) /\ GoTo(r, s).step = s
         /\ \A s \in RunStepName, v \in Nat,
               e \in AccountEvent \cup TransferEvent \cup {"JournalEntryPosted"} :
              /\ Continues(r, Save(r, s, e, v))
              /\ Save(r, s, e, v).step = s
              /\ Save(r, s, e, v).event = e
              /\ Save(r, s, e, v).expected = v
         /\ \A err \in RaisedError :
              Continues(r, Raise(r, err)) /\ Raise(r, err).step = "raised"
<1>1. ASSUME NEW s \in RunStepName
      PROVE  Continues(r, GoTo(r, s)) /\ GoTo(r, s).step = s
  BY DEF Continues, GoTo, RunType
<1>2. ASSUME NEW s \in RunStepName, NEW v \in Nat,
             NEW e \in AccountEvent \cup TransferEvent \cup {"JournalEntryPosted"}
      PROVE  /\ Continues(r, Save(r, s, e, v))
             /\ Save(r, s, e, v).step = s
             /\ Save(r, s, e, v).event = e
             /\ Save(r, s, e, v).expected = v
  BY DEF Continues, Save, RunType
<1>3. ASSUME NEW err \in RaisedError
      PROVE  Continues(r, Raise(r, err)) /\ Raise(r, err).step = "raised"
  BY DEF Continues, Raise, RunType, RunStepName, RaisedError
<1> QED  BY <1>1, <1>2, <1>3
-----------------------------------------------------------------------------
(* Steps of a run.                                                           *)

\* Streams only grow: an account that changes gets a higher version.
AccountsAdvance ==
  \A a \in Accounts : account'[a] = account[a] \/ account'[a].version > account[a].version

\* What a run has prepared survives the appends of others: either the account did not
\* change, or the version check will refuse the run's append.
LEMMA RunKept ==
  ASSUME account \in [Accounts -> AccountType], account' \in [Accounts -> AccountType],
         AccountsAdvance, NEW x \in RunType, Prepared(x), FreshDecision(x)
  PROVE  Prepared(x)' /\ FreshDecision(x)'
<1> AccountOf(x) \in Accounts
  BY OperationType
<1> account[AccountOf(x)].version \in Nat /\ account'[AccountOf(x)].version \in Nat
  BY DEF AccountType
<1> x.expected \in Nat
  BY DEF RunType
<1>1. CASE account'[AccountOf(x)] = account[AccountOf(x)]
  BY <1>1 DEF Prepared, FreshDecision, Loaded
<1>2. CASE account'[AccountOf(x)].version > account[AccountOf(x)].version
  BY <1>2 DEF Prepared, FreshDecision, Loaded
<1> QED  BY <1>1, <1>2 DEF AccountsAdvance

\* A step of run r that leaves the workflows alone.
LEMMA RunGoesOn ==
  ASSUME Inv, NEW r \in running, NEW next, Continues(r, next), Becomes(r, next),
         UNCHANGED workflow, account' \in [Accounts -> AccountType], AccountsAdvance,
         Prepared(next)', FreshDecision(next)'
  PROVE  /\ running' \subseteq RunType
         /\ Attended'
         /\ \A x \in running' : Prepared(x)'
         /\ NoStaleAppend'
<1>1. \A x \in running' : (x \in running /\ x # r) \/ x = next
  BY DEF Becomes
<1>2. running' \subseteq RunType
  BY <1>1 DEF Inv, TypeOK, Continues
<1>3. \A x \in running' : Prepared(x)' /\ FreshDecision(x)'
  <2> SUFFICES ASSUME NEW x \in running, Prepared(x), FreshDecision(x)
               PROVE  Prepared(x)' /\ FreshDecision(x)'
    BY <1>1 DEF Inv, NoStaleAppend
  <2> QED  BY RunKept DEF Inv, TypeOK
<1>4. Attended'
  BY <1>1 DEF Inv, Attended, Continues, Live
<1> QED  BY <1>2, <1>3, <1>4 DEF NoStaleAppend

\* A step of run r that appends nothing.
LEMMA QuietStep ==
  ASSUME Inv, NEW r \in running, NEW next, Continues(r, next), Becomes(r, next),
         UNCHANGED <<account, journal, transfer, workflow, resolving, deposited>>,
         Prepared(next), FreshDecision(next)
  PROVE  Inv'
<1>1. AccountsAdvance /\ account' \in [Accounts -> AccountType]
  BY DEF AccountsAdvance, Inv, TypeOK
<1>2. Prepared(next)' /\ FreshDecision(next)'
  BY DEF Prepared, FreshDecision, Loaded
<1>3. TypeOK
  BY DEF Inv
<1>4. /\ running' \subseteq RunType
      /\ Attended'
      /\ \A x \in running' : Prepared(x)'
      /\ NoStaleAppend'
  BY <1>1, <1>2, RunGoesOn
<1>5. TypeOK'
  BY <1>3, <1>4 DEF TypeOK
<1> QED  BY <1>4, <1>5 DEF Inv

\* A run that is not about to append has nothing to prove.
LEMMA Unprepared ==
  ASSUME NEW x, x.step \notin {"append_account", "append_transfer"}
  PROVE  Prepared(x) /\ FreshDecision(x)
BY DEF Prepared, FreshDecision

\* Load, decide, and buffer the event.
LEMMA CommandInv ==
  ASSUME Inv, NEW r \in running, r.act \in AccountActivity, NEW d,
         Sound(d, Loaded(r), Money(r.t), Operation(r)), NEW then \in {"transfer", "returned"},
         Command(r, d, then), UNCHANGED <<workflow, resolving, deposited>>
  PROVE  Inv'
<1> r \in RunType
  BY DEF Inv, TypeOK
<1> Loaded(r) \in AccountType
  BY OperationType DEF Loaded, Inv, TypeOK
<1> Loaded(r).version \in Nat
  BY DEF AccountType
<1>1. CASE d = "none"
  <2>1. Continues(r, GoTo(r, then)) /\ GoTo(r, then).step = then
    BY RunContinues DEF RunStepName
  <2>2. Prepared(GoTo(r, then)) /\ FreshDecision(GoTo(r, then))
    BY <2>1, Unprepared
  <2>3. Becomes(r, GoTo(r, then))
    BY <1>1 DEF Command, AccountEvent, SettlementEvent
  <2> QED  BY <2>1, <2>2, <2>3, QuietStep DEF Command
<1>2. CASE d \in SettlementEvent
  <2> DEFINE next == Save(r, "append_account", d, Loaded(r).version)
  <2>1. /\ Continues(r, next) /\ next.step = "append_account" /\ next.event = d
        /\ next.expected = Loaded(r).version
    BY <1>2, RunContinues DEF RunStepName, AccountEvent
  <2>2. Loaded(next) = Loaded(r) /\ Operation(next) = Operation(r)
    BY <2>1 DEF Continues, Loaded, AccountOf, Operation
  <2>3. Prepared(next)
    BY <1>2, <2>1, <2>2 DEF Prepared, Continues
  <2>4. FreshDecision(next)
    BY <1>2, <2>1, <2>2 DEF FreshDecision, Sound, Continues
  <2>5. Becomes(r, next)
    BY <1>2 DEF Command, AccountEvent, SettlementEvent
  <2> QED  BY <2>1, <2>3, <2>4, <2>5, QuietStep DEF Command
<1>3. CASE d \in AccountError
  <2>1. Continues(r, Raise(r, d)) /\ Raise(r, d).step = "raised"
    BY <1>3, RunContinues DEF RaisedError
  <2>2. Prepared(Raise(r, d)) /\ FreshDecision(Raise(r, d))
    BY <2>1, Unprepared
  <2>3. Becomes(r, Raise(r, d))
    BY <1>3 DEF Command, AccountEvent, SettlementEvent, AccountError
  <2> QED  BY <2>1, <2>2, <2>3, QuietStep DEF Command
<1> QED  BY <1>1, <1>2, <1>3 DEF Sound

\* A run that raises or goes on to a step that is no append.
LEMMA QuietGoTo ==
  ASSUME Inv, NEW r \in running,
         UNCHANGED <<account, journal, transfer, workflow, resolving, deposited>>,
         NEW s \in RunStepName \ {"append_account", "append_transfer"}, Becomes(r, GoTo(r, s))
  PROVE  Inv'
<1>1. Continues(r, GoTo(r, s)) /\ GoTo(r, s).step = s
  BY RunContinues DEF Inv, TypeOK
<1>2. Prepared(GoTo(r, s)) /\ FreshDecision(GoTo(r, s))
  BY <1>1, Unprepared
<1> QED  BY <1>1, <1>2, QuietStep

\* A run that raises.
LEMMA QuietRaise ==
  ASSUME Inv, NEW r \in running,
         UNCHANGED <<account, journal, transfer, workflow, resolving, deposited>>,
         NEW err \in RaisedError,
         Becomes(r, Raise(r, err))
  PROVE  Inv'
<1>1. Continues(r, Raise(r, err)) /\ Raise(r, err).step = "raised"
  BY RunContinues DEF Inv, TypeOK
<1>2. Prepared(Raise(r, err)) /\ FreshDecision(Raise(r, err))
  BY <1>1, Unprepared
<1> QED  BY <1>1, <1>2, QuietStep

\* JournalEntry.post: the run saves a balanced entry next, and raises otherwise.
LEMMA PostEntryInv ==
  ASSUME Inv, NEW r \in running, NEW entry,
         UNCHANGED <<account, journal, transfer, workflow, resolving, deposited>>,
         Becomes(r, PostEntry(r, entry))
  PROVE  Inv'
<1> DEFINE outcome == Post(EntryLegs(r.t, entry))
<1> DEFINE next == Save([r EXCEPT !.unread = {}], "append_journal", "JournalEntryPosted", 0)
<1>1. outcome \in {"JournalEntryPosted", "unbalanced_entry", "invalid_amount"}
  BY DEF Post
<1>2. CASE outcome = "JournalEntryPosted"
  <2>1. Becomes(r, next)
    BY <1>2 DEF PostEntry
  <2>2. r \in RunType
    BY DEF Inv, TypeOK
  <2>3. Continues(r, next) /\ next.step = "append_journal"
    BY <2>2 DEF Continues, Save, RunType, RunStepName
  <2>4. Prepared(next) /\ FreshDecision(next)
    BY <2>3, Unprepared
  <2> QED  BY <2>1, <2>3, <2>4, QuietStep
<1>3. CASE outcome # "JournalEntryPosted"
  <2>1. outcome \in RaisedError
    BY <1>1, <1>3 DEF RaisedError
  <2>2. Becomes(r, Raise(r, outcome))
    BY <1>3 DEF PostEntry
  <2> QED  BY <2>1, <2>2, QuietRaise
<1> QED  BY <1>2, <1>3

\* The append of the buffered event to the account: where the version check lets it
\* through, NoStaleAppend says that the account still allows it.
LEMMA AppendAccountInv ==
  ASSUME Inv, NEW r \in running, NEW then \in {"transfer", "returned"},
         AppendAccount(r, then), UNCHANGED <<workflow, resolving, deposited>>
  PROVE  Inv'
<1> DEFINE a == AccountOf(r)
<1> DEFINE after == Apply(account[a], r.event, Money(r.t), Operation(r))
<1>0. r \in RunType /\ Prepared(r) /\ FreshDecision(r) /\ r.step = "append_account"
  BY DEF Inv, TypeOK, NoStaleAppend, AppendAccount
<1>1. /\ a \in Accounts /\ Operation(r) \in Transfers \X OperationStep /\ r.t \in Transfers
      /\ account \in [Accounts -> AccountType] /\ account[a] \in AccountType
      /\ account[a].version \in Nat
  BY <1>0, OperationType DEF Prepared, Inv, TypeOK, AccountType
<1>2. CASE /\ Loaded(r).version = r.expected
           /\ account' = [account EXCEPT ![a] = after]
           /\ Becomes(r, GoTo(r, then))
  <2>1. after \in AccountType /\ after.version = account[a].version + 1
    <3>1. /\ r.event \in SettlementEvent /\ r.event \in AccountEvent
          /\ r.event = "FundsHeld" => account[a].available >= Money(r.t).amount
          /\ r.event \in {"HoldReleased", "AccountDebited"} =>
               account[a].reserved >= Money(r.t).amount
      BY <1>0, <1>2 DEF Prepared, FreshDecision, Loaded, AccountEvent
    <3>2. Money(r.t) \in [amount : Nat, currency : {Currency[b] : b \in Accounts}]
      BY <1>1, MoneyType
    <3> QED  BY <1>1, <3>1, <3>2, ApplyType
  <2>2. account' \in [Accounts -> AccountType] /\ AccountsAdvance
    BY <1>1, <1>2, <2>1 DEF AccountsAdvance
  <2>3. Continues(r, GoTo(r, then)) /\ GoTo(r, then).step = then
    BY <1>0, RunContinues DEF RunStepName
  <2>4. Prepared(GoTo(r, then))' /\ FreshDecision(GoTo(r, then))'
    BY <2>3 DEF Prepared, FreshDecision
  <2>5. /\ running' \subseteq RunType
        /\ Attended'
        /\ \A x \in running' : Prepared(x)'
        /\ NoStaleAppend'
    BY <1>2, <2>2, <2>3, <2>4, RunGoesOn
  <2>6. TypeOK'
    BY <2>2, <2>5 DEF Inv, TypeOK, AppendAccount
  <2> QED  BY <2>5, <2>6 DEF Inv
<1>3. CASE UNCHANGED account /\ Becomes(r, Raise(r, "conflict"))
  BY <1>3, QuietRaise DEF AppendAccount, RaisedError
<1> QED  BY <1>2, <1>3 DEF AppendAccount

\* The append of a journal entry.
LEMMA AppendJournalInv ==
  ASSUME Inv, NEW r \in running, NEW entry \in {"journal", "reversal"},
         NEW then \in {"transfer", "returned"}, AppendJournal(r, entry, then),
         UNCHANGED <<workflow, resolving, deposited>>
  PROVE  Inv'
<1>0. r \in RunType /\ r.t \in Transfers
  BY DEF Inv, TypeOK, RunType
<1>1. CASE /\ journal' = [journal EXCEPT ![r.t] = @ \cup {entry}]
           /\ Becomes(r, GoTo(r, then))
  <2>1. account' \in [Accounts -> AccountType] /\ AccountsAdvance
    BY DEF AppendJournal, AccountsAdvance, Inv, TypeOK
  <2>2. Continues(r, GoTo(r, then)) /\ GoTo(r, then).step = then
    BY <1>0, RunContinues DEF RunStepName
  <2>3. Prepared(GoTo(r, then))' /\ FreshDecision(GoTo(r, then))'
    BY <2>2 DEF Prepared, FreshDecision
  <2>4. /\ running' \subseteq RunType
        /\ Attended'
        /\ \A x \in running' : Prepared(x)'
        /\ NoStaleAppend'
    BY <1>1, <2>1, <2>2, <2>3, RunGoesOn
  <2>5. journal' \in [Transfers -> SUBSET {"journal", "reversal"}]
    BY <1>0, <1>1 DEF Inv, TypeOK
  <2>6. TypeOK'
    BY <2>4, <2>5 DEF Inv, TypeOK, AppendJournal
  <2> QED  BY <2>4, <2>6 DEF Inv
<1>2. CASE UNCHANGED journal /\ Becomes(r, Raise(r, "conflict"))
  BY <1>2, QuietRaise DEF AppendJournal, RaisedError
<1> QED  BY <1>1, <1>2 DEF AppendJournal

\* The decision to record a milestone, or not to.
LEMMA MilestoneInv ==
  ASSUME Inv, NEW r \in running, NEW e \in TransferEvent, Milestone(r, e),
         UNCHANGED <<workflow, resolving, deposited>>
  PROVE  Inv'
<1> DEFINE next == Save(r, "append_transfer", e, transfer[r.t].version)
<1>0. r \in RunType /\ transfer[r.t].version \in Nat
  BY DEF Inv, TypeOK, RunType
<1>1. CASE Becomes(r, next)
  <2>1. Continues(r, next) /\ next.step = "append_transfer" /\ next.event = e
    BY <1>0, RunContinues DEF RunStepName
  <2>2. Prepared(next) /\ FreshDecision(next)
    BY <2>1 DEF Prepared, FreshDecision
  <2> QED  BY <1>1, <2>1, <2>2, QuietStep DEF Milestone
<1>2. CASE Becomes(r, GoTo(r, "returned"))
  BY <1>2, QuietGoTo DEF Milestone, RunStepName
<1> QED  BY <1>1, <1>2 DEF Milestone

\* The append of a milestone to the transfer's stream.
LEMMA AppendTransferInv ==
  ASSUME Inv, NEW r \in running, AppendTransfer(r),
         UNCHANGED <<workflow, resolving, deposited>>
  PROVE  Inv'
<1>0. /\ r \in RunType /\ r.t \in Transfers /\ r.event \in TransferEvent
      /\ workflow[r.t].reason \in FailureReason \cup {"none"}
      /\ transfer[r.t].version \in Nat /\ transfer[r.t].reason \in FailureReason \cup {"none"}
  BY DEF Inv, TypeOK, RunType, Prepared, AppendTransfer, WorkflowType
<1>1. CASE /\ transfer' = [transfer EXCEPT ![r.t] =
                             RecordTransfer(@, r.event, workflow[r.t].reason)]
           /\ Becomes(r, GoTo(r, "returned"))
  <2>1. account' \in [Accounts -> AccountType] /\ AccountsAdvance
    BY DEF AppendTransfer, AccountsAdvance, Inv, TypeOK
  <2>2. Continues(r, GoTo(r, "returned")) /\ GoTo(r, "returned").step = "returned"
    BY <1>0, RunContinues DEF RunStepName
  <2>3. Prepared(GoTo(r, "returned"))' /\ FreshDecision(GoTo(r, "returned"))'
    BY <2>2 DEF Prepared, FreshDecision
  <2>4. /\ running' \subseteq RunType
        /\ Attended'
        /\ \A x \in running' : Prepared(x)'
        /\ NoStaleAppend'
    BY <1>1, <2>1, <2>2, <2>3, RunGoesOn
  <2>5. StatusAfter[r.event] \in TransferStatus
    BY <1>0, TransferEvents DEF StatusAfter, TransferStatus, NonTerminal
  <2>6. RecordTransfer(transfer[r.t], r.event, workflow[r.t].reason) \in
          [status : TransferStatus \cup {"none"}, reason : FailureReason \cup {"none"},
           version : Nat]
    BY <1>0, <2>5 DEF RecordTransfer
  <2>7. TypeOK'
    BY <1>0, <1>1, <2>4, <2>6 DEF Inv, TypeOK, AppendTransfer
  <2> QED  BY <2>4, <2>7 DEF Inv
<1>2. CASE UNCHANGED transfer /\ Becomes(r, Raise(r, "conflict"))
  BY <1>2, QuietRaise DEF AppendTransfer, RaisedError
<1> QED  BY <1>1, <1>2 DEF AppendTransfer

\* What an activity decides about an account it found or did not find.
LEMMA ActivityDecisions ==
  ASSUME Inv, NEW r \in running, r.act \in AccountActivity
  PROVE  LET S(d) == Sound(d, Loaded(r), Money(r.t), Operation(r))
         IN /\ S(Known(r, Hold(Loaded(r), Money(r.t), Operation(r))))
            /\ S(Known(r, Debit(Loaded(r), Money(r.t), Operation(r))))
            /\ S(Known(r, Credit(Loaded(r), Money(r.t), Operation(r))))
            /\ S(IF Loaded(r).version = 0 THEN "none"
                 ELSE ReleaseHold(Loaded(r), Money(r.t), Operation(r)))
<1>1. Loaded(r) \in AccountType /\ Money(r.t).amount \in Nat
  BY OperationType, MoneyType DEF Inv, TypeOK, Loaded
<1>2. /\ Sound("none", Loaded(r), Money(r.t), Operation(r))
      /\ Sound("unknown_account", Loaded(r), Money(r.t), Operation(r))
  BY DEF Sound, SettlementEvent, AccountError
<1> QED  BY <1>1, <1>2, CommandsSound DEF Known

\* Every step of every activity preserves the invariant.
LEMMA ActivityInv ==
  ASSUME Inv, NEW r \in running, ActivityStep(r)
  PROVE  Inv'
<1> UNCHANGED <<workflow, resolving, deposited>>
  BY DEF ActivityStep
<1> r \in RunType /\ r.t \in Transfers
  BY DEF Inv, TypeOK, RunType
<1>1. CASE RecordInitiated(r)
  <2>1. CASE AppendTransfer(r)
    BY <2>1, AppendTransferInv
  <2>2. CASE UNCHANGED <<account, journal, transfer>> /\ Becomes(r, GoTo(r, "returned"))
    BY <2>2, QuietGoTo DEF RunStepName
  <2>3. CASE UNCHANGED <<account, journal, transfer>>
             /\ Becomes(r, Raise(r, "same_account_transfer"))
    BY <2>3, QuietRaise DEF RaisedError
  <2>4. CASE UNCHANGED <<account, journal, transfer>>
             /\ Becomes(r, Save(r, "append_transfer", "TransferInitiated", 0))
    <3> DEFINE next == Save(r, "append_transfer", "TransferInitiated", 0)
    <3>1. Continues(r, next) /\ next.step = "append_transfer" /\ next.event = "TransferInitiated"
      BY RunContinues, TransferEvents DEF RunStepName
    <3>2. Prepared(next) /\ FreshDecision(next)
      BY <3>1, TransferEvents DEF Prepared, FreshDecision
    <3> QED  BY <2>4, <3>1, <3>2, QuietStep
  <2> QED  BY <1>1, <2>1, <2>2, <2>3, <2>4 DEF RecordInitiated
<1>2. CASE HoldFunds(r)
  BY <1>2, ActivityDecisions, CommandInv, AppendAccountInv, MilestoneInv, AppendTransferInv,
     TransferEvents DEF HoldFunds, AccountActivity
<1>3. CASE SettleDebit(r)
  BY <1>3, ActivityDecisions, CommandInv, AppendAccountInv DEF SettleDebit, AccountActivity
<1>4. CASE SettleCredit(r)
  BY <1>4, ActivityDecisions, CommandInv, AppendAccountInv, MilestoneInv, AppendTransferInv,
     TransferEvents DEF SettleCredit, AccountActivity
<1>5. CASE RefundSource(r)
  BY <1>5, ActivityDecisions, CommandInv, AppendAccountInv, MilestoneInv, AppendTransferInv,
     TransferEvents DEF RefundSource, AccountActivity
<1>6. CASE ReleaseHoldActivity(r)
  BY <1>6, ActivityDecisions, CommandInv, AppendAccountInv
     DEF ReleaseHoldActivity, AccountActivity
<1>7. CASE FailTransfer(r) \/ ParkTransfer(r)
  BY <1>7, MilestoneInv, AppendTransferInv, TransferEvents DEF FailTransfer, ParkTransfer
<1>8. CASE ReverseJournal(r)
  <2>1. CASE AppendJournal(r, "reversal", "returned")
    BY <2>1, AppendJournalInv
  <2>2. CASE UNCHANGED <<account, journal, transfer>>
             /\ \E s \in {"returned", "original"} : Becomes(r, GoTo(r, s))
    BY <2>2, QuietGoTo DEF RunStepName
  <2>3. CASE UNCHANGED <<account, journal, transfer>>
             /\ Becomes(r, PostEntry(r, "reversal"))
    BY <2>3, PostEntryInv
  <2> QED  BY <1>8, <2>1, <2>2, <2>3 DEF ReverseJournal
<1>9. CASE PostJournal(r)
  <2>1. CASE UNCHANGED <<account, journal, transfer>> /\ Becomes(r, GoTo(r, "transfer"))
    BY <2>1, QuietGoTo DEF RunStepName
  <2>2. CASE UNCHANGED <<account, journal, transfer>>
             /\ Becomes(r, [GoTo(r, "resolve") EXCEPT
                              !.unread = {Source(r.t), Destination(r.t)}])
    <3> DEFINE next == [GoTo(r, "resolve") EXCEPT !.unread = {Source(r.t), Destination(r.t)}]
    <3>1. Continues(r, next) /\ next.step = "resolve"
      BY MoneyType DEF Continues, GoTo, RunType, RunStepName
    <3>2. Prepared(next) /\ FreshDecision(next)
      BY <3>1, Unprepared
    <3> QED  BY <2>2, <3>1, <3>2, QuietStep
  <2>3. ASSUME NEW a \in r.unread, ResolveAccount(r, a)
        PROVE  Inv'
    <3> DEFINE rest == r.unread \ {a}
    <3>1. UNCHANGED <<account, journal, transfer>> /\ r.step = "resolve"
      BY <2>3 DEF ResolveAccount
    <3>2. CASE \E err \in {"unknown_account", "account_not_active", "currency_mismatch"} :
                 Becomes(r, Raise(r, err))
      BY <3>1, <3>2, QuietRaise DEF AccountError, RaisedError
    <3>3. CASE Becomes(r, [r EXCEPT !.unread = rest])
      <4>1. Continues(r, [r EXCEPT !.unread = rest])
            /\ [r EXCEPT !.unread = rest].step = "resolve"
        BY <3>1 DEF Continues, RunType
      <4>2. Prepared([r EXCEPT !.unread = rest]) /\ FreshDecision([r EXCEPT !.unread = rest])
        BY <4>1, Unprepared
      <4> QED  BY <3>1, <3>3, <4>1, <4>2, QuietStep
    <3>4. CASE Becomes(r, PostEntry(r, "journal"))
      BY <3>1, <3>4, PostEntryInv
    <3> QED  BY <2>3, <3>2, <3>3, <3>4 DEF ResolveAccount
  <2> QED
    BY <1>9, <2>1, <2>2, <2>3, AppendJournalInv, MilestoneInv, AppendTransferInv, TransferEvents
       DEF PostJournal
<1> QED
  BY <1>1, <1>2, <1>3, <1>4, <1>5, <1>6, <1>7, <1>8, <1>9 DEF ActivityStep
-----------------------------------------------------------------------------
(* Outcomes of attempts.                                                     *)

\* A new attempt of an activity.
LEMMA AttemptType ==
  ASSUME NEW t \in Transfers, NEW act \in Activity, NEW n \in Nat
  PROVE  /\ Attempt(t, act, n) \in RunType
         /\ Attempt(t, act, n).t = t
         /\ Attempt(t, act, n).act = act
         /\ Attempt(t, act, n).attempt = n
         /\ Prepared(Attempt(t, act, n))
         /\ FreshDecision(Attempt(t, act, n))
<1>1. FirstStep(act) \in {"account", "journal", "transfer"}
  BY DEF FirstStep
<1>2. Attempt(t, act, n).step = FirstStep(act)
  BY DEF Attempt
<1>3. Attempt(t, act, n) \in RunType
  BY <1>1 DEF Attempt, RunType, RunStepName
<1>4. Prepared(Attempt(t, act, n)) /\ FreshDecision(Attempt(t, act, n))
  BY <1>1, <1>2, Unprepared
<1> QED  BY <1>3, <1>4 DEF Attempt

\* The workflow's reaction to an outcome is a workflow.
LEMMA ReactionType ==
  ASSUME NEW w \in WorkflowType, w.at \in Activity, NEW err
  PROVE  OnReturn(w) \in WorkflowType /\ OnActivityError(w, err) \in WorkflowType
<1>1. ReasonFrom(w.at, err) \in FailureReason \cup {"none"}
  BY DEF ReasonFrom, FailureReason
<1>2. OnReturn(w) \in WorkflowType
  <2>1. AfterInitiated(w) \in WorkflowType /\ AfterReverse(w) \in WorkflowType
        /\ AfterRelease(w) \in WorkflowType
    BY DEF AfterInitiated, AfterReverse, AfterRelease, WorkflowType, Activity
  <2>2. AfterHold(w) \in WorkflowType /\ AfterPost(w) \in WorkflowType
    BY DEF AfterHold, AfterPost, WorkflowType, Activity, TransferStatus, NonTerminal
  <2>3. AfterDebit(w) \in WorkflowType /\ AfterCredit(w) \in WorkflowType
        /\ AfterPark(w) \in WorkflowType
    BY DEF AfterDebit, AfterCredit, AfterPark, WorkflowType, Activity, TransferStatus
  <2>4. AfterRefund(w) \in WorkflowType /\ AfterFail(w) \in WorkflowType
    BY DEF AfterRefund, AfterFail, WorkflowType, TransferStatus
  <2> QED  BY <2>1, <2>2, <2>3, <2>4 DEF OnReturn, Activity
<1>3. Compensate(w, err) \in WorkflowType
  BY <1>1 DEF Compensate, WorkflowType, Activity
<1>4. OnActivityError(w, err) \in WorkflowType
  BY <1>3 DEF OnActivityError, CreditFailed, WorkflowType, Activity
<1> QED  BY <1>2, <1>4

\* The live run r ends and leaves an abandoned run behind or nothing; the workflow goes
\* on to w and schedules at most one attempt of the activity w awaits.
LEMMA LiveRunEnds ==
  ASSUME Inv, NEW r \in running, Live(r), NEW left, left \subseteq {[r EXCEPT !.attempt = 0]},
         NEW w \in WorkflowType, NEW new,
         \/ new = {}
         \/ /\ w.at \in Activity
            /\ new = {Attempt(r.t, w.at, 1)}
         \/ /\ w = workflow[r.t]
            /\ \E n \in Nat \ {0} : new = {Attempt(r.t, r.act, n)},
         workflow' = [workflow EXCEPT ![r.t] = w],
         running' = (running \ {r}) \cup left \cup new,
         UNCHANGED <<account, journal, transfer, resolving, deposited>>
  PROVE  Inv'
<1> DEFINE ghost == [r EXCEPT !.attempt = 0]
<1>0. r \in RunType /\ r.t \in Transfers /\ r.act \in Activity /\ r.attempt \in Nat
      /\ workflow[r.t].at = r.act /\ workflow \in [Transfers -> WorkflowType]
  BY DEF Inv, TypeOK, Attended, RunType
<1>1. ghost \in RunType /\ ~Live(ghost) /\ Prepared(ghost) /\ FreshDecision(ghost)
  <2>1. ghost \in RunType /\ ghost.attempt = 0 /\ ghost.t = r.t /\ ghost.act = r.act
        /\ ghost.step = r.step /\ ghost.event = r.event /\ ghost.expected = r.expected
    BY <1>0 DEF RunType
  <2> HIDE DEF ghost
  <2>2. Loaded(ghost) = Loaded(r) /\ Operation(ghost) = Operation(r)
    BY <2>1 DEF Loaded, AccountOf, Operation
  <2> QED  BY <2>1, <2>2 DEF Live, Prepared, FreshDecision, Inv, NoStaleAppend
<1>2. \A x \in new : /\ x \in RunType /\ Prepared(x) /\ FreshDecision(x)
                      /\ x.t = r.t /\ w.at = x.act /\ \A y \in new : y = x
  BY <1>0, AttemptType
<1>3. \A x \in running' : x \in running \ {r} \/ x = ghost \/ x \in new
  OBVIOUS
<1>4. \A x \in running' : x \in RunType /\ Prepared(x) /\ FreshDecision(x)
  BY <1>1, <1>2, <1>3 DEF Inv, TypeOK, NoStaleAppend
<1>5. Attended'
  <2>1. \A x \in running \ {r} : Live(x) => x.t # r.t
    BY DEF Inv, Attended
  <2>2. \A x \in running' : Live(x) => (x \in running /\ x.t # r.t) \/ x \in new
    BY <1>1, <1>3, <2>1
  <2>3. \A x \in running : x.t # r.t => workflow'[x.t] = workflow[x.t]
    BY <1>0
  <2>4. \A x \in running' : Live(x) => workflow'[x.t].at = x.act
    BY <1>0, <1>2, <2>2, <2>3 DEF Inv, Attended
  <2>5. \A x, y \in running' : Live(x) /\ Live(y) /\ x.t = y.t => x = y
    BY <1>2, <2>2 DEF Inv, Attended
  <2> QED  BY <2>4, <2>5 DEF Attended, Live
<1>6. \A x \in running' : Prepared(x)' /\ FreshDecision(x)'
  BY <1>4 DEF Prepared, FreshDecision, Loaded
<1>7. TypeOK'
  BY <1>0, <1>4 DEF Inv, TypeOK
<1> QED  BY <1>5, <1>6, <1>7 DEF Inv, NoStaleAppend

\* The workflow goes on.
LEMMA ContinueInv ==
  ASSUME Inv, NEW r \in running, Live(r), NEW left, left \subseteq {[r EXCEPT !.attempt = 0]},
         NEW w \in WorkflowType, Continue(r, w, left)
  PROVE  Inv'
<1> DEFINE new == {Attempt(r.t, act, 1) : act \in Activity \cap {w.at}}
<1>1. \/ new = {}
      \/ /\ w.at \in Activity
         /\ new = {Attempt(r.t, w.at, 1)}
  <2>1. CASE w.at \in Activity
    <3>1. \A act : act \in Activity \cap {w.at} <=> act = w.at
      BY <2>1
    <3>2. new = {Attempt(r.t, w.at, 1)}
      BY <3>1
    <3> HIDE DEF new
    <3> QED  BY <2>1, <3>2
  <2>2. CASE w.at \notin Activity
    <3>1. \A act : act \notin Activity \cap {w.at}
      BY <2>2
    <3>2. new = {}
      BY <3>1
    <3> HIDE DEF new
    <3> QED  BY <3>2
  <2> QED  BY <2>1, <2>2
<1>2. running' = (running \ {r}) \cup left \cup new
  BY DEF Continue
<1> HIDE DEF new
<1> QED  BY <1>1, <1>2, LiveRunEnds DEF Continue

\* An attempt fails: it is retried, or the workflow sees the error.
LEMMA AttemptFailsInv ==
  ASSUME Inv, NEW r \in running, Live(r), NEW left, left \subseteq {[r EXCEPT !.attempt = 0]},
         NEW err, AttemptFails(r, err, left)
  PROVE  Inv'
<1>0. r.t \in Transfers /\ workflow[r.t] \in WorkflowType /\ workflow[r.t].at \in Activity
      /\ r.attempt \in Nat /\ workflow \in [Transfers -> WorkflowType]
  BY DEF Inv, TypeOK, Attended, RunType
<1>1. CASE /\ running' = (running \ {r}) \cup left \cup {Attempt(r.t, r.act, r.attempt + 1)}
           /\ UNCHANGED <<account, journal, transfer, workflow, resolving, deposited>>
  <2>1. workflow' = [workflow EXCEPT ![r.t] = workflow[r.t]]
    BY <1>0, <1>1
  <2>2. r.attempt + 1 \in Nat \ {0}
    BY <1>0
  <2> QED  BY <1>0, <1>1, <2>1, <2>2, LiveRunEnds
<1>2. CASE Continue(r, OnActivityError(workflow[r.t], err), left)
  BY <1>0, <1>2, ReactionType, ContinueInv
<1> QED  BY <1>1, <1>2 DEF AttemptFails

\* An abandoned run may stay behind: Temporal loses an attempt or times it out.
LEMMA OutcomeInv ==
  ASSUME Inv, NEW r \in running,
         \/ ActivityReturns(r)
         \/ ActivityRaises(r)
         \/ AttemptLost(r)
         \/ AttemptTimesOut(r)
  PROVE  Inv'
<1>0. r.t \in Transfers /\ workflow[r.t] \in WorkflowType
  BY DEF Inv, TypeOK, RunType
<1>1. CASE ActivityReturns(r)
  <2>1. workflow[r.t].at \in Activity
    BY <1>1 DEF ActivityReturns, Inv, TypeOK, Attended, RunType
  <2> QED  BY <1>0, <1>1, <2>1, ReactionType, ContinueInv DEF ActivityReturns
<1>2. CASE ActivityRaises(r)
  BY <1>2, AttemptFailsInv DEF ActivityRaises
<1>3. CASE AttemptLost(r)
  BY <1>3, AttemptFailsInv DEF AttemptLost
<1>4. CASE AttemptTimesOut(r)
  BY <1>4, AttemptFailsInv DEF AttemptTimesOut
<1> QED  BY <1>1, <1>2, <1>3, <1>4
-----------------------------------------------------------------------------
(* Clients, operators and the workflow's loop.                               *)

\* An HTTP handler that appends event e to account a.
LEMMA HandlerInv ==
  ASSUME Inv, NEW a \in Accounts, NEW amount \in Nat,
         NEW e \in {"AccountOpened", "FundsDeposited", "AccountFrozen", "AccountClosed"},
         AccountHandler(a, e, amount), deposited' \in [Accounts -> Nat]
  PROVE  Inv'
<1> DEFINE m == [amount |-> amount, currency |-> Currency[a]]
<1>1. account \in [Accounts -> AccountType]
  BY DEF Inv, TypeOK
<1>2. m \in [amount : Nat, currency : {Currency[b] : b \in Accounts}]
  OBVIOUS
<1>3. Apply(account[a], e, m, "none") \in AccountType
      /\ Apply(account[a], e, m, "none").version = account[a].version + 1
  <2> HIDE DEF m
  <2> QED  BY <1>1, <1>2, ApplyType DEF AccountEvent, SettlementEvent
<1>4. account' = [account EXCEPT ![a] = Apply(account[a], e, m, "none")]
  BY DEF AccountHandler
<1> HIDE DEF m
<1>5. account' \in [Accounts -> AccountType] /\ AccountsAdvance
  <2>1. account[a].version \in Nat
    BY <1>1 DEF AccountType
  <2> QED  BY <1>1, <1>3, <1>4, <2>1 DEF AccountsAdvance
<1>6. \A x \in running' : Prepared(x)' /\ FreshDecision(x)'
  BY <1>1, <1>5, RunKept DEF Inv, TypeOK, NoStaleAppend, AccountHandler
<1>7. TypeOK'
  BY <1>5 DEF Inv, TypeOK, AccountHandler
<1>8. Attended'
  BY DEF Inv, Attended, AccountHandler
<1> QED  BY <1>6, <1>7, <1>8 DEF Inv, NoStaleAppend

\* A workflow that awaits no activity schedules one.
LEMMA ScheduleInv ==
  ASSUME Inv, NEW t \in Transfers, workflow[t].at \notin Activity,
         NEW w \in WorkflowType, w.at \in Activity,
         workflow' = [workflow EXCEPT ![t] = w],
         running' = running \cup {Attempt(t, w.at, 1)},
         UNCHANGED <<account, journal, transfer, resolving, deposited>>
  PROVE  Inv'
<1> DEFINE new == Attempt(t, w.at, 1)
<1>1. new \in RunType /\ Prepared(new) /\ FreshDecision(new) /\ new.t = t /\ new.act = w.at
  BY AttemptType
<1> HIDE DEF new
<1>2. running' = running \cup {new}
  BY DEF new
<1>3. \A x \in running : x \in RunType /\ Prepared(x) /\ FreshDecision(x)
                          /\ (Live(x) => x.t # t)
  BY DEF Inv, TypeOK, NoStaleAppend, Attended, RunType
<1>4. TypeOK'
  BY <1>1, <1>2 DEF Inv, TypeOK
<1>5. Attended'
  <2>1. \A x \in running : x.t # t => workflow'[x.t] = workflow[x.t]
    OBVIOUS
  <2>2. workflow'[t] = w
    BY DEF Inv, TypeOK
  <2> QED  BY <1>1, <1>2, <1>3, <2>1, <2>2 DEF Inv, Attended, Live
<1>6. \A x \in running' : Prepared(x)' /\ FreshDecision(x)'
  BY <1>1, <1>2, <1>3 DEF Prepared, FreshDecision, Loaded
<1> QED  BY <1>4, <1>5, <1>6 DEF Inv, NoStaleAppend

\* The operations of the HTTP clients.
LEMMA ClientInv ==
  ASSUME Inv, Client
  PROVE  Inv'
<1>0. /\ workflow \in [Transfers -> WorkflowType]
      /\ resolving \in [Transfers -> SUBSET Resolution]
      /\ deposited \in [Accounts -> Nat]
  BY DEF Inv, TypeOK
<1>1. ASSUME NEW a \in Accounts, OpenAccount(a)
      PROVE  Inv'
  BY <1>0, <1>1, HandlerInv DEF OpenAccount
<1>2. ASSUME NEW a \in Accounts, NEW n \in DepositAmounts, DepositFunds(a, n)
      PROVE  Inv'
  <2>1. n \in Nat
    BY InputAssumption
  <2>2. deposited' \in [Accounts -> Nat]
    BY <1>0, <1>2, <2>1 DEF DepositFunds
  <2> QED  BY <1>2, <2>1, <2>2, HandlerInv DEF DepositFunds
<1>3. ASSUME NEW a \in Freezable, FreezeAccount(a)
      PROVE  Inv'
  BY <1>0, <1>3, HandlerInv, InputAssumption DEF FreezeAccount
<1>4. ASSUME NEW a \in Closable, CloseAccount(a)
      PROVE  Inv'
  BY <1>0, <1>4, HandlerInv, InputAssumption DEF CloseAccount
<1>5. ASSUME NEW t \in Transfers, CreateTransfer(t)
      PROVE  Inv'
  <2> DEFINE w == [workflow[t] EXCEPT !.at = "record_initiated"]
  <2>1. w \in WorkflowType /\ w.at = "record_initiated" /\ w.at \in Activity
    BY <1>0 DEF WorkflowType, Activity
  <2>2. workflow' = [workflow EXCEPT ![t] = w]
    BY <1>5 DEF CreateTransfer
  <2>3. workflow[t].at \notin Activity
    BY <1>5 DEF CreateTransfer, Activity
  <2> HIDE DEF w
  <2> QED  BY <1>5, <2>1, <2>2, <2>3, ScheduleInv DEF CreateTransfer
<1>6. ASSUME NEW t \in Transfers, NEW d \in Resolution, ResolveTransfer(t, d)
      PROVE  Inv'
  <2>1. resolving' \in [Transfers -> SUBSET Resolution]
    BY <1>0, <1>6 DEF ResolveTransfer
  <2> QED  BY <1>6, <2>1 DEF ResolveTransfer, Inv, TypeOK, Attended, Prepared, NoStaleAppend,
                             FreshDecision, Loaded
<1>7. ASSUME NEW t \in Transfers, NEW d \in Resolution, SignalResolution(t, d)
      PROVE  Inv'
  <2>1. resolving' \in [Transfers -> SUBSET Resolution]
    BY <1>0, <1>7 DEF SignalResolution
  <2>2. workflow' \in [Transfers -> WorkflowType]
        /\ \A u \in Transfers : workflow'[u].at = workflow[u].at
    BY <1>0, <1>7 DEF SignalResolution, WorkflowType
  <2>3. TypeOK'
    BY <1>7, <2>1, <2>2 DEF SignalResolution, Inv, TypeOK
  <2>4. Attended'
    BY <1>7, <2>2 DEF SignalResolution, Inv, TypeOK, RunType, Attended
  <2>5. \A x \in running' : Prepared(x)' /\ FreshDecision(x)'
    BY <1>7 DEF SignalResolution, Inv, Prepared, NoStaleAppend, FreshDecision, Loaded
  <2> QED  BY <2>3, <2>4, <2>5 DEF Inv, NoStaleAppend
<1> QED  BY <1>1, <1>2, <1>3, <1>4, <1>5, <1>6, <1>7 DEF Client

\* One turn of the loop of _await_resolution.
LEMMA ConsumeInv ==
  ASSUME Inv, NEW t \in Transfers, ConsumeResolution(t)
  PROVE  Inv'
<1> DEFINE act == IF workflow[t].resolution = "retry_credit"
                  THEN "settle_credit" ELSE "refund_source"
           w == [workflow[t] EXCEPT !.at = act, !.resolution = "none"]
<1>1. workflow \in [Transfers -> WorkflowType]
  BY DEF Inv, TypeOK
<1>2. w \in WorkflowType /\ w.at = act /\ w.at \in Activity
  BY <1>1 DEF WorkflowType, Activity
<1>3. workflow' = [workflow EXCEPT ![t] = w]
  BY DEF ConsumeResolution
<1>4. workflow[t].at \notin Activity
  BY DEF ConsumeResolution, Activity
<1>5. running' = running \cup {Attempt(t, w.at, 1)}
  BY <1>2 DEF ConsumeResolution
<1> HIDE DEF w
<1> QED  BY <1>2, <1>3, <1>4, <1>5, ScheduleInv DEF ConsumeResolution
-----------------------------------------------------------------------------
(* The theorems.                                                             *)

\* The initial accounts have been opened and paid into before.
LEMMA InitInv == Init => Inv
<1> SUFFICES ASSUME Init
             PROVE  Inv
  OBVIOUS
<1>1. ASSUME NEW a \in Accounts
      PROVE  InitialAccount(a) \in AccountType
  <2> DEFINE m == [amount |-> Funds[a], currency |-> Currency[a]]
             fresh == NewAccount(Currency[a])
             opened == Apply(fresh, "AccountOpened", m, "none")
  <2>1. m \in [amount : Nat, currency : {Currency[b] : b \in Accounts}]
    BY InputAssumption
  <2>2. fresh \in AccountType
    BY DEF NewAccount, AccountType, AccountStatus
  <2> HIDE DEF m, fresh
  <2>3. opened \in AccountType
    BY <2>1, <2>2, ApplyType DEF AccountEvent, SettlementEvent
  <2> HIDE DEF opened
  <2>4. Apply(opened, "FundsDeposited", m, "none") \in AccountType
    BY <2>1, <2>3, ApplyType DEF AccountEvent, SettlementEvent
  <2> QED  BY <2>2, <2>3, <2>4 DEF InitialAccount, m, fresh, opened
<1>2. NewWorkflow \in WorkflowType
  BY DEF NewWorkflow, WorkflowType, TransferStatus, NonTerminal
<1>3. TypeOK
  <2>1. account \in [Accounts -> AccountType]
    BY <1>1 DEF Init
  <2>2. workflow \in [Transfers -> WorkflowType]
    BY <1>2 DEF Init
  <2>3. deposited \in [Accounts -> Nat]
    BY InputAssumption DEF Init
  <2> QED  BY <2>1, <2>2, <2>3 DEF Init, TypeOK, NewTransfer
<1> QED  BY <1>3 DEF Init, Inv, Attended, NoStaleAppend

\* Every step of the saga keeps the inductive invariant.
LEMMA NextInv == Inv /\ [Next]_vars => Inv'
<1> SUFFICES ASSUME Inv, [Next]_vars
             PROVE  Inv'
  OBVIOUS
<1>1. ASSUME NEW r \in running, RunStep(r) \/ AttemptLost(r) \/ AttemptTimesOut(r)
      PROVE  Inv'
  BY <1>1, ActivityInv, OutcomeInv DEF RunStep
<1>2. ASSUME NEW t \in Transfers, ConsumeResolution(t)
      PROVE  Inv'
  BY <1>2, ConsumeInv
<1>3. CASE Client
  BY <1>3, ClientInv
<1>4. CASE UNCHANGED vars
  BY <1>4 DEF vars, Inv, TypeOK, Attended, Prepared, NoStaleAppend, FreshDecision, Loaded
<1> QED  BY <1>1, <1>2, <1>3, <1>4 DEF Next, Quiescent

\* The inductive invariant holds throughout.
THEOREM Invariance == Spec => []Inv
BY InitInv, NextInv, PTL DEF Spec

\* Type correctness.  Neither bucket of an account is ever negative, for any number of
\* transfers, retries, lost and abandoned attempts and concurrent HTTP requests.
THEOREM TypeCorrect == Spec => []TypeOK
<1>1. Inv => TypeOK
  BY DEF Inv
<1> QED  BY <1>1, Invariance, PTL

\* Optimistic concurrency is enough: whenever repository.save's version check lets an
\* append through, the decision that account.py took on the loaded copy still stands.
THEOREM StaleAppendsRefused == Spec => []NoStaleAppend
<1>1. Inv => NoStaleAppend
  BY DEF Inv
<1> QED  BY <1>1, Invariance, PTL
=============================================================================
