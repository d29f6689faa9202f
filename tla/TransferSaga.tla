----------------------------- MODULE TransferSaga -----------------------------
(***************************************************************************)
(* The transfer saga: TransferWorkflow (temporal/workflows), its           *)
(* activities (temporal/activities), the account, journal and transfer     *)
(* streams they append to, and the HTTP operations that touch the same     *)
(* streams while sagas run.                                                *)
(*                                                                         *)
(* A run is one attempt of one activity executing on a worker.  Between    *)
(* two awaits of the activity code nothing else runs, so a step is one     *)
(* load together with the decision taken on it, or one append.  An append  *)
(* succeeds only at the version that was loaded (the event store's         *)
(* optimistic concurrency check).                                          *)
(*                                                                         *)
(* Temporal (external) starts an attempt, retries it up to the policy's    *)
(* maximum, and tells the workflow the outcome.  An attempt may be lost at *)
(* any point, after its last append included: the worker died, the         *)
(* database connection broke, or the completion never arrived.  It may     *)
(* also time out while its coroutine still runs: such a run is abandoned,  *)
(* its result is ignored, its appends are not.                             *)
(***************************************************************************)
EXTENDS Account, Journal, Transfer, FiniteSets

CONSTANTS
  Accounts,       \* account ids
  Transfers,      \* transfer ids
  Input,          \* the TransferInput of each transfer
  Currency,       \* the currency each account is opened in
  Opened,         \* accounts that exist, open, in the initial state
  Funds,          \* what was deposited on each of them before
  DepositAmounts, \* amounts clients deposit while sagas run
  MaxDeposited,   \* bound: the most ever deposited on one account
  Freezable,      \* accounts a client may freeze
  Closable,       \* accounts a client may close
  MaxAttempts,    \* maximum_attempts of _DEFAULT_RETRY
  CreditAttempts, \* maximum_attempts of _CREDIT_RETRY
  WorkerFaults,   \* "interrupt": an attempt that has a retry left may be lost;
                  \* "exhaust": so may the last one; "zombie": a timed out
                  \* attempt may keep running
  MaxZombies      \* bound: abandoned runs executing at a time

ASSUME InputAssumption ==
  /\ Input \in [Transfers -> [source : Accounts, destination : Accounts,
                              amount : Nat \ {0}, currency : {Currency[a] : a \in Accounts}]]
  /\ Opened \subseteq Accounts
  /\ Funds \in [Accounts -> Nat]
  /\ DepositAmounts \subseteq Nat \ {0}
  /\ Freezable \subseteq Accounts
  /\ Closable \subseteq Accounts

ASSUME RetryAssumption ==
  /\ MaxAttempts \in Nat \ {0}
  /\ CreditAttempts \in Nat \ {0}
  /\ MaxDeposited \in Nat
  /\ MaxZombies \in Nat

VARIABLES
  account,    \* account[a]: the fold of a's event stream
  journal,    \* journal[t]: which of t's journal streams exist
  transfer,   \* transfer[t]: the fold of t's event stream
  workflow,   \* workflow[t]: the workflow execution of t
  running,    \* the attempts executing on workers
  resolving,  \* resolving[t]: operator decisions admitted, not yet signalled
  deposited   \* deposited[a]: what clients deposited on a

vars == <<account, journal, transfer, workflow, running, resolving, deposited>>

Source(t) == Input[t].source
Destination(t) == Input[t].destination
Money(t) == [amount |-> Input[t].amount, currency |-> Input[t].currency]

\* Mutant: the id does not name the transfer.
OperationIdUnscoped(t, step) == <<"op", step>>

\* operation_id: a function of the transfer and the step, the same for every attempt.
OperationId(t, step) == <<t, step>>
OperationStep == {"hold", "debit", "credit", "refund", "release"}

Activity == {"record_initiated", "hold_funds", "post_journal", "settle_debit",
             "settle_credit", "park_transfer", "refund_source", "release_hold",
             "reverse_journal", "fail_transfer"}

Resolution == {"retry_credit", "refund_source"}
-----------------------------------------------------------------------------
(* Runs.                                                                     *)

\* What an attempt does first.
FirstStep(act) ==
  CASE act \in {"hold_funds", "settle_debit", "settle_credit", "refund_source", "release_hold"}
         -> "account"
    [] act \in {"post_journal", "reverse_journal"} -> "journal"
    [] OTHER -> "transfer"

\* Attempt number n of an activity; an abandoned run has number 0.
Attempt(t, act, n) ==
  [t |-> t, act |-> act, attempt |-> n, step |-> FirstStep(act),
   event |-> "none", expected |-> 0, unread |-> {}]

Live(r) == r.attempt # 0
Zombies == {r \in running : ~Live(r)}

Ended(r) == r.step \in {"returned", "raised"}

\* The run goes on to step s.
GoTo(r, s) == [r EXCEPT !.step = s, !.event = "none", !.expected = 0]

\* The aggregate buffered event e on a stream loaded at version v; save comes next.
Save(r, s, e, v) == [r EXCEPT !.step = s, !.event = e, !.expected = v]

\* The activity raises.
Raise(r, err) == [r EXCEPT !.step = "raised", !.event = err, !.expected = 0, !.unread = {}]

\* An abandoned run that ends is forgotten.
Becomes(r, next) ==
  running' = (running \ {r}) \cup {x \in {next} : Live(x) \/ ~Ended(x)}
-----------------------------------------------------------------------------
(* The steps activities are made of.                                         *)

\* The account an activity moves money on, and its operation id.
AccountOf(r) == IF r.act = "settle_credit" THEN Destination(r.t) ELSE Source(r.t)
Operation(r) ==
  OperationId(r.t, CASE r.act = "hold_funds"    -> "hold"
                     [] r.act = "settle_debit"  -> "debit"
                     [] r.act = "settle_credit" -> "credit"
                     [] r.act = "refund_source" -> "refund"
                     [] r.act = "release_hold"  -> "release")

Loaded(r) == account[AccountOf(r)]

\* Load gives None for a stream without events.
Known(r, decision) == IF Loaded(r).version = 0 THEN "unknown_account" ELSE decision

\* Mutant: save expects the version after the buffered event.
CommandOffByOne(r, decision, then) ==
  /\ r.step = "account"
  /\ Becomes(r, CASE decision = "none"         -> GoTo(r, then)
                  [] decision \in AccountEvent -> Save(r, "append_account", decision,
                                                       Loaded(r).version + 1)
                  [] OTHER                     -> Raise(r, decision))
  /\ UNCHANGED <<account, journal, transfer>>

\* Load the account, run the command and reach save; after that comes step "then".
\* A save without pending events appends nothing.
Command(r, decision, then) ==
  /\ r.step = "account"
  /\ Becomes(r, CASE decision = "none"         -> GoTo(r, then)
                  [] decision \in AccountEvent -> Save(r, "append_account", decision,
                                                       Loaded(r).version)
                  [] OTHER                     -> Raise(r, decision))
  /\ UNCHANGED <<account, journal, transfer>>

\* Mutant: the append ignores the expected version.
AppendAccountUnchecked(r, then) ==
  /\ r.step = "append_account"
  /\ account' = [account EXCEPT ![AccountOf(r)] = Apply(@, r.event, Money(r.t), Operation(r))]
  /\ Becomes(r, GoTo(r, then))
  /\ UNCHANGED <<journal, transfer>>

AppendAccount(r, then) ==
  /\ r.step = "append_account"
  /\ \/ /\ Loaded(r).version = r.expected
        /\ account' = [account EXCEPT ![AccountOf(r)] =
                          Apply(@, r.event, Money(r.t), Operation(r))]
        /\ Becomes(r, GoTo(r, then))
     \/ /\ Loaded(r).version # r.expected
        /\ Becomes(r, Raise(r, "conflict"))
        /\ UNCHANGED account
  /\ UNCHANGED <<journal, transfer>>

\* A journal stream holds one event, appended at version 0.
AppendJournal(r, entry, then) ==
  /\ r.step = "append_journal"
  /\ \/ /\ entry \notin journal[r.t]
        /\ journal' = [journal EXCEPT ![r.t] = @ \cup {entry}]
        /\ Becomes(r, GoTo(r, then))
     \/ /\ entry \in journal[r.t]
        /\ Becomes(r, Raise(r, "conflict"))
        /\ UNCHANGED journal
  /\ UNCHANGED <<account, transfer>>

\* Load the transfer and record milestone e if its status allows it; otherwise return.
Milestone(r, e) ==
  /\ r.step = "transfer"
  /\ Becomes(r, IF transfer[r.t].status \in RecordableFrom[e]
                THEN Save(r, "append_transfer", e, transfer[r.t].version)
                ELSE GoTo(r, "returned"))
  /\ UNCHANGED <<account, journal, transfer>>

\* Mutant: the append ignores the expected version.
AppendTransferUnchecked(r) ==
  /\ r.step = "append_transfer"
  /\ transfer' = [transfer EXCEPT ![r.t] = RecordTransfer(@, r.event, workflow[r.t].reason)]
  /\ Becomes(r, GoTo(r, "returned"))
  /\ UNCHANGED <<account, journal>>

AppendTransfer(r) ==
  /\ r.step = "append_transfer"
  /\ \/ /\ transfer[r.t].version = r.expected
        /\ transfer' = [transfer EXCEPT ![r.t] = RecordTransfer(@, r.event, workflow[r.t].reason)]
        /\ Becomes(r, GoTo(r, "returned"))
     \/ /\ transfer[r.t].version # r.expected
        /\ Becomes(r, Raise(r, "conflict"))
        /\ UNCHANGED transfer
  /\ UNCHANGED <<account, journal>>
-----------------------------------------------------------------------------
(* TransferActivities.                                                       *)

RecordInitiated(r) ==
  /\ r.act = "record_initiated"
  /\ \/ /\ r.step = "transfer"
        /\ Becomes(r, IF transfer[r.t].version # 0 THEN GoTo(r, "returned")
                      ELSE IF Source(r.t) = Destination(r.t)
                      THEN Raise(r, "same_account_transfer")
                      ELSE Save(r, "append_transfer", "TransferInitiated", 0))
        /\ UNCHANGED <<account, journal, transfer>>
     \/ AppendTransfer(r)

HoldFunds(r) ==
  /\ r.act = "hold_funds"
  /\ \/ Command(r, Known(r, Hold(Loaded(r), Money(r.t), Operation(r))), "transfer")
     \/ AppendAccount(r, "transfer")
     \/ Milestone(r, "TransferHeld")
     \/ AppendTransfer(r)

\* The legs of a transfer's entry and of its reversal.
Legs(t) == <<Leg("debit", Source(t), Money(t)), Leg("credit", Destination(t), Money(t))>>
EntryLegs(t, entry) == IF entry = "journal" THEN Legs(t) ELSE Reversed(Legs(t))

\* JournalEntry.post; a balanced entry is saved next.
PostEntry(r, entry) ==
  LET outcome == Post(EntryLegs(r.t, entry))
  IN IF outcome = "JournalEntryPosted"
     THEN Save([r EXCEPT !.unread = {}], "append_journal", "JournalEntryPosted", 0)
     ELSE Raise(r, outcome)

\* Mutant: the currencies of the accounts are not compared.
ResolveAccountAnyCurrency(r, a) ==
  LET rest == r.unread \ {a}
  IN /\ r.step = "resolve"
     /\ Becomes(r,
          CASE account[a].version = 0     -> Raise(r, "unknown_account")
            [] account[a].version # 0 /\ account[a].status # "open"
                                          -> Raise(r, "account_not_active")
            [] OTHER                      ->
                 IF rest # {} THEN [r EXCEPT !.unread = rest]
                 ELSE PostEntry(r, "journal"))
     /\ UNCHANGED <<account, journal, transfer>>

\* JournalPostingService reads the two accounts one at a time, in either order;
\* the legs' currencies are compared once both are read.
ResolveAccount(r, a) ==
  LET rest == r.unread \ {a}
  IN /\ r.step = "resolve"
     /\ Becomes(r,
          CASE account[a].version = 0     -> Raise(r, "unknown_account")
            [] account[a].version # 0 /\ account[a].status # "open"
                                          -> Raise(r, "account_not_active")
            [] OTHER                      ->
                 IF rest # {} THEN [r EXCEPT !.unread = rest]
                 ELSE IF \E b \in {Source(r.t), Destination(r.t)} :
                           account[b].currency # Money(r.t).currency
                      THEN Raise(r, "currency_mismatch")
                 ELSE PostEntry(r, "journal"))
     /\ UNCHANGED <<account, journal, transfer>>

PostJournal(r) ==
  /\ r.act = "post_journal"
  /\ \/ /\ r.step = "journal"
        /\ Becomes(r, IF "journal" \in journal[r.t]
                      THEN GoTo(r, "transfer")
                      ELSE [GoTo(r, "resolve") EXCEPT
                              !.unread = {Source(r.t), Destination(r.t)}])
        /\ UNCHANGED <<account, journal, transfer>>
     \/ \E a \in r.unread : ResolveAccount(r, a)
     \/ AppendJournal(r, "journal", "transfer")
     \/ Milestone(r, "TransferPosted")
     \/ AppendTransfer(r)

ReverseJournal(r) ==
  /\ r.act = "reverse_journal"
  /\ \/ /\ r.step = "journal"
        /\ Becomes(r, IF "reversal" \in journal[r.t] THEN GoTo(r, "returned")
                                                     ELSE GoTo(r, "original"))
        /\ UNCHANGED <<account, journal, transfer>>
     \/ /\ r.step = "original"
        /\ Becomes(r, IF "journal" \notin journal[r.t]
                      THEN GoTo(r, "returned")
                      ELSE PostEntry(r, "reversal"))
        /\ UNCHANGED <<account, journal, transfer>>
     \/ AppendJournal(r, "reversal", "returned")

SettleDebit(r) ==
  /\ r.act = "settle_debit"
  /\ \/ Command(r, Known(r, Debit(Loaded(r), Money(r.t), Operation(r))), "returned")
     \/ AppendAccount(r, "returned")

SettleCredit(r) ==
  /\ r.act = "settle_credit"
  /\ \/ Command(r, Known(r, Credit(Loaded(r), Money(r.t), Operation(r))), "transfer")
     \/ AppendAccount(r, "transfer")
     \/ Milestone(r, "TransferCompleted")
     \/ AppendTransfer(r)

RefundSource(r) ==
  /\ r.act = "refund_source"
  /\ \/ Command(r, Known(r, Credit(Loaded(r), Money(r.t), Operation(r))), "transfer")
     \/ AppendAccount(r, "transfer")
     \/ Milestone(r, "TransferReconciled")
     \/ AppendTransfer(r)

\* Unlike the others this one returns when the account is unknown, and lets every
\* domain error escape as a retryable failure.
ReleaseHoldActivity(r) ==
  /\ r.act = "release_hold"
  /\ \/ Command(r, IF Loaded(r).version = 0 THEN "none"
                   ELSE ReleaseHold(Loaded(r), Money(r.t), Operation(r)), "returned")
     \/ AppendAccount(r, "returned")

FailTransfer(r) ==
  /\ r.act = "fail_transfer"
  /\ Milestone(r, "TransferFailed") \/ AppendTransfer(r)

ParkTransfer(r) ==
  /\ r.act = "park_transfer"
  /\ Milestone(r, "TransferParkedForReconciliation") \/ AppendTransfer(r)

\* The domain errors an activity turns into non-retryable ApplicationErrors.
NonRetryable(act) ==
  CASE act = "record_initiated" -> {"same_account_transfer"}
    [] act = "hold_funds"       -> {"insufficient_funds", "account_not_active",
                                    "currency_mismatch", "unknown_account"}
    [] act = "post_journal"     -> {"unknown_account", "account_not_active",
                                    "currency_mismatch", "unbalanced_entry"}
    [] act = "settle_debit"     -> {"insufficient_funds", "account_not_active",
                                    "unknown_account"}
    [] act \in {"settle_credit", "refund_source"}
                                -> {"account_not_active", "unknown_account"}
    [] OTHER                    -> {}

ActivityStep(r) ==
  /\ \/ RecordInitiated(r) \/ HoldFunds(r) \/ PostJournal(r) \/ SettleDebit(r)
     \/ SettleCredit(r) \/ ParkTransfer(r) \/ RefundSource(r) \/ ReleaseHoldActivity(r)
     \/ ReverseJournal(r) \/ FailTransfer(r)
  /\ UNCHANGED <<workflow, resolving, deposited>>
-----------------------------------------------------------------------------
(* TransferWorkflow.  workflow[t].at is the activity it awaits, "parked" in  *)
(* _await_resolution, "returned" when run returned, "died" when an           *)
(* ActivityError escaped run (the execution failed), "none" before it starts. *)

NewWorkflow ==
  [at |-> "none", status |-> "initiated", holding |-> FALSE, posted |-> FALSE,
   reason |-> "none", resolution |-> "none"]

WorkflowAlive(w) == w.at \notin {"none", "returned", "died"}

\* _reason_from.  The code of a non-retryable error, or a conflict; an error that kept
\* its class name, and a lost or timed out attempt, become OTHER.
ReasonFrom(act, err) ==
  IF err \in (NonRetryable(act) \cup {"conflict"}) \cap FailureReason THEN err ELSE "other"

\* Mutants: the workflow forgets that funds are held; it does not reverse the journal
\* entry; it stays in the reconciliation loop after a retried credit went through.
AfterHoldForgets(w) == [w EXCEPT !.at = "post_journal", !.status = "held"]
AfterReleaseKeepsEntry(w) == [w EXCEPT !.at = "fail_transfer"]
AfterCreditStays(w) ==
  [w EXCEPT !.at = IF w.status = "needs_reconciliation" THEN "parked" ELSE "returned",
            !.status = "completed"]

\* run, when the awaited activity returns.
AfterInitiated(w) == [w EXCEPT !.at = "hold_funds"]
AfterHold(w)      == [w EXCEPT !.at = "post_journal", !.status = "held", !.holding = TRUE]
AfterPost(w)      == [w EXCEPT !.at = "settle_debit", !.status = "posted", !.posted = TRUE]
AfterDebit(w)     == [w EXCEPT !.at = "settle_credit", !.holding = FALSE]
AfterCredit(w)    == [w EXCEPT !.at = "returned", !.status = "completed"]
AfterPark(w)      == [w EXCEPT !.at = "parked", !.status = "needs_reconciliation"]
AfterRefund(w)    == [w EXCEPT !.at = "returned", !.status = "reconciled"]
AfterRelease(w)   == [w EXCEPT !.at = IF w.posted THEN "reverse_journal" ELSE "fail_transfer"]
AfterReverse(w)   == [w EXCEPT !.at = "fail_transfer"]
AfterFail(w)      == [w EXCEPT !.at = "returned", !.status = "failed"]

OnReturn(w) ==
  CASE w.at = "record_initiated" -> AfterInitiated(w)
    [] w.at = "hold_funds"       -> AfterHold(w)
    [] w.at = "post_journal"     -> AfterPost(w)
    [] w.at = "settle_debit"     -> AfterDebit(w)
    [] w.at = "settle_credit"    -> AfterCredit(w)
    [] w.at = "park_transfer"    -> AfterPark(w)
    [] w.at = "refund_source"    -> AfterRefund(w)
    [] w.at = "release_hold"     -> AfterRelease(w)
    [] w.at = "reverse_journal"  -> AfterReverse(w)
    [] w.at = "fail_transfer"    -> AfterFail(w)

\* The outer "except ActivityError".  It also catches the error of park_transfer,
\* which is awaited inside the same try.
Compensate(w, err) ==
  [w EXCEPT !.reason = ReasonFrom(w.at, err),
            !.at = IF w.holding THEN "release_hold"
                   ELSE IF w.posted THEN "reverse_journal" ELSE "fail_transfer"]

\* Mutant: a failed credit is recorded as a failed transfer.
CreditFailedAsFailure(w) == [w EXCEPT !.at = "fail_transfer"]

\* settle_credit failed: park the transfer, or stay parked if this was a retried credit.
CreditFailed(w) ==
  [w EXCEPT !.at = IF w.status = "needs_reconciliation" THEN "parked" ELSE "park_transfer"]

\* Mutant: hold_funds is awaited outside the try.
OnActivityErrorUncaught(w, err) ==
  CASE w.at \in {"post_journal", "settle_debit", "park_transfer"} -> Compensate(w, err)
    [] w.at = "settle_credit" -> CreditFailed(w)
    [] w.at = "refund_source" -> [w EXCEPT !.at = "parked"]
    [] OTHER                  -> [w EXCEPT !.at = "died"]

\* run, when the awaited activity raises ActivityError.  record_initiated is
\* awaited before the try, the compensations inside its except clause.
OnActivityError(w, err) ==
  CASE w.at \in {"hold_funds", "post_journal", "settle_debit", "park_transfer"}
                            -> Compensate(w, err)
    [] w.at = "settle_credit" -> CreditFailed(w)
    [] w.at = "refund_source" -> [w EXCEPT !.at = "parked"]
    [] OTHER                  -> [w EXCEPT !.at = "died"]

\* The workflow goes on to w; run r is over, "left" is what it leaves behind.
Continue(r, w, left) ==
  /\ workflow' = [workflow EXCEPT ![r.t] = w]
  /\ running' = (running \ {r}) \cup left
                   \cup {Attempt(r.t, act, 1) : act \in Activity \cap {w.at}}
  /\ UNCHANGED <<account, journal, transfer, resolving, deposited>>
-----------------------------------------------------------------------------
(* Temporal (external): outcomes of attempts.                                *)

MaximumAttempts(act) == IF act = "settle_credit" THEN CreditAttempts ELSE MaxAttempts

ActivityReturns(r) ==
  /\ Live(r)
  /\ r.step = "returned"
  /\ Continue(r, OnReturn(workflow[r.t]), {})

\* The attempt failed with err: retry, or raise ActivityError in the workflow.
AttemptFails(r, err, left) ==
  \/ /\ err \notin NonRetryable(r.act)
     /\ r.attempt < MaximumAttempts(r.act)
     /\ running' = (running \ {r}) \cup left \cup {Attempt(r.t, r.act, r.attempt + 1)}
     /\ UNCHANGED <<account, journal, transfer, workflow, resolving, deposited>>
  \/ /\ err \in NonRetryable(r.act) \/ r.attempt = MaximumAttempts(r.act)
     /\ Continue(r, OnActivityError(workflow[r.t], err), left)

ActivityRaises(r) ==
  /\ Live(r)
  /\ r.step = "raised"
  /\ AttemptFails(r, r.event, {})

AttemptLost(r) ==
  /\ Live(r)
  /\ \/ "exhaust" \in WorkerFaults
     \/ "interrupt" \in WorkerFaults /\ r.attempt < MaximumAttempts(r.act)
  /\ AttemptFails(r, "timeout", {})

AttemptTimesOut(r) ==
  /\ "zombie" \in WorkerFaults
  /\ Live(r)
  /\ ~Ended(r)
  /\ Cardinality(Zombies) < MaxZombies
  /\ AttemptFails(r, "timeout", {[r EXCEPT !.attempt = 0]})
-----------------------------------------------------------------------------
(* HTTP operations.  A handler that loads an account, runs one command and   *)
(* saves has an effect only when nothing was appended in between (otherwise  *)
(* the client gets a conflict), so each is one step.  The requests that are  *)
(* refused change nothing.                                                   *)

AccountHandler(a, e, amount) ==
  /\ account' = [account EXCEPT ![a] =
                   Apply(@, e, [amount |-> amount, currency |-> Currency[a]], "none")]
  /\ UNCHANGED <<journal, transfer, workflow, running, resolving>>

OpenAccount(a) ==
  /\ account[a].version = 0
  /\ AccountHandler(a, "AccountOpened", 0)
  /\ UNCHANGED deposited

DepositFunds(a, amount) ==
  /\ deposited[a] + amount <= MaxDeposited
  /\ account[a].version # 0
  /\ Deposit(account[a], [amount |-> amount, currency |-> Currency[a]]) = "FundsDeposited"
  /\ AccountHandler(a, "FundsDeposited", amount)
  /\ deposited' = [deposited EXCEPT ![a] = @ + amount]

FreezeAccount(a) ==
  /\ account[a].version # 0
  /\ Freeze(account[a]) = "AccountFrozen"
  /\ AccountHandler(a, "AccountFrozen", 0)
  /\ UNCHANGED deposited

CloseAccount(a) ==
  /\ account[a].version # 0
  /\ Close(account[a]) = "AccountClosed"
  /\ AccountHandler(a, "AccountClosed", 0)
  /\ UNCHANGED deposited

\* create_transfer: the gateway starts the workflow, which schedules its first activity.
CreateTransfer(t) ==
  /\ workflow[t].at = "none"
  /\ Source(t) # Destination(t)
  /\ workflow' = [workflow EXCEPT ![t].at = "record_initiated"]
  /\ running' = running \cup {Attempt(t, "record_initiated", 1)}
  /\ UNCHANGED <<account, journal, transfer, resolving, deposited>>

\* resolve_transfer checks the recorded status, and only then signals.  resolving[t] are
\* the decisions that at least one request between the two has.
ResolveTransfer(t, d) ==
  /\ transfer[t].status = "needs_reconciliation"
  /\ resolving' = [resolving EXCEPT ![t] = @ \cup {d}]
  /\ UNCHANGED <<account, journal, transfer, workflow, running, deposited>>

\* The signal overwrites an earlier one; a closed workflow takes none.  Another request
\* with the same decision may still be in flight.
SignalResolution(t, d) ==
  /\ d \in resolving[t]
  /\ resolving' \in {resolving, [resolving EXCEPT ![t] = @ \ {d}]}
  /\ workflow' = IF WorkflowAlive(workflow[t])
                 THEN [workflow EXCEPT ![t].resolution = d] ELSE workflow
  /\ UNCHANGED <<account, journal, transfer, running, deposited>>

\* Mutant: every decision retries the credit.
ConsumeResolutionRetries(t) ==
  /\ workflow[t].at = "parked"
  /\ workflow[t].resolution # "none"
  /\ workflow' = [workflow EXCEPT ![t].at = "settle_credit", ![t].resolution = "none"]
  /\ running' = running \cup {Attempt(t, "settle_credit", 1)}
  /\ UNCHANGED <<account, journal, transfer, resolving, deposited>>

\* One turn of the loop of _await_resolution: consume the decision and act on it.
ConsumeResolution(t) ==
  LET act == IF workflow[t].resolution = "retry_credit" THEN "settle_credit" ELSE "refund_source"
  IN /\ workflow[t].at = "parked"
     /\ workflow[t].resolution # "none"
     /\ workflow' = [workflow EXCEPT ![t].at = act, ![t].resolution = "none"]
     /\ running' = running \cup {Attempt(t, act, 1)}
     /\ UNCHANGED <<account, journal, transfer, resolving, deposited>>
-----------------------------------------------------------------------------
InitialAccount(a) ==
  LET money == [amount |-> Funds[a], currency |-> Currency[a]]
      opened == Apply(NewAccount(Currency[a]), "AccountOpened", money, "none")
  IN IF a \notin Opened THEN NewAccount(Currency[a])
     ELSE IF Funds[a] = 0 THEN opened ELSE Apply(opened, "FundsDeposited", money, "none")

Init ==
  /\ account = [a \in Accounts |-> InitialAccount(a)]
  /\ journal = [t \in Transfers |-> {}]
  /\ transfer = [t \in Transfers |-> NewTransfer]
  /\ workflow = [t \in Transfers |-> NewWorkflow]
  /\ running = {}
  /\ resolving = [t \in Transfers |-> {}]
  /\ deposited = [a \in Accounts |-> IF a \in Opened THEN Funds[a] ELSE 0]

\* What Temporal and the workers do for run r.
RunStep(r) == ActivityStep(r) \/ ActivityReturns(r) \/ ActivityRaises(r)

Client ==
  \/ \E a \in Accounts : OpenAccount(a)
  \/ \E a \in Accounts, n \in DepositAmounts : DepositFunds(a, n)
  \/ \E a \in Freezable : FreezeAccount(a)
  \/ \E a \in Closable : CloseAccount(a)
  \/ \E t \in Transfers : CreateTransfer(t)
  \/ \E t \in Transfers, d \in Resolution : ResolveTransfer(t, d)
  \/ \E t \in Transfers, d \in Resolution : SignalResolution(t, d)

\* Every started workflow returned, died or is parked, and no attempt executes.
Quiescent ==
  /\ running = {}
  /\ \A t \in Transfers : ~WorkflowAlive(workflow[t]) \/ workflow[t].at = "parked"
  /\ UNCHANGED vars

Next ==
  \/ \E r \in running : RunStep(r) \/ AttemptLost(r) \/ AttemptTimesOut(r)
  \/ \E t \in Transfers : ConsumeResolution(t)
  \/ Client
  \/ Quiescent

Spec == Init /\ [][Next]_vars

\* Temporal redelivers until a worker takes the task and an attempt that is not
\* lost runs to its end; clients and operators owe nothing.
Fairness ==
  \A t \in Transfers :
    /\ WF_vars(\E r \in running : r.t = t /\ Live(r) /\ RunStep(r))
    /\ WF_vars(ConsumeResolution(t))

FairSpec == Spec /\ Fairness

\* An operator who keeps asking for a refund, and from some time on no operator asks
\* for another credit (a later signal would overwrite the request).
OperatorFairness ==
  /\ \A t \in Transfers : WF_vars(ResolveTransfer(t, "refund_source"))
                            /\ WF_vars(SignalResolution(t, "refund_source"))
  /\ <>[][\A t \in Transfers : ~ResolveTransfer(t, "retry_credit")
                                 /\ ~SignalResolution(t, "retry_credit")]_vars

OperatedSpec == FairSpec /\ OperatorFairness
-----------------------------------------------------------------------------
(* What the runs of a transfer have left on the streams.                     *)

Effects(t) ==
  {e \in {"hold", "release", "debit", "refund"} :
     OperationId(t, e) \in account[Source(t)].ops}
  \cup {e \in {"credit"} : OperationId(t, e) \in account[Destination(t)].ops}
  \cup journal[t]

Lifecycle == INSTANCE TransferLifecycle WITH
  status <- [t \in Transfers |-> transfer[t].status],
  effects <- [t \in Transfers |-> Effects(t)]

\* The saga implements TransferLifecycle: whatever is lost, retried, abandoned or
\* frozen, effects happen in causal order, and no recorded status claims an
\* effect that did not happen (transfer_activities.py orders the account append
\* before the milestone in every activity).
ImplementsLifecycle == Lifecycle!LifecycleSpec
-----------------------------------------------------------------------------
(* Invariants that hold under every fault.                                   *)

RunStepName == {"account", "append_account", "journal", "resolve", "original",
                "append_journal", "transfer", "append_transfer", "returned", "raised"}

AccountType ==
  [status : AccountStatus, currency : {Currency[a] : a \in Accounts}, available : Nat,
   reserved : Nat, ops : SUBSET (Transfers \X OperationStep), version : Nat]

RunType ==
  [t : Transfers, act : Activity, attempt : Nat, step : RunStepName,
   event : AccountEvent \cup TransferEvent \cup AccountError
             \cup {"none", "JournalEntryPosted", "conflict", "same_account_transfer",
                   "unbalanced_entry", "invalid_amount"},
   expected : Nat, unread : SUBSET Accounts]

WorkflowType ==
  [at : Activity \cup {"none", "parked", "returned", "died"}, status : TransferStatus,
   holding : BOOLEAN, posted : BOOLEAN, reason : FailureReason \cup {"none"},
   resolution : Resolution \cup {"none"}]

\* Every variable has its type; in particular neither bucket of an account is ever
\* negative, although account.py checks it on a loaded copy and the append comes later.
TypeOK ==
  /\ account \in [Accounts -> AccountType]
  /\ journal \in [Transfers -> SUBSET {"journal", "reversal"}]
  /\ transfer \in [Transfers -> [status : TransferStatus \cup {"none"},
                                 reason : FailureReason \cup {"none"}, version : Nat]]
  /\ workflow \in [Transfers -> WorkflowType]
  /\ running \subseteq RunType
  /\ resolving \in [Transfers -> SUBSET Resolution]
  /\ deposited \in [Accounts -> Nat]

\* A run's buffered event is still what the account's rules allow, if the version
\* check lets it through: the decision taken on the loaded copy did not go stale
\* (account.py decides, repository.save appends at the loaded version).
FreshDecision(r) ==
  r.step = "append_account" /\ r.expected = Loaded(r).version =>
    /\ Loaded(r).status = "open"
    /\ Operation(r) \notin Loaded(r).ops
    /\ r.event = "FundsHeld" => Loaded(r).available >= Money(r.t).amount
    /\ r.event \in {"HoldReleased", "AccountDebited"} => Loaded(r).reserved >= Money(r.t).amount

NoStaleAppend == \A r \in running : FreshDecision(r)

AmountOf(S) == MapThenSumSet(LAMBDA t : Input[t].amount, S)
From(a, e) == {t \in Transfers : Source(t) = a /\ e \in Effects(t)}
To(a, e) == {t \in Transfers : Destination(t) = a /\ e \in Effects(t)}

\* Balances are explained by what happened, each operation id counted once: the
\* total by deposits, debits, credits and refunds, the reserved bucket by holds,
\* releases and debits (the _applied_ops check under any retry).
BalancesExplained ==
  \A a \in Accounts :
    /\ account[a].available + account[a].reserved =
         deposited[a] - AmountOf(From(a, "debit")) + AmountOf(To(a, "credit"))
                      + AmountOf(From(a, "refund"))
    /\ account[a].reserved = AmountOf(From(a, "hold")) - AmountOf(From(a, "release"))
                                                       - AmountOf(From(a, "debit"))
-----------------------------------------------------------------------------
(* What the documentation says of every transfer.  Which of these hold       *)
(* depends on the faults: see the runs.                                      *)

\* A transfer recorded Failed left nothing behind: not debited, its hold released,
\* its journal entry reversed ("no partial effects", ADR-0003; the compensation in
\* transfer_workflow.py).
FailedLeavesNothing ==
  \A t \in Transfers : transfer[t].status = "failed" =>
    /\ "debit" \notin Effects(t)
    /\ "hold" \in Effects(t) => "release" \in Effects(t)
    /\ "journal" \in Effects(t) => "reversal" \in Effects(t)

\* A transfer recorded Failed did not debit the source ("Recording Failed here would
\* be a lie: money already moved", ADR-0003).
FailedNeverDebited ==
  \A t \in Transfers : transfer[t].status = "failed" => "debit" \notin Effects(t)

\* Money that left the source reaches the destination or returns, never both
\* (refund_source after a credit that landed, or the other way round).
PaidOnce == \A t \in Transfers : ~ {"credit", "refund"} \subseteq Effects(t)

\* No money is lost in silence (ADR-0003): once the workflow execution is over, money
\* that left the source has reached the destination or returned.  While it is parked
\* the workflow waits for an operator and the loss is visible.
NoSilentLoss ==
  \A t \in Transfers :
    workflow[t].at \in {"returned", "died"} /\ "debit" \in Effects(t) =>
      Effects(t) \cap {"credit", "refund"} # {}

\* A workflow that returned reports what the transfer's stream records ("Two systems
\* of record must not drift", ADR-0001).
OutcomesAgree ==
  \A t \in Transfers : workflow[t].at = "returned" =>
    transfer[t].status = workflow[t].status

\* No workflow execution dies holding the source's funds ("fully compensated",
\* ADR-0003): an ActivityError that escapes run strands the hold for good.
NoHoldStranded ==
  \A t \in Transfers : workflow[t].at = "died" =>
    ("hold" \in Effects(t) => Effects(t) \cap {"release", "debit"} # {})

\* When no last attempt is lost, a workflow execution that dies (release_hold's attempts
\* used up by lost attempts and version conflicts, in the except clause of run) dies at
\* one place only: the hold is on the source and nothing has left it, and the stream
\* says Held or Posted, so the transfer can still be found and undone.
DiesOnlyHolding ==
  \A t \in Transfers : workflow[t].at = "died" =>
    /\ "hold" \in Effects(t)
    /\ Effects(t) \cap {"release", "debit"} = {}
    /\ transfer[t].status \in {"held", "posted"}

\* A transfer recorded Failed has undone all that its workflow was told of, whatever is
\* lost: a hold that hold_funds reported is released or was consumed by a debit, an entry
\* that post_journal reported is reversed (holding and posted in transfer_workflow.py).
\* What an attempt did unreported is not undone: FailedLeavesNothing needs the last
\* attempt to report.
CompensatesWhatItKnows ==
  \A t \in Transfers : transfer[t].status = "failed" =>
    /\ workflow[t].holding => Effects(t) \cap {"release", "debit"} # {}
    /\ workflow[t].posted => "reversal" \in Effects(t)

\* A started transfer settles: its workflow returns or is parked for an operator
\* (every await of run is bounded by the retry policy).
Settles ==
  \A t \in Transfers : workflow[t].at = "record_initiated" ~>
                         workflow[t].at \in {"returned", "parked"}

\* A parked transfer does not stay parked: an operator who keeps asking for a refund
\* brings the workflow to its end (the loop of _await_resolution), as long as the
\* source account accepts credits.
Resolves ==
  \A t \in Transfers : workflow[t].at = "parked" ~> workflow[t].at = "returned"

\* The double-entry journal and the account balances, appended by different activities
\* to different streams, tell the same story once every workflow returned: what an
\* account gained or lost beyond its deposits is the net of its journal legs, reversals
\* included (post_journal, reverse_journal, the settle activities).  The transfers that
\* were refunded are left out: refund_source returns the money and reverses no entry.
BooksAgree ==
  (\A t \in Transfers : workflow[t].at \in {"none", "returned"}) =>
    \A a \in Accounts :
      account[a].available + account[a].reserved - deposited[a] =
        MapThenSumSet(LAMBDA t : MapThenSumSet(LAMBDA e : NetOn(EntryLegs(t, e), a), journal[t]),
                      {t \in Transfers : "refund" \notin Effects(t)})

\* Money moves only between accounts of its own currency.  settle_credit runs after
\* the debit, too late to find a mismatch: the journal entry's check comes before it
\* (posting_service.py).
MoneyKeepsCurrency ==
  \A t \in Transfers : Effects(t) \cap {"debit", "credit"} # {} =>
    {account[Source(t)].currency, account[Destination(t)].currency} = {Money(t).currency}
=============================================================================
