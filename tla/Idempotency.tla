------------------------------ MODULE Idempotency ------------------------------
(***************************************************************************)
(* The Idempotency-Key header: the stores of api/idempotency.py and the    *)
(* two handlers that use them, deposit (api/routers/accounts.py) and       *)
(* create_transfer (api/routers/transfers.py).                             *)
(*                                                                         *)
(* A handler claims its key, does its work, and records the response;      *)
(* every statement is an await, so other requests run between any two.  An *)
(* exception of the work discards the claim.  A handler may also end       *)
(* without that: the process dies, the task is cancelled ("except          *)
(* Exception" does not catch CancelledError), or the statement that should *)
(* complete or discard the claim fails.  (A process that dies takes the    *)
(* in-memory store with it: there only a cancelled task is meant.)  The    *)
(* work may have its effect and still raise, when the acknowledgement of   *)
(* the commit, or of the workflow start, is lost.  (A deposit between the  *)
(* in-memory stores never really suspends; it is cut into the same steps   *)
(* here.)                                                                  *)
(***************************************************************************)
EXTENDS Account, Sequences

CONSTANTS
  Keys,         \* values of the header
  NoKey,        \* a request without the header
  Amounts,      \* the amounts requests carry: a body, and its fingerprint
  Inputs,       \* the requests clients send
  MaxRequests,  \* bound: requests sent
  Backends,     \* the store the process was started with
  Faults        \* "die": a handler may end early; "lost": an acknowledgement may be lost

Route == {"deposit", "transfer"}
Rows == Keys \X Route
Requests == 1 .. MaxRequests

ASSUME KeyAssumption ==
  /\ NoKey \notin Keys
  /\ Amounts \subseteq Nat \ {0}
  /\ Inputs \subseteq [key : Keys \cup {NoKey}, route : Route, body : Amounts]
  /\ MaxRequests \in Nat
  /\ Backends \subseteq {"memory", "postgres"}

VARIABLES
  backend,    \* the IdempotencyStore of the AppContext
  row,        \* row[k]: what the store holds under (key, route)
  account,    \* the account deposits go to
  workflows,  \* the number of transfer workflows started
  handler,    \* handler[r]: the handler of the r-th request
  performed   \* performed[k]: the effects of requests under k, in order

vars == <<backend, row, account, workflows, handler, performed>>

Free == [state |-> "free", body |-> 0, response |-> 0]
ClaimedFor(b) == [state |-> "claimed", body |-> b, response |-> 0]

Unsent == [step |-> "unsent", key |-> NoKey, route |-> "deposit", body |-> 0,
           expected |-> 0, response |-> 0]

RowOf(r) == <<handler[r].key, handler[r].route>>
Keyed(r) == handler[r].key # NoKey
Money(r) == [amount |-> handler[r].body, currency |-> account.currency]

GoTo(r, s) == handler' = [handler EXCEPT ![r].step = s]

\* The steps between a claim that is NEW and the end of the handler.
WorkStep == {"load", "append", "start", "complete", "discard"}
Answer == {"ok", "replay", "in_progress", "mismatch", "error", "died"}

FirstWork(route) == IF route = "deposit" THEN "load" ELSE "start"
-----------------------------------------------------------------------------
(* IdempotencyStore.                                                         *)

\* Mutant: a claimed row is taken over.
InsertOverClaim(r) ==
  IF row[RowOf(r)].state # "done"
  THEN /\ row' = [row EXCEPT ![RowOf(r)] = ClaimedFor(handler[r].body)]
       /\ GoTo(r, FirstWork(handler[r].route))
  ELSE GoTo(r, "lookup") /\ UNCHANGED row

\* INSERT ... ON CONFLICT DO NOTHING: a returned row means the claim is NEW.
Insert(r) ==
  IF row[RowOf(r)].state = "free"
  THEN /\ row' = [row EXCEPT ![RowOf(r)] = ClaimedFor(handler[r].body)]
       /\ GoTo(r, FirstWork(handler[r].route))
  ELSE GoTo(r, "lookup") /\ UNCHANGED row

\* Mutant: the fingerprint is not compared.
ClassifyAnyBody(r) ==
  IF row[RowOf(r)].state = "free" THEN "mismatch"
  ELSE IF row[RowOf(r)].state = "claimed" THEN "in_progress" ELSE "replay"

\* Mutant: a row that holds a claim without a response is a mismatch.
ClassifyClaimed(r) ==
  IF row[RowOf(r)].body # handler[r].body \/ row[RowOf(r)].state = "claimed"
  THEN "mismatch" ELSE "replay"

\* How a row that was there is classified.  A row that is gone again has no body.
Classify(r) ==
  IF row[RowOf(r)].body # handler[r].body THEN "mismatch"
  ELSE IF row[RowOf(r)].state = "claimed" THEN "in_progress" ELSE "replay"

\* The handler returns what the classification says; only a replay has a stored response.
Refuse(r) ==
  /\ handler' = [handler EXCEPT ![r].step = Classify(r),
                                ![r].response = IF Classify(r) = "replay"
                                                THEN row[RowOf(r)].response ELSE 0]
  /\ UNCHANGED row

\* claim.  The in-memory store looks and inserts without an await; the Postgres store
\* inserts, and selects in a second statement.
Claim(r) ==
  /\ handler[r].step = "claim"
  /\ \/ backend = "postgres" /\ Insert(r)
     \/ backend = "memory" /\ row[RowOf(r)].state = "free" /\ Insert(r)
     \/ backend = "memory" /\ row[RowOf(r)].state # "free" /\ Refuse(r)
  /\ UNCHANGED <<backend, account, workflows, performed>>

Lookup(r) ==
  /\ handler[r].step = "lookup"
  /\ Refuse(r)
  /\ UNCHANGED <<backend, account, workflows, performed>>

Complete(r) ==
  /\ handler[r].step = "complete"
  /\ row' = [row EXCEPT ![RowOf(r)] =
               [state |-> "done", body |-> @.body, response |-> handler[r].response]]
  /\ GoTo(r, "ok")
  /\ UNCHANGED <<backend, account, workflows, performed>>

\* Mutant: the failure is recorded as the response.
DiscardRecords(r) ==
  /\ handler[r].step = "discard"
  /\ row' = [row EXCEPT ![RowOf(r)].state = "done"]
  /\ GoTo(r, "error")
  /\ UNCHANGED <<backend, account, workflows, performed>>

\* Mutant: a failed request is tried again in place.
DiscardRetries(r) ==
  /\ handler[r].step = "discard"
  /\ GoTo(r, FirstWork(handler[r].route))
  /\ UNCHANGED <<backend, row, account, workflows, performed>>

\* The except clause: a row without a response is deleted, and the exception goes on.
Discard(r) ==
  /\ handler[r].step = "discard"
  /\ row' = [row EXCEPT ![RowOf(r)] = IF @.state = "claimed" THEN Free ELSE @]
  /\ GoTo(r, "error")
  /\ UNCHANGED <<backend, account, workflows, performed>>
-----------------------------------------------------------------------------
(* The work.                                                                 *)

\* Mutant: an exception leaves the claim in place.
RaisesKeepsClaim(r) ==
  /\ GoTo(r, "error")
  /\ UNCHANGED <<backend, row, account, workflows, performed>>

\* An exception of the work reaches the except clause.
Raises(r) ==
  /\ GoTo(r, IF Keyed(r) THEN "discard" ELSE "error")
  /\ UNCHANGED <<backend, row, account, workflows, performed>>

\* The effect happens, and its response is v.  When the acknowledgement is lost the
\* effect stands but the await raises.
Performs(r, v, acked) ==
  /\ performed' = IF Keyed(r)
                  THEN [performed EXCEPT ![RowOf(r)] =
                          Append(@, [body |-> handler[r].body, response |-> v, acked |-> acked])]
                  ELSE performed
  /\ handler' = [handler EXCEPT
                   ![r].response = IF acked THEN v ELSE 0,
                   ![r].step = CASE acked /\ Keyed(r)   -> "complete"
                                 [] acked /\ ~Keyed(r)  -> "ok"
                                 [] ~acked /\ Keyed(r)  -> "discard"
                                 [] ~acked /\ ~Keyed(r) -> "error"]
  /\ UNCHANGED <<backend, row>>

\* deposit: load the account and run the command.  The query may fail, the account may
\* refuse.
Load(r) ==
  /\ handler[r].step = "load"
  /\ \/ /\ Deposit(account, Money(r)) = "FundsDeposited"
        /\ handler' = [handler EXCEPT ![r].step = "append", ![r].expected = account.version]
        /\ UNCHANGED <<backend, row, account, workflows, performed>>
     \/ Raises(r)

\* deposit: save at the loaded version.  The response is the account after the event.
\* The append raises on a conflict, and when the database fails.
AppendDeposit(r) ==
  LET after == Apply(account, "FundsDeposited", Money(r), "none")
  IN /\ handler[r].step = "append"
     /\ \/ /\ account.version = handler[r].expected
           /\ \/ Performs(r, after.available, TRUE)
              \/ "lost" \in Faults /\ backend = "postgres" /\ Performs(r, after.available, FALSE)
           /\ account' = after
           /\ UNCHANGED workflows
        \/ Raises(r)

\* create_transfer: mint a transfer id and start its workflow.  The id is new in every
\* request, so Temporal cannot tell a repeated start from another transfer.
StartTransfer(r) ==
  /\ handler[r].step = "start"
  /\ \/ /\ \/ Performs(r, workflows + 1, TRUE)
           \/ "lost" \in Faults /\ Performs(r, workflows + 1, FALSE)
        /\ workflows' = workflows + 1
        /\ UNCHANGED account
     \/ Raises(r)

\* The handler ends here, without its except clause and without an answer.
Die(r) ==
  /\ "die" \in Faults
  /\ handler[r].step \in WorkStep
  /\ GoTo(r, "died")
  /\ UNCHANGED <<backend, row, account, workflows, performed>>
-----------------------------------------------------------------------------
\* A client sends the next request, a repetition of an earlier one or not.  A transfer
\* to the same account is rejected before the claim and is not among the inputs.
Send(r, i) ==
  /\ handler[r].step = "unsent"
  /\ \A q \in 1 .. r - 1 : handler[q].step # "unsent"
  /\ handler' = [handler EXCEPT
                   ![r] = [step |-> IF i.key = NoKey THEN FirstWork(i.route) ELSE "claim",
                           key |-> i.key, route |-> i.route, body |-> i.body,
                           expected |-> 0, response |-> 0]]
  /\ UNCHANGED <<backend, row, account, workflows, performed>>

\* freeze_account, meanwhile.
FreezeAccount ==
  /\ Freeze(account) = "AccountFrozen"
  /\ account' = Apply(account, "AccountFrozen", [amount |-> 0, currency |-> account.currency], "none")
  /\ UNCHANGED <<backend, row, workflows, handler, performed>>

HandlerStep(r) ==
  Claim(r) \/ Lookup(r) \/ Load(r) \/ AppendDeposit(r) \/ StartTransfer(r)
    \/ Complete(r) \/ Discard(r)

Init ==
  /\ backend \in Backends
  /\ row = [k \in Rows |-> Free]
  /\ account = Apply(NewAccount("EUR"), "AccountOpened", [amount |-> 0, currency |-> "EUR"], "none")
  /\ workflows = 0
  /\ handler = [r \in Requests |-> Unsent]
  /\ performed = [k \in Rows |-> <<>>]

\* Every request is answered.
Idle ==
  /\ \A r \in Requests : handler[r].step \in Answer
  /\ UNCHANGED vars

Next ==
  \/ \E r \in Requests : HandlerStep(r) \/ Die(r) \/ \E i \in Inputs : Send(r, i)
  \/ FreezeAccount
  \/ Idle

Spec == Init /\ [][Next]_vars

\* A handler that does not die runs to its end: it waits for nothing but the database
\* and Temporal.  Clients owe nothing.
FairSpec == Spec /\ \A r \in Requests : WF_vars(HandlerStep(r))
-----------------------------------------------------------------------------
\* The requests that hold the claim of k.
Holders(k) == {r \in Requests : Keyed(r) /\ RowOf(r) = k /\ handler[r].step \in WorkStep}

\* The claim of k is left behind: nobody will complete or discard it.
Abandoned(k) == row[k].state = "claimed" /\ Holders(k) = {}

\* Every variable has its type; a recorded response is one that a request returned.
TypeOK ==
  /\ backend \in Backends
  /\ row \in [Rows -> {Free} \cup {ClaimedFor(b) : b \in Amounts}
                        \cup [state : {"done"}, body : Amounts, response : Nat \ {0}]]
  /\ account.status \in AccountStatus /\ account.available \in Nat /\ account.version \in Nat
  /\ workflows \in Nat
  /\ handler \in [Requests -> [step : {"unsent", "claim", "lookup"} \cup WorkStep \cup Answer,
                               key : Keys \cup {NoKey}, route : Route, body : Amounts \cup {0},
                               expected : Nat, response : Nat]]
  /\ performed \in [Rows -> Seq([body : Amounts, response : Nat \ {0}, acked : BOOLEAN])]

\* A claim belongs to one request: whoever works under a key holds the row, alone, with
\* its own body, and a row stays claimed without anybody working only if a handler died
\* (claim, complete and discard name the key and not the claimant, idempotency.py).
ClaimHeld ==
  \A k \in Rows :
    /\ \A r \in Holders(k) : row[k] = ClaimedFor(handler[r].body) /\ Holders(k) = {r}
    /\ Abandoned(k) => \E r \in Requests : RowOf(r) = k /\ handler[r].step = "died"

\* An operation happens again under its key only after a lost acknowledgement: once an
\* effect was acknowledged no other follows, whatever dies and whoever retries
\* ("performed only once", idempotency specification; the claim before the work in
\* accounts.py and transfers.py).
AcknowledgedOnce ==
  \A k \in Rows : \A i, j \in DOMAIN performed[k] :
    i < j => ~performed[k][i].acked

\* Whoever is told success under a key is told the response of the effect that was
\* acknowledged under it, for its own request: the first answer and every replay agree.
AnswersTrue ==
  \A r \in Requests : Keyed(r) /\ handler[r].step \in {"ok", "replay"} =>
    \E i \in DOMAIN performed[RowOf(r)] :
      performed[RowOf(r)][i] = [body |-> handler[r].body, response |-> handler[r].response,
                                acked |-> TRUE]

\* Nobody is told that the key was reused with a different request when the same request
\* has succeeded under it.  (The Postgres claim does say so when the row it met was
\* discarded before it looked: the request it collided with has failed.)
MismatchMeansOther ==
  [][\A r \in Requests : handler'[r].step = "mismatch" /\ handler[r].step # "mismatch" =>
       \A i \in DOMAIN performed[RowOf(r)] :
         performed[RowOf(r)][i].acked => performed[RowOf(r)][i].body # handler[r].body]_vars

\* A claim ends: its handler completes or discards it, or died.
ClaimsEnd ==
  \A k \in Rows : row[k].state = "claimed" ~> row[k].state # "claimed" \/ Abandoned(k)

\* "The account is credited only once": an operation happens at most once under a key
\* (idempotency specification).  A lost acknowledgement breaks it: the except clause of
\* the handlers discards the claim of an operation that took place.
OncePerKey == \A k \in Rows : Len(performed[k]) <= 1
=============================================================================
