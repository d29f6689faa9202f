-------------------------- MODULE Idempotency_proofs --------------------------
(***************************************************************************)
(* Proofs about Idempotency for any keys, bodies, requests, stores and     *)
(* faults: ClaimHeld, AcknowledgedOnce, AnswersTrue, MismatchMeansOther.   *)
(* None of them is inductive.  That an acknowledged operation is not       *)
(* repeated rests on its row: it stays claimed or done, and nobody works   *)
(* under it except to complete it.                                         *)
(***************************************************************************)
EXTENDS Idempotency, TLAPS

AccountType ==
  [status : AccountStatus, currency : {"EUR"}, available : Nat, reserved : Nat,
   ops : {{}}, version : Nat]

Working(r) == Keyed(r) /\ handler[r].step \in WorkStep

\* Who is at which step has what belongs to it.
StepsFit ==
  \A r \in Requests :
    /\ handler[r].step # "unsent" => handler[r].body \in Amounts
    /\ handler[r].step \in {"claim", "lookup", "complete", "discard"} => Keyed(r)
    /\ handler[r].step = "complete" => handler[r].response \in Nat \ {0}

\* ClaimHeld, request by request.
Held ==
  /\ \A r \in Requests : Working(r) => row[RowOf(r)] = ClaimedFor(handler[r].body)
  /\ \A r, q \in Requests : Working(r) /\ Working(q) /\ RowOf(r) = RowOf(q) => r = q
  /\ \A k \in Rows : row[k].state = "claimed" =>
       \E r \in Requests : RowOf(r) = k /\ (Working(r) \/ handler[r].step = "died")

\* The effect a handler or a row answers with.
Happened(k, b, v) ==
  \E i \in DOMAIN performed[k] : performed[k][i] = [body |-> b, response |-> v, acked |-> TRUE]

\* The row of an acknowledged effect keeps everybody else from the work.
Guarded ==
  \A k \in Rows : \A i \in DOMAIN performed[k] : performed[k][i].acked =>
    /\ row[k].state # "free"
    /\ row[k].body = performed[k][i].body
    /\ \A r \in Requests : Working(r) /\ RowOf(r) = k => handler[r].step = "complete"

Answered ==
  /\ \A r \in Requests : Keyed(r) /\ handler[r].step \in {"complete", "ok", "replay"} =>
       Happened(RowOf(r), handler[r].body, handler[r].response)
  /\ \A k \in Rows : row[k].state = "done" => Happened(k, row[k].body, row[k].response)

Inv == TypeOK /\ account \in AccountType /\ StepsFit /\ Held /\ Guarded /\ Answered
         /\ AcknowledgedOnce
-----------------------------------------------------------------------------
\* Request r goes to step s with response v; nothing else changes about the handlers.
Turns(r, s, v) ==
  /\ \A q \in Requests \ {r} : handler'[q] = handler[q]
  /\ handler'[r].key = handler[r].key
  /\ handler'[r].route = handler[r].route
  /\ handler'[r].body = handler[r].body
  /\ handler'[r].step = s
  /\ handler'[r].response = v

\* A request with a key has a row.
LEMMA RowType ==
  ASSUME TypeOK, NEW r \in Requests
  PROVE  /\ Keyed(r) => RowOf(r) \in Rows
         /\ RowOf(r) \in Rows => Keyed(r)
BY KeyAssumption DEF TypeOK, RowOf, Rows, Keyed

\* GoTo is such a step.
LEMMA GoToTurns ==
  ASSUME TypeOK, NEW r \in Requests, NEW s, GoTo(r, s)
  PROVE  Turns(r, s, handler[r].response)
BY DEF TypeOK, GoTo, Turns

\* Whose row a request uses does not change when it turns.
LEMMA RowKept ==
  ASSUME NEW r \in Requests, NEW s, NEW v, Turns(r, s, v), NEW q \in Requests
  PROVE  /\ RowOf(q)' = RowOf(q)
         /\ Keyed(q)' = Keyed(q)
         /\ handler'[q].body = handler[q].body
         /\ q # r => handler'[q] = handler[q]
         /\ q # r => Working(q)' = Working(q)
         /\ Working(r)' = (Keyed(r) /\ s \in WorkStep)
BY DEF Turns, RowOf, Keyed, Working
-----------------------------------------------------------------------------
(* Steps that leave the rows and the effects alone.                          *)

\* What such a step of a request with a key may be.
QuietTurn(r, s, v) ==
  \/ handler[r].step \in WorkStep /\ handler[r].step # "complete" /\ s \in WorkStep /\ s # "complete"
  \/ handler[r].step \in WorkStep /\ s = "died"
  \/ /\ handler[r].step \notin WorkStep \cup {"died"}
     /\ s \notin WorkStep \cup {"ok", "replay"}
  \/ /\ handler[r].step \notin WorkStep \cup {"died"}
     /\ s = "replay"
     /\ row[RowOf(r)].state = "done"
     /\ row[RowOf(r)].body = handler[r].body
     /\ row[RowOf(r)].response = v

\* They keep the relation between handlers, rows and effects.
LEMMA QuietInv ==
  ASSUME Inv, NEW r \in Requests, NEW s, NEW v, Turns(r, s, v),
         Keyed(r) => QuietTurn(r, s, v), UNCHANGED <<row, performed>>
  PROVE  Held' /\ Guarded' /\ Answered' /\ AcknowledgedOnce'
<1>0. TypeOK /\ Held /\ Guarded /\ Answered /\ AcknowledgedOnce
  BY DEF Inv
<1>1. /\ \A q \in Requests : RowOf(q)' = RowOf(q) /\ Keyed(q)' = Keyed(q)
                                /\ handler'[q].body = handler[q].body
      /\ \A q \in Requests \ {r} : handler'[q] = handler[q] /\ Working(q)' = Working(q)
      /\ Working(r)' = (Keyed(r) /\ s \in WorkStep)
      /\ handler'[r].step = s /\ handler'[r].response = v
  BY RowKept DEF Turns
<1>2. \A q \in Requests : Keyed(q) => RowOf(q) \in Rows
  BY <1>0, RowType
<1>3. row' = row /\ performed' = performed
  OBVIOUS
<1>4. Held'
  <2>1. \A q \in Requests : Working(q)' => Working(q)
    BY <1>0, <1>1 DEF QuietTurn, Working, WorkStep
  <2>2. (\A q \in Requests : Working(q) => row[RowOf(q)] = ClaimedFor(handler[q].body))'
    BY <1>0, <1>1, <1>3, <2>1 DEF Held, ClaimedFor
  <2>3. (\A p, q \in Requests : Working(p) /\ Working(q) /\ RowOf(p) = RowOf(q) => p = q)'
    BY <1>0, <1>1, <2>1 DEF Held
  <2>4. ASSUME NEW k \in Rows, row'[k].state = "claimed"
        PROVE  \E q \in Requests : RowOf(q)' = k /\ (Working(q)' \/ handler'[q].step = "died")
    <3>1. PICK q \in Requests : RowOf(q) = k /\ (Working(q) \/ handler[q].step = "died")
      BY <1>0, <1>3, <2>4 DEF Held
    <3>2. Keyed(q)
      BY <1>0, <3>1, RowType
    <3> QED  BY <1>1, <3>1, <3>2 DEF QuietTurn, Working
  <2> QED  BY <2>2, <2>3, <2>4 DEF Held
<1>5. Guarded'
  <2>1. \A q \in Requests : Working(q)' =>
          Working(q) /\ (handler[q].step = "complete" => handler'[q].step = "complete")
    BY <1>0, <1>1 DEF QuietTurn, Working, WorkStep
  <2> QED  BY <1>0, <1>1, <1>3, <2>1 DEF Guarded
<1>6. Answered'
  <2>1. ASSUME NEW q \in Requests, Keyed(q)', handler'[q].step \in {"complete", "ok", "replay"}
        PROVE  Happened(RowOf(q), handler[q].body, handler[q].response)'
    <3>1. CASE q = r
      BY <1>0, <1>1, <1>2, <1>3, <2>1, <3>1 DEF Answered, QuietTurn, Happened, WorkStep
    <3>2. CASE q # r
      BY <1>0, <1>1, <1>3, <2>1, <3>2 DEF Answered, Happened
    <3> QED  BY <3>1, <3>2
  <2> QED  BY <1>0, <1>3, <2>1 DEF Answered, Happened
<1>7. AcknowledgedOnce'
  BY <1>0, <1>3 DEF AcknowledgedOnce
<1> QED  BY <1>4, <1>5, <1>6, <1>7
-----------------------------------------------------------------------------
(* Steps of the store.                                                       *)

\* Claiming a free row makes the request its only holder.
LEMMA InsertInv ==
  ASSUME Inv, NEW r \in Requests, handler[r].step = "claim", NEW s \in WorkStep \ {"complete"},
         Turns(r, s, handler[r].response), row[RowOf(r)].state = "free",
         row' = [row EXCEPT ![RowOf(r)] = ClaimedFor(handler[r].body)], UNCHANGED performed
  PROVE  Held' /\ Guarded' /\ Answered' /\ AcknowledgedOnce'
<1>0. TypeOK /\ StepsFit /\ Held /\ Guarded /\ Answered /\ AcknowledgedOnce
  BY DEF Inv
<1>1. /\ \A q \in Requests : RowOf(q)' = RowOf(q) /\ Keyed(q)' = Keyed(q)
                                /\ handler'[q].body = handler[q].body
      /\ \A q \in Requests \ {r} : handler'[q] = handler[q] /\ Working(q)' = Working(q)
      /\ Working(r)' = (Keyed(r) /\ s \in WorkStep)
      /\ handler'[r].step = s
  BY RowKept DEF Turns
<1>2. \A q \in Requests : Keyed(q) => RowOf(q) \in Rows
  BY <1>0, RowType
<1>3. Keyed(r) /\ ~Working(r) /\ RowOf(r) \in Rows
  BY <1>0, <1>2 DEF StepsFit, Working, WorkStep
<1>4. /\ row'[RowOf(r)] = ClaimedFor(handler[r].body)
      /\ \A k \in Rows : k # RowOf(r) => row'[k] = row[k]
  BY <1>0, <1>3 DEF TypeOK
<1>5. \A q \in Requests : Working(q) => RowOf(q) \in Rows /\ RowOf(q) # RowOf(r)
  <2>1. ASSUME NEW q \in Requests, Working(q)
        PROVE  row[RowOf(q)].state = "claimed"
    <3>1. row[RowOf(q)] = ClaimedFor(handler[q].body)
      BY <1>0, <2>1 DEF Held
    <3> QED  BY <3>1 DEF ClaimedFor
  <2>2. \A q \in Requests : Working(q) => RowOf(q) \in Rows
    BY <1>2 DEF Working
  <2> QED  BY <2>1, <2>2
<1>6. Held'
  <2>1. (\A q \in Requests : Working(q) => row[RowOf(q)] = ClaimedFor(handler[q].body))'
    BY <1>0, <1>1, <1>4, <1>5 DEF Held, ClaimedFor
  <2>2. (\A p, q \in Requests : Working(p) /\ Working(q) /\ RowOf(p) = RowOf(q) => p = q)'
    BY <1>0, <1>1, <1>5 DEF Held
  <2>3. ASSUME NEW k \in Rows, row'[k].state = "claimed"
        PROVE  \E q \in Requests : RowOf(q)' = k /\ (Working(q)' \/ handler'[q].step = "died")
    <3>1. CASE k = RowOf(r)
      BY <1>1, <1>3, <3>1
    <3>2. CASE k # RowOf(r)
      <4>1. PICK q \in Requests : RowOf(q) = k /\ (Working(q) \/ handler[q].step = "died")
        BY <1>0, <1>4, <2>3, <3>2 DEF Held
      <4> QED  BY <1>1, <3>2, <4>1
    <3> QED  BY <3>1, <3>2
  <2> QED  BY <2>1, <2>2, <2>3 DEF Held
<1>7. Guarded'
  BY <1>0, <1>1, <1>3, <1>4 DEF Guarded
<1>8. Answered'
  <2>1. \A q \in Requests : handler'[q].step \in {"complete", "ok", "replay"} => q # r
    BY <1>1 DEF WorkStep
  <2>2. \A k \in Rows : row'[k].state = "done" => row'[k] = row[k]
    BY <1>4 DEF ClaimedFor
  <2> QED  BY <1>0, <1>1, <2>1, <2>2 DEF Answered, Happened
<1>9. AcknowledgedOnce'
  BY <1>0 DEF AcknowledgedOnce
<1> QED  BY <1>6, <1>7, <1>8, <1>9

\* The holder ends its claim: it records its response, or frees the row.
LEMMA ReleaseInv ==
  ASSUME Inv, NEW r \in Requests, NEW s, Turns(r, s, handler[r].response), NEW new,
         \/ /\ handler[r].step = "complete"
            /\ s = "ok"
            /\ new = [state |-> "done", body |-> handler[r].body, response |-> handler[r].response]
         \/ handler[r].step = "discard" /\ s = "error" /\ new = Free,
         row' = [row EXCEPT ![RowOf(r)] = new], UNCHANGED performed
  PROVE  Held' /\ Guarded' /\ Answered' /\ AcknowledgedOnce'
<1>0. TypeOK /\ StepsFit /\ Held /\ Guarded /\ Answered /\ AcknowledgedOnce
  BY DEF Inv
<1>1. /\ \A q \in Requests : RowOf(q)' = RowOf(q) /\ Keyed(q)' = Keyed(q)
                                /\ handler'[q].body = handler[q].body
      /\ \A q \in Requests \ {r} : handler'[q] = handler[q] /\ Working(q)' = Working(q)
      /\ ~Working(r)'
      /\ handler'[r].step = s /\ handler'[r].response = handler[r].response
  <2>1. s \notin WorkStep
    BY DEF WorkStep
  <2> QED  BY <2>1, RowKept DEF Turns
<1>2. \A q \in Requests : Keyed(q) => RowOf(q) \in Rows
  BY <1>0, RowType
<1>3. Keyed(r) /\ Working(r) /\ RowOf(r) \in Rows
  BY <1>0, <1>2 DEF StepsFit, Working, WorkStep
<1>4. /\ row'[RowOf(r)] = new
      /\ \A k \in Rows : k # RowOf(r) => row'[k] = row[k]
  BY <1>0, <1>3 DEF TypeOK
<1>5. \A q \in Requests \ {r} : Working(q) => RowOf(q) \in Rows /\ RowOf(q) # RowOf(r)
  BY <1>0, <1>2, <1>3 DEF Held, Working
<1>6. row[RowOf(r)] = ClaimedFor(handler[r].body)
  BY <1>0, <1>3 DEF Held
<1>7. Held'
  <2>1. (\A q \in Requests : Working(q) => row[RowOf(q)] = ClaimedFor(handler[q].body))'
    BY <1>0, <1>1, <1>4, <1>5 DEF Held, ClaimedFor
  <2>2. (\A p, q \in Requests : Working(p) /\ Working(q) /\ RowOf(p) = RowOf(q) => p = q)'
    BY <1>0, <1>1 DEF Held
  <2>3. ASSUME NEW k \in Rows, row'[k].state = "claimed"
        PROVE  \E q \in Requests : RowOf(q)' = k /\ (Working(q)' \/ handler'[q].step = "died")
    <3>1. k # RowOf(r)
      BY <1>4, <2>3 DEF Free
    <3>2. PICK q \in Requests : RowOf(q) = k /\ (Working(q) \/ handler[q].step = "died")
      BY <1>0, <1>4, <2>3, <3>1 DEF Held
    <3> QED  BY <1>1, <3>1, <3>2
  <2> QED  BY <2>1, <2>2, <2>3 DEF Held
<1>8. Guarded'
  <2>1. ASSUME NEW k \in Rows, NEW i \in DOMAIN performed[k], performed[k][i].acked
        PROVE  /\ row'[k].state # "free" /\ row'[k].body = performed[k][i].body
               /\ \A q \in Requests : Working(q)' /\ RowOf(q)' = k => handler'[q].step = "complete"
    <3>1. CASE k = RowOf(r)
      BY <1>0, <1>1, <1>3, <1>4, <1>5, <1>6, <2>1, <3>1 DEF Guarded, ClaimedFor
    <3>2. CASE k # RowOf(r)
      BY <1>0, <1>1, <1>4, <2>1, <3>2 DEF Guarded
    <3> QED  BY <3>1, <3>2
  <2> QED  BY <2>1 DEF Guarded
<1>9. Answered'
  <2>1. ASSUME NEW q \in Requests, Keyed(q)', handler'[q].step \in {"complete", "ok", "replay"}
        PROVE  Happened(RowOf(q), handler[q].body, handler[q].response)'
    BY <1>0, <1>1, <1>3, <2>1 DEF Answered, Happened
  <2>2. ASSUME NEW k \in Rows, row'[k].state = "done"
        PROVE  Happened(k, row[k].body, row[k].response)'
    <3>1. CASE k = RowOf(r)
      BY <1>0, <1>3, <1>4, <2>2, <3>1 DEF Answered, Happened, Free
    <3>2. CASE k # RowOf(r)
      BY <1>0, <1>4, <2>2, <3>2 DEF Answered, Happened
    <3> QED  BY <3>1, <3>2
  <2> QED  BY <2>1, <2>2 DEF Answered
<1>10. AcknowledgedOnce'
  BY <1>0 DEF AcknowledgedOnce
<1> QED  BY <1>7, <1>8, <1>9, <1>10
-----------------------------------------------------------------------------
(* The work, and new requests.                                               *)

\* An effect under a key is the first one acknowledged there.
LEMMA PerformsInv ==
  ASSUME Inv, NEW r \in Requests, handler[r].step \in {"append", "start"},
         NEW v \in Nat \ {0}, NEW acked \in BOOLEAN, Performs(r, v, acked)
  PROVE  Held' /\ Guarded' /\ Answered' /\ AcknowledgedOnce'
<1> DEFINE s == CASE acked /\ Keyed(r)   -> "complete"
                  [] acked /\ ~Keyed(r)  -> "ok"
                  [] ~acked /\ Keyed(r)  -> "discard"
                  [] ~acked /\ ~Keyed(r) -> "error"
<1> DEFINE u == IF acked THEN v ELSE 0
<1>0. TypeOK /\ StepsFit /\ Held /\ Guarded /\ Answered /\ AcknowledgedOnce
  BY DEF Inv
<1>t. Turns(r, s, u)
  <2>1. handler' = [handler EXCEPT ![r].response = u, ![r].step = s]
    BY DEF Performs
  <2> HIDE DEF s, u
  <2> QED  BY <1>0, <2>1 DEF TypeOK, Turns
<1>w. handler[r].step \in WorkStep \ {"complete"}
  BY DEF WorkStep
<1>n. CASE ~Keyed(r)
  <2>1. UNCHANGED <<row, performed>>
    BY <1>n DEF Performs
  <2> HIDE DEF s, u
  <2> QED  BY <1>n, <1>t, <2>1, QuietInv
<1>k. CASE Keyed(r)
  <2>1. s = IF acked THEN "complete" ELSE "discard"
    BY <1>k
  <2> HIDE DEF s, u
  <2> DEFINE k == RowOf(r)
             e == [body |-> handler[r].body, response |-> v, acked |-> acked]
             n == Len(performed[k])
  <2>2. /\ \A q \in Requests : RowOf(q)' = RowOf(q) /\ Keyed(q)' = Keyed(q)
                                  /\ handler'[q].body = handler[q].body
        /\ \A q \in Requests \ {r} : handler'[q] = handler[q] /\ Working(q)' = Working(q)
        /\ Working(r)' = (Keyed(r) /\ s \in WorkStep)
        /\ handler'[r].step = s /\ handler'[r].response = u
    BY <1>t, RowKept DEF Turns
  <2>3. Working(r) /\ Working(r)' /\ k \in Rows
    BY <1>0, <1>k, <1>w, <2>1, <2>2, RowType DEF Working, WorkStep
  <2>4. row' = row /\ performed' = [performed EXCEPT ![k] = Append(@, e)]
    BY <1>k DEF Performs
  <2>5. /\ performed[k] \in Seq([body : Amounts, response : Nat \ {0}, acked : BOOLEAN])
        /\ performed \in [Rows -> Seq([body : Amounts, response : Nat \ {0}, acked : BOOLEAN])]
    BY <1>0, <2>3 DEF TypeOK
  <2> HIDE DEF k, e
  <2>6. /\ n \in Nat
        /\ DOMAIN performed[k] = 1 .. n
        /\ DOMAIN performed'[k] = 1 .. n + 1
        /\ \A i \in 1 .. n : performed'[k][i] = performed[k][i]
        /\ performed'[k][n + 1] = e
        /\ \A j \in Rows : j # k => performed'[j] = performed[j]
    BY <2>3, <2>4, <2>5
  <2> HIDE DEF n
  <2>7. \A i \in 1 .. n : ~performed[k][i].acked
    <3>1. handler[r].step # "complete" /\ RowOf(r) = k
      BY DEF k
    <3> QED  BY <1>0, <2>3, <2>6, <3>1 DEF Guarded
  <2>8. e.body = handler[r].body /\ e.response = v /\ e.acked = acked
    BY DEF e
  <2>9. row[k] = ClaimedFor(handler[r].body)
    BY <1>0, <2>3 DEF Held, k
  <2>10. Held'
    <3>1. (\A q \in Requests : Working(q) => row[RowOf(q)] = ClaimedFor(handler[q].body))'
      BY <1>0, <2>2, <2>3, <2>4 DEF Held, ClaimedFor
    <3>2. (\A p, q \in Requests : Working(p) /\ Working(q) /\ RowOf(p) = RowOf(q) => p = q)'
      BY <1>0, <2>2, <2>3 DEF Held
    <3>3. ASSUME NEW j \in Rows, row'[j].state = "claimed"
          PROVE  \E q \in Requests : RowOf(q)' = j /\ (Working(q)' \/ handler'[q].step = "died")
      <4>1. PICK q \in Requests : RowOf(q) = j /\ (Working(q) \/ handler[q].step = "died")
        BY <1>0, <2>4, <3>3 DEF Held
      <4> QED  BY <2>2, <2>3, <4>1
    <3> QED  BY <3>1, <3>2, <3>3 DEF Held
  <2>11. Guarded'
    <3>1. ASSUME NEW j \in Rows, NEW i \in DOMAIN performed'[j], performed'[j][i].acked
          PROVE  /\ row'[j].state # "free" /\ row'[j].body = performed'[j][i].body
                 /\ \A q \in Requests : Working(q)' /\ RowOf(q)' = j => handler'[q].step = "complete"
      <4>1. CASE j # k
        <5>1. RowOf(r) # j
          BY <4>1 DEF k
        <5> QED  BY <1>0, <2>2, <2>4, <2>6, <3>1, <4>1, <5>1 DEF Guarded
      <4>2. CASE j = k
        <5>1. i = n + 1 /\ acked
          <6>1. i \in 1 .. n + 1 /\ performed'[k][i].acked
            BY <2>6, <3>1, <4>2
          <6>2. \A x \in 1 .. n : ~performed'[k][x].acked
            BY <2>6, <2>7
          <6>3. i = n + 1
            <7>1. i \notin 1 .. n
              BY <6>1, <6>2, Zenon
            <7> QED  BY <2>6, <6>1, <7>1
          <6> QED  BY <2>6, <2>8, <6>1, <6>3, Zenon
        <5>2. row'[j].state # "free" /\ row'[j].body = performed'[j][i].body
          BY <2>4, <2>6, <2>8, <2>9, <4>2, <5>1 DEF ClaimedFor
        <5>3. \A q \in Requests : Working(q)' /\ RowOf(q)' = j => q = r
          BY <1>0, <2>2, <2>3, <4>2 DEF Held, k
        <5> QED  BY <2>1, <2>2, <5>1, <5>2, <5>3
      <4> QED  BY <4>1, <4>2
    <3> QED  BY <3>1 DEF Guarded
  <2>12. Answered'
    <3>1. ASSUME NEW j \in Rows, NEW b, NEW w, Happened(j, b, w)
          PROVE  Happened(j, b, w)'
      BY <2>6, <3>1 DEF Happened
    <3>2. ASSUME NEW q \in Requests, Keyed(q)', handler'[q].step \in {"complete", "ok", "replay"}
          PROVE  Happened(RowOf(q), handler[q].body, handler[q].response)'
      <4>1. CASE q = r
        <5>1. acked /\ u = v
          BY <2>1, <2>2, <3>2, <4>1 DEF u
        <5>2. e = [body |-> handler[r].body, response |-> v, acked |-> TRUE]
          BY <5>1 DEF e
        <5>3. RowOf(q)' = k /\ handler'[q].body = handler[r].body /\ handler'[q].response = v
          BY <2>2, <4>1, <5>1 DEF k
        <5>4. n + 1 \in DOMAIN performed'[k]
          BY <2>6
        <5> QED  BY <2>6, <5>2, <5>3, <5>4 DEF Happened
      <4>2. CASE q # r
        <5>1. RowOf(q) \in Rows /\ Happened(RowOf(q), handler[q].body, handler[q].response)
          BY <1>0, <2>2, <3>2, <4>2, RowType DEF Answered
        <5> QED  BY <2>2, <3>1, <4>2, <5>1
      <4> QED  BY <4>1, <4>2
    <3> QED  BY <1>0, <2>4, <3>1, <3>2 DEF Answered
  <2>13. AcknowledgedOnce'
    <3>1. ASSUME NEW j \in Rows, NEW x \in DOMAIN performed'[j], NEW y \in DOMAIN performed'[j], x < y
          PROVE  ~performed'[j][x].acked
      <4>1. CASE j # k
        BY <1>0, <2>6, <3>1, <4>1, Zenon DEF AcknowledgedOnce
      <4>2. CASE j = k
        <5>1. x \in 1 .. n
          BY <2>6, <3>1, <4>2
        <5> QED  BY <2>6, <2>7, <4>2, <5>1, Zenon
      <4> QED  BY <4>1, <4>2
    <3> QED  BY <3>1 DEF AcknowledgedOnce
  <2> QED  BY <2>10, <2>11, <2>12, <2>13
<1> QED  BY <1>n, <1>k

\* A request that was just sent holds nothing yet.
LEMMA SendInv ==
  ASSUME Inv, NEW r \in Requests, NEW i \in Inputs, Send(r, i)
  PROVE  Held' /\ Guarded' /\ Answered' /\ AcknowledgedOnce'
<1>0. TypeOK /\ StepsFit /\ Held /\ Guarded /\ Answered /\ AcknowledgedOnce
  BY DEF Inv
<1>1. /\ \A q \in Requests \ {r} : handler'[q] = handler[q]
      /\ handler'[r].key = i.key
      /\ handler'[r].step = IF i.key = NoKey THEN FirstWork(i.route) ELSE "claim"
      /\ handler[r].step = "unsent"
      /\ row' = row /\ performed' = performed
  BY <1>0 DEF TypeOK, Send
<1>2. /\ \A q \in Requests \ {r} : RowOf(q)' = RowOf(q) /\ Keyed(q)' = Keyed(q)
                                       /\ Working(q)' = Working(q)
      /\ ~Working(r) /\ ~Working(r)'
      /\ Keyed(r)' => handler'[r].step = "claim"
  BY <1>1 DEF RowOf, Keyed, Working, WorkStep
<1>3. Held'
  <2>1. (\A q \in Requests : Working(q) => row[RowOf(q)] = ClaimedFor(handler[q].body))'
    BY <1>0, <1>1, <1>2 DEF Held, ClaimedFor
  <2>2. (\A p, q \in Requests : Working(p) /\ Working(q) /\ RowOf(p) = RowOf(q) => p = q)'
    BY <1>0, <1>2 DEF Held
  <2>3. ASSUME NEW k \in Rows, row'[k].state = "claimed"
        PROVE  \E q \in Requests : RowOf(q)' = k /\ (Working(q)' \/ handler'[q].step = "died")
    <3>1. PICK q \in Requests : RowOf(q) = k /\ (Working(q) \/ handler[q].step = "died")
      BY <1>0, <1>1, <2>3 DEF Held
    <3> QED  BY <1>1, <1>2, <3>1
  <2> QED  BY <2>1, <2>2, <2>3 DEF Held
<1>4. Guarded'
  BY <1>0, <1>1, <1>2 DEF Guarded
<1>5. Answered'
  BY <1>0, <1>1, <1>2 DEF Answered, Happened
<1>6. AcknowledgedOnce'
  BY <1>0, <1>1 DEF AcknowledgedOnce
<1> QED  BY <1>3, <1>4, <1>5, <1>6
-----------------------------------------------------------------------------
(* Types.                                                                    *)

Steps == {"unsent", "claim", "lookup"} \cup WorkStep \cup Answer

HandlerType ==
  [step : Steps, key : Keys \cup {NoKey}, route : Route, body : Amounts \cup {0},
   expected : Nat, response : Nat]

Stepped(h, s, x, v) == [h EXCEPT !.step = s, !.expected = x, !.response = v]

\* A handler keeps its type when it turns.
LEMMA TurnType ==
  ASSUME TypeOK, StepsFit, NEW r \in Requests, NEW s \in Steps, NEW x \in Nat, NEW v \in Nat,
         handler' = [handler EXCEPT ![r] = Stepped(handler[r], s, x, v)],
         handler[r].step # "unsent", s # "unsent",
         s \in {"claim", "lookup", "complete", "discard"} => Keyed(r),
         s = "complete" => v # 0
  PROVE  handler' \in [Requests -> HandlerType] /\ StepsFit' /\ Turns(r, s, v)
<1>1. handler \in [Requests -> HandlerType]
  BY DEF TypeOK, HandlerType, Steps
<1>2. /\ Stepped(handler[r], s, x, v) \in HandlerType
      /\ Stepped(handler[r], s, x, v).step = s
      /\ Stepped(handler[r], s, x, v).response = v
      /\ Stepped(handler[r], s, x, v).key = handler[r].key
      /\ Stepped(handler[r], s, x, v).route = handler[r].route
      /\ Stepped(handler[r], s, x, v).body = handler[r].body
  <2>1. handler[r] \in HandlerType
    BY <1>1
  <2> QED  BY <2>1 DEF HandlerType, Stepped
<1>3. /\ handler' \in [Requests -> HandlerType]
      /\ handler'[r] = Stepped(handler[r], s, x, v)
      /\ \A q \in Requests \ {r} : handler'[q] = handler[q]
  BY <1>1, <1>2
<1>4. Turns(r, s, v)
  BY <1>2, <1>3 DEF Turns
<1>5. StepsFit'
  <2>1. \A q \in Requests : Keyed(q)' = Keyed(q)
    BY <1>4, RowKept
  <2>2. ASSUME NEW q \in Requests
        PROVE  /\ handler'[q].step # "unsent" => handler'[q].body \in Amounts
               /\ handler'[q].step \in {"claim", "lookup", "complete", "discard"} => Keyed(q)'
               /\ handler'[q].step = "complete" => handler'[q].response \in Nat \ {0}
    <3>1. CASE q = r
      BY <1>2, <1>3, <2>1, <3>1 DEF StepsFit
    <3>2. CASE q # r
      BY <1>3, <2>1, <3>2 DEF StepsFit
    <3> QED  BY <3>1, <3>2
  <2> QED  BY <2>2 DEF StepsFit
<1> QED  BY <1>3, <1>4, <1>5

\* GoTo, as a step of one handler.
LEMMA GoToStepped ==
  ASSUME TypeOK, NEW r \in Requests, NEW s, GoTo(r, s)
  PROVE  handler' = [handler EXCEPT ![r] =
                       Stepped(handler[r], s, handler[r].expected, handler[r].response)]
<1>1. handler[r] \in HandlerType
  BY DEF TypeOK, HandlerType, Steps
<1>2. [handler[r] EXCEPT !.step = s] = Stepped(handler[r], s, handler[r].expected, handler[r].response)
  BY <1>1 DEF HandlerType, Stepped
<1> QED  BY <1>2 DEF GoTo

\* A deposit leaves a positive balance.
LEMMA DepositType ==
  ASSUME account \in AccountType, NEW m, m.amount \in Nat \ {0}
  PROVE  /\ Apply(account, "FundsDeposited", m, "none") \in AccountType
         /\ Apply(account, "FundsDeposited", m, "none").available \in Nat \ {0}
<1> DEFINE changed(v, a) == [account EXCEPT !.version = v, !.available = a]
<1>1. Apply(account, "FundsDeposited", m, "none") =
        changed(account.version + 1, account.available + m.amount)
  BY DEF Apply, AccountType
<1>2. account.version + 1 \in Nat /\ account.available + m.amount \in Nat \ {0}
  BY DEF AccountType
<1>3. ASSUME NEW v \in Nat, NEW a \in Nat
      PROVE  changed(v, a) \in AccountType /\ changed(v, a).available = a
  BY DEF AccountType
<1> HIDE DEF changed
<1> QED  BY <1>1, <1>2, <1>3

\* A frozen account is an account.
LEMMA FreezeType ==
  ASSUME account \in AccountType, NEW m
  PROVE  Apply(account, "AccountFrozen", m, "none") \in AccountType
<1> DEFINE changed(v) == [account EXCEPT !.version = v, !.status = "frozen"]
<1>1. Apply(account, "AccountFrozen", m, "none") = changed(account.version + 1)
  BY DEF Apply, AccountType
<1>2. account.version + 1 \in Nat
  BY DEF AccountType
<1>3. ASSUME NEW v \in Nat  PROVE changed(v) \in AccountType
  BY DEF AccountType, AccountStatus
<1> HIDE DEF changed
<1> QED  BY <1>1, <1>2, <1>3
-----------------------------------------------------------------------------
(* Actions.                                                                  *)

RowT == {Free} \cup {ClaimedFor(b) : b \in Amounts}
          \cup [state : {"done"}, body : Amounts, response : Nat \ {0}]

\* The parts the invariant is put together from.
LEMMA Assemble ==
  ASSUME backend' \in Backends, row' \in [Rows -> RowT], account' \in AccountType,
         workflows' \in Nat, handler' \in [Requests -> HandlerType],
         performed' \in [Rows -> Seq([body : Amounts, response : Nat \ {0}, acked : BOOLEAN])],
         StepsFit', Held', Guarded', Answered', AcknowledgedOnce'
  PROVE  Inv'
<1>1. account'.status \in AccountStatus /\ account'.available \in Nat /\ account'.version \in Nat
  BY DEF AccountType
<1>2. TypeOK'
  BY <1>1 DEF TypeOK, HandlerType, Steps, RowT
<1>3. (account \in AccountType)'
  BY DEF AccountType
<1> QED  BY <1>2, <1>3 DEF Inv

\* A step that changes one handler and nothing else.
LEMMA QuietStep ==
  ASSUME Inv, NEW r \in Requests, NEW s \in Steps, NEW x \in Nat, NEW v \in Nat,
         handler' = [handler EXCEPT ![r] = Stepped(handler[r], s, x, v)],
         UNCHANGED <<backend, row, account, workflows, performed>>,
         handler[r].step # "unsent", s \notin {"unsent", "claim", "complete"},
         s \in {"lookup", "discard"} => Keyed(r),
         Keyed(r) => QuietTurn(r, s, v)
  PROVE  Inv'
<1>0. TypeOK /\ StepsFit
  BY DEF Inv
<1>1. handler' \in [Requests -> HandlerType] /\ StepsFit' /\ Turns(r, s, v)
  BY <1>0, TurnType
<1>2. Held' /\ Guarded' /\ Answered' /\ AcknowledgedOnce'
  BY <1>1, QuietInv
<1>3. /\ backend' \in Backends /\ row' \in [Rows -> RowT] /\ account' \in AccountType
      /\ workflows' \in Nat
      /\ performed' \in [Rows -> Seq([body : Amounts, response : Nat \ {0}, acked : BOOLEAN])]
  BY DEF Inv, TypeOK, RowT
<1> QED  BY <1>1, <1>2, <1>3, Assemble

\* An exception of the work.
LEMMA RaisesInv ==
  ASSUME Inv, NEW r \in Requests, handler[r].step \in {"load", "append", "start"}, Raises(r)
  PROVE  Inv'
<1> DEFINE s == IF Keyed(r) THEN "discard" ELSE "error"
<1>0. TypeOK /\ handler[r].expected \in Nat /\ handler[r].response \in Nat
  BY DEF Inv, TypeOK
<1>1. GoTo(r, s) /\ UNCHANGED <<backend, row, account, workflows, performed>>
  BY DEF Raises
<1>2. /\ s \in Steps /\ s \notin {"unsent", "claim", "complete"}
      /\ s \in {"lookup", "discard"} => Keyed(r)
      /\ Keyed(r) => QuietTurn(r, s, handler[r].response)
  BY DEF Steps, WorkStep, Answer, QuietTurn
<1> HIDE DEF s
<1>3. handler' = [handler EXCEPT ![r] =
                    Stepped(handler[r], s, handler[r].expected, handler[r].response)]
  BY <1>0, <1>1, GoToStepped
<1> QED  BY <1>0, <1>1, <1>2, <1>3, QuietStep

\* A claim that meets a row.
LEMMA RefuseInv ==
  ASSUME Inv, NEW r \in Requests, handler[r].step \in {"claim", "lookup"}, Refuse(r),
         UNCHANGED <<backend, account, workflows, performed>>
  PROVE  Inv'
<1> DEFINE s == Classify(r)
           v == IF s = "replay" THEN row[RowOf(r)].response ELSE 0
<1>0. /\ TypeOK /\ StepsFit /\ handler[r] \in HandlerType
      /\ Keyed(r) /\ RowOf(r) \in Rows /\ handler[r].body \in Nat \ {0}
  <2>1. TypeOK /\ StepsFit
    BY DEF Inv
  <2>2. Keyed(r) /\ handler[r].body \in Nat \ {0}
    BY <2>1, KeyAssumption DEF StepsFit
  <2> QED  BY <2>1, <2>2, RowType DEF TypeOK, HandlerType, Steps
<1>1. row[RowOf(r)] \in RowT
  BY <1>0 DEF TypeOK, RowT
<1>2. /\ s \in {"mismatch", "in_progress", "replay"}
      /\ s = "replay" => row[RowOf(r)].state = "done" /\ row[RowOf(r)].body = handler[r].body
      /\ v \in Nat
  BY <1>0, <1>1 DEF Classify, RowT, Free, ClaimedFor
<1>3. handler' = [handler EXCEPT ![r] = Stepped(handler[r], s, handler[r].expected, v)]
  <2>1. [handler[r] EXCEPT !.step = s, !.response = v] = Stepped(handler[r], s, handler[r].expected, v)
    BY <1>0 DEF HandlerType, Stepped
  <2> QED  BY <2>1 DEF Refuse
<1>4. QuietTurn(r, s, v)
  BY <1>2 DEF QuietTurn, WorkStep
<1>5. s \in Steps /\ UNCHANGED <<backend, row, account, workflows, performed>>
  BY <1>2 DEF Steps, Answer, Refuse
<1>6. handler[r].expected \in Nat
  BY <1>0 DEF HandlerType
<1> HIDE DEF s, v
<1> QED  BY <1>2, <1>3, <1>4, <1>5, <1>6, QuietStep

\* A claim of a free row, by either store.
LEMMA ClaimInv ==
  ASSUME Inv, NEW r \in Requests, Claim(r)
  PROVE  Inv'
<1> DEFINE s == FirstWork(handler[r].route)
<1>0. /\ TypeOK /\ StepsFit /\ handler[r].step = "claim" /\ Keyed(r)
      /\ handler[r].expected \in Nat /\ handler[r].response \in Nat
      /\ UNCHANGED <<backend, account, workflows, performed>>
  BY DEF Inv, TypeOK, StepsFit, Claim
<1>1. CASE Insert(r) /\ row[RowOf(r)].state = "free"
  <2>1. GoTo(r, s) /\ row' = [row EXCEPT ![RowOf(r)] = ClaimedFor(handler[r].body)]
    BY <1>1 DEF Insert
  <2>2. s \in WorkStep \ {"complete", "discard"} /\ s \in Steps /\ s # "unsent"
    BY DEF FirstWork, WorkStep, Steps
  <2> HIDE DEF s
  <2>3. handler' = [handler EXCEPT ![r] =
                      Stepped(handler[r], s, handler[r].expected, handler[r].response)]
    BY <1>0, <2>1, GoToStepped
  <2>4. handler' \in [Requests -> HandlerType] /\ StepsFit' /\ Turns(r, s, handler[r].response)
    BY <1>0, <2>2, <2>3, TurnType DEF WorkStep
  <2>5. Held' /\ Guarded' /\ Answered' /\ AcknowledgedOnce'
    BY <1>0, <1>1, <2>1, <2>2, <2>4, InsertInv
  <2>6. row' \in [Rows -> RowT]
    <3>1. row \in [Rows -> RowT] /\ ClaimedFor(handler[r].body) \in RowT
      BY <1>0 DEF TypeOK, RowT, StepsFit
    <3> QED  BY <2>1, <3>1
  <2>7. /\ backend' \in Backends /\ account' \in AccountType /\ workflows' \in Nat
        /\ performed' \in [Rows -> Seq([body : Amounts, response : Nat \ {0}, acked : BOOLEAN])]
    BY <1>0 DEF Inv, TypeOK
  <2> QED  BY <2>4, <2>5, <2>6, <2>7, Assemble
<1>2. CASE Insert(r) /\ row[RowOf(r)].state # "free"
  <2>1. GoTo(r, "lookup") /\ UNCHANGED row
    BY <1>2 DEF Insert
  <2>2. "lookup" \in Steps /\ QuietTurn(r, "lookup", handler[r].response)
    BY <1>0 DEF Steps, QuietTurn, WorkStep
  <2>3. handler' = [handler EXCEPT ![r] =
                      Stepped(handler[r], "lookup", handler[r].expected, handler[r].response)]
    BY <1>0, <2>1, GoToStepped
  <2> QED  BY <1>0, <2>1, <2>2, <2>3, QuietStep
<1>3. CASE Refuse(r)
  BY <1>0, <1>3, RefuseInv
<1> QED  BY <1>1, <1>2, <1>3 DEF Claim

\* complete, and the discard of the except clause.
LEMMA ReleaseStepInv ==
  ASSUME Inv, NEW r \in Requests, Complete(r) \/ Discard(r)
  PROVE  Inv'
<1> DEFINE s == IF handler[r].step = "complete" THEN "ok" ELSE "error"
           new == IF handler[r].step = "complete"
                  THEN [state |-> "done", body |-> handler[r].body, response |-> handler[r].response]
                  ELSE Free
<1>0. /\ TypeOK /\ StepsFit /\ Held /\ handler[r].step \in {"complete", "discard"}
      /\ handler[r].expected \in Nat /\ handler[r].response \in Nat
      /\ UNCHANGED <<backend, account, workflows, performed>>
  BY DEF Inv, TypeOK, Complete, Discard
<1>1. Working(r) /\ RowOf(r) \in Rows /\ handler[r].body \in Amounts
  BY <1>0, RowType DEF StepsFit, Working, WorkStep
<1>2. row[RowOf(r)] = ClaimedFor(handler[r].body)
  BY <1>0, <1>1 DEF Held
<1>3. row' = [row EXCEPT ![RowOf(r)] = new] /\ GoTo(r, s)
  <2>1. CASE Complete(r)
    BY <1>2, <2>1 DEF Complete, ClaimedFor
  <2>2. CASE Discard(r)
    BY <1>2, <2>2 DEF Discard, ClaimedFor
  <2> QED  BY <2>1, <2>2
<1>4. new \in RowT
  BY <1>0, <1>1 DEF RowT, StepsFit
<1>5. s \in Steps /\ s \in {"ok", "error"}
  BY DEF Steps, Answer
<1>6. \/ /\ handler[r].step = "complete" /\ s = "ok"
         /\ new = [state |-> "done", body |-> handler[r].body, response |-> handler[r].response]
      \/ handler[r].step = "discard" /\ s = "error" /\ new = Free
  BY <1>0
<1> HIDE DEF s, new
<1>7. handler' = [handler EXCEPT ![r] =
                    Stepped(handler[r], s, handler[r].expected, handler[r].response)]
  BY <1>0, <1>3, GoToStepped
<1>8. handler' \in [Requests -> HandlerType] /\ StepsFit' /\ Turns(r, s, handler[r].response)
  BY <1>0, <1>5, <1>7, TurnType
<1>9. Held' /\ Guarded' /\ Answered' /\ AcknowledgedOnce'
  BY <1>0, <1>3, <1>6, <1>8, ReleaseInv
<1>10. row' \in [Rows -> RowT]
  <2>1. row \in [Rows -> RowT]
    BY <1>0 DEF TypeOK, RowT
  <2> QED  BY <1>3, <1>4, <2>1
<1>11. /\ backend' \in Backends /\ account' \in AccountType /\ workflows' \in Nat
       /\ performed' \in [Rows -> Seq([body : Amounts, response : Nat \ {0}, acked : BOOLEAN])]
  BY <1>0 DEF Inv, TypeOK
<1> QED  BY <1>8, <1>9, <1>10, <1>11, Assemble

\* An effect of the work.
LEMMA PerformsStepInv ==
  ASSUME Inv, NEW r \in Requests, handler[r].step \in {"append", "start"},
         NEW v \in Nat \ {0}, NEW acked \in BOOLEAN, Performs(r, v, acked),
         account' \in AccountType, workflows' \in Nat
  PROVE  Inv'
<1> DEFINE s == CASE acked /\ Keyed(r)   -> "complete"
                  [] acked /\ ~Keyed(r)  -> "ok"
                  [] ~acked /\ Keyed(r)  -> "discard"
                  [] ~acked /\ ~Keyed(r) -> "error"
           u == IF acked THEN v ELSE 0
           e == [body |-> handler[r].body, response |-> v, acked |-> acked]
           E == [body : Amounts, response : Nat \ {0}, acked : BOOLEAN]
<1>0. TypeOK /\ StepsFit /\ handler[r] \in HandlerType
  BY DEF Inv, TypeOK, HandlerType, Steps
<1>1. handler' = [handler EXCEPT ![r] = Stepped(handler[r], s, handler[r].expected, u)]
  <2>1. handler' = [handler EXCEPT ![r] = [handler[r] EXCEPT !.response = u, !.step = s]]
    BY <1>0 DEF Performs, TypeOK
  <2> HIDE DEF s, u
  <2>2. [handler[r] EXCEPT !.response = u, !.step = s] = Stepped(handler[r], s, handler[r].expected, u)
    BY <1>0 DEF HandlerType, Stepped
  <2> QED  BY <2>1, <2>2
<1>2. /\ s \in Steps /\ s # "unsent" /\ u \in Nat
      /\ s = "complete" => u # 0
      /\ s \in {"claim", "lookup", "complete", "discard"} => Keyed(r)
  BY DEF Steps, WorkStep, Answer
<1> HIDE DEF s, u
<1>3. handler' \in [Requests -> HandlerType] /\ StepsFit'
  <2>1. handler[r].expected \in Nat /\ handler[r].step # "unsent"
    BY <1>0 DEF HandlerType
  <2> QED  BY <1>0, <1>1, <1>2, <2>1, TurnType
<1>4. Held' /\ Guarded' /\ Answered' /\ AcknowledgedOnce'
  BY PerformsInv
<1>5. performed' \in [Rows -> Seq(E)]
  <2>1. performed \in [Rows -> Seq(E)] /\ e \in E
    BY <1>0 DEF TypeOK, StepsFit
  <2>2. CASE Keyed(r)
    <3>1. performed' = [performed EXCEPT ![RowOf(r)] = Append(performed[RowOf(r)], e)]
      BY <2>2 DEF Performs
    <3>2. RowOf(r) \in Rows
      BY <1>0, <2>2, RowType
    <3> HIDE DEF e, E
    <3> QED  BY <2>1, <3>1, <3>2
  <2>3. CASE ~Keyed(r)
    BY <2>1, <2>3 DEF Performs
  <2> QED  BY <2>2, <2>3
<1>6. backend' \in Backends /\ row' \in [Rows -> RowT]
  BY <1>0 DEF Performs, TypeOK, RowT
<1> QED  BY <1>3, <1>4, <1>5, <1>6, Assemble

\* The work of both routes (accounts.py, transfers.py).
LEMMA WorkInv ==
  ASSUME Inv, NEW r \in Requests, Load(r) \/ AppendDeposit(r) \/ StartTransfer(r)
  PROVE  Inv'
<1>0. TypeOK /\ StepsFit /\ account \in AccountType /\ workflows \in Nat /\ handler[r] \in HandlerType
  BY DEF Inv, TypeOK, HandlerType, Steps
<1>1. CASE Load(r)
  <2>0. handler[r].step = "load"
    BY <1>1 DEF Load
  <2>1. CASE Raises(r)
    BY <2>0, <2>1, RaisesInv
  <2>2. CASE /\ handler' = [handler EXCEPT ![r].step = "append", ![r].expected = account.version]
             /\ UNCHANGED <<backend, row, account, workflows, performed>>
    <3>1. [handler[r] EXCEPT !.step = "append", !.expected = account.version]
            = Stepped(handler[r], "append", account.version, handler[r].response)
      BY <1>0 DEF HandlerType, Stepped
    <3>2. handler' = [handler EXCEPT ![r] =
                        Stepped(handler[r], "append", account.version, handler[r].response)]
      BY <2>2, <3>1
    <3>3. account.version \in Nat /\ handler[r].response \in Nat
      BY <1>0 DEF AccountType, HandlerType
    <3> DEFINE s == "append"
    <3>4. /\ s \in Steps /\ s \notin {"unsent", "claim", "complete", "lookup", "discard"}
          /\ QuietTurn(r, s, handler[r].response)
          /\ handler' = [handler EXCEPT ![r] =
                           Stepped(handler[r], s, account.version, handler[r].response)]
      BY <2>0, <3>2 DEF Steps, QuietTurn, WorkStep
    <3> HIDE DEF s
    <3> QED  BY <2>0, <2>2, <3>3, <3>4, QuietStep
  <2> QED  BY <1>1, <2>1, <2>2 DEF Load
<1>2. CASE AppendDeposit(r)
  <2> DEFINE after == Apply(account, "FundsDeposited", Money(r), "none")
  <2>0. handler[r].step = "append"
    BY <1>2 DEF AppendDeposit
  <2>1. CASE Raises(r)
    BY <2>0, <2>1, RaisesInv
  <2>2. CASE /\ Performs(r, after.available, TRUE) \/ Performs(r, after.available, FALSE)
             /\ account' = after
             /\ UNCHANGED workflows
    <3>1. Money(r).amount \in Nat \ {0}
      BY <1>0, <2>0, KeyAssumption DEF Money, StepsFit
    <3>2. after \in AccountType /\ after.available \in Nat \ {0}
      BY <1>0, <3>1, DepositType
    <3> HIDE DEF after
    <3> QED  BY <1>0, <2>0, <2>2, <3>2, PerformsStepInv
  <2> QED  BY <1>2, <2>1, <2>2 DEF AppendDeposit
<1>3. CASE StartTransfer(r)
  <2>0. handler[r].step = "start"
    BY <1>3 DEF StartTransfer
  <2>1. CASE Raises(r)
    BY <2>0, <2>1, RaisesInv
  <2>2. CASE /\ Performs(r, workflows + 1, TRUE) \/ Performs(r, workflows + 1, FALSE)
             /\ workflows' = workflows + 1
             /\ UNCHANGED account
    <3>1. workflows + 1 \in Nat \ {0} /\ workflows' \in Nat /\ account' \in AccountType
      BY <1>0, <2>2
    <3> QED  BY <2>0, <2>2, <3>1, PerformsStepInv
  <2> QED  BY <1>3, <2>1, <2>2 DEF StartTransfer
<1> QED  BY <1>1, <1>2, <1>3

\* A handler that ends early.
LEMMA DieInv ==
  ASSUME Inv, NEW r \in Requests, Die(r)
  PROVE  Inv'
<1>1. /\ TypeOK /\ handler[r].expected \in Nat /\ handler[r].response \in Nat
      /\ GoTo(r, "died") /\ handler[r].step \in WorkStep
      /\ UNCHANGED <<backend, row, account, workflows, performed>>
  BY DEF Inv, TypeOK, Die
<1>2. /\ "died" \in Steps /\ handler[r].step # "unsent"
      /\ QuietTurn(r, "died", handler[r].response)
  BY <1>1 DEF Steps, Answer, QuietTurn, WorkStep
<1>3. handler' = [handler EXCEPT ![r] =
                    Stepped(handler[r], "died", handler[r].expected, handler[r].response)]
  BY <1>1, GoToStepped
<1> QED  BY <1>1, <1>2, <1>3, QuietStep

\* A new request.
LEMMA SendStepInv ==
  ASSUME Inv, NEW r \in Requests, NEW i \in Inputs, Send(r, i)
  PROVE  Inv'
<1> DEFINE h == [step |-> IF i.key = NoKey THEN FirstWork(i.route) ELSE "claim",
                 key |-> i.key, route |-> i.route, body |-> i.body,
                 expected |-> 0, response |-> 0]
<1>0. /\ TypeOK /\ StepsFit /\ handler \in [Requests -> HandlerType]
      /\ UNCHANGED <<backend, row, account, workflows, performed>>
      /\ handler' = [handler EXCEPT ![r] = h]
  BY DEF Inv, TypeOK, HandlerType, Steps, Send
<1>1. i \in [key : Keys \cup {NoKey}, route : Route, body : Amounts]
  BY KeyAssumption
<1>2. /\ h \in HandlerType /\ h.body \in Amounts /\ h.key = i.key
      /\ h.step \notin {"lookup", "complete", "discard"}
      /\ h.step = "claim" => i.key # NoKey
  BY <1>1 DEF HandlerType, Steps, WorkStep, FirstWork
<1> HIDE DEF h
<1>3. handler' \in [Requests -> HandlerType]
  BY <1>0, <1>2
<1>4. StepsFit'
  BY <1>0, <1>2 DEF StepsFit, Keyed
<1>5. Held' /\ Guarded' /\ Answered' /\ AcknowledgedOnce'
  BY SendInv
<1>6. /\ backend' \in Backends /\ row' \in [Rows -> RowT] /\ account' \in AccountType
      /\ workflows' \in Nat
      /\ performed' \in [Rows -> Seq([body : Amounts, response : Nat \ {0}, acked : BOOLEAN])]
  BY <1>0 DEF Inv, TypeOK, RowT
<1> QED  BY <1>3, <1>4, <1>5, <1>6, Assemble

\* The relations say nothing about the account.
LEMMA FrameInv ==
  ASSUME Inv, UNCHANGED <<backend, row, workflows, handler, performed>>, account' \in AccountType
  PROVE  Inv'
<1>0. /\ StepsFit /\ Held /\ Guarded /\ Answered /\ AcknowledgedOnce
      /\ row' = row /\ handler' = handler /\ performed' = performed
  BY DEF Inv
<1>1. StepsFit'
  BY <1>0 DEF StepsFit, Keyed
<1>2. Held'
  BY <1>0 DEF Held, Working, Keyed, RowOf
<1>3. Guarded'
  BY <1>0 DEF Guarded, Working, Keyed, RowOf
<1>4. Answered'
  BY <1>0 DEF Answered, Happened, Keyed, RowOf
<1>5. AcknowledgedOnce'
  BY <1>0 DEF AcknowledgedOnce
<1>6. /\ backend' \in Backends /\ row' \in [Rows -> RowT] /\ handler' \in [Requests -> HandlerType]
      /\ workflows' \in Nat
      /\ performed' \in [Rows -> Seq([body : Amounts, response : Nat \ {0}, acked : BOOLEAN])]
  BY DEF Inv, TypeOK, RowT, HandlerType, Steps
<1> QED  BY <1>1, <1>2, <1>3, <1>4, <1>5, <1>6, Assemble
-----------------------------------------------------------------------------
\* Before any request nothing is claimed and nothing has happened.
LEMMA InitInv == Init => Inv
<1> SUFFICES ASSUME Init PROVE Inv
  OBVIOUS
<1>1. account \in AccountType
  <2> DEFINE acc == NewAccount("EUR")
             changed(v) == [acc EXCEPT !.version = v, !.status = "open"]
  <2>1. acc \in AccountType
    BY DEF NewAccount, AccountType, AccountStatus
  <2>2. account = Apply(acc, "AccountOpened", [amount |-> 0, currency |-> "EUR"], "none")
    BY DEF Init
  <2> HIDE DEF acc
  <2>3. account = changed(acc.version + 1)
    BY <2>1, <2>2 DEF Apply, AccountType
  <2>4. acc.version + 1 \in Nat
    BY <2>1 DEF AccountType
  <2>5. ASSUME NEW v \in Nat  PROVE changed(v) \in AccountType
    BY <2>1 DEF AccountType, AccountStatus
  <2> HIDE DEF changed
  <2> QED  BY <2>3, <2>4, <2>5
<1>2. \A k \in Rows : row[k] = Free /\ performed[k] = <<>>
  BY DEF Init
<1>3. \A r \in Requests : handler[r] = Unsent
  BY DEF Init
<1>4. TypeOK
  <2>1. backend \in Backends /\ workflows \in Nat
    BY DEF Init
  <2>2. row \in [Rows -> RowT]
    BY DEF Init, RowT
  <2>3. Unsent \in HandlerType
    BY DEF Unsent, HandlerType, Steps, Route
  <2>4. handler \in [Requests -> HandlerType]
    BY <2>3 DEF Init
  <2>5. performed \in [Rows -> Seq([body : Amounts, response : Nat \ {0}, acked : BOOLEAN])]
    BY DEF Init
  <2> QED  BY <1>1, <2>1, <2>2, <2>4, <2>5 DEF TypeOK, RowT, HandlerType, Steps, AccountType
<1>5. StepsFit
  BY <1>3 DEF StepsFit, Unsent
<1>6. Held
  BY <1>2, <1>3 DEF Held, Working, Keyed, Unsent, Free
<1>7. Guarded /\ AcknowledgedOnce
  BY <1>2 DEF Guarded, AcknowledgedOnce
<1>8. Answered
  BY <1>2, <1>3 DEF Answered, Keyed, Unsent, Free
<1> QED  BY <1>1, <1>4, <1>5, <1>6, <1>7, <1>8 DEF Inv

\* Every step keeps the invariant.
LEMMA NextInv == Inv /\ [Next]_vars => Inv'
<1> SUFFICES ASSUME Inv, [Next]_vars PROVE Inv'
  OBVIOUS
<1>1. account \in AccountType
  BY DEF Inv
<1>2. ASSUME NEW r \in Requests, HandlerStep(r)  PROVE Inv'
  <2>1. CASE Lookup(r)
    BY <2>1, RefuseInv DEF Lookup
  <2> QED
    BY <1>2, <2>1, ClaimInv, WorkInv, ReleaseStepInv DEF HandlerStep
<1>3. ASSUME NEW r \in Requests, Die(r)  PROVE Inv'
  BY <1>3, DieInv
<1>4. ASSUME NEW r \in Requests, NEW i \in Inputs, Send(r, i)  PROVE Inv'
  BY <1>4, SendStepInv
<1>5. CASE FreezeAccount
  BY <1>1, <1>5, FreezeType, FrameInv DEF FreezeAccount
<1>6. CASE UNCHANGED vars
  BY <1>1, <1>6, FrameInv DEF vars
<1> QED  BY <1>2, <1>3, <1>4, <1>5, <1>6 DEF Next, Idle

\* The inductive invariant holds in every reachable state.
THEOREM Invariance == Spec => []Inv
BY InitInv, NextInv, PTL DEF Spec

\* A claim belongs to one request, and is left behind only by a handler that died (claim,
\* complete and discard of idempotency.py, which name the key and not the claimant).
THEOREM ClaimsExclusive == Spec => []ClaimHeld
<1>1. Inv => ClaimHeld
  <2> SUFFICES ASSUME Inv, NEW k \in Rows
               PROVE  /\ \A r \in Holders(k) : row[k] = ClaimedFor(handler[r].body)
                                               /\ Holders(k) = {r}
                      /\ Abandoned(k) => \E r \in Requests : RowOf(r) = k /\ handler[r].step = "died"
    BY DEF ClaimHeld
  <2>1. Held
    BY DEF Inv
  <2>2. \A r : r \in Holders(k) <=> r \in Requests /\ Working(r) /\ RowOf(r) = k
    BY DEF Holders, Working
  <2>3. ASSUME NEW r \in Holders(k)
        PROVE  row[k] = ClaimedFor(handler[r].body) /\ Holders(k) = {r}
    <3>1. r \in Requests /\ Working(r) /\ RowOf(r) = k
      BY <2>2
    <3>2. \A q : q \in Holders(k) <=> q = r
      BY <2>1, <2>2, <3>1 DEF Held
    <3>3. Holders(k) = {r}
      BY <3>2
    <3> QED  BY <2>1, <3>1, <3>3 DEF Held
  <2>4. ASSUME Abandoned(k)
        PROVE  \E r \in Requests : RowOf(r) = k /\ handler[r].step = "died"
    <3>1. PICK r \in Requests : RowOf(r) = k /\ (Working(r) \/ handler[r].step = "died")
      BY <2>1, <2>4 DEF Held, Abandoned
    <3>2. ~Working(r)
      BY <2>2, <2>4, <3>1 DEF Abandoned
    <3> QED  BY <3>1, <3>2
  <2> QED  BY <2>3, <2>4
<1> QED  BY <1>1, Invariance, PTL

\* Once an effect was acknowledged no other follows under its key, whatever dies and
\* whoever retries (the claim before the work in accounts.py and transfers.py).
THEOREM NeverRepeated == Spec => []AcknowledgedOnce
<1>1. Inv => AcknowledgedOnce
  BY DEF Inv
<1> QED  BY <1>1, Invariance, PTL

\* The first answer and every replay tell the response of an acknowledged effect of the
\* same request.
THEOREM AnswersAgree == Spec => []AnswersTrue
<1>1. Inv => AnswersTrue
  BY DEF Inv, Answered, Happened, AnswersTrue
<1> QED  BY <1>1, Invariance, PTL

\* A mismatch is never told to a request that has succeeded under the key, although the
\* Postgres claim inserts and selects in two statements.
THEOREM MismatchTrue == Spec => MismatchMeansOther
<1> DEFINE Fair(r) ==
      \A i \in DOMAIN performed[RowOf(r)] :
        performed[RowOf(r)][i].acked => performed[RowOf(r)][i].body # handler[r].body
<1>1. ASSUME Inv, NEW r \in Requests, handler[r].step \in {"claim", "lookup"}, Classify(r) = "mismatch"
      PROVE  Fair(r)
  <2>1. TypeOK /\ StepsFit /\ Guarded /\ Keyed(r)
    BY <1>1 DEF Inv, StepsFit
  <2>2. RowOf(r) \in Rows
    BY <2>1, RowType
  <2>3. row[RowOf(r)].body # handler[r].body
    BY <1>1 DEF Classify
  <2> QED  BY <2>1, <2>2, <2>3 DEF Guarded
<1>2. ASSUME Inv, Next, NEW r \in Requests, handler'[r].step = "mismatch", handler[r].step # "mismatch"
      PROVE  handler[r].step \in {"claim", "lookup"} /\ Classify(r) = "mismatch"
  <2>0. handler \in [Requests -> HandlerType]
    BY <1>2 DEF Inv, TypeOK, HandlerType, Steps
  <2>1. ASSUME NEW q \in Requests, NEW s, GoTo(q, s), s # "mismatch"  PROVE FALSE
    BY <1>2, <2>0, <2>1 DEF GoTo, HandlerType
  <2>2. ASSUME NEW q \in Requests, Refuse(q), handler[q].step \in {"claim", "lookup"}
        PROVE  handler[r].step \in {"claim", "lookup"} /\ Classify(r) = "mismatch"
    <3>1. q = r /\ handler'[r].step = Classify(r)
      <4> DEFINE s == Classify(q)
                 v == IF s = "replay" THEN row[RowOf(q)].response ELSE 0
      <4>1. handler' = [handler EXCEPT ![q].step = s, ![q].response = v] /\ s = Classify(q)
        BY <2>2 DEF Refuse
      <4> HIDE DEF s, v
      <4>2. q = r
        BY <1>2, <2>0, <4>1 DEF HandlerType
      <4>3. handler'[r].step = s
        BY <2>0, <4>1, <4>2 DEF HandlerType
      <4> QED  BY <4>1, <4>2, <4>3
    <3> QED  BY <1>2, <2>2, <3>1
  <2>3. ASSUME NEW q \in Requests, Raises(q)  PROVE FALSE
    BY <2>1, <2>3 DEF Raises
  <2>4. ASSUME NEW q \in Requests, NEW v, NEW acked \in BOOLEAN, Performs(q, v, acked)  PROVE FALSE
    <3> DEFINE s == CASE acked /\ Keyed(q)   -> "complete"
                      [] acked /\ ~Keyed(q)  -> "ok"
                      [] ~acked /\ Keyed(q)  -> "discard"
                      [] ~acked /\ ~Keyed(q) -> "error"
               u == IF acked THEN v ELSE 0
    <3>1. handler' = [handler EXCEPT ![q].response = u, ![q].step = s]
      BY <2>4 DEF Performs
    <3>2. s # "mismatch"
      OBVIOUS
    <3> HIDE DEF s, u
    <3> QED  BY <1>2, <2>0, <3>1, <3>2 DEF HandlerType
  <2>5. ASSUME NEW q \in Requests, Claim(q)
        PROVE  handler[r].step \in {"claim", "lookup"} /\ Classify(r) = "mismatch"
    BY <2>1, <2>2, <2>5 DEF Claim, Insert, FirstWork
  <2>6. ASSUME NEW q \in Requests, Lookup(q)
        PROVE  handler[r].step \in {"claim", "lookup"} /\ Classify(r) = "mismatch"
    BY <2>2, <2>6 DEF Lookup
  <2>7. ASSUME NEW q \in Requests, Complete(q) \/ Discard(q) \/ Die(q)  PROVE FALSE
    BY <2>1, <2>7 DEF Complete, Discard, Die
  <2>8. ASSUME NEW q \in Requests, AppendDeposit(q) \/ StartTransfer(q)  PROVE FALSE
    BY <2>3, <2>4, <2>8 DEF AppendDeposit, StartTransfer
  <2>9. ASSUME NEW q \in Requests, Load(q)  PROVE FALSE
    <3>1. CASE Raises(q)
      BY <2>3, <3>1
    <3>2. CASE handler' = [handler EXCEPT ![q].step = "append", ![q].expected = account.version]
      BY <1>2, <2>0, <3>2 DEF HandlerType
    <3> QED  BY <2>9, <3>1, <3>2 DEF Load
  <2>10. ASSUME NEW q \in Requests, NEW i \in Inputs, Send(q, i)  PROVE FALSE
    <3>1. handler'[q].step # "mismatch" /\ \A p \in Requests \ {q} : handler'[p] = handler[p]
      BY <2>0, <2>10 DEF Send, FirstWork
    <3> QED  BY <1>2, <3>1
  <2>11. CASE FreezeAccount \/ Idle
    BY <1>2, <2>11 DEF FreezeAccount, Idle, vars
  <2> QED
    BY <1>2, <2>5, <2>6, <2>7, <2>8, <2>9, <2>10, <2>11 DEF Next, HandlerStep
<1>3. Inv /\ [Next]_vars =>
        [\A r \in Requests : handler'[r].step = "mismatch" /\ handler[r].step # "mismatch" => Fair(r)]_vars
  BY <1>1, <1>2
<1> QED  BY <1>3, Invariance, PTL DEF Spec, MismatchMeansOther
=============================================================================
