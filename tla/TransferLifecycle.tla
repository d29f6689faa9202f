-------------------------- MODULE TransferLifecycle --------------------------
(***************************************************************************)
(* What the saga promises about one transfer, whatever is retried, lost,   *)
(* timed out or frozen: the facts it leaves on other streams (its effects) *)
(* are append-only and happen in causal order and only in certain          *)
(* statuses, and the recorded status moves along the legal edges and never *)
(* claims an effect that did not happen.  The claims about Failed are      *)
(* weaker than the documentation's, because the code does not keep those.  *)
(***************************************************************************)
EXTENDS Transfer

CONSTANT Transfers

VARIABLES status, effects

lvars == <<status, effects>>

Effect == {"hold", "journal", "debit", "credit", "refund", "release", "reversal"}

\* What must have happened before an effect may.
Prerequisite ==
  [hold |-> {}, journal |-> {"hold"}, debit |-> {"hold", "journal"}, credit |-> {"debit"},
   refund |-> {"debit"}, release |-> {"hold"}, reversal |-> {"journal"}]

\* The recorded statuses in which an effect may still happen.
Stage ==
  [hold     |-> {"initiated", "failed"},
   journal  |-> {"held", "failed"},
   debit    |-> {"posted", "failed"},
   credit   |-> {"posted", "needs_reconciliation", "failed", "reconciled"},
   refund   |-> {"needs_reconciliation", "completed", "reconciled"},
   release  |-> {"held", "posted", "failed"},
   reversal |-> {"posted", "needs_reconciliation", "completed", "failed"}]

\* The effects a recorded status vouches for.
Evidence ==
  [none |-> {}, initiated |-> {}, held |-> {"hold"}, posted |-> {"hold", "journal"},
   completed |-> {"debit", "credit"}, failed |-> {}, needs_reconciliation |-> {"debit"},
   reconciled |-> {"debit", "refund"}]

LifecycleInit ==
  /\ status = [t \in Transfers |-> "none"]
  /\ effects = [t \in Transfers |-> {}]

TakeEffect(t, e) ==
  /\ status[t] \in Stage[e]
  /\ e \notin effects[t]
  /\ Prerequisite[e] \subseteq effects[t]
  /\ effects' = [effects EXCEPT ![t] = @ \cup {e}]
  /\ UNCHANGED status

Record(t, e) ==
  /\ status[t] \in RecordableFrom[e]
  /\ status' = [status EXCEPT ![t] = StatusAfter[e]]
  /\ Evidence[StatusAfter[e]] \subseteq effects[t]
  /\ UNCHANGED effects

LifecycleNext ==
  \E t \in Transfers : \/ \E e \in Effect : TakeEffect(t, e)
                       \/ \E e \in TransferEvent : Record(t, e)

LifecycleSpec == LifecycleInit /\ [][LifecycleNext]_lvars
=============================================================================
