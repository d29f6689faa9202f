---------------------------- MODULE MCIdempotency ----------------------------
(* An instance of Idempotency: one key on both routes, two deposits that      *)
(* differ in their amount, and a deposit without a key.                       *)
EXTENDS Idempotency

CONSTANT K

MCInputs ==
  {[key |-> K, route |-> "deposit", body |-> b] : b \in Amounts}
    \cup {[key |-> K, route |-> "transfer", body |-> 1],
          [key |-> NoKey, route |-> "deposit", body |-> 1]}
=============================================================================
