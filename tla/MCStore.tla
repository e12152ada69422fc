------------------------------- MODULE MCStore -------------------------------
(***************************************************************************)
(* Instances of IdempotencyStore for TLC: which values each transaction    *)
(* inserts.                                                                *)
(***************************************************************************)
EXTENDS IdempotencyStore

CONSTANTS t1, t2, t3, t4, k, o

\* As in service.ts: two atomic-outbox deliveries of one request insert the
\* key and then the outbox row, two more claim the key alone.
OrderedPlan == (t1 :> <<k, o>>) @@ (t2 :> <<k, o>>) @@ (t3 :> <<k>>) @@ (t4 :> <<k>>)

\* A client that reserves in the opposite order, and one that takes only the
\* second value.
CrossedPlan == (t1 :> <<k, o>>) @@ (t2 :> <<o, k>>) @@ (t3 :> <<o>>)

\* t2 collides on the second of its two values only.
SecondCollides == (t1 :> <<o>>) @@ (t2 :> <<k, o>>) @@ (t3 :> <<k>>)

\* One value, three claimants.
OneKey == (t1 :> <<k>>) @@ (t2 :> <<k>>) @@ (t3 :> <<k>>)
=============================================================================
