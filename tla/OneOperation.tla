---------------------------- MODULE OneOperation ----------------------------
(***************************************************************************)
(* What an idempotency key is for (idempotency/service.ts): the first      *)
(* request accepted under a key says what operation the key stands for,    *)
(* and from then on the key stands for nothing else; its payment is        *)
(* decided by the gateway once, and booked once, or more than once where   *)
(* that is all the manner promises; and whoever asks under the key is told *)
(* what became of that operation.                                          *)
(*                                                                         *)
(* No row, lease, clock, lock or transaction appears here, and nobody      *)
(* dies: a delivery that did is one that hears nothing.  The manners       *)
(* differ in whether the charge is booked before the payment or after it,  *)
(* in whether a request under a key is compared with what it means, and in *)
(* whether one delivery at most books it: "unchecked" books once and       *)
(* compares nothing; "checked" compares, and each delivery that has been   *)
(* given the key may book (idempotency/README.md:171-178 counts two charge *)
(* rows of one gateway effect); "committed-first" compares and books once. *)
(* Where nothing is promised, anything may happen.                         *)
(***************************************************************************)
CONSTANTS Deliveries, Keys, Operations

VARIABLES manner,   \* "unchecked", "checked", "committed-first", or "nothing" is promised
          asked,    \* asked[d]: [key, op, valid]
          meaning,  \* meaning[k]: the operation k stands for, as a set: {} before
          effects,  \* what the gateway decided: [key, op, ok, ref]
          booked,   \* booked[k]: the charge rows under k: [by, op], by a delivery
          heard     \* heard[d]: what d was told

vars == <<manner, asked, meaning, effects, booked, heard>>

Init ==
  /\ manner \in {"unchecked", "checked", "committed-first", "nothing"}
  /\ meaning = [k \in Keys |-> {}]
  /\ effects = {}
  /\ booked = [k \in Keys |-> {}]
  /\ heard = [d \in Deliveries |-> "nothing"]

Decided(k, ok) == \E e \in effects : e.key = k /\ e.ok = ok

\* The first valid request under a key says what it means; committed first, it is
\* booked in the same instant.
Bind(d) ==
  LET k == asked[d].key
      op == asked[d].op IN
  /\ asked[d].valid /\ meaning[k] = {}
  /\ meaning' = [meaning EXCEPT ![k] = {op}]
  /\ booked' = IF manner = "committed-first"
                 THEN [booked EXCEPT ![k] = {[by |-> d, op |-> op]}] ELSE booked
  /\ UNCHANGED <<effects, heard>>

\* The gateway decides the payment of a key: once, and for what the key means.
Decide ==
  /\ \E e \in effects' \ effects :
       /\ effects' = effects \union {e}
       /\ e.key \in Keys /\ meaning[e.key] = {e.op}
       /\ \A f \in effects : f.key # e.key
       /\ manner = "committed-first" => \E row \in booked[e.key] : row.op = e.op
  /\ UNCHANGED <<meaning, booked, heard>>

\* Otherwise a delivery that asked for what the key means books it when the money
\* has moved; unchecked, the first one that does is the only one.
Book(d) ==
  LET k == asked[d].key
      op == asked[d].op IN
  /\ manner # "committed-first" /\ Decided(k, TRUE) /\ op \in meaning[k]
  /\ manner = "unchecked" => booked[k] = {}
  /\ booked' = [booked EXCEPT ![k] = @ \union {[by |-> d, op |-> op]}]
  /\ UNCHANGED <<meaning, effects, heard>>

\* An answer is about the key's operation, and says what has become of it.
Hear(d) ==
  LET k == asked[d].key
      what == heard'[d] IN
  /\ heard[d] = "nothing" /\ what \in {"charged", "declined", "conflict", "busy", "invalid"}
  /\ \/ what = "invalid" /\ ~asked[d].valid
     \/ what = "charged" /\ booked[k] # {}
     \/ what = "declined" /\ manner # "committed-first" /\ Decided(k, FALSE)
     \/ what = "busy" /\ manner # "committed-first" /\ meaning[k] # {}
     \/ what = "conflict" /\ meaning[k] # {}
  /\ what \in {"charged", "declined", "busy"} /\ manner # "unchecked" => asked[d].op \in meaning[k]
  /\ what = "conflict" => manner # "unchecked" /\ asked[d].op \notin meaning[k]
  /\ heard' = [heard EXCEPT ![d] = what]
  /\ UNCHANGED <<meaning, effects, booked>>

Next == /\ \/ manner = "nothing"
           \/ \E d \in Deliveries : Bind(d) \/ Book(d) \/ Hear(d)
           \/ Decide
        /\ UNCHANGED <<manner, asked>>

Spec == Init /\ [][Next]_vars
=============================================================================
