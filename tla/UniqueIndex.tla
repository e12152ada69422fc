---------------------------- MODULE UniqueIndex ----------------------------
(***************************************************************************)
(* What idempotency/store.ts promises of a unique index (its header, point *)
(* 2): an insert of a value that another open transaction has inserted     *)
(* neither fails nor succeeds until that transaction settles; then it      *)
(* fails if the value was committed and proceeds if it was not.            *)
(*                                                                         *)
(* No queue, no wake-up and no reservation table appear here: a blocked    *)
(* insert is one whose step is not enabled.                                *)
(***************************************************************************)
EXTENDS Naturals

CONSTANTS Txns,     \* transactions
          Values    \* index values

VARIABLES owns,     \* owns[t]: the values t has inserted and not yet settled
          rows,     \* rows[v]: committed rows that carry the value v
          refused   \* refused[t]: t is open and an insert of its was refused

vars == <<owns, rows, refused>>

Init == /\ owns = [t \in Txns |-> {}]
        /\ rows = [v \in Values |-> 0]
        /\ refused = [t \in Txns |-> FALSE]

\* The insert succeeds: nobody has the value, committed or not.
Take(t, v) == /\ rows[v] = 0
              /\ \A u \in Txns : v \notin owns[u]
              /\ owns' = [owns EXCEPT ![t] = @ \union {v}]
              /\ UNCHANGED <<rows, refused>>

\* The insert fails, and only because the value is committed.
Refuse(t, v) == /\ rows[v] > 0
                /\ refused' = [refused EXCEPT ![t] = TRUE]
                /\ UNCHANGED <<owns, rows>>

\* Everything the transaction inserted becomes durable at once.
Commit(t) == /\ owns' = [owns EXCEPT ![t] = {}]
             /\ rows' = [v \in Values |-> IF v \in owns[t] THEN rows[v] + 1 ELSE rows[v]]
             /\ refused' = [refused EXCEPT ![t] = FALSE]

\* A rollback or a crash: none of it does.
Abandon(t) == /\ owns' = [owns EXCEPT ![t] = {}]
              /\ refused' = [refused EXCEPT ![t] = FALSE]
              /\ UNCHANGED rows

Next == \E t \in Txns : \/ \E v \in Values : Take(t, v) \/ Refuse(t, v)
                        \/ Commit(t)
                        \/ Abandon(t)

Spec == Init /\ [][Next]_vars
=============================================================================
