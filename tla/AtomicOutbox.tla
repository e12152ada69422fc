---------------------------- MODULE AtomicOutbox ----------------------------
(***************************************************************************)
(* The rest of the eighth handler of idempotency/service.ts: the key, the  *)
(* charge and the intent to call the gateway are committed together, and a *)
(* consumer (drainOutbox, run inline by the handler and again by the       *)
(* reconciler) calls the gateway for every pending row it read, then marks *)
(* the row in a transaction of its own.                                    *)
(*                                                                         *)
(* An outbox row is named by the delivery that wrote it, and unique by its *)
(* dedup key (store.ts:74): its insert may wait or collide as the key's    *)
(* does.  The charge row carries no index value; inserting it has no       *)
(* effect of its own before the commit.                                    *)
(***************************************************************************)
EXTENDS ChargeService

VARIABLES
  outbox,      \* [Deliveries -> {"none", "pending", "sent", "failed"}]
  outboxLock,  \* who has inserted a row with that dedup key and not settled
  todo,        \* the pending rows a drain read and has not come to yet
  current      \* the row a drain has called the gateway for

outboxVars == <<outbox, outboxLock, todo, current>>

OutboxInit ==
  /\ outbox = [d \in Deliveries |-> "none"]
  /\ outboxLock = [t \in DedupKeys |-> NoOne]
  /\ todo = [w \in Processes |-> {}]
  /\ current = [w \in Processes |-> NoOne]

-----------------------------------------------------------------------------
\* The committed outbox rows with this dedup key.
Enqueued(dedup) == {d \in Deliveries : outbox[d] # "none" /\ DedupOf(d) = dedup}

\* Insert the intent after the key.  The handler takes a collision for one of
\* the key and rolls back; but a refused second insert has taken the first one's
\* reservation off the list (store.ts:294), and nobody releases it any more.
InsertIntent(d) ==
  /\ pc[d] = "claimed" /\ Uses({"atomic-outbox"}) /\ outboxLock[DedupOf(d)] = NoOne
  /\ \/ /\ Enqueued(DedupOf(d)) = {}
        /\ outboxLock' = [outboxLock EXCEPT ![DedupOf(d)] = d]
        /\ Goto(d, "queued")
     \/ /\ Enqueued(DedupOf(d)) # {}
        /\ Goto(d, "held")
        /\ UNCHANGED outboxLock
  /\ UNCHANGED <<keys, charges, keyLock, orderLock, now, gwOk, outbox, todo, current, gatewayVars>>

Settled(d) == /\ keyLock' = [keyLock EXCEPT ![KeyOf(d)] = NoOne]
              /\ outboxLock' = [outboxLock EXCEPT ![DedupOf(d)] = NoOne]

\* Slip: the charge is left to a second transaction.
CommitKeyFirst(d) ==
  /\ pc[d] = "queued"
  /\ keys' = [keys EXCEPT ![KeyOf(d)] = ClaimRow(d)]
  /\ outbox' = [outbox EXCEPT ![d] = "pending"]
  /\ Settled(d)
  /\ Goto(d, "drain")
  /\ UNCHANGED <<charges, orderLock, now, gwOk, todo, current, gatewayVars>>

\* One commit for the key, the charge and the outbox row.
CommitAll(d) ==
  /\ pc[d] = "queued"
  /\ keys' = [keys EXCEPT ![KeyOf(d)] = ClaimRow(d)]
  /\ charges' = charges \union {ChargeRow(d)}
  /\ outbox' = [outbox EXCEPT ![d] = "pending"]
  /\ Settled(d)
  /\ Goto(d, "drain")
  /\ UNCHANGED <<orderLock, now, gwOk, todo, current, gatewayVars>>

-----------------------------------------------------------------------------
\* Slip: a consumer that drains only what its own process wrote.
DrainOwn(w) ==
  /\ pc[w] \in {"drain", "idle"} /\ Uses({"atomic-outbox"})
  /\ todo' = [todo EXCEPT ![w] = {d \in Deliveries : d = w /\ outbox[d] = "pending"}]
  /\ Goto(w, "sending")
  /\ UNCHANGED <<keys, charges, keyLock, orderLock, now, outbox, outboxLock, current, gwOk, gatewayVars>>

\* drainOutbox: read the pending rows ...
Pending == {d \in Deliveries : outbox[d] = "pending"}

DrainRead(w) ==
  /\ pc[w] \in {"drain", "idle"} /\ Uses({"atomic-outbox"})
  /\ todo' = [todo EXCEPT ![w] = Pending]
  /\ Goto(w, "sending")
  /\ UNCHANGED <<keys, charges, keyLock, orderLock, now, outbox, outboxLock, current, gwOk, gatewayVars>>

\* ... call the gateway for each, with the row's dedup key ...
DrainCall(w) ==
  /\ pc[w] = "sending"
  /\ \E row \in todo[w], ok \in BOOLEAN :
       /\ GatewayCharge(row, DedupOf(row), ok)
       /\ current' = [current EXCEPT ![w] = row]
       /\ gwOk' = [gwOk EXCEPT ![w] = ok]
  /\ Goto(w, "marking")
  /\ UNCHANGED <<keys, charges, keyLock, orderLock, now, outbox, outboxLock, todo>>

\* The loop's locals go out of scope.
Forget(w) == current' = [current EXCEPT ![w] = NoOne] /\ gwOk' = [gwOk EXCEPT ![w] = FALSE]

\* ... and mark it, whoever else may have marked it meanwhile.
DrainMark(w) ==
  /\ pc[w] = "marking"
  /\ outbox' = [outbox EXCEPT ![current[w]] = IF gwOk[w] THEN "sent" ELSE "failed"]
  /\ todo' = [todo EXCEPT ![w] = @ \ {current[w]}]
  /\ Forget(w)
  /\ Goto(w, "sending")
  /\ UNCHANGED <<keys, charges, keyLock, orderLock, now, outboxLock, gatewayVars>>

\* The list is done: the handler answers, the reconciler waits for its next run.
DrainDone(w) ==
  /\ pc[w] = "sending" /\ todo[w] = {}
  /\ IF w \in Deliveries THEN Answer(w, Charged(w)) ELSE Goto(w, "idle")
  /\ UNCHANGED <<keys, charges, keyLock, orderLock, now, gwOk, outboxVars, gatewayVars>>

Drain(w) == DrainRead(w) \/ DrainCall(w) \/ DrainMark(w) \/ DrainDone(w)
=============================================================================
