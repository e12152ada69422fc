---------------------------- MODULE ChargeService ----------------------------
(***************************************************************************)
(* The handlers of idempotency/service.ts: none (and retry-backoff, which  *)
(* is the same handler), natural-key, memo-after, memo-before, lease and   *)
(* lease-recovering, which answer after the gateway, and of atomic-outbox  *)
(* the part before its commit.  Module AtomicOutbox has the rest of it;    *)
(* module Service puts the handlers, the deaths and the clock together.    *)
(* Each constant delivery is one HTTP request handled once; a retry is     *)
(* another delivery.                                                       *)
(*                                                                         *)
(* The store is the one UniqueIndex promises and IdempotencyStore          *)
(* implements: an insert of a value somebody else holds is not enabled. A  *)
(* handler suspends at every store and gateway call, so each transaction's *)
(* inserts and its commit are separate steps, other deliveries run in      *)
(* between, and a delivery may die between any two.                        *)
(***************************************************************************)
EXTENDS PaymentGateway, FiniteSets, Functions

CONSTANTS Deliveries,  \* requests on the wire
          Reconcilers, \* processes that only drain the outbox
          Principals, Keys, Orders, Amounts,
          NoKey,       \* a request without an Idempotency-Key header
          NoOne,       \* no delivery: an index value nobody has reserved
          NoRow,       \* no idempotency_keys row
          Joined,      \* `${principal}:${key}`: the text a scope and a key make
          Cells,       \* <<strategy, request>>: the cells of the matrix to run
          LeaseTTL,    \* LEASE_TTL_MS, in ticks
          KeyTTL,      \* KEY_TTL_MS, in ticks
          MaxTime      \* bound on the injected clock, for each strategy

Strategies == {"none", "natural-key", "memo-after", "memo-before", "lease", "lease-recovering",
               "atomic-outbox"}

Requests == [principal : Principals, key : Keys \union {NoKey}, order : Orders, amount : Amounts]

ASSUME CellAssumption ==
  /\ Cells \subseteq Strategies \X [Deliveries -> Requests]
  /\ NoKey \notin Keys /\ NoOne \notin Deliveries
  /\ Deliveries \intersect Reconcilers = {}

ASSUME TimeAssumption ==
  /\ LeaseTTL \in Nat /\ KeyTTL \in Nat /\ LeaseTTL <= KeyTTL
  /\ MaxTime \in [Strategies -> Nat] /\ Amounts \subseteq Int

VARIABLES
  strategy,  \* the handler that serves every request of this behaviour
  request,   \* request[d]: [principal, key, order, amount]
  keys,      \* committed idempotency_keys: [AllKeys -> row or NoRow]
  charges,   \* committed charges rows: [by, principal, order, amount]
  keyLock,   \* who has inserted a key row and not settled
  orderLock, \* who has inserted a charges row with that request_key (natural-key)
  now,       \* the injected clock
  pc,        \* where each handler, or reconciler, is suspended
  gwOk,      \* the gateway's answer it is holding
  answer     \* the response sent to the client

serviceVars == <<keys, charges, keyLock, orderLock, now, pc, gwOk, answer>>
cell == <<strategy, request>>

-----------------------------------------------------------------------------
GlobalScope == "*"
Scopes == Principals \union {GlobalScope}
AllKeys == Scopes \X (Keys \union Orders)
Processes == Deliveries \union Reconcilers

\* What a row of idempotency_keys may hold; a row that is not there is none of them.
KeyRows == [state : {"in-progress", "done"}, mark : Orders \X Amounts, created : Nat,
            status : {0, 201, 502}, charge : Deliveries \union {NoOne},
            amount : Amounts \union {0}]

ASSUME SentinelAssumption == NoRow \notin KeyRows

\* Different pairs may make one text: nothing keeps the separator out of a name.
DedupKeys == {Joined[k] : k \in AllKeys}

ASSUME JoinAssumption == NoDedup \notin DedupKeys

Uses(names) == strategy \in names
Claims == Uses({"memo-before", "lease", "lease-recovering", "atomic-outbox"})

\* atomic-outbox takes the order id for a request without a key.
HasKey(d) == request[d].key # NoKey \/ Uses({"atomic-outbox"})

\* (scope, key) of the row this handler looks up and inserts.
KeyOf(d) == <<IF strategy = "memo-after" THEN GlobalScope ELSE request[d].principal,
              IF request[d].key = NoKey THEN request[d].order ELSE request[d].key>>

\* The payload's identity, for the handlers that record it.
Fingerprint(d) == <<request[d].order, request[d].amount>>

\* The gateway's dedup key, for the handlers that pass one: a text, not a pair.
DedupOf(d) ==
  IF Uses({"lease-recovering", "atomic-outbox"}) /\ HasKey(d) THEN Joined[KeyOf(d)] ELSE NoDedup

\* Responses.  `charge` is the delivery whose charge row the body names.
Charged(d) == [status |-> 201, charge |-> d, amount |-> request[d].amount, replayed |-> FALSE]
Refusal(status) == [status |-> status, charge |-> NoOne, amount |-> 0, replayed |-> FALSE]
NoAnswer == Refusal(0)
ReplayOf(row) == [status |-> row.status, charge |-> row.charge, amount |-> row.amount, replayed |-> TRUE]

\* The row a claim or a memo inserts; response fields as recorded in it.  Only
\* lease-recovering and atomic-outbox ever look at the mark.
Row(d, state, response) ==
  [state |-> state, mark |-> Fingerprint(d), created |-> now,
   status |-> response.status, charge |-> response.charge, amount |-> response.amount]

\* What memo-before records before it knows: 201, without a charge id.
Presumed(d) == [Charged(d) EXCEPT !.charge = NoOne]

ClaimRow(d) == CASE strategy = "memo-before" -> Row(d, "done", Presumed(d))
                 [] strategy = "atomic-outbox" -> Row(d, "done", Charged(d))
                 [] OTHER -> Row(d, "in-progress", NoAnswer)

HandlerInit ==
  /\ GatewayInit
  /\ \E c \in Cells : strategy = c[1] /\ request = c[2]
  /\ keys = [k \in AllKeys |-> NoRow]
  /\ charges = {}
  /\ keyLock = [k \in AllKeys |-> NoOne]
  /\ orderLock = [o \in Orders |-> NoOne]
  /\ now = 0
  /\ pc = [w \in Processes |-> IF w \in Deliveries THEN "new" ELSE "idle"]
  /\ gwOk = [w \in Processes |-> FALSE]
  /\ answer = [d \in Deliveries |-> NoAnswer]

Goto(w, place) == pc' = [pc EXCEPT ![w] = place] /\ UNCHANGED answer
Answer(d, response) == /\ answer' = [answer EXCEPT ![d] = response]
                       /\ pc' = [pc EXCEPT ![d] = "answered"]

-----------------------------------------------------------------------------
\* The request arrives: validation, then the handler's first store call.
Receive(d) ==
  /\ pc[d] = "new"
  /\ \/ request[d].amount <= 0 /\ Answer(d, Refusal(400))
     \/ request[d].amount > 0 /\
          Goto(d, IF ~HasKey(d) \/ Uses({"none", "natural-key"}) THEN "charge"
                  ELSE IF Claims THEN "claim" ELSE "lookup")
  /\ UNCHANGED <<keys, charges, keyLock, orderLock, now, gwOk, gatewayVars>>

\* memo-after: read the key, replay what it recorded.
Lookup(d) ==
  /\ pc[d] = "lookup"
  /\ IF keys[KeyOf(d)] # NoRow THEN Answer(d, ReplayOf(keys[KeyOf(d)])) ELSE Goto(d, "charge")
  /\ UNCHANGED <<keys, charges, keyLock, orderLock, now, gwOk, gatewayVars>>

\* Slip: a unique index that is only looked at when a row commits.
ClaimUnreserved(d) ==
  /\ pc[d] = "claim"
  /\ Goto(d, IF keys[KeyOf(d)] = NoRow THEN "claimed" ELSE "held")
  /\ UNCHANGED <<keys, keyLock, charges, orderLock, now, gwOk, gatewayVars>>

\* Claim the key: insert, which waits for an open holder and then finds the
\* value free or committed.
ClaimInsert(d) ==
  /\ pc[d] = "claim" /\ keyLock[KeyOf(d)] = NoOne
  /\ \/ /\ keys[KeyOf(d)] = NoRow
        /\ keyLock' = [keyLock EXCEPT ![KeyOf(d)] = d]
        /\ Goto(d, "claimed")
     \/ /\ keys[KeyOf(d)] # NoRow
        /\ Goto(d, "held")
        /\ UNCHANGED keyLock
  /\ UNCHANGED <<keys, charges, orderLock, now, gwOk, gatewayVars>>

ClaimCommit(d) ==
  /\ pc[d] = "claimed" /\ ~Uses({"atomic-outbox"})
  /\ keys' = [keys EXCEPT ![KeyOf(d)] = ClaimRow(d)]
  /\ keyLock' = [keyLock EXCEPT ![KeyOf(d)] = NoOne]
  /\ Goto(d, "charge")
  /\ UNCHANGED <<charges, orderLock, now, gwOk, gatewayVars>>

\* The claim collided: what the committed row says decides.
\* Slip: >= for >.
ExpiredAtTTL(row) == now - row.created >= (IF row.state = "done" THEN KeyTTL ELSE LeaseTTL)
Expired(row) == now - row.created > (IF row.state = "done" THEN KeyTTL ELSE LeaseTTL)

\* Slip: no fingerprint comparison.
ReadHeldUnmarked(d) ==
  LET row == keys[KeyOf(d)] IN
  /\ pc[d] = "held"
  /\ \/ Expired(row) /\ Goto(d, "seize")
     \/ ~Expired(row) /\ Answer(d, IF row.state = "done" THEN ReplayOf(row) ELSE Refusal(409))
  /\ UNCHANGED <<keys, charges, keyLock, orderLock, now, gwOk, gatewayVars>>

ReadHeld(d) ==
  LET row == keys[KeyOf(d)] IN
  /\ pc[d] = "held"
  /\ \/ row = NoRow /\ Answer(d, Refusal(500))
     \/ row # NoRow /\ strategy = "memo-before" /\ Answer(d, ReplayOf(row))
     \/ row # NoRow /\ strategy = "lease" /\
          Answer(d, IF row.state = "done" THEN ReplayOf(row) ELSE Refusal(409))
     \/ row # NoRow /\ strategy = "atomic-outbox" /\
          Answer(d, IF row.mark # Fingerprint(d) THEN Refusal(422) ELSE ReplayOf(row))
     \/ row # NoRow /\ strategy = "lease-recovering" /\
          \/ row.mark # Fingerprint(d) /\ Answer(d, Refusal(422))
          \/ row.mark = Fingerprint(d) /\ Expired(row) /\ Goto(d, "seize")
          \/ row.mark = Fingerprint(d) /\ ~Expired(row) /\
               Answer(d, IF row.state = "done" THEN ReplayOf(row) ELSE Refusal(409))
  /\ UNCHANGED <<keys, charges, keyLock, orderLock, now, gwOk, gatewayVars>>

\* takeOver: rewrite the row, whatever has become of it since it was read.
Seize(d) ==
  /\ pc[d] = "seize"
  /\ keys' = [keys EXCEPT ![KeyOf(d)] = Row(d, "in-progress", NoAnswer)]
  /\ Goto(d, "charge")
  /\ UNCHANGED <<charges, keyLock, orderLock, now, gwOk, gatewayVars>>

-----------------------------------------------------------------------------
\* applyCharge: insert the row (only natural-key gives it an index value) ...
Ordered(d) == strategy = "natural-key"
SameOrder(d) == {c \in charges : c.order = request[d].order}

ChargeInsert(d) ==
  /\ pc[d] = "charge"
  /\ \/ /\ ~Ordered(d)
        /\ Goto(d, "gateway")
        /\ UNCHANGED orderLock
     \/ /\ Ordered(d) /\ orderLock[request[d].order] = NoOne
        /\ SameOrder(d) = {}
        /\ orderLock' = [orderLock EXCEPT ![request[d].order] = d]
        /\ Goto(d, "gateway")
     \/ /\ Ordered(d) /\ orderLock[request[d].order] = NoOne
        /\ SameOrder(d) # {}
        /\ Goto(d, "collided")
        /\ UNCHANGED orderLock
  /\ UNCHANGED <<keys, charges, keyLock, now, gwOk, gatewayVars>>

\* natural-key answers a duplicate with the charge that is there.
ReadCharge(d) ==
  /\ pc[d] = "collided"
  /\ \/ \E c \in SameOrder(d) :
          Answer(d, [status |-> 200, charge |-> c.by, amount |-> c.amount, replayed |-> TRUE])
     \/ SameOrder(d) = {} /\ Answer(d, Refusal(500))
  /\ UNCHANGED <<keys, charges, keyLock, orderLock, now, gwOk, gatewayVars>>

\* ... call the gateway ...
CallGateway(d) ==
  /\ pc[d] = "gateway"
  /\ \E ok \in BOOLEAN : /\ GatewayCharge(d, DedupOf(d), ok)
                         /\ gwOk' = [gwOk EXCEPT ![d] = ok]
  /\ Goto(d, "settle")
  /\ UNCHANGED <<keys, charges, keyLock, orderLock, now>>

\* ... and commit the row, or roll it back when the gateway declined.
ChargeRow(d) == [by |-> d, principal |-> request[d].principal,
                 order |-> request[d].order, amount |-> request[d].amount]

Outcome(d) == IF gwOk[d] THEN Charged(d) ELSE Refusal(502)

\* Slip: a declined charge is committed.
SettleRegardless(d) ==
  /\ pc[d] = "settle"
  /\ charges' = charges \union {ChargeRow(d)}
  /\ orderLock' = [o \in Orders |-> IF orderLock[o] = d THEN NoOne ELSE orderLock[o]]
  /\ Goto(d, IF ~HasKey(d) \/ Uses({"none", "natural-key"}) THEN "reply"
             ELSE IF Claims THEN "finish" ELSE "memo")
  /\ UNCHANGED <<keys, keyLock, now, gwOk, gatewayVars>>

SettleCharge(d) ==
  /\ pc[d] = "settle"
  /\ charges' = IF gwOk[d] THEN charges \union {ChargeRow(d)} ELSE charges
  /\ orderLock' = [o \in Orders |-> IF orderLock[o] = d THEN NoOne ELSE orderLock[o]]
  /\ Goto(d, IF ~HasKey(d) \/ Uses({"none", "natural-key"}) THEN "reply"
             ELSE IF Claims THEN "finish" ELSE "memo")
  /\ UNCHANGED <<keys, keyLock, now, gwOk, gatewayVars>>

-----------------------------------------------------------------------------
\* The claimed key gets the outcome, success or not.
Finish(d) ==
  /\ pc[d] = "finish"
  /\ keys' = [keys EXCEPT ![KeyOf(d)] =
                [@ EXCEPT !.state = "done", !.status = Outcome(d).status,
                          !.charge = Outcome(d).charge, !.amount = Outcome(d).amount]]
  /\ Goto(d, "reply")
  /\ UNCHANGED <<charges, keyLock, orderLock, now, gwOk, gatewayVars>>

\* Slip: the memo is an upsert.
MemoUpsert(d) ==
  /\ pc[d] = "memo" /\ keyLock[KeyOf(d)] = NoOne
  /\ keyLock' = [keyLock EXCEPT ![KeyOf(d)] = d]
  /\ Goto(d, "memoed")
  /\ UNCHANGED <<keys, charges, orderLock, now, gwOk, gatewayVars>>

\* memo-after inserts its memo; a collision there is an unhandled error.
MemoInsert(d) ==
  /\ pc[d] = "memo" /\ keyLock[KeyOf(d)] = NoOne
  /\ \/ /\ keys[KeyOf(d)] = NoRow
        /\ keyLock' = [keyLock EXCEPT ![KeyOf(d)] = d]
        /\ Goto(d, "memoed")
     \/ /\ keys[KeyOf(d)] # NoRow
        /\ Answer(d, Refusal(500))
        /\ UNCHANGED keyLock
  /\ UNCHANGED <<keys, charges, orderLock, now, gwOk, gatewayVars>>

MemoCommit(d) ==
  /\ pc[d] = "memoed"
  /\ keys' = [keys EXCEPT ![KeyOf(d)] = Row(d, "done", Outcome(d))]
  /\ keyLock' = [keyLock EXCEPT ![KeyOf(d)] = NoOne]
  /\ Goto(d, "reply")
  /\ UNCHANGED <<charges, orderLock, now, gwOk, gatewayVars>>

\* The last commit has returned; a death before this point answers nothing.
Reply(d) ==
  /\ pc[d] = "reply"
  /\ Answer(d, Outcome(d))
  /\ UNCHANGED <<keys, charges, keyLock, orderLock, now, gwOk, gatewayVars>>

-----------------------------------------------------------------------------
\* Slip: a dead connection keeps its locks.
DieHolding(w) ==
  /\ pc[w] \notin {"new", "answered", "dead", "idle"}
  /\ pc' = [pc EXCEPT ![w] = IF w \in Deliveries THEN "dead" ELSE "idle"]
  /\ UNCHANGED <<keys, charges, keyLock, orderLock, now, gwOk, answer, gatewayVars>>

\* In the transaction that inserts the key.
Inserting(w) == pc[w] \in {"claimed", "queued", "memoed"}

\* A process dies: no answer, its open transaction abandoned, the reservations
\* of that released, what it committed stays.  A reconciler is started again; a
\* handler is not.
Die(w) ==
  /\ pc[w] \notin {"new", "answered", "dead", "idle"}
  /\ pc' = [pc EXCEPT ![w] = IF w \in Deliveries THEN "dead" ELSE "idle"]
  /\ keyLock' = [k \in AllKeys |-> IF keyLock[k] = w /\ Inserting(w) THEN NoOne ELSE keyLock[k]]
  /\ orderLock' = [o \in Orders |-> IF orderLock[o] = w THEN NoOne ELSE orderLock[o]]
  /\ UNCHANGED <<keys, charges, now, gwOk, answer, gatewayVars>>

\* Clock.advance, by the client's retry delay.
Tick ==
  /\ now < MaxTime[strategy]
  /\ now' = now + 1
  /\ UNCHANGED <<keys, charges, keyLock, orderLock, pc, gwOk, answer, gatewayVars>>

Handle(d) == \/ Receive(d) \/ Lookup(d) \/ ClaimInsert(d) \/ ClaimCommit(d) \/ ReadHeld(d)
             \/ Seize(d) \/ ChargeInsert(d) \/ ReadCharge(d) \/ CallGateway(d)
             \/ SettleCharge(d) \/ Finish(d) \/ MemoInsert(d) \/ MemoCommit(d) \/ Reply(d)
=============================================================================
