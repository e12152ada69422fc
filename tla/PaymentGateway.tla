--------------------------- MODULE PaymentGateway ---------------------------
(***************************************************************************)
(* The payment gateway of idempotency/gateway.ts: somebody else's process. *)
(* A call is appended to its ledger outside every transaction; a call that *)
(* carries a dedup key it has already answered gets the same answer, be it *)
(* a decline, and moves nothing.                                           *)
(***************************************************************************)
EXTENDS Integers

CONSTANTS NoDedup,      \* the caller passed no dedup key
          MayDecline    \* the callers whose charge may be refused

VARIABLES calls,        \* committed gateway_calls: [ref, dedup, by, ok]
          issued        \* how many calls were issued

gatewayVars == <<calls, issued>>

GatewayInit == calls = {} /\ issued = 0

\* Slip: the dedup key is recorded but never looked up.
ForgetsDedup(dedup) == {}

\* What the gateway remembers of a dedup key.
Recorded(dedup) == {c \in calls : dedup # NoDedup /\ c.dedup = dedup}

\* gateway.charge for caller d, answered with ok.
GatewayCharge(d, dedup, ok) ==
  \/ /\ Recorded(dedup) # {}
     /\ \E c \in Recorded(dedup) : ok = c.ok
     /\ UNCHANGED gatewayVars
  \/ /\ Recorded(dedup) = {}
     /\ ok \/ d \in MayDecline
     /\ calls' = calls \union {[ref |-> issued + 1, dedup |-> dedup, by |-> d, ok |-> ok]}
     /\ issued' = issued + 1

\* Money that moved: a decline is an attempt the customer never sees.
MoneyMoved == {c \in calls : c.ok}
=============================================================================
