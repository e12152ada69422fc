------------------------------ MODULE MCService ------------------------------
(***************************************************************************)
(* Instances of Service for TLC.  Three deliveries on the wire: two of one *)
(* request and a third that differs in one thing.                          *)
(***************************************************************************)
EXTENDS Service, TLC

CONSTANTS d1, d2, d3, r1, ann, bob, key1, key2, ord1, ord2

Req(p, key, o, a) == [principal |-> p, key |-> key, order |-> o, amount |-> a]

Retry == Req(ann, key1, ord1, 1)
And(third) == d1 :> Retry @@ d2 :> Retry @@ d3 :> third

\* The third reuses the key for another amount, ...
ChangedBody == And(Req(ann, key1, ord1, 2))
\* ... is another customer's who generated the same key, ...
CrossPrincipal == And(Req(bob, key1, ord2, 1))
\* ... is the same request sent once more, ...
ThirdRetry == And(Retry)
\* ... has no key at all, ...
WithoutKey == And(Req(ann, NoKey, ord1, 1))
\* ... or is malformed.
Malformed == And(Req(ann, key1, ord1, 0))
\* One request, and another order without a key, once well formed.
TwoOrders == d1 :> Retry @@ d2 :> Req(ann, NoKey, ord2, 1) @@ d3 :> Req(ann, NoKey, ord2, 0)

\* Another customer's key, or order, makes the same text with the other name, as
\* a and b:c do with a:b and c.
Text == [k \in AllKeys |-> IF k \in {<<bob, key2>>, <<bob, ord2>>} THEN <<ann, key1>> ELSE k]
OneText(key) == d1 :> Retry @@ d2 :> Req(bob, key, ord2, 1) @@ d3 :> Req(ann, key1, ord1, 0)

Matrix == {<<"lease-recovering", ChangedBody>>, <<"lease", CrossPrincipal>>,
           <<"lease", ChangedBody>>, <<"lease", TwoOrders>>, <<"memo-before", ThirdRetry>>,
           <<"memo-after", Malformed>>, <<"memo-after", TwoOrders>>,
           <<"natural-key", WithoutKey>>, <<"none", Malformed>>,
           <<"atomic-outbox", ChangedBody>>, <<"atomic-outbox", TwoOrders>>,
           <<"atomic-outbox", OneText(NoKey)>>}

\* The cell in which two customers share a text.
Shared == {<<"lease-recovering", OneText(key2)>>}

\* Only lease-recovering reads the clock.
Clock == [s \in Strategies |-> IF s = "lease-recovering" THEN 4 ELSE 0]
=============================================================================
