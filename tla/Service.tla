------------------------------- MODULE Service -------------------------------
(***************************************************************************)
(* The charge endpoint of idempotency/ as the harness runs it: one         *)
(* strategy, a few requests on the wire, every interleaving of their       *)
(* handlers, of the processes that die and of the clock, and for           *)
(* atomic-outbox a reconciler that drains what was left behind.            *)
(***************************************************************************)
EXTENDS AtomicOutbox

vars == <<serviceVars, outboxVars, gatewayVars, cell>>

Init == HandlerInit /\ OutboxInit

\* What one process may do next.
Step(w) ==
  \/ w \in Deliveries /\ Handle(w) /\ UNCHANGED outboxVars
  \/ w \in Deliveries /\ (InsertIntent(w) \/ CommitAll(w))
  \/ Drain(w)

\* The drain a dead process was in the middle of is forgotten with it.
Death(w) ==
  /\ Die(w)
  /\ todo' = [todo EXCEPT ![w] = {}]
  /\ current' = [current EXCEPT ![w] = NoOne]
  /\ outboxLock' = [t \in DedupKeys |-> IF outboxLock[t] = w THEN NoOne ELSE outboxLock[t]]
  /\ UNCHANGED outbox

\* One behaviour is one cell: nothing changes the strategy or the requests.
Next == /\ UNCHANGED cell
        /\ \/ Tick /\ UNCHANGED outboxVars
           \/ \E w \in Processes : Step(w) \/ Death(w)

Spec == Init /\ [][Next]_vars

\* A handler that has been entered goes on; requests, deaths and time are not
\* owed.  The reconciler runs again and again, and of its deaths only finitely
\* many come before it gets through a list: strong fairness of its last steps.
Fairness ==
  /\ \A d \in Deliveries : WF_vars(pc[d] # "new" /\ UNCHANGED cell /\ Step(d))
  /\ \A w \in Reconcilers :
       /\ WF_vars(UNCHANGED cell /\ Step(w))
       /\ \A row \in Deliveries :
            /\ SF_vars(UNCHANGED cell /\ DrainCall(w) /\ current'[w] = row)
            /\ SF_vars(UNCHANGED cell /\ DrainMark(w) /\ current[w] = row)

FairSpec == Spec /\ Fairness

-----------------------------------------------------------------------------
SameKey(d, e) == HasKey(d) /\ HasKey(e) /\ KeyOf(d) = KeyOf(e)

\* Past its claim and not yet answered.
Working(d) == HasKey(d) /\ pc[d] \in {"charge", "gateway", "settle", "finish", "reply"}

Told(d) == answer[d].status \in {200, 201}

\* lease-recovering and atomic-outbox: the money of one idempotency key moves
\* once, whatever deaths, take-overs, expiries and repeated drains its
\* deliveries meet (service.ts:527-529, 606-608).
MoneyMovedOnce ==
  Uses({"lease-recovering", "atomic-outbox"}) =>
    \A b, c \in MoneyMoved : SameKey(b.by, c.by) => b = c

\* No two operations of this cell make one dedup text.
Apart == \A d, e \in Deliveries :
           DedupOf(d) # NoDedup /\ DedupOf(d) = DedupOf(e) => KeyOf(d) = KeyOf(e)

\* Two customers who each asked for a charge are charged each (hazards.ts:11-15):
\* behind every committed charge row is a gateway call that succeeded for its own
\* operation; atomic-outbox commits first and asks later.
OwnMoney ==
  ~Uses({"atomic-outbox"}) =>
    \A c \in charges : \E m \in MoneyMoved :
      m.by = c.by \/ (Uses({"lease-recovering"}) /\ SameKey(m.by, c.by))

\* No phantom charge (service.ts:177-181), where operations have texts of their own.
ChargeBackedByMoney == OwnMoney \/ ~Apart

\* What a client is told.  The constraint fired, so the row is there: nobody is
\* answered lost_key or lost_charge (memo-after's 500 is its unhandled memo
\* collision; an outbox row may collide with another operation's of one text).
\* Told it was charged: by a lease, it is named a committed charge of its own; by
\* lease-recovering and atomic-outbox, one for the order and the amount it asked
\* for, since the fingerprint refuses every other replay.
ToldTheTruth ==
  \A d \in Deliveries :
    /\ answer[d].status = 500 => Uses({"memo-after"}) \/ ~Apart
    /\ Uses({"lease", "lease-recovering", "atomic-outbox"}) /\ Told(d) =>
         \E c \in charges :
           /\ c.by = answer[d].charge /\ c.principal = request[d].principal
           /\ ~Uses({"lease"}) => /\ c = [ChargeRow(d) EXCEPT !.by = c.by]
                                  /\ answer[d].amount = request[d].amount

\* At most one delivery of a key is past its claim at a time; a lease that can
\* expire promises that until the first one does.
OneWorkerPerKey ==
  (Claims /\ (Uses({"lease-recovering"}) => now <= LeaseTTL)) =>
    \A d, e \in Deliveries : Working(d) /\ Working(e) /\ SameKey(d, e) => d = e

\* One operation, one charge row: memo-before, lease and atomic-outbox know it
\* by its key, natural-key by its order, whoever asks and with whatever key.
OneChargeEach ==
  \A b, c \in charges :
    \/ Uses({"memo-before", "lease", "atomic-outbox"}) /\ SameKey(b.by, c.by)
    \/ Uses({"natural-key"}) /\ b.order = c.order
    => b = c

\* memo-after, lease and atomic-outbox: the answer recorded for a key is what
\* every later replay gets (memo-before amends its guess, lease-recovering lets
\* keys expire).
RecordedAnswerStable ==
  [][Uses({"memo-after", "lease", "atomic-outbox"}) =>
       \A k \in AllKeys : keys[k] # NoRow /\ keys[k].state = "done" => keys'[k] = keys[k]]_keys

\* A delivery that has been received is answered, or its process dies, and
\* stays so: no insert waits for ever on a reservation.  (Where two operations
\* share a text, one that was left behind may be waited for.)
EveryDeliveryEnds == <>[]((\A d \in Deliveries : pc[d] \in {"new", "answered", "dead"}) \/ ~Apart)

\* atomic-outbox: nothing leaves this process until the database has agreed the
\* operation happened; behind every gateway call is a committed charge
\* (service.ts:597).
NothingLeavesUncommitted ==
  Uses({"atomic-outbox"}) => \A m \in calls : \E c \in charges : c.by = m.by

\* A pending row is always somebody's to pick up: every committed intent
\* reaches the gateway, however the process that wrote it ended.
EveryIntentIsSent == <>[](Pending = {})

-----------------------------------------------------------------------------
\* What lease, lease-recovering and atomic-outbox promise of an idempotency key,
\* for the requests that have one, where operations have texts of their own.  The
\* other strategies promise less.
Promises == Uses({"lease", "lease-recovering", "atomic-outbox"})
Kept(d) == Promises /\ HasKey(d)

Manner == CASE strategy = "lease" /\ Apart -> "unchecked"
            [] strategy = "lease-recovering" /\ Apart -> "checked"
            [] strategy = "atomic-outbox" /\ Apart -> "committed-first"
            [] OTHER -> "nothing"

Asked == [d \in Deliveries |->
            [key |-> KeyOf(d), op |-> Fingerprint(d), valid |-> request[d].amount > 0]]

\* A key stands for what its row is marked with.
Meaning == [k \in AllKeys |-> IF Promises /\ keys[k] # NoRow THEN {keys[k].mark} ELSE {}]

Effects == {[key |-> KeyOf(m.by), op |-> Fingerprint(m.by), ok |-> m.ok, ref |-> m.ref] :
              m \in {c \in calls : Kept(c.by)}}

BookedFor(k) == {c \in charges : Kept(c.by) /\ KeyOf(c.by) = k}
\* Charge rows are told apart: a second row of one operation is a booking.
Booked == [k \in AllKeys |-> {[by |-> c.by, op |-> <<c.order, c.amount>>] : c \in BookedFor(k)}]

Words == [s \in {0, 201, 400, 409, 422, 502} |->
            CASE s = 0 -> "nothing" [] s = 201 -> "charged" [] s = 400 -> "invalid"
              [] s = 409 -> "busy" [] s = 422 -> "conflict" [] s = 502 -> "declined"]

Heard == [d \in Deliveries |->
            IF Kept(d) /\ answer[d].status \in DOMAIN Words THEN Words[answer[d].status]
            ELSE IF Kept(d) THEN "failed" ELSE "nothing"]

Once == INSTANCE OneOperation WITH
          Keys <- AllKeys, Operations <- Orders \X Amounts, manner <- Manner, asked <- Asked,
          meaning <- Meaning, effects <- Effects, booked <- Booked, heard <- Heard

\* Behind its claims, take-overs, replays and drains each of the three is an
\* operation that the first request under the key determines, that the gateway
\* decides once, and that every answer under the key is about (service.ts:378-612).
\* It is booked as one charge row by lease and atomic-outbox, whichever deliveries
\* race or die; by lease-recovering every delivery that claims the key, takes it
\* over or finds it expired may write a row of its own for the one payment
\* (service.ts:543-589): idempotency/README.md:171-178 has two charges of one effect.
ImplementsOnce == Once!Spec
=============================================================================
