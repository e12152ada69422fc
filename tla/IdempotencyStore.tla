-------------------------- MODULE IdempotencyStore --------------------------
(***************************************************************************)
(* The transactional store of idempotency/store.ts: transactions that      *)
(* buffer their writes, unique indexes that block instead of failing, a    *)
(* wait queue per reservation, a wait-for-graph check, and the death of a  *)
(* delivery that had a transaction open.                                   *)
(*                                                                         *)
(* The code is asynchronous JavaScript: what runs between two awaits is    *)
(* one atomic step here.  `insert` awaits its hook, then `acquire`, and    *)
(* reads the committed rows only after that second await, so taking a      *)
(* reservation (TryAcquire) and using it (Check) are two steps with other  *)
(* transactions in between.  A waiter woken by `release` resumes later, in *)
(* the order of the microtask queue `ready`.                               *)
(*                                                                         *)
(* A row is identified with the value it has in its unique index: rows     *)
(* with a NULL in the index (store.ts:283) need no reservation and play no *)
(* part here.  What a transaction does is Plan[t], the values it inserts,  *)
(* in order; then it commits, or it is rolled back at any point.           *)
(***************************************************************************)
EXTENDS Naturals, Sequences, FiniteSets, Functions, SequencesExt

CONSTANTS Txns,          \* transactions
          Values,        \* index values
          NoTxn,         \* no transaction: a free reservation
          NoValue,       \* no value: a transaction blocked on nothing
          Plan,          \* Plan[t]: the values t inserts, in program order
          KillsInFlight  \* TRUE: killDelivery may find a store call in flight

ASSUME SentinelAssumption == NoTxn \notin Txns /\ NoValue \notin Values

\* No handler in service.ts inserts two rows with one index value.
ASSUME PlanAssumption ==
  /\ Plan \in [Txns -> Seq(Values)]
  /\ \A t \in Txns : \A i, j \in 1..Len(Plan[t]) : Plan[t][i] = Plan[t][j] => i = j

ASSUME KillAssumption == KillsInFlight \in BOOLEAN

VARIABLES
  rows,       \* [Values -> Nat]: committed rows per index value
  pending,    \* [Txns -> [Values -> Nat]]: rows written, not yet visible
  holder,     \* [Values -> Txns or NoTxn]: Store.reservations, the holder
  waiters,    \* [Values -> Seq(Txns)]: Reservation.waiters, in arrival order
  waitingOn,  \* [Txns -> Values or NoValue]: Store.waitingOn
  reserved,   \* [Txns -> Seq(Values)]: Transaction.reserved
  settled,    \* [Txns -> Settlement]: Transaction.settled, "open" for null
  step,       \* [Txns -> Nat]: inserts of Plan[t] that have returned
  pc,         \* [Txns -> Control]: where the client of t is suspended
  ready       \* Seq(Txns): woken waiters, in the order they will resume

vars == <<rows, pending, holder, waiters, waitingOn, reserved, settled, step, pc, ready>>

Settlement == {"open", "committed", "rolled-back", "crashed"}

\* idle: between two calls.  acquire: in insert, before acquire() runs.
\* waiting: in acquire, on the promise the holder resolves.  check: in insert,
\* acquire() has returned.  refused, deadlocked: insert threw UniqueViolation,
\* Deadlock.  gone: the client makes no further call.
Control == {"idle", "acquire", "waiting", "check", "refused", "deadlocked", "gone"}

\* A store call of t is suspended on a promise of its own.
InFlight(t) == pc[t] \in {"acquire", "waiting", "check"}

\* The value the current (or next) insert of t needs.
Wanted(t) == Plan[t][step[t] + 1]

Init ==
  /\ rows = [v \in Values |-> 0]
  /\ pending = [t \in Txns |-> [v \in Values |-> 0]]
  /\ holder = [v \in Values |-> NoTxn]
  /\ waiters = [v \in Values |-> <<>>]
  /\ waitingOn = [t \in Txns |-> NoValue]
  /\ reserved = [t \in Txns |-> <<>>]
  /\ settled = [t \in Txns |-> "open"]
  /\ step = [t \in Txns |-> 0]
  /\ pc = [t \in Txns |-> "idle"]
  /\ ready = <<>>

\* Store.release of every value of the sequence vs, in order, by t: the
\* reservations t holds go, and their waiters are queued in arrival order.
Released(t, vs) ==
  [v \in Values |-> IF holder[v] = t /\ v \in Range(vs) THEN NoTxn ELSE holder[v]]

Freed(t, vs) == SelectSeq(vs, LAMBDA v : holder[v] = t)

\* Slip: release wakes nobody.
WokenNobody(t, vs) == <<>>

Woken(t, vs) == FlattenSeq([i \in 1..Len(Freed(t, vs)) |-> waiters[Freed(t, vs)[i]]])

Wake(t, vs) ==
  /\ holder' = Released(t, vs)
  /\ waiters' = [v \in Values |-> IF holder[v] = t /\ v \in Range(vs) THEN <<>> ELSE waiters[v]]
  /\ ready' = ready \o Woken(t, vs)

-----------------------------------------------------------------------------
\* Transaction.insert up to acquire().
InsertCall(t) ==
  /\ settled[t] = "open" /\ pc[t] = "idle"
  /\ step[t] < Len(Plan[t])
  /\ pc' = [pc EXCEPT ![t] = "acquire"]
  /\ UNCHANGED <<rows, pending, holder, waiters, waitingOn, reserved, settled, step, ready>>

\* Slip: the walk starts at the waiter instead of at the holder.
WalkFromWaiter(t, first, blocked) ==
  LET n == Cardinality(Txns)
      chase[i \in 0..n] ==
        IF i = 0 THEN t
        ELSE IF chase[i-1] = NoTxn \/ blocked[chase[i-1]] = NoValue THEN NoTxn
        ELSE holder[blocked[chase[i-1]]]
  IN \E i \in 0..n : chase[i] = t

\* Store.detectCycle: follow holder -> what it waits on -> who holds that ...
\* `blocked` is waitingOn as the caller sees it.
ClosesCycle(t, first, blocked) ==
  LET n == Cardinality(Txns)
      chase[i \in 0..n] ==
        IF i = 0 THEN first
        ELSE IF chase[i-1] = NoTxn \/ blocked[chase[i-1]] = NoValue THEN NoTxn
        ELSE holder[blocked[chase[i-1]]]
  IN \E i \in 0..n : chase[i] = t

\* One turn of the loop in Store.acquire, entered with waitingOn = blocked.
TryAcquire(t, blocked) ==
  LET v == Wanted(t) IN
  \/ /\ holder[v] \in {NoTxn, t}
     /\ holder' = [holder EXCEPT ![v] = t]
     /\ waitingOn' = blocked
     /\ pc' = [pc EXCEPT ![t] = "check"]
     /\ UNCHANGED waiters
  \/ /\ holder[v] \notin {NoTxn, t}
     /\ ClosesCycle(t, holder[v], blocked)
     /\ waitingOn' = blocked
     /\ pc' = [pc EXCEPT ![t] = IF settled[t] = "open" THEN "deadlocked" ELSE "gone"]
     /\ UNCHANGED <<holder, waiters>>
  \/ /\ holder[v] \notin {NoTxn, t}
     /\ ~ClosesCycle(t, holder[v], blocked)
     /\ waitingOn' = [blocked EXCEPT ![t] = v]
     /\ waiters' = [waiters EXCEPT ![v] = Append(@, t)]
     /\ pc' = [pc EXCEPT ![t] = "waiting"]
     /\ UNCHANGED holder

\* The hook before the insert has returned: assertUsable, then acquire().
Acquire(t) ==
  /\ pc[t] = "acquire" /\ settled[t] = "open"
  /\ TryAcquire(t, waitingOn)
  /\ UNCHANGED <<rows, pending, reserved, settled, step, ready>>

\* ... and assertUsable throws when the delivery died meanwhile.
AcquireDead(t) ==
  /\ pc[t] = "acquire" /\ settled[t] # "open"
  /\ pc' = [pc EXCEPT ![t] = "gone"]
  /\ UNCHANGED <<rows, pending, holder, waiters, waitingOn, reserved, settled, step, ready>>

\* Slip: being woken is taken for having been handed the reservation.
ResumeWithoutLooking(t) ==
  /\ ready # <<>> /\ t = Head(ready)
  /\ pc[t] = "waiting"
  /\ ready' = Tail(ready)
  /\ holder' = [holder EXCEPT ![Wanted(t)] = t]
  /\ waitingOn' = [waitingOn EXCEPT ![t] = NoValue]
  /\ pc' = [pc EXCEPT ![t] = "check"]
  /\ UNCHANGED <<rows, pending, waiters, reserved, settled, step>>

\* A woken waiter goes round the loop of Store.acquire again.  Nothing there
\* asks whether its transaction is still open.
Resume(t) ==
  /\ ready # <<>> /\ t = Head(ready)
  /\ pc[t] = "waiting"
  /\ ready' = Tail(ready)
  /\ TryAcquire(t, [waitingOn EXCEPT ![t] = NoValue])
  /\ UNCHANGED <<rows, pending, reserved, settled, step>>

-----------------------------------------------------------------------------
\* reserved.splice(reserved.indexOf(v), 1): with v absent the index is -1 and
\* splice takes the last element.
SpliceAt(s, v) == IF v \in Range(s) THEN CHOOSE i \in DOMAIN s : s[i] = v ELSE Len(s)

Splice(s, v) == RemoveAt(s, SpliceAt(s, v))

\* acquire() returned and the value is not committed: the row is buffered.
CheckFresh(t) ==
  /\ pc[t] = "check" /\ settled[t] = "open"
  /\ rows[Wanted(t)] = 0
  /\ reserved' = [reserved EXCEPT ![t] = Append(@, Wanted(t))]
  /\ pending' = [pending EXCEPT ![t][Wanted(t)] = @ + 1]
  /\ step' = [step EXCEPT ![t] = @ + 1]
  /\ pc' = [pc EXCEPT ![t] = "idle"]
  /\ UNCHANGED <<rows, holder, waiters, waitingOn, settled, ready>>

\* The value is committed: UniqueViolation, after releasing the reservation.
CheckDuplicate(t) ==
  /\ pc[t] = "check" /\ settled[t] = "open"
  /\ rows[Wanted(t)] > 0
  /\ Wake(t, <<Wanted(t)>>)
  /\ reserved' = [reserved EXCEPT ![t] = Splice(@, Wanted(t))]
  /\ pc' = [pc EXCEPT ![t] = "refused"]
  /\ UNCHANGED <<rows, pending, waitingOn, settled, step>>

\* The delivery died while acquire() was in flight: assertUsable throws and
\* whatever acquire() took is still held.
CheckDead(t) ==
  /\ pc[t] = "check" /\ settled[t] # "open"
  /\ pc' = [pc EXCEPT ![t] = "gone"]
  /\ UNCHANGED <<rows, pending, holder, waiters, waitingOn, reserved, settled, step, ready>>

-----------------------------------------------------------------------------
\* Slip: the reservations are forgotten without being released.
SettleForgets(t, how) ==
  /\ settled' = [settled EXCEPT ![t] = how]
  /\ reserved' = [reserved EXCEPT ![t] = <<>>]
  /\ UNCHANGED <<holder, waiters, ready>>

\* Transaction.settle: release what `reserved` lists.
Settle(t, how) ==
  /\ settled' = [settled EXCEPT ![t] = how]
  /\ Wake(t, reserved[t])
  /\ reserved' = [reserved EXCEPT ![t] = <<>>]

Commit(t) ==
  /\ settled[t] = "open" /\ pc[t] = "idle"
  /\ step[t] = Len(Plan[t])
  /\ rows' = [v \in Values |-> rows[v] + pending[t][v]]
  /\ Settle(t, "committed")
  /\ pc' = [pc EXCEPT ![t] = "gone"]
  /\ UNCHANGED <<pending, waitingOn, step>>

\* The handler gives up: a refused insert, a declined charge.
Rollback(t) ==
  /\ settled[t] = "open" /\ pc[t] \in {"idle", "refused", "deadlocked"}
  /\ Settle(t, "rolled-back")
  /\ pc' = [pc EXCEPT ![t] = "gone"]
  /\ UNCHANGED <<rows, pending, waitingOn, step>>

\* Store.killDelivery -> Transaction.crash.  The harness calls it once the
\* handler has thrown, so with no call in flight; the Store's API allows more.
Kill(t) ==
  /\ settled[t] = "open"
  /\ InFlight(t) => KillsInFlight
  /\ Settle(t, "crashed")
  /\ pc' = [pc EXCEPT ![t] = IF InFlight(t) THEN @ ELSE "gone"]
  /\ UNCHANGED <<rows, pending, waitingOn, step>>

-----------------------------------------------------------------------------
Client(t) == \/ InsertCall(t) \/ Acquire(t) \/ AcquireDead(t)
             \/ CheckFresh(t) \/ CheckDuplicate(t) \/ CheckDead(t)
             \/ Commit(t) \/ Rollback(t)

Next == \E t \in Txns : Resume(t) \/ Client(t) \/ Kill(t)

Spec == Init /\ [][Next]_vars

\* The event loop runs every queued continuation, and every handler goes on to
\* its next call until its transaction settles.  Deaths are never owed.
Fairness == \A t \in Txns : WF_vars(Resume(t)) /\ WF_vars(Client(t))

FairSpec == Spec /\ Fairness

-----------------------------------------------------------------------------
TypeOK ==
  /\ rows \in [Values -> Nat]
  /\ pending \in [Txns -> [Values -> Nat]]
  /\ holder \in [Values -> Txns \union {NoTxn}]
  /\ waiters \in [Values -> Seq(Txns)]
  /\ waitingOn \in [Txns -> Values \union {NoValue}]
  /\ reserved \in [Txns -> Seq(Values)]
  /\ settled \in [Txns -> Settlement]
  /\ step \in [Txns -> Nat]
  /\ pc \in [Txns -> Control]

\* No two committed rows share an index value, whatever waits, wake-ups and
\* deaths came before the commits (UNIQUE_INDEXES, enforced by insert).
UniqueRows == \A v \in Values : rows[v] <= 1

\* The row a transaction has buffered is protected until it settles: it holds
\* the reservation, and nobody has committed that value behind its back.
PendingProtected ==
  \A t \in Txns, v \in Values :
    settled[t] = "open" /\ pending[t][v] > 0 => holder[v] = t /\ rows[v] = 0

\* Every reservation is held by a transaction that is still open: settling
\* releases locks (store.ts:466-470).
NoLockOutlivesItsTransaction ==
  \A v \in Values : holder[v] # NoTxn => settled[holder[v]] = "open"

\* Transactions that reserve in one fixed order never wait in a circle, so
\* detectCycle never refuses a wait (store.ts:545 "No strategy here should").
NeverDeadlocked == \A t \in Txns : pc[t] # "deadlocked"

\* An insert that has been called returns or throws: whoever is in its way
\* settles, and the wait ends.
InsertReturns == \A t \in Txns : InFlight(t) ~> ~InFlight(t)

\* The store implements the unique index it promises.
Index == INSTANCE UniqueIndex WITH
  owns <- [t \in Txns |-> IF settled[t] = "open" THEN {v \in Values : pending[t][v] > 0} ELSE {}],
  refused <- [t \in Txns |-> pc[t] = "refused"]

\* An insert is refused only against a committed row, granted only when no
\* other open transaction has the value, and a settlement publishes all of a
\* transaction's rows or none (store.ts:22-28).
ImplementsIndex == Index!Spec

=============================================================================
