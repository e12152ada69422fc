---------------------------- MODULE ServiceProofs ----------------------------
(***************************************************************************)
(* Theorems about Service, for any deliveries, reconcilers, requests and   *)
(* cells, any clock and a gateway that may decline or not: the service's   *)
(* type invariant, its safety invariants and RecordedAnswerStable.         *)
(***************************************************************************)
EXTENDS Service, TLAPS

-----------------------------------------------------------------------------
(* Types, and where a strategy's deliveries may be suspended.              *)

Places == {"new", "lookup", "claim", "claimed", "held", "seize", "charge", "gateway",
           "settle", "collided", "finish", "memo", "memoed", "reply", "queued", "drain",
           "sending", "marking", "answered", "dead", "idle"}

Statuses == {0, 200, 201, 400, 409, 422, 500, 502}

Answers == [status : Statuses, charge : Deliveries \union {NoOne},
            amount : Amounts \union {0}, replayed : BOOLEAN]

TypeOK ==
  /\ strategy \in Strategies /\ request \in [Deliveries -> Requests]
  /\ keys \in [AllKeys -> KeyRows \union {NoRow}]
  /\ charges \subseteq {ChargeRow(d) : d \in Deliveries}
  /\ keyLock \in [AllKeys -> Deliveries \union {NoOne}]
  /\ orderLock \in [Orders -> Deliveries \union {NoOne}]
  /\ now \in Nat
  /\ pc \in [Processes -> Places]
  /\ gwOk \in [Processes -> BOOLEAN]
  /\ answer \in [Deliveries -> Answers]
  /\ calls \subseteq [ref : Nat, dedup : DedupKeys \union {NoDedup}, by : Deliveries, ok : BOOLEAN]
  /\ issued \in Nat
  /\ outbox \in [Deliveries -> {"none", "pending", "sent", "failed"}]
  /\ outboxLock \in [DedupKeys -> Deliveries \union {NoOne}]
  /\ todo \in [Processes -> SUBSET Deliveries]
  /\ current \in [Processes -> Deliveries \union {NoOne}]

\* With a key: between the claim and the answer.
Claiming == {"claim", "claimed", "held", "seize"}
Performing == {"charge", "gateway", "settle"}
Draining == {"drain", "sending", "marking"}

Placed ==
  /\ \A d \in Deliveries :
       /\ pc[d] \in Claiming \union {"finish"} => Claims /\ HasKey(d)
       /\ pc[d] = "seize" => strategy = "lease-recovering"
       /\ pc[d] \in {"lookup", "memo", "memoed"} => strategy = "memo-after" /\ HasKey(d)
       /\ pc[d] = "collided" => strategy = "natural-key"
       /\ pc[d] \in Draining \union {"queued"} => strategy = "atomic-outbox"
       /\ pc[d] \in Performing \union {"finish", "reply"} => strategy # "atomic-outbox"
       /\ pc[d] # "idle"
  /\ \A w \in Reconcilers : pc[w] \in {"idle", "sending", "marking"}

\* An open transaction that will write a key has it reserved, and it is free.
Reserved ==
  \A d \in Deliveries : Inserting(d) =>
    keyLock[KeyOf(d)] = d /\ keys[KeyOf(d)] = NoRow

\* A row that was written is there, and one that was found; where operations share
\* a text it may have been the outbox's row that was.
RowThere ==
  \A d \in Deliveries :
    (Claims /\ Working(d)) \/ pc[d] = "seize" \/ (pc[d] = "held" /\ Apart)
      => keys[KeyOf(d)] # NoRow

\* Nobody takes over before the first lease can have expired.
NoTakeOverYet == now <= LeaseTTL => \A d \in Deliveries : pc[d] # "seize"

Performs(d) == HasKey(d) /\ pc[d] \in Performing \union {"finish"}

\* lease: a key somebody works on is in progress.
InProgress ==
  strategy = "lease" => \A d \in Deliveries : Performs(d) => keys[KeyOf(d)].state = "in-progress"

\* Leases: whoever works on a key asked for what its row is marked with.
Marked ==
  strategy \in {"lease", "lease-recovering"} =>
    \A d \in Deliveries : Working(d) \/ pc[d] = "seize" => keys[KeyOf(d)].mark = Fingerprint(d)

Locks == Reserved /\ RowThere /\ NoTakeOverYet /\ OneWorkerPerKey /\ InProgress /\ Marked

-----------------------------------------------------------------------------
\* The gateway performs the call of a dedup key once.
CallsOnce ==
  \A m, n \in calls :
    /\ m.dedup = DedupOf(m.by)
    /\ m.dedup # NoDedup /\ m.dedup = n.dedup => m = n
    /\ m.ref <= issued

Backed(d) ==
  \E m \in MoneyMoved : IF DedupOf(d) = NoDedup THEN m.by = d ELSE m.dedup = DedupOf(d)

AnsweredByMoney ==
  /\ \A d \in Deliveries : pc[d] = "settle" /\ gwOk[d] => Backed(d)
  /\ strategy # "atomic-outbox" => \A c \in charges : Backed(c.by)

Money == CallsOnce /\ AnsweredByMoney

-----------------------------------------------------------------------------
\* What was committed before it is spoken of.
Committed ==
  /\ \A d \in Deliveries :
       /\ pc[d] \in {"finish", "memo", "memoed", "reply"} /\ gwOk[d] => ChargeRow(d) \in charges
       /\ pc[d] \in Draining \/ outbox[d] # "none" => ChargeRow(d) \in charges
  /\ \A w \in Processes :
       /\ \A d \in todo[w] : outbox[d] # "none"
       /\ pc[w] = "marking" => current[w] \in Deliveries /\ outbox[current[w]] # "none"
  /\ strategy = "atomic-outbox" => \A m \in calls : ChargeRow(m.by) \in charges

\* A recorded success names a charge of the key's principal, and where the mark
\* decides a replay, of what the row is marked with.
Recorded201 ==
  Uses({"lease", "lease-recovering", "atomic-outbox"}) =>
    \A k \in AllKeys : keys[k] # NoRow /\ keys[k].status = 201 =>
      \E c \in charges :
        /\ c.by = keys[k].charge /\ c.principal = k[1]
        /\ strategy # "lease" => /\ keys[k].mark = <<c.order, c.amount>>
                                 /\ keys[k].amount = c.amount

\* One charge for a key: there is no second to come either.
ChargedOnce ==
  Uses({"memo-before", "lease", "atomic-outbox"}) =>
    /\ \A c \in charges : HasKey(c.by) => keys[KeyOf(c.by)] # NoRow
    /\ \A c \in charges : \A d \in Deliveries : pc[d] \in Performing => ~SameKey(d, c.by)

\* One charge for an order (natural-key).
OrderedOnce ==
  strategy = "natural-key" =>
    \A d \in Deliveries :
      /\ pc[d] \in {"gateway", "settle"} => orderLock[request[d].order] = d /\ SameOrder(d) = {}
      /\ pc[d] = "collided" => SameOrder(d) # {}

OnceEach == ChargedOnce /\ OrderedOnce /\ OneChargeEach

\* What the outbox adds to the handler.
OutboxStep(w) == (w \in Deliveries /\ (InsertIntent(w) \/ CommitAll(w))) \/ Drain(w)

IInv ==
  /\ TypeOK /\ Placed /\ Locks /\ Money /\ Committed
  /\ Recorded201 /\ OnceEach /\ ToldTheTruth

-----------------------------------------------------------------------------
\* Nothing changes the strategy or the requests, nor what is read off them.
LEMMA CellKept ==
  ASSUME UNCHANGED cell
  PROVE  /\ strategy' = strategy /\ request' = request /\ Claims' = Claims
         /\ \A names : Uses(names)' = Uses(names)
         /\ \A d : /\ HasKey(d)' = HasKey(d) /\ KeyOf(d)' = KeyOf(d)
                  /\ Fingerprint(d)' = Fingerprint(d) /\ DedupOf(d)' = DedupOf(d)
                  /\ ChargeRow(d)' = ChargeRow(d)
         /\ \A d, e : SameKey(d, e)' = SameKey(d, e)
         /\ Apart' = Apart
BY DEF cell, Claims, Uses, HasKey, KeyOf, Fingerprint, DedupOf, ChargeRow, SameKey, Apart

\* What is read off a request is of its kind.
LEMMA RequestTypes ==
  ASSUME TypeOK, NEW d \in Deliveries
  PROVE  /\ KeyOf(d) \in AllKeys /\ DedupOf(d) \in DedupKeys \union {NoDedup}
         /\ Fingerprint(d) \in Orders \X Amounts
         /\ request[d].principal \in Principals /\ request[d].order \in Orders
         /\ request[d].amount \in Amounts
         /\ ChargeRow(d).by = d
<1>1. request[d] \in Requests
  BY DEF TypeOK
<1>2. /\ request[d].principal \in Principals /\ request[d].order \in Orders
      /\ request[d].amount \in Amounts /\ request[d].key \in Keys \union {NoKey}
  BY <1>1 DEF Requests
<1>3. KeyOf(d) \in AllKeys
  BY <1>2 DEF KeyOf, AllKeys, Scopes
<1>. QED
  BY <1>2, <1>3 DEF DedupOf, DedupKeys, Fingerprint, ChargeRow

\* What a handler may answer, and what it may record.
LEMMA ResponseTypes ==
  ASSUME TypeOK, NEW d \in Deliveries
  PROVE  /\ \A status \in Statuses : Refusal(status) \in Answers
         /\ Charged(d) \in Answers /\ Outcome(d) \in Answers
         /\ \A row \in KeyRows : ReplayOf(row) \in Answers
         /\ \A c \in charges : [status |-> 200, charge |-> c.by, amount |-> c.amount,
                              replayed |-> TRUE] \in Answers
<1>1. ASSUME NEW status \in Statuses PROVE Refusal(status) \in Answers
  BY DEF Refusal, Answers
<1>2. Charged(d) \in Answers
  BY RequestTypes DEF Charged, Answers, Statuses
<1>3. Outcome(d) \in Answers
  BY <1>1, <1>2 DEF Outcome, Statuses
<1>4. ASSUME NEW row \in KeyRows PROVE ReplayOf(row) \in Answers
  BY DEF KeyRows, ReplayOf, Answers, Statuses
<1>5. ASSUME NEW c \in charges
      PROVE  [status |-> 200, charge |-> c.by, amount |-> c.amount, replayed |-> TRUE] \in Answers
  <2>1. PICK e \in Deliveries : c = ChargeRow(e)
    BY DEF TypeOK
  <2>2. c.by \in Deliveries /\ c.amount \in Amounts
    BY <2>1, RequestTypes DEF ChargeRow
  <2>. QED
    BY <2>2 DEF Answers, Statuses
<1>. QED
  BY <1>1, <1>2, <1>3, <1>4, <1>5

\* What a claim, a take-over and a memo write is a row.
LEMMA RowTypes ==
  ASSUME TypeOK, NEW d \in Deliveries
  PROVE  /\ Row(d, "in-progress", NoAnswer) \in KeyRows
         /\ Row(d, "done", Outcome(d)) \in KeyRows
         /\ ClaimRow(d) \in KeyRows
<1>1. /\ Fingerprint(d) \in Orders \X Amounts /\ request[d].amount \in Amounts /\ now \in Nat
  BY RequestTypes DEF TypeOK
<1>2. Row(d, "in-progress", NoAnswer) \in KeyRows
  BY <1>1 DEF Row, NoAnswer, Refusal, KeyRows
<1>3. Row(d, "done", Outcome(d)) \in KeyRows
  BY <1>1 DEF Row, Outcome, Charged, Refusal, KeyRows
<1>4. Row(d, "done", Charged(d)) \in KeyRows /\ Row(d, "done", Presumed(d)) \in KeyRows
  BY <1>1 DEF Row, Presumed, Charged, KeyRows
<1>. QED
  BY <1>2, <1>3, <1>4 DEF ClaimRow

\* The outcome fills in a row and leaves its mark and its age.
FinishedRowOf(d, row) ==
  [row EXCEPT !.state = "done", !.status = Outcome(d).status,
              !.charge = Outcome(d).charge, !.amount = Outcome(d).amount]

\* ... and it is a row again.
LEMMA FinishedRow ==
  ASSUME TypeOK, NEW d \in Deliveries, NEW row \in KeyRows
  PROVE  /\ FinishedRowOf(d, row) \in KeyRows
         /\ FinishedRowOf(d, row).mark = row.mark
         /\ FinishedRowOf(d, row).status = Outcome(d).status
         /\ FinishedRowOf(d, row).charge = Outcome(d).charge
         /\ FinishedRowOf(d, row).amount = Outcome(d).amount
<1>1. /\ Outcome(d).status \in {0, 201, 502} /\ Outcome(d).charge \in Deliveries \union {NoOne}
      /\ Outcome(d).amount \in Amounts \union {0}
  BY RequestTypes DEF Outcome, Charged, Refusal
<1>2. /\ row.mark \in Orders \X Amounts /\ row.created \in Nat
      /\ row = [state |-> row.state, mark |-> row.mark, created |-> row.created,
                status |-> row.status, charge |-> row.charge, amount |-> row.amount]
  BY DEF KeyRows
<1>3. FinishedRowOf(d, row) =
        [state |-> "done", mark |-> row.mark, created |-> row.created,
         status |-> Outcome(d).status, charge |-> Outcome(d).charge, amount |-> Outcome(d).amount]
  <2>1. ASSUME NEW s, NEW c, NEW a, NEW new,
               new = [row EXCEPT !.state = "done", !.status = s, !.charge = c, !.amount = a]
        PROVE  new = [state |-> "done", mark |-> row.mark, created |-> row.created,
                      status |-> s, charge |-> c, amount |-> a]
    BY <1>2, <2>1
  <2>. QED
    BY <2>1, Zenon DEF FinishedRowOf
<1>4. ASSUME NEW s \in {0, 201, 502}, NEW c \in Deliveries \union {NoOne},
             NEW a \in Amounts \union {0}
      PROVE  [state |-> "done", mark |-> row.mark, created |-> row.created,
              status |-> s, charge |-> c, amount |-> a] \in KeyRows
  BY <1>2 DEF KeyRows
<1>. QED
  BY <1>1, <1>3, <1>4

\* Where a process goes, it was nowhere else; nobody else moves.
Moves(w, place) ==
  /\ w \in Processes /\ pc'[w] = place
  /\ \A v \in Processes : v # w => pc'[v] = pc[v]

\* A step that only moves keeps the types of the control state, ...
LEMMA GotoType ==
  ASSUME TypeOK, NEW w \in Processes, NEW place \in Places, Goto(w, place)
  PROVE  /\ pc' \in [Processes -> Places] /\ answer' \in [Deliveries -> Answers]
         /\ Moves(w, place) /\ UNCHANGED answer
BY DEF TypeOK, Goto, Moves

\* ... and so does a step that answers.
LEMMA AnswerType ==
  ASSUME TypeOK, NEW d \in Deliveries, NEW response \in Answers, Answer(d, response)
  PROVE  /\ pc' \in [Processes -> Places] /\ answer' \in [Deliveries -> Answers]
         /\ Moves(d, "answered")
BY DEF TypeOK, Answer, Places, Processes, Moves

ControlOK == pc \in [Processes -> Places] /\ answer \in [Deliveries -> Answers]

\* Every step of a handler goes to a place and answers, if it does, with an answer.
LEMMA HandleControl ==
  ASSUME TypeOK, NEW d \in Deliveries, Handle(d)
  PROVE  ControlOK'
<1>0. d \in Processes /\ KeyOf(d) \in AllKeys /\ Outcome(d) \in Answers
  BY RequestTypes, ResponseTypes DEF Processes
<1>1. ASSUME NEW place \in Places, Goto(d, place) PROVE ControlOK'
  BY <1>0, <1>1, GotoType DEF ControlOK
<1>2. ASSUME NEW response \in Answers, Answer(d, response) PROVE ControlOK'
  BY <1>2, AnswerType DEF ControlOK
<1>3. \A status \in {400, 409, 422, 500} : Refusal(status) \in Answers
  BY ResponseTypes DEF Statuses
<1>4. keys[KeyOf(d)] # NoRow => ReplayOf(keys[KeyOf(d)]) \in Answers
  BY <1>0, ResponseTypes DEF TypeOK
<1>5. CASE Receive(d)
  BY <1>1, <1>2, <1>3, <1>5 DEF Receive, Places
<1>6. CASE Lookup(d)
  BY <1>1, <1>2, <1>4, <1>6 DEF Lookup, Places
<1>7. CASE ReadHeld(d)
  BY <1>1, <1>2, <1>3, <1>4, <1>7 DEF ReadHeld, Places
<1>8. CASE ReadCharge(d)
  <2>1. CASE SameOrder(d) = {}
    BY <1>2, <1>3, <1>8, <2>1 DEF ReadCharge
  <2>2. CASE SameOrder(d) # {}
    BY <1>2, <1>8, <2>2, ResponseTypes DEF ReadCharge, SameOrder
  <2>. QED
    BY <2>1, <2>2
<1>9. CASE MemoInsert(d)
  BY <1>1, <1>2, <1>3, <1>9 DEF MemoInsert, Places
<1>10. CASE Reply(d)
  BY <1>0, <1>2, <1>10 DEF Reply
<1>11. CASE ClaimInsert(d) \/ ClaimCommit(d) \/ Seize(d) \/ ChargeInsert(d) \/ CallGateway(d)
             \/ SettleCharge(d) \/ Finish(d) \/ MemoCommit(d)
  BY <1>1, <1>11 DEF ClaimInsert, ClaimCommit, Seize, ChargeInsert, CallGateway, SettleCharge,
                     Finish, MemoCommit, Places
<1>. QED
  BY <1>5, <1>6, <1>7, <1>8, <1>9, <1>10, <1>11 DEF Handle

-----------------------------------------------------------------------------
(* The locks.                                                              *)
\* A move that touches no key and enters none of the places a lock is about.
LEMMA LocksQuiet ==
  ASSUME TypeOK, Placed, Locks, UNCHANGED <<keys, keyLock, now, cell>>,
         NEW w, NEW place, Moves(w, place),
         place \notin {"claimed", "queued", "memoed", "held", "seize"},
         w \in Deliveries /\ HasKey(w) /\ Claims /\ place \in Performing \union {"finish", "reply"}
           => /\ pc[w] \in Performing \union {"finish", "reply"}
              /\ place \in Performing \union {"finish"} => pc[w] \in Performing \union {"finish"}
  PROVE  Locks'
<1>. USE CellKept
<1>0. Deliveries \subseteq Processes
  BY DEF Processes
<1>1. Reserved'
  BY <1>0 DEF Locks, Inserting, Reserved, Moves
<1>2. \A d \in Deliveries : (Claims /\ Working(d))' => Claims /\ Working(d)
  BY <1>0 DEF Working, Performing, Moves
<1>3. RowThere'
  BY <1>0, <1>2 DEF Locks, RowThere, Moves
<1>4. NoTakeOverYet'
  BY <1>0 DEF Locks, NoTakeOverYet, Moves
<1>5. OneWorkerPerKey'
  BY <1>2 DEF Locks, OneWorkerPerKey, Uses
<1>6. strategy \in {"lease", "lease-recovering"} =>
        \A d \in Deliveries : Performs(d)' => Performs(d)
  BY <1>0 DEF Performs, Claims, Uses, Moves
<1>7. InProgress'
  BY <1>6 DEF Locks, InProgress
<1>8. Marked'
  BY <1>0, <1>2 DEF Locks, Marked, Claims, Uses, Moves
<1>. QED
  BY <1>1, <1>3, <1>4, <1>5, <1>7, <1>8 DEF Locks

\* A reservation is taken when nobody has it and the key is free.
LEMMA LocksAcquire ==
  ASSUME TypeOK, Placed, Locks, UNCHANGED <<keys, now, cell>>,
         NEW d \in Deliveries, NEW place \in {"claimed", "memoed"}, Moves(d, place),
         keyLock[KeyOf(d)] = NoOne, keys[KeyOf(d)] = NoRow,
         keyLock' = [keyLock EXCEPT ![KeyOf(d)] = d]
  PROVE  Locks'
<1>. USE CellKept
<1>0. Deliveries \subseteq Processes /\ KeyOf(d) \in AllKeys /\ NoOne \notin Deliveries
  BY RequestTypes, CellAssumption DEF Processes
<1>1. Reserved'
  BY <1>0 DEF Locks, Inserting, Reserved, Moves, TypeOK
<1>2. \A e \in Deliveries : Working(e)' => Working(e)
  BY <1>0 DEF Working, Moves
<1>3. RowThere' /\ NoTakeOverYet'
  BY <1>0, <1>2 DEF Locks, RowThere, NoTakeOverYet, Moves
<1>4. OneWorkerPerKey'
  BY <1>2 DEF Locks, OneWorkerPerKey, Uses
<1>5. \A e \in Deliveries : Performs(e)' => Performs(e)
  BY <1>0 DEF Performs, Performing, Moves
<1>6. InProgress' /\ Marked'
  BY <1>0, <1>2, <1>5 DEF Locks, InProgress, Marked, Moves
<1>. QED
  BY <1>1, <1>3, <1>4, <1>6 DEF Locks

\* An insert that collided found a row.
LEMMA LocksHeld ==
  ASSUME TypeOK, Placed, Locks, UNCHANGED <<keys, keyLock, now, cell>>,
         NEW d \in Deliveries, Moves(d, "held"), keys[KeyOf(d)] # NoRow
  PROVE  Locks'
<1>. USE CellKept
<1>0. Deliveries \subseteq Processes
  BY DEF Processes
<1>1. \A e \in Deliveries : (Working(e)' => Working(e)) /\ (Performs(e)' => Performs(e))
  BY <1>0 DEF Working, Performs, Performing, Moves
<1>2. Reserved' /\ RowThere' /\ NoTakeOverYet'
  BY <1>0, <1>1 DEF Locks, Inserting, Reserved, RowThere, NoTakeOverYet, Moves
<1>3. OneWorkerPerKey'
  BY <1>1 DEF Locks, OneWorkerPerKey, Uses
<1>4. InProgress' /\ Marked'
  BY <1>0, <1>1 DEF Locks, InProgress, Marked, Moves
<1>. QED
  BY <1>2, <1>3, <1>4 DEF Locks

\* A row is taken over when its age is past the shorter of the two lives.
LEMMA LocksExpired ==
  ASSUME TypeOK, Placed, Locks, UNCHANGED <<keys, keyLock, now, cell>>,
         NEW d \in Deliveries, Moves(d, "seize"), pc[d] = "held", keys[KeyOf(d)] # NoRow,
         Expired(keys[KeyOf(d)]), keys[KeyOf(d)].mark = Fingerprint(d)
  PROVE  Locks'
<1>. USE CellKept
<1>0. Deliveries \subseteq Processes /\ KeyOf(d) \in AllKeys
  BY RequestTypes DEF Processes
<1>1. \A e \in Deliveries : (Working(e)' => Working(e)) /\ (Performs(e)' => Performs(e))
  BY <1>0 DEF Working, Performs, Performing, Moves
<1>2. now > LeaseTTL
  <2>1. keys[KeyOf(d)].created \in Nat
    BY <1>0 DEF TypeOK, KeyRows
  <2>2. now \in Nat
    BY DEF TypeOK
  <2>. QED
    BY <2>1, <2>2, TimeAssumption DEF Expired
<1>4. Reserved' /\ RowThere'
  BY <1>0, <1>1 DEF Locks, Inserting, Reserved, RowThere, Moves
<1>5. NoTakeOverYet'
  BY <1>2, TimeAssumption DEF NoTakeOverYet, TypeOK
<1>6. OneWorkerPerKey'
  BY <1>1 DEF Locks, OneWorkerPerKey, Uses
<1>7. InProgress' /\ Marked'
  BY <1>0, <1>1 DEF Locks, InProgress, Marked, Moves
<1>. QED
  BY <1>4, <1>5, <1>6, <1>7 DEF Locks

\* The holder of a reservation commits its row: the first for the key.
LEMMA LocksCommit ==
  ASSUME TypeOK, Placed, Locks, UNCHANGED <<now, cell>>,
         NEW d \in Deliveries, Inserting(d),
         NEW place \in {"charge", "reply", "drain"}, Moves(d, place), NEW row \in KeyRows,
         keys' = [keys EXCEPT ![KeyOf(d)] = row],
         keyLock' = [keyLock EXCEPT ![KeyOf(d)] = NoOne],
         strategy \in {"lease", "lease-recovering"} =>
           row.state = "in-progress" /\ row.mark = Fingerprint(d)
  PROVE  Locks'
<1>. USE CellKept
<1>0. /\ Deliveries \subseteq Processes /\ KeyOf(d) \in AllKeys /\ row # NoRow
      /\ \A e \in Deliveries : KeyOf(e) \in AllKeys
  BY RequestTypes, SentinelAssumption DEF Processes
<1>1. keyLock[KeyOf(d)] = d /\ keys[KeyOf(d)] = NoRow
  BY DEF Locks, Inserting, Reserved
<1>2. \A e \in Deliveries : e # d => (Working(e)' <=> Working(e)) /\ (Performs(e)' <=> Performs(e))
  BY <1>0 DEF Working, Performs, Moves
<1>3. \A k \in AllKeys : k # KeyOf(d) => keys'[k] = keys[k] /\ keyLock'[k] = keyLock[k]
  BY <1>0 DEF TypeOK
<1>4. keys'[KeyOf(d)] = row
  BY <1>0 DEF TypeOK
<1>5. \A e \in Deliveries : Inserting(e) /\ KeyOf(e) = KeyOf(d) => e = d
  BY <1>1 DEF Locks, Inserting, Reserved
<1>6. \A e \in Deliveries : Claims /\ Working(e) => KeyOf(e) # KeyOf(d)
  BY <1>1 DEF Locks, RowThere
<1>7. strategy \in {"lease", "lease-recovering"} =>
        \A e \in Deliveries : Performs(e) => KeyOf(e) # KeyOf(d)
  BY <1>6 DEF Performs, Working, Performing, Claims, Uses
<1>8. Reserved'
  BY <1>0, <1>3, <1>5 DEF Locks, Inserting, Reserved, Moves
<1>9. RowThere'
  BY <1>0, <1>2, <1>3, <1>4 DEF Locks, RowThere, Moves
<1>10. NoTakeOverYet'
  BY <1>0 DEF Locks, NoTakeOverYet, Moves
<1>11. OneWorkerPerKey'
  BY <1>2, <1>6 DEF Locks, OneWorkerPerKey, SameKey, Uses
<1>12. InProgress'
  BY <1>0, <1>2, <1>3, <1>4, <1>7 DEF Locks, InProgress
<1>13. Marked'
  <2>. SUFFICES ASSUME strategy \in {"lease", "lease-recovering"}, NEW e \in Deliveries,
                       Working(e)' \/ pc'[e] = "seize"
                PROVE  keys'[KeyOf(e)].mark = Fingerprint(e)
    BY DEF Marked
  <2>1. CASE e = d
    BY <1>4, <2>1
  <2>2. CASE e # d
    <3>1. pc'[e] = pc[e]
      BY <1>0, <2>2 DEF Moves
    <3>2. (Working(e) \/ pc[e] = "seize") /\ keys[KeyOf(e)] # NoRow
      BY <1>2, <2>2, <3>1 DEF Locks, RowThere, Claims, Uses
    <3>3. KeyOf(e) # KeyOf(d) /\ KeyOf(e) \in AllKeys
      BY <1>0, <1>1, <3>2
    <3>. QED
      BY <1>3, <3>2, <3>3 DEF Locks, Marked
  <2>. QED
    BY <2>1, <2>2
<1>. QED
  BY <1>8, <1>9, <1>10, <1>11, <1>12, <1>13 DEF Locks

\* A take-over marks the row as it was: whoever works on the key asked for that.
LEMMA LocksSeize ==
  ASSUME TypeOK, Placed, Locks, UNCHANGED <<keyLock, now, cell>>,
         NEW d \in Deliveries, pc[d] = "seize", Moves(d, "charge"), NEW row \in KeyRows,
         keys' = [keys EXCEPT ![KeyOf(d)] = row], row.mark = Fingerprint(d)
  PROVE  Locks'
<1>. USE CellKept
<1>0. /\ Deliveries \subseteq Processes /\ row # NoRow
      /\ \A e \in Deliveries : KeyOf(e) \in AllKeys
  BY RequestTypes, SentinelAssumption DEF Processes
<1>1. /\ strategy = "lease-recovering" /\ ~(now <= LeaseTTL)
      /\ keys[KeyOf(d)] # NoRow /\ keys[KeyOf(d)].mark = Fingerprint(d)
  BY DEF Placed, Locks, NoTakeOverYet, RowThere, Marked
<1>2. \A e \in Deliveries : e # d => (Working(e)' <=> Working(e)) /\ (Performs(e)' <=> Performs(e))
  BY <1>0 DEF Working, Performs, Moves
<1>3. /\ \A k \in AllKeys : k # KeyOf(d) => keys'[k] = keys[k]
      /\ keys'[KeyOf(d)] = row
  BY <1>0 DEF TypeOK
<1>4. Reserved'
  BY <1>0, <1>1, <1>3 DEF Locks, Inserting, Reserved, Moves
<1>5. RowThere'
  BY <1>0, <1>2, <1>3 DEF Locks, RowThere, Moves
<1>6. NoTakeOverYet' /\ OneWorkerPerKey' /\ InProgress'
  BY <1>1 DEF NoTakeOverYet, OneWorkerPerKey, InProgress, Uses
<1>7. Marked'
  <2>. SUFFICES ASSUME NEW e \in Deliveries, Working(e)' \/ pc'[e] = "seize", e # d
                PROVE  keys'[KeyOf(e)].mark = Fingerprint(e)
    BY <1>3 DEF Marked
  <2>1. Working(e) \/ pc[e] = "seize"
    BY <1>0, <1>2 DEF Moves
  <2>2. keys[KeyOf(e)].mark = Fingerprint(e)
    BY <1>1, <2>1 DEF Locks, Marked
  <2>. QED
    BY <1>0, <1>1, <1>3, <2>2
<1>. QED
  BY <1>4, <1>5, <1>6, <1>7 DEF Locks

\* The outcome is recorded in the claimed row, which keeps its mark.
LEMMA LocksFinish ==
  ASSUME TypeOK, Placed, Locks, UNCHANGED <<keyLock, now, cell>>,
         NEW d \in Deliveries, pc[d] = "finish", Moves(d, "reply"), NEW row \in KeyRows,
         keys' = [keys EXCEPT ![KeyOf(d)] = row], row.mark = keys[KeyOf(d)].mark
  PROVE  Locks'
<1>. USE CellKept
<1>0. /\ Deliveries \subseteq Processes /\ row # NoRow
      /\ \A e \in Deliveries : KeyOf(e) \in AllKeys
  BY RequestTypes, SentinelAssumption DEF Processes
<1>1. Claims /\ Working(d) /\ keys[KeyOf(d)] # NoRow
  BY DEF Placed, Locks, RowThere, Working
<1>2. \A e \in Deliveries : /\ Working(e)' <=> Working(e)
                            /\ Performs(e)' <=> Performs(e) /\ e # d
  BY <1>0 DEF Working, Performs, Performing, Moves
<1>3. /\ \A k \in AllKeys : k # KeyOf(d) => keys'[k] = keys[k]
      /\ keys'[KeyOf(d)] = row
  BY <1>0 DEF TypeOK
<1>4. Reserved'
  BY <1>0, <1>1, <1>3 DEF Locks, Inserting, Reserved, Moves
<1>5. RowThere'
  BY <1>0, <1>2, <1>3 DEF Locks, RowThere, Moves
<1>6. NoTakeOverYet'
  BY <1>0 DEF Locks, NoTakeOverYet, Moves
<1>7. OneWorkerPerKey'
  BY <1>2 DEF Locks, OneWorkerPerKey, Uses
<1>8. InProgress'
  <2>. SUFFICES ASSUME strategy = "lease", NEW e \in Deliveries, Performs(e), e # d
                PROVE  keys'[KeyOf(e)].state = "in-progress"
    BY <1>2 DEF InProgress
  <2>1. ~SameKey(d, e)
    BY <1>1 DEF Locks, OneWorkerPerKey, Uses, Working, Performs, Performing
  <2>2. KeyOf(e) # KeyOf(d)
    BY <1>1, <2>1 DEF SameKey, Performs, Working
  <2>. QED
    BY <1>0, <1>3, <2>2 DEF Locks, InProgress
<1>9. Marked'
  <2>. SUFFICES ASSUME strategy \in {"lease", "lease-recovering"}, NEW e \in Deliveries,
                       Working(e) \/ pc[e] = "seize"
                PROVE  keys'[KeyOf(e)].mark = Fingerprint(e)
    BY <1>0, <1>2 DEF Marked, Moves
  <2>1. keys[KeyOf(e)].mark = Fingerprint(e)
    BY DEF Locks, Marked
  <2>. QED
    BY <1>0, <1>3, <2>1
<1>. QED
  BY <1>4, <1>5, <1>6, <1>7, <1>8, <1>9 DEF Locks

\* A death releases what the dead process had reserved, and nothing else.
LEMMA LocksDie ==
  ASSUME TypeOK, Placed, Locks, UNCHANGED cell, NEW w \in Processes, Die(w)
  PROVE  Locks'
<1>. USE CellKept
<1>0. /\ Deliveries \subseteq Processes /\ UNCHANGED <<keys, now>>
      /\ \A e \in Deliveries : KeyOf(e) \in AllKeys
  BY RequestTypes DEF Processes, Die
<1>1. /\ pc'[w] \in {"dead", "idle"}
      /\ \A v \in Processes : v # w => pc'[v] = pc[v]
      /\ \A k \in AllKeys : keyLock[k] # w => keyLock'[k] = keyLock[k]
  BY DEF Die, TypeOK
<1>2. \A e \in Deliveries : (Working(e)' => Working(e)) /\ (Performs(e)' => Performs(e))
  BY <1>0, <1>1 DEF Working, Performs, Performing
<1>3. Reserved'
  BY <1>0, <1>1 DEF Locks, Inserting, Reserved
<1>4. RowThere' /\ NoTakeOverYet'
  BY <1>0, <1>1, <1>2 DEF Locks, RowThere, NoTakeOverYet
<1>5. OneWorkerPerKey'
  BY <1>0, <1>2 DEF Locks, OneWorkerPerKey, Uses
<1>6. InProgress' /\ Marked'
  BY <1>0, <1>1, <1>2 DEF Locks, InProgress, Marked
<1>. QED
  BY <1>3, <1>4, <1>5, <1>6 DEF Locks

\* Time passes: a lease that cannot have expired could not have before.
LEMMA LocksTick ==
  ASSUME TypeOK, Placed, Locks, UNCHANGED cell, Tick
  PROVE  Locks'
<1>. USE CellKept
<1>1. UNCHANGED <<keys, keyLock, pc>> /\ (now' <= LeaseTTL => now <= LeaseTTL)
  BY TimeAssumption DEF Tick, TypeOK
<1>2. \A e \in Deliveries : (Working(e)' <=> Working(e)) /\ (Performs(e)' <=> Performs(e))
  BY <1>1 DEF Working, Performs
<1>3. Reserved' /\ RowThere' /\ NoTakeOverYet'
  BY <1>1, <1>2 DEF Locks, Inserting, Reserved, RowThere, NoTakeOverYet
<1>4. OneWorkerPerKey'
  BY <1>1, <1>2 DEF Locks, OneWorkerPerKey, Uses
<1>5. InProgress' /\ Marked'
  BY <1>1, <1>2 DEF Locks, InProgress, Marked
<1>. QED
  BY <1>3, <1>4, <1>5 DEF Locks

\* No step of a handler breaks a lock.
LEMMA LocksHandle ==
  ASSUME TypeOK, Placed, Locks, UNCHANGED cell, NEW d \in Deliveries, Handle(d)
  PROVE  Locks'
<1>0. /\ d \in Processes /\ KeyOf(d) \in AllKeys
      /\ \A place \in Places : Goto(d, place) => Moves(d, place)
  BY RequestTypes, GotoType DEF Processes
<1>1. \A response : Answer(d, response) => Moves(d, "answered")
  BY <1>0 DEF TypeOK, Answer, Moves
<1>. DEFINE Quiet(place) ==
       /\ place \notin {"claimed", "queued", "memoed", "held", "seize"}
       /\ HasKey(d) /\ Claims /\ place \in Performing \union {"finish", "reply"}
            => /\ pc[d] \in Performing \union {"finish", "reply"}
               /\ place \in Performing \union {"finish"} => pc[d] \in Performing \union {"finish"}
<1>2. ASSUME NEW place, Quiet(place), Moves(d, place), UNCHANGED <<keys, keyLock, now>>
      PROVE  Locks'
  BY <1>2, LocksQuiet
<1>3. ASSUME NEW response, Answer(d, response), UNCHANGED <<keys, keyLock, now>>
      PROVE  Locks'
  BY <1>1, <1>2, <1>3 DEF Performing
<1>4. CASE Receive(d)
  <2>1. Quiet("claim") /\ Quiet("lookup") /\ (~HasKey(d) \/ ~Claims => Quiet("charge"))
    BY DEF Performing
  <2>2. Uses({"none", "natural-key"}) => ~Claims
    BY DEF Uses, Claims
  <2>. QED
    BY <1>0, <1>2, <1>3, <1>4, <2>1, <2>2 DEF Receive, Places
<1>5. CASE Lookup(d)
  <2>1. Quiet("charge")
    BY <1>5 DEF Lookup, Placed, Claims, Uses
  <2>. QED
    BY <1>0, <1>2, <1>3, <1>5, <2>1 DEF Lookup, Places
<1>6. CASE ClaimInsert(d)
  BY <1>0, <1>6, LocksAcquire, LocksHeld DEF ClaimInsert, Places
<1>7. CASE ClaimCommit(d)
  <2>1. strategy \in {"lease", "lease-recovering"} =>
          ClaimRow(d).state = "in-progress" /\ ClaimRow(d).mark = Fingerprint(d)
    BY DEF ClaimRow, Row
  <2>. QED
    BY <1>0, <1>7, <2>1, LocksCommit, RowTypes DEF ClaimCommit, Inserting, Places
<1>8. CASE ReadHeld(d)
  BY <1>0, <1>3, <1>8, LocksExpired DEF ReadHeld, Places
<1>9. CASE Seize(d)
  BY <1>0, <1>9, LocksSeize, RowTypes DEF Seize, Places, Row
<1>10. CASE ChargeInsert(d)
  <2>1. pc[d] = "charge" /\ Quiet("gateway") /\ Quiet("collided")
    BY <1>10 DEF ChargeInsert, Performing
  <2>. QED
    BY <1>0, <1>2, <1>10, <2>1 DEF ChargeInsert, Places
<1>11. CASE CallGateway(d)
  BY <1>0, <1>2, <1>11 DEF CallGateway, Performing, Places
<1>12. CASE SettleCharge(d)
  <2>1. Quiet("reply") /\ Quiet("finish") /\ Quiet("memo")
    BY <1>12 DEF SettleCharge, Performing
  <2>. QED
    BY <1>0, <1>2, <1>12, <2>1 DEF SettleCharge, Places
<1>13. CASE Finish(d)
  <2>1. keys[KeyOf(d)] \in KeyRows
    BY <1>0, <1>13 DEF Finish, Placed, Locks, RowThere, Working, TypeOK
  <2>. DEFINE row == FinishedRowOf(d, keys[KeyOf(d)])
  <2>2. row \in KeyRows /\ row.mark = keys[KeyOf(d)].mark
    BY <2>1, FinishedRow
  <2>3. Moves(d, "reply") /\ keys' = [keys EXCEPT ![KeyOf(d)] = row] /\ UNCHANGED <<keyLock, now>>
    BY <1>0, <1>13 DEF Finish, FinishedRowOf, Places
  <2>. HIDE DEF row
  <2>. QED
    BY <1>13, <2>2, <2>3, LocksFinish DEF Finish
<1>14. CASE MemoInsert(d)
  BY <1>0, <1>3, <1>14, LocksAcquire DEF MemoInsert, Places
<1>15. CASE MemoCommit(d)
  <2>1. strategy = "memo-after"
    BY <1>15 DEF MemoCommit, Placed
  <2>. QED
    BY <1>0, <1>15, <2>1, LocksCommit, RowTypes DEF MemoCommit, Inserting, Places
<1>16. CASE ReadCharge(d) \/ Reply(d)
  BY <1>3, <1>16 DEF ReadCharge, Reply
<1>. QED
  BY <1>4, <1>5, <1>6, <1>7, <1>8, <1>9, <1>10, <1>11, <1>12, <1>13, <1>14, <1>15, <1>16 DEF Handle

\* An intent that is inserted keeps the key reserved; one that collides found the
\* row of an operation that has a charge, and so a key.
LEMMA LocksIntent ==
  ASSUME TypeOK, Placed, Locks, Committed, ChargedOnce, UNCHANGED cell,
         NEW d \in Deliveries, InsertIntent(d)
  PROVE  Locks'
<1>. USE CellKept
<1>0. Deliveries \subseteq Processes /\ UNCHANGED <<keys, keyLock, now>>
  BY DEF Processes, InsertIntent
<1>1. PICK place \in {"queued", "held"} : Moves(d, place)
  BY <1>0, GotoType DEF InsertIntent, Places
<1>2. \A e \in Deliveries : (Working(e)' => Working(e)) /\ (Performs(e)' => Performs(e))
  BY <1>0, <1>1 DEF Working, Performs, Performing, Moves
<1>3. Reserved'
  BY <1>0, <1>1 DEF InsertIntent, Locks, Inserting, Reserved, Moves
<1>4. place = "held" => ~Apart
  <2>. SUFFICES ASSUME place = "held", Apart PROVE FALSE
    OBVIOUS
  <2>1. Enqueued(DedupOf(d)) # {}
    BY <1>0, <1>1 DEF InsertIntent, Goto, Moves, TypeOK
  <2>2. PICK e \in Deliveries : outbox[e] # "none" /\ DedupOf(e) = DedupOf(d)
    BY <2>1 DEF Enqueued
  <2>3. strategy = "atomic-outbox" /\ HasKey(d) /\ HasKey(e)
    BY DEF InsertIntent, Uses, HasKey
  <2>4. DedupOf(d) # NoDedup
    BY <2>3, RequestTypes, JoinAssumption DEF DedupOf, DedupKeys, Uses
  <2>5. KeyOf(e) = KeyOf(d)
    BY <2>2, <2>4 DEF Apart
  <2>6. keys[KeyOf(e)] # NoRow
    BY <2>2, <2>3 DEF Committed, ChargedOnce, ChargeRow, Uses
  <2>7. keys[KeyOf(d)] = NoRow
    BY DEF InsertIntent, Locks, Inserting, Reserved
  <2>. QED
    BY <2>5, <2>6, <2>7
<1>5. RowThere'
  BY <1>0, <1>1, <1>2, <1>4 DEF Locks, RowThere, Moves
<1>6. NoTakeOverYet' /\ OneWorkerPerKey'
  BY <1>0, <1>1, <1>2 DEF Locks, NoTakeOverYet, OneWorkerPerKey, Moves, Uses
<1>7. InProgress' /\ Marked'
  BY <1>0, <1>1, <1>2 DEF Locks, InProgress, Marked, Moves
<1>. QED
  BY <1>3, <1>5, <1>6, <1>7 DEF Locks

\* The one commit of atomic-outbox and its drains break none either.
LEMMA LocksOutbox ==
  ASSUME TypeOK, Placed, Locks, Committed, ChargedOnce, UNCHANGED cell, NEW w \in Processes,
         OutboxStep(w)
  PROVE  Locks'
<1>0. \A place \in Places : Goto(w, place) => Moves(w, place)
  BY GotoType
<1>1. CASE w \in Deliveries /\ CommitAll(w)
  <2>1. strategy = "atomic-outbox"
    BY <1>1 DEF CommitAll, Placed
  <2>. QED
    BY <1>0, <1>1, <2>1, LocksCommit, RowTypes DEF CommitAll, Settled, Inserting, Places
<1>2. CASE Drain(w)
  <2>1. UNCHANGED <<keys, keyLock, now>>
    BY <1>2 DEF Drain, DrainRead, DrainCall, DrainMark, DrainDone
  <2>2. PICK place \in {"sending", "marking", "answered", "idle"} : Moves(w, place)
    <3>1. \A response : Answer(w, response) => Moves(w, "answered")
      BY DEF TypeOK, Answer, Moves
    <3>. QED
      BY <1>0, <1>2, <3>1 DEF Drain, DrainRead, DrainCall, DrainMark, DrainDone, Places
  <2>. QED
    BY <2>1, <2>2, LocksQuiet DEF Performing
<1>3. CASE w \in Deliveries /\ InsertIntent(w)
  BY <1>3, LocksIntent
<1>. QED
  BY <1>1, <1>2, <1>3 DEF OutboxStep

-----------------------------------------------------------------------------
(* The types.                                                              *)
CallRecords == [ref : Nat, dedup : DedupKeys \union {NoDedup}, by : Deliveries, ok : BOOLEAN]

\* A call adds a call record or nothing.
LEMMA GatewayTypes ==
  ASSUME TypeOK, NEW d \in Deliveries, NEW ok \in BOOLEAN, GatewayCharge(d, DedupOf(d), ok)
  PROVE  calls' \subseteq CallRecords /\ issued' \in Nat
<1>1. /\ DedupOf(d) \in DedupKeys \union {NoDedup} /\ issued \in Nat /\ issued + 1 \in Nat
      /\ calls \subseteq CallRecords
  BY RequestTypes DEF TypeOK, CallRecords
<1>2. [ref |-> issued + 1, dedup |-> DedupOf(d), by |-> d, ok |-> ok] \in CallRecords
  BY <1>1 DEF CallRecords
<1>. QED
  BY <1>1, <1>2 DEF GatewayCharge, gatewayVars

\* What a handler writes to a key is a row.
LEMMA HandleKeys ==
  ASSUME TypeOK, Placed, Locks, NEW d \in Deliveries, Handle(d)
  PROVE  \/ UNCHANGED keys
         \/ \E row \in KeyRows : keys' = [keys EXCEPT ![KeyOf(d)] = row]
<1>1. CASE ClaimCommit(d) \/ Seize(d) \/ MemoCommit(d)
  BY <1>1, RowTypes DEF ClaimCommit, Seize, MemoCommit
<1>2. CASE Finish(d)
  <2>1. keys[KeyOf(d)] \in KeyRows
    BY <1>2, RequestTypes DEF Finish, Placed, Locks, RowThere, Working, TypeOK
  <2>2. FinishedRowOf(d, keys[KeyOf(d)]) \in KeyRows
    BY <2>1, FinishedRow
  <2>3. keys' = [keys EXCEPT ![KeyOf(d)] = FinishedRowOf(d, keys[KeyOf(d)])]
    BY <1>2, RequestTypes DEF Finish, FinishedRowOf, TypeOK
  <2>. QED
    BY <2>2, <2>3
<1>3. CASE ~(ClaimCommit(d) \/ Seize(d) \/ MemoCommit(d) \/ Finish(d))
  BY <1>3 DEF Handle, Receive, Lookup, ClaimInsert, ReadHeld, ChargeInsert, ReadCharge,
              CallGateway, SettleCharge, MemoInsert, Reply
<1>. QED
  BY <1>1, <1>2, <1>3

\* Types, through a step of a handler, ...
LEMMA TypesHandle ==
  ASSUME TypeOK, Placed, Locks, UNCHANGED <<cell, outboxVars>>, NEW d \in Deliveries, Handle(d)
  PROVE  TypeOK'
<1>. USE CellKept
<1>0. d \in Processes /\ KeyOf(d) \in AllKeys /\ request[d].order \in Orders
  BY RequestTypes DEF Processes
<1>1. keys' \in [AllKeys -> KeyRows \union {NoRow}]
  BY <1>0, HandleKeys DEF TypeOK
<1>2. charges' \subseteq {ChargeRow(e) : e \in Deliveries}
  <2>1. UNCHANGED charges \/ charges' = charges \union {ChargeRow(d)}
    BY DEF Handle, Receive, Lookup, ClaimInsert, ClaimCommit, ReadHeld, Seize, ChargeInsert,
           ReadCharge, CallGateway, SettleCharge, Finish, MemoInsert, MemoCommit, Reply
  <2>. QED
    BY <2>1 DEF TypeOK
<1>3. keyLock' \in [AllKeys -> Deliveries \union {NoOne}]
  <2>1. \/ UNCHANGED keyLock
        \/ \E v \in Deliveries \union {NoOne} : keyLock' = [keyLock EXCEPT ![KeyOf(d)] = v]
    BY DEF Handle, Receive, Lookup, ClaimInsert, ClaimCommit, ReadHeld, Seize, ChargeInsert,
           ReadCharge, CallGateway, SettleCharge, Finish, MemoInsert, MemoCommit, Reply
  <2>. QED
    BY <1>0, <2>1 DEF TypeOK
<1>4. orderLock' \in [Orders -> Deliveries \union {NoOne}]
  <2>1. \/ UNCHANGED orderLock \/ orderLock' = [orderLock EXCEPT ![request[d].order] = d]
        \/ orderLock' = [o \in Orders |-> IF orderLock[o] = d THEN NoOne ELSE orderLock[o]]
    BY DEF Handle, Receive, Lookup, ClaimInsert, ClaimCommit, ReadHeld, Seize, ChargeInsert,
           ReadCharge, CallGateway, SettleCharge, Finish, MemoInsert, MemoCommit, Reply
  <2>. QED
    BY <1>0, <2>1 DEF TypeOK
<1>5. now' \in Nat
  BY DEF Handle, Receive, Lookup, ClaimInsert, ClaimCommit, ReadHeld, Seize, ChargeInsert,
         ReadCharge, CallGateway, SettleCharge, Finish, MemoInsert, MemoCommit, Reply, TypeOK
<1>6. /\ gwOk' \in [Processes -> BOOLEAN] /\ calls' \subseteq CallRecords /\ issued' \in Nat
  <2>1. CASE CallGateway(d)
    BY <2>1, <1>0, GatewayTypes DEF CallGateway, TypeOK
  <2>2. CASE ~CallGateway(d)
    <3>1. UNCHANGED <<gwOk, calls, issued>>
      BY <2>2 DEF Handle, Receive, Lookup, ClaimInsert, ClaimCommit, ReadHeld, Seize, ChargeInsert,
           ReadCharge, SettleCharge, Finish, MemoInsert, MemoCommit, Reply, gatewayVars
    <3>. QED
      BY <3>1 DEF TypeOK, CallRecords
  <2>. QED
    BY <2>1, <2>2
<1>7. ControlOK'
  BY HandleControl
<1>8. /\ outbox' \in [Deliveries -> {"none", "pending", "sent", "failed"}]
      /\ outboxLock' \in [DedupKeys -> Deliveries \union {NoOne}]
      /\ todo' \in [Processes -> SUBSET Deliveries]
      /\ current' \in [Processes -> Deliveries \union {NoOne}]
  BY DEF outboxVars, TypeOK
<1>. QED
  BY <1>1, <1>2, <1>3, <1>4, <1>5, <1>6, <1>7, <1>8 DEF TypeOK, ControlOK, CallRecords

\* ... through the outbox's steps, ...
LEMMA TypesOutbox ==
  ASSUME TypeOK, UNCHANGED cell, NEW w \in Processes,
         OutboxStep(w)
  PROVE  TypeOK'
<1>. USE CellKept
<1>1. pc' \in [Processes -> Places] /\ answer' \in [Deliveries -> Answers]
  <2>1. CASE w \in Deliveries /\ Answer(w, Charged(w))
    BY <2>1, AnswerType, ResponseTypes
  <2>2. CASE ~(w \in Deliveries /\ Answer(w, Charged(w)))
    BY <2>2, GotoType DEF OutboxStep, InsertIntent, CommitAll, Drain, DrainRead, DrainCall,
                          DrainMark, DrainDone, Places
  <2>. QED
    BY <2>1, <2>2
<1>2. CASE w \in Deliveries /\ CommitAll(w)
  <2>1. keys' \in [AllKeys -> KeyRows \union {NoRow}]
    BY <1>2, RowTypes, RequestTypes DEF CommitAll, TypeOK
  <2>2. /\ charges' \subseteq {ChargeRow(e) : e \in Deliveries}
        /\ outbox' \in [Deliveries -> {"none", "pending", "sent", "failed"}]
        /\ keyLock' \in [AllKeys -> Deliveries \union {NoOne}]
        /\ outboxLock' \in [DedupKeys -> Deliveries \union {NoOne}]
    BY <1>2, RequestTypes DEF CommitAll, Settled, TypeOK
  <2>3. UNCHANGED <<orderLock, now, gwOk, todo, current, calls, issued>>
    BY <1>2 DEF CommitAll, gatewayVars
  <2>. QED
    BY <1>1, <2>1, <2>2, <2>3 DEF TypeOK
<1>3. CASE DrainRead(w)
  BY <1>1, <1>3 DEF DrainRead, Pending, gatewayVars, TypeOK
<1>4. CASE DrainCall(w)
  <2>1. PICK row \in todo[w], ok \in BOOLEAN :
          /\ GatewayCharge(row, DedupOf(row), ok)
          /\ current' = [current EXCEPT ![w] = row]
          /\ gwOk' = [gwOk EXCEPT ![w] = ok]
    BY <1>4 DEF DrainCall
  <2>2. row \in Deliveries
    BY DEF TypeOK
  <2>3. calls' \subseteq CallRecords /\ issued' \in Nat
    BY <2>1, <2>2, GatewayTypes
  <2>4. current' \in [Processes -> Deliveries \union {NoOne}] /\ gwOk' \in [Processes -> BOOLEAN]
    BY <2>1, <2>2 DEF TypeOK
  <2>. QED
    BY <1>1, <1>4, <2>3, <2>4 DEF DrainCall, TypeOK, CallRecords
<1>5. CASE DrainMark(w)
  <2>1. /\ outbox' \in [Deliveries -> {"none", "pending", "sent", "failed"}]
        /\ todo' \in [Processes -> SUBSET Deliveries]
        /\ current' \in [Processes -> Deliveries \union {NoOne}]
        /\ gwOk' \in [Processes -> BOOLEAN]
    BY <1>5 DEF DrainMark, Forget, TypeOK
  <2>2. UNCHANGED <<keys, charges, keyLock, orderLock, now, outboxLock, calls, issued>>
    BY <1>5 DEF DrainMark, gatewayVars
  <2>. QED
    BY <1>1, <2>1, <2>2 DEF TypeOK
<1>6. CASE DrainDone(w)
  BY <1>1, <1>6 DEF DrainDone, outboxVars, gatewayVars, TypeOK
<1>7. CASE w \in Deliveries /\ InsertIntent(w)
  <2>1. outboxLock' \in [DedupKeys -> Deliveries \union {NoOne}]
    BY <1>7 DEF InsertIntent, TypeOK
  <2>2. UNCHANGED <<keys, charges, keyLock, orderLock, now, gwOk, outbox, todo, current,
                    calls, issued>>
    BY <1>7 DEF InsertIntent, gatewayVars
  <2>. QED
    BY <1>1, <2>1, <2>2 DEF TypeOK
<1>. QED
  BY <1>2, <1>3, <1>4, <1>5, <1>6, <1>7 DEF OutboxStep, Drain

\* ... through a death and a tick.
LEMMA TypesDeathTick ==
  ASSUME TypeOK, UNCHANGED cell,
         (\E w \in Processes : Death(w)) \/ (Tick /\ UNCHANGED outboxVars)
  PROVE  TypeOK'
<1>. USE CellKept
<1>1. ASSUME NEW w \in Processes, Death(w) PROVE TypeOK'
  <2>1. /\ pc' \in [Processes -> Places]
        /\ keyLock' \in [AllKeys -> Deliveries \union {NoOne}]
        /\ orderLock' \in [Orders -> Deliveries \union {NoOne}]
        /\ outboxLock' \in [DedupKeys -> Deliveries \union {NoOne}]
        /\ todo' \in [Processes -> SUBSET Deliveries]
        /\ current' \in [Processes -> Deliveries \union {NoOne}]
    BY <1>1 DEF Death, Die, TypeOK, Places
  <2>2. UNCHANGED <<keys, charges, now, gwOk, answer, calls, issued, outbox>>
    BY <1>1 DEF Death, Die, gatewayVars
  <2>. QED
    BY <2>1, <2>2 DEF TypeOK
<1>2. CASE Tick /\ UNCHANGED outboxVars
  <2>1. now' \in Nat
    BY <1>2 DEF Tick, TypeOK
  <2>. QED
    BY <1>2, <2>1 DEF Tick, outboxVars, gatewayVars, TypeOK
<1>. QED
  BY <1>1, <1>2

-----------------------------------------------------------------------------
(* Where a strategy's deliveries may be.                                   *)
Allowed(w, place) ==
  /\ w \in Deliveries =>
       /\ place \in Claiming \union {"finish"} => Claims /\ HasKey(w)
       /\ place = "seize" => strategy = "lease-recovering"
       /\ place \in {"lookup", "memo", "memoed"} => strategy = "memo-after" /\ HasKey(w)
       /\ place = "collided" => strategy = "natural-key"
       /\ place \in Draining \union {"queued"} => strategy = "atomic-outbox"
       /\ place \in Performing \union {"finish", "reply"} => strategy # "atomic-outbox"
       /\ place # "idle"
  /\ w \in Reconcilers => place \in {"idle", "sending", "marking"}

\* A move to where its process is allowed keeps everybody where he may be.
LEMMA PlacedMove ==
  ASSUME TypeOK, Placed, UNCHANGED cell, NEW w \in Processes, NEW place, Moves(w, place),
         Allowed(w, place)
  PROVE  Placed'
<1>. USE CellKept
<1>0. Deliveries \subseteq Processes /\ Reconcilers \subseteq Processes
  BY DEF Processes
<1>. QED
  BY <1>0 DEF Placed, Moves, Allowed

\* A handler goes where its strategy lets it, ...
LEMMA PlacedHandle ==
  ASSUME TypeOK, Placed, UNCHANGED cell, NEW d \in Deliveries, Handle(d)
  PROVE  Placed'
<1>0. /\ d \in Processes /\ d \notin Reconcilers
      /\ \A place \in Places : Goto(d, place) => Moves(d, place)
  BY GotoType, CellAssumption DEF Processes
<1>1. \A response : Answer(d, response) => Moves(d, "answered")
  BY <1>0 DEF TypeOK, Answer, Moves
<1>2. Allowed(d, "answered")
  BY <1>0 DEF Allowed, Claiming, Performing, Draining
<1>3. ASSUME NEW place \in Places, Goto(d, place), Allowed(d, place) PROVE Placed'
  BY <1>0, <1>3, PlacedMove
<1>4. ASSUME NEW response, Answer(d, response) PROVE Placed'
  BY <1>0, <1>1, <1>2, <1>4, PlacedMove
<1>5. /\ strategy \in Strategies
      /\ Claims <=> strategy \in {"memo-before", "lease", "lease-recovering", "atomic-outbox"}
      /\ strategy = "atomic-outbox" => HasKey(d)
  BY DEF TypeOK, Claims, Uses, HasKey
<1>. USE DEF Claiming, Performing, Draining, Places
<1>6. CASE Receive(d)
  <2>1. /\ ~HasKey(d) \/ Uses({"none", "natural-key"}) => Allowed(d, "charge")
        /\ HasKey(d) /\ Claims => Allowed(d, "claim")
        /\ HasKey(d) /\ ~Uses({"none", "natural-key"}) /\ ~Claims => Allowed(d, "lookup")
    BY <1>0, <1>5 DEF Allowed, Uses, Strategies
  <2>. QED
    BY <1>3, <1>4, <1>6, <2>1 DEF Receive
<1>7. CASE Lookup(d)
  <2>1. Allowed(d, "charge")
    BY <1>0, <1>7 DEF Allowed, Lookup, Placed
  <2>. QED
    BY <1>3, <1>4, <1>7, <2>1 DEF Lookup
<1>8. CASE ClaimInsert(d)
  <2>1. Allowed(d, "claimed") /\ Allowed(d, "held")
    BY <1>0, <1>8 DEF Allowed, ClaimInsert, Placed
  <2>. QED
    BY <1>3, <1>8, <2>1 DEF ClaimInsert
<1>9. CASE ClaimCommit(d)
  <2>1. Allowed(d, "charge")
    BY <1>0, <1>9 DEF Allowed, ClaimCommit, Uses
  <2>. QED
    BY <1>3, <1>9, <2>1 DEF ClaimCommit
<1>10. CASE ReadHeld(d)
  <2>1. strategy = "lease-recovering" => Allowed(d, "seize")
    BY <1>0, <1>10 DEF Allowed, ReadHeld, Placed
  <2>. QED
    BY <1>3, <1>4, <1>10, <2>1 DEF ReadHeld
<1>11. CASE Seize(d)
  <2>1. Allowed(d, "charge")
    BY <1>0, <1>11 DEF Allowed, Seize, Placed
  <2>. QED
    BY <1>3, <1>11, <2>1 DEF Seize
<1>12. CASE ChargeInsert(d) \/ CallGateway(d)
  <2>1. Allowed(d, "gateway") /\ Allowed(d, "settle") /\ (Ordered(d) => Allowed(d, "collided"))
    BY <1>0, <1>12 DEF Allowed, ChargeInsert, CallGateway, Placed, Ordered
  <2>. QED
    BY <1>3, <1>12, <2>1 DEF ChargeInsert, CallGateway
<1>13. CASE SettleCharge(d)
  <2>1. /\ Allowed(d, "reply") /\ (HasKey(d) /\ Claims => Allowed(d, "finish"))
        /\ HasKey(d) /\ ~Uses({"none", "natural-key"}) /\ ~Claims => Allowed(d, "memo")
    BY <1>0, <1>5, <1>13 DEF Allowed, SettleCharge, Placed, Uses, Strategies
  <2>. QED
    BY <1>3, <1>13, <2>1 DEF SettleCharge
<1>14. CASE Finish(d)
  <2>1. Allowed(d, "reply")
    BY <1>0, <1>14 DEF Allowed, Finish, Placed
  <2>. QED
    BY <1>3, <1>14, <2>1 DEF Finish
<1>15. CASE MemoInsert(d) \/ MemoCommit(d)
  <2>1. Allowed(d, "memoed") /\ Allowed(d, "reply")
    BY <1>0, <1>15 DEF Allowed, MemoInsert, MemoCommit, Placed
  <2>. QED
    BY <1>3, <1>4, <1>15, <2>1 DEF MemoInsert, MemoCommit
<1>16. CASE ReadCharge(d) \/ Reply(d)
  BY <1>4, <1>16 DEF ReadCharge, Reply
<1>. QED
  BY <1>6, <1>7, <1>8, <1>9, <1>10, <1>11, <1>12, <1>13, <1>14, <1>15, <1>16 DEF Handle

\* ... and so do the outbox and a death.
LEMMA PlacedOther ==
  ASSUME TypeOK, Placed, UNCHANGED cell, NEW w \in Processes,
         OutboxStep(w) \/ Death(w)
  PROVE  Placed'
<1>0. Deliveries \intersect Reconcilers = {}
  BY CellAssumption
<1>1. PICK place : Moves(w, place) /\ Allowed(w, place)
  <2>1. \A place \in Places : Goto(w, place) => Moves(w, place)
    BY GotoType
  <2>2. \A response : Answer(w, response) => Moves(w, "answered")
    BY DEF TypeOK, Answer, Moves
  <2>. USE DEF Allowed, Claiming, Performing, Draining, Places
  <2>3. CASE w \in Deliveries /\ CommitAll(w)
    <3>1. Moves(w, "drain") /\ strategy = "atomic-outbox"
      BY <2>1, <2>3 DEF CommitAll, Placed
    <3>. QED
      BY <1>0, <2>3, <3>1
  <2>4. CASE Drain(w)
    <3>1. w \in Deliveries => strategy = "atomic-outbox"
      BY <2>4 DEF Drain, DrainRead, DrainCall, DrainMark, DrainDone, Placed, Uses
    <3>2. CASE DrainDone(w)
      BY <1>0, <2>1, <2>2, <3>2 DEF DrainDone, Processes
    <3>3. CASE DrainRead(w) \/ DrainCall(w) \/ DrainMark(w)
      <4>1. Moves(w, "sending") \/ Moves(w, "marking")
        BY <2>1, <3>3 DEF DrainRead, DrainCall, DrainMark
      <4>. QED
        BY <1>0, <3>1, <4>1
    <3>. QED
      BY <2>4, <3>2, <3>3 DEF Drain
  <2>5. CASE Death(w)
    <3>1. Moves(w, IF w \in Deliveries THEN "dead" ELSE "idle")
      BY <2>5 DEF Death, Die, Moves, TypeOK
    <3>. QED
      BY <1>0, <3>1 DEF Processes
  <2>6. CASE w \in Deliveries /\ InsertIntent(w)
    <3>1. (Moves(w, "queued") \/ Moves(w, "held")) /\ strategy = "atomic-outbox"
      BY <2>1, <2>6 DEF InsertIntent, Uses
    <3>. QED
      BY <1>0, <2>6, <3>1 DEF Claims, Uses, HasKey
  <2>. QED
    BY <2>3, <2>4, <2>5, <2>6 DEF OutboxStep
<1>. QED
  BY <1>1, PlacedMove

\* Which handler step leads where.
LEMMA HandleMoves ==
  ASSUME TypeOK, NEW d \in Deliveries, Handle(d)
  PROVE  /\ Moves(d, pc'[d]) /\ UNCHANGED now
         /\ pc'[d] \notin Draining
         /\ pc'[d] = "charge" => Receive(d) \/ Lookup(d) \/ ClaimCommit(d) \/ Seize(d)
         /\ pc'[d] \in {"gateway", "collided"} => ChargeInsert(d)
         /\ pc'[d] = "settle" => CallGateway(d)
         /\ pc'[d] \in {"finish", "memo"} => SettleCharge(d)
         /\ pc'[d] = "memoed" => MemoInsert(d)
         /\ pc'[d] = "reply" => SettleCharge(d) \/ Finish(d) \/ MemoCommit(d)
<1>0. /\ d \in Processes
      /\ \A place \in Places : Goto(d, place) => Moves(d, place) /\ pc'[d] = place
  BY GotoType DEF Processes, Moves
<1>1. \A response : Answer(d, response) => Moves(d, "answered") /\ pc'[d] = "answered"
  BY <1>0 DEF TypeOK, Answer, Moves
<1>2. UNCHANGED now
  BY DEF Handle, Receive, Lookup, ClaimInsert, ClaimCommit, ReadHeld, Seize, ChargeInsert,
         ReadCharge, CallGateway, SettleCharge, Finish, MemoInsert, MemoCommit, Reply
<1>. USE DEF Places, Draining
<1>3. CASE Receive(d) \/ Lookup(d) \/ ReadHeld(d)
  BY <1>0, <1>1, <1>2, <1>3 DEF Receive, Lookup, ReadHeld
<1>4. CASE ClaimInsert(d) \/ ClaimCommit(d) \/ Seize(d)
  BY <1>0, <1>2, <1>4 DEF ClaimInsert, ClaimCommit, Seize
<1>5. CASE ChargeInsert(d) \/ CallGateway(d) \/ SettleCharge(d)
  BY <1>0, <1>2, <1>5 DEF ChargeInsert, CallGateway, SettleCharge
<1>6. CASE Finish(d) \/ MemoInsert(d) \/ MemoCommit(d)
  BY <1>0, <1>1, <1>2, <1>6 DEF Finish, MemoInsert, MemoCommit
<1>7. CASE ReadCharge(d) \/ Reply(d)
  <2>1. \E response : Answer(d, response)
    BY <1>7 DEF ReadCharge, Reply
  <2>. QED
    BY <1>1, <1>2, <2>1
<1>. QED
  BY <1>3, <1>4, <1>5, <1>6, <1>7 DEF Handle

-----------------------------------------------------------------------------
(* The money.                                                              *)
\* One call to the gateway: a dedup key it has heard is not performed again, and a
\* call it approves is backed by money.
LEMMA GatewayOnce ==
  ASSUME TypeOK, CallsOnce, UNCHANGED cell, NEW d \in Deliveries, NEW ok \in BOOLEAN,
         GatewayCharge(d, DedupOf(d), ok)
  PROVE  /\ CallsOnce' /\ calls \subseteq calls'
         /\ ok => Backed(d)'
         /\ \A m \in calls' : m \in calls \/ m.by = d
<1>. USE CellKept
<1>. DEFINE new == [ref |-> issued + 1, dedup |-> DedupOf(d), by |-> d, ok |-> ok]
<1>1. /\ \A m \in calls : m.ref \in Nat /\ m.by \in Deliveries
      /\ issued \in Nat
  BY DEF TypeOK
<1>2. CASE Recorded(DedupOf(d)) # {}
  <2>1. PICK c \in Recorded(DedupOf(d)) : ok = c.ok
    BY <1>2 DEF GatewayCharge
  <2>2. UNCHANGED <<calls, issued>>
    BY <1>2 DEF GatewayCharge, gatewayVars
  <2>3. c \in calls /\ DedupOf(d) # NoDedup /\ c.dedup = DedupOf(d)
    BY <2>1 DEF Recorded
  <2>. QED
    BY <2>1, <2>2, <2>3 DEF CallsOnce, Backed, MoneyMoved
<1>3. CASE Recorded(DedupOf(d)) = {}
  <2>1. calls' = calls \union {new} /\ issued' = issued + 1
    BY <1>3 DEF GatewayCharge
  <2>2. new.dedup = DedupOf(d) /\ new.by = d /\ new.ok = ok /\ new.ref = issued + 1
    OBVIOUS
  <2>. HIDE DEF new
  <2>3. \A m \in calls : new.dedup # NoDedup => m.dedup # new.dedup
    BY <1>3, <2>2 DEF Recorded
  <2>4. CallsOnce'
    <3>. SUFFICES ASSUME NEW m \in calls', NEW n \in calls'
                  PROVE  /\ m.dedup = DedupOf(m.by)
                         /\ m.dedup # NoDedup /\ m.dedup = n.dedup => m = n
                         /\ m.ref <= issued'
      BY DEF CallsOnce
    <3>1. m.dedup = DedupOf(m.by) /\ m.ref <= issued'
      BY <1>1, <2>1, <2>2 DEF CallsOnce
    <3>2. m.dedup # NoDedup /\ m.dedup = n.dedup => m = n
      BY <2>1, <2>2, <2>3 DEF CallsOnce
    <3>. QED
      BY <3>1, <3>2
  <2>5. ok => Backed(d)'
    BY <2>1, <2>2 DEF Backed, MoneyMoved
  <2>. QED
    BY <2>1, <2>2, <2>4, <2>5
<1>. QED
  BY <1>2, <1>3

\* The ledger of the gateway only grows, and what was backed stays so.
LEMMA StaysBacked ==
  ASSUME UNCHANGED cell, calls \subseteq calls', NEW d, Backed(d)
  PROVE  Backed(d)'
BY CellKept DEF Backed, MoneyMoved

\* What was answered or committed is backed by money, after a handler's step, ...
LEMMA MoneyHandle ==
  ASSUME TypeOK, Placed, Money, UNCHANGED cell, NEW d \in Deliveries, Handle(d)
  PROVE  Money'
<1>. USE CellKept
<1>0. Moves(d, pc'[d]) /\ (pc'[d] = "settle" => CallGateway(d)) /\ Deliveries \subseteq Processes
  BY HandleMoves DEF Processes
<1>1. CASE CallGateway(d)
  <2>1. PICK ok \in BOOLEAN : /\ GatewayCharge(d, DedupOf(d), ok)
                              /\ gwOk' = [gwOk EXCEPT ![d] = ok]
    BY <1>1 DEF CallGateway
  <2>2. CallsOnce' /\ calls \subseteq calls' /\ (ok => Backed(d)')
    BY <2>1, GatewayOnce DEF Money
  <2>3. \A e \in Deliveries : pc'[e] = "settle" /\ gwOk'[e] => Backed(e)'
    <3>. SUFFICES ASSUME NEW e \in Deliveries, pc'[e] = "settle", gwOk'[e] PROVE Backed(e)'
      OBVIOUS
    <3>1. CASE e = d
      BY <1>0, <2>1, <2>2, <3>1 DEF TypeOK
    <3>2. CASE e # d
      BY <1>0, <2>1, <2>2, <3>2, StaysBacked DEF Money, AnsweredByMoney, Moves, TypeOK
    <3>. QED
      BY <3>1, <3>2
  <2>4. UNCHANGED charges
    BY <1>1 DEF CallGateway
  <2>. QED
    BY <2>2, <2>3, <2>4, StaysBacked DEF Money, AnsweredByMoney
<1>2. CASE ~CallGateway(d)
  <2>1. UNCHANGED <<gwOk, calls, issued>>
    BY <1>2 DEF Handle, Receive, Lookup, ClaimInsert, ClaimCommit, ReadHeld, Seize, ChargeInsert,
         ReadCharge, SettleCharge, Finish, MemoInsert, MemoCommit, Reply, gatewayVars
  <2>2. \/ UNCHANGED charges
        \/ SettleCharge(d) /\ gwOk[d] /\ charges' = charges \union {ChargeRow(d)}
    BY <1>2 DEF Handle, Receive, Lookup, ClaimInsert, ClaimCommit, ReadHeld, Seize, ChargeInsert,
         ReadCharge, SettleCharge, Finish, MemoInsert, MemoCommit, Reply
  <2>3. CallsOnce' /\ (\A e : Backed(e)' <=> Backed(e))
    BY <2>1 DEF Money, CallsOnce, Backed, MoneyMoved
  <2>4. \A e \in Deliveries : pc'[e] = "settle" /\ gwOk'[e] => Backed(e)'
    BY <1>0, <1>2, <2>1, <2>3 DEF Money, AnsweredByMoney, Moves
  <2>5. strategy # "atomic-outbox" => \A c \in charges' : Backed(c.by)'
    BY <2>2, <2>3, RequestTypes DEF Money, AnsweredByMoney, SettleCharge
  <2>. QED
    BY <2>3, <2>4, <2>5 DEF Money, AnsweredByMoney
<1>. QED
  BY <1>1, <1>2

\* ... and after anybody else's.
LEMMA MoneyOther ==
  ASSUME TypeOK, Placed, Money, UNCHANGED cell,
         \/ \E w \in Processes : OutboxStep(w) \/ Death(w)
         \/ Tick
  PROVE  Money'
<1>. USE CellKept
<1>1. CASE Tick
  BY <1>1 DEF Tick, Money, CallsOnce, AnsweredByMoney, Backed, MoneyMoved, gatewayVars
<1>2. ASSUME NEW w \in Processes, OutboxStep(w) \/ Death(w)
      PROVE  Money'
  <2>1. CallsOnce' /\ calls \subseteq calls'
    <3>1. CASE DrainCall(w)
      <4>1. PICK row \in todo[w], ok \in BOOLEAN : GatewayCharge(row, DedupOf(row), ok)
        BY <3>1 DEF DrainCall
      <4>2. row \in Deliveries
        BY <1>2 DEF TypeOK
      <4>. QED
        BY <4>1, <4>2, GatewayOnce DEF Money
    <3>2. CASE ~DrainCall(w)
      <4>1. UNCHANGED <<calls, issued>>
        BY <1>2, <3>2 DEF OutboxStep, InsertIntent, CommitAll, Drain, DrainRead, DrainMark,
                          DrainDone, Death, Die, gatewayVars
      <4>. QED
        BY <4>1 DEF Money, CallsOnce
    <3>. QED
      BY <3>1, <3>2
  <2>2. \A e \in Deliveries : pc'[e] = "settle" => pc[e] = "settle" /\ gwOk'[e] = gwOk[e]
    <3>1. \A e \in Deliveries : e # w => pc'[e] = pc[e] /\ gwOk'[e] = gwOk[e]
      BY <1>2 DEF OutboxStep, InsertIntent, CommitAll, Drain, DrainRead, DrainCall, DrainMark,
                  DrainDone, Death, Die, Forget, Goto, Answer, TypeOK, Processes
    <3>2. pc'[w] # "settle"
      BY <1>2 DEF OutboxStep, InsertIntent, CommitAll, Drain, DrainRead, DrainCall, DrainMark,
                  DrainDone, Death, Die, Goto, Answer, TypeOK
    <3>. QED
      BY <3>1, <3>2
  <2>3. strategy # "atomic-outbox" => UNCHANGED charges
    BY <1>2 DEF OutboxStep, InsertIntent, CommitAll, Drain, DrainRead, DrainCall, DrainMark,
                DrainDone, Death, Die, Placed
  <2>. QED
    BY <2>1, <2>2, <2>3, StaysBacked DEF Money, AnsweredByMoney
<1>. QED
  BY <1>1, <1>2

-----------------------------------------------------------------------------
(* What is committed.                                                      *)
\* A handler commits a charge in one step only, and asks the gateway in one other.
LEMMA HandleEffects ==
  ASSUME NEW d \in Deliveries, Handle(d)
  PROVE  /\ \/ UNCHANGED charges
            \/ SettleCharge(d) /\ gwOk[d] /\ charges' = charges \union {ChargeRow(d)}
         /\ charges \subseteq charges'
         /\ CallGateway(d) \/ UNCHANGED <<gwOk, calls, issued>>
<1>1. \/ UNCHANGED charges
      \/ SettleCharge(d) /\ gwOk[d] /\ charges' = charges \union {ChargeRow(d)}
  BY DEF Handle, Receive, Lookup, ClaimInsert, ClaimCommit, ReadHeld, Seize, ChargeInsert,
         ReadCharge, CallGateway, SettleCharge, Finish, MemoInsert, MemoCommit, Reply
<1>2. CallGateway(d) \/ UNCHANGED <<gwOk, calls, issued>>
  BY DEF Handle, Receive, Lookup, ClaimInsert, ClaimCommit, ReadHeld, Seize, ChargeInsert,
         ReadCharge, SettleCharge, Finish, MemoInsert, MemoCommit, Reply, gatewayVars
<1>. QED
  BY <1>1, <1>2

\* A handler speaks of a charge after its commit, ...
LEMMA CommittedHandle ==
  ASSUME TypeOK, Placed, CallsOnce, Committed, UNCHANGED <<cell, outboxVars>>,
         NEW d \in Deliveries, Handle(d)
  PROVE  Committed'
<1>. USE CellKept, HandleEffects
<1>0. /\ Moves(d, pc'[d]) /\ Deliveries \subseteq Processes /\ pc'[d] \notin Draining
      /\ UNCHANGED <<outbox, todo, current>>
  BY HandleMoves DEF Processes, outboxVars
<1>1. \A e \in Deliveries : e # d => pc'[e] = pc[e] /\ gwOk'[e] = gwOk[e]
  BY <1>0 DEF Moves, CallGateway, TypeOK
<1>2. pc'[d] \in {"finish", "memo", "memoed", "reply"} /\ gwOk'[d] => ChargeRow(d) \in charges'
  <2>. SUFFICES ASSUME pc'[d] \in {"finish", "memo", "memoed", "reply"}, gwOk'[d]
                PROVE  ChargeRow(d) \in charges'
    OBVIOUS
  <2>1. SettleCharge(d) \/ MemoInsert(d) \/ Finish(d) \/ MemoCommit(d)
    BY HandleMoves
  <2>. QED
    BY <2>1 DEF SettleCharge, MemoInsert, Finish, MemoCommit, Committed
<1>3. \A e \in Deliveries : pc'[e] \in Draining \/ outbox'[e] # "none" => ChargeRow(e) \in charges'
  BY <1>0, <1>1 DEF Committed
<1>4. \A w \in Processes :
        /\ \A e \in todo'[w] : outbox'[e] # "none"
        /\ pc'[w] = "marking" => current'[w] \in Deliveries /\ outbox'[current'[w]] # "none"
  BY <1>0 DEF Committed, Moves, Draining
<1>5. strategy = "atomic-outbox" => \A m \in calls' : ChargeRow(m.by) \in charges'
  BY DEF Committed, CallGateway, Placed, Performing
<1>. QED
  BY <1>1, <1>2, <1>3, <1>4, <1>5 DEF Committed

\* ... a drain sends and marks what is committed, ...
LEMMA CommittedOutbox ==
  ASSUME TypeOK, Placed, CallsOnce, Committed, UNCHANGED cell, NEW w \in Processes,
         OutboxStep(w)
  PROVE  Committed'
<1>. USE CellKept
<1>0. /\ Deliveries \subseteq Processes
      /\ \A place \in Places : Goto(w, place) => Moves(w, place)
      /\ \A response : Answer(w, response) => Moves(w, "answered")
  BY GotoType DEF Processes, TypeOK, Answer, Moves
<1>1. CASE w \in Deliveries /\ CommitAll(w)
  <2>1. /\ Moves(w, "drain") /\ charges' = charges \union {ChargeRow(w)}
        /\ outbox' = [outbox EXCEPT ![w] = "pending"] /\ UNCHANGED <<todo, current, gwOk, calls>>
    BY <1>0, <1>1 DEF CommitAll, Places, gatewayVars
  <2>2. \A e \in Deliveries : e # w => pc'[e] = pc[e] /\ outbox'[e] = outbox[e]
    BY <1>0, <2>1 DEF Moves, TypeOK
  <2>3. outbox'[w] = "pending" /\ pc'[w] = "drain"
    BY <1>1, <2>1 DEF Moves, TypeOK
  <2>4. \A e \in Deliveries : outbox[e] # "none" => outbox'[e] # "none"
    BY <2>2, <2>3
  <2>5. \A e \in Deliveries :
          /\ pc'[e] \in {"finish", "memo", "memoed", "reply"} /\ gwOk'[e] =>
               ChargeRow(e) \in charges'
          /\ pc'[e] \in Draining \/ outbox'[e] # "none" => ChargeRow(e) \in charges'
    BY <2>1, <2>2, <2>3 DEF Committed
  <2>6. \A v \in Processes :
          /\ \A e \in todo'[v] : outbox'[e] # "none"
          /\ pc'[v] = "marking" => current'[v] \in Deliveries /\ outbox'[current'[v]] # "none"
    BY <2>1, <2>3, <2>4 DEF Committed, Moves, TypeOK
  <2>. QED
    BY <2>1, <2>5, <2>6 DEF Committed
<1>2. CASE Drain(w)
  <2>0. UNCHANGED charges /\ (w \in Deliveries => ChargeRow(w) \in charges)
    BY <1>2 DEF Drain, DrainRead, DrainCall, DrainMark, DrainDone, Committed, Placed, Draining
  <2>1. PICK place \in {"sending", "marking", "answered", "idle"} : Moves(w, place)
    BY <1>0, <1>2 DEF Drain, DrainRead, DrainCall, DrainMark, DrainDone, Places
  <2>2. \A v \in Processes : v # w => pc'[v] = pc[v] /\ gwOk'[v] = gwOk[v]
    BY <1>2, <2>1 DEF Drain, DrainRead, DrainCall, DrainMark, DrainDone, Forget, Moves, TypeOK
  <2>3. \A e \in Deliveries :
          pc'[e] \in {"finish", "memo", "memoed", "reply"} /\ gwOk'[e] => ChargeRow(e) \in charges'
    BY <1>0, <2>0, <2>1, <2>2 DEF Committed, Moves
  <2>4. CASE DrainRead(w)
    <3>1. Moves(w, "sending") /\ UNCHANGED <<outbox, current, calls>>
      BY <1>0, <2>4 DEF DrainRead, Places, gatewayVars
    <3>2. \A v \in Processes : \A e \in todo'[v] : outbox'[e] # "none"
      BY <2>4, <3>1 DEF DrainRead, Pending, Committed, TypeOK
    <3>. QED
      BY <2>0, <2>2, <2>3, <3>1, <3>2, <1>0 DEF Committed, Moves
  <2>5. CASE DrainCall(w)
    <3>1. PICK row \in todo[w], ok \in BOOLEAN :
            /\ GatewayCharge(row, DedupOf(row), ok)
            /\ current' = [current EXCEPT ![w] = row]
      BY <2>5 DEF DrainCall
    <3>2. row \in Deliveries /\ outbox[row] # "none" /\ ChargeRow(row) \in charges
      BY DEF TypeOK, Committed
    <3>3. \A m \in calls' : m \in calls \/ m.by = row
      BY <3>1, <3>2, GatewayOnce
    <3>4. UNCHANGED <<outbox, todo>>
      BY <2>5 DEF DrainCall
    <3>5. \A v \in Processes : pc'[v] = "marking" =>
            current'[v] \in Deliveries /\ outbox'[current'[v]] # "none"
      BY <2>2, <3>1, <3>2, <3>4 DEF Committed, TypeOK
    <3>6. \A e \in Deliveries :
            pc'[e] \in Draining \/ outbox'[e] # "none" => ChargeRow(e) \in charges'
      BY <1>0, <2>0, <2>2, <3>4 DEF Committed
    <3>7. strategy = "atomic-outbox" => \A m \in calls' : ChargeRow(m.by) \in charges'
      BY <2>0, <3>2, <3>3 DEF Committed
    <3>. QED
      BY <2>3, <3>4, <3>5, <3>6, <3>7 DEF Committed
  <2>6. CASE DrainMark(w)
    <3>1. Moves(w, "sending") /\ UNCHANGED calls
      BY <1>0, <2>6 DEF DrainMark, Places, gatewayVars
    <3>2. current[w] \in Deliveries /\ outbox[current[w]] # "none"
      BY <2>6 DEF DrainMark, Committed
    <3>3. \A e \in Deliveries : outbox'[e] # "none" <=> outbox[e] # "none"
      BY <2>6, <3>2 DEF DrainMark, TypeOK
    <3>4. \A v \in Processes : todo'[v] \subseteq todo[v] /\ (v # w => current'[v] = current[v])
      BY <2>6 DEF DrainMark, Forget, TypeOK
    <3>5. \A v \in Processes :
            /\ \A e \in todo'[v] : outbox'[e] # "none"
            /\ pc'[v] = "marking" => current'[v] \in Deliveries /\ outbox'[current'[v]] # "none"
      BY <2>2, <3>1, <3>3, <3>4 DEF Committed, Moves, TypeOK
    <3>6. \A e \in Deliveries :
            pc'[e] \in Draining \/ outbox'[e] # "none" => ChargeRow(e) \in charges'
      BY <1>0, <2>0, <2>2, <3>3 DEF Committed
    <3>. QED
      BY <2>0, <2>3, <3>1, <3>5, <3>6 DEF Committed
  <2>7. CASE DrainDone(w)
    <3>1. pc'[w] \notin Draining /\ UNCHANGED <<outbox, todo, current, calls>>
      BY <1>0, <2>7 DEF DrainDone, outboxVars, gatewayVars, Moves, Places, Draining
    <3>. QED
      BY <1>0, <2>0, <2>2, <2>3, <3>1 DEF Committed, Draining
  <2>. QED
    BY <1>2, <2>4, <2>5, <2>6, <2>7 DEF Drain
<1>3. CASE w \in Deliveries /\ InsertIntent(w)
  <2>1. UNCHANGED <<charges, gwOk, outbox, todo, current, calls>>
    BY <1>3 DEF InsertIntent, gatewayVars
  <2>2. Moves(w, "queued") \/ Moves(w, "held")
    BY <1>0, <1>3 DEF InsertIntent, Places
  <2>3. /\ \A v \in Processes : v # w => pc'[v] = pc[v]
        /\ pc'[w] \in {"queued", "held"}
    BY <2>2 DEF Moves
  <2>. QED
    BY <1>0, <2>1, <2>3 DEF Committed, Draining
<1>. QED
  BY <1>1, <1>2, <1>3 DEF OutboxStep

\* ... and a death uncommits nothing.
LEMMA CommittedDeathTick ==
  ASSUME TypeOK, Placed, Committed, UNCHANGED cell,
         (\E w \in Processes : Death(w)) \/ (Tick /\ UNCHANGED outboxVars)
  PROVE  Committed'
<1>. USE CellKept
<1>1. ASSUME NEW w \in Processes, Death(w) PROVE Committed'
  <2>1. /\ UNCHANGED <<charges, gwOk, outbox, calls>> /\ pc'[w] \in {"dead", "idle"}
        /\ \A v \in Processes : v # w => pc'[v] = pc[v] /\ current'[v] = current[v]
        /\ \A v \in Processes : todo'[v] \subseteq todo[v]
    BY <1>1 DEF Death, Die, gatewayVars, TypeOK
  <2>. QED
    BY <2>1 DEF Committed, Draining, Processes
<1>2. CASE Tick /\ UNCHANGED outboxVars
  BY <1>2 DEF Tick, outboxVars, gatewayVars, Committed
<1>. QED
  BY <1>1, <1>2

-----------------------------------------------------------------------------
(* What is recorded for a key.                                             *)
\* A handler that records a success records it of its own committed charge, ...
LEMMA Recorded201Handle ==
  ASSUME TypeOK, Placed, Locks, Committed, Recorded201, UNCHANGED cell,
         NEW d \in Deliveries, Handle(d)
  PROVE  Recorded201'
<1>. USE CellKept
<1>0. KeyOf(d) \in AllKeys /\ charges \subseteq charges'
  BY RequestTypes, HandleEffects
<1>. SUFFICES ASSUME Uses({"lease", "lease-recovering", "atomic-outbox"}),
                     NEW k \in AllKeys, keys'[k] # NoRow, keys'[k].status = 201
              PROVE  \E c \in charges' :
                       /\ c.by = keys'[k].charge /\ c.principal = k[1]
                       /\ strategy # "lease" => /\ keys'[k].mark = <<c.order, c.amount>>
                                                /\ keys'[k].amount = c.amount
  BY DEF Recorded201
<1>1. CASE keys'[k] = keys[k]
  BY <1>0, <1>1 DEF Recorded201
<1>2. CASE Finish(d) /\ k = KeyOf(d)
  <2>1. keys[k] \in KeyRows /\ Performs(d)
    BY <1>0, <1>2 DEF Finish, Placed, Locks, RowThere, Working, Performs, TypeOK
  <2>2. keys'[k] = FinishedRowOf(d, keys[k])
    BY <1>0, <1>2 DEF Finish, FinishedRowOf, TypeOK
  <2>3. /\ keys'[k].mark = keys[k].mark /\ keys'[k].status = Outcome(d).status
        /\ keys'[k].charge = Outcome(d).charge /\ keys'[k].amount = Outcome(d).amount
    BY <2>1, <2>2, FinishedRow
  <2>4. gwOk[d] /\ keys'[k].charge = d /\ keys'[k].amount = request[d].amount
    BY <2>3 DEF Outcome, Charged, Refusal
  <2>5. ChargeRow(d) \in charges' /\ k[1] = request[d].principal
    BY <1>0, <1>2, <2>4 DEF Committed, Finish, KeyOf, Uses
  <2>6. strategy # "lease" => keys'[k].mark = <<request[d].order, request[d].amount>>
    BY <1>2, <2>1, <2>3 DEF Placed, Finish, Locks, Marked, Working, Fingerprint, Uses
  <2>. QED
    BY <2>4, <2>5, <2>6 DEF ChargeRow
<1>3. CASE keys'[k] # keys[k] /\ ~(Finish(d) /\ k = KeyOf(d))
  <2>1. k = KeyOf(d) /\ (ClaimCommit(d) \/ Seize(d) \/ MemoCommit(d))
    BY <1>0, <1>3 DEF Handle, Receive, Lookup, ClaimInsert, ClaimCommit, ReadHeld, Seize,
           ChargeInsert, ReadCharge, CallGateway, SettleCharge, Finish, MemoInsert, MemoCommit,
           Reply, TypeOK
  <2>2. ~MemoCommit(d)
    BY DEF MemoCommit, Placed, Uses
  <2>3. keys'[k] = Row(d, "in-progress", NoAnswer)
    BY <1>0, <2>1, <2>2 DEF ClaimCommit, ClaimRow, Seize, Uses, TypeOK
  <2>. QED
    BY <2>3 DEF Row, NoAnswer, Refusal
<1>. QED
  BY <1>1, <1>2, <1>3

\* ... and so does the one commit of atomic-outbox.
LEMMA Recorded201Other ==
  ASSUME TypeOK, Placed, Recorded201, UNCHANGED cell,
         \/ \E w \in Processes : OutboxStep(w) \/ Death(w)
         \/ Tick
  PROVE  Recorded201'
<1>. USE CellKept
<1>1. ASSUME NEW d \in Deliveries, CommitAll(d) PROVE Recorded201'
  <2>0. KeyOf(d) \in AllKeys
    BY RequestTypes
  <2>1. /\ strategy = "atomic-outbox"
        /\ keys' = [keys EXCEPT ![KeyOf(d)] = Row(d, "done", Charged(d))]
        /\ charges' = charges \union {ChargeRow(d)}
    BY <1>1 DEF CommitAll, ClaimRow, Placed
  <2>2. \A k \in AllKeys : k # KeyOf(d) => keys'[k] = keys[k]
    BY <2>0, <2>1 DEF TypeOK
  <2>3. /\ keys'[KeyOf(d)].charge = d /\ keys'[KeyOf(d)].amount = request[d].amount
        /\ keys'[KeyOf(d)].mark = <<request[d].order, request[d].amount>>
        /\ KeyOf(d)[1] = request[d].principal
    BY <2>0, <2>1 DEF TypeOK, Row, Charged, Fingerprint, KeyOf
  <2>4. ChargeRow(d).by = d /\ ChargeRow(d).principal = request[d].principal
        /\ ChargeRow(d).order = request[d].order /\ ChargeRow(d).amount = request[d].amount
    BY DEF ChargeRow
  <2>. QED
    BY <2>1, <2>2, <2>3, <2>4 DEF Recorded201
<1>2. ASSUME UNCHANGED <<keys, charges>> PROVE Recorded201'
  BY <1>2 DEF Recorded201
<1>3. ASSUME NEW w \in Processes, Drain(w) \/ Death(w) PROVE UNCHANGED <<keys, charges>>
  BY <1>3 DEF Drain, DrainRead, DrainCall, DrainMark, DrainDone, Death, Die
<1>4. Tick => UNCHANGED <<keys, charges>>
  BY DEF Tick
<1>5. ASSUME NEW d \in Deliveries, InsertIntent(d) PROVE UNCHANGED <<keys, charges>>
  BY <1>5 DEF InsertIntent
<1>. QED
  BY <1>1, <1>2, <1>3, <1>4, <1>5 DEF OutboxStep

-----------------------------------------------------------------------------
(* One charge each.                                                        *)
\* A key once inserted is never deleted by a handler.
LEMMA RowsStay ==
  ASSUME TypeOK, Placed, Locks, NEW d \in Deliveries, Handle(d)
  PROVE  \A k \in AllKeys : keys[k] # NoRow => keys'[k] # NoRow
BY HandleKeys, RequestTypes, SentinelAssumption DEF TypeOK

\* A charge of a claimed key is the last for it.
LEMMA ChargedOnceHandle ==
  ASSUME TypeOK, Placed, Locks, ChargedOnce, UNCHANGED cell, NEW d \in Deliveries, Handle(d)
  PROVE  ChargedOnce'
<1>. USE CellKept
<1>. SUFFICES ASSUME Uses({"memo-before", "lease", "atomic-outbox"})
              PROVE  /\ \A c \in charges' : HasKey(c.by) => keys'[KeyOf(c.by)] # NoRow
                     /\ \A c \in charges' : \A e \in Deliveries :
                          pc'[e] \in Performing => ~SameKey(e, c.by)
  BY DEF ChargedOnce
<1>0. /\ Deliveries \subseteq Processes /\ Claims /\ (\A e \in Deliveries : KeyOf(e) \in AllKeys)
      /\ Moves(d, pc'[d])
      /\ \A c \in charges : c.by \in Deliveries
  BY RequestTypes, HandleMoves DEF Processes, Claims, Uses, TypeOK
<1>1. \A c \in charges' : c \in charges \/ (SettleCharge(d) /\ c.by = d)
  BY HandleEffects, RequestTypes
<1>2. SettleCharge(d) => pc'[d] \notin Performing
  BY <1>0 DEF SettleCharge, Goto, Performing, TypeOK
<1>3. ASSUME NEW c \in charges', HasKey(c.by) PROVE keys'[KeyOf(c.by)] # NoRow
  <2>1. CASE c \in charges
    BY <1>0, <1>3, <2>1, RowsStay DEF ChargedOnce
  <2>2. CASE SettleCharge(d) /\ c.by = d
    <3>1. keys[KeyOf(d)] # NoRow
      BY <1>0, <1>3, <2>2 DEF SettleCharge, Locks, RowThere, Working
    <3>. QED
      BY <1>0, <2>2, <3>1, RowsStay
  <2>. QED
    BY <1>1, <2>1, <2>2
<1>4. ASSUME NEW c \in charges', NEW e \in Deliveries, pc'[e] \in Performing, SameKey(e, c.by)
      PROVE  FALSE
  <2>1. CASE c \in charges /\ pc[e] \in Performing
    BY <1>4, <2>1 DEF ChargedOnce
  <2>2. CASE c \in charges /\ pc[e] \notin Performing
    <3>1. e = d
      BY <1>0, <1>4, <2>2 DEF Moves
    <3>2. pc'[d] = "charge"
      BY <1>4, <2>2, <3>1, HandleMoves DEF Performing, ChargeInsert, CallGateway
    <3>3. HasKey(d) /\ HasKey(c.by) /\ KeyOf(d) = KeyOf(c.by)
      BY <1>4, <3>1 DEF SameKey
    <3>4. ClaimCommit(d)
      <4>1. Receive(d) \/ Lookup(d) \/ ClaimCommit(d) \/ Seize(d)
        BY <3>2, HandleMoves
      <4>2. ~Lookup(d) /\ ~Seize(d)
        BY DEF Lookup, Seize, Placed, Uses
      <4>3. ~Receive(d)
        BY <1>0, <3>2, <3>3 DEF Receive, Goto, Answer, Uses, TypeOK
      <4>. QED
        BY <4>1, <4>2, <4>3
    <3>5. keys[KeyOf(d)] = NoRow
      BY <3>4 DEF ClaimCommit, Locks, Inserting, Reserved
    <3>. QED
      BY <2>2, <3>3, <3>5 DEF ChargedOnce
  <2>3. CASE SettleCharge(d) /\ c.by = d
    <3>1. e # d /\ pc[e] \in Performing /\ pc[d] = "settle"
      BY <1>0, <1>2, <1>4, <2>3 DEF Moves, SettleCharge
    <3>. QED
      BY <1>0, <1>4, <2>3, <3>1 DEF Locks, OneWorkerPerKey, Working, SameKey, Performing, Uses
  <2>. QED
    BY <1>1, <2>1, <2>2, <2>3
<1>. QED
  BY <1>3, <1>4

\* A new charge is for a key, or an order, that has none.
LEMMA OneChargeEachHandle ==
  ASSUME TypeOK, OnceEach, UNCHANGED cell, NEW d \in Deliveries, Handle(d)
  PROVE  OneChargeEach'
<1>. USE CellKept
<1>1. \A c \in charges' : c \in charges \/ (SettleCharge(d) /\ c = ChargeRow(d))
  BY HandleEffects
<1>2. ASSUME SettleCharge(d), NEW c \in charges
      PROVE  /\ Uses({"memo-before", "lease", "atomic-outbox"}) =>
                  ~SameKey(d, c.by) /\ ~SameKey(c.by, d)
             /\ Uses({"natural-key"}) => c.order # ChargeRow(d).order
  BY <1>2 DEF SettleCharge, OnceEach, ChargedOnce, OrderedOnce, Performing, SameKey, SameOrder,
                  ChargeRow, Uses
<1>3. ChargeRow(d).by = d
  BY DEF ChargeRow
<1>. QED
  BY <1>1, <1>2, <1>3 DEF OnceEach, OneChargeEach

\* natural-key: whoever performs for an order has it reserved, and it has no charge.
LEMMA OrderedOnceHandle ==
  ASSUME TypeOK, OrderedOnce, UNCHANGED cell, NEW d \in Deliveries, Handle(d)
  PROVE  OrderedOnce'
<1>. USE CellKept
<1>. SUFFICES ASSUME strategy = "natural-key", NEW e \in Deliveries
              PROVE  /\ pc'[e] \in {"gateway", "settle"} =>
                          orderLock'[request[e].order] = e /\ SameOrder(e)' = {}
                     /\ pc'[e] = "collided" => SameOrder(e)' # {}
  BY DEF OrderedOnce
<1>0. /\ Moves(d, pc'[d]) /\ e \in Processes /\ NoOne \notin Deliveries
      /\ request[d].order \in Orders /\ request[e].order \in Orders
  BY HandleMoves, RequestTypes, CellAssumption DEF Processes
<1>1. pc'[e] # pc[e] => e = d
  BY <1>0 DEF Moves
<1>2. SameOrder(e) \subseteq SameOrder(e)'
  BY HandleEffects DEF SameOrder
<1>3. CASE ChargeInsert(d)
  <2>1. UNCHANGED charges /\ SameOrder(e)' = SameOrder(e)
    BY <1>3 DEF ChargeInsert, SameOrder
  <2>2. CASE e = d
    BY <1>0, <1>3, <2>1, <2>2 DEF ChargeInsert, Ordered, Goto, TypeOK
  <2>3. CASE e # d
    BY <1>0, <1>1, <1>3, <2>1, <2>3 DEF ChargeInsert, OrderedOnce, TypeOK
  <2>. QED
    BY <2>2, <2>3
<1>4. CASE SettleCharge(d)
  <2>1. CASE e = d
    BY <1>0, <1>4, <2>1 DEF SettleCharge, Goto, TypeOK
  <2>2. CASE e # d
    <3>1. pc'[e] = pc[e] /\ orderLock[request[d].order] = d
      BY <1>1, <1>4, <2>2 DEF SettleCharge, OrderedOnce
    <3>2. ASSUME pc[e] \in {"gateway", "settle"}
          PROVE  orderLock'[request[e].order] = e /\ SameOrder(e)' = {}
      <4>1. /\ orderLock[request[e].order] = e /\ request[e].order # request[d].order
            /\ SameOrder(e) = {}
        BY <2>2, <3>1, <3>2 DEF OrderedOnce
      <4>2. orderLock'[request[e].order] = e
        BY <1>0, <1>4, <2>2, <4>1 DEF SettleCharge
      <4>3. SameOrder(e)' = {}
        BY <4>1, HandleEffects DEF SameOrder, ChargeRow
      <4>. QED
        BY <4>2, <4>3
    <3>. QED
      BY <1>2, <3>1, <3>2 DEF OrderedOnce
  <2>. QED
    BY <2>1, <2>2
<1>5. CASE ~ChargeInsert(d) /\ ~SettleCharge(d)
  <2>1. UNCHANGED <<charges, orderLock>> /\ SameOrder(e)' = SameOrder(e)
    BY <1>5 DEF Handle, Receive, Lookup, ClaimInsert, ClaimCommit, ReadHeld, Seize,
           ReadCharge, CallGateway, Finish, MemoInsert, MemoCommit, Reply, SameOrder
  <2>2. /\ pc'[e] \in {"gateway", "settle"} => pc[e] \in {"gateway", "settle"}
        /\ pc'[e] = "collided" => pc[e] = "collided"
    BY <1>1, <1>5, HandleMoves DEF CallGateway
  <2>. QED
    BY <2>1, <2>2 DEF OrderedOnce
<1>. QED
  BY <1>3, <1>4, <1>5

\* The other steps commit a charge for a key nobody had inserted, or none.
LEMMA OnceOther ==
  ASSUME TypeOK, Placed, Locks, OnceEach, UNCHANGED cell,
         \/ \E w \in Processes : OutboxStep(w) \/ Death(w)
         \/ Tick
  PROVE  OnceEach'
<1>. USE CellKept
<1>0. Deliveries \subseteq Processes /\ (\A e \in Deliveries : KeyOf(e) \in AllKeys)
  BY RequestTypes DEF Processes
<1>1. ASSUME NEW d \in Deliveries, CommitAll(d) PROVE OnceEach'
  <2>1. /\ strategy = "atomic-outbox" /\ charges' = charges \union {ChargeRow(d)}
        /\ ChargeRow(d).by = d /\ keys' = [keys EXCEPT ![KeyOf(d)] = ClaimRow(d)]
        /\ ClaimRow(d) # NoRow /\ keys[KeyOf(d)] = NoRow /\ Moves(d, "drain")
    BY <1>0, <1>1, RowTypes, GotoType, RequestTypes, SentinelAssumption
       DEF CommitAll, Placed, Locks, Inserting, Reserved, Places
  <2>2. \A k \in AllKeys : keys[k] # NoRow => keys'[k] # NoRow
    BY <2>1 DEF TypeOK
  <2>3. keys'[KeyOf(d)] # NoRow
    BY <1>0, <2>1 DEF TypeOK
  <2>4. \A c \in charges : c.by \in Deliveries
    BY RequestTypes DEF TypeOK
  <2>5. \A c \in charges' : HasKey(c.by) => keys'[KeyOf(c.by)] # NoRow
    BY <1>0, <2>1, <2>2, <2>3, <2>4 DEF OnceEach, ChargedOnce, Uses
  <2>6. \A e \in Deliveries : pc'[e] \notin Performing
    BY <1>0, <2>1 DEF Placed, Moves, Performing
  <2>7. ChargedOnce' /\ OrderedOnce'
    BY <2>1, <2>5, <2>6 DEF ChargedOnce, OrderedOnce
  <2>8. \A c \in charges : ~SameKey(d, c.by) /\ ~SameKey(c.by, d)
    BY <2>1 DEF OnceEach, ChargedOnce, SameKey, Uses
  <2>9. OneChargeEach'
    BY <2>1, <2>8 DEF OnceEach, OneChargeEach, Uses
  <2>. QED
    BY <2>7, <2>9 DEF OnceEach
<1>2. ASSUME UNCHANGED <<keys, charges>>,
             \A e \in Deliveries : /\ pc'[e] \in Performing \union {"collided"} => pc'[e] = pc[e]
                                   /\ orderLock[request[e].order] = e /\ pc'[e] = pc[e] =>
                                        orderLock'[request[e].order] = e
      PROVE  OnceEach'
  <2>1. \A e : SameOrder(e)' = SameOrder(e)
    BY <1>2 DEF SameOrder
  <2>2. ChargedOnce' /\ OneChargeEach'
    BY <1>2 DEF OnceEach, ChargedOnce, OneChargeEach
  <2>3. OrderedOnce'
    BY <1>2, <2>1 DEF OnceEach, OrderedOnce, Performing
  <2>. QED
    BY <2>2, <2>3 DEF OnceEach
<1>3. ASSUME NEW w \in Processes, Drain(w) PROVE OnceEach'
  <2>1. UNCHANGED <<keys, charges, orderLock>>
    BY <1>3 DEF Drain, DrainRead, DrainCall, DrainMark, DrainDone
  <2>2. PICK place \in {"sending", "marking", "answered", "idle"} : Moves(w, place)
    <3>1. \A response : Answer(w, response) => Moves(w, "answered")
      BY DEF TypeOK, Answer, Moves
    <3>. QED
      BY <1>3, <3>1, GotoType DEF Drain, DrainRead, DrainCall, DrainMark, DrainDone, Places
  <2>. QED
    BY <1>0, <1>2, <2>1, <2>2 DEF Moves, Performing
<1>4. ASSUME NEW w \in Processes, Death(w) PROVE OnceEach'
  <2>1. /\ UNCHANGED <<keys, charges>>
        /\ pc'[w] \in {"dead", "idle"} /\ pc[w] \notin {"dead", "idle"}
        /\ \A v \in Processes : v # w => pc'[v] = pc[v]
    BY <1>4 DEF Death, Die, TypeOK
  <2>2. \A o \in Orders : orderLock[o] # w => orderLock'[o] = orderLock[o]
    BY <1>4 DEF Death, Die
  <2>3. \A e \in Deliveries : pc'[e] = pc[e] => e # w
    BY <1>0, <2>1
  <2>. QED
    BY <1>0, <1>2, <2>1, <2>2, <2>3, RequestTypes DEF Performing
<1>5. CASE Tick
  BY <1>2, <1>5 DEF Tick
<1>6. ASSUME NEW d \in Deliveries, InsertIntent(d) PROVE OnceEach'
  <2>1. UNCHANGED <<keys, charges, orderLock>>
    BY <1>6 DEF InsertIntent
  <2>2. Moves(d, "queued") \/ Moves(d, "held")
    BY <1>0, <1>6, GotoType DEF InsertIntent, Places
  <2>. QED
    BY <1>0, <1>2, <2>1, <2>2 DEF Moves, Performing
<1>. QED
  BY <1>1, <1>3, <1>4, <1>5, <1>6 DEF OutboxStep

-----------------------------------------------------------------------------
(* What a client is told.                                                  *)
TruthOf(d, response) ==
  /\ response.status = 500 => Uses({"memo-after"}) \/ ~Apart
  /\ Uses({"lease", "lease-recovering", "atomic-outbox"}) /\ response.status \in {200, 201} =>
       \E c \in charges :
         /\ c.by = response.charge /\ c.principal = request[d].principal
         /\ ~Uses({"lease"}) => /\ c = [ChargeRow(d) EXCEPT !.by = c.by]
                                /\ response.amount = request[d].amount

\* It is enough that the new answer is true.
LEMMA TruthIsTold ==
  ASSUME TypeOK, UNCHANGED cell, charges \subseteq charges', ToldTheTruth
  PROVE  /\ UNCHANGED answer => ToldTheTruth'
         /\ \A d \in Deliveries : \A response : Answer(d, response) /\ TruthOf(d, response)
              => ToldTheTruth'
<1>. USE CellKept
<1>1. UNCHANGED answer => ToldTheTruth'
  BY DEF ToldTheTruth, Told
<1>2. ASSUME NEW d \in Deliveries, NEW response, Answer(d, response), TruthOf(d, response)
      PROVE  ToldTheTruth'
  <2>1. /\ answer'[d] = response
        /\ \A e \in Deliveries : e # d => answer'[e] = answer[e]
    BY <1>2 DEF Answer, TypeOK
  <2>2. \A e \in Deliveries : TruthOf(e, answer'[e])
    BY <1>2, <2>1 DEF ToldTheTruth, Told, TruthOf
  <2>. QED
    BY <2>2 DEF ToldTheTruth, Told, TruthOf
<1>. QED
  BY <1>1, <1>2

\* The body of a committed charge of one's own, whoever committed it.
LEMMA ChargeFields ==
  ASSUME TypeOK, NEW d \in Deliveries, NEW c \in charges,
         c.principal = request[d].principal, c.order = request[d].order,
         c.amount = request[d].amount
  PROVE  c = [ChargeRow(d) EXCEPT !.by = c.by]
<1>1. PICK e \in Deliveries : c = ChargeRow(e)
  BY DEF TypeOK
<1>. QED
  BY <1>1 DEF ChargeRow

\* A committed row replayed, the way the handlers that name a charge do it.
LEMMA ReplayTruth ==
  ASSUME TypeOK, Recorded201, NEW d \in Deliveries, keys[KeyOf(d)] # NoRow,
         strategy # "memo-after",
         strategy \in {"lease-recovering", "atomic-outbox"} => keys[KeyOf(d)].mark = Fingerprint(d)
  PROVE  TruthOf(d, ReplayOf(keys[KeyOf(d)]))
<1>. DEFINE row == keys[KeyOf(d)]
<1>1. KeyOf(d) \in AllKeys /\ row \in KeyRows
  BY RequestTypes DEF TypeOK
<1>2. row.status \in {0, 201, 502}
  BY <1>1 DEF KeyRows
<1>3. /\ ReplayOf(row).status = row.status /\ ReplayOf(row).charge = row.charge
      /\ ReplayOf(row).amount = row.amount
  BY DEF ReplayOf
<1>4. ASSUME Uses({"lease", "lease-recovering", "atomic-outbox"}), row.status = 201
      PROVE  \E c \in charges :
               /\ c.by = row.charge /\ c.principal = request[d].principal
               /\ ~Uses({"lease"}) => /\ c = [ChargeRow(d) EXCEPT !.by = c.by]
                                      /\ row.amount = request[d].amount
  <2>1. PICK c \in charges :
          /\ c.by = row.charge /\ c.principal = KeyOf(d)[1]
          /\ strategy # "lease" => row.mark = <<c.order, c.amount>> /\ row.amount = c.amount
    BY <1>1, <1>4 DEF Recorded201
  <2>2. c.principal = request[d].principal
    BY <2>1 DEF KeyOf
  <2>3. ~Uses({"lease"}) => c.order = request[d].order /\ c.amount = request[d].amount
    BY <1>4, <2>1 DEF Uses, Fingerprint
  <2>. QED
    BY <2>1, <2>2, <2>3, ChargeFields DEF Uses
<1>. QED
  BY <1>2, <1>3, <1>4 DEF TruthOf

\* A handler answers with the truth, ...
LEMMA TruthHandle ==
  ASSUME TypeOK, Placed, Locks, Committed, Recorded201, OrderedOnce, ToldTheTruth,
         UNCHANGED cell, NEW d \in Deliveries, Handle(d)
  PROVE  ToldTheTruth'
<1>0. charges \subseteq charges'
  BY HandleEffects
<1>1. ASSUME UNCHANGED answer PROVE ToldTheTruth'
  BY <1>0, <1>1, TruthIsTold
<1>2. ASSUME NEW response, Answer(d, response), TruthOf(d, response) PROVE ToldTheTruth'
  BY <1>0, <1>2, TruthIsTold
<1>3. \A status \in {400, 409, 422, 502} : TruthOf(d, Refusal(status))
  BY DEF Refusal, TruthOf
<1>4. ASSUME strategy = "memo-after", NEW response PROVE TruthOf(d, response)
  BY <1>4 DEF TruthOf, Uses
<1>5. CASE Receive(d)
  BY <1>1, <1>2, <1>3, <1>5 DEF Receive, Goto
<1>6. CASE Lookup(d) \/ MemoInsert(d)
  BY <1>1, <1>2, <1>4, <1>6 DEF Lookup, MemoInsert, Placed, Goto
<1>7. CASE ReadHeld(d)
  <2>1. strategy # "memo-after" /\ (keys[KeyOf(d)] = NoRow => ~Apart)
    BY <1>7 DEF ReadHeld, Locks, RowThere, Placed, Claiming, Claims, Uses
  <2>2. keys[KeyOf(d)] = NoRow => TruthOf(d, Refusal(500))
    BY <2>1 DEF TruthOf, Refusal
  <2>3. keys[KeyOf(d)] # NoRow /\
          (strategy \in {"lease-recovering", "atomic-outbox"} =>
             keys[KeyOf(d)].mark = Fingerprint(d))
          => TruthOf(d, ReplayOf(keys[KeyOf(d)]))
    BY <2>1, ReplayTruth
  <2>. QED
    BY <1>1, <1>2, <1>3, <1>7, <2>1, <2>2, <2>3 DEF ReadHeld, Goto
<1>8. CASE ReadCharge(d)
  <2>1. SameOrder(d) # {} /\ strategy = "natural-key"
    BY <1>8 DEF ReadCharge, OrderedOnce, Placed
  <2>2. PICK c \in SameOrder(d) :
          Answer(d, [status |-> 200, charge |-> c.by, amount |-> c.amount, replayed |-> TRUE])
    BY <1>8, <2>1 DEF ReadCharge
  <2>3. TruthOf(d, [status |-> 200, charge |-> c.by, amount |-> c.amount, replayed |-> TRUE])
    BY <2>1 DEF TruthOf, Uses
  <2>. QED
    BY <1>2, <2>2, <2>3
<1>9. CASE Reply(d)
  <2>1. CASE gwOk[d]
    <3>1. ChargeRow(d) \in charges
      BY <1>9, <2>1 DEF Reply, Committed
    <3>2. ChargeRow(d) = [ChargeRow(d) EXCEPT !.by = ChargeRow(d).by]
      BY DEF ChargeRow
    <3>3. TruthOf(d, Charged(d))
      BY <3>1, <3>2 DEF TruthOf, Charged, ChargeRow
    <3>. QED
      BY <1>2, <1>9, <2>1, <3>3 DEF Reply, Outcome
  <2>2. CASE ~gwOk[d]
    BY <1>2, <1>3, <1>9, <2>2 DEF Reply, Outcome
  <2>. QED
    BY <2>1, <2>2
<1>10. CASE ~(Receive(d) \/ Lookup(d) \/ MemoInsert(d) \/ ReadHeld(d) \/ ReadCharge(d) \/ Reply(d))
  BY <1>1, <1>10 DEF Handle, ClaimInsert, ClaimCommit, Seize, ChargeInsert, CallGateway,
                     SettleCharge, Finish, MemoCommit, Goto
<1>. QED
  BY <1>5, <1>6, <1>7, <1>8, <1>9, <1>10

\* ... and atomic-outbox's drain too.
LEMMA TruthOther ==
  ASSUME TypeOK, Placed, Committed, ToldTheTruth, UNCHANGED cell,
         \/ \E w \in Processes : OutboxStep(w) \/ Death(w)
         \/ Tick
  PROVE  ToldTheTruth'
<1>1. charges \subseteq charges'
  BY DEF OutboxStep, InsertIntent, CommitAll, Drain, DrainRead, DrainCall, DrainMark, DrainDone,
         Death, Die, Tick
<1>2. ASSUME NEW w \in Deliveries, DrainDone(w) PROVE ToldTheTruth'
  <2>1. ChargeRow(w) \in charges /\ Answer(w, Charged(w)) /\ strategy = "atomic-outbox"
    BY <1>2 DEF DrainDone, Committed, Placed, Draining
  <2>2. ChargeRow(w) = [ChargeRow(w) EXCEPT !.by = ChargeRow(w).by]
    BY DEF ChargeRow
  <2>3. TruthOf(w, Charged(w))
    BY <2>1, <2>2 DEF TruthOf, Charged, ChargeRow
  <2>. QED
    BY <1>1, <2>1, <2>3, TruthIsTold
<1>3. CASE UNCHANGED answer
  BY <1>1, <1>3, TruthIsTold
<1>4. UNCHANGED answer \/ \E w \in Deliveries : DrainDone(w)
  BY DEF OutboxStep, InsertIntent, CommitAll, Drain, DrainRead, DrainCall, DrainMark, DrainDone,
         Death, Die, Tick, Goto
<1>. QED
  BY <1>2, <1>3, <1>4

-----------------------------------------------------------------------------
\* The invariant holds before anything has been received, ...
LEMMA InitIInv ==
  ASSUME Init PROVE IInv
<1>. USE DEF Init, HandlerInit, OutboxInit, GatewayInit
<1>1. PICK c \in Cells : strategy = c[1] /\ request = c[2]
  OBVIOUS
<1>2. strategy \in Strategies /\ request \in [Deliveries -> Requests]
  BY <1>1, CellAssumption
<1>3. /\ \A w \in Processes : pc[w] = IF w \in Deliveries THEN "new" ELSE "idle"
      /\ \A d \in Deliveries : pc[d] = "new" /\ answer[d] = NoAnswer /\ outbox[d] = "none"
      /\ \A w \in Processes : todo[w] = {}
  BY DEF Processes
<1>4. TypeOK
  <2>1. NoAnswer \in Answers
    BY DEF NoAnswer, Refusal, Answers, Statuses
  <2>. QED
    BY <1>2, <2>1 DEF TypeOK, Places
<1>5. Placed
  BY <1>3, CellAssumption DEF Placed, Claiming, Performing, Draining, Processes
<1>6. \A d \in Deliveries : ~Working(d) /\ ~Performs(d)
  BY <1>3 DEF Working, Performs, Performing
<1>7. Locks
  BY <1>3, <1>6 DEF Locks, Inserting, Reserved, RowThere, NoTakeOverYet, OneWorkerPerKey,
                    InProgress, Marked
<1>8. Money
  BY <1>3 DEF Money, CallsOnce, AnsweredByMoney
<1>9. Committed
  BY <1>3 DEF Committed, Draining, Processes
<1>10. Recorded201
  BY DEF Recorded201
<1>11. OnceEach
  BY <1>3 DEF OnceEach, ChargedOnce, OrderedOnce, OneChargeEach
<1>12. ToldTheTruth
  BY <1>3 DEF ToldTheTruth, Told, NoAnswer, Refusal
<1>. QED
  BY <1>4, <1>5, <1>7, <1>8, <1>9, <1>10, <1>11, <1>12 DEF IInv

\* ... through a step that changes nothing, ...
LEMMA StutterIInv ==
  ASSUME IInv, UNCHANGED vars PROVE IInv'
<1>. USE DEF vars, serviceVars, outboxVars, gatewayVars, cell, IInv
<1>1. /\ UNCHANGED <<keys, charges, keyLock, orderLock, now, pc, gwOk, answer>>
      /\ UNCHANGED <<outbox, outboxLock, todo, current>> /\ UNCHANGED <<calls, issued>>
      /\ UNCHANGED cell
  OBVIOUS
<1>. USE CellKept
<1>2. TypeOK' /\ Placed'
  BY <1>1 DEF TypeOK, Placed
<1>3. /\ \A d \in Deliveries : (Working(d)' <=> Working(d)) /\ (Performs(d)' <=> Performs(d))
      /\ \A d \in Deliveries : Inserting(d)' <=> Inserting(d)
  BY <1>1 DEF Working, Performs, Inserting
<1>4. Locks'
  <2>1. Reserved' /\ RowThere' /\ NoTakeOverYet'
    BY <1>1, <1>3 DEF Locks, Reserved, RowThere, NoTakeOverYet
  <2>2. OneWorkerPerKey'
    BY <1>1, <1>3 DEF Locks, OneWorkerPerKey
  <2>3. InProgress' /\ Marked'
    BY <1>1, <1>3 DEF Locks, InProgress, Marked
  <2>. QED
    BY <2>1, <2>2, <2>3 DEF Locks
<1>5. Money'
  BY <1>1 DEF Money, CallsOnce, AnsweredByMoney, Backed, MoneyMoved
<1>6. Committed' /\ Recorded201'
  BY <1>1 DEF Committed, Recorded201
<1>7. OnceEach'
  BY <1>1 DEF OnceEach, ChargedOnce, OrderedOnce, OneChargeEach, SameOrder
<1>8. ToldTheTruth'
  BY <1>1 DEF ToldTheTruth, Told
<1>. QED
  BY <1>2, <1>4, <1>5, <1>6, <1>7, <1>8

\* ... and through every step.
LEMMA NextIInv ==
  ASSUME IInv, [Next]_vars PROVE IInv'
<1>. USE DEF IInv
<1>1. ASSUME UNCHANGED cell, NEW d \in Deliveries, Handle(d), UNCHANGED outboxVars PROVE IInv'
  <2>1. UNCHANGED <<cell, outboxVars>>
    BY <1>1
  <2>2. TypeOK' /\ Placed' /\ Locks'
    BY <1>1, <2>1, TypesHandle, PlacedHandle, LocksHandle
  <2>3. Money' /\ Committed' /\ Recorded201'
    BY <1>1, <2>1, MoneyHandle, CommittedHandle, Recorded201Handle DEF Money
  <2>4. OnceEach'
    BY <1>1, ChargedOnceHandle, OneChargeEachHandle, OrderedOnceHandle DEF OnceEach
  <2>5. ToldTheTruth'
    BY <1>1, TruthHandle DEF OnceEach
  <2>. QED
    BY <2>2, <2>3, <2>4, <2>5
<1>2. ASSUME UNCHANGED cell, NEW w \in Processes, OutboxStep(w)
      PROVE  IInv'
  <2>1. TypeOK' /\ Placed' /\ Locks'
    BY <1>2, TypesOutbox, PlacedOther, LocksOutbox DEF OnceEach
  <2>2. Money' /\ Committed' /\ Recorded201'
    BY <1>2, MoneyOther, CommittedOutbox, Recorded201Other DEF Money
  <2>3. OnceEach' /\ ToldTheTruth'
    BY <1>2, OnceOther, TruthOther
  <2>. QED
    BY <2>1, <2>2, <2>3
<1>3. ASSUME UNCHANGED cell, NEW w \in Processes, Death(w) PROVE IInv'
  <2>1. TypeOK' /\ Placed' /\ Locks'
    BY <1>3, TypesDeathTick, PlacedOther, LocksDie DEF Death
  <2>2. Money' /\ Committed' /\ Recorded201'
    BY <1>3, MoneyOther, CommittedDeathTick, Recorded201Other
  <2>3. OnceEach' /\ ToldTheTruth'
    BY <1>3, OnceOther, TruthOther
  <2>. QED
    BY <2>1, <2>2, <2>3
<1>4. ASSUME UNCHANGED cell, Tick, UNCHANGED outboxVars PROVE IInv'
  <2>1. TypeOK' /\ Locks'
    BY <1>4, TypesDeathTick, LocksTick
  <2>2. Placed'
    BY <1>4, CellKept DEF Tick, Placed
  <2>3. Money' /\ Committed' /\ Recorded201'
    BY <1>4, MoneyOther, CommittedDeathTick, Recorded201Other
  <2>4. OnceEach' /\ ToldTheTruth'
    BY <1>4, OnceOther, TruthOther
  <2>. QED
    BY <2>1, <2>2, <2>3, <2>4
<1>. HIDE DEF IInv
<1>. QED
  BY <1>1, <1>2, <1>3, <1>4, StutterIInv DEF Next, Step, OutboxStep

\* The inductive invariant, its first conjunct the types of all sixteen variables.
THEOREM ServiceInvariant == Spec => []IInv
BY InitIInv, NextIInv, PTL DEF Spec

\* One worker for a key at a time (service.ts:414-428, 525-541): of a reservation there is one
\* holder, and its row keeps everybody else out; a lease lets a second in only once it
\* can have expired.
THEOREM WorkersAlone == Spec => []OneWorkerPerKey
<1>1. IInv => OneWorkerPerKey
  BY DEF IInv, Locks
<1>. QED
  BY <1>1, ServiceInvariant, PTL

\* lease-recovering and atomic-outbox move the money of a key once (service.ts:527-529,
\* 606-608), through any take-overs, deaths, drains and expiries.
THEOREM PaidOnce == Spec => []MoneyMovedOnce
<1>1. ASSUME IInv PROVE MoneyMovedOnce
  <2>. SUFFICES ASSUME Uses({"lease-recovering", "atomic-outbox"}),
                       NEW b \in MoneyMoved, NEW c \in MoneyMoved, SameKey(b.by, c.by)
                PROVE  b = c
    BY DEF MoneyMovedOnce
  <2>1. b \in calls /\ c \in calls /\ b.by \in Deliveries
    BY <1>1 DEF MoneyMoved, IInv, TypeOK
  <2>2. DedupOf(b.by) = DedupOf(c.by) /\ DedupOf(b.by) = Joined[KeyOf(b.by)]
    BY DEF SameKey, DedupOf
  <2>3. DedupOf(b.by) # NoDedup
    BY <1>1, <2>1, <2>2, RequestTypes, JoinAssumption DEF IInv, DedupKeys
  <2>. QED
    BY <1>1, <2>1, <2>2, <2>3 DEF IInv, Money, CallsOnce
<1>. QED
  BY <1>1, ServiceInvariant, PTL

\* Behind every committed charge row is money that moved for it (service.ts:177-181),
\* where no two operations share a text.
THEOREM ChargesBacked == Spec => []ChargeBackedByMoney
<1>1. ASSUME IInv, Apart, ~Uses({"atomic-outbox"}), NEW c \in charges
      PROVE  \E m \in MoneyMoved :
               m.by = c.by \/ (Uses({"lease-recovering"}) /\ SameKey(m.by, c.by))
  <2>1. PICK m \in MoneyMoved :
          IF DedupOf(c.by) = NoDedup THEN m.by = c.by ELSE m.dedup = DedupOf(c.by)
    BY <1>1 DEF IInv, Money, AnsweredByMoney, Backed, Uses
  <2>2. m \in calls /\ m.by \in Deliveries /\ m.dedup = DedupOf(m.by) /\ c.by \in Deliveries
    BY <1>1, RequestTypes DEF MoneyMoved, IInv, TypeOK, Money, CallsOnce
  <2>3. CASE DedupOf(c.by) # NoDedup
    <3>1. KeyOf(m.by) = KeyOf(c.by)
      BY <1>1, <2>1, <2>2, <2>3 DEF Apart
    <3>2. Uses({"lease-recovering"}) /\ HasKey(m.by) /\ HasKey(c.by)
      BY <1>1, <2>1, <2>2, <2>3 DEF DedupOf, Uses
    <3>. QED
      BY <3>1, <3>2 DEF SameKey
  <2>. QED
    BY <2>1, <2>3
<1>2. IInv => ChargeBackedByMoney
  BY <1>1 DEF ChargeBackedByMoney, OwnMoney
<1>. QED
  BY <1>2, ServiceInvariant, PTL

\* No client is told a falsehood: lost_key and lost_charge are never answered, and who is
\* told of a charge is told of a committed one of its own.
THEOREM AnswersAreTrue == Spec => []ToldTheTruth
<1>1. IInv => ToldTheTruth
  BY DEF IInv
<1>. QED
  BY <1>1, ServiceInvariant, PTL

\* One operation, one charge row (memo-before, lease, atomic-outbox, natural-key).
THEOREM ChargedOnceEach == Spec => []OneChargeEach
<1>1. IInv => OneChargeEach
  BY DEF IInv, OnceEach
<1>. QED
  BY <1>1, ServiceInvariant, PTL

\* atomic-outbox: the gateway hears of committed charges only (service.ts:597).
THEOREM CommittedFirst == Spec => []NothingLeavesUncommitted
<1>1. IInv => NothingLeavesUncommitted
  BY DEF IInv, Committed, NothingLeavesUncommitted, Uses, ChargeRow
<1>. QED
  BY <1>1, ServiceInvariant, PTL

\* An answer recorded as done is what every later replay of its key gets.
THEOREM RecordedAnswersStay == Spec => RecordedAnswerStable
<1>. DEFINE Stable == Uses({"memo-after", "lease", "atomic-outbox"}) =>
       \A k \in AllKeys : keys[k] # NoRow /\ keys[k].state = "done" => keys'[k] = keys[k]
<1>1. ASSUME IInv, UNCHANGED cell, NEW d \in Deliveries, Handle(d) PROVE Stable
  <2>. SUFFICES ASSUME Uses({"memo-after", "lease", "atomic-outbox"}), NEW k \in AllKeys,
                       keys[k] # NoRow, keys[k].state = "done", keys'[k] # keys[k]
                PROVE  FALSE
    OBVIOUS
  <2>1. TypeOK /\ Placed /\ Locks /\ KeyOf(d) \in AllKeys
    BY <1>1, RequestTypes DEF IInv
  <2>2. k = KeyOf(d) /\ (ClaimCommit(d) \/ Seize(d) \/ Finish(d) \/ MemoCommit(d))
    BY <1>1, <2>1 DEF Handle, Receive, Lookup, ClaimInsert, ClaimCommit, ReadHeld, Seize,
           ChargeInsert, ReadCharge, CallGateway, SettleCharge, Finish, MemoInsert, MemoCommit,
           Reply, TypeOK
  <2>3. CASE ClaimCommit(d) \/ MemoCommit(d)
    BY <2>1, <2>2, <2>3 DEF ClaimCommit, MemoCommit, Locks, Inserting, Reserved
  <2>4. CASE Seize(d)
    BY <2>1, <2>4 DEF Seize, Placed, Uses
  <2>5. CASE Finish(d)
    <3>1. pc[d] = "finish" /\ HasKey(d) /\ strategy = "lease"
      BY <2>1, <2>5 DEF Finish, Placed, Claims, Uses
    <3>. QED
      BY <2>1, <2>2, <3>1 DEF Locks, InProgress, Performs
  <2>. QED
    BY <2>2, <2>3, <2>4, <2>5
<1>2. ASSUME IInv, NEW d \in Deliveries, CommitAll(d) PROVE Stable
  <2>1. keys[KeyOf(d)] = NoRow /\ KeyOf(d) \in AllKeys
    BY <1>2, RequestTypes DEF IInv, Locks, Inserting, Reserved, CommitAll
  <2>. QED
    BY <1>2, <2>1 DEF CommitAll, IInv, TypeOK
<1>3. ASSUME NEW w \in Processes, InsertIntent(w) \/ Drain(w) \/ Death(w) PROVE UNCHANGED keys
  BY <1>3 DEF InsertIntent, Drain, DrainRead, DrainCall, DrainMark, DrainDone, Death, Die
<1>4. Tick \/ UNCHANGED vars => UNCHANGED keys
  BY DEF Tick, vars, serviceVars
<1>5. UNCHANGED keys => Stable
  OBVIOUS
<1>6. IInv /\ [Next]_vars => [Stable]_keys
  <2>. HIDE DEF Stable
  <2>. QED
    BY <1>1, <1>2, <1>3, <1>4, <1>5 DEF Next, Step
<1>7. RecordedAnswerStable <=> [][Stable]_keys
  BY DEF RecordedAnswerStable
<1>. HIDE DEF Stable
<1>. QED
  BY <1>6, <1>7, ServiceInvariant, PTL DEF Spec
=============================================================================
