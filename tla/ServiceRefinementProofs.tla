----------------------- MODULE ServiceRefinementProofs -----------------------
(***************************************************************************)
(* Service implements OneOperation where no two operations of the cell     *)
(* make one dedup text: behind claims, leases, take-overs, replays and     *)
(* drains, a key stands for one operation, which the gateway decides once, *)
(* which lease and atomic-outbox book as one charge row and                *)
(* lease-recovering as one for each delivery that was given the key, and   *)
(* which every answer is about.                                            *)
(*                                                                         *)
(* The argument is that whoever has done anything for a key asked for what *)
(* its row is marked with, and that the row, once there, keeps its mark.   *)
(***************************************************************************)
EXTENDS ServiceProofs

\* Past its claim, or heard of at the gateway or in the books.
Engaged(d) ==
  \/ Working(d) \/ pc[d] \in Draining \union {"seize"}
  \/ ChargeRow(d) \in charges
  \/ \E m \in calls : m.by = d

\* Whoever is engaged for a key asked for what the key stands for.
MeansIt ==
  \A d \in Deliveries : Kept(d) /\ Engaged(d) =>
    keys[KeyOf(d)] # NoRow /\ keys[KeyOf(d)].mark = Fingerprint(d)

CalledFor(k, ok) == \E m \in calls : Kept(m.by) /\ KeyOf(m.by) = k /\ m.ok = ok
Refused(k) == CalledFor(k, FALSE)

\* lease passes the gateway no dedup key: nobody is on the way to a second call.
CalledOnce ==
  strategy = "lease" =>
    \A m \in calls : \A d \in Deliveries : pc[d] \in {"charge", "gateway"} => ~SameKey(d, m.by)

\* The answer of the gateway that a handler holds is one for its key.
Decision ==
  \A d \in Deliveries : Kept(d) /\ pc[d] \in {"settle", "finish", "reply"} =>
    CalledFor(KeyOf(d), gwOk[d])

\* What a row would replay has happened.
Recalled ==
  Promises =>
    \A k \in AllKeys : keys[k] # NoRow /\ (keys[k].state = "done" \/ strategy = "atomic-outbox") =>
      \/ keys[k].status = 201 /\ BookedFor(k) # {}
      \/ keys[k].status = 502 /\ strategy # "atomic-outbox" /\ Refused(k)

Unheard == \A d \in Deliveries : pc[d] # "answered" => answer[d] = NoAnswer

\* Only a well formed request gets past its first step.
Paying == \A d \in Deliveries : pc[d] \notin {"new", "answered", "dead"} => request[d].amount > 0

IntentsOnly == \A d \in Deliveries : outbox[d] # "none" => strategy = "atomic-outbox"

KeepsInv == /\ MeansIt /\ CalledOnce /\ Decision /\ Recalled
            /\ Unheard /\ Paying /\ IntentsOnly

RInv == IInv /\ Apart /\ KeepsInv

-----------------------------------------------------------------------------
(* What is read off the cell, and off the mapping.                         *)
LEMMA KeptCell ==
  ASSUME UNCHANGED cell
  PROVE  /\ Promises' = Promises /\ Manner' = Manner /\ Asked' = Asked
         /\ \A d : Kept(d)' = Kept(d)
         /\ UNCHANGED <<strategy, request>>
BY CellKept DEF Promises, Kept, Manner, Asked, cell

LEMMA PromisesAre ==
  ASSUME TypeOK
  PROVE  /\ Promises <=> strategy \in {"lease", "lease-recovering", "atomic-outbox"}
         /\ Promises => Claims
BY DEF TypeOK, Strategies, Promises, Claims, Uses

LEMMA MannerIs ==
  ASSUME Apart
  PROVE  /\ strategy = "lease" <=> Manner = "unchecked"
         /\ strategy = "lease-recovering" <=> Manner = "checked"
         /\ strategy = "atomic-outbox" <=> Manner = "committed-first"
BY DEF Manner

LEMMA WordsAre ==
  /\ DOMAIN Words = {0, 201, 400, 409, 422, 502}
  /\ Words[0] = "nothing" /\ Words[201] = "charged" /\ Words[400] = "invalid"
  /\ Words[409] = "busy" /\ Words[422] = "conflict" /\ Words[502] = "declined"
BY DEF Words

\* Two deliveries with one text have one key.
LEMMA OneTextOneKey ==
  ASSUME TypeOK, Apart, NEW d \in Deliveries, NEW e \in Deliveries,
         DedupOf(d) # NoDedup, DedupOf(d) = DedupOf(e), Promises
  PROVE  Kept(d) /\ Kept(e) /\ KeyOf(d) = KeyOf(e)
BY DEF Apart, DedupOf, Kept

\* Two of one key have one text, where a text is passed at all.
LEMMA OneKeyOneText ==
  ASSUME TypeOK, NEW d \in Deliveries, NEW e \in Deliveries, Kept(d), Kept(e),
         KeyOf(d) = KeyOf(e), strategy # "lease"
  PROVE  DedupOf(d) = DedupOf(e) /\ DedupOf(d) # NoDedup
<1>1. DedupOf(d) = Joined[KeyOf(d)] /\ DedupOf(e) = Joined[KeyOf(e)]
  BY DEF DedupOf, Kept, Promises, Uses
<1>2. DedupOf(d) # NoDedup
  BY <1>1, RequestTypes, JoinAssumption DEF DedupKeys
<1>. QED
  BY <1>1, <1>2

\* A call by a delivery that keeps a key is a call for it afterwards.
LEMMA GatewayFor ==
  ASSUME TypeOK, Apart, CallsOnce, UNCHANGED cell, NEW d \in Deliveries, Kept(d),
         NEW ok \in BOOLEAN, GatewayCharge(d, DedupOf(d), ok)
  PROVE  CalledFor(KeyOf(d), ok)'
<1>. USE CellKept, KeptCell
<1>1. CASE Recorded(DedupOf(d)) # {}
  <2>1. PICK c \in calls : DedupOf(d) # NoDedup /\ c.dedup = DedupOf(d) /\ ok = c.ok
    BY <1>1 DEF GatewayCharge, Recorded
  <2>2. c.by \in Deliveries /\ DedupOf(c.by) = DedupOf(d) /\ calls' = calls
    BY <1>1, <2>1 DEF TypeOK, CallsOnce, GatewayCharge, gatewayVars
  <2>3. Kept(c.by) /\ KeyOf(c.by) = KeyOf(d)
    BY <2>1, <2>2, OneTextOneKey DEF Kept
  <2>. QED
    BY <2>1, <2>2, <2>3 DEF CalledFor
<1>2. CASE Recorded(DedupOf(d)) = {}
  <2>. DEFINE new == [ref |-> issued + 1, dedup |-> DedupOf(d), by |-> d, ok |-> ok]
  <2>1. new \in calls' /\ new.by = d /\ new.ok = ok
    BY <1>2 DEF GatewayCharge
  <2>. HIDE DEF new
  <2>. QED
    BY <2>1 DEF CalledFor
<1>. QED
  BY <1>1, <1>2

-----------------------------------------------------------------------------
(* What every step does.                                                   *)
\* Calls and charges are never taken back; a new call is by who makes it, or for a
\* row that was pending.
LEMMA Grows ==
  ASSUME IInv, IntentsOnly, Next
  PROVE  /\ UNCHANGED cell /\ calls \subseteq calls' /\ charges \subseteq charges'
         /\ \A m \in calls' : \/ m \in calls
                              \/ m.by \in Deliveries /\ CallGateway(m.by)
                              \/ /\ m.by \in Deliveries /\ strategy = "atomic-outbox"
                                 /\ ChargeRow(m.by) \in charges
<1>0. UNCHANGED cell /\ TypeOK
  BY DEF Next, IInv
<1>1. ASSUME NEW d \in Deliveries, CallGateway(d)
      PROVE  /\ calls \subseteq calls' /\ UNCHANGED charges
             /\ \A m \in calls' : m \in calls \/ m.by = d
  BY <1>1 DEF CallGateway, GatewayCharge, gatewayVars
<1>2. ASSUME NEW w \in Processes, DrainCall(w)
      PROVE  /\ calls \subseteq calls' /\ UNCHANGED charges
             /\ \A m \in calls' : m \in calls \/ (m.by \in Deliveries /\ m.by \in todo[w])
  <2>1. PICK row \in todo[w], ok \in BOOLEAN : GatewayCharge(row, DedupOf(row), ok)
    BY <1>2 DEF DrainCall
  <2>2. row \in Deliveries
    BY <1>0 DEF TypeOK
  <2>. QED
    BY <1>2, <2>1, <2>2 DEF GatewayCharge, gatewayVars, DrainCall
<1>3. ASSUME NEW w \in Processes, NEW d \in Deliveries, d \in todo[w]
      PROVE  strategy = "atomic-outbox" /\ ChargeRow(d) \in charges
  BY <1>3 DEF IntentsOnly, IInv, Committed
<1>4. ASSUME NEW w \in Processes, Step(w) \/ Death(w), ~DrainCall(w),
             w \in Deliveries => ~CallGateway(w)
      PROVE  UNCHANGED calls /\ charges \subseteq charges'
  BY <1>4 DEF Step, Handle, Receive, Lookup, ClaimInsert, ClaimCommit, ReadHeld, Seize,
              ChargeInsert, ReadCharge, SettleCharge, Finish, MemoInsert, MemoCommit, Reply,
              InsertIntent, CommitAll, Drain, DrainRead, DrainMark, DrainDone, Death, Die,
              gatewayVars
<1>5. CASE Tick
  BY <1>0, <1>5 DEF Tick, gatewayVars
<1>6. ASSUME NEW w \in Processes, Step(w) \/ Death(w), ~Tick
      PROVE  /\ calls \subseteq calls' /\ charges \subseteq charges'
             /\ \A m \in calls' : \/ m \in calls
                                  \/ m.by \in Deliveries /\ CallGateway(m.by)
                                  \/ /\ m.by \in Deliveries /\ strategy = "atomic-outbox"
                                     /\ ChargeRow(m.by) \in charges
  BY <1>1, <1>2, <1>3, <1>4, <1>6
<1>. QED
  BY <1>0, <1>5, <1>6 DEF Next

\* Who keeps a key and is on the way to a charge got there by a claim or a take-over.
LEMMA GotToCharge ==
  ASSUME IInv, UNCHANGED cell, NEW d \in Deliveries, Handle(d), Kept(d), pc'[d] = "charge"
  PROVE  ClaimCommit(d) \/ Seize(d)
<1>0. TypeOK /\ Placed /\ d \in Processes
  BY DEF IInv, Processes
<1>1. Receive(d) \/ Lookup(d) \/ ClaimCommit(d) \/ Seize(d)
  BY <1>0, HandleMoves
<1>2. ~Lookup(d)
  BY <1>0 DEF Lookup, Placed, Kept, Promises, Uses
<1>3. ~Receive(d)
  BY <1>0, PromisesAre DEF Receive, Goto, Answer, Kept, Promises, Uses, TypeOK
<1>. QED
  BY <1>1, <1>2, <1>3

\* The mark of a row, once there, stays.
LEMMA MarksStay ==
  ASSUME IInv, Promises, Next
  PROVE  \A k \in AllKeys : keys[k] # NoRow => keys'[k] # NoRow /\ keys'[k].mark = keys[k].mark
<1>0. TypeOK /\ Placed /\ Locks /\ \A d \in Deliveries : KeyOf(d) \in AllKeys
  BY RequestTypes DEF IInv
<1>1. ASSUME NEW d \in Deliveries, Handle(d), NEW k \in AllKeys, keys[k] # NoRow
      PROVE  keys'[k] # NoRow /\ keys'[k].mark = keys[k].mark
  <2>1. keys'[k] # NoRow
    BY <1>0, <1>1, RowsStay
  <2>2. CASE ClaimCommit(d) \/ MemoCommit(d)
    <3>1. keys[KeyOf(d)] = NoRow
      BY <1>0, <2>2 DEF ClaimCommit, MemoCommit, Locks, Reserved, Inserting
    <3>2. \E row : keys' = [keys EXCEPT ![KeyOf(d)] = row]
      BY <2>2 DEF ClaimCommit, MemoCommit
    <3>. QED
      BY <1>0, <1>1, <3>1, <3>2 DEF TypeOK
  <2>3. CASE Seize(d)
    <3>1. keys[KeyOf(d)].mark = Fingerprint(d)
      BY <1>0, <2>3 DEF Seize, Placed, Locks, Marked
    <3>2. Row(d, "in-progress", NoAnswer).mark = Fingerprint(d)
      BY DEF Row
    <3>. QED
      BY <1>0, <1>1, <2>1, <2>3, <3>1, <3>2 DEF Seize, TypeOK
  <2>4. CASE Finish(d)
    <3>1. keys[KeyOf(d)] \in KeyRows
      BY <1>0, <2>4 DEF Finish, Placed, Locks, RowThere, Working, TypeOK
    <3>2. keys' = [keys EXCEPT ![KeyOf(d)] = FinishedRowOf(d, keys[KeyOf(d)])]
      BY <1>0, <2>4 DEF Finish, FinishedRowOf, TypeOK
    <3>3. FinishedRowOf(d, keys[KeyOf(d)]).mark = keys[KeyOf(d)].mark
      BY <1>0, <3>1, FinishedRow
    <3>. QED
      BY <1>0, <1>1, <2>1, <3>2, <3>3 DEF TypeOK
  <2>5. CASE ~(ClaimCommit(d) \/ MemoCommit(d) \/ Seize(d) \/ Finish(d))
    <3>1. UNCHANGED keys
      BY <1>1, <2>5 DEF Handle, Receive, Lookup, ClaimInsert, ReadHeld, ChargeInsert,
                        ReadCharge, CallGateway, SettleCharge, MemoInsert, Reply
    <3>. QED
      BY <1>1, <3>1
  <2>. QED
    BY <2>1, <2>2, <2>3, <2>4, <2>5
<1>2. ASSUME NEW d \in Deliveries, CommitAll(d), NEW k \in AllKeys, keys[k] # NoRow
      PROVE  keys'[k] = keys[k]
  <2>1. keys[KeyOf(d)] = NoRow
    BY <1>0, <1>2 DEF CommitAll, Locks, Reserved, Inserting
  <2>. QED
    BY <1>0, <1>2, <2>1 DEF CommitAll, TypeOK
<1>3. ASSUME NEW w \in Processes, InsertIntent(w) \/ Drain(w) \/ Death(w) PROVE UNCHANGED keys
  BY <1>3 DEF InsertIntent, Drain, DrainRead, DrainCall, DrainMark, DrainDone, Death, Die
<1>4. Tick => UNCHANGED keys
  BY DEF Tick
<1>. QED
  BY <1>1, <1>2, <1>3, <1>4 DEF Next, Step

\* A delivery moves, and is answered, by a step of its own.
LEMMA WhoMoves ==
  ASSUME IInv, Next, NEW e \in Deliveries, ~Step(e), ~Death(e)
  PROVE  pc'[e] = pc[e] /\ gwOk'[e] = gwOk[e] /\ answer'[e] = answer[e]
<1>0. TypeOK /\ e \in Processes
  BY DEF IInv, Processes
<1>1. ASSUME NEW w \in Processes, w # e, w \in Deliveries, Handle(w)
      PROVE  pc'[e] = pc[e] /\ gwOk'[e] = gwOk[e] /\ answer'[e] = answer[e]
  <2>1. pc'[e] = pc[e]
    BY <1>0, <1>1, HandleMoves DEF Moves
  <2>2. gwOk'[e] = gwOk[e]
    BY <1>0, <1>1, HandleEffects DEF CallGateway, TypeOK
  <2>3. UNCHANGED answer \/ \E response : Answer(w, response)
    <3>1. CASE Receive(w) \/ Lookup(w) \/ ClaimInsert(w) \/ ClaimCommit(w) \/ ReadHeld(w)
      BY <3>1 DEF Receive, Lookup, ClaimInsert, ClaimCommit, ReadHeld, Goto
    <3>2. CASE Seize(w) \/ ChargeInsert(w) \/ ReadCharge(w) \/ CallGateway(w)
      BY <3>2 DEF Seize, ChargeInsert, ReadCharge, CallGateway, Goto
    <3>3. CASE SettleCharge(w) \/ Finish(w) \/ MemoInsert(w) \/ MemoCommit(w) \/ Reply(w)
      BY <3>3 DEF SettleCharge, Finish, MemoInsert, MemoCommit, Reply, Goto
    <3>. QED
      BY <1>1, <3>1, <3>2, <3>3 DEF Handle
  <2>4. answer'[e] = answer[e]
    BY <1>0, <1>1, <2>3 DEF Answer, TypeOK
  <2>. QED
    BY <2>1, <2>2, <2>4
<1>2. ASSUME NEW w \in Processes, w # e, OutboxStep(w) \/ Death(w)
      PROVE  pc'[e] = pc[e] /\ gwOk'[e] = gwOk[e] /\ answer'[e] = answer[e]
  BY <1>0, <1>2 DEF OutboxStep, InsertIntent, CommitAll, Drain, DrainRead, DrainCall, DrainMark,
                    DrainDone, Death, Die, Forget, Goto, Answer, TypeOK
<1>3. CASE Tick
  BY <1>3 DEF Tick
<1>. QED
  BY <1>1, <1>2, <1>3 DEF Next, Step, OutboxStep

\* Two steps commit charges, each its own.
LEMMA NewCharge ==
  ASSUME IInv, Next, NEW d \in Deliveries, ChargeRow(d) \in charges', ChargeRow(d) \notin charges
  PROVE  SettleCharge(d) \/ CommitAll(d)
<1>1. ASSUME NEW e \in Deliveries, Handle(e)
      PROVE  UNCHANGED charges \/ (SettleCharge(e) /\ charges' = charges \union {ChargeRow(e)})
  BY <1>1, HandleEffects
<1>2. ASSUME NEW e \in Deliveries, CommitAll(e)
      PROVE  charges' = charges \union {ChargeRow(e)}
  BY <1>2 DEF CommitAll
<1>3. ASSUME NEW w \in Processes, InsertIntent(w) \/ Drain(w) \/ Death(w)
      PROVE  UNCHANGED charges
  BY <1>3 DEF InsertIntent, Drain, DrainRead, DrainCall, DrainMark, DrainDone, Death, Die
<1>4. Tick => UNCHANGED charges
  BY DEF Tick
<1>5. \A e : ChargeRow(d) = ChargeRow(e) => d = e
  BY DEF ChargeRow
<1>. QED
  BY <1>1, <1>2, <1>3, <1>4, <1>5 DEF Next, Step

\* What has happened for a key stays so.
LEMMA StaysHappened ==
  ASSUME UNCHANGED cell, calls \subseteq calls', charges \subseteq charges'
  PROVE  /\ \A k, ok : CalledFor(k, ok) => CalledFor(k, ok)'
         /\ \A k : Refused(k) => Refused(k)'
         /\ \A k : BookedFor(k) # {} => BookedFor(k)' # {}
<1>. USE CellKept, KeptCell
<1>1. ASSUME NEW k, NEW ok, CalledFor(k, ok) PROVE CalledFor(k, ok)'
  <2>1. PICK m \in calls : Kept(m.by) /\ KeyOf(m.by) = k /\ m.ok = ok
    BY <1>1 DEF CalledFor
  <2>2. m \in calls' /\ Kept(m.by)' /\ KeyOf(m.by)' = k
    BY <2>1
  <2>. QED
    BY <2>1, <2>2 DEF CalledFor
<1>2. ASSUME NEW k, BookedFor(k) # {} PROVE BookedFor(k)' # {}
  <2>1. PICK c \in charges : Kept(c.by) /\ KeyOf(c.by) = k
    BY <1>2 DEF BookedFor
  <2>2. c \in charges' /\ Kept(c.by)' /\ KeyOf(c.by)' = k
    BY <2>1
  <2>. QED
    BY <2>2 DEF BookedFor
<1>3. ASSUME NEW k, Refused(k) PROVE Refused(k)'
  BY <1>1, <1>3 DEF Refused
<1>. QED
  BY <1>1, <1>2, <1>3

-----------------------------------------------------------------------------
(* The invariant of the mapping.                                           *)
\* Who engages himself with a step has just looked at the row, or written it.
LEMMA MeansItStep ==
  ASSUME RInv, Next
  PROVE  MeansIt'
<1>. USE CellKept, KeptCell
<1>0. /\ TypeOK /\ Placed /\ Locks /\ UNCHANGED cell /\ Deliveries \subseteq Processes
      /\ \A d \in Deliveries : KeyOf(d) \in AllKeys
  BY RequestTypes DEF RInv, IInv, Next, Processes
<1>. SUFFICES ASSUME NEW e \in Deliveries, Kept(e), Engaged(e)'
              PROVE  keys'[KeyOf(e)] # NoRow /\ keys'[KeyOf(e)].mark = Fingerprint(e)
  BY <1>0 DEF MeansIt
<1>1. Promises /\ HasKey(e)
  BY DEF Kept
<1>2. CASE Engaged(e)
  BY <1>0, <1>1, <1>2, MarksStay DEF RInv, KeepsInv, MeansIt
<1>3. CASE ~Engaged(e) /\ (ClaimCommit(e) \/ CommitAll(e))
  <2>1. strategy # "memo-before" /\ strategy \in Strategies
    BY <1>1, PromisesAre, <1>0 DEF TypeOK
  <2>2. \E state, response : ClaimRow(e) = Row(e, state, response)
    BY DEF ClaimRow
  <2>3. ClaimRow(e).mark = Fingerprint(e)
    BY <2>2 DEF Row
  <2>. QED
    BY <1>0, <1>3, <2>3, RowTypes, SentinelAssumption DEF ClaimCommit, CommitAll, TypeOK
<1>4. CASE ~Engaged(e) /\ ReadHeld(e) /\ pc'[e] = "seize"
  <2>1. keys[KeyOf(e)] # NoRow /\ keys[KeyOf(e)].mark = Fingerprint(e) /\ UNCHANGED keys
    BY <1>0, <1>4 DEF ReadHeld, Answer, TypeOK
  <2>. QED
    BY <2>1
<1>5. CASE ~Engaged(e) /\ ~ClaimCommit(e) /\ ~CommitAll(e) /\ ~(ReadHeld(e) /\ pc'[e] = "seize")
  <2>0. IInv /\ IntentsOnly
    BY DEF RInv, KeepsInv
  <2>1. ~\E m \in calls' : m.by = e
    BY <1>1, <1>5, <2>0, Grows DEF Engaged, CallGateway, Working
  <2>2. ChargeRow(e) \notin charges'
    BY <1>1, <1>5, <2>0, NewCharge DEF Engaged, SettleCharge, Working
  <2>3. pc'[e] \in Performing \union {"finish", "reply", "seize"} \union Draining
    BY <1>0, <2>1, <2>2 DEF Engaged, Working, Performing
  <2>4. pc[e] \notin Performing \union {"finish", "reply", "seize"} \union Draining
    BY <1>1, <1>5 DEF Engaged, Working, Performing
  <2>5. Step(e)
    BY <1>0, <2>0, <2>3, <2>4, WhoMoves DEF Death, Die, Performing, Draining, TypeOK
  <2>6. ~Handle(e)
    <3>1. SUFFICES ASSUME Handle(e) PROVE FALSE
      OBVIOUS
    <3>2. pc'[e] = "charge" => FALSE
      BY <1>0, <1>5, <2>0, <2>4, <3>1, GotToCharge DEF Seize
    <3>3. pc'[e] \in {"gateway", "settle", "finish"} => FALSE
      BY <1>0, <2>4, <3>1, HandleMoves DEF ChargeInsert, CallGateway, SettleCharge, Performing
    <3>4. pc'[e] = "reply" => FALSE
      BY <1>0, <1>1, <2>4, <3>1, HandleMoves, PromisesAre
         DEF SettleCharge, Finish, MemoCommit, Performing, Placed
    <3>5. pc'[e] = "seize" => ReadHeld(e)
      BY <1>0, <3>1 DEF Handle, Receive, Lookup, ClaimInsert, ClaimCommit, Seize, ChargeInsert,
           ReadCharge, CallGateway, SettleCharge, Finish, MemoInsert, MemoCommit, Reply,
           Goto, Answer, TypeOK
    <3>6. pc'[e] \notin Draining
      BY <1>0, <3>1, HandleMoves
    <3>. QED
      BY <1>5, <2>3, <3>2, <3>3, <3>4, <3>5, <3>6 DEF Performing
  <2>7. ~InsertIntent(e)
    BY <1>0, <2>3 DEF InsertIntent, Goto, TypeOK, Performing, Draining
  <2>8. ~Drain(e)
    BY <1>0, <2>4 DEF Drain, DrainRead, DrainCall, DrainMark, DrainDone, Placed, Draining
  <2>. QED
    BY <1>5, <2>5, <2>6, <2>7, <2>8 DEF Step
<1>. QED
  BY <1>2, <1>3, <1>4, <1>5

\* lease: who is about to call the gateway alone has the key, and claimed it before
\* anybody had called.
LEMMA CalledOnceStep ==
  ASSUME RInv, Next
  PROVE  CalledOnce'
<1>. USE CellKept, KeptCell
<1>0. /\ IInv /\ TypeOK /\ Placed /\ Locks /\ IntentsOnly /\ UNCHANGED cell
      /\ Deliveries \subseteq Processes
  BY DEF RInv, KeepsInv, IInv, Next, Processes
<1>. SUFFICES ASSUME strategy = "lease", NEW m \in calls', NEW e \in Deliveries,
                     pc'[e] \in {"charge", "gateway"}, SameKey(e, m.by)
              PROVE  FALSE
  BY <1>0 DEF CalledOnce
<1>1. Promises /\ Kept(e) /\ Kept(m.by) /\ KeyOf(e) = KeyOf(m.by)
  BY DEF Promises, Kept, Uses, SameKey
<1>2. pc[e] \in {"charge", "gateway"} \/ ClaimCommit(e)
  <2>. SUFFICES ASSUME pc[e] \notin {"charge", "gateway"} PROVE ClaimCommit(e)
    OBVIOUS
  <2>1. Step(e)
    BY <1>0, WhoMoves DEF Death, Die, TypeOK
  <2>2. Handle(e)
    BY <1>0, <2>1 DEF Step, InsertIntent, CommitAll, Drain, DrainRead, DrainCall, DrainMark,
                      DrainDone, Goto, Answer, TypeOK
  <2>3. pc'[e] = "charge"
    BY <1>0, <2>2, HandleMoves DEF ChargeInsert
  <2>. QED
    BY <1>0, <1>1, <2>2, <2>3, GotToCharge DEF Seize, Placed
<1>3. CASE m \in calls
  <2>1. pc[e] \notin {"charge", "gateway"}
    BY <1>3 DEF RInv, KeepsInv, CalledOnce
  <2>2. keys[KeyOf(e)] = NoRow
    BY <1>0, <1>2, <2>1 DEF ClaimCommit, Locks, Reserved, Inserting
  <2>3. m.by \in Deliveries
    BY <1>0, <1>3 DEF TypeOK
  <2>4. keys[KeyOf(m.by)] # NoRow
    BY <1>1, <1>3, <2>3 DEF RInv, KeepsInv, MeansIt, Engaged
  <2>. QED
    BY <1>1, <2>2, <2>4
<1>4. CASE m \notin calls
  <2>1. m.by \in Deliveries /\ CallGateway(m.by)
    BY <1>0, <1>4, Grows
  <2>2. pc[m.by] = "gateway" /\ pc'[m.by] = "settle"
    BY <1>0, <2>1 DEF CallGateway, Goto, TypeOK
  <2>3. e # m.by /\ ~ClaimCommit(e)
    BY <1>0, <2>1, <2>2 DEF ClaimCommit, CallGateway, Goto, TypeOK
  <2>4. Working(e) /\ Working(m.by)
    BY <1>1, <1>2, <2>2, <2>3 DEF Working, Kept
  <2>. QED
    BY <1>0, <1>1, <2>1, <2>3, <2>4 DEF Locks, OneWorkerPerKey, Claims, Uses
<1>. QED
  BY <1>3, <1>4

\* The answer a handler holds was given for its key, by its own call or an earlier one.
LEMMA DecisionStep ==
  ASSUME RInv, Next
  PROVE  Decision'
<1>. USE CellKept, KeptCell
<1>0. /\ IInv /\ TypeOK /\ Placed /\ CallsOnce /\ IntentsOnly /\ UNCHANGED cell /\ Apart
      /\ Deliveries \subseteq Processes /\ calls \subseteq calls' /\ charges \subseteq charges'
  BY Grows DEF RInv, KeepsInv, IInv, Money, Next, Processes
<1>. SUFFICES ASSUME NEW e \in Deliveries, Kept(e), pc'[e] \in {"settle", "finish", "reply"}
              PROVE  CalledFor(KeyOf(e), gwOk[e])'
  BY <1>0 DEF Decision, CalledFor
<1>1. \A k, ok : CalledFor(k, ok) => CalledFor(k, ok)'
  <2>. HIDE CellKept, KeptCell
  <2>. QED
    BY <1>0, StaysHappened
<1>2. CASE pc[e] \in {"settle", "finish", "reply"} /\ gwOk'[e] = gwOk[e]
  <2>1. PICK k, ok : k = KeyOf(e) /\ ok = gwOk[e] /\ CalledFor(k, ok)
    BY <1>2 DEF RInv, KeepsInv, Decision
  <2>2. CalledFor(k, ok)'
    BY <1>1, <2>1
  <2>. QED
    BY <1>0, <1>2, <2>1, <2>2
<1>3. CASE CallGateway(e)
  <2>1. PICK ok \in BOOLEAN : GatewayCharge(e, DedupOf(e), ok) /\ gwOk' = [gwOk EXCEPT ![e] = ok]
    BY <1>3 DEF CallGateway
  <2>2. gwOk'[e] = ok
    BY <1>0, <2>1 DEF TypeOK
  <2>3. CalledFor(KeyOf(e), ok)'
    BY <1>0, <2>1, GatewayFor
  <2>. QED
    BY <1>0, <2>2, <2>3
<1>4. CASE ~(pc[e] \in {"settle", "finish", "reply"} /\ gwOk'[e] = gwOk[e]) /\ ~CallGateway(e)
  <2>1. Step(e)
    BY <1>0, <1>4, WhoMoves DEF Death, Die, TypeOK
  <2>2. Handle(e)
    BY <1>0, <2>1 DEF Step, InsertIntent, CommitAll, Drain, DrainRead, DrainCall, DrainMark,
                      DrainDone, Goto, Answer, TypeOK
  <2>3. gwOk' = gwOk
    BY <1>4, <2>2, HandleEffects
  <2>4. SettleCharge(e) \/ Finish(e) \/ MemoCommit(e)
    BY <1>0, <1>4, <2>2, HandleMoves
  <2>5. ~MemoCommit(e)
    BY <1>0 DEF MemoCommit, Placed, Kept, Promises, Uses
  <2>. QED
    BY <1>4, <2>3, <2>4, <2>5 DEF SettleCharge, Finish
<1>. QED
  BY <1>2, <1>3, <1>4

\* A handler records what has happened.
LEMMA RecalledStep ==
  ASSUME RInv, Next
  PROVE  Recalled'
<1>0. /\ IInv /\ TypeOK /\ Placed /\ Locks /\ Committed /\ Decision /\ Recalled
      /\ UNCHANGED cell /\ calls \subseteq calls' /\ charges \subseteq charges'
      /\ \A d \in Deliveries : KeyOf(d) \in AllKeys
  <2>1. /\ IInv /\ TypeOK /\ Placed /\ Locks /\ Committed /\ Decision /\ Recalled /\ IntentsOnly
    BY ONLY RInv DEF RInv, KeepsInv, IInv
  <2>2. UNCHANGED cell /\ calls \subseteq calls' /\ charges \subseteq charges'
    BY ONLY <2>1, Next, Grows
  <2>3. \A d \in Deliveries : KeyOf(d) \in AllKeys
    BY ONLY <2>1, RequestTypes
  <2>. QED
    BY ONLY <2>1, <2>2, <2>3
<1>a. Promises' = Promises /\ strategy' = strategy
  BY <1>0, KeptCell
<1>. SUFFICES ASSUME Promises, NEW k \in AllKeys, keys'[k] # NoRow,
                     keys'[k].state = "done" \/ strategy = "atomic-outbox"
              PROVE  \/ keys'[k].status = 201 /\ BookedFor(k)' # {}
                     \/ /\ keys'[k].status = 502 /\ strategy # "atomic-outbox"
                        /\ Refused(k)'
  BY <1>a DEF Recalled
<1>1. (BookedFor(k) # {} => BookedFor(k)' # {}) /\ (Refused(k) => Refused(k)')
  BY <1>0, StaysHappened
<1>. USE CellKept, KeptCell
<1>2. CASE keys'[k] = keys[k]
  <2>1. \/ keys[k].status = 201 /\ BookedFor(k) # {}
        \/ keys[k].status = 502 /\ strategy # "atomic-outbox" /\ Refused(k)
    BY <1>0, <1>2 DEF Recalled
  <2>. QED
    BY <1>1, <1>2, <2>1
<1>3. ASSUME NEW d \in Deliveries, Handle(d), keys'[k] # keys[k]
      PROVE  \/ keys'[k].status = 201 /\ BookedFor(k)' # {}
             \/ keys'[k].status = 502 /\ strategy # "atomic-outbox" /\ Refused(k)'
  <2>1. k = KeyOf(d) /\ (ClaimCommit(d) \/ Seize(d) \/ Finish(d) \/ MemoCommit(d))
    BY <1>0, <1>3 DEF Handle, Receive, Lookup, ClaimInsert, ClaimCommit, ReadHeld, Seize,
           ChargeInsert, ReadCharge, CallGateway, SettleCharge, Finish, MemoInsert, MemoCommit,
           Reply, TypeOK
  <2>2. ~MemoCommit(d)
    BY <1>0 DEF MemoCommit, Placed, Promises, Uses
  <2>3. ~ClaimCommit(d) /\ ~Seize(d)
    <3>1. SUFFICES ASSUME ClaimCommit(d) \/ Seize(d) PROVE FALSE
      OBVIOUS
    <3>2. strategy # "atomic-outbox" /\ keys'[k] = Row(d, "in-progress", NoAnswer)
      BY <1>0, <2>1, <3>1 DEF ClaimCommit, Seize, Placed, ClaimRow, Promises, Uses, TypeOK
    <3>. QED
      BY <3>2 DEF Row
  <2>4. Finish(d) /\ pc[d] = "finish" /\ HasKey(d) /\ strategy # "atomic-outbox" /\ Kept(d)
    BY <1>0, <2>1, <2>2, <2>3 DEF Finish, Placed, Kept
  <2>5. keys[k] \in KeyRows /\ keys'[k] = FinishedRowOf(d, keys[k])
    BY <1>0, <2>1, <2>4, PromisesAre DEF Finish, FinishedRowOf, Locks, RowThere, Working, TypeOK
  <2>6. keys'[k].status = Outcome(d).status
    BY <1>0, <2>5, FinishedRow
  <2>7. CASE gwOk[d]
    <3>1. ChargeRow(d) \in charges' /\ ChargeRow(d).by = d
      BY <1>0, <2>4, <2>7 DEF Committed, ChargeRow
    <3>2. ChargeRow(d) \in BookedFor(k)'
      BY <1>0, <2>1, <2>4, <3>1 DEF BookedFor
    <3>. QED
      BY <2>6, <2>7, <3>2 DEF Outcome, Charged
  <2>8. CASE ~gwOk[d]
    <3>1. gwOk[d] = FALSE
      BY <1>0, <2>8 DEF TypeOK, Processes
    <3>2. Refused(k)
      BY <1>0, <2>1, <2>4, <3>1 DEF Decision, Refused
    <3>. QED
      BY <1>1, <2>4, <2>6, <2>8, <3>2 DEF Outcome, Refusal
  <2>. QED
    BY <2>7, <2>8
<1>4. ASSUME NEW d \in Deliveries, CommitAll(d), keys'[k] # keys[k]
      PROVE  keys'[k].status = 201 /\ BookedFor(k)' # {}
  <2>1. strategy = "atomic-outbox" /\ k = KeyOf(d) /\ keys'[k] = ClaimRow(d)
    BY <1>0, <1>4 DEF CommitAll, Placed, TypeOK
  <2>2. ChargeRow(d) \in charges' /\ ChargeRow(d).by = d /\ Kept(d)
    BY <1>4, <2>1 DEF CommitAll, ChargeRow, Kept, HasKey, Uses
  <2>3. ChargeRow(d) \in BookedFor(k)'
    BY <1>0, <2>1, <2>2 DEF BookedFor
  <2>. QED
    BY <2>1, <2>3 DEF ClaimRow, Row, Charged
<1>5. ASSUME NEW w \in Processes, InsertIntent(w) \/ Drain(w) \/ Death(w) PROVE UNCHANGED keys
  BY <1>5 DEF InsertIntent, Drain, DrainRead, DrainCall, DrainMark, DrainDone, Death, Die
<1>6. Tick => UNCHANGED keys
  BY DEF Tick
<1>. QED
  BY <1>2, <1>3, <1>4, <1>5, <1>6 DEF Next, Step

\* Nobody is answered twice, pays nothing, or leaves an intent but in the outbox.
LEMMA RestStep ==
  ASSUME RInv, Next
  PROVE  Unheard' /\ Paying' /\ IntentsOnly'
<1>. USE CellKept, KeptCell
<1>0. /\ IInv /\ TypeOK /\ Placed /\ Committed /\ Unheard /\ Paying /\ IntentsOnly
      /\ UNCHANGED cell /\ Deliveries \subseteq Processes
  BY DEF RInv, KeepsInv, IInv, Next, Processes
<1>1. ASSUME NEW e \in Deliveries, pc'[e] # "answered" PROVE answer'[e] = NoAnswer
  <2>1. CASE ~Step(e) /\ ~Death(e)
    BY <1>0, <1>1, <2>1, WhoMoves DEF Unheard
  <2>2. CASE Step(e) \/ Death(e)
    <3>1. pc[e] # "answered" /\ UNCHANGED answer
      BY <1>0, <1>1, <2>2 DEF Step, Handle, Receive, Lookup, ClaimInsert, ClaimCommit, ReadHeld,
           Seize, ChargeInsert, ReadCharge, CallGateway, SettleCharge, Finish, MemoInsert,
           MemoCommit, Reply, InsertIntent, CommitAll, Drain, DrainRead, DrainCall, DrainMark,
           DrainDone, Death, Die, Goto, Answer, TypeOK
    <3>. QED
      BY <1>0, <3>1 DEF Unheard
  <2>. QED
    BY <2>1, <2>2
<1>2. ASSUME NEW e \in Deliveries, pc'[e] \notin {"new", "answered", "dead"}
      PROVE  request[e].amount > 0
  <2>1. CASE pc[e] \notin {"new", "answered", "dead"}
    BY <1>0, <2>1 DEF Paying
  <2>2. CASE pc[e] \in {"new", "answered", "dead"}
    <3>1. Step(e)
      BY <1>0, <1>2, <2>2, WhoMoves DEF Death, Die, TypeOK
    <3>2. Receive(e)
      BY <2>2, <3>1 DEF Step, Handle, Receive, Lookup, ClaimInsert, ClaimCommit, ReadHeld,
           Seize, ChargeInsert, ReadCharge, CallGateway, SettleCharge, Finish, MemoInsert,
           MemoCommit, Reply, InsertIntent, CommitAll, Drain, DrainRead, DrainCall, DrainMark,
           DrainDone
    <3>. QED
      BY <1>0, <1>2, <3>2 DEF Receive, Answer, TypeOK
  <2>. QED
    BY <2>1, <2>2
<1>3. ASSUME NEW e \in Deliveries, outbox'[e] # "none" PROVE strategy = "atomic-outbox"
  <2>1. CASE outbox[e] # "none"
    BY <1>0, <2>1 DEF IntentsOnly
  <2>2. ASSUME NEW w \in Processes, CommitAll(w), w \in Deliveries PROVE strategy = "atomic-outbox"
    BY <1>0, <2>2 DEF CommitAll, Placed
  <2>3. ASSUME NEW w \in Processes, DrainMark(w) PROVE strategy = "atomic-outbox"
    BY <1>0, <2>3 DEF DrainMark, Committed, IntentsOnly
  <2>4. ASSUME NEW w \in Processes, DrainRead(w) \/ DrainCall(w) \/ DrainDone(w) \/ Death(w)
                                    \/ InsertIntent(w)
        PROVE  UNCHANGED outbox
    BY <2>4 DEF DrainRead, DrainCall, DrainDone, Death, InsertIntent, outboxVars
  <2>. QED
    BY <1>3, <2>1, <2>2, <2>3, <2>4 DEF Next, Step, Drain, outboxVars
<1>. QED
  BY <1>0, <1>1, <1>2, <1>3 DEF Unheard, Paying, IntentsOnly

-----------------------------------------------------------------------------
(* What a step does to the operation a key stands for.                     *)
LEMMA AskedIs ==
  ASSUME NEW d \in Deliveries
  PROVE  /\ Asked[d].key = KeyOf(d) /\ Asked[d].op = Fingerprint(d)
         /\ Asked[d].valid <=> request[d].amount > 0
BY DEF Asked

LEMMA MeaningIs ==
  ASSUME NEW k \in AllKeys, Promises
  PROVE  Meaning[k] = IF keys[k] # NoRow THEN {keys[k].mark} ELSE {}
BY DEF Meaning

LEMMA BookedIs ==
  ASSUME NEW k \in AllKeys
  PROVE  Booked[k] = {[by |-> c.by, op |-> <<c.order, c.amount>>] : c \in BookedFor(k)}
BY DEF Booked

\* The row a charge of d is booked as.
RowOf(d) == [by |-> d, op |-> Fingerprint(d)]

LEMMA DecidedIs ==
  /\ \A k : CalledFor(k, TRUE) => Once!Decided(k, TRUE)
  /\ \A k : Refused(k) => \E f \in Effects : f.key = k /\ f.ok = FALSE
<1>1. ASSUME NEW k, NEW ok, NEW m \in calls, Kept(m.by), KeyOf(m.by) = k, m.ok = ok
      PROVE  \E f \in Effects : f.key = k /\ f.ok = ok
  <2>. DEFINE f == [key |-> KeyOf(m.by), op |-> Fingerprint(m.by), ok |-> m.ok, ref |-> m.ref]
  <2>1. f \in Effects /\ f.key = k /\ f.ok = ok
    BY <1>1 DEF Effects
  <2>. HIDE DEF f
  <2>. QED
    BY <2>1
<1>. QED
  BY <1>1 DEF CalledFor, Refused, Once!Decided

\* Whatever is booked for a key is what it stands for.
LEMMA BookedMeans ==
  ASSUME RInv, NEW k \in AllKeys, NEW c \in BookedFor(k)
  PROVE  keys[k] # NoRow /\ keys[k].mark = <<c.order, c.amount>>
<1>1. TypeOK /\ MeansIt
  BY DEF RInv, IInv, KeepsInv
<1>2. c \in charges /\ Kept(c.by) /\ KeyOf(c.by) = k
  BY DEF BookedFor
<1>3. PICK e \in Deliveries : c = ChargeRow(e)
  BY <1>1, <1>2 DEF TypeOK
<1>4. c.by = e /\ <<c.order, c.amount>> = Fingerprint(e)
  BY <1>3 DEF ChargeRow, Fingerprint
<1>. QED
  BY <1>1, <1>2, <1>3, <1>4 DEF MeansIt, Engaged

\* A row that keeps its mark leaves the meaning of its key.
LEMMA MeaningStays ==
  ASSUME UNCHANGED cell,
         \A k \in AllKeys : /\ keys'[k] = NoRow <=> keys[k] = NoRow
                            /\ keys[k] # NoRow => keys'[k].mark = keys[k].mark
  PROVE  Meaning' = Meaning
<1>1. Promises' = Promises
  BY KeptCell
<1>2. \A k \in AllKeys : (IF Promises' /\ keys'[k] # NoRow THEN {keys'[k].mark} ELSE {})
                          = (IF Promises /\ keys[k] # NoRow THEN {keys[k].mark} ELSE {})
  BY <1>1
<1>. QED
  BY <1>2 DEF Meaning

LEMMA EffectsStay ==
  ASSUME UNCHANGED cell, UNCHANGED calls
  PROVE  Effects' = Effects
BY KeptCell, CellKept DEF Effects

LEMMA BookedStays ==
  ASSUME UNCHANGED cell, UNCHANGED charges
  PROVE  Booked' = Booked /\ \A k : BookedFor(k)' = BookedFor(k)
<1>1. \A k : BookedFor(k)' = BookedFor(k)
  BY KeptCell, CellKept DEF BookedFor
<1>. QED
  BY <1>1 DEF Booked

LEMMA HeardStays ==
  ASSUME UNCHANGED cell, \A d \in Deliveries : Kept(d) => answer'[d] = answer[d]
  PROVE  Heard' = Heard
<1>1. \A d : Kept(d)' = Kept(d)
  BY KeptCell
<1>. QED
  BY <1>1 DEF Heard, Words

\* A claim gives a key its meaning.
LEMMA ClaimMeans ==
  ASSUME RInv, Promises, UNCHANGED cell, NEW d \in Deliveries, keys[KeyOf(d)] = NoRow,
         keys' = [keys EXCEPT ![KeyOf(d)] = ClaimRow(d)]
  PROVE  Meaning[KeyOf(d)] = {} /\ Meaning' = [Meaning EXCEPT ![KeyOf(d)] = {Fingerprint(d)}]
<1>0. TypeOK /\ KeyOf(d) \in AllKeys /\ Promises'
  BY RequestTypes, KeptCell DEF RInv, IInv
<1>1. ClaimRow(d) # NoRow
  BY <1>0, RowTypes, SentinelAssumption
<1>2. ClaimRow(d).mark = Fingerprint(d)
  <2>1. strategy # "memo-before" /\ \E state, response : ClaimRow(d) = Row(d, state, response)
    BY <1>0, PromisesAre DEF ClaimRow
  <2>. QED
    BY <2>1 DEF Row
<1>3. Meaning[KeyOf(d)] = {}
  BY <1>0, MeaningIs
<1>4. \A k \in AllKeys : (IF keys'[k] # NoRow THEN {keys'[k].mark} ELSE {})
                          = [Meaning EXCEPT ![KeyOf(d)] = {Fingerprint(d)}][k]
  <2>. SUFFICES ASSUME NEW k \in AllKeys
                PROVE  (IF keys'[k] # NoRow THEN {keys'[k].mark} ELSE {})
                         = [Meaning EXCEPT ![KeyOf(d)] = {Fingerprint(d)}][k]
    OBVIOUS
  <2>1. DOMAIN Meaning = AllKeys /\ Meaning[k] = IF keys[k] # NoRow THEN {keys[k].mark} ELSE {}
    BY <1>0, MeaningIs DEF Meaning
  <2>2. keys'[k] = IF k = KeyOf(d) THEN ClaimRow(d) ELSE keys[k]
    BY <1>0 DEF TypeOK
  <2>. QED
    BY <1>0, <1>1, <1>2, <2>1, <2>2
<1>5. Meaning' = [k \in AllKeys |-> IF keys'[k] # NoRow THEN {keys'[k].mark} ELSE {}]
  BY <1>0 DEF Meaning
<1>6. DOMAIN Meaning = AllKeys
  BY DEF Meaning
<1>. QED
  BY <1>3, <1>4, <1>5, <1>6

\* A charge is booked for its key, if it keeps one.
LEMMA ChargeBooks ==
  ASSUME RInv, UNCHANGED cell, NEW d \in Deliveries, charges' = charges \union {ChargeRow(d)}
  PROVE  IF Kept(d) THEN Booked' = [Booked EXCEPT ![KeyOf(d)] = @ \union {RowOf(d)}]
                    ELSE Booked' = Booked
<1>. USE CellKept, KeptCell
<1>0. TypeOK /\ KeyOf(d) \in AllKeys /\ ChargeRow(d).by = d
  BY RequestTypes DEF RInv, IInv
<1>1. ASSUME NEW k \in AllKeys
      PROVE  BookedFor(k)' = IF Kept(d) /\ k = KeyOf(d) THEN BookedFor(k) \union {ChargeRow(d)}
                                                       ELSE BookedFor(k)
  BY <1>0 DEF BookedFor
<1>2. [by |-> ChargeRow(d).by, op |-> <<ChargeRow(d).order, ChargeRow(d).amount>>] = RowOf(d)
  BY DEF ChargeRow, Fingerprint, RowOf
<1>3. ASSUME NEW k \in AllKeys
      PROVE  {[by |-> c.by, op |-> <<c.order, c.amount>>] : c \in BookedFor(k)'} =
               IF Kept(d) /\ k = KeyOf(d) THEN Booked[k] \union {RowOf(d)} ELSE Booked[k]
  <2>1. Booked[k] = {[by |-> c.by, op |-> <<c.order, c.amount>>] : c \in BookedFor(k)}
    BY BookedIs
  <2>2. CASE Kept(d) /\ k = KeyOf(d)
    BY <1>1, <1>2, <2>1, <2>2
  <2>3. CASE ~(Kept(d) /\ k = KeyOf(d))
    BY <1>1, <2>1, <2>3
  <2>. QED
    BY <2>2, <2>3
<1>4. Booked' = [k \in AllKeys |->
                   {[by |-> c.by, op |-> <<c.order, c.amount>>] : c \in BookedFor(k)'}]
  BY DEF Booked
<1>5. Booked = [k \in AllKeys |-> Booked[k]]
  BY DEF Booked
<1>. HIDE CellKept, KeptCell
<1>6. CASE Kept(d)
  <2>1. \A k \in AllKeys : [Booked EXCEPT ![KeyOf(d)] = @ \union {RowOf(d)}][k]
                            = IF k = KeyOf(d) THEN Booked[k] \union {RowOf(d)} ELSE Booked[k]
    BY <1>0, <1>5
  <2>. QED
    BY <1>0, <1>3, <1>4, <1>5, <1>6, <2>1
<1>7. CASE ~Kept(d)
  BY <1>3, <1>4, <1>5, <1>7
<1>. QED
  BY <1>6, <1>7

\* An answer is heard once.
LEMMA AnswerHeard ==
  ASSUME RInv, UNCHANGED cell, NEW d \in Deliveries, pc[d] # "answered", NEW response,
         Answer(d, response), response.status \in {201, 400, 409, 422, 502}
  PROVE  IF Kept(d) THEN /\ Heard[d] = "nothing"
                         /\ Heard' = [Heard EXCEPT ![d] = Words[response.status]]
                    ELSE Heard' = Heard
<1>0. TypeOK /\ Unheard
  BY DEF RInv, IInv, KeepsInv
<1>1. /\ answer[d].status = 0
      /\ \A e \in Deliveries : answer'[e] = IF e = d THEN response ELSE answer[e]
  BY <1>0 DEF Unheard, NoAnswer, Refusal, Answer, TypeOK
<1>2. \A e : Kept(e)' = Kept(e)
  BY KeptCell
<1>3. CASE Kept(d)
  <2>. DEFINE heard(e, status) == IF Kept(e) /\ status \in DOMAIN Words THEN Words[status]
                                  ELSE IF Kept(e) THEN "failed" ELSE "nothing"
  <2>1. Heard = [e \in Deliveries |-> heard(e, answer[e].status)]
    BY DEF Heard
  <2>2. Heard' = [e \in Deliveries |-> heard(e, answer'[e].status)]
    BY <1>2 DEF Heard, Words
  <2>3. heard(d, 0) = "nothing" /\ heard(d, response.status) = Words[response.status]
    BY <1>3, WordsAre
  <2>. HIDE DEF heard
  <2>. QED
    BY <1>1, <1>3, <2>1, <2>2, <2>3
<1>4. CASE ~Kept(d)
  BY <1>1, <1>4, HeardStays
<1>. QED
  BY <1>3, <1>4

-----------------------------------------------------------------------------
(* The steps, one after another.                                           *)
Quiet == UNCHANGED <<Meaning, Effects, Booked, Heard>>

Acts == \/ \E d \in Deliveries : Once!Bind(d) \/ Once!Book(d) \/ Once!Hear(d)
        \/ Once!Decide

\* A call decides the operation of a key, if the gateway has not; nobody else's.
LEMMA CallDecides ==
  ASSUME RInv, UNCHANGED <<cell, keys, charges, answer>>,
         NEW d \in Deliveries, NEW ok \in BOOLEAN, GatewayCharge(d, DedupOf(d), ok),
         Kept(d) => Engaged(d),
         strategy = "lease" => pc[d] = "gateway",
         strategy = "atomic-outbox" => ChargeRow(d) \in charges
  PROVE  Once!Decide \/ Quiet
<1>0. /\ TypeOK /\ MeansIt /\ CallsOnce /\ CalledOnce /\ Apart /\ KeyOf(d) \in AllKeys
      /\ Fingerprint(d) \in Orders \X Amounts
  BY RequestTypes DEF RInv, IInv, Money, KeepsInv
<1>1. Meaning' = Meaning /\ Booked' = Booked /\ Heard' = Heard
  BY MeaningStays, BookedStays, HeardStays
<1>2. CASE Recorded(DedupOf(d)) # {}
  <2>1. calls' = calls
    BY <1>2 DEF GatewayCharge, gatewayVars
  <2>. QED
    BY <1>1, <2>1, EffectsStay DEF Quiet
<1>3. CASE Recorded(DedupOf(d)) = {}
  <2>. DEFINE new == [ref |-> issued + 1, dedup |-> DedupOf(d), by |-> d, ok |-> ok]
              e == [key |-> KeyOf(d), op |-> Fingerprint(d), ok |-> ok, ref |-> issued + 1]
  <2>1. calls' = calls \union {new}
    BY <1>3 DEF GatewayCharge
  <2>2. CASE ~Kept(d)
    <3>1. {c \in calls' : Kept(c.by)'} = {c \in calls : Kept(c.by)}
      BY <2>1, <2>2, KeptCell
    <3>2. Effects' = Effects
      BY <3>1, CellKept DEF Effects
    <3>. QED
      BY <1>1, <3>2 DEF Quiet
  <2>3. CASE Kept(d)
    <3>1. {c \in calls' : Kept(c.by)'} = {c \in calls : Kept(c.by)} \union {new}
      BY <2>1, <2>3, KeptCell
    <3>2. e = [key |-> KeyOf(new.by), op |-> Fingerprint(new.by), ok |-> new.ok, ref |-> new.ref]
      OBVIOUS
    <3>3. Effects' = Effects \union {e}
      <4>. HIDE DEF new, e
      <4>. QED
        BY <3>1, <3>2, CellKept DEF Effects
    <3>4. Promises /\ Meaning[KeyOf(d)] = {Fingerprint(d)}
      BY <1>0, <2>3, MeaningIs DEF MeansIt, Kept
    <3>5. ASSUME NEW f \in Effects PROVE f.key # KeyOf(d)
      <4>1. PICK m \in calls : Kept(m.by) /\ f.key = KeyOf(m.by)
        BY DEF Effects
      <4>2. m.by \in Deliveries
        BY <1>0 DEF TypeOK
      <4>3. CASE strategy = "lease"
        BY <1>0, <2>3, <4>1, <4>3 DEF CalledOnce, SameKey, Kept
      <4>4. CASE strategy # "lease"
        <5>1. KeyOf(m.by) = KeyOf(d) => DedupOf(m.by) = DedupOf(d) /\ DedupOf(d) # NoDedup
          BY <1>0, <2>3, <4>1, <4>2, <4>4, OneKeyOneText
        <5>. QED
          BY <1>0, <1>3, <4>1, <5>1 DEF Recorded, CallsOnce
      <4>. QED
        BY <4>3, <4>4
    <3>6. Manner = "committed-first" => RowOf(d) \in Booked[KeyOf(d)]
      <4>. SUFFICES ASSUME strategy = "atomic-outbox" PROVE RowOf(d) \in Booked[KeyOf(d)]
        BY <1>0, MannerIs
      <4>1. ChargeRow(d) \in BookedFor(KeyOf(d))
        BY <1>0, <2>3 DEF BookedFor, ChargeRow
      <4>2. [by |-> ChargeRow(d).by, op |-> <<ChargeRow(d).order, ChargeRow(d).amount>>] = RowOf(d)
        BY DEF ChargeRow, Fingerprint, RowOf
      <4>. QED
        BY <1>0, <4>1, <4>2, BookedIs
    <3>7. e.key = KeyOf(d) /\ e.op = Fingerprint(d)
      OBVIOUS
    <3>. HIDE DEF e, new
    <3>8. /\ e \in Effects' /\ Effects' = Effects \union {e}
          /\ e.key \in AllKeys /\ Meaning[e.key] = {e.op}
          /\ \A f \in Effects : f.key # e.key
          /\ Manner = "committed-first" => \E row \in Booked[e.key] : row.op = e.op
      BY <1>0, <3>3, <3>4, <3>5, <3>6, <3>7 DEF RowOf
    <3>. QED
      BY <1>1, <3>8 DEF Once!Decide
  <2>. QED
    BY <2>2, <2>3
<1>. QED
  BY <1>2, <1>3

\* What it takes to say it of the key of d.
TrueOf(d, what) ==
  /\ \/ what = "invalid" /\ ~(request[d].amount > 0)
     \/ what = "charged" /\ BookedFor(KeyOf(d)) # {}
     \/ what = "declined" /\ strategy # "atomic-outbox" /\ Refused(KeyOf(d))
     \/ what = "busy" /\ strategy # "atomic-outbox" /\ keys[KeyOf(d)] # NoRow
     \/ what = "conflict" /\ keys[KeyOf(d)] # NoRow
  /\ what \in {"charged", "declined", "busy"} /\ strategy # "lease" =>
       keys[KeyOf(d)] # NoRow /\ keys[KeyOf(d)].mark = Fingerprint(d)
  /\ what = "conflict" => strategy # "lease" /\ keys[KeyOf(d)].mark # Fingerprint(d)

\* An answer whose words are true of the key is one of the operation's.
LEMMA AnswerMaps ==
  ASSUME RInv, Promises, UNCHANGED <<cell, keys, calls, charges>>, NEW d \in Deliveries,
         pc[d] # "answered", NEW response, Answer(d, response),
         response.status \in {201, 400, 409, 422, 502},
         Kept(d) => TrueOf(d, Words[response.status])
  PROVE  Once!Hear(d) \/ Quiet
<1>. DEFINE what == Words[response.status]
<1>. HIDE DEF what
<1>0. TypeOK /\ KeyOf(d) \in AllKeys
  BY RequestTypes DEF RInv, IInv
<1>1. Meaning' = Meaning /\ Booked' = Booked /\ Effects' = Effects
  BY MeaningStays, BookedStays, EffectsStay
<1>2. CASE ~Kept(d)
  BY <1>1, <1>2, AnswerHeard DEF Quiet
<1>3. CASE Kept(d)
  <2>0. TrueOf(d, what)
    BY <1>3 DEF what
  <2>1. Heard[d] = "nothing" /\ Heard' = [Heard EXCEPT ![d] = what]
    BY <1>3, AnswerHeard DEF what
  <2>2. Meaning[KeyOf(d)] = IF keys[KeyOf(d)] # NoRow THEN {keys[KeyOf(d)].mark} ELSE {}
    BY <1>0, MeaningIs
  <2>3. BookedFor(KeyOf(d)) # {} => Booked[KeyOf(d)] # {}
    <3>1. Booked[KeyOf(d)] =
            {[by |-> c.by, op |-> <<c.order, c.amount>>] : c \in BookedFor(KeyOf(d))}
      BY <1>0, BookedIs
    <3>2. ASSUME NEW c \in BookedFor(KeyOf(d)) PROVE Booked[KeyOf(d)] # {}
      <4>1. [by |-> c.by, op |-> <<c.order, c.amount>>] \in Booked[KeyOf(d)]
        BY ONLY <3>1, <3>2, Zenon
      <4>. QED
        BY <4>1
    <3>. QED
      BY <3>2
  <2>4. Refused(KeyOf(d)) => Once!Decided(KeyOf(d), FALSE)
    BY DecidedIs DEF Once!Decided
  <2>5. /\ strategy = "lease" <=> Manner = "unchecked"
        /\ strategy = "atomic-outbox" <=> Manner = "committed-first"
    BY MannerIs DEF RInv
  <2>6. what \in {"charged", "declined", "conflict", "busy", "invalid"}
    BY <2>0 DEF TrueOf
  <2>7. Heard'[d] = what
    BY <2>1 DEF Heard
  <2>. DEFINE k == Asked[d].key
  <2>8. k = KeyOf(d) /\ Asked[d].op = Fingerprint(d) /\ (Asked[d].valid <=> request[d].amount > 0)
    BY AskedIs
  <2>9. \/ what = "invalid" /\ ~Asked[d].valid
        \/ what = "charged" /\ Booked[k] # {}
        \/ what = "declined" /\ Manner # "committed-first" /\ Once!Decided(k, FALSE)
        \/ what = "busy" /\ Manner # "committed-first" /\ Meaning[k] # {}
        \/ what = "conflict" /\ Meaning[k] # {}
    <3>1. CASE what = "invalid"
      BY <2>0, <2>8, <3>1 DEF TrueOf
    <3>2. CASE what = "charged"
      BY <2>0, <2>3, <2>8, <3>2 DEF TrueOf
    <3>3. CASE what = "declined"
      <4>1. strategy # "atomic-outbox" /\ Refused(KeyOf(d))
        BY <2>0, <3>3 DEF TrueOf
      <4>2. Once!Decided(k, FALSE)
        BY ONLY <2>4, <2>8, <4>1
      <4>. QED
        BY ONLY <2>5, <3>3, <4>1, <4>2, Zenon
    <3>4. CASE what = "busy"
      BY <2>0, <2>2, <2>5, <2>8, <3>4 DEF TrueOf
    <3>5. CASE what = "conflict"
      BY <2>0, <2>2, <2>8, <3>5 DEF TrueOf
    <3>. QED
      BY ONLY <2>6, <3>1, <3>2, <3>3, <3>4, <3>5
  <2>10. what \in {"charged", "declined", "busy"} /\ Manner # "unchecked" => Asked[d].op \in Meaning[k]
    BY <2>0, <2>2, <2>5, <2>8 DEF TrueOf
  <2>11. what = "conflict" => Manner # "unchecked" /\ Asked[d].op \notin Meaning[k]
    BY <2>0, <2>2, <2>5, <2>8 DEF TrueOf
  <2>12. UNCHANGED <<Meaning, Effects, Booked>>
    BY ONLY <1>1
  <2>. HIDE DEF k
  <2>13. LET told == Heard'[d] IN
         /\ Heard[d] = "nothing" /\ told \in {"charged", "declined", "conflict", "busy", "invalid"}
         /\ \/ told = "invalid" /\ ~Asked[d].valid
            \/ told = "charged" /\ Booked[k] # {}
            \/ told = "declined" /\ Manner # "committed-first" /\ Once!Decided(k, FALSE)
            \/ told = "busy" /\ Manner # "committed-first" /\ Meaning[k] # {}
            \/ told = "conflict" /\ Meaning[k] # {}
         /\ told \in {"charged", "declined", "busy"} /\ Manner # "unchecked" => Asked[d].op \in Meaning[k]
         /\ told = "conflict" => Manner # "unchecked" /\ Asked[d].op \notin Meaning[k]
         /\ Heard' = [Heard EXCEPT ![d] = told]
    BY ONLY <2>1, <2>6, <2>7, <2>9, <2>10, <2>11
  <2>14. Once!Hear(d)
    BY ONLY <2>12, <2>13 DEF k, Once!Hear
  <2>. QED
    BY ONLY <2>14
<1>. QED
  BY <1>2, <1>3

\* The claim, and of atomic-outbox the one commit, binds the key.
LEMMA ClaimBinds ==
  ASSUME RInv, Next, Promises, NEW d \in Deliveries, ClaimCommit(d) \/ CommitAll(d)
  PROVE  Once!Bind(d)
<1>0. /\ TypeOK /\ Placed /\ Locks /\ Paying /\ UNCHANGED cell /\ KeyOf(d) \in AllKeys
      /\ d \in Processes
  BY RequestTypes DEF RInv, IInv, KeepsInv, Next, Processes
<1>1. Kept(d) /\ request[d].amount > 0 /\ keys[KeyOf(d)] = NoRow
  BY <1>0 DEF ClaimCommit, CommitAll, Placed, Paying, Kept, HasKey, Uses, Claiming,
              Locks, Reserved, Inserting
<1>2. Meaning[KeyOf(d)] = {} /\ Meaning' = [Meaning EXCEPT ![KeyOf(d)] = {Fingerprint(d)}]
  BY <1>0, <1>1, ClaimMeans DEF ClaimCommit, CommitAll
<1>3. calls' = calls /\ answer' = answer
  BY DEF ClaimCommit, CommitAll, Goto, gatewayVars
<1>4. Effects' = Effects /\ Heard' = Heard
  BY <1>0, <1>3, EffectsStay, HeardStays
<1>5. Booked' = IF Manner = "committed-first" THEN [Booked EXCEPT ![KeyOf(d)] = {RowOf(d)}]
                                              ELSE Booked
  <2>1. CASE ClaimCommit(d)
    <3>1. Manner # "committed-first" /\ charges' = charges
      BY <1>0, <2>1, MannerIs DEF ClaimCommit, Uses, RInv
    <3>. QED
      BY <1>0, <3>1, BookedStays
  <2>2. CASE CommitAll(d)
    <3>1. Manner = "committed-first" /\ charges' = charges \union {ChargeRow(d)}
      BY <1>0, <2>2, MannerIs DEF CommitAll, Placed, RInv
    <3>2. Booked' = [Booked EXCEPT ![KeyOf(d)] = @ \union {RowOf(d)}]
      BY <1>0, <1>1, <3>1, ChargeBooks
    <3>3. BookedFor(KeyOf(d)) = {}
      BY <1>0, <1>1, BookedMeans
    <3>4. Booked[KeyOf(d)] = {} /\ Booked[KeyOf(d)] \union {RowOf(d)} = {RowOf(d)}
      BY <1>0, <3>3, BookedIs
    <3>5. \A row : Booked[KeyOf(d)] = {} =>
            [Booked EXCEPT ![KeyOf(d)] = @ \union {row}] = [Booked EXCEPT ![KeyOf(d)] = {row}]
      OBVIOUS
    <3>. QED
      BY <3>1, <3>2, <3>4, <3>5
  <2>. QED
    BY <2>1, <2>2
<1>. QED
  BY <1>1, <1>2, <1>4, <1>5, AskedIs DEF Once!Bind, RowOf

\* Where one delivery at most is let past the claim, nobody has booked before.
LEMMA LeaseBooksOnce ==
  ASSUME RInv, Next, strategy = "lease", NEW d \in Deliveries, Kept(d),
         charges' = charges \union {ChargeRow(d)}, charges' # charges
  PROVE  Booked[KeyOf(d)] = {}
<1>0. TypeOK /\ UNCHANGED cell /\ OneChargeEach' /\ KeyOf(d) \in AllKeys
  BY NextIInv, RequestTypes DEF RInv, IInv, OnceEach, Next
<1>1. ChargeRow(d) \notin charges /\ ChargeRow(d).by = d
  BY DEF ChargeRow
<1>2. ASSUME NEW c \in BookedFor(KeyOf(d)) PROVE FALSE
  <2>1. c \in charges /\ Kept(c.by) /\ KeyOf(c.by) = KeyOf(d)
    BY <1>2 DEF BookedFor
  <2>2. SameKey(c.by, ChargeRow(d).by)'
    BY <1>0, <1>1, <2>1, CellKept DEF SameKey, Kept
  <2>3. c = ChargeRow(d)
    <3>1. c \in charges' /\ ChargeRow(d)' \in charges' /\ ChargeRow(d)' = ChargeRow(d)
      BY <1>0, <2>1, CellKept
    <3>2. Uses({"memo-before", "lease", "atomic-outbox"})'
      BY <1>0 DEF Uses, cell
    <3>. QED
      BY <1>0, <2>2, <3>1, <3>2 DEF OneChargeEach
  <2>. QED
    BY <1>1, <2>1, <2>3
<1>. QED
  BY <1>0, <1>2, BookedIs

\* A commit of the charge books the operation.
LEMMA SettleBooks ==
  ASSUME RInv, Next, Promises, NEW d \in Deliveries, SettleCharge(d)
  PROVE  Once!Book(d) \/ Quiet
<1>0. /\ TypeOK /\ Placed /\ Decision /\ MeansIt /\ UNCHANGED cell /\ KeyOf(d) \in AllKeys
      /\ d \in Processes
  BY RequestTypes DEF RInv, IInv, KeepsInv, Next, Processes
<1>1. UNCHANGED <<keys, calls, answer>>
  BY DEF SettleCharge, Goto, gatewayVars
<1>2. Meaning' = Meaning /\ Effects' = Effects /\ Heard' = Heard
  BY <1>0, <1>1, MeaningStays, EffectsStay, HeardStays
<1>3. CASE charges' = charges
  BY <1>0, <1>2, <1>3, BookedStays DEF Quiet
<1>4. CASE charges' # charges /\ ~Kept(d)
  BY <1>0, <1>2, <1>4, ChargeBooks DEF SettleCharge, Quiet
<1>5. CASE charges' # charges /\ Kept(d)
  <2>1. gwOk[d] = TRUE /\ charges' = charges \union {ChargeRow(d)} /\ pc[d] = "settle"
    BY <1>0, <1>5 DEF SettleCharge, TypeOK
  <2>2. CalledFor(KeyOf(d), TRUE) /\ strategy # "atomic-outbox"
    BY <1>0, <1>5, <2>1 DEF Decision, Placed, Performing
  <2>3. Meaning[KeyOf(d)] = {Fingerprint(d)}
    BY <1>0, <1>5, <2>1, MeaningIs DEF MeansIt, Engaged, Working, Kept
  <2>4. Booked' = [Booked EXCEPT ![KeyOf(d)] = @ \union {RowOf(d)}]
    BY <1>0, <1>5, <2>1, ChargeBooks
  <2>5. Manner # "committed-first" /\ Once!Decided(KeyOf(d), TRUE)
    BY <1>0, <2>2, MannerIs, DecidedIs DEF RInv
  <2>6. Manner = "unchecked" => Booked[KeyOf(d)] = {}
    BY <1>5, <2>1, MannerIs, LeaseBooksOnce DEF RInv
  <2>. QED
    BY <1>2, <2>3, <2>4, <2>5, <2>6, AskedIs DEF Once!Book, RowOf
<1>. QED
  BY <1>3, <1>4, <1>5

\* A refusal of the first step.
LEMMA ReceiveMaps ==
  ASSUME RInv, Next, Promises, NEW d \in Deliveries, Receive(d)
  PROVE  Once!Hear(d) \/ Quiet
<1>0. /\ TypeOK /\ UNCHANGED <<cell, keys, calls, charges>>
  BY DEF RInv, IInv, Next, Receive, gatewayVars
<1>1. CASE UNCHANGED answer
  BY <1>0, <1>1, MeaningStays, EffectsStay, BookedStays, HeardStays DEF Quiet
<1>2. CASE request[d].amount <= 0 /\ Answer(d, Refusal(400))
  <2>1. Refusal(400).status = 400 /\ pc[d] # "answered" /\ request[d].amount \in Int
    BY <1>0, RequestTypes, TimeAssumption DEF Refusal, Receive
  <2>2. ~(request[d].amount > 0)
    BY <1>2, <2>1
  <2>3. TrueOf(d, Words[400])
    BY <2>2, WordsAre DEF TrueOf
  <2>. QED
    BY <1>0, <1>2, <2>1, <2>3, AnswerMaps
<1>. QED
  BY <1>1, <1>2 DEF Receive, Goto

\* The answer to a claim that found the key taken.
LEMMA ReadHeldMaps ==
  ASSUME RInv, Next, Promises, NEW d \in Deliveries, ReadHeld(d)
  PROVE  Once!Hear(d) \/ Quiet
<1>0. /\ TypeOK /\ Placed /\ Locks /\ Apart /\ Recalled /\ UNCHANGED <<cell, keys, calls, charges>>
      /\ KeyOf(d) \in AllKeys /\ d \in Processes
  BY RequestTypes DEF RInv, IInv, KeepsInv, Next, ReadHeld, gatewayVars, Processes
<1>1. keys[KeyOf(d)] # NoRow /\ pc[d] # "answered" /\ strategy # "memo-before"
  BY <1>0, PromisesAre DEF ReadHeld, Locks, RowThere
<1>. DEFINE row == keys[KeyOf(d)]
<1>2. /\ Refusal(409).status = 409 /\ Refusal(422).status = 422
      /\ ReplayOf(row).status = row.status
  BY DEF Refusal, ReplayOf
<1>3. CASE UNCHANGED answer
  BY <1>0, <1>3, MeaningStays, EffectsStay, BookedStays, HeardStays DEF Quiet
<1>4. CASE strategy # "lease" /\ row.mark # Fingerprint(d) /\ Answer(d, Refusal(422))
  <2>1. TrueOf(d, Words[422])
    BY <1>1, <1>4, WordsAre DEF TrueOf
  <2>. QED
    BY <1>0, <1>1, <1>2, <1>4, <2>1, AnswerMaps
<1>5. CASE /\ strategy # "atomic-outbox" /\ Answer(d, Refusal(409))
           /\ strategy # "lease" => row.mark = Fingerprint(d)
  <2>1. TrueOf(d, Words[409])
    BY <1>1, <1>5, WordsAre DEF TrueOf
  <2>. QED
    BY <1>0, <1>1, <1>2, <1>5, <2>1, AnswerMaps
<1>6. CASE /\ strategy # "lease" => row.mark = Fingerprint(d)
           /\ row.state = "done" \/ strategy = "atomic-outbox"
           /\ Answer(d, ReplayOf(row))
  <2>1. \/ row.status = 201 /\ BookedFor(KeyOf(d)) # {}
        \/ row.status = 502 /\ strategy # "atomic-outbox" /\ Refused(KeyOf(d))
    BY <1>0, <1>1, <1>6 DEF Recalled
  <2>2. TrueOf(d, Words[row.status]) /\ row.status \in {201, 502}
    BY <1>1, <1>6, <2>1, WordsAre DEF TrueOf
  <2>. QED
    BY <1>0, <1>1, <1>2, <1>6, <2>2, AnswerMaps
<1>. QED
  BY <1>1, <1>3, <1>4, <1>5, <1>6 DEF ReadHeld, Goto

\* The answer of who performed the operation.
LEMMA ReplyMaps ==
  ASSUME RInv, Next, Promises, NEW d \in Deliveries, Reply(d)
  PROVE  Once!Hear(d) \/ Quiet
<1>0. /\ TypeOK /\ Placed /\ Committed /\ Decision /\ MeansIt
      /\ UNCHANGED <<cell, keys, calls, charges>>
      /\ KeyOf(d) \in AllKeys /\ d \in Processes
      /\ pc[d] = "reply" /\ strategy # "atomic-outbox" /\ Answer(d, Outcome(d))
  BY RequestTypes DEF RInv, IInv, KeepsInv, Next, Reply, gatewayVars, Processes, Placed
<1>1. Kept(d) => keys[KeyOf(d)] # NoRow /\ keys[KeyOf(d)].mark = Fingerprint(d)
  BY <1>0 DEF MeansIt, Engaged, Working, Kept
<1>2. CASE gwOk[d]
  <2>1. Outcome(d).status = 201 /\ (Kept(d) => ChargeRow(d) \in BookedFor(KeyOf(d)))
    BY <1>0, <1>2, RequestTypes DEF Outcome, Charged, Committed, BookedFor
  <2>2. Kept(d) => TrueOf(d, Words[201])
    BY <1>0, <1>1, <2>1, WordsAre DEF TrueOf
  <2>. QED
    BY <1>0, <2>1, <2>2, AnswerMaps
<1>3. CASE ~gwOk[d]
  <2>1. gwOk[d] = FALSE /\ Outcome(d).status = 502
    BY <1>0, <1>3 DEF Outcome, Refusal, TypeOK
  <2>2. Kept(d) => Refused(KeyOf(d))
    BY <1>0, <2>1 DEF Decision, Refused
  <2>3. Kept(d) => TrueOf(d, Words[502])
    BY <1>0, <1>1, <2>2, WordsAre DEF TrueOf
  <2>. QED
    BY <1>0, <2>1, <2>3, AnswerMaps
<1>. QED
  BY <1>2, <1>3

\* The answer of who committed the operation, once his list is drained.
LEMMA DrainDoneMaps ==
  ASSUME RInv, Next, Promises, NEW w \in Processes, DrainDone(w)
  PROVE  Acts \/ Quiet
<1>0. /\ TypeOK /\ Placed /\ Committed /\ MeansIt /\ UNCHANGED <<cell, keys, calls, charges>>
      /\ pc[w] = "sending"
  BY DEF RInv, IInv, KeepsInv, Next, DrainDone, gatewayVars
<1>1. CASE w \in Deliveries
  <2>1. Answer(w, Charged(w)) /\ Charged(w).status = 201 /\ KeyOf(w) \in AllKeys
    BY <1>0, <1>1, RequestTypes DEF DrainDone, Charged
  <2>2. ChargeRow(w) \in charges /\ ChargeRow(w).by = w
    BY <1>0, <1>1, RequestTypes DEF Committed, Draining
  <2>3. Kept(w) => /\ ChargeRow(w) \in BookedFor(KeyOf(w))
                   /\ keys[KeyOf(w)] # NoRow /\ keys[KeyOf(w)].mark = Fingerprint(w)
    BY <1>0, <1>1, <2>2 DEF BookedFor, MeansIt, Engaged
  <2>4. Kept(w) => TrueOf(w, Words[201])
    BY <2>3, WordsAre DEF TrueOf
  <2>5. Once!Hear(w) \/ Quiet
    BY <1>0, <1>1, <2>1, <2>4, AnswerMaps
  <2>. QED
    BY <1>1, <2>5 DEF Acts
<1>2. CASE w \notin Deliveries
  <2>1. UNCHANGED answer
    BY <1>2 DEF DrainDone, Goto
  <2>. QED
    BY <1>0, <2>1, MeaningStays, EffectsStay, BookedStays, HeardStays DEF Quiet
<1>. QED
  BY <1>1, <1>2

\* Where something is promised, every step is one of the operation's, or none.
LEMMA StepMaps ==
  ASSUME RInv, Next, Promises
  PROVE  Acts \/ Quiet
<1>0. /\ IInv /\ TypeOK /\ Placed /\ Locks /\ Committed /\ IntentsOnly /\ UNCHANGED cell
      /\ Deliveries \subseteq Processes /\ \A d \in Deliveries : KeyOf(d) \in AllKeys
  BY RequestTypes DEF RInv, IInv, KeepsInv, Next, Processes
<1>1. UNCHANGED <<keys, calls, charges, answer>> => Quiet
  BY <1>0, MeaningStays, EffectsStay, BookedStays, HeardStays DEF Quiet
<1>2. \A k \in AllKeys : keys[k] # NoRow => keys'[k] # NoRow /\ keys'[k].mark = keys[k].mark
  BY <1>0, MarksStay
<1>3. ASSUME NEW d \in Deliveries, Handle(d)
      PROVE  Acts \/ Quiet
  <2>1. CASE Receive(d)
    BY <1>3, <2>1, ReceiveMaps DEF Acts
  <2>2. CASE ReadHeld(d)
    BY <1>3, <2>2, ReadHeldMaps DEF Acts
  <2>3. CASE Reply(d)
    BY <1>3, <2>3, ReplyMaps DEF Acts
  <2>4. CASE ClaimCommit(d)
    BY <1>3, <2>4, ClaimBinds DEF Acts
  <2>5. CASE SettleCharge(d)
    BY <1>3, <2>5, SettleBooks DEF Acts
  <2>6. CASE CallGateway(d)
    <3>1. PICK ok \in BOOLEAN : GatewayCharge(d, DedupOf(d), ok)
      BY <2>6 DEF CallGateway
    <3>2. UNCHANGED <<cell, keys, charges, answer>> /\ pc[d] = "gateway"
      BY <1>0, <2>6 DEF CallGateway, Goto
    <3>3. strategy # "atomic-outbox"
      BY <1>0, <3>2 DEF Placed, Performing
    <3>4. Kept(d) => Engaged(d)
      BY <3>2 DEF Engaged, Working, Kept
    <3>. QED
      BY <3>1, <3>2, <3>3, <3>4, CallDecides DEF Acts
  <2>7. CASE Seize(d) \/ Finish(d)
    <3>1. keys[KeyOf(d)] # NoRow
      BY <1>0, <2>7 DEF Seize, Finish, Locks, RowThere, Working, Placed
    <3>2. \A k \in AllKeys : k # KeyOf(d) => keys'[k] = keys[k]
      BY <1>0, <2>7 DEF Seize, Finish, TypeOK
    <3>3. \A k \in AllKeys : /\ keys'[k] = NoRow <=> keys[k] = NoRow
                             /\ keys[k] # NoRow => keys'[k].mark = keys[k].mark
      BY <1>2, <3>1, <3>2
    <3>4. UNCHANGED <<calls, charges, answer>>
      BY <2>7 DEF Seize, Finish, Goto, gatewayVars
    <3>. QED
      BY <1>0, <3>3, <3>4, MeaningStays, EffectsStay, BookedStays, HeardStays DEF Quiet
  <2>8. CASE ClaimInsert(d) \/ ChargeInsert(d)
    BY <1>1, <2>8 DEF ClaimInsert, ChargeInsert, Goto, gatewayVars
  <2>9. ~(Lookup(d) \/ MemoInsert(d) \/ MemoCommit(d) \/ ReadCharge(d))
    BY <1>0, PromisesAre DEF Lookup, MemoInsert, MemoCommit, ReadCharge, Placed
  <2>. QED
    BY <1>3, <2>1, <2>2, <2>3, <2>4, <2>5, <2>6, <2>7, <2>8, <2>9 DEF Handle
<1>4. ASSUME NEW d \in Deliveries, CommitAll(d)
      PROVE  Acts \/ Quiet
  BY <1>4, ClaimBinds DEF Acts
<1>5. ASSUME NEW w \in Processes, DrainCall(w)
      PROVE  Acts \/ Quiet
  <2>1. PICK row \in todo[w], ok \in BOOLEAN : GatewayCharge(row, DedupOf(row), ok)
    BY <1>5 DEF DrainCall
  <2>2. row \in Deliveries /\ UNCHANGED <<cell, keys, charges, answer>>
    BY <1>0, <1>5 DEF DrainCall, Goto, TypeOK
  <2>3. ChargeRow(row) \in charges /\ strategy = "atomic-outbox"
    BY <1>0, <2>1, <2>2 DEF Committed, IntentsOnly
  <2>4. Engaged(row)
    BY <2>3 DEF Engaged
  <2>. QED
    BY <2>1, <2>2, <2>3, <2>4, CallDecides DEF Acts
<1>6. ASSUME NEW w \in Processes, DrainDone(w)
      PROVE  Acts \/ Quiet
  BY <1>6, DrainDoneMaps
<1>7. ASSUME NEW w \in Processes,
             \/ w \in Deliveries /\ InsertIntent(w)
             \/ DrainRead(w) \/ DrainMark(w) \/ Death(w)
      PROVE  Quiet
  BY <1>1, <1>7 DEF InsertIntent, DrainRead, DrainMark, Death, Die, Goto, gatewayVars
<1>8. Tick => Quiet
  BY <1>1 DEF Tick, gatewayVars
<1>. QED
  BY <1>3, <1>4, <1>5, <1>6, <1>7, <1>8 DEF Next, Step, Drain

-----------------------------------------------------------------------------
(* The refinement.                                                         *)
LEMMA InitMaps ==
  ASSUME Init
  PROVE  IInv /\ (Apart => RInv) /\ Once!Init
<1>1. IInv /\ TypeOK
  BY InitIInv DEF IInv
<1>2. /\ keys = [k \in AllKeys |-> NoRow] /\ charges = {} /\ calls = {}
      /\ \A d \in Deliveries : pc[d] = "new" /\ answer[d] = NoAnswer /\ outbox[d] = "none"
  BY DEF Init, HandlerInit, OutboxInit, GatewayInit, Processes
<1>3. KeepsInv
  BY <1>2 DEF KeepsInv, MeansIt, Engaged, Working, Draining, CalledOnce, Decision, Recalled,
              Unheard, Paying, IntentsOnly
<1>4. Meaning = [k \in AllKeys |-> {}]
  <2>1. \A k \in AllKeys : (IF Promises /\ keys[k] # NoRow THEN {keys[k].mark} ELSE {}) = {}
    BY <1>2
  <2>. QED
    BY <2>1 DEF Meaning
<1>5. Booked = [k \in AllKeys |-> {}]
  <2>1. \A k : {[by |-> c.by, op |-> <<c.order, c.amount>>] : c \in BookedFor(k)} = {}
    BY <1>2 DEF BookedFor
  <2>. QED
    BY <2>1 DEF Booked
<1>6. Effects = {}
  BY <1>2 DEF Effects
<1>7. Heard = [d \in Deliveries |-> "nothing"]
  <2>1. \A d \in Deliveries : answer[d].status = 0
    BY <1>2 DEF NoAnswer, Refusal
  <2>2. \A d \in Deliveries :
          (IF Kept(d) /\ answer[d].status \in DOMAIN Words THEN Words[answer[d].status]
           ELSE IF Kept(d) THEN "failed" ELSE "nothing") = "nothing"
    BY <2>1, WordsAre
  <2>. QED
    BY <2>2 DEF Heard
<1>8. Manner \in {"unchecked", "checked", "committed-first", "nothing"}
  BY DEF Manner
<1>. QED
  BY <1>1, <1>3, <1>4, <1>5, <1>6, <1>7, <1>8 DEF RInv, Once!Init

LEMMA RInvKept ==
  ASSUME RInv, [Next]_vars
  PROVE  RInv'
<1>1. IInv'
  BY NextIInv DEF RInv
<1>2. CASE Next
  <2>1. UNCHANGED cell
    BY <1>2 DEF Next
  <2>2. Apart'
    BY <2>1, CellKept DEF RInv
  <2>3. KeepsInv'
    BY <1>2, MeansItStep, CalledOnceStep, DecisionStep, RecalledStep, RestStep DEF KeepsInv
  <2>. QED
    BY <1>1, <2>2, <2>3 DEF RInv
<1>3. CASE UNCHANGED vars
  <2>1. UNCHANGED <<cell, keys, charges, calls, pc, gwOk, answer, outbox>>
    BY <1>3 DEF vars, serviceVars, outboxVars, gatewayVars
  <2>. USE CellKept, KeptCell
  <2>2. Apart' /\ MeansIt' /\ CalledOnce'
    BY <2>1 DEF RInv, KeepsInv, MeansIt, Engaged, Working, CalledOnce
  <2>3. Decision'
    BY <2>1 DEF RInv, KeepsInv, Decision, CalledFor
  <2>4. Recalled'
    <3>. HIDE CellKept, KeptCell
    <3>1. /\ \A k : BookedFor(k) # {} => BookedFor(k)' # {}
          /\ \A k : Refused(k) => Refused(k)'
      BY <2>1, StaysHappened
    <3>2. Promises' = Promises /\ strategy' = strategy
      BY <2>1, KeptCell
    <3>. QED
      BY <2>1, <3>1, <3>2 DEF RInv, KeepsInv, Recalled
  <2>5. Unheard' /\ Paying' /\ IntentsOnly'
    BY <2>1 DEF RInv, KeepsInv, Unheard, Paying, IntentsOnly, cell
  <2>. QED
    BY <1>1, <2>2, <2>3, <2>4, <2>5 DEF RInv, KeepsInv
<1>. QED
  BY <1>2, <1>3

\* Every step is a step of the operation, or none.
LEMMA NextMaps ==
  ASSUME RInv, [Next]_vars
  PROVE  [Once!Next]_(Once!vars)
<1>1. UNCHANGED cell /\ TypeOK
  BY DEF Next, vars, RInv, IInv
<1>2. Manner' = Manner /\ Asked' = Asked /\ Promises' = Promises
  BY <1>1, KeptCell
<1>3. Quiet => UNCHANGED Once!vars
  BY <1>2 DEF Quiet, Once!vars
<1>4. CASE Next /\ Promises
  <2>1. Acts => Once!Next
    BY <1>2 DEF Acts, Once!Next
  <2>. QED
    BY <1>3, <1>4, <2>1, StepMaps
<1>5. CASE ~Promises
  <2>1. \A d : ~Kept(d) /\ ~Kept(d)'
    BY <1>1, <1>5, KeptCell DEF Kept
  <2>2. Meaning' = Meaning
    BY <1>2, <1>5 DEF Meaning
  <2>3. Effects' = Effects
    BY <2>1 DEF Effects
  <2>4. \A k : BookedFor(k)' = BookedFor(k)
    BY <2>1 DEF BookedFor
  <2>5. Booked' = Booked
    BY <2>4 DEF Booked
  <2>6. Heard' = Heard
    BY <1>1, <2>1, HeardStays
  <2>. QED
    BY <1>3, <2>2, <2>3, <2>5, <2>6 DEF Quiet
<1>6. CASE UNCHANGED vars
  <2>1. UNCHANGED <<cell, keys, charges, calls, answer>>
    BY <1>6 DEF vars, serviceVars, gatewayVars
  <2>. QED
    BY <1>3, <2>1, MeaningStays, EffectsStay, BookedStays, HeardStays DEF Quiet
<1>. QED
  BY <1>4, <1>5, <1>6

\* Where texts collide nothing is promised.
LEMMA NothingMaps ==
  ASSUME ~Apart, [Next]_vars
  PROVE  [Once!Next]_(Once!vars)
<1>1. UNCHANGED cell
  BY DEF Next, vars
<1>2. Manner = "nothing" /\ Manner' = Manner /\ Asked' = Asked
  BY <1>1, KeptCell DEF Manner
<1>. QED
  BY <1>2 DEF Once!Next

\* What an idempotency key is for (service.ts:378-612): where no two operations of a
\* cell make one dedup text, lease, lease-recovering and atomic-outbox each implement
\* an operation that the first request under the key determines, that the gateway
\* decides once, that is booked as it was determined (as one charge row by lease and
\* atomic-outbox, as one for each delivery given the key by lease-recovering), and that
\* every answer is about.
THEOREM KeyIsOneOperation == Spec => ImplementsOnce
<1>. DEFINE Inv == IInv /\ (Apart => RInv)
<1>1. Init => Inv /\ Once!Init
  BY InitMaps
<1>2. Inv /\ [Next]_vars => Inv'
  <2>. SUFFICES ASSUME Inv, [Next]_vars PROVE Inv'
    OBVIOUS
  <2>1. Apart' = Apart
    BY CellKept DEF Next, vars
  <2>2. IInv' /\ (Apart => RInv')
    BY NextIInv, RInvKept
  <2>. QED
    BY <2>1, <2>2
<1>3. Inv /\ [Next]_vars => [Once!Next]_(Once!vars)
  BY NextMaps, NothingMaps
<1>. QED
  BY <1>1, <1>2, <1>3, PTL DEF Spec, ImplementsOnce, Once!Spec

\* It is the text that must be kept apart, not the key: where different pairs make
\* different texts, every cell is one the theorem is about.
LEMMA TextsApart ==
  ASSUME TypeOK, \A j, k \in AllKeys : Joined[j] = Joined[k] => j = k
  PROVE  Apart
<1>1. \A d \in Deliveries : KeyOf(d) \in AllKeys
  BY RequestTypes
<1>. QED
  BY <1>1 DEF Apart, DedupOf

\* Then the money is always booked: behind every charge row a gateway call of its own
\* operation, which is what OwnMoney asks (hazards.ts:11-15).
THEOREM ChargesAreOwn == Spec /\ Apart => []OwnMoney
<1>1. Init /\ Apart => RInv
  BY InitMaps
<1>2. RInv /\ [Next]_vars => RInv'
  BY RInvKept
<1>3. Spec => []ChargeBackedByMoney
  BY ChargesBacked
<1>4. RInv /\ ChargeBackedByMoney => OwnMoney
  BY DEF RInv, ChargeBackedByMoney
<1>. QED
  BY <1>1, <1>2, <1>3, <1>4, PTL DEF Spec

=============================================================================
