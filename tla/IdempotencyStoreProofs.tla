----------------------- MODULE IdempotencyStoreProofs -----------------------
(***************************************************************************)
(* For any number of transactions and index values, any plans that do not  *)
(* repeat a value, and deaths at any point: the state is well typed, a     *)
(* buffered row is protected until its transaction settles, and no two     *)
(* committed rows share an index value.  For plans that insert in one      *)
(* order nobody is refused a wait, and for plans whose second values come  *)
(* with their first no reservation outlives its transaction.               *)
(***************************************************************************)
EXTENDS IdempotencyStore, SequenceTheorems, FiniteSetTheorems, WellFoundedInduction, TLAPS

\* The client is inside Plan[t], and inside one of its inserts if in flight.
PlanOK == \A t \in Txns :
  /\ step[t] <= Len(Plan[t])
  /\ InFlight(t) => step[t] < Len(Plan[t])

\* What a transaction buffers is what its finished inserts asked for, once.
PendingFromPlan == \A t \in Txns, v \in Values :
  /\ pending[t][v] <= 1
  /\ pending[t][v] > 0 => \E i \in 1..step[t] : Plan[t][i] = v

\* Between acquire() and the look at the committed rows, the reservation is
\* the transaction's as long as it is open.
CheckHolds == \A t \in Txns :
  pc[t] = "check" /\ settled[t] = "open" => holder[Wanted(t)] = t

IInv == TypeOK /\ PlanOK /\ PendingFromPlan /\ CheckHolds /\ PendingProtected /\ UniqueRows

-----------------------------------------------------------------------------
\* An insert in flight asks for an index value that no earlier insert of the
\* same transaction asked for.
LEMMA WantedFresh ==
  ASSUME TypeOK, PlanOK, PendingFromPlan, NEW t \in Txns, step[t] < Len(Plan[t])
  PROVE  Wanted(t) \in Values /\ pending[t][Wanted(t)] = 0
<1>1. Plan[t] \in Seq(Values) /\ step[t] \in Nat /\ step[t] + 1 \in 1..Len(Plan[t])
  BY PlanAssumption DEF TypeOK
<1>2. Wanted(t) \in Values
  BY <1>1 DEF Wanted
<1>3. pending[t][Wanted(t)] \in Nat
  BY <1>2 DEF TypeOK
<1>4. ASSUME pending[t][Wanted(t)] > 0 PROVE FALSE
  <2>1. PICK i \in 1..step[t] : Plan[t][i] = Plan[t][step[t] + 1]
    BY <1>2, <1>4 DEF PendingFromPlan, Wanted
  <2>2. i = step[t] + 1
    BY <1>1, <2>1, PlanAssumption
  <2> QED BY <1>1, <2>1, <2>2
<1> QED BY <1>2, <1>3, <1>4

\* reserved.splice(...) leaves a list of index values.
LEMMA SpliceType ==
  ASSUME NEW s \in Seq(Values), NEW v
  PROVE  Splice(s, v) \in Seq(Values)
<1> DEFINE at == SpliceAt(s, v)
<1>1. at \in 0..Len(s)
  BY DEF SpliceAt, Range
<1>2. SubSeq(s, 1, at - 1) \in Seq(Values)
  <2>1. \A i \in 1..(at - 1) : s[i] \in Values
    BY <1>1
  <2> HIDE DEF at
  <2> QED BY <1>1, <2>1, SubSeqProperties
<1>3. SubSeq(s, at + 1, Len(s)) \in Seq(Values)
  <2>1. \A i \in (at + 1)..Len(s) : s[i] \in Values
    BY <1>1
  <2> HIDE DEF at
  <2> QED BY <1>1, <2>1, SubSeqProperties
<1>4. Splice(s, v) = SubSeq(s, 1, at - 1) \o SubSeq(s, at + 1, Len(s))
  BY DEF Splice, RemoveAt
<1> QED BY <1>2, <1>3, <1>4

\* Releasing keeps the reservation table and its queues well typed, and takes
\* away only what t itself held.
LEMMA WakeEffect ==
  ASSUME TypeOK, NEW t \in Txns, NEW vs, Wake(t, vs)
  PROVE  /\ holder' \in [Values -> Txns \union {NoTxn}]
         /\ waiters' \in [Values -> Seq(Txns)]
         /\ \A v \in Values : holder[v] # t => holder'[v] = holder[v]
         /\ \A v \in Values : v \notin Range(vs) => holder'[v] = holder[v]
BY DEF TypeOK, Wake, Released

-----------------------------------------------------------------------------
\* Before any transaction has acted.
LEMMA InitIInv == Init => IInv
<1> SUFFICES ASSUME Init PROVE IInv
  OBVIOUS
<1>1. TypeOK
  BY DEF Init, TypeOK, Settlement, Control
<1>2. PlanOK
  <2>1. \A t \in Txns : Len(Plan[t]) \in Nat
    BY PlanAssumption
  <2> QED BY <2>1 DEF Init, PlanOK, InFlight
<1> QED BY <1>1, <1>2 DEF Init, IInv, PendingFromPlan, CheckHolds, PendingProtected, UniqueRows

\* One turn of the loop in acquire() touches neither rows nor buffers, and
\* only ever takes a reservation that is free or its own.
LEMMA TryAcquireEffect ==
  ASSUME IInv, NEW t \in Txns, NEW blocked \in [Txns -> Values \union {NoValue}],
         InFlight(t), TryAcquire(t, blocked),
         UNCHANGED <<rows, pending, reserved, settled, step>>
  PROVE  IInv'
<1> DEFINE v == Wanted(t)
<1> USE DEF IInv
<1>0. step[t] < Len(Plan[t]) /\ v \in Values
  BY WantedFresh DEF PlanOK
<1>1. \A u \in Txns \ {t} : pc'[u] = pc[u]
  BY DEF TryAcquire, TypeOK
<1>2. \A w \in Values : holder[w] # NoTxn => holder'[w] = holder[w]
  BY SentinelAssumption, <1>0 DEF TryAcquire, TypeOK
<1>3. TypeOK'
  <2>1. holder' \in [Values -> Txns \union {NoTxn}]
    BY <1>0 DEF TryAcquire, TypeOK
  <2>2. waiters' \in [Values -> Seq(Txns)]
    <3>1. Append(waiters[v], t) \in Seq(Txns)
      BY <1>0 DEF TypeOK
    <3> QED BY <1>0, <3>1 DEF TryAcquire, TypeOK
  <2>3. waitingOn' \in [Txns -> Values \union {NoValue}]
    BY <1>0 DEF TryAcquire
  <2>4. pc' \in [Txns -> Control]
    BY DEF TryAcquire, TypeOK, Control
  <2> QED BY <2>1, <2>2, <2>3, <2>4 DEF TypeOK
<1>4. PlanOK'
  BY <1>0, <1>1 DEF PlanOK, InFlight
<1>5. CheckHolds'
  <2> SUFFICES ASSUME NEW u \in Txns, pc'[u] = "check", settled[u] = "open"
               PROVE  holder'[Wanted(u)] = u
    BY DEF CheckHolds, Wanted
  <2>1. CASE u = t
    BY <2>1, <1>0 DEF TryAcquire, TypeOK, v
  <2>2. CASE u # t
    <3>1. holder[Wanted(u)] = u /\ Wanted(u) \in Values
      BY <1>1, <2>2, WantedFresh DEF CheckHolds, PlanOK, InFlight
    <3> QED BY <3>1, <1>2, SentinelAssumption
  <2> QED BY <2>1, <2>2
<1>6. PendingProtected'
  BY <1>2, SentinelAssumption DEF PendingProtected
<1>7. PendingFromPlan' /\ UniqueRows'
  BY DEF PendingFromPlan, UniqueRows
<1> QED BY <1>3, <1>4, <1>5, <1>6, <1>7

\* Ending a transaction, with its rows published or not.
LEMMA SettleEffect ==
  ASSUME IInv, NEW t \in Txns, NEW how \in Settlement \ {"open"}, settled[t] = "open",
         Settle(t, how), UNCHANGED <<pending, waitingOn, step>>,
         \/ pc' = pc
         \/ pc' = [pc EXCEPT ![t] = "gone"],
         \/ rows' = rows
         \/ rows' = [v \in Values |-> rows[v] + pending[t][v]]
  PROVE  IInv'
<1> USE DEF IInv
<1>1. /\ holder' \in [Values -> Txns \union {NoTxn}]
      /\ waiters' \in [Values -> Seq(Txns)]
      /\ \A v \in Values : holder[v] # t => holder'[v] = holder[v]
  BY WakeEffect DEF Settle
<1>2. rows' \in [Values -> Nat]
  BY DEF TypeOK
<1>3. TypeOK'
  <2>1. pc' \in [Txns -> Control] /\ settled' \in [Txns -> Settlement]
    BY DEF TypeOK, Settle, Control
  <2>2. <<>> \in Seq(Values)
    OBVIOUS
  <2>3. reserved' \in [Txns -> Seq(Values)]
    BY <2>2 DEF TypeOK, Settle
  <2> QED BY <1>1, <1>2, <2>1, <2>3 DEF TypeOK
<1>4. PlanOK'
  BY DEF PlanOK, InFlight, TypeOK
<1>5. PendingFromPlan'
  BY DEF PendingFromPlan
<1>6. \A u \in Txns : settled'[u] = "open" => u # t /\ settled[u] = "open" /\ pc'[u] = pc[u]
  BY DEF Settle, TypeOK
<1>7. CheckHolds'
  <2> SUFFICES ASSUME NEW u \in Txns, pc'[u] = "check", settled'[u] = "open"
               PROVE  holder'[Wanted(u)] = u
    BY DEF CheckHolds, Wanted
  <2>1. holder[Wanted(u)] = u /\ Wanted(u) \in Values
    BY <1>6, WantedFresh DEF CheckHolds, PlanOK, InFlight
  <2> QED BY <2>1, <1>1, <1>6
<1>8. PendingProtected'
  <2> SUFFICES ASSUME NEW u \in Txns, NEW v \in Values, settled'[u] = "open", pending[u][v] > 0
               PROVE  holder'[v] = u /\ rows'[v] = 0
    BY DEF PendingProtected
  <2>1. u # t /\ holder[v] = u /\ rows[v] = 0
    BY <1>6 DEF PendingProtected
  <2>2. pending[t][v] = 0
    BY <2>1 DEF PendingProtected, TypeOK
  <2> QED BY <2>1, <2>2, <1>1 DEF TypeOK
<1>9. UniqueRows'
  <2> SUFFICES ASSUME NEW v \in Values PROVE rows'[v] <= 1
    BY DEF UniqueRows
  <2>1. pending[t][v] \in {0, 1} /\ rows[v] \in {0, 1}
    BY DEF PendingFromPlan, UniqueRows, TypeOK
  <2>2. pending[t][v] > 0 => rows[v] = 0
    BY DEF PendingProtected
  <2> QED BY <2>1, <2>2
<1> QED BY <1>3, <1>4, <1>5, <1>7, <1>8, <1>9

-----------------------------------------------------------------------------
\* Every step of the store keeps the invariant.
LEMMA NextIInv == IInv /\ [Next]_vars => IInv'
<1> SUFFICES ASSUME IInv, [Next]_vars PROVE IInv'
  OBVIOUS
<1> USE DEF IInv
<1>1. CASE UNCHANGED vars
  BY <1>1 DEF vars, TypeOK, PlanOK, InFlight, PendingFromPlan, CheckHolds, Wanted,
              PendingProtected, UniqueRows
<1>2. ASSUME NEW t \in Txns, Resume(t) PROVE IInv'
  <2>1. [waitingOn EXCEPT ![t] = NoValue] \in [Txns -> Values \union {NoValue}]
    BY DEF TypeOK
  <2> QED BY <1>2, <2>1, TryAcquireEffect DEF Resume, InFlight
<1>3. ASSUME NEW t \in Txns, InsertCall(t) PROVE IInv'
  BY <1>3 DEF InsertCall, TypeOK, Control, PlanOK, InFlight, PendingFromPlan, CheckHolds,
              Wanted, PendingProtected, UniqueRows
<1>4. ASSUME NEW t \in Txns, Acquire(t) PROVE IInv'
  BY <1>4, TryAcquireEffect DEF Acquire, InFlight, TypeOK
<1>5. ASSUME NEW t \in Txns, AcquireDead(t) \/ CheckDead(t) PROVE IInv'
  <2>1. pc' = [pc EXCEPT ![t] = "gone"]
    BY <1>5 DEF AcquireDead, CheckDead
  <2>2. UNCHANGED <<rows, pending, holder, waiters, waitingOn, reserved, settled, step>>
    BY <1>5 DEF AcquireDead, CheckDead
  <2>3. TypeOK'
    BY <2>1, <2>2 DEF TypeOK, Control
  <2> QED BY <2>1, <2>2, <2>3 DEF TypeOK, PlanOK, InFlight, PendingFromPlan, CheckHolds, Wanted,
                                  PendingProtected, UniqueRows
<1>6. ASSUME NEW t \in Txns, CheckFresh(t) PROVE IInv'
  <2> DEFINE v == Wanted(t)
  <2>0. step[t] < Len(Plan[t]) /\ v \in Values /\ pending[t][v] = 0 /\ holder[v] = t
    BY <1>6, WantedFresh DEF CheckFresh, PlanOK, InFlight, CheckHolds
  <2>1. Plan[t] \in Seq(Values) /\ step[t] \in Nat
    BY PlanAssumption DEF TypeOK
  <2>2. TypeOK'
    <3>1. Append(reserved[t], v) \in Seq(Values)
      BY <2>0 DEF TypeOK
    <3>2. reserved' \in [Txns -> Seq(Values)]
      BY <1>6, <3>1 DEF CheckFresh, TypeOK
    <3>3. pending' \in [Txns -> [Values -> Nat]]
      BY <1>6, <2>0 DEF CheckFresh, TypeOK
    <3>4. step' \in [Txns -> Nat] /\ pc' \in [Txns -> Control]
      BY <1>6 DEF CheckFresh, TypeOK, Control
    <3> QED BY <1>6, <3>2, <3>3, <3>4 DEF CheckFresh, TypeOK
  <2>3. PlanOK'
    <3>1. step'[t] = step[t] + 1 /\ step'[t] <= Len(Plan[t]) /\ pc'[t] = "idle"
      BY <1>6, <2>0, <2>1 DEF CheckFresh, TypeOK
    <3>2. \A u \in Txns \ {t} : step'[u] = step[u] /\ pc'[u] = pc[u]
      BY <1>6 DEF CheckFresh, TypeOK
    <3> QED BY <3>1, <3>2 DEF PlanOK, InFlight
  <2>4. PendingFromPlan'
    <3> SUFFICES ASSUME NEW u \in Txns, NEW w \in Values
                 PROVE  /\ pending'[u][w] <= 1
                        /\ pending'[u][w] > 0 => \E i \in 1..step'[u] : Plan[u][i] = w
      BY DEF PendingFromPlan
    <3>1. CASE u = t /\ w = v
      <4>1. pending'[u][w] = 1 /\ step'[u] = step[u] + 1
        BY <3>1, <1>6, <2>0 DEF CheckFresh, TypeOK
      <4>2. Plan[u][step[u] + 1] = w
        BY <3>1 DEF Wanted
      <4>3. step[u] + 1 \in 1..step'[u]
        BY <4>1, <3>1, <2>1
      <4> QED BY <4>1, <4>2, <4>3
    <3>2. CASE ~(u = t /\ w = v)
      <4>1. pending'[u][w] = pending[u][w] /\ step'[u] >= step[u] /\ step'[u] \in Nat /\ step[u] \in Nat
        BY <3>2, <1>6, <2>0, <2>2 DEF CheckFresh, TypeOK
      <4>2. \A i \in 1..step[u] : i \in 1..step'[u]
        BY <4>1
      <4> QED BY <4>1, <4>2 DEF PendingFromPlan
    <3> QED BY <3>1, <3>2
  <2>5. CheckHolds'
    BY <1>6 DEF CheckFresh, CheckHolds, Wanted, TypeOK
  <2>6. PendingProtected'
    BY <1>6, <2>0 DEF CheckFresh, PendingProtected, TypeOK
  <2>7. UniqueRows'
    BY <1>6 DEF CheckFresh, UniqueRows
  <2> QED BY <2>2, <2>3, <2>4, <2>5, <2>6, <2>7
<1>7. ASSUME NEW t \in Txns, CheckDuplicate(t) PROVE IInv'
  <2>0. step[t] < Len(Plan[t]) /\ Wanted(t) \in Values
    BY <1>7, WantedFresh DEF CheckDuplicate, PlanOK, InFlight
  <2>1. Wake(t, <<Wanted(t)>>) /\ Range(<<Wanted(t)>>) = {Wanted(t)}
    BY <1>7 DEF CheckDuplicate, Range
  <2>2. /\ holder' \in [Values -> Txns \union {NoTxn}]
        /\ waiters' \in [Values -> Seq(Txns)]
        /\ \A v \in Values : holder[v] # t => holder'[v] = holder[v]
        /\ \A v \in Values : v # Wanted(t) => holder'[v] = holder[v]
    BY <2>1, WakeEffect
  <2>3. Splice(reserved[t], Wanted(t)) \in Seq(Values)
    BY SpliceType DEF TypeOK
  <2>4. TypeOK'
    BY <1>7, <2>2, <2>3 DEF CheckDuplicate, TypeOK, Control
  <2>5. PlanOK' /\ PendingFromPlan' /\ UniqueRows'
    BY <1>7 DEF CheckDuplicate, PlanOK, InFlight, PendingFromPlan, UniqueRows, TypeOK
  <2>6. CheckHolds'
    <3> SUFFICES ASSUME NEW u \in Txns, pc'[u] = "check", settled'[u] = "open"
                 PROVE  holder'[Wanted(u)] = u
      BY <1>7 DEF CheckHolds, CheckDuplicate, Wanted
    <3>1. u # t /\ holder[Wanted(u)] = u /\ Wanted(u) \in Values
      BY <1>7, WantedFresh DEF CheckDuplicate, CheckHolds, PlanOK, InFlight, TypeOK
    <3> QED BY <3>1, <2>2
  <2>7. PendingProtected'
    <3> SUFFICES ASSUME NEW u \in Txns, NEW v \in Values, settled[u] = "open", pending[u][v] > 0
                 PROVE  holder'[v] = u /\ rows[v] = 0
      BY <1>7 DEF PendingProtected, CheckDuplicate
    <3>1. holder[v] = u /\ rows[v] = 0
      BY DEF PendingProtected
    <3>2. v # Wanted(t)
      BY <3>1, <1>7 DEF CheckDuplicate
    <3> QED BY <3>1, <3>2, <2>2
  <2> QED BY <2>4, <2>5, <2>6, <2>7
<1>8. ASSUME NEW t \in Txns, Commit(t) PROVE IInv'
  BY <1>8, SettleEffect DEF Commit, Settlement
<1>9. ASSUME NEW t \in Txns, Rollback(t) PROVE IInv'
  BY <1>9, SettleEffect DEF Rollback, Settlement
<1>10. ASSUME NEW t \in Txns, Kill(t) PROVE IInv'
  <2>1. pc' = pc \/ pc' = [pc EXCEPT ![t] = "gone"]
    BY <1>10 DEF Kill, TypeOK
  <2> QED BY <1>10, <2>1, SettleEffect DEF Kill, Settlement
<1> QED BY <1>1, <1>2, <1>3, <1>4, <1>5, <1>6, <1>7, <1>8, <1>9, <1>10 DEF Next, Client

\* The whole inductive invariant, for every execution.
THEOREM StoreInvariant == Spec => []IInv
<1> QED BY InitIInv, NextIInv, PTL DEF Spec

\* The store never leaves its types (transactions, rows, reservations, queues).
THEOREM StoreTypeOK == Spec => []TypeOK
<1> QED BY StoreInvariant, PTL DEF IInv

\* No two committed rows share an index value: what insert() enforces by
\* reserving before it reads the committed rows.
THEOREM StoreUniqueRows == Spec => []UniqueRows
<1> QED BY StoreInvariant, PTL DEF IInv

\* A buffered row keeps its reservation, and nobody commits its value, until
\* its transaction settles.
THEOREM StorePendingProtected == Spec => []PendingProtected
<1> QED BY StoreInvariant, PTL DEF IInv

-----------------------------------------------------------------------------
\* The refinement mapping, named: what UniqueIndex calls owns and refused.
Owns == [t \in Txns |-> IF settled[t] = "open" THEN {v \in Values : pending[t][v] > 0} ELSE {}]
Refused == [t \in Txns |-> pc[t] = "refused"]

\* Every step of the store is a step of the index or leaves it alone.
LEMMA StepImplementsIndex == IInv /\ [Next]_vars => [Index!Next]_(Index!vars)
<1> SUFFICES ASSUME IInv, [Next]_vars PROVE Index!Next \/ UNCHANGED <<Owns, rows, Refused>>
  BY DEF Index!vars, Owns, Refused
<1> USE DEF IInv
<1>1. CASE UNCHANGED vars
  BY <1>1 DEF vars, Owns, Refused
<1>2. ASSUME NEW t \in Txns,
             Resume(t) \/ InsertCall(t) \/ Acquire(t) \/ AcquireDead(t) \/ CheckDead(t)
      PROVE  UNCHANGED <<Owns, rows, Refused>>
  <2>1. UNCHANGED <<pending, settled, rows>>
    BY <1>2 DEF Resume, InsertCall, Acquire, AcquireDead, CheckDead
  <2>2. \A u \in Txns : (pc'[u] = "refused") <=> (pc[u] = "refused")
    BY <1>2 DEF Resume, InsertCall, Acquire, AcquireDead, CheckDead, TryAcquire, TypeOK
  <2> QED BY <2>1, <2>2 DEF Owns, Refused
<1>3. ASSUME NEW t \in Txns, NEW v \in Values, v = Wanted(t), CheckFresh(t)
      PROVE  Index!Take(t, v)
  <2>1. pending[t][v] = 0 /\ holder[v] = t /\ rows[v] = 0
    BY <1>3, WantedFresh DEF CheckFresh, PlanOK, InFlight, CheckHolds
  <2>2. \A u \in Txns : v \notin Owns[u]
    BY <2>1 DEF Owns, PendingProtected
  <2>3. Owns' = [Owns EXCEPT ![t] = @ \union {v}]
    <3>1. /\ settled[t] = "open" /\ settled' = settled
          /\ \A u \in Txns, w \in Values :
               pending'[u][w] = IF u = t /\ w = v THEN 1 ELSE pending[u][w]
      BY <1>3, <2>1 DEF CheckFresh, TypeOK
    <3>2. Owns'[t] = Owns[t] \union {v}
      BY <2>1, <3>1 DEF Owns
    <3>3. \A u \in Txns \ {t} : Owns'[u] = Owns[u]
      BY <3>1 DEF Owns
    <3> QED BY <3>2, <3>3 DEF Owns
  <2>4. Refused' = Refused /\ rows' = rows
    BY <1>3 DEF CheckFresh, Refused, TypeOK
  <2> QED BY <2>1, <2>2, <2>3, <2>4 DEF Index!Take, Owns, Refused
<1>4. ASSUME NEW t \in Txns, NEW v \in Values, v = Wanted(t), CheckDuplicate(t)
      PROVE  Index!Refuse(t, v)
  <2>1. rows[v] > 0
    BY <1>4 DEF CheckDuplicate
  <2>2. Owns' = Owns /\ rows' = rows
    BY <1>4 DEF CheckDuplicate, Owns
  <2>3. Refused' = [Refused EXCEPT ![t] = TRUE]
    BY <1>4 DEF CheckDuplicate, Refused, TypeOK
  <2> QED BY <2>1, <2>2, <2>3 DEF Index!Refuse, Owns, Refused
<1>5. ASSUME NEW t \in Txns, settled[t] = "open", settled'[t] # "open",
             pc' = [pc EXCEPT ![t] = "gone"] \/ (pc' = pc /\ pc[t] # "refused"),
             UNCHANGED pending, \A u \in Txns \ {t} : settled'[u] = settled[u]
      PROVE  Owns' = [Owns EXCEPT ![t] = {}] /\ Refused' = [Refused EXCEPT ![t] = FALSE]
  <2>1. \A u \in Txns : Owns'[u] = IF u = t THEN {} ELSE Owns[u]
    BY <1>5 DEF Owns
  <2>2. \A u \in Txns : Refused'[u] = IF u = t THEN FALSE ELSE Refused[u]
    BY <1>5 DEF Refused, TypeOK
  <2> QED BY <2>1, <2>2 DEF Owns, Refused
<1>6. ASSUME NEW t \in Txns, Commit(t) PROVE Index!Commit(t)
  <2>1. Owns' = [Owns EXCEPT ![t] = {}] /\ Refused' = [Refused EXCEPT ![t] = FALSE]
    BY <1>5, <1>6 DEF Commit, Settle, TypeOK
  <2>2. rows' = [v \in Values |-> IF v \in Owns[t] THEN rows[v] + 1 ELSE rows[v]]
    <3>1. \A v \in Values : rows[v] + pending[t][v] = IF v \in Owns[t] THEN rows[v] + 1 ELSE rows[v]
      BY <1>6 DEF Commit, Owns, PendingFromPlan, TypeOK
    <3> QED BY <1>6, <3>1 DEF Commit
  <2> QED BY <2>1, <2>2 DEF Index!Commit, Owns, Refused
<1>7. ASSUME NEW t \in Txns, Rollback(t) \/ Kill(t) PROVE Index!Abandon(t)
  <2>1. Owns' = [Owns EXCEPT ![t] = {}] /\ Refused' = [Refused EXCEPT ![t] = FALSE]
    <3>1. /\ settled[t] = "open" /\ settled'[t] # "open"
          /\ UNCHANGED pending /\ \A u \in Txns \ {t} : settled'[u] = settled[u]
      BY <1>7 DEF Rollback, Kill, Settle, TypeOK
    <3>2. pc' = [pc EXCEPT ![t] = "gone"] \/ (pc' = pc /\ pc[t] # "refused")
      BY <1>7 DEF Rollback, Kill, InFlight, TypeOK
    <3> QED BY <1>5, <3>1, <3>2
  <2> QED BY <1>7, <2>1 DEF Index!Abandon, Owns, Refused, Rollback, Kill
<1>8. ASSUME NEW t \in Txns, Resume(t) \/ Client(t) \/ Kill(t)
      PROVE  \/ UNCHANGED <<Owns, rows, Refused>>
             \/ \E v \in Values : Index!Take(t, v) \/ Index!Refuse(t, v)
             \/ Index!Commit(t) \/ Index!Abandon(t)
  <2>0. InFlight(t) => \E v \in Values : v = Wanted(t)
    BY WantedFresh DEF PlanOK
  <2>1. CASE CheckFresh(t)
    <3>1. PICK v \in Values : v = Wanted(t)
      BY <2>0, <2>1 DEF CheckFresh, InFlight
    <3> QED BY <1>3, <2>1, <3>1
  <2>2. CASE CheckDuplicate(t)
    <3>1. PICK v \in Values : v = Wanted(t)
      BY <2>0, <2>2 DEF CheckDuplicate, InFlight
    <3> QED BY <1>4, <2>2, <3>1
  <2>3. CASE ~(CheckFresh(t) \/ CheckDuplicate(t))
    BY <2>3, <1>8, <1>2, <1>6, <1>7 DEF Client
  <2> QED BY <2>1, <2>2, <2>3
<1>9. CASE Next
  <2>1. PICK t \in Txns : Resume(t) \/ Client(t) \/ Kill(t)
    BY <1>9 DEF Next
  <2> QED BY <2>1, <1>8 DEF Index!Next
<1> QED BY <1>1, <1>9

\* The store implements the unique index: every execution of it is one of
\* UniqueIndex under the mapping above.
THEOREM StoreImplementsIndex == Spec => ImplementsIndex
<1>1. Init => Index!Init
  <2> SUFFICES ASSUME Init PROVE Index!Init
    OBVIOUS
  <2>1. \A t \in Txns, v \in Values : ~(pending[t][v] > 0)
    BY DEF Init
  <2>2. Owns = [t \in Txns |-> {}]
    BY <2>1 DEF Owns
  <2>3. \A t \in Txns : (pc[t] = "refused") = FALSE
    BY DEF Init
  <2>4. Refused = [t \in Txns |-> FALSE]
    BY <2>3, Zenon DEF Refused
  <2> QED BY <2>2, <2>4 DEF Init, Index!Init, Owns, Refused
<1> QED BY <1>1, StepImplementsIndex, StoreInvariant, PTL DEF Spec, ImplementsIndex, Index!Spec

-----------------------------------------------------------------------------
(* Waiting in a circle. *)

\* Every transaction inserts its values in one order that all of them follow.
Ranks(rank) == \A t \in Txns : \A i, j \in 1..Len(Plan[t]) :
                 i < j => rank[Plan[t][i]] < rank[Plan[t][j]]
Ranked == \E rank \in [Values -> Nat] : Ranks(rank)

\* What a transaction holds it has inserted, or is about to; what it waits for
\* it wants.
HeldEarlier == \A t \in Txns, v \in Values : holder[v] = t =>
  \/ \E i \in 1..step[t] : Plan[t][i] = v
  \/ pc[t] = "check" /\ v = Wanted(t)
  \/ pc[t] = "gone"
WaitsForWanted == \A t \in Txns : waitingOn[t] # NoValue =>
  pc[t] = "waiting" /\ waitingOn[t] = Wanted(t)

OInv == HeldEarlier /\ WaitsForWanted /\ NeverDeadlocked

\* A set of natural numbers that is not empty has a least one.
LEMMA LeastNat ==
  ASSUME NEW T \in SUBSET Nat, T # {}
  PROVE  \E x \in T : \A y \in T : ~(y < x)
<1>1. PICK x \in T : \A y \in T : ~ (<<y, x>> \in OpToRel(<, Nat))
  BY NatLessThanWellFounded, WFMin, Zenon
<1>2. \A y \in Nat, z \in Nat : y < z => <<y, z>> \in OpToRel(<, Nat)
  BY Zenon DEF OpToRel
<1> QED BY <1>1, <1>2

\* A walk of n steps along a function from a set to itself.
Walks(n, S, next, first) ==
  {f \in [0..n -> S] : f[0] = first /\ \A i \in 1..n : f[i] = next[f[i-1]]}

\* There is one from anywhere: a shortest one missing would have one step less.
LEMMA WalkExists ==
  ASSUME NEW S, NEW next \in [S -> S], NEW first \in S, NEW n \in Nat
  PROVE  Walks(n, S, next, first) # {}
<1> DEFINE Walk(f, m) == f[0] = first /\ \A i \in 1..m : f[i] = next[f[i-1]]
           T == {m \in Nat : \A f \in [0..m -> S] : ~Walk(f, m)}
<1>1. SUFFICES T = {}
  BY DEF Walks
<1>2. SUFFICES ASSUME T # {} PROVE FALSE
  OBVIOUS
<1>3. PICK m \in T : \A y \in T : ~(y < m)
  <2>1. T \in SUBSET Nat
    OBVIOUS
  <2> HIDE DEF T
  <2> QED BY <1>2, <2>1, LeastNat
<1>4. m \in Nat /\ \A f \in [0..m -> S] : ~Walk(f, m)
  OBVIOUS
<1>5. CASE m = 0
  <2>1. [i \in 0..0 |-> first] \in [0..0 -> S] /\ Walk([i \in 0..0 |-> first], 0)
    OBVIOUS
  <2> QED BY <1>4, <1>5, <2>1
<1>6. CASE m > 0
  <2>1. m - 1 \in Nat /\ m - 1 < m
    BY <1>4, <1>6
  <2>2. PICK f \in [0..(m-1) -> S] : Walk(f, m - 1)
    BY <1>3, <2>1
  <2> DEFINE g == [i \in 0..m |-> IF i = m THEN next[f[m-1]] ELSE f[i]]
  <2>3. f[m-1] \in S
    BY <2>1
  <2>4. g \in [0..m -> S]
    BY <2>1, <2>3
  <2>5. g[0] = first
    BY <1>4, <1>6, <2>2
  <2>6. ASSUME NEW i \in 1..m PROVE g[i] = next[g[i-1]]
    <3>1. CASE i = m
      BY <3>1, <1>4, <1>6, <2>1
    <3>2. CASE i # m
      <4>1. i \in 1..(m-1) /\ i - 1 \in 0..m /\ i - 1 # m /\ i \in 0..m
        BY <3>2, <1>4
      <4> QED BY <4>1, <3>2, <2>2
    <3> QED BY <3>1, <3>2
  <2> HIDE DEF g
  <2> QED BY <2>4, <2>5, <2>6, <1>4
<1> QED BY <1>4, <1>5, <1>6

\* Who is met on the way from a holder, n steps far.
Chases(n, first, blocked) ==
  {f \in [0..n -> Txns \union {NoTxn}] :
     /\ f[0] = first
     /\ \A i \in 1..n : f[i] = IF f[i-1] = NoTxn \/ blocked[f[i-1]] = NoValue THEN NoTxn
                               ELSE holder[blocked[f[i-1]]]}

\* detectCycle (store.ts): the walk from a holder to what it waits on, and on to
\* who holds that, comes to t.
LEMMA CycleIsWalk ==
  ASSUME holder \in [Values -> Txns \union {NoTxn}], Cardinality(Txns) \in Nat,
         NEW t, NEW first \in Txns \union {NoTxn}, NEW blocked \in [Txns -> Values \union {NoValue}],
         ClosesCycle(t, first, blocked)
  PROVE  \E n \in Nat : \E f \in Chases(n, first, blocked) : \E i \in 0..n : f[i] = t
<1> DEFINE n == Cardinality(Txns)
           S == Txns \union {NoTxn}
           next == [u \in S |-> IF u = NoTxn \/ blocked[u] = NoValue THEN NoTxn ELSE holder[blocked[u]]]
           Rec(f) == [i \in 0..n |-> IF i = 0 THEN first
                                     ELSE IF f[i-1] = NoTxn \/ blocked[f[i-1]] = NoValue THEN NoTxn
                                     ELSE holder[blocked[f[i-1]]]]
           chase == CHOOSE f : f = Rec(f)
<1>1. next \in [S -> S]
  OBVIOUS
<1>2. PICK f \in [0..n -> S] : f[0] = first /\ \A i \in 1..n : f[i] = next[f[i-1]]
  <2>1. n \in Nat /\ first \in S
    OBVIOUS
  <2> HIDE DEF next, S, n
  <2>2. Walks(n, S, next, first) # {}
    BY <1>1, <2>1, WalkExists
  <2> QED BY <2>2 DEF Walks
<1>3. f = Rec(f)
  <2>1. \A i \in 0..n : i # 0 => i \in 1..n /\ i - 1 \in 0..n
    OBVIOUS
  <2>2. \A i \in 0..n : f[i] = Rec(f)[i]
    BY <1>2, <2>1
  <2> QED BY <2>2
<1>4. chase = Rec(chase)
  <2> HIDE DEF Rec
  <2> QED BY <1>3
<1>5. \E i \in 0..n : chase[i] = t
  BY DEF ClosesCycle
<1>6. chase \in [0..n -> S]
  <2> DEFINE T == {i \in 0..n : chase[i] \notin S}
  <2>1. ASSUME T # {} PROVE FALSE
    <3>1. T \in SUBSET Nat
      OBVIOUS
    <3>2. \E m \in T : \A y \in T : ~(y < m)
      <4> HIDE DEF T
      <4> QED BY <2>1, <3>1, LeastNat
    <3> HIDE DEF T
    <3>0. PICK m \in T : \A y \in T : ~(y < m)
      BY ONLY <3>2, Zenon
    <3> HIDE DEF chase
    <3>3. m \in 0..n /\ chase[m] \notin S
      BY DEF T
    <3>4. m # 0
      BY <3>3, <1>4
    <3>5. m - 1 \in 0..n /\ m - 1 < m
      BY <3>3, <3>4
    <3>6. chase[m-1] \in S
      <4>1. m - 1 \notin T
        BY ONLY <3>0, <3>5
      <4> QED BY ONLY <3>5, <4>1 DEF T
    <3>7. chase[m] = IF chase[m-1] = NoTxn \/ blocked[chase[m-1]] = NoValue THEN NoTxn
                     ELSE holder[blocked[chase[m-1]]]
      BY <3>3, <3>4, <1>4
    <3> QED BY <3>3, <3>6, <3>7
  <2>2. \A i \in 0..n : chase[i] \in S
    BY <2>1
  <2>3. chase = [i \in 0..n |-> chase[i]]
    <3> HIDE DEF chase
    <3> QED BY <1>4
  <2> HIDE DEF chase
  <2> QED BY <2>2, <2>3
<1>7. /\ chase[0] = first
      /\ \A i \in 1..n : chase[i] = IF chase[i-1] = NoTxn \/ blocked[chase[i-1]] = NoValue THEN NoTxn
                                    ELSE holder[blocked[chase[i-1]]]
  <2>1. 0 \in 0..n /\ \A i \in 1..n : i \in 0..n /\ i # 0
    OBVIOUS
  <2> HIDE DEF chase
  <2> QED BY <2>1, <1>4
<1>8. chase \in Chases(n, first, blocked)
  <2> HIDE DEF chase
  <2> QED BY <1>6, <1>7 DEF Chases
<1>9. n \in Nat
  OBVIOUS
<1> HIDE DEF chase, n
<1> QED BY <1>5, <1>8, <1>9

\* A transaction that waits holds only what ranks before what it waits for.
LEMMA HeldBelow ==
  ASSUME IInv, HeldEarlier, NEW rank \in [Values -> Nat], Ranks(rank),
         NEW t \in Txns, pc[t] \in {"acquire", "waiting"}, NEW v \in Values, holder[v] = t
  PROVE  Wanted(t) \in Values /\ rank[v] < rank[Wanted(t)]
<1>1. step[t] < Len(Plan[t]) /\ step[t] \in Nat /\ Plan[t] \in Seq(Values)
  <2>1. TypeOK /\ PlanOK
    BY DEF IInv
  <2>2. step[t] \in Nat /\ Plan[t] \in Seq(Values)
    BY ONLY <2>1, PlanAssumption, t \in Txns DEF TypeOK
  <2> QED BY <2>1, <2>2 DEF PlanOK, InFlight
<1>2. Wanted(t) \in Values
  BY <1>1, WantedFresh DEF IInv
<1>3. PICK i \in 1..step[t] : Plan[t][i] = v
  BY DEF HeldEarlier
<1>4. i \in 1..Len(Plan[t]) /\ step[t] + 1 \in 1..Len(Plan[t]) /\ i < step[t] + 1
  <2>1. Len(Plan[t]) \in Nat
    BY ONLY <1>1
  <2> QED BY ONLY <1>1, <2>1, i \in 1..step[t]
<1>5. rank[Plan[t][i]] < rank[Plan[t][step[t] + 1]]
  BY <1>4 DEF Ranks
<1> QED BY <1>2, <1>3, <1>5 DEF Wanted

\* On the way from the holder of what t wants, the ranks of what is held and
\* waited for never fall: the way does not come back to t.
LEMMA NoCycle ==
  ASSUME IInv, HeldEarlier, NEW rank \in [Values -> Nat], Ranks(rank), IsFiniteSet(Txns),
         NEW t \in Txns, pc[t] \in {"acquire", "waiting"},
         NEW blocked \in [Txns -> Values \union {NoValue}],
         \A u \in Txns : blocked[u] # NoValue =>
           u # t /\ pc[u] = "waiting" /\ blocked[u] = Wanted(u),
         NEW first \in Txns, Wanted(t) \in Values, first = holder[Wanted(t)], first # t
  PROVE  ~ClosesCycle(t, first, blocked)
<1> DEFINE r == rank[Wanted(t)]
           Above(u) == u = NoTxn \/ (u \in Txns /\ \E v \in Values : holder[v] = u /\ rank[v] >= r)
<1>i. TypeOK
  BY DEF IInv
<1>1. ~Above(t)
  <2>1. \A v \in Values : holder[v] = t => rank[v] < r
    BY HeldBelow
  <2>2. r \in Nat /\ \A v \in Values : rank[v] \in Nat
    OBVIOUS
  <2> HIDE DEF r
  <2> QED BY <2>1, <2>2, SentinelAssumption
<1>2. ASSUME NEW u, Above(u), NEW w,
             w = IF u = NoTxn \/ blocked[u] = NoValue THEN NoTxn ELSE holder[blocked[u]]
      PROVE  Above(w)
  <2>1. CASE u = NoTxn \/ blocked[u] = NoValue
    BY <1>2, <2>1
  <2>2. CASE u # NoTxn /\ blocked[u] # NoValue
    <3>1. PICK v \in Values : u \in Txns /\ holder[v] = u /\ rank[v] >= r
      BY <1>2, <2>2
    <3>2. pc[u] = "waiting" /\ blocked[u] = Wanted(u)
      BY <2>2, <3>1
    <3>3. Wanted(u) \in Values /\ rank[v] < rank[Wanted(u)]
      BY <3>1, <3>2, HeldBelow
    <3>4. r \in Nat /\ rank[v] \in Nat /\ rank[Wanted(u)] \in Nat
      BY <3>3
    <3>5. w = holder[Wanted(u)] /\ w \in Txns \union {NoTxn}
      BY <1>2, <2>2, <3>2, <3>3, <1>i DEF TypeOK
    <3> HIDE DEF r
    <3> QED BY <3>1, <3>3, <3>4, <3>5
  <2> QED BY <2>1, <2>2
<1>3. Above(first)
  <2>1. r \in Nat /\ rank[Wanted(t)] >= r
    OBVIOUS
  <2> QED BY <2>1
<1> SUFFICES ASSUME ClosesCycle(t, first, blocked) PROVE FALSE
  OBVIOUS
<1>4. PICK n \in Nat : \E f \in Chases(n, first, blocked) : \E i \in 0..n : f[i] = t
  <2>1. Cardinality(Txns) \in Nat
    BY FS_CardinalityType
  <2>2. holder \in [Values -> Txns \union {NoTxn}] /\ first \in Txns \union {NoTxn}
    BY <1>i DEF TypeOK
  <2> QED BY <2>1, <2>2, CycleIsWalk
<1>5. PICK f \in Chases(n, first, blocked) : \E i \in 0..n : f[i] = t
  BY <1>4
<1>c. /\ f \in [0..n -> Txns \union {NoTxn}] /\ f[0] = first
      /\ \A i \in 1..n : f[i] = IF f[i-1] = NoTxn \/ blocked[f[i-1]] = NoValue THEN NoTxn
                                ELSE holder[blocked[f[i-1]]]
  BY DEF Chases
<1> DEFINE T == {i \in 0..n : ~Above(f[i])}
<1>6. T \in SUBSET Nat /\ T # {}
  <2> HIDE DEF Above
  <2>1. PICK i \in 0..n : f[i] = t
    BY <1>5
  <2>2. i \in T
    BY <2>1, <1>1
  <2> QED BY <2>2
<1>7. PICK m \in T : \A y \in T : ~(y < m)
  <2> HIDE DEF T
  <2> QED BY <1>6, LeastNat
<1>8. m \in 0..n /\ ~Above(f[m])
  BY <1>7
<1>9. m # 0
  BY <1>3, <1>c, <1>8
<1>10. m \in 1..n /\ m - 1 \in 0..n /\ m - 1 < m
  BY <1>8, <1>9
<1>11. Above(f[m-1])
  BY <1>7, <1>10
<1>12. f[m] = IF f[m-1] = NoTxn \/ blocked[f[m-1]] = NoValue THEN NoTxn ELSE holder[blocked[f[m-1]]]
  BY <1>c, <1>10
<1> HIDE DEF Above
<1> QED BY <1>2, <1>8, <1>11, <1>12

-----------------------------------------------------------------------------
\* One turn of the loop in acquire() finds no circle.
LEMMA TryAcquireOrdered ==
  ASSUME IInv, OInv, NEW rank \in [Values -> Nat], Ranks(rank), IsFiniteSet(Txns),
         NEW t \in Txns, pc[t] \in {"acquire", "waiting"},
         NEW blocked \in [Txns -> Values \union {NoValue}],
         \A u \in Txns : blocked[u] # NoValue =>
           u # t /\ pc[u] = "waiting" /\ blocked[u] = Wanted(u),
         TryAcquire(t, blocked), UNCHANGED step
  PROVE  OInv'
<1>i. TypeOK /\ HeldEarlier /\ NeverDeadlocked
  BY DEF IInv, OInv
<1>0. Wanted(t) \in Values
  BY WantedFresh DEF IInv, PlanOK, InFlight
<1>1. holder[Wanted(t)] \in Txns \union {NoTxn}
  BY <1>0, <1>i DEF TypeOK
<1>2. holder[Wanted(t)] \notin {NoTxn, t} => ~ClosesCycle(t, holder[Wanted(t)], blocked)
  BY <1>0, <1>1, <1>i, NoCycle
<1>3. \/ /\ holder' = [holder EXCEPT ![Wanted(t)] = t] /\ holder[Wanted(t)] \in {NoTxn, t}
         /\ waitingOn' = blocked /\ pc' = [pc EXCEPT ![t] = "check"]
      \/ /\ holder' = holder
         /\ waitingOn' = [blocked EXCEPT ![t] = Wanted(t)] /\ pc' = [pc EXCEPT ![t] = "waiting"]
  BY <1>2 DEF TryAcquire
<1>4. \A u \in Txns : Wanted(u)' = Wanted(u)
  BY DEF Wanted
<1>5. HeldEarlier'
  <2> SUFFICES ASSUME NEW u \in Txns, NEW v \in Values, holder'[v] = u
               PROVE  \/ \E i \in 1..step[u] : Plan[u][i] = v
                      \/ pc'[u] = "check" /\ v = Wanted(u)
                      \/ pc'[u] = "gone"
    BY <1>4 DEF HeldEarlier
  <2>1. CASE holder[v] = u
    <3>1. \/ \E i \in 1..step[u] : Plan[u][i] = v
          \/ pc[u] = "check" /\ v = Wanted(u)
          \/ pc[u] = "gone"
      BY <2>1, <1>i DEF HeldEarlier
    <3>2. CASE u = t
      BY <3>1, <3>2
    <3>3. CASE u # t
      <4>1. pc'[u] = pc[u]
        BY <3>3, <1>3, <1>i DEF TypeOK
      <4> QED BY <3>1, <4>1
    <3> QED BY <3>2, <3>3
  <2>2. CASE holder[v] # u
    <3>1. v = Wanted(t) /\ u = t /\ pc'[t] = "check"
      BY <2>2, <1>3, <1>i DEF TypeOK
    <3> QED BY <3>1
  <2> QED BY <2>1, <2>2
<1>6. WaitsForWanted'
  <2> SUFFICES ASSUME NEW u \in Txns, waitingOn'[u] # NoValue
               PROVE  pc'[u] = "waiting" /\ waitingOn'[u] = Wanted(u)
    BY <1>4 DEF WaitsForWanted
  <2>1. CASE u = t
    BY <2>1, <1>3, <1>i DEF TypeOK
  <2>2. CASE u # t
    BY <2>2, <1>3, <1>i DEF TypeOK
  <2> QED BY <2>1, <2>2
<1>7. NeverDeadlocked'
  BY <1>3, <1>i DEF NeverDeadlocked, TypeOK
<1> QED BY <1>5, <1>6, <1>7 DEF OInv

\* Every other step leaves who waits, and takes reservations from t alone.
LEMMA OtherOrdered ==
  ASSUME IInv, OInv, NEW t \in Txns,
         InsertCall(t) \/ AcquireDead(t) \/ CheckFresh(t) \/ CheckDuplicate(t) \/ CheckDead(t)
           \/ Commit(t) \/ Rollback(t) \/ Kill(t)
  PROVE  OInv'
<1>i. TypeOK /\ HeldEarlier /\ WaitsForWanted /\ NeverDeadlocked
  BY DEF IInv, OInv
<1>1. UNCHANGED waitingOn /\ \A u \in Txns : u # t => pc'[u] = pc[u] /\ step'[u] = step[u]
  BY <1>i DEF InsertCall, AcquireDead, CheckFresh, CheckDuplicate, CheckDead, Commit, Rollback, Kill, TypeOK
<1>2. \/ pc'[t] \in {"acquire", "idle", "refused", "gone"} /\ pc[t] # "waiting"
      \/ pc'[t] = pc[t] /\ step'[t] = step[t]
      \/ pc'[t] = "gone" /\ pc[t] # "waiting"
  BY <1>i DEF InsertCall, AcquireDead, CheckFresh, CheckDuplicate, CheckDead, Commit, Rollback, Kill,
     TypeOK, InFlight
<1>3. \A v \in Values : holder'[v] = holder[v] \/ holder'[v] = NoTxn
  <2>1. UNCHANGED holder \/ \E vs : Wake(t, vs)
    BY DEF InsertCall, AcquireDead, CheckFresh, CheckDuplicate, CheckDead, Commit, Rollback, Kill, Settle
  <2> QED BY <2>1 DEF Wake, Released
<1>4. HeldEarlier'
  <2> SUFFICES ASSUME NEW u \in Txns, NEW v \in Values, holder'[v] = u
               PROVE  \/ \E i \in 1..step'[u] : Plan[u][i] = v
                      \/ pc'[u] = "check" /\ v = Wanted(u)'
                      \/ pc'[u] = "gone"
    BY DEF HeldEarlier
  <2>1. holder[v] = u
    BY <1>3, SentinelAssumption
  <2>2. \/ \E i \in 1..step[u] : Plan[u][i] = v
        \/ pc[u] = "check" /\ v = Wanted(u)
        \/ pc[u] = "gone"
    BY <2>1, <1>i DEF HeldEarlier
  <2>3. CASE u # t \/ (pc'[t] = pc[t] /\ step'[t] = step[t])
    BY <2>2, <2>3, <1>1 DEF Wanted
  <2>4. CASE u = t /\ pc'[t] = "gone"
    BY <2>4
  <2>5. CASE u = t /\ InsertCall(t)
    BY <2>2, <2>5 DEF InsertCall
  <2>6. CASE u = t /\ CheckFresh(t)
    <3>1. step'[t] = step[t] + 1 /\ step[t] \in Nat /\ pc[t] = "check"
      BY <2>6, <1>i DEF CheckFresh, TypeOK
    <3>2. \A i \in 1..step[t] : i \in 1..step'[t]
      BY <3>1
    <3>3. step[t] + 1 \in 1..step'[t]
      BY <3>1
    <3> QED BY <2>2, <2>6, <3>1, <3>2, <3>3 DEF Wanted
  <2>7. CASE u = t /\ CheckDuplicate(t)
    <3>1. /\ Wake(t, <<Wanted(t)>>) /\ step'[t] = step[t] /\ pc[t] = "check"
          /\ Wanted(t) \in Range(<<Wanted(t)>>)
      BY <2>7 DEF CheckDuplicate, Range
    <3>2. holder'[v] # NoTxn
      BY SentinelAssumption
    <3>3. v # Wanted(t)
      BY <2>1, <2>7, <3>1, <3>2 DEF Wake, Released
    <3> QED BY <2>2, <2>7, <3>1, <3>3
  <2>8. CASE u = t /\ ~(InsertCall(t) \/ CheckFresh(t) \/ CheckDuplicate(t))
    <3>1. (AcquireDead(t) \/ CheckDead(t) \/ Commit(t) \/ Rollback(t)) => pc'[t] = "gone"
      BY <1>i DEF AcquireDead, CheckDead, Commit, Rollback, TypeOK
    <3>2. Kill(t) => pc'[t] = "gone" \/ (pc'[t] = pc[t] /\ step'[t] = step[t])
      BY <1>i DEF Kill, TypeOK
    <3> QED BY <3>1, <3>2, <2>3, <2>4, <2>8
  <2> QED BY <2>3, <2>5, <2>6, <2>7, <2>8
<1>5. WaitsForWanted'
  <2>1. pc[t] = "waiting" => pc'[t] = "waiting" /\ step'[t] = step[t]
    BY <1>2
  <2> QED BY <2>1, <1>1, <1>i DEF WaitsForWanted, Wanted
<1>6. NeverDeadlocked'
  BY <1>1, <1>2, <1>i DEF NeverDeadlocked
<1> QED BY <1>4, <1>5, <1>6 DEF OInv

\* Every step keeps the transactions out of a circle.
LEMMA NextOInv ==
  ASSUME NEW rank \in [Values -> Nat], Ranks(rank), IsFiniteSet(Txns)
  PROVE  IInv /\ OInv /\ [Next]_vars => OInv'
<1> SUFFICES ASSUME IInv, OInv, [Next]_vars PROVE OInv'
  OBVIOUS
<1>i. TypeOK /\ WaitsForWanted
  BY DEF IInv, OInv
<1>1. CASE UNCHANGED vars
  BY <1>1 DEF vars, OInv, HeldEarlier, WaitsForWanted, NeverDeadlocked, Wanted
<1>2. ASSUME NEW t \in Txns, Resume(t) PROVE OInv'
  <2> DEFINE blocked == [waitingOn EXCEPT ![t] = NoValue]
  <2>1. /\ blocked \in [Txns -> Values \union {NoValue}]
        /\ pc[t] = "waiting" /\ TryAcquire(t, blocked) /\ UNCHANGED step
    BY <1>2, <1>i DEF Resume, TypeOK
  <2>2. \A u \in Txns : blocked[u] # NoValue =>
          u # t /\ pc[u] = "waiting" /\ blocked[u] = Wanted(u)
    BY <1>i DEF WaitsForWanted, TypeOK
  <2> HIDE DEF blocked
  <2> QED BY <2>1, <2>2, TryAcquireOrdered
<1>3. ASSUME NEW t \in Txns, Acquire(t) PROVE OInv'
  <2>1. /\ waitingOn \in [Txns -> Values \union {NoValue}]
        /\ pc[t] = "acquire" /\ TryAcquire(t, waitingOn) /\ UNCHANGED step
    BY <1>3, <1>i DEF Acquire, TypeOK
  <2>2. \A u \in Txns : waitingOn[u] # NoValue =>
          u # t /\ pc[u] = "waiting" /\ waitingOn[u] = Wanted(u)
    BY <2>1, <1>i DEF WaitsForWanted
  <2> QED BY <2>1, <2>2, TryAcquireOrdered
<1>4. ASSUME NEW t \in Txns, Client(t) \/ Kill(t), ~Acquire(t) PROVE OInv'
  BY <1>4, OtherOrdered DEF Client
<1> QED BY <1>1, <1>2, <1>3, <1>4 DEF Next, Client

\* Store.acquire's detectCycle (store.ts:545): as long as all plans insert in one
\* order, it never refuses a wait, for any number of transactions, deaths included.
THEOREM StoreNeverDeadlocked ==
  ASSUME Ranked, IsFiniteSet(Txns)
  PROVE  Spec => []NeverDeadlocked
<1>1. PICK rank \in [Values -> Nat] : Ranks(rank)
  BY DEF Ranked
<1>2. Init => OInv
  BY SentinelAssumption DEF Init, OInv, HeldEarlier, WaitsForWanted, NeverDeadlocked
<1>3. IInv /\ OInv /\ [Next]_vars => OInv'
  BY <1>1, NextOInv
<1>4. OInv => NeverDeadlocked
  BY DEF OInv
<1> QED BY <1>2, <1>3, <1>4, StoreInvariant, PTL DEF Spec

-----------------------------------------------------------------------------
(* Locks that outlive their transaction. *)

\* A value inserted second by one delivery comes with that delivery's first
\* value wherever it is inserted (an outbox row with its key).
Together == \A t, u \in Txns : \A i \in 2..Len(Plan[t]), j \in 1..Len(Plan[u]) :
  Plan[t][i] = Plan[u][j] => \E m \in 1..Len(Plan[u]) : Plan[u][m] = Plan[t][1]

\* Whatever is held is listed for release, or just acquired.
Listed == \A t \in Txns, v \in Values : holder[v] = t =>
  \/ v \in Range(reserved[t])
  \/ pc[t] = "check" /\ v = Wanted(t)
\* A settled transaction has nothing listed and makes no further call.
SettledGone == \A t \in Txns : settled[t] # "open" => reserved[t] = <<>> /\ pc[t] = "gone"
\* Nothing is listed before the first insert has returned.
ListedLater == \A t \in Txns : step[t] = 0 => reserved[t] = <<>>
\* What the finished inserts asked for is buffered.
PlanPending == \A t \in Txns : \A i \in 1..step[t] : pending[t][Plan[t][i]] > 0
\* A committed row is one of a whole plan that was committed.
CommittedWhole == \A v \in Values : rows[v] > 0 =>
  \E t \in Txns : /\ \E i \in 1..Len(Plan[t]) : Plan[t][i] = v
                  /\ \A i \in 1..Len(Plan[t]) : rows[Plan[t][i]] > 0

LInv == Listed /\ SettledGone /\ ListedLater /\ PlanPending /\ CommittedWhole

-----------------------------------------------------------------------------
\* An insert refused is a transaction's first: nothing is listed that splice(-1)
\* could take off the list in its stead.
LEMMA RefusedFirst ==
  ASSUME IInv, LInv, Together, NEW t \in Txns, CheckDuplicate(t)
  PROVE  reserved[t] = <<>>
<1>i. TypeOK /\ PlanOK /\ PendingProtected
  BY DEF IInv
<1>l. ListedLater /\ PlanPending /\ CommittedWhole
  BY DEF LInv
<1>1. /\ step[t] \in Nat /\ step[t] < Len(Plan[t]) /\ Plan[t] \in Seq(Values)
      /\ settled[t] = "open" /\ Wanted(t) \in Values /\ rows[Wanted(t)] > 0
  BY <1>i, WantedFresh, PlanAssumption DEF IInv, CheckDuplicate, PlanOK, InFlight, TypeOK
<1>2. ASSUME step[t] > 0 PROVE FALSE
  <2>1. PICK u \in Txns : /\ \E j \in 1..Len(Plan[u]) : Plan[u][j] = Wanted(t)
                          /\ \A j \in 1..Len(Plan[u]) : rows[Plan[u][j]] > 0
    BY <1>1, <1>l DEF CommittedWhole
  <2>2. step[t] + 1 \in 2..Len(Plan[t]) /\ Plan[t][step[t] + 1] = Wanted(t)
    BY <1>1, <1>2 DEF Wanted
  <2>3. PICK m \in 1..Len(Plan[u]) : Plan[u][m] = Plan[t][1]
    BY <2>1, <2>2 DEF Together
  <2>4. 1 \in 1..step[t] /\ 1 \in 1..Len(Plan[t])
    BY <1>1, <1>2
  <2>5. Plan[t][1] \in Values /\ pending[t][Plan[t][1]] > 0
    BY <2>4, <1>1, <1>l DEF PlanPending
  <2>6. rows[Plan[t][1]] = 0
    BY <2>5, <1>1, <1>i DEF PendingProtected
  <2>7. rows[Plan[t][1]] > 0
    BY <2>1, <2>3
  <2> QED BY <2>6, <2>7
<1> QED BY <1>1, <1>2, <1>l DEF ListedLater

\* What stays of an empty list of reservations.
LEMMA SpliceEmpty == ASSUME NEW v PROVE Splice(<<>>, v) = <<>>
<1>1. SpliceAt(<<>>, v) = 0
  BY DEF SpliceAt, Range
<1> QED BY <1>1 DEF Splice, RemoveAt

\* Taking a reservation leads to the look at the rows.
LEMMA ListedTry ==
  ASSUME IInv, LInv, NEW t \in Txns, NEW blocked, pc[t] \in {"acquire", "waiting"}, settled[t] = "open",
         TryAcquire(t, blocked), UNCHANGED <<rows, pending, reserved, settled, step>>
  PROVE  LInv'
<1>i. TypeOK
  BY DEF IInv
<1>1. Listed'
  <2> SUFFICES ASSUME NEW u \in Txns, NEW v \in Values, holder'[v] = u
               PROVE  v \in Range(reserved[u]) \/ (pc'[u] = "check" /\ v = Wanted(u))
    BY DEF Listed, Wanted
  <2>1. CASE holder[v] = u
    <3>1. v \in Range(reserved[u]) \/ (pc[u] = "check" /\ v = Wanted(u))
      BY <2>1 DEF LInv, Listed
    <3>2. u # t => pc'[u] = pc[u]
      BY <1>i DEF TryAcquire, TypeOK
    <3> QED BY <3>1, <3>2
  <2>2. CASE holder[v] # u
    <3>1. holder' = [holder EXCEPT ![Wanted(t)] = t] /\ pc' = [pc EXCEPT ![t] = "check"]
      BY <2>2 DEF TryAcquire
    <3>2. v = Wanted(t) /\ u = t /\ pc'[t] = "check"
      BY <3>1, <2>2, <1>i DEF TypeOK
    <3> QED BY <3>2
  <2> QED BY <2>1, <2>2
<1>2. SettledGone'
  <2>1. \A u \in Txns : u # t => pc'[u] = pc[u]
    BY <1>i DEF TryAcquire, TypeOK
  <2> QED BY <2>1 DEF LInv, SettledGone
<1>3. ListedLater' /\ PlanPending' /\ CommittedWhole'
  BY DEF LInv, ListedLater, PlanPending, CommittedWhole
<1> QED BY <1>1, <1>2, <1>3 DEF LInv

\* A transaction ends between two inserts: all it held is listed and released.
LEMMA ListedSettle ==
  ASSUME IInv, LInv, NEW t \in Txns, NEW how \in Settlement \ {"open"}, ~InFlight(t),
         Settle(t, how), UNCHANGED <<pending, waitingOn, step>>,
         pc' = [pc EXCEPT ![t] = "gone"],
         \/ rows' = rows
         \/ step[t] = Len(Plan[t]) /\ rows' = [v \in Values |-> rows[v] + pending[t][v]]
  PROVE  LInv'
<1>i. TypeOK
  BY DEF IInv
<1>l. Listed /\ SettledGone /\ ListedLater /\ PlanPending /\ CommittedWhole
  BY DEF LInv
<1>1. /\ reserved' = [reserved EXCEPT ![t] = <<>>] /\ settled' = [settled EXCEPT ![t] = how]
      /\ holder' = Released(t, reserved[t])
  BY DEF Settle, Wake
<1>2. Listed'
  <2> SUFFICES ASSUME NEW u \in Txns, NEW v \in Values, holder'[v] = u
               PROVE  v \in Range(reserved'[u]) \/ (pc'[u] = "check" /\ v = Wanted(u))
    BY DEF Listed, Wanted
  <2>1. holder[v] = u /\ ~(holder[v] = t /\ v \in Range(reserved[t]))
    BY <1>1, SentinelAssumption DEF Released
  <2>2. v \in Range(reserved[u]) \/ (pc[u] = "check" /\ v = Wanted(u))
    BY <2>1, <1>l DEF Listed
  <2>3. u # t
    BY <2>1, <2>2 DEF InFlight
  <2> QED BY <2>2, <2>3, <1>1, <1>i DEF TypeOK
<1>3. SettledGone' /\ ListedLater'
  BY <1>1, <1>l, <1>i DEF SettledGone, ListedLater, TypeOK
<1>4. PlanPending'
  BY <1>l DEF PlanPending
<1>5. CommittedWhole'
  <2>1. CASE rows' = rows
    BY <2>1, <1>l DEF CommittedWhole
  <2>2. CASE step[t] = Len(Plan[t]) /\ rows' = [v \in Values |-> rows[v] + pending[t][v]]
    <3>1. \A v \in Values : rows[v] \in Nat /\ pending[t][v] \in Nat
      BY <1>i DEF TypeOK
    <3>2. \A v \in Values : rows'[v] = rows[v] + pending[t][v]
      BY <2>2
    <3>3. \A u \in Txns : \A i \in 1..Len(Plan[u]) : Plan[u][i] \in Values
      BY PlanAssumption
    <3>4. \A i \in 1..Len(Plan[t]) : rows'[Plan[t][i]] > 0
      BY <3>1, <3>2, <3>3, <2>2, <1>l DEF PlanPending
    <3> SUFFICES ASSUME NEW v \in Values, rows'[v] > 0
                 PROVE  \E u \in Txns : /\ \E i \in 1..Len(Plan[u]) : Plan[u][i] = v
                                        /\ \A i \in 1..Len(Plan[u]) : rows'[Plan[u][i]] > 0
      BY DEF CommittedWhole
    <3>5. CASE rows[v] > 0
      <4>1. PICK u \in Txns : /\ \E i \in 1..Len(Plan[u]) : Plan[u][i] = v
                              /\ \A i \in 1..Len(Plan[u]) : rows[Plan[u][i]] > 0
        BY <3>5, <1>l DEF CommittedWhole
      <4>2. \A i \in 1..Len(Plan[u]) : rows'[Plan[u][i]] > 0
        BY <4>1, <3>1, <3>2, <3>3
      <4> QED BY <4>1, <4>2
    <3>6. CASE pending[t][v] > 0
      <4>1. \E i \in 1..Len(Plan[t]) : Plan[t][i] = v
        BY <3>6, <2>2 DEF IInv, PendingFromPlan
      <4> QED BY <4>1, <3>4
    <3> QED BY <3>1, <3>2, <3>5, <3>6
  <2> QED BY <2>1, <2>2
<1> QED BY <1>2, <1>3, <1>4, <1>5 DEF LInv

\* What is put at the end of a list is on it.
LEMMA RangeAppended ==
  ASSUME NEW s \in Seq(Values), NEW v \in Values
  PROVE  Range(Append(s, v)) = Range(s) \union {v}
<1> DEFINE n == Len(s)
           a == Append(s, v)
<1>1. n \in Nat /\ DOMAIN s = 1..n /\ DOMAIN a = 1..(n + 1)
  OBVIOUS
<1>2. a[n + 1] = v /\ \A i \in 1..n : a[i] = s[i]
  OBVIOUS
<1>3. \A i \in 1..(n + 1) : i \in 1..n \/ i = n + 1
  BY <1>1
<1>4. n + 1 \in 1..(n + 1) /\ \A i \in 1..n : i \in 1..(n + 1)
  BY <1>1
<1> HIDE DEF a, n
<1> QED BY <1>1, <1>2, <1>3, <1>4 DEF Range, a

\* An insert that returns lists its reservation.
LEMMA ListedFresh ==
  ASSUME IInv, LInv, NEW t \in Txns, CheckFresh(t)
  PROVE  LInv'
<1>i. TypeOK
  BY DEF IInv
<1>l. Listed /\ SettledGone /\ ListedLater /\ PlanPending /\ CommittedWhole
  BY DEF LInv
<1>0. /\ step[t] \in Nat /\ Wanted(t) \in Values /\ reserved[t] \in Seq(Values)
      /\ Plan[t][step[t] + 1] = Wanted(t) /\ \A u \in Txns : step[u] \in Nat
      /\ settled[t] = "open" /\ UNCHANGED <<rows, holder, settled>>
  BY <1>i, WantedFresh DEF IInv, CheckFresh, PlanOK, InFlight, TypeOK, Wanted
<1>1. /\ reserved'[t] = Append(reserved[t], Wanted(t)) /\ step'[t] = step[t] + 1
      /\ \A u \in Txns : u # t => reserved'[u] = reserved[u] /\ step'[u] = step[u] /\ pc'[u] = pc[u]
      /\ \A u \in Txns, v \in Values :
           pending'[u][v] = IF u = t /\ v = Wanted(t) THEN pending[u][v] + 1 ELSE pending[u][v]
  BY <1>i, <1>0 DEF CheckFresh, TypeOK
<1>2. Range(reserved'[t]) = Range(reserved[t]) \union {Wanted(t)}
  BY <1>0, <1>1, RangeAppended
<1>3. Listed'
  <2> SUFFICES ASSUME NEW u \in Txns, NEW v \in Values, holder[v] = u
               PROVE  v \in Range(reserved'[u]) \/ (pc'[u] = "check" /\ v = Wanted(u)')
    BY <1>0 DEF Listed
  <2>1. v \in Range(reserved[u]) \/ (pc[u] = "check" /\ v = Wanted(u))
    BY <1>l DEF Listed
  <2>2. CASE u = t
    BY <2>1, <2>2, <1>2
  <2>3. CASE u # t
    BY <2>1, <2>3, <1>1 DEF Wanted
  <2> QED BY <2>2, <2>3
<1>4. SettledGone'
  BY <1>0, <1>1, <1>l DEF SettledGone
<1>5. ListedLater'
  BY <1>0, <1>1, <1>l DEF ListedLater
<1>6. PlanPending'
  <2> SUFFICES ASSUME NEW u \in Txns, NEW i \in 1..step'[u] PROVE pending'[u][Plan[u][i]] > 0
    BY DEF PlanPending
  <2>1. CASE i \in 1..step[u]
    <3>1. pending[u][Plan[u][i]] > 0 /\ Plan[u][i] \in Values
      <4>1. i \in 1..Len(Plan[u])
        BY <2>1, <1>0, PlanAssumption DEF IInv, PlanOK
      <4> QED BY <2>1, <4>1, <1>l, PlanAssumption DEF PlanPending
    <3>2. pending[u][Plan[u][i]] \in Nat
      BY <3>1, <1>i DEF TypeOK
    <3> QED BY <3>1, <3>2, <1>1
  <2>2. CASE i \notin 1..step[u]
    <3>1. u = t /\ i = step[t] + 1
      BY <2>2, <1>0, <1>1
    <3>2. pending[t][Wanted(t)] \in Nat
      BY <1>0, <1>i DEF TypeOK
    <3> QED BY <3>1, <3>2, <1>0, <1>1
  <2> QED BY <2>1, <2>2
<1>7. CommittedWhole'
  BY <1>0, <1>l DEF CommittedWhole
<1> QED BY <1>3, <1>4, <1>5, <1>6, <1>7 DEF LInv

\* A refusal releases what it had just acquired, and takes nothing off the list.
LEMMA ListedDuplicate ==
  ASSUME IInv, LInv, Together, NEW t \in Txns, CheckDuplicate(t)
  PROVE  LInv'
<1>i. TypeOK
  BY DEF IInv
<1>l. Listed /\ SettledGone /\ ListedLater /\ PlanPending /\ CommittedWhole
  BY DEF LInv
<1>1. reserved[t] = <<>> /\ settled[t] = "open" /\ UNCHANGED <<rows, pending, settled, step>>
  BY RefusedFirst DEF CheckDuplicate
<1>2. /\ reserved' = [reserved EXCEPT ![t] = <<>>] /\ pc' = [pc EXCEPT ![t] = "refused"]
      /\ holder' = Released(t, <<Wanted(t)>>)
  BY <1>1, SpliceEmpty DEF CheckDuplicate, Wake
<1>3. reserved' = reserved
  BY <1>1, <1>2, <1>i DEF TypeOK
<1>4. Listed'
  <2> SUFFICES ASSUME NEW u \in Txns, NEW v \in Values, holder'[v] = u
               PROVE  v \in Range(reserved'[u]) \/ (pc'[u] = "check" /\ v = Wanted(u))
    BY <1>1 DEF Listed, Wanted
  <2>0. Wanted(t) \in Range(<<Wanted(t)>>)
    BY DEF Range
  <2>1. holder[v] = u /\ ~(holder[v] = t /\ v = Wanted(t))
    BY <1>2, <2>0, SentinelAssumption DEF Released
  <2>2. v \in Range(reserved[u]) \/ (pc[u] = "check" /\ v = Wanted(u))
    BY <2>1, <1>l DEF Listed
  <2>3. u # t => pc'[u] = pc[u]
    BY <1>2, <1>i DEF TypeOK
  <2> QED BY <2>1, <2>2, <2>3, <1>3
<1>5. SettledGone'
  <2>1. \A u \in Txns : u # t => pc'[u] = pc[u]
    BY <1>2, <1>i DEF TypeOK
  <2> QED BY <2>1, <1>1, <1>3, <1>l DEF SettledGone
<1>6. ListedLater' /\ PlanPending' /\ CommittedWhole'
  BY <1>1, <1>3, <1>l DEF ListedLater, PlanPending, CommittedWhole
<1> QED BY <1>4, <1>5, <1>6 DEF LInv

\* Every step keeps it, as long as no death finds a call in flight.
LEMMA NextLInv ==
  ASSUME Together, ~KillsInFlight
  PROVE  IInv /\ LInv /\ [Next]_vars => LInv'
<1> SUFFICES ASSUME IInv, LInv, [Next]_vars PROVE LInv'
  OBVIOUS
<1>i. TypeOK
  BY DEF IInv
<1>l. Listed /\ SettledGone /\ ListedLater /\ PlanPending /\ CommittedWhole
  BY DEF LInv
<1>1. CASE UNCHANGED vars
  BY <1>1 DEF vars, LInv, Listed, Wanted, SettledGone, ListedLater, PlanPending, CommittedWhole
<1>2. ASSUME NEW t \in Txns, Resume(t) \/ Acquire(t) PROVE LInv'
  <2>1. pc[t] \in {"acquire", "waiting"} /\ \E blocked : TryAcquire(t, blocked)
    BY <1>2 DEF Resume, Acquire
  <2>2. settled[t] = "open"
    BY <2>1, <1>l DEF SettledGone
  <2>3. UNCHANGED <<rows, pending, reserved, settled, step>>
    BY <1>2 DEF Resume, Acquire
  <2> QED BY <2>1, <2>2, <2>3, ListedTry
<1>3. ASSUME NEW t \in Txns, InsertCall(t) PROVE LInv'
  <2>1. /\ pc[t] = "idle" /\ pc' = [pc EXCEPT ![t] = "acquire"] /\ settled[t] = "open"
        /\ UNCHANGED <<rows, pending, holder, reserved, settled, step>>
    BY <1>3 DEF InsertCall
  <2>2. \A u \in Txns : pc'[u] = IF u = t THEN "acquire" ELSE pc[u]
    BY <2>1, <1>i DEF TypeOK
  <2>3. Listed'
    BY <2>1, <2>2, <1>l DEF Listed, Wanted
  <2>4. SettledGone' /\ ListedLater' /\ PlanPending' /\ CommittedWhole'
    BY <2>1, <2>2, <1>l DEF SettledGone, ListedLater, PlanPending, CommittedWhole
  <2> QED BY <2>3, <2>4 DEF LInv
<1>4. ASSUME NEW t \in Txns, AcquireDead(t) \/ CheckDead(t) PROVE FALSE
  BY <1>4, <1>l DEF AcquireDead, CheckDead, SettledGone
<1>5. ASSUME NEW t \in Txns, Commit(t) \/ Rollback(t) \/ Kill(t) PROVE LInv'
  <2>1. ~InFlight(t) /\ pc' = [pc EXCEPT ![t] = "gone"] /\ UNCHANGED <<pending, waitingOn, step>>
    BY <1>5 DEF Commit, Rollback, Kill, InFlight
  <2>2. \/ rows' = rows
        \/ step[t] = Len(Plan[t]) /\ rows' = [v \in Values |-> rows[v] + pending[t][v]]
    BY <1>5 DEF Commit, Rollback, Kill
  <2>3. \E how \in Settlement \ {"open"} : Settle(t, how)
    BY <1>5 DEF Commit, Rollback, Kill, Settlement
  <2> QED BY <2>1, <2>2, <2>3, ListedSettle
<1> QED BY <1>1, <1>2, <1>3, <1>4, <1>5, ListedFresh, ListedDuplicate DEF Next, Client

\* Transaction.settle and insert's release (store.ts): a reservation never outlives
\* its transaction, when a refusal is always of a transaction's first insert and a
\* death finds no call in flight: MCStore_splice shows it fails without the former.
THEOREM StoreNoLockOutlives ==
  ASSUME Together, ~KillsInFlight
  PROVE  Spec => []NoLockOutlivesItsTransaction
<1>1. Init => LInv
  <2> SUFFICES ASSUME Init PROVE LInv
    OBVIOUS
  <2>1. Listed /\ SettledGone /\ ListedLater /\ CommittedWhole
    BY SentinelAssumption DEF Init, Listed, SettledGone, ListedLater, CommittedWhole
  <2>2. PlanPending
    BY DEF Init, PlanPending
  <2> QED BY <2>1, <2>2 DEF LInv
<1>2. IInv /\ LInv /\ [Next]_vars => LInv'
  BY NextLInv
<1>3. IInv /\ LInv => NoLockOutlivesItsTransaction
  <2> SUFFICES ASSUME IInv, LInv, NEW v \in Values, holder[v] # NoTxn
               PROVE  settled[holder[v]] = "open"
    BY DEF NoLockOutlivesItsTransaction
  <2>1. holder[v] \in Txns
    BY DEF IInv, TypeOK
  <2>2. v \in Range(reserved[holder[v]]) \/ pc[holder[v]] = "check"
    BY <2>1 DEF LInv, Listed
  <2>3. Range(<<>>) = {}
    BY DEF Range
  <2> QED BY <2>1, <2>2, <2>3 DEF LInv, SettledGone
<1> QED BY <1>1, <1>2, <1>3, StoreInvariant, PTL DEF Spec
=============================================================================
