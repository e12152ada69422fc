----------------------------- MODULE LedgerProofs -----------------------------
(***************************************************************************)
(* Theorems about Ledger, for any number of tasks and accounts and any     *)
(* programs.                                                               *)
(***************************************************************************)
EXTENDS Ledger, TLAPS

Asking == {"fetching", "fetched", "sharing"}
OfBatch == {"readFrom", "gotFrom", "writeFrom", "wroteFrom", "applied"}

\* Where a task is in its program, and what kind of call its place belongs to.
Positioned ==
  \A t \in Tasks :
    /\ callNo[t] \in 0..Len(program[t])
    /\ callNo[t] > 0 => lineNo[t] \in 1..Len(Call(t).lines)
    /\ pc[t] \notin {"new", "start", "done"} => callNo[t] > 0
    /\ pc[t] \in OfBatch => Batch(t)

\* The lock is held by whoever is Holding, its queue holds the queued.
LockInv ==
  /\ MutualExclusion
  /\ \A t \in Tasks : pc[t] \in Holding => held
QueueInv ==
  /\ \A i \in 1..Len(waiting) : pc[waiting[i]] = "queued"
  /\ \A i, j \in 1..Len(waiting) : waiting[i] = waiting[j] => i = j

\* Those who share a read are asking for the balance of that account.
SharersInv ==
  \A a \in Accounts : \A i \in 1..Len(sharers[a]) :
    pc[sharers[a][i]] \in Asking /\ Line(sharers[a][i]).to = a

\* What the holder has read is what the store has.
SourceRead(t) == \/ pc[t] = "gotFrom" /\ ~threw[t]
                 \/ pc[t] \in {"readTo", "gotTo", "writeFrom"} /\ Batch(t)
TargetRead(t) == \/ pc[t] = "gotTo" /\ ~threw[t]
                 \/ pc[t] = "writeFrom"
                 \/ /\ pc[t] = "writeTo" \/ (pc[t] = "wroteFrom" /\ ~threw[t])
                    /\ Line(t).from # Line(t).to

Current(t) == /\ SourceRead(t) => source[t] = OrZero(balances[Line(t).from])
              /\ TargetRead(t) => target[t] = OrZero(balances[Line(t).to])

DataInv == \A t \in Tasks : Current(t)

IInv == TypeOK /\ Positioned /\ LockInv /\ QueueInv /\ SharersInv /\ DataInv

-----------------------------------------------------------------------------
\* A task inside a call is at a line of it.
LEMMA LineType ==
  ASSUME TypeOK, Positioned, NEW t \in Tasks, callNo[t] > 0
  PROVE  /\ Call(t).lines \in Seq(Lines) /\ Line(t) \in Lines
         /\ Line(t).from = NoAccount <=> ~Batch(t)
         /\ Line(t).to \in Accounts /\ Line(t).amount \in Nat
         /\ Batch(t) => Line(t).from \in Accounts
<1> DEFINE s == program
<1>1. s \in Scenarios /\ callNo[t] \in 1..Len(s[t]) /\ lineNo[t] \in 1..Len(s[t][callNo[t]].lines)
  BY DEF TypeOK, Positioned, Call
<1>2. s[t] \in Seq(Calls)
  BY <1>1, ScenarioAssumption
<1>3. s[t][callNo[t]] \in Calls
  BY <1>1, <1>2
<1>4. Call(t).lines \in Seq(Lines)
  BY <1>3 DEF Calls, Call
<1>5. Line(t) \in Lines
  BY <1>1, <1>4 DEF Line, Call
<1>6. Line(t).from = NoAccount <=> ~Batch(t)
  BY <1>1, ScenarioAssumption DEF Line, Batch, Call
<1>7. QED
  BY <1>4, <1>5, <1>6, NameAssumption DEF Lines

\* A task that goes on after a call has another call to make.
LEMMA UpcomingType ==
  ASSUME TypeOK, Positioned, NEW t \in Tasks, ~Ends(t)
  PROVE  /\ callNo[t] + 1 \in 1..Len(program[t]) /\ Upcoming(t) \in Calls
         /\ 1 \in 1..Len(Upcoming(t).lines) /\ Upcoming(t).lines[1] \in Lines
         /\ Upcoming(t).lines[1].to \in Accounts
<1> DEFINE s == program
           n == callNo[t] + 1
<1>1. s \in Scenarios /\ callNo[t] \in 0..Len(s[t]) /\ callNo[t] # Len(s[t])
  BY DEF TypeOK, Positioned, Ends
<1>2. s[t] \in Seq(Calls)
  BY <1>1, ScenarioAssumption
<1>3. n \in 1..Len(s[t])
  BY <1>1, <1>2
<1>a. s[t][n] \in Calls
  BY <1>2, <1>3
<1>4. s[t][n].lines \in Seq(Lines)
  BY <1>a DEF Calls
<1>5. Len(s[t][n].lines) > 0
  BY <1>1, <1>3, ScenarioAssumption
<1>6. s[t][n].lines[1] \in Lines
  BY <1>4, <1>5
<1>7. QED
  BY <1>3, <1>a, <1>4, <1>5, <1>6 DEF Upcoming, Lines

-----------------------------------------------------------------------------

ControlType ==
  /\ held \in BOOLEAN /\ waiting \in Seq(Tasks) /\ jobs \in Seq(Tasks) /\ pc \in [Tasks -> Places]

\* The queue of jobs moves on, with some tasks put at its back.
LEMMA JobsType ==
  ASSUME jobs \in Seq(Tasks), jobs # <<>>, NEW t \in Tasks, NEW u \in Tasks,
         Then(<<>>) \/ Then(<<t>>) \/ Then(<<u, t>>)
  PROVE  jobs' \in Seq(Tasks)
<1>1. Tail(jobs) \in Seq(Tasks)
  OBVIOUS
<1>2. \A more \in Seq(Tasks) : Tail(jobs) \o more \in Seq(Tasks)
  BY <1>1
<1>3. <<>> \in Seq(Tasks) /\ <<t>> \in Seq(Tasks) /\ <<u, t>> \in Seq(Tasks)
  OBVIOUS
<1>4. \A more \in Seq(Tasks) : Then(more) => jobs' \in Seq(Tasks)
  BY <1>2 DEF Then
<1>5. QED
  BY <1>3, <1>4

\* A step of one task to `place`, with nobody else resumed.
LEMMA GotoType ==
  ASSUME TypeOK, NEW t \in Tasks, NEW place \in Places, Goto(t, place)
  PROVE  pc' \in [Tasks -> Places]
  BY DEF TypeOK, Goto

LEMMA LeaveType ==
  ASSUME TypeOK, NEW t \in Tasks, jobs # <<>>, Leave(t)
  PROVE  ControlType'
<1>1. CASE waiting = <<>>
  <2>1. held' = FALSE /\ UNCHANGED waiting /\ Goto(t, "start") /\ Then(<<t>>)
    BY <1>1 DEF Leave
  <2>2. jobs' \in Seq(Tasks)
    BY <2>1, JobsType DEF TypeOK
  <2>3. QED
    BY <2>1, <2>2, GotoType DEF TypeOK, ControlType, Places
<1>2. CASE waiting # <<>>
  <2> DEFINE next == Head(waiting)
  <2>1. /\ waiting' = Tail(waiting) /\ UNCHANGED held /\ Then(<<next, t>>)
        /\ pc' = [pc EXCEPT ![t] = "start", ![next] = "woken"]
    BY <1>2 DEF Leave
  <2>2. next \in Tasks /\ waiting' \in Seq(Tasks)
    BY <1>2, <2>1 DEF TypeOK
  <2>3. jobs' \in Seq(Tasks)
    BY <2>1, <2>2, JobsType DEF TypeOK
  <2>4. pc' \in [Tasks -> Places]
    BY <2>1, <2>2 DEF TypeOK, Places, Holding
  <2>5. QED
    BY <2>1, <2>2, <2>3, <2>4 DEF TypeOK, ControlType
<1>3. QED
  BY <1>1, <1>2

Results == {"ok", "refused", "failed"}

LEMMA ConcludeType ==
  ASSUME TypeOK, NEW t \in Tasks, Line(t) \in Lines, jobs # <<>>, NEW result \in Results, Conclude(t, result)
  PROVE  ControlType' /\ history' \in [Tasks -> Seq([line : Lines, result : Results])]
<1>1. history' \in [Tasks -> Seq([line : Lines, result : Results])]
  <2> DEFINE Entries == [line : Lines, result : Results]
             entry == [line |-> Line(t), result |-> result]
  <2>1. entry \in Entries
    OBVIOUS
  <2>2. history \in [Tasks -> Seq(Entries)]
    BY DEF TypeOK, Results
  <2>3. history' = [history EXCEPT ![t] = Append(@, entry)]
    BY DEF Conclude, Record
  <2> HIDE DEF entry, Entries
  <2>4. history' \in [Tasks -> Seq(Entries)]
    BY <2>1, <2>2, <2>3
  <2>5. QED
    BY <2>4 DEF Entries
<1>2. CASE Batch(t)
  <2>1. Goto(t, "applied") /\ Then(<<t>>) /\ UNCHANGED lockVars
    BY <1>2 DEF Conclude
  <2>2. jobs' \in Seq(Tasks)
    BY <2>1, JobsType DEF TypeOK
  <2>3. QED
    BY <1>1, <2>1, <2>2, GotoType DEF TypeOK, ControlType, lockVars, Places, Holding
<1>3. CASE ~Batch(t)
  BY <1>1, <1>3, LeaveType DEF Conclude
<1>4. QED
  BY <1>2, <1>3

\* A continuation that only starts the next store call.
LEMMA ContinueType ==
  ASSUME TypeOK, NEW t \in Tasks, jobs # <<>>, NEW place \in Places, Continue(t, place)
  PROVE  ControlType' /\ UNCHANGED history
<1>1. Goto(t, place) /\ Then(<<>>) /\ UNCHANGED <<held, waiting, history>>
  BY DEF Continue, lockVars
<1>2. jobs' \in Seq(Tasks)
  BY <1>1, JobsType DEF TypeOK
<1>3. QED
  BY <1>1, <1>2, GotoType DEF TypeOK, ControlType

LEMMA AdvanceType ==
  ASSUME TypeOK, NEW t \in Tasks, Advance(t)
  PROVE  /\ callNo' \in [Tasks -> Nat] /\ lineNo' \in [Tasks -> Nat \ {0}]
         /\ UNCHANGED <<source, target>>
<1>1. callNo \in [Tasks -> Nat] /\ lineNo \in [Tasks -> Nat \ {0}]
  BY DEF TypeOK
<1>2. callNo[t] + 1 \in Nat /\ 1 \in Nat \ {0}
  BY <1>1
<1>3. callNo' = [callNo EXCEPT ![t] = callNo[t] + 1] /\ lineNo' = [lineNo EXCEPT ![t] = 1]
  BY DEF Advance
<1>4. QED
  BY <1>1, <1>2, <1>3 DEF Advance

LEMMA TypeStep ==
  ASSUME IInv, NEW t \in Tasks, Arrive(t) \/ Settle(t) \/ Run(t)
  PROVE  TypeOK'
<1> USE DEF lockVars, readVars, localVars, seenVars, Results
<1>p. TypeOK /\ Positioned
  BY DEF IInv
<1>l. pc[t] \notin {"new", "start", "done"} => callNo[t] > 0
  BY <1>p DEF Positioned
<1>m. callNo[t] > 0 => Line(t) \in Lines /\ Line(t).to \in Accounts /\ Line(t).amount \in Nat
  BY <1>p, LineType
<1>b. callNo[t] > 0 /\ Batch(t) => Line(t).from \in Accounts
  BY <1>p, LineType
<1>t. /\ lineNo \in [Tasks -> Nat \ {0}] /\ callNo \in [Tasks -> Nat] /\ threw \in [Tasks -> BOOLEAN]
      /\ source \in [Tasks -> Int] /\ target \in [Tasks -> Int] /\ value \in [Tasks -> Int]
      /\ balances \in [Accounts -> Int \union {Unwritten}] /\ credited \in [Accounts -> Nat]
      /\ held \in BOOLEAN /\ jobs \in Seq(Tasks) /\ waiting \in Seq(Tasks) /\ failures \in 0..MaxFailures
  BY <1>p DEF TypeOK
<1>c. Returned(t) => credited' \in [Accounts -> Nat]
  <2>1. CASE callNo[t] > 0 /\ Call(t).op = "deposit" /\ ~threw[t]
    <3>1. Line(t).to \in Accounts /\ Line(t).amount \in Nat
      BY <2>1, <1>p, LineType
    <3>2. Returned(t) => credited' = [credited EXCEPT ![Line(t).to] = @ + Line(t).amount]
      BY <2>1 DEF Returned
    <3>3. \A n \in Nat : n + Line(t).amount \in Nat
      BY <3>1
    <3>4. credited[Line(t).to] + Line(t).amount \in Nat
      BY <3>1, <3>3, <1>t
    <3>5. QED
      BY <3>1, <3>2, <3>4, <1>t
  <2>2. CASE ~(callNo[t] > 0 /\ Call(t).op = "deposit" /\ ~threw[t])
    BY <2>2, <1>t DEF Returned
  <2>3. QED
    BY <2>1, <2>2
<1>s. \A seq \in Seq(Tasks) : Append(seq, t) \in Seq(Tasks)
  OBVIOUS
<1>1. CASE Arrive(t)
  <2>1. jobs' \in Seq(Tasks)
    BY <1>1, <1>p DEF Arrive, TypeOK
  <2>2. QED
    BY <2>1, <1>1, <1>p, GotoType DEF Arrive, TypeOK, Places
<1>2. CASE End(t)
  <2>1. jobs' \in Seq(Tasks)
    BY <1>2, <1>p, JobsType DEF End, Due, TypeOK
  <2>2. pc' \in [Tasks -> Places]
    BY <1>2, <1>p, GotoType DEF End, Places
  <2>3. credited' \in [Accounts -> Nat]
    BY <1>c, <1>2 DEF End
  <2>4. UNCHANGED <<program, balances, held, waiting, reads, sharers, value, callNo, lineNo, source, target,
                    threw, history, failures, floor>>
    BY <1>2 DEF End
  <2>5. QED
    BY <2>1, <2>2, <2>3, <2>4, <1>p DEF TypeOK
<1>3. CASE Acquire(t)
  <2>1. jobs' \in Seq(Tasks)
    BY <1>3, <1>p, JobsType DEF Acquire, Due, TypeOK
  <2>2. pc' \in [Tasks -> Places]
    BY <1>3, <1>p, GotoType DEF Acquire, Places, Holding
  <2>3. held' \in BOOLEAN /\ waiting' \in Seq(Tasks)
    <3>1. \/ held' = TRUE /\ UNCHANGED waiting
          \/ waiting' = Append(waiting, t) /\ UNCHANGED held
      BY <1>3 DEF Acquire
    <3>2. QED
      BY <3>1, <1>s, <1>t
  <2>4. callNo' \in [Tasks -> Nat] /\ lineNo' \in [Tasks -> Nat \ {0}] /\ UNCHANGED <<source, target>>
    <3>1. Advance(t)
      BY <1>3 DEF Acquire
    <3>2. QED
      BY <3>1, <1>p, AdvanceType
  <2>5. UNCHANGED <<program, balances, reads, sharers, value, threw, history, failures, floor>>
    BY <1>3 DEF Acquire
  <2>6. credited' \in [Accounts -> Nat]
    BY <1>c, <1>3 DEF Acquire
  <2>7. QED
    BY <2>1, <2>2, <2>3, <2>4, <2>5, <2>6, <1>p DEF TypeOK
<1>4. CASE Woken(t) \/ Enter(t)
  <2>1. jobs' \in Seq(Tasks)
    BY <1>4, <1>p, JobsType DEF Woken, Enter, Due, TypeOK
  <2>2. pc' \in [Tasks -> Places]
    BY <1>4, <1>p, GotoType DEF Woken, Enter, Places, Holding
  <2>3. UNCHANGED <<program, balances, held, waiting, reads, sharers, value, callNo, lineNo, source, target,
                    threw, history, failures, credited, floor>>
    BY <1>4 DEF Woken, Enter
  <2>4. QED
    BY <2>1, <2>2, <2>3, <1>p DEF TypeOK
<1>5. CASE SettleRead(t) \/ SettleWrite(t) \/ SettleFetch(t) \/ Reject(t)
  <2>1. jobs' \in Seq(Tasks)
    <3>1. jobs' = Append(jobs, t)
      BY <1>5 DEF SettleRead, SettleWrite, SettleFetch, Reject
    <3>2. QED
      BY <3>1, <1>s, <1>t
  <2>2. pc' \in [Tasks -> Places]
    <3>1. CASE Reject(t)
      <4>1. Resumed[pc[t]] \in Places
        BY <3>1 DEF Reject, InStore, Resumed, Places, Holding
      <4>2. QED
        BY <4>1, <3>1, <1>p, GotoType DEF Reject
    <3>2. QED
      BY <3>1, <1>5, <1>p, GotoType DEF SettleRead, SettleWrite, SettleFetch, Places, Holding
  <2>a. pc[t] \in InStore
    BY <1>5 DEF SettleRead, SettleWrite, SettleFetch, Reject, InStore
  <2>b. /\ Line(t).to \in Accounts /\ Line(t).amount \in Nat
        /\ pc[t] \in {"readFrom", "writeFrom"} => Line(t).from \in Accounts
    <3>1. pc[t] \notin {"new", "start", "done"}
      BY <2>a DEF InStore
    <3>2. pc[t] \in {"readFrom", "writeFrom"} => Batch(t)
      BY <1>p DEF Positioned, OfBatch
    <3>3. callNo[t] > 0
      BY <3>1, <1>l
    <3>4. QED
      BY <3>2, <3>3, <1>m, <1>b
  <2>c. \A a \in Accounts : OrZero(balances[a]) \in Int
    BY <1>t DEF OrZero
  <2>3. source' \in [Tasks -> Int] /\ target' \in [Tasks -> Int]
    <3>1. CASE SettleRead(t) /\ pc[t] = "readFrom"
      <4>1. source' = [source EXCEPT ![t] = OrZero(balances[Line(t).from])] /\ UNCHANGED target
        BY <3>1 DEF SettleRead
      <4>2. QED
        BY <4>1, <3>1, <2>b, <2>c, <1>t
    <3>2. CASE SettleRead(t) /\ pc[t] = "readTo"
      <4>1. target' = [target EXCEPT ![t] = OrZero(balances[Line(t).to])] /\ UNCHANGED source
        BY <3>2 DEF SettleRead
      <4>2. QED
        BY <4>1, <2>b, <2>c, <1>t
    <3>3. CASE ~SettleRead(t)
      BY <3>3, <1>5, <1>t DEF SettleWrite, SettleFetch, Reject
    <3>4. QED
      BY <3>1, <3>2, <3>3 DEF SettleRead
  <2>4. balances' \in [Accounts -> Int \union {Unwritten}]
    <3>1. CASE SettleWrite(t)
      <4>1. PICK a \in Accounts, b \in Int : balances' = [balances EXCEPT ![a] = b]
        BY <3>1, <2>b, <1>t DEF SettleWrite
      <4>2. QED
        BY <4>1, <1>t
    <3>2. CASE ~SettleWrite(t)
      BY <3>2, <1>5, <1>t DEF SettleRead, SettleFetch, Reject
    <3>3. QED
      BY <3>1, <3>2
  <2>5. value' \in [Tasks -> Int]
    <3>1. CASE SettleFetch(t)
      <4>1. value' = [value EXCEPT ![t] = OrZero(balances[Line(t).to])]
        BY <3>1 DEF SettleFetch
      <4>2. QED
        BY <4>1, <2>b, <2>c, <1>t
    <3>2. CASE ~SettleFetch(t)
      BY <3>2, <1>5, <1>t DEF SettleRead, SettleWrite, Reject
    <3>3. QED
      BY <3>1, <3>2
  <2>6. threw' \in [Tasks -> BOOLEAN] /\ failures' \in 0..MaxFailures
    <3>1. CASE Reject(t)
      <4>1. threw' = [threw EXCEPT ![t] = TRUE] /\ failures < MaxFailures /\ failures' = failures + 1
        BY <3>1 DEF Reject
      <4>2. QED
        BY <4>1, <1>t, NameAssumption
    <3>2. CASE ~Reject(t)
      BY <3>2, <1>5, <1>t DEF SettleRead, SettleWrite, SettleFetch
    <3>3. QED
      BY <3>1, <3>2
  <2>7. UNCHANGED <<program, held, waiting, reads, sharers, callNo, lineNo, history, credited, floor>>
    BY <1>5 DEF SettleRead, SettleWrite, SettleFetch, Reject
  <2>8. QED
    BY <2>1, <2>2, <2>3, <2>4, <2>5, <2>6, <2>7, <1>p DEF TypeOK
<1>6. CASE GotFrom(t) \/ GotTo(t) \/ WroteFrom(t) \/ WroteTo(t)
  <2>a. jobs # <<>> /\ pc[t] \in {"gotFrom", "gotTo", "wroteFrom", "wroteTo"}
    BY <1>6 DEF GotFrom, GotTo, WroteFrom, WroteTo, Due
  <2>1. jobs # <<>> /\ Line(t) \in Lines
    BY <2>a, <1>l, <1>m
  <2>2. (\E place \in Places : Continue(t, place)) \/ (\E result \in Results : Conclude(t, result))
    BY <1>6 DEF GotFrom, GotTo, WroteFrom, WroteTo, Places, Holding
  <2>3. ControlType' /\ history' \in [Tasks -> Seq([line : Lines, result : Results])]
    BY <2>1, <2>2, <1>p, ContinueType, ConcludeType DEF TypeOK
  <2>4. UNCHANGED <<program, balances, reads, sharers, value, callNo, lineNo, source, target, threw,
                    failures, credited, floor>>
    BY <1>6 DEF GotFrom, GotTo, WroteFrom, WroteTo
  <2>5. QED
    BY <2>3, <2>4, <1>p DEF TypeOK, ControlType
<1>7. CASE Applied(t)
  <2>1. jobs # <<>> /\ "readFrom" \in Places
    BY <1>7 DEF Applied, Due, Places, Holding
  <2>2. ControlType' /\ UNCHANGED history
    BY <2>1, <1>7, <1>p, ContinueType, LeaveType DEF Applied
  <2>3. lineNo' \in [Tasks -> Nat \ {0}]
    <3>1. lineNo' = [lineNo EXCEPT ![t] = @ + 1] \/ UNCHANGED lineNo
      BY <1>7 DEF Applied
    <3>2. lineNo[t] + 1 \in Nat \ {0}
      BY <1>t
    <3>3. QED
      BY <3>1, <3>2, <1>t
  <2>4. UNCHANGED <<program, balances, reads, sharers, value, callNo, source, target, threw,
                    failures, credited, floor>>
    BY <1>7 DEF Applied
  <2>5. QED
    BY <2>2, <2>3, <2>4, <1>p DEF TypeOK, ControlType
<1>8. CASE Balance(t)
  <2> DEFINE a == Upcoming(t).lines[1].to
  <2>1. a \in Accounts
    BY <1>8, <1>p, UpcomingType DEF Balance
  <2>2. jobs' \in Seq(Tasks)
    BY <1>8, <1>p, JobsType DEF Balance, Due, TypeOK
  <2>3. pc' \in [Tasks -> Places]
    BY <1>8, <1>p, GotoType DEF Balance, Places
  <2>4. reads' \in [Accounts -> Tasks \union {NoTask}]
    BY <2>1, <1>8, <1>p DEF Balance, TypeOK
  <2>5. sharers' \in [Accounts -> Seq(Tasks)]
    <3>1. <<t>> \in Seq(Tasks) /\ Append(sharers[a], t) \in Seq(Tasks)
      BY <2>1, <1>p DEF TypeOK
    <3>2. \/ UNCHANGED sharers
          \/ sharers' = [sharers EXCEPT ![a] = <<t>>]
          \/ sharers' = [sharers EXCEPT ![a] = Append(@, t)]
      BY <1>8 DEF Balance
    <3>3. QED
      BY <3>1, <3>2, <2>1, <1>p DEF TypeOK
  <2>6. value' \in [Tasks -> Int] /\ threw' \in [Tasks -> BOOLEAN]
    <3>1. \/ UNCHANGED <<value, threw>>
          \/ /\ reads[a] # NoTask
             /\ value' = [value EXCEPT ![t] = value[reads[a]]]
             /\ threw' = [threw EXCEPT ![t] = threw[reads[a]]]
      BY <1>8 DEF Balance
    <3>2. reads[a] # NoTask => reads[a] \in Tasks
      BY <2>1, <1>p DEF TypeOK
    <3>3. QED
      BY <3>1, <3>2, <1>t
  <2>7. floor' \in [Tasks -> Nat]
    <3>1. floor' = [floor EXCEPT ![t] = credited'[a]] /\ credited' \in [Accounts -> Nat]
      BY <1>c, <1>8 DEF Balance
    <3>2. floor \in [Tasks -> Nat]
      BY <1>p DEF TypeOK
    <3>3. QED
      BY <2>1, <3>1, <3>2
  <2>8. callNo' \in [Tasks -> Nat] /\ lineNo' \in [Tasks -> Nat \ {0}] /\ UNCHANGED <<source, target>>
    <3>1. Advance(t)
      BY <1>8 DEF Balance
    <3>2. QED
      BY <3>1, <1>p, AdvanceType
  <2>9. UNCHANGED <<program, balances, held, waiting, history, failures>>
    BY <1>8 DEF Balance
  <2>10. credited' \in [Accounts -> Nat]
    BY <1>c, <1>8 DEF Balance
  <2>11. /\ source' \in [Tasks -> Int] /\ target' \in [Tasks -> Int] /\ held' \in BOOLEAN
         /\ balances' \in [Accounts -> Int \union {Unwritten}] /\ waiting' \in Seq(Tasks)
         /\ failures' \in 0..MaxFailures
    BY <2>8, <2>9, <1>t
  <2>12. UNCHANGED <<program, history>>
    BY <2>9
  <2> HIDE DEF a
  <2>13. QED
    BY <2>2, <2>3, <2>4, <2>5, <2>6, <2>7, <2>8, <2>10, <2>11, <2>12, <1>p DEF TypeOK
<1>9. CASE Fetched(t)
  <2> DEFINE a == Line(t).to
  <2>1. a \in Accounts /\ sharers[a] \in Seq(Tasks)
    <3>1. pc[t] = "fetched"
      BY <1>9 DEF Fetched, Due
    <3>2. a \in Accounts
      BY <3>1, <1>l, <1>m
    <3>3. QED
      BY <3>2, <1>p DEF TypeOK
  <2>2. jobs' \in Seq(Tasks)
    <3>1. Tail(jobs) \in Seq(Tasks)
      BY <1>9, <1>p DEF Fetched, Due, TypeOK
    <3>2. jobs' = Tail(jobs) \o sharers[a]
      BY <1>9 DEF Fetched, Then
    <3>3. QED
      BY <3>1, <3>2, <2>1
  <2>3. sharers' \in [Accounts -> Seq(Tasks)]
    BY <2>1, <1>9, <1>p DEF Fetched, TypeOK
  <2>4. pc' \in [Tasks -> Places]
    BY <1>9, <1>p DEF Fetched, TypeOK, Places
  <2>5. value' \in [Tasks -> Int] /\ threw' \in [Tasks -> BOOLEAN]
    BY <1>9, <1>p DEF Fetched, TypeOK
  <2>6. UNCHANGED <<program, balances, held, waiting, reads, callNo, lineNo, source, target, history,
                    failures, credited, floor>>
    BY <1>9 DEF Fetched
  <2>7. QED
    BY <2>2, <2>3, <2>4, <2>5, <2>6, <1>p DEF TypeOK
<1>10. CASE Seen(t)
  <2>1. jobs' \in Seq(Tasks)
    BY <1>10, <1>p, JobsType DEF Seen, Due, TypeOK
  <2>2. pc' \in [Tasks -> Places]
    BY <1>10, <1>p, GotoType DEF Seen, Places
  <2>3. reads' \in [Accounts -> Tasks \union {NoTask}]
    BY <1>10, <1>p DEF Seen, TypeOK
  <2>4. UNCHANGED <<program, balances, held, waiting, sharers, value, callNo, lineNo, source, target, threw,
                    history, failures, credited, floor>>
    BY <1>10 DEF Seen
  <2>5. QED
    BY <2>1, <2>2, <2>3, <2>4, <1>p DEF TypeOK
<1>11. QED
  BY <1>1, <1>2, <1>3, <1>4, <1>5, <1>6, <1>7, <1>8, <1>9, <1>10 DEF Settle, Run

-----------------------------------------------------------------------------
\* Those in the queue are queued, whoever else they may be.
LEMMA WaitingType ==
  ASSUME TypeOK, QueueInv, NEW t \in Tasks, pc[t] # "queued"
  PROVE  \A i \in 1..Len(waiting) : waiting[i] \in Tasks /\ waiting[i] # t
<1>1. waiting \in Seq(Tasks)
  BY DEF TypeOK
<1>2. \A i \in 1..Len(waiting) : waiting[i] \in Tasks
  BY <1>1
<1>3. QED
  BY <1>2 DEF QueueInv

\* The mutex.  A task that only moves on keeps the lock or does without it.
LEMMA LockMove ==
  ASSUME TypeOK, LockInv, QueueInv, NEW t \in Tasks, NEW place \in Places,
         Goto(t, place), UNCHANGED <<held, waiting>>,
         pc[t] # "queued", place \in Holding => pc[t] \in Holding
  PROVE  (LockInv /\ QueueInv)'
<1>1. /\ pc'[t] = place /\ \A u \in Tasks : u # t => pc'[u] = pc[u]
  BY DEF TypeOK, Goto
<1>2. \A u \in Tasks : pc'[u] \in Holding => pc[u] \in Holding
  BY <1>1
<1>3. LockInv'
  BY <1>2 DEF LockInv, MutualExclusion
<1>4. \A i \in 1..Len(waiting) : waiting[i] \in Tasks /\ waiting[i] # t
  BY WaitingType
<1>5. QueueInv'
  BY <1>1, <1>4 DEF QueueInv
<1>6. QED
  BY <1>3, <1>5

LEMMA LockAcquire ==
  ASSUME TypeOK, LockInv, QueueInv, NEW t \in Tasks, Acquire(t)
  PROVE  (LockInv /\ QueueInv)'
<1>1. pc[t] = "start"
  BY DEF Acquire, Due
<1>2. \A i \in 1..Len(waiting) : waiting[i] \in Tasks /\ waiting[i] # t
  BY <1>1, WaitingType
<1>3. CASE ~held
  <2>1. held' = TRUE /\ Goto(t, "enter") /\ UNCHANGED waiting
    BY <1>3 DEF Acquire
  <2>2. /\ pc'[t] = "enter" /\ \A u \in Tasks : u # t => pc'[u] = pc[u]
    BY <2>1 DEF TypeOK, Goto
  <2>3. \A u \in Tasks : pc[u] \notin Holding
    BY <1>3 DEF LockInv
  <2>4. LockInv'
    BY <2>1, <2>2, <2>3 DEF LockInv, MutualExclusion
  <2>5. QueueInv'
    BY <2>1, <2>2, <1>2 DEF QueueInv
  <2>6. QED
    BY <2>4, <2>5
<1>4. CASE held
  <2>1. waiting' = Append(waiting, t) /\ Goto(t, "queued") /\ UNCHANGED held
    BY <1>4 DEF Acquire
  <2>2. /\ pc'[t] = "queued" /\ \A u \in Tasks : u # t => pc'[u] = pc[u]
    BY <2>1 DEF TypeOK, Goto
  <2>3. \A u \in Tasks : pc'[u] \in Holding => pc[u] \in Holding
    BY <2>2 DEF Holding
  <2>4. LockInv'
    BY <2>1, <2>3 DEF LockInv, MutualExclusion
  <2>5. /\ Len(waiting') = Len(waiting) + 1 /\ waiting'[Len(waiting) + 1] = t
        /\ Len(waiting) \in Nat
        /\ \A i \in 1..Len(waiting) : waiting'[i] = waiting[i]
    BY <2>1 DEF TypeOK
  <2>6. \A i \in 1..Len(waiting') : i \in 1..Len(waiting) \/ i = Len(waiting) + 1
    BY <2>5
  <2>7. QueueInv'
    BY <2>2, <2>5, <2>6, <1>2 DEF QueueInv
  <2>8. QED
    BY <2>4, <2>7
<1>5. QED
  BY <1>3, <1>4

\* Release: the lock is free, or it is the first waiter's, who leaves the queue.
LEMMA LockLeave ==
  ASSUME TypeOK, LockInv, QueueInv, NEW t \in Tasks, Leave(t), pc[t] \in Holding
  PROVE  (LockInv /\ QueueInv)'
<1>1. \A u \in Tasks : u # t => pc[u] \notin Holding
  BY DEF LockInv, MutualExclusion
<1>2. held
  BY DEF LockInv
<1>3. \A i \in 1..Len(waiting) : waiting[i] \in Tasks /\ waiting[i] # t
  BY WaitingType DEF Holding
<1>4. CASE waiting = <<>>
  <2>1. held' = FALSE /\ UNCHANGED waiting /\ Goto(t, "start")
    BY <1>4 DEF Leave
  <2>2. /\ pc'[t] = "start" /\ \A u \in Tasks : u # t => pc'[u] = pc[u]
    BY <2>1 DEF TypeOK, Goto
  <2>3. \A u \in Tasks : pc'[u] \notin Holding
    BY <2>2, <1>1 DEF Holding
  <2>4. LockInv'
    BY <2>3 DEF LockInv, MutualExclusion
  <2>5. QueueInv'
    BY <2>1, <2>2, <1>3 DEF QueueInv
  <2>6. QED
    BY <2>4, <2>5
<1>5. CASE waiting # <<>>
  <2> DEFINE next == Head(waiting)
  <2>1. /\ waiting' = Tail(waiting) /\ UNCHANGED held
        /\ pc' = [pc EXCEPT ![t] = "start", ![next] = "woken"]
    BY <1>5 DEF Leave
  <2>2. /\ next = waiting[1] /\ 1 \in 1..Len(waiting) /\ Len(waiting) \in Nat
        /\ Len(waiting') = Len(waiting) - 1
        /\ \A i \in 1..Len(waiting') : i + 1 \in 1..Len(waiting) /\ waiting'[i] = waiting[i + 1]
    <3>1. waiting \in Seq(Tasks)
      BY DEF TypeOK
    <3>2. QED
      BY <3>1, <1>5, <2>1
  <2>3. next \in Tasks /\ next # t
    BY <2>2, <1>3
  <2>4. /\ pc'[next] = "woken" /\ pc'[t] = "start"
        /\ \A u \in Tasks : u # t /\ u # next => pc'[u] = pc[u]
    BY <2>1, <2>3 DEF TypeOK
  <2>5. \A u \in Tasks : pc'[u] \in Holding => u = next
    BY <2>4, <1>1 DEF Holding
  <2>6. LockInv'
    BY <2>1, <2>5, <1>2 DEF LockInv, MutualExclusion
  <2>7. \A i \in 1..Len(waiting') : waiting'[i] # next /\ waiting'[i] # t /\ waiting'[i] \in Tasks
    <3> TAKE i \in 1..Len(waiting')
    <3>1. i + 1 # 1
      BY <2>2
    <3>2. QED
      BY <3>1, <2>2, <1>3 DEF QueueInv
  <2>8. \A i \in 1..Len(waiting') : pc'[waiting'[i]] = "queued"
    BY <2>7, <2>4, <2>2 DEF QueueInv
  <2>9. \A i, j \in 1..Len(waiting') : waiting'[i] = waiting'[j] => i = j
    <3> TAKE i, j \in 1..Len(waiting')
    <3>1. waiting'[i] = waiting'[j] => i + 1 = j + 1
      BY <2>2 DEF QueueInv
    <3>2. QED
      BY <3>1
  <2>10. QED
    BY <2>6, <2>8, <2>9 DEF QueueInv
<1>6. QED
  BY <1>4, <1>5

\* Inside the section a continuation goes on, or concludes its line.
LEMMA LockConclude ==
  ASSUME TypeOK, LockInv, QueueInv, NEW t \in Tasks, pc[t] \in Holding,
         \/ \E place \in Places : Continue(t, place)
         \/ \E result \in Results : Conclude(t, result)
  PROVE  (LockInv /\ QueueInv)'
<1> USE DEF lockVars
<1>q. pc[t] # "queued"
  BY DEF Holding
<1>1. CASE \E place \in Places : Continue(t, place)
  <2>1. PICK place \in Places : Goto(t, place) /\ UNCHANGED <<held, waiting>>
    BY <1>1 DEF Continue
  <2>2. QED
    BY <2>1, <1>q, LockMove
<1>2. CASE \E result \in Results : Conclude(t, result)
  <2>1. \/ Goto(t, "applied") /\ UNCHANGED <<held, waiting>>
        \/ Leave(t)
    BY <1>2 DEF Conclude
  <2>2. "applied" \in Places
    BY DEF Places, Holding
  <2>3. QED
    BY <2>1, <2>2, <1>q, LockMove, LockLeave
<1>3. QED
  BY <1>1, <1>2

LEMMA LockStep ==
  ASSUME IInv, NEW t \in Tasks, Arrive(t) \/ Settle(t) \/ Run(t)
  PROVE  (LockInv /\ QueueInv)'
<1> USE DEF lockVars
<1>i. TypeOK /\ LockInv /\ QueueInv /\ SharersInv
  BY DEF IInv
<1>1. CASE Arrive(t)
  <2>1. Goto(t, "start") /\ UNCHANGED <<held, waiting>> /\ pc[t] = "new"
    BY <1>1 DEF Arrive
  <2>2. "start" \in Places \ Holding
    BY DEF Places, Holding
  <2>3. QED
    BY <2>1, <2>2, <1>i, LockMove
<1>2. CASE End(t)
  <2>1. Goto(t, "done") /\ UNCHANGED <<held, waiting>> /\ pc[t] = "start"
    BY <1>2 DEF End, Due
  <2>2. "done" \in Places \ Holding
    BY DEF Places, Holding
  <2>3. QED
    BY <2>1, <2>2, <1>i, LockMove
<1>3. CASE Acquire(t)
  BY <1>3, <1>i, LockAcquire
<1>4. CASE Woken(t) \/ Enter(t)
  <2>1. PICK place \in Holding : Goto(t, place) /\ UNCHANGED <<held, waiting>> /\ pc[t] \in Holding
    BY <1>4 DEF Woken, Enter, Due, Holding
  <2>2. place \in Places /\ pc[t] # "queued"
    BY <2>1 DEF Places, Holding
  <2>3. QED
    BY <2>1, <2>2, <1>i, LockMove
<1>5. CASE SettleRead(t) \/ SettleWrite(t) \/ SettleFetch(t) \/ Reject(t)
  <2>1. pc[t] \in InStore /\ Goto(t, Resumed[pc[t]]) /\ UNCHANGED <<held, waiting>>
    BY <1>5 DEF SettleRead, SettleWrite, SettleFetch, Reject, InStore, Resumed
  <2>2. /\ Resumed[pc[t]] \in Places /\ pc[t] # "queued"
        /\ Resumed[pc[t]] \in Holding => pc[t] \in Holding
    BY <2>1 DEF InStore, Resumed, Places, Holding
  <2>3. QED
    BY <2>1, <2>2, <1>i, LockMove
<1>6. CASE GotFrom(t) \/ GotTo(t) \/ WroteFrom(t) \/ WroteTo(t)
  <2>1. pc[t] \in Holding
    BY <1>6 DEF GotFrom, GotTo, WroteFrom, WroteTo, Due, Holding
  <2>2. (\E place \in Places : Continue(t, place)) \/ (\E result \in Results : Conclude(t, result))
    BY <1>6 DEF GotFrom, GotTo, WroteFrom, WroteTo, Places, Holding, Results
  <2>3. QED
    BY <2>1, <2>2, <1>i, LockConclude
<1>7. CASE Applied(t)
  <2>1. pc[t] \in Holding /\ "readFrom" \in Places
    BY <1>7 DEF Applied, Due, Places, Holding
  <2>2. Continue(t, "readFrom") \/ Leave(t)
    BY <1>7 DEF Applied
  <2>3. QED
    BY <2>1, <2>2, <1>i, LockConclude, LockLeave
<1>8. CASE Balance(t)
  <2>1. PICK place \in {"fetching", "sharing", "seen"} :
          Goto(t, place) /\ UNCHANGED <<held, waiting>> /\ pc[t] = "start"
    BY <1>8 DEF Balance, Due
  <2>2. place \in Places \ Holding
    BY <2>1 DEF Places, Holding
  <2>3. QED
    BY <2>1, <2>2, <1>i, LockMove
<1>9. CASE Fetched(t)
  <2> DEFINE a == Line(t).to
             all == Range(sharers[a])
  <2>1. pc[t] = "fetched" /\ a \in Accounts
    <3>1. pc[t] = "fetched"
      BY <1>9 DEF Fetched, Due
    <3>2. callNo[t] > 0
      BY <3>1 DEF IInv, Positioned
    <3>3. QED
      BY <3>1, <3>2, LineType DEF IInv
  <2>2. \A u \in all : pc[u] \in Asking
    BY <2>1, <1>i DEF SharersInv, Range
  <2>3. /\ pc' = [u \in Tasks |-> IF u \in all THEN "seen" ELSE pc[u]]
        /\ UNCHANGED <<held, waiting>>
    BY <1>9 DEF Fetched
  <2>4. \A u \in Tasks : pc'[u] \in Holding => pc[u] \in Holding
    BY <2>3 DEF Holding
  <2>5. \A u \in Tasks : pc[u] = "queued" => pc'[u] = "queued"
    BY <2>2, <2>3 DEF Asking
  <2>6. LockInv'
    BY <2>3, <2>4, <1>i DEF LockInv, MutualExclusion
  <2>7. waiting \in Seq(Tasks)
    BY <1>i DEF TypeOK
  <2>8. \A i \in 1..Len(waiting) : waiting[i] \in Tasks
    BY <2>7
  <2>9. QueueInv'
    BY <2>3, <2>5, <2>8, <1>i DEF QueueInv
  <2>10. QED
    BY <2>6, <2>9
<1>10. CASE Seen(t)
  <2>1. Goto(t, "start") /\ UNCHANGED <<held, waiting>> /\ pc[t] = "seen"
    BY <1>10 DEF Seen, Due
  <2>2. "start" \in Places \ Holding
    BY DEF Places, Holding
  <2>3. QED
    BY <2>1, <2>2, <1>i, LockMove
<1>11. QED
  BY <1>1, <1>2, <1>3, <1>4, <1>5, <1>6, <1>7, <1>8, <1>9, <1>10 DEF Settle, Run

-----------------------------------------------------------------------------
\* Where the tasks are.  Most steps leave every task at the call and line it
\* was at, and send nobody into a call or a batch who was not in one.
Outside == {"new", "start", "done"}
Stay(u) == /\ pc'[u] \notin Outside => pc[u] \notin Outside
           /\ pc'[u] \in OfBatch => pc[u] \in OfBatch \/ Batch(u)

LEMMA PositionedStay ==
  ASSUME Positioned, UNCHANGED <<program, callNo, lineNo>>, \A u \in Tasks : Stay(u)
  PROVE  Positioned'
<1>1. \A u \in Tasks : (callNo'[u] = callNo[u]) /\ (lineNo'[u] = lineNo[u]) /\ (Call(u)' = Call(u))
  BY DEF Call
<1>2. \A u \in Tasks : pc'[u] \notin Outside => callNo[u] > 0
  BY DEF Positioned, Stay, Outside
<1>3. \A u \in Tasks : pc'[u] \in OfBatch => Call(u).op = "settle"
  BY DEF Positioned, Stay, Batch
<1>4. \A u \in Tasks : callNo[u] \in 0..Len(program[u]) /\ (callNo[u] > 0 => lineNo[u] \in 1..Len(Call(u).lines))
  BY DEF Positioned
<1>5. QED
  BY <1>1, <1>2, <1>3, <1>4 DEF Positioned, Batch, Outside

\* The same of one task that moves.
LEMMA GotoStay ==
  ASSUME TypeOK, NEW t \in Tasks, NEW place, Goto(t, place),
         place \in Outside \/ pc[t] \notin Outside,
         place \in OfBatch => pc[t] \in OfBatch \/ Batch(t)
  PROVE  \A u \in Tasks : Stay(u)
<1>1. /\ pc'[t] = place /\ \A u \in Tasks : u # t => pc'[u] = pc[u]
  BY DEF TypeOK, Goto
<1>2. Stay(t)
  BY <1>1 DEF Stay
<1>3. \A u \in Tasks : u # t => Stay(u)
  BY <1>1 DEF Stay
<1>4. QED
  BY <1>2, <1>3

\* A release sends one task out of its call, and one from the queue to the lock.
LEMMA LeavePlaces ==
  ASSUME TypeOK, QueueInv, NEW t \in Tasks, pc[t] # "queued", Leave(t)
  PROVE  /\ pc'[t] = "start"
         /\ \A u \in Tasks : u # t => pc'[u] = pc[u] \/ (pc[u] = "queued" /\ pc'[u] = "woken")
<1>1. CASE waiting = <<>>
  BY <1>1 DEF Leave, Goto, TypeOK
<1>2. CASE waiting # <<>>
  <2> DEFINE next == Head(waiting)
  <2>1. pc' = [pc EXCEPT ![t] = "start", ![next] = "woken"]
    BY <1>2 DEF Leave
  <2>2. waiting \in Seq(Tasks)
    BY DEF TypeOK
  <2>3. next = waiting[1] /\ 1 \in 1..Len(waiting)
    BY <1>2, <2>2
  <2>4. next \in Tasks /\ next # t /\ pc[next] = "queued"
    BY <2>3, WaitingType DEF QueueInv
  <2>5. QED
    BY <2>1, <2>4 DEF TypeOK
<1>3. QED
  BY <1>1, <1>2

LEMMA LeaveStay ==
  ASSUME TypeOK, QueueInv, NEW t \in Tasks, pc[t] # "queued", Leave(t)
  PROVE  \A u \in Tasks : Stay(u)
<1>1. /\ pc'[t] = "start"
      /\ \A u \in Tasks : u # t => pc'[u] = pc[u] \/ (pc[u] = "queued" /\ pc'[u] = "woken")
  BY LeavePlaces
<1>2. Stay(t)
  BY <1>1 DEF Stay, Outside, OfBatch
<1>3. \A u \in Tasks : u # t => Stay(u)
  BY <1>1 DEF Stay, Outside, OfBatch
<1>4. QED
  BY <1>2, <1>3

\* Beginning the next call.
LEMMA AdvancePositioned ==
  ASSUME TypeOK, Positioned, NEW t \in Tasks, ~Ends(t), Advance(t), UNCHANGED program,
         NEW place \in Places \ OfBatch, Goto(t, place)
  PROVE  Positioned' /\ Line(t)' = Upcoming(t).lines[1]
<1>1. /\ callNo'[t] = callNo[t] + 1 /\ lineNo'[t] = 1 /\ pc'[t] = place
      /\ \A u \in Tasks : u # t => callNo'[u] = callNo[u] /\ lineNo'[u] = lineNo[u] /\ pc'[u] = pc[u]
  BY DEF TypeOK, Advance, Goto
<1>2. /\ callNo[t] + 1 \in 1..Len(program[t]) /\ 1 \in 1..Len(Upcoming(t).lines)
      /\ Call(t)' = Upcoming(t)
  BY <1>1, UpcomingType DEF Call, Upcoming
<1>3. \A u \in Tasks : u # t => Call(u)' = Call(u)
  BY <1>1 DEF Call
<1>4. Line(t)' = Upcoming(t).lines[1]
  BY <1>1, <1>2 DEF Line
<1>5. QED
  BY <1>1, <1>2, <1>3, <1>4 DEF Positioned, Batch

LEMMA PositionedStep ==
  ASSUME IInv, NEW t \in Tasks, Arrive(t) \/ Settle(t) \/ Run(t)
  PROVE  Positioned'
<1> USE DEF localVars
<1>i. TypeOK /\ Positioned /\ QueueInv /\ SharersInv
  BY DEF IInv
<1>1. CASE Arrive(t) \/ End(t)
  <2>1. PICK place \in Outside : Goto(t, place) /\ UNCHANGED <<program, callNo, lineNo>>
    BY <1>1 DEF Arrive, End, Outside
  <2>2. place \notin OfBatch
    BY <2>1 DEF Outside, OfBatch
  <2>3. QED
    BY <2>1, <2>2, <1>i, GotoStay, PositionedStay
<1>2. CASE Acquire(t) \/ Balance(t)
  <2>1. ~Ends(t) /\ Advance(t) /\ UNCHANGED program
    BY <1>2 DEF Acquire, Balance
  <2>2. PICK place \in {"enter", "queued", "fetching", "sharing", "seen"} : Goto(t, place)
    BY <1>2 DEF Acquire, Balance
  <2>3. place \in Places \ OfBatch
    BY <2>2 DEF Places, Holding, OfBatch
  <2>4. QED
    BY <2>1, <2>2, <2>3, <1>i, AdvancePositioned
<1>3. CASE Woken(t)
  <2>1. Goto(t, "enter") /\ pc[t] = "woken" /\ UNCHANGED <<program, callNo, lineNo>>
    BY <1>3 DEF Woken, Due
  <2>2. QED
    BY <2>1, <1>i, GotoStay, PositionedStay DEF Outside, OfBatch
<1>4. CASE Enter(t)
  <2>1. /\ pc[t] = "enter" /\ UNCHANGED <<program, callNo, lineNo>>
        /\ Goto(t, IF Batch(t) THEN "readFrom" ELSE "readTo")
    BY <1>4 DEF Enter, Due
  <2>2. QED
    BY <2>1, <1>i, GotoStay, PositionedStay DEF Outside, OfBatch
<1>5. CASE SettleRead(t) \/ SettleWrite(t) \/ SettleFetch(t) \/ Reject(t)
  <2>1. pc[t] \in InStore /\ Goto(t, Resumed[pc[t]]) /\ UNCHANGED <<program, callNo, lineNo>>
    BY <1>5 DEF SettleRead, SettleWrite, SettleFetch, Reject, InStore, Resumed
  <2>2. pc[t] \notin Outside /\ (Resumed[pc[t]] \in OfBatch => pc[t] \in OfBatch)
    BY <2>1 DEF InStore, Resumed, Outside, OfBatch
  <2>3. QED
    BY <2>1, <2>2, <1>i, GotoStay, PositionedStay
<1>6. CASE GotFrom(t) \/ GotTo(t) \/ WroteFrom(t) \/ WroteTo(t)
  <2>1. pc[t] \notin Outside /\ pc[t] # "queued" /\ UNCHANGED <<program, callNo, lineNo>>
    BY <1>6 DEF GotFrom, GotTo, WroteFrom, WroteTo, Due, Outside
  <2>2. \/ \E place \in {"readTo", "writeFrom", "writeTo"} :
             Continue(t, place) /\ (place = "writeFrom" => Batch(t))
        \/ \E result \in Results : Conclude(t, result)
    BY <1>6 DEF GotFrom, GotTo, WroteFrom, WroteTo, Results
  <2>3. \/ \E place \in {"readTo", "writeFrom", "writeTo", "applied"} :
             Goto(t, place) /\ (place \in {"writeFrom", "applied"} => Batch(t))
        \/ Leave(t)
    BY <2>2 DEF Continue, Conclude
  <2>4. CASE Leave(t)
    BY <2>1, <2>4, <1>i, LeaveStay, PositionedStay
  <2>5. ASSUME NEW place \in {"readTo", "writeFrom", "writeTo", "applied"},
               Goto(t, place), place \in {"writeFrom", "applied"} => Batch(t)
        PROVE  Positioned'
    <3>1. place \in OfBatch => Batch(t)
      BY <2>5 DEF OfBatch
    <3>2. QED
      BY <3>1, <2>1, <2>5, <1>i, GotoStay, PositionedStay
  <2>6. QED
    BY <2>3, <2>4, <2>5
<1>7. CASE Applied(t)
  <2>1. pc[t] = "applied" /\ UNCHANGED <<program, callNo>> /\ callNo[t] > 0 /\ Batch(t)
    BY <1>7, <1>i DEF Applied, Due, Positioned, OfBatch
  <2>2. CASE Leave(t) /\ UNCHANGED lineNo
    BY <2>1, <2>2, <1>i, LeaveStay, PositionedStay
  <2>3. CASE /\ lineNo[t] < Len(Call(t).lines) /\ lineNo' = [lineNo EXCEPT ![t] = @ + 1]
             /\ Continue(t, "readFrom")
    <3>1. Goto(t, "readFrom")
      BY <2>3 DEF Continue
    <3>2. /\ lineNo'[t] = lineNo[t] + 1 /\ pc'[t] = "readFrom"
          /\ \A u \in Tasks : u # t => lineNo'[u] = lineNo[u] /\ pc'[u] = pc[u]
      BY <3>1, <2>3, <1>i DEF TypeOK, Goto
    <3>3. \A u \in Tasks : Call(u)' = Call(u) /\ callNo'[u] = callNo[u]
      BY <2>1 DEF Call
    <3>4. Call(t).lines \in Seq(Lines) /\ lineNo[t] \in 1..Len(Call(t).lines)
      BY <2>1, <1>i, LineType DEF Positioned
    <3>5. lineNo[t] + 1 \in 1..Len(Call(t).lines)
      BY <3>4, <2>3
    <3>6. QED
      BY <3>2, <3>3, <3>5, <2>1, <1>i DEF Positioned, Batch, OfBatch
  <2>4. QED
    BY <1>7, <2>2, <2>3 DEF Applied
<1>8. CASE Fetched(t)
  <2> DEFINE a == Line(t).to
             all == Range(sharers[a])
  <2>1. a \in Accounts
    <3>1. callNo[t] > 0
      BY <1>8, <1>i DEF Fetched, Due, Positioned
    <3>2. QED
      BY <3>1, <1>i, LineType
  <2>2. \A u \in all : pc[u] \in Asking
    BY <2>1, <1>i DEF SharersInv, Range
  <2>3. /\ pc' = [u \in Tasks |-> IF u \in all THEN "seen" ELSE pc[u]]
        /\ UNCHANGED <<program, callNo, lineNo>>
    BY <1>8 DEF Fetched
  <2>4. \A u \in Tasks : Stay(u)
    BY <2>2, <2>3 DEF Stay, Asking, Outside, OfBatch
  <2>5. QED
    BY <2>3, <2>4, <1>i, PositionedStay
<1>9. CASE Seen(t)
  <2>1. Goto(t, "start") /\ UNCHANGED <<program, callNo, lineNo>>
    BY <1>9 DEF Seen
  <2>2. QED
    BY <2>1, <1>i, GotoStay, PositionedStay DEF Outside, OfBatch
<1>10. QED
  BY <1>1, <1>2, <1>3, <1>4, <1>5, <1>6, <1>7, <1>8, <1>9 DEF Settle, Run

-----------------------------------------------------------------------------
\* The shared reads: nobody who awaits one is taken elsewhere.
LEMMA SharersStay ==
  ASSUME TypeOK, SharersInv, UNCHANGED sharers,
         \A u \in Tasks : pc[u] \in Asking => pc'[u] \in Asking /\ Line(u)' = Line(u)
  PROVE  SharersInv'
<1>1. \A a \in Accounts : sharers[a] \in Seq(Tasks)
  BY DEF TypeOK
<1>2. \A a \in Accounts : \A i \in 1..Len(sharers[a]) : sharers[a][i] \in Tasks
  BY <1>1
<1>3. \A a \in Accounts : \A i \in 1..Len(sharers[a]) :
        pc'[sharers[a][i]] \in Asking /\ Line(sharers[a][i])'.to = a
  BY <1>2 DEF SharersInv
<1>4. QED
  BY <1>3 DEF SharersInv

LEMMA SharersGoto ==
  ASSUME TypeOK, SharersInv, UNCHANGED <<sharers, program>>, NEW t \in Tasks, NEW place, Goto(t, place),
         pc[t] \in Asking => place \in Asking,
         \/ UNCHANGED <<callNo, lineNo>>
         \/ /\ pc[t] \notin Asking
            /\ \A u \in Tasks : u # t => callNo'[u] = callNo[u] /\ lineNo'[u] = lineNo[u]
  PROVE  SharersInv'
<1>1. /\ pc'[t] = place /\ \A u \in Tasks : u # t => pc'[u] = pc[u]
  BY DEF TypeOK, Goto
<1>2. \A u \in Tasks : pc[u] \in Asking => callNo'[u] = callNo[u] /\ lineNo'[u] = lineNo[u]
  OBVIOUS
<1>3. \A u \in Tasks : pc[u] \in Asking => Line(u)' = Line(u)
  BY <1>2 DEF Line, Call
<1>4. QED
  BY <1>1, <1>3, SharersStay

LEMMA SharersLeave ==
  ASSUME TypeOK, QueueInv, SharersInv, UNCHANGED <<sharers, program, callNo, lineNo>>,
         NEW t \in Tasks, pc[t] \notin Asking \union {"queued"}, Leave(t)
  PROVE  SharersInv'
<1>1. \A u \in Tasks : pc[u] \in Asking => pc'[u] = pc[u]
  BY LeavePlaces DEF Asking
<1>2. \A u \in Tasks : Line(u)' = Line(u)
  BY DEF Line, Call
<1>3. QED
  BY <1>1, <1>2, SharersStay

LEMMA AppendElements ==
  ASSUME NEW S, NEW s \in Seq(S), NEW e \in S
  PROVE  /\ Len(s) \in Nat /\ Len(Append(s, e)) = Len(s) + 1 /\ Append(s, e)[Len(s) + 1] = e
         /\ \A j \in 1..Len(s) : Append(s, e)[j] = s[j] /\ s[j] \in S
  OBVIOUS

LEMMA SharersStep ==
  ASSUME IInv, NEW t \in Tasks, Arrive(t) \/ Settle(t) \/ Run(t)
  PROVE  SharersInv'
<1> USE DEF localVars, readVars
<1>i. TypeOK /\ Positioned /\ QueueInv /\ SharersInv
  BY DEF IInv
<1>1. CASE Arrive(t) \/ End(t) \/ Woken(t) \/ Enter(t) \/ Seen(t)
  <2>1. CASE Seen(t)
    <3>1. pc[t] = "seen" /\ Goto(t, "start") /\ UNCHANGED <<sharers, program, callNo, lineNo>>
      BY <2>1 DEF Seen, Due
    <3>2. QED
      BY <3>1, <1>i, SharersGoto DEF Asking
  <2>2. CASE ~Seen(t)
    <3>1. /\ pc[t] \notin Asking /\ UNCHANGED <<sharers, program, callNo, lineNo>>
          /\ \E place \in Places : Goto(t, place)
      BY <2>2, <1>1 DEF Arrive, End, Woken, Enter, Due, Asking, Places, Holding
    <3>2. QED
      BY <3>1, <1>i, SharersGoto
  <2>3. QED
    BY <2>1, <2>2
<1>2. CASE Acquire(t)
  <2>1. /\ pc[t] \notin Asking /\ UNCHANGED <<sharers, program>> /\ Advance(t)
        /\ \E place \in Places : Goto(t, place)
    BY <1>2 DEF Acquire, Due, Asking, Places, Holding
  <2>2. \A u \in Tasks : u # t => callNo'[u] = callNo[u] /\ lineNo'[u] = lineNo[u]
    BY <2>1, <1>i DEF Advance, TypeOK
  <2>3. QED
    BY <2>1, <2>2, <1>i, SharersGoto
<1>3. CASE SettleRead(t) \/ SettleWrite(t) \/ SettleFetch(t) \/ Reject(t)
  <2>1. pc[t] \in InStore /\ Goto(t, Resumed[pc[t]]) /\ UNCHANGED <<sharers, program, callNo, lineNo>>
    BY <1>3 DEF SettleRead, SettleWrite, SettleFetch, Reject, InStore, Resumed
  <2>2. pc[t] \in Asking => Resumed[pc[t]] \in Asking
    BY <2>1 DEF InStore, Resumed, Asking
  <2>3. QED
    BY <2>1, <2>2, <1>i, SharersGoto
<1>4. CASE GotFrom(t) \/ GotTo(t) \/ WroteFrom(t) \/ WroteTo(t)
  <2>1. pc[t] \notin Asking \union {"queued"} /\ UNCHANGED <<sharers, program, callNo, lineNo>>
    BY <1>4 DEF GotFrom, GotTo, WroteFrom, WroteTo, Due, Asking
  <2>2. (\E place \in Places : Continue(t, place)) \/ (\E result \in Results : Conclude(t, result))
    BY <1>4 DEF GotFrom, GotTo, WroteFrom, WroteTo, Places, Holding, Results
  <2>3. (\E place \in Places : Goto(t, place)) \/ Leave(t)
    BY <2>2 DEF Continue, Conclude, Places, Holding
  <2>4. QED
    BY <2>1, <2>3, <1>i, SharersGoto, SharersLeave
<1>5. CASE Applied(t)
  <2>1. pc[t] \notin Asking \union {"queued"} /\ UNCHANGED <<sharers, program, callNo>>
    BY <1>5 DEF Applied, Due, Asking
  <2>2. CASE Leave(t) /\ UNCHANGED lineNo
    BY <2>1, <2>2, <1>i, SharersLeave
  <2>3. CASE Continue(t, "readFrom") /\ lineNo' = [lineNo EXCEPT ![t] = @ + 1]
    <3>1. Goto(t, "readFrom") /\ \A u \in Tasks : u # t => callNo'[u] = callNo[u] /\ lineNo'[u] = lineNo[u]
      BY <2>1, <2>3, <1>i DEF Continue, TypeOK
    <3>2. QED
      BY <3>1, <2>1, <1>i, SharersGoto
  <2>4. QED
    BY <1>5, <2>2, <2>3 DEF Applied
<1>6. CASE Balance(t)
  <2> DEFINE a == Upcoming(t).lines[1].to
  <2>1. pc[t] = "start" /\ ~Ends(t) /\ Advance(t) /\ UNCHANGED program
    BY <1>6 DEF Balance, Due
  <2>2. PICK place \in {"fetching", "sharing", "seen"} : Goto(t, place)
    BY <1>6 DEF Balance
  <2>3. \A u \in Tasks : u # t => callNo'[u] = callNo[u] /\ lineNo'[u] = lineNo[u]
    BY <2>1, <1>i DEF Advance, TypeOK
  <2>4. CASE UNCHANGED sharers
    BY <2>1, <2>2, <2>3, <2>4, <1>i, SharersGoto DEF Asking
  <2>5. CASE ~UNCHANGED sharers
    <3>1. a \in Accounts /\ place \in Places \ OfBatch
      BY <2>1, <2>2, <1>i, UpcomingType DEF Places, Holding, OfBatch
    <3>2. Line(t)'.to = a
      BY <3>1, <2>1, <2>2, <1>i, AdvancePositioned
    <3>3. /\ pc'[t] \in Asking
          /\ sharers' = [sharers EXCEPT ![a] = <<t>>] \/ sharers' = [sharers EXCEPT ![a] = Append(@, t)]
      BY <2>5, <1>6, <1>i DEF Balance, Goto, TypeOK, Asking
    <3>4. \A u \in Tasks : pc[u] \in Asking => pc'[u] \in Asking /\ Line(u)' = Line(u)
      BY <2>1, <2>2, <2>3, <1>i DEF Goto, TypeOK, Asking, Line, Call
    <3>5. ASSUME NEW b \in Accounts, NEW i \in 1..Len(sharers'[b])
          PROVE  \/ b = a /\ sharers'[b][i] = t
                 \/ /\ i \in 1..Len(sharers[b]) /\ sharers'[b][i] = sharers[b][i]
                    /\ sharers[b][i] \in Tasks
      <4>1. sharers[b] \in Seq(Tasks) /\ sharers \in [Accounts -> Seq(Tasks)]
        BY <1>i DEF TypeOK
      <4>2. b # a => sharers'[b] = sharers[b]
        BY <3>3, <4>1
      <4>3. sharers'[a] = <<t>> \/ sharers'[a] = Append(sharers[a], t)
        BY <3>1, <3>3, <4>1
      <4>4. CASE b # a
        BY <4>1, <4>2, <4>4, <3>5
      <4>5. CASE b = a /\ sharers'[a] = <<t>>
        BY <4>5, <3>5
      <4>6. CASE b = a /\ sharers'[a] = Append(sharers[a], t)
        <5>1. /\ Len(sharers'[b]) = Len(sharers[b]) + 1 /\ sharers'[b][Len(sharers[b]) + 1] = t
              /\ Len(sharers[b]) \in Nat
              /\ \A j \in 1..Len(sharers[b]) : sharers'[b][j] = sharers[b][j] /\ sharers[b][j] \in Tasks
          BY <4>1, <4>6, AppendElements
        <5>2. i \in 1..Len(sharers[b]) \/ i = Len(sharers[b]) + 1
          BY <5>1, <3>5
        <5>3. QED
          BY <5>1, <5>2, <4>6
      <4>7. QED
        BY <4>3, <4>4, <4>5, <4>6
    <3>6. ASSUME NEW b \in Accounts, NEW i \in 1..Len(sharers'[b])
          PROVE  pc'[sharers'[b][i]] \in Asking /\ Line(sharers[b][i])'.to = b
      <4>1. CASE b = a /\ sharers'[b][i] = t
        BY <4>1, <3>2, <3>3
      <4>2. CASE /\ i \in 1..Len(sharers[b]) /\ sharers'[b][i] = sharers[b][i]
                 /\ sharers[b][i] \in Tasks
        BY <4>2, <3>4, <1>i DEF SharersInv
      <4>3. QED
        BY <3>5, <4>1, <4>2
    <3>7. QED
      BY <3>6 DEF SharersInv
  <2>6. QED
    BY <2>4, <2>5
<1>7. CASE Fetched(t)
  <2> DEFINE a == Line(t).to
             all == Range(sharers[a])
  <2>1. a \in Accounts
    <3>1. callNo[t] > 0
      BY <1>7, <1>i DEF Fetched, Due, Positioned
    <3>2. QED
      BY <3>1, <1>i, LineType
  <2>2. /\ pc' = [u \in Tasks |-> IF u \in all THEN "seen" ELSE pc[u]]
        /\ sharers' = [sharers EXCEPT ![a] = <<>>]
        /\ UNCHANGED <<program, callNo, lineNo>>
    BY <1>7 DEF Fetched
  <2>3. \A u \in Tasks : Line(u)' = Line(u)
    BY <2>2 DEF Line, Call
  <2>4. \A u \in all : Line(u).to = a
    BY <2>1, <1>i DEF SharersInv, Range
  <2>5. sharers'[a] = <<>> /\ \A b \in Accounts : b # a => sharers'[b] = sharers[b]
    BY <2>1, <2>2, <1>i DEF TypeOK
  <2>6. ASSUME NEW b \in Accounts, NEW i \in 1..Len(sharers'[b])
        PROVE  pc'[sharers'[b][i]] \in Asking /\ Line(sharers[b][i])'.to = b
    <3>1. b # a /\ sharers'[b] = sharers[b]
      BY <2>5, <2>6
    <3>2. sharers[b] \in Seq(Tasks)
      BY <1>i DEF TypeOK
    <3>3. sharers[b][i] \in Tasks
      BY <3>1, <3>2, <2>6
    <3>4. pc[sharers[b][i]] \in Asking /\ Line(sharers[b][i]).to = b
      BY <3>1, <2>6, <1>i DEF SharersInv
    <3>5. sharers[b][i] \notin all
      BY <3>1, <3>4, <2>4
    <3>6. QED
      BY <3>1, <3>3, <3>4, <3>5, <2>2, <2>3
  <2>7. QED
    BY <2>6 DEF SharersInv
<1>8. QED
  BY <1>1, <1>2, <1>3, <1>4, <1>5, <1>6, <1>7 DEF Settle, Run

-----------------------------------------------------------------------------
\* The data of the critical section.
Touching == {"gotFrom", "readTo", "gotTo", "writeFrom", "wroteFrom", "writeTo"}

\* A step disturbs only what its own task has read: a write is made by the
\* holder, and the others hold nothing.
LEMMA CurrentOthers ==
  ASSUME TypeOK, LockInv, DataInv, NEW t \in Tasks, NEW u \in Tasks, u # t,
         pc[t] \in Holding \/ UNCHANGED balances,
         pc'[u] \in Touching =>
           /\ pc'[u] = pc[u] /\ source'[u] = source[u] /\ target'[u] = target[u] /\ threw'[u] = threw[u]
           /\ UNCHANGED program /\ callNo'[u] = callNo[u] /\ lineNo'[u] = lineNo[u]
  PROVE  Current(u)'
<1>1. CASE pc'[u] \notin Touching
  BY <1>1 DEF Current, SourceRead, TargetRead, Touching
<1>2. CASE pc'[u] \in Touching
  <2>1. pc[u] \in Holding
    BY <1>2 DEF Touching, Holding
  <2>2. UNCHANGED balances
    BY <2>1 DEF LockInv, MutualExclusion
  <2>3. Line(u)' = Line(u) /\ Call(u)' = Call(u)
    BY <1>2 DEF Line, Call
  <2>4. Current(u)
    BY DEF DataInv
  <2>5. QED
    BY <1>2, <2>2, <2>3, <2>4 DEF Current, SourceRead, TargetRead, Batch
<1>3. QED
  BY <1>1, <1>2

\* A task that does not go on inside the section has nothing to keep current.
LEMMA CurrentGoto ==
  ASSUME TypeOK, NEW t \in Tasks, NEW place, place \notin Touching, pc'[t] = place
  PROVE  Current(t)'
  BY DEF Current, SourceRead, TargetRead, Touching

\* Everybody's, for a step that changes no data and nobody else's place.
LEMMA DataGoto ==
  ASSUME TypeOK, LockInv, DataInv, NEW t \in Tasks, NEW place, Goto(t, place), place \notin Touching,
         UNCHANGED <<program, balances, source, target>>,
         \A u \in Tasks : u # t => callNo'[u] = callNo[u] /\ lineNo'[u] = lineNo[u] /\ threw'[u] = threw[u]
  PROVE  DataInv'
<1>1. /\ pc'[t] = place /\ \A u \in Tasks : u # t => pc'[u] = pc[u]
  BY DEF TypeOK, Goto
<1>2. Current(t)'
  BY <1>1, CurrentGoto
<1>3. \A u \in Tasks : u # t => Current(u)'
  BY <1>1, CurrentOthers
<1>4. QED
  BY <1>2, <1>3 DEF DataInv

LEMMA DataLeave ==
  ASSUME TypeOK, LockInv, QueueInv, DataInv, NEW t \in Tasks, pc[t] # "queued", Leave(t),
         UNCHANGED <<program, balances, source, target, threw, callNo, lineNo>>
  PROVE  DataInv'
<1>1. /\ pc'[t] = "start"
      /\ \A u \in Tasks : u # t => pc'[u] = pc[u] \/ (pc[u] = "queued" /\ pc'[u] = "woken")
  BY LeavePlaces
<1>2. Current(t)'
  BY <1>1, CurrentGoto DEF Touching
<1>3. \A u \in Tasks : u # t => (pc'[u] \in Touching => pc'[u] = pc[u])
  BY <1>1 DEF Touching
<1>4. \A u \in Tasks : u # t => Current(u)'
  BY <1>3, CurrentOthers
<1>5. QED
  BY <1>2, <1>4 DEF DataInv

\* The store settles: what was read is what is stored, and the debit is of
\* another account than the credit it stands before.
LEMMA DataSettle ==
  ASSUME TypeOK, Positioned, LockInv, DataInv, NEW t \in Tasks, Settle(t)
  PROVE  DataInv'
<1> USE DEF localVars
<1>1. pc[t] \in InStore /\ Goto(t, Resumed[pc[t]]) /\ UNCHANGED <<program, callNo, lineNo>>
  BY DEF Settle, SettleRead, SettleWrite, SettleFetch, Reject, InStore, Resumed
<1>2. /\ pc'[t] = Resumed[pc[t]] /\ \A u \in Tasks : u # t => pc'[u] = pc[u]
  BY <1>1 DEF TypeOK, Goto
<1>3. pc[t] \in Holding \/ UNCHANGED balances
  BY DEF Settle, SettleRead, SettleWrite, SettleFetch, Reject, Holding
<1>4. \A u \in Tasks : u # t => source'[u] = source[u] /\ target'[u] = target[u] /\ threw'[u] = threw[u]
  BY DEF Settle, SettleRead, SettleWrite, SettleFetch, Reject, TypeOK
<1>5. \A u \in Tasks : u # t => Current(u)'
  BY <1>1, <1>2, <1>3, <1>4, CurrentOthers
<1>6. Line(t)' = Line(t) /\ Call(t)' = Call(t) /\ Current(t)
  BY <1>1 DEF Line, Call, DataInv
<1>7. callNo[t] > 0 /\ (pc[t] \in {"readFrom", "writeFrom"} => Batch(t))
  BY <1>1 DEF Positioned, InStore, OfBatch
<1>8. Current(t)'
  <2>1. CASE Reject(t)
    <3>1. threw'[t] = TRUE /\ UNCHANGED <<balances, source, target>>
      BY <2>1 DEF Reject, TypeOK
    <3>2. QED
      BY <3>1, <1>1, <1>2, <1>6 DEF Current, SourceRead, TargetRead, InStore, Resumed, Batch
  <2>2. CASE SettleRead(t) /\ pc[t] = "readFrom"
    <3>1. source'[t] = OrZero(balances[Line(t).from]) /\ UNCHANGED balances
      BY <2>2 DEF SettleRead, TypeOK
    <3>2. QED
      BY <3>1, <2>2, <1>2, <1>6 DEF Current, SourceRead, TargetRead, Resumed
  <2>3. CASE SettleRead(t) /\ pc[t] = "readTo"
    <3>1. target'[t] = OrZero(balances[Line(t).to]) /\ UNCHANGED <<balances, source>>
      BY <2>3 DEF SettleRead, TypeOK
    <3>2. QED
      BY <3>1, <2>3, <1>2, <1>6 DEF Current, SourceRead, TargetRead, Resumed, Batch
  <2>4. CASE SettleWrite(t) /\ pc[t] = "writeFrom"
    <3>1. /\ balances' = [balances EXCEPT ![Line(t).from] = source[t] - Line(t).amount]
          /\ UNCHANGED target
      BY <2>4 DEF SettleWrite
    <3>2. Line(t).from # Line(t).to => balances'[Line(t).to] = balances[Line(t).to]
      BY <3>1, <1>7, LineType DEF TypeOK
    <3>3. target[t] = OrZero(balances[Line(t).to])
      BY <2>4, <1>6 DEF Current, TargetRead
    <3>4. pc'[t] = "wroteFrom"
      BY <2>4, <1>2 DEF Resumed
    <3>5. QED
      BY <3>1, <3>2, <3>3, <3>4, <1>6 DEF Current, SourceRead, TargetRead
  <2>5. CASE SettleFetch(t) \/ (SettleWrite(t) /\ pc[t] = "writeTo")
    <3>1. pc'[t] \in {"fetched", "wroteTo"}
      BY <2>5, <1>2 DEF SettleFetch, Resumed
    <3>2. QED
      BY <3>1, CurrentGoto DEF Touching
  <2>6. QED
    BY <2>1, <2>2, <2>3, <2>4, <2>5 DEF Settle, SettleRead, SettleWrite
<1>9. QED
  BY <1>5, <1>8 DEF DataInv

\* Going on with what was read.
LEMMA DataContinue ==
  ASSUME TypeOK, Positioned, LockInv, QueueInv, DataInv, NEW t \in Tasks,
         GotFrom(t) \/ GotTo(t) \/ WroteFrom(t) \/ WroteTo(t)
  PROVE  DataInv'
<1> USE DEF localVars
<1>1. /\ UNCHANGED <<program, balances, source, target, threw, callNo, lineNo>>
      /\ pc[t] \in {"gotFrom", "gotTo", "wroteFrom", "wroteTo"}
  BY DEF GotFrom, GotTo, WroteFrom, WroteTo, Due
<1>2. CASE \E result \in Results : Conclude(t, result)
  <2>1. Goto(t, "applied") \/ Leave(t)
    BY <1>2 DEF Conclude
  <2>2. "applied" \notin Touching
    BY DEF Touching
  <2>3. QED
    BY <2>1, <2>2, <1>1, DataGoto, DataLeave
<1>3. CASE ~\E result \in Results : Conclude(t, result)
  <2>1. /\ ~threw[t]
        /\ \/ pc[t] = "gotFrom" /\ Goto(t, "readTo")
           \/ pc[t] = "gotTo" /\ Batch(t) /\ Goto(t, "writeFrom")
           \/ pc[t] = "gotTo" /\ ~Batch(t) /\ Goto(t, "writeTo")
           \/ pc[t] = "wroteFrom" /\ Goto(t, "writeTo")
    BY <1>3 DEF GotFrom, GotTo, WroteFrom, WroteTo, Continue, Due, Results
  <2>2. \A u \in Tasks : u # t => pc'[u] = pc[u]
    BY <2>1 DEF Goto, TypeOK
  <2>3. \A u \in Tasks : u # t => Current(u)'
    BY <2>2, <1>1, CurrentOthers
  <2>4. Line(t)' = Line(t) /\ Call(t)' = Call(t) /\ Current(t)
    BY <1>1 DEF Line, Call, DataInv
  <2>5. \/ pc[t] = "gotFrom" /\ pc'[t] = "readTo"
        \/ pc[t] = "gotTo" /\ Batch(t) /\ pc'[t] = "writeFrom"
        \/ pc[t] = "gotTo" /\ ~Batch(t) /\ pc'[t] = "writeTo"
        \/ pc[t] = "wroteFrom" /\ pc'[t] = "writeTo"
    BY <2>1 DEF Goto, TypeOK
  <2>6. Current(t)'
    BY <1>1, <2>1, <2>4, <2>5 DEF Current, SourceRead, TargetRead, Batch
  <2>7. QED
    BY <2>3, <2>6 DEF DataInv
<1>4. QED
  BY <1>2, <1>3

LEMMA DataStep ==
  ASSUME IInv, NEW t \in Tasks, Arrive(t) \/ Settle(t) \/ Run(t)
  PROVE  DataInv'
<1> USE DEF localVars, readVars
<1>i. TypeOK /\ Positioned /\ LockInv /\ QueueInv /\ DataInv
  BY DEF IInv
<1>1. CASE Arrive(t) \/ End(t) \/ Woken(t) \/ Enter(t) \/ Seen(t)
  <2>1. UNCHANGED <<program, balances, source, target, threw, callNo, lineNo>>
    BY <1>1 DEF Arrive, End, Woken, Enter, Seen
  <2>2. PICK place \in {"start", "done", "enter", "readFrom", "readTo"} : Goto(t, place)
    BY <1>1 DEF Arrive, End, Woken, Enter, Seen
  <2>3. CASE place # "readTo"
    BY <2>1, <2>2, <2>3, <1>i, DataGoto DEF Touching
  <2>4. CASE place = "readTo"
    <3>1. ~Batch(t) /\ pc'[t] = "readTo"
      BY <2>2, <2>4, <1>1, <1>i DEF Arrive, End, Woken, Enter, Seen, Goto, TypeOK
    <3>2. Call(t)' = Call(t)
      BY <2>1 DEF Call
    <3>3. Current(t)'
      BY <3>1, <3>2 DEF Current, SourceRead, TargetRead, Batch
    <3>4. \A u \in Tasks : u # t => pc'[u] = pc[u]
      BY <2>2, <1>i DEF Goto, TypeOK
    <3>5. \A u \in Tasks : u # t => Current(u)'
      BY <3>4, <2>1, <1>i, CurrentOthers
    <3>6. QED
      BY <3>3, <3>5 DEF DataInv
  <2>5. QED
    BY <2>3, <2>4
<1>2. CASE Acquire(t) \/ Balance(t)
  <2>1. Advance(t) /\ UNCHANGED <<program, balances, source, target>>
    BY <1>2 DEF Acquire, Balance, Advance
  <2>2. PICK place \in {"enter", "queued", "fetching", "sharing", "seen"} : Goto(t, place)
    BY <1>2 DEF Acquire, Balance
  <2>3. \A u \in Tasks : u # t => callNo'[u] = callNo[u] /\ lineNo'[u] = lineNo[u]
    BY <2>1, <1>i DEF Advance, TypeOK
  <2>4. \A u \in Tasks : u # t => threw'[u] = threw[u]
    BY <1>2, <1>i DEF Acquire, Balance, TypeOK
  <2>5. place \notin Touching
    BY <2>2 DEF Touching
  <2>6. QED
    BY <2>1, <2>2, <2>3, <2>4, <2>5, <1>i, DataGoto
<1>3. CASE Settle(t)
  BY <1>3, <1>i, DataSettle
<1>4. CASE GotFrom(t) \/ GotTo(t) \/ WroteFrom(t) \/ WroteTo(t)
  BY <1>4, <1>i, DataContinue
<1>5. CASE Applied(t)
  <2>1. pc[t] = "applied" /\ UNCHANGED <<program, balances, source, target, threw, callNo>>
    BY <1>5 DEF Applied, Due
  <2>2. CASE Leave(t) /\ UNCHANGED lineNo
    BY <2>1, <2>2, <1>i, DataLeave
  <2>3. CASE Continue(t, "readFrom") /\ lineNo' = [lineNo EXCEPT ![t] = @ + 1]
    <3>1. Goto(t, "readFrom") /\ \A u \in Tasks : u # t => lineNo'[u] = lineNo[u]
      BY <2>3, <1>i DEF Continue, TypeOK
    <3>2. "readFrom" \notin Touching
      BY DEF Touching
    <3>3. QED
      BY <3>1, <3>2, <2>1, <1>i, DataGoto
  <2>4. QED
    BY <1>5, <2>2, <2>3 DEF Applied
<1>6. CASE Fetched(t)
  <2> DEFINE all == Range(sharers[Line(t).to])
  <2>1. /\ pc' = [u \in Tasks |-> IF u \in all THEN "seen" ELSE pc[u]]
        /\ threw' = [u \in Tasks |-> IF u \in all THEN threw[t] ELSE threw[u]]
        /\ UNCHANGED <<program, balances, source, target, callNo, lineNo>> /\ pc[t] = "fetched"
    BY <1>6 DEF Fetched, Due
  <2>2. \A u \in Tasks : pc'[u] \in Touching => pc'[u] = pc[u] /\ threw'[u] = threw[u]
    BY <2>1 DEF Touching
  <2>3. \A u \in Tasks : u # t => Current(u)'
    BY <2>1, <2>2, <1>i, CurrentOthers
  <2>4. pc'[t] \notin Touching
    BY <2>1 DEF Touching
  <2>5. Current(t)'
    BY <2>4, <1>i, CurrentGoto
  <2>6. QED
    BY <2>3, <2>5 DEF DataInv
<1>7. QED
  BY <1>1, <1>2, <1>3, <1>4, <1>5, <1>6 DEF Run

-----------------------------------------------------------------------------
LEMMA InitIInv == Init => IInv
<1> SUFFICES ASSUME Init PROVE IInv
  OBVIOUS
<1>1. TypeOK
  <2>1. 0 \in Nat /\ 1 \in Nat \ {0} /\ 0 \in Int /\ 0 \in 0..MaxFailures
    BY NameAssumption
  <2>2. <<>> \in Seq(Tasks) /\ <<>> \in Seq([line : Lines, result : {"ok", "refused", "failed"}])
    OBVIOUS
  <2>3. "new" \in Places
    BY DEF Places
  <2>4. QED
    BY <2>1, <2>2, <2>3, NameAssumption DEF Init, TypeOK
<1>2. Positioned
  <2>1. \A t \in Tasks : program[t] \in Seq(Calls)
    BY ScenarioAssumption DEF Init
  <2>2. \A t \in Tasks : 0 \in 0..Len(program[t])
    BY <2>1
  <2>3. QED
    BY <2>2 DEF Init, Positioned, OfBatch
<1>3. LockInv /\ QueueInv /\ SharersInv
  BY DEF Init, LockInv, MutualExclusion, Holding, QueueInv, SharersInv
<1>4. DataInv
  BY DEF Init, DataInv, Current, SourceRead, TargetRead
<1>5. QED
  BY <1>1, <1>2, <1>3, <1>4 DEF IInv

LEMMA NextIInv == IInv /\ [Next]_vars => IInv'
<1> SUFFICES ASSUME IInv, [Next]_vars PROVE IInv'
  OBVIOUS
<1>1. CASE Next
  <2>1. PICK t \in Tasks : Arrive(t) \/ Settle(t) \/ Run(t)
    BY <1>1 DEF Next
  <2>2. QED
    BY <2>1, TypeStep, PositionedStep, LockStep, SharersStep, DataStep DEF IInv
<1>2. CASE UNCHANGED vars
  <2> USE <1>2 DEF vars, lockVars, readVars, localVars, seenVars
  <2>1. TypeOK'
    BY DEF IInv, TypeOK
  <2>2. Positioned'
    BY DEF IInv, Positioned, Call, Batch
  <2>3. LockInv' /\ QueueInv'
    BY DEF IInv, LockInv, QueueInv, MutualExclusion
  <2>4. SharersInv'
    BY DEF IInv, SharersInv, Line, Call
  <2>5. DataInv'
    BY DEF IInv, DataInv, Current, SourceRead, TargetRead, Batch, Line, Call
  <2>6. QED
    BY <2>1, <2>2, <2>3, <2>4, <2>5 DEF IInv
<1>3. QED
  BY <1>1, <1>2

\* The invariant of the whole ledger, whatever the tasks call.
THEOREM LedgerInvariant == Spec => []IInv
<1>1. QED
  BY InitIInv, NextIInv, PTL DEF Spec

\* Every value the ledger keeps stays of its kind: what a holder subtracts and
\* adds are numbers, and every task is at a place of its own call.
THEOREM LedgerTypeOK == Spec => []TypeOK
<1>1. IInv => TypeOK
  BY DEF IInv
<1>2. QED
  BY <1>1, LedgerInvariant, PTL

\* createMutex: two calls are never inside the critical section, for any number
\* of tasks, calls, batches and rejected store calls.
THEOREM LedgerMutualExclusion == Spec => []MutualExclusion
<1>1. IInv => MutualExclusion
  BY DEF IInv, LockInv
<1>2. QED
  BY <1>1, LedgerInvariant, PTL

\* deposit and apply: every balance that is written was computed from what the
\* store holds at that moment, so that no update is lost.
THEOREM LedgerNoLostUpdate == Spec => []NoLostUpdate
<1>1. IInv => NoLostUpdate
  <2> SUFFICES ASSUME IInv, NEW t \in Tasks
               PROVE  /\ pc[t] = "writeFrom" => source[t] = OrZero(balances[Line(t).from])
                      /\ pc[t] = "writeTo" /\ Line(t).from # Line(t).to =>
                           target[t] = OrZero(balances[Line(t).to])
    BY DEF NoLostUpdate
  <2>1. Current(t)
    BY DEF IInv, DataInv
  <2>2. pc[t] = "writeFrom" => Batch(t)
    BY DEF IInv, Positioned, OfBatch
  <2>3. QED
    BY <2>1, <2>2 DEF Current, SourceRead, TargetRead
<1>2. QED
  BY <1>1, LedgerInvariant, PTL

-----------------------------------------------------------------------------
(* The abstract ledger is implemented, for transfers between two accounts. *)

\* A transfer has an account to take from and another to put to.
TwoAccounts ==
  \A s \in Scenarios : \A t \in Tasks : \A i \in 1..Len(s[t]) : \A j \in 1..Len(s[t][i].lines) :
    s[t][i].lines[j].from # s[t][i].lines[j].to

\* An exception is on its way out, and the store did reject a call.
Throwing == {"gotFrom", "gotTo", "wroteFrom", "wroteTo", "applied", "fetched", "seen", "start", "done"}
Calm == \A t \in Tasks : threw[t] => failures > 0 /\ pc[t] \in Throwing

\* A transfer past its check is covered by its source, which a debit leaves so.
Debiting(t) == pc[t] \in {"readTo", "gotTo", "writeFrom"} /\ Batch(t)
Covered(t) ==
  /\ Debiting(t) \/ InTransit(t) => source[t] >= Line(t).amount
  /\ InTransit(t) => OrZero(balances[Line(t).from]) = source[t] - Line(t).amount
Funded == \A t \in Tasks : Covered(t)

\* Nobody waits for a lock that is free.
Needed == waiting # <<>> => held

RInv == Calm /\ Funded /\ Needed

\* Where a step takes the others: a release wakes one, a read answers its sharers.
LEMMA OthersPlaces ==
  ASSUME IInv, NEW t \in Tasks, Arrive(t) \/ Settle(t) \/ Run(t), ~Fetched(t)
  PROVE  \A u \in Tasks : u # t => pc'[u] = pc[u] \/ (pc[u] = "queued" /\ pc'[u] = "woken")
<1>i. TypeOK /\ QueueInv
  BY DEF IInv
<1>1. CASE \E place : Goto(t, place)
  BY <1>1, <1>i DEF Goto, TypeOK
<1>2. CASE Leave(t) /\ pc[t] # "queued"
  BY <1>2, <1>i, LeavePlaces
<1>3. (\E place : Goto(t, place)) \/ (Leave(t) /\ pc[t] # "queued")
  <2>1. ASSUME NEW result, Conclude(t, result)
        PROVE  (\E place : Goto(t, place)) \/ Leave(t)
    BY <2>1 DEF Conclude
  <2>2. CASE GotFrom(t) \/ GotTo(t) \/ WroteFrom(t) \/ WroteTo(t) \/ Applied(t)
    <3>1. pc[t] # "queued"
      BY <2>2 DEF GotFrom, GotTo, WroteFrom, WroteTo, Applied, Due
    <3>2. \/ \E place : Continue(t, place)
          \/ \E result : Conclude(t, result)
          \/ Leave(t)
      BY <2>2 DEF GotFrom, GotTo, WroteFrom, WroteTo, Applied
    <3>. QED
      BY <2>1, <3>1, <3>2 DEF Continue
  <2>3. CASE Arrive(t) \/ Settle(t)
    BY <2>3 DEF Settle, Arrive, SettleRead, SettleWrite, SettleFetch, Reject
  <2>4. CASE End(t) \/ Acquire(t) \/ Woken(t) \/ Enter(t) \/ Balance(t) \/ Seen(t)
    BY <2>4 DEF End, Acquire, Woken, Enter, Balance, Seen
  <2>. QED
    BY <2>2, <2>3, <2>4 DEF Run
<1>. QED
  BY <1>1, <1>2, <1>3

\* An exception comes from a rejected call, and is only at the places where it is on its way.
LEMMA CalmStep ==
  ASSUME IInv, Calm, NEW t \in Tasks, Arrive(t) \/ Settle(t) \/ Run(t)
  PROVE  Calm'
<1>a. TypeOK /\ QueueInv
  BY DEF IInv
<1>b. failures \in Nat /\ MaxFailures \in Nat
  BY <1>a, NameAssumption DEF TypeOK
<1>i. TypeOK /\ QueueInv /\ failures \in Nat /\ MaxFailures \in Nat
  BY <1>a, <1>b
<1>1. CASE Fetched(t)
  <2>1. /\ pc' = [u \in Tasks |-> IF u \in Range(sharers[Line(t).to]) THEN "seen" ELSE pc[u]]
        /\ threw' = [u \in Tasks |-> IF u \in Range(sharers[Line(t).to]) THEN threw[t] ELSE threw[u]]
        /\ UNCHANGED failures
    BY <1>1 DEF Fetched
  <2>. QED
    BY <2>1 DEF Calm, Throwing
<1>2. CASE Reject(t)
  <2>1. /\ failures' = failures + 1 /\ Resumed[pc[t]] \in Throwing
        /\ \A u \in Tasks : u # t => pc'[u] = pc[u] /\ threw'[u] = threw[u]
        /\ pc'[t] = Resumed[pc[t]]
    BY <1>2, <1>i DEF Reject, Goto, InStore, Resumed, Throwing, TypeOK
  <2>. QED
    BY <2>1, <1>i DEF Calm
<1>3. CASE Balance(t)
  <2>1. /\ UNCHANGED failures /\ ~threw[t]
        /\ \A u \in Tasks : u # t => pc'[u] = pc[u] /\ threw'[u] = threw[u]
    BY <1>3, <1>i DEF Balance, Goto, Ends, TypeOK
  <2>2. CASE UNCHANGED threw
    BY <2>1, <2>2 DEF Calm
  <2>3. CASE ~UNCHANGED threw
    <3>. DEFINE owner == reads[Upcoming(t).lines[1].to]
    <3>1. Goto(t, "seen") /\ threw' = [threw EXCEPT ![t] = threw[owner]] /\ owner # NoTask
      BY <1>3, <2>3 DEF Balance
    <3>2. owner \in Tasks
      <4>1. ~Ends(t)
        BY <1>3 DEF Balance
      <4>. QED
        BY <3>1, <4>1, <1>i, UpcomingType DEF IInv, TypeOK
    <3>3. pc'[t] = "seen" /\ (threw'[t] => failures > 0)
      BY <3>1, <3>2, <1>i DEF Goto, Calm, TypeOK
    <3>. QED
      BY <2>1, <3>3 DEF Calm, Throwing
  <2>. QED
    BY <2>2, <2>3
<1>4. CASE ~Fetched(t) /\ ~Reject(t) /\ ~Balance(t)
  <2>1. UNCHANGED <<threw, failures>>
    BY <1>4 DEF Run, Settle, Arrive, SettleRead, SettleWrite, SettleFetch, End, Acquire,
       Woken, Enter, GotFrom, GotTo, WroteFrom, WroteTo, Applied, Seen
  <2>2. \A u \in Tasks : u # t => pc'[u] = pc[u] \/ (pc[u] = "queued" /\ pc'[u] = "woken")
    BY <1>4, OthersPlaces
  <2>3. \A u \in Tasks : u # t /\ threw[u] => pc'[u] \in Throwing
    BY <2>2 DEF Calm, Throwing
  <2>4. threw[t] => pc'[t] \in Throwing
    <3>. SUFFICES ASSUME threw[t] PROVE pc'[t] \in Throwing
      OBVIOUS
    <3>1. pc[t] \in Throwing
      BY DEF Calm
    <3>2. CASE \E place \in Throwing : Goto(t, place)
      BY <3>2, <1>i DEF Goto, TypeOK
    <3>3. CASE Leave(t) /\ pc[t] # "queued"
      BY <3>3, <1>i, LeavePlaces DEF Throwing
    <3>4. End(t) \/ Seen(t) => \E place \in Throwing : Goto(t, place)
      BY DEF End, Seen, Throwing
    <3>5. GotFrom(t) \/ GotTo(t) \/ WroteFrom(t) \/ WroteTo(t) \/ Applied(t) =>
            Leave(t) \/ Goto(t, "applied")
      BY DEF GotFrom, GotTo, WroteFrom, WroteTo, Applied, Conclude
    <3>6. "applied" \in Throwing /\ pc[t] # "queued"
      BY <3>1 DEF Throwing
    <3>7. ~(Arrive(t) \/ Settle(t) \/ Acquire(t) \/ Woken(t) \/ Enter(t))
      BY <1>4, <3>1 DEF Arrive, Settle, SettleRead, SettleWrite, SettleFetch, Acquire, Woken, Enter,
                        Ends, Due, Throwing
    <3>. QED
      BY <1>4, <3>2, <3>3, <3>4, <3>5, <3>6, <3>7 DEF Run
  <2>. QED
    BY <2>1, <2>3, <2>4 DEF Calm
<1>. QED
  BY <1>1, <1>2, <1>3, <1>4

\* A release with somebody waiting hands the lock over, so that it stays held.
LEMMA NeededStep ==
  ASSUME IInv, Needed, NEW t \in Tasks, Arrive(t) \/ Settle(t) \/ Run(t)
  PROVE  Needed'
<1>1. CASE UNCHANGED lockVars
  BY <1>1 DEF lockVars, Needed
<1>2. CASE Acquire(t)
  BY <1>2 DEF Acquire, Needed
<1>3. CASE Leave(t)
  BY <1>3 DEF Leave, Needed, IInv, TypeOK
<1>. QED
  BY <1>1, <1>2, <1>3 DEF Run, Settle, Arrive, SettleRead, SettleWrite, SettleFetch, Reject, End,
     Woken, Enter, GotFrom, GotTo, WroteFrom, WroteTo, Applied, Balance, Seen, Conclude, Continue,
     Fetched

-----------------------------------------------------------------------------
\* A step leaves alone what the others have in hand inside the section.
LEMMA OthersStay ==
  ASSUME IInv, NEW t \in Tasks, Arrive(t) \/ Settle(t) \/ Run(t)
  PROVE  /\ UNCHANGED program
         /\ pc[t] \in Holding \/ UNCHANGED balances
         /\ \A u \in Tasks : u # t =>
              /\ callNo'[u] = callNo[u] /\ lineNo'[u] = lineNo[u]
              /\ source'[u] = source[u] /\ history'[u] = history[u]
              /\ pc[u] \in Holding \/ pc'[u] \in Holding \ {"woken"} =>
                   pc'[u] = pc[u] /\ threw'[u] = threw[u]
<1> USE DEF localVars
<1>i. TypeOK /\ SharersInv
  BY DEF IInv
<1>1. UNCHANGED program
  BY DEF Run, Settle, Arrive, SettleRead, SettleWrite, SettleFetch, Reject, End, Acquire, Woken,
     Enter, GotFrom, GotTo, WroteFrom, WroteTo, Applied, Balance, Fetched, Seen
<1>2. pc[t] \in Holding \/ UNCHANGED balances
  BY DEF Run, Settle, Arrive, SettleRead, SettleWrite, SettleFetch, Reject, End, Acquire, Woken,
     Enter, GotFrom, GotTo, WroteFrom, WroteTo, Applied, Balance, Fetched, Seen, Holding
<1>3. \A u \in Tasks : u # t => callNo'[u] = callNo[u] /\ lineNo'[u] = lineNo[u]
  <2>1. \/ UNCHANGED <<callNo, lineNo>>
        \/ Advance(t)
        \/ UNCHANGED callNo /\ lineNo' = [lineNo EXCEPT ![t] = @ + 1]
    BY DEF Run, Settle, Arrive, SettleRead, SettleWrite, SettleFetch, Reject, End, Acquire, Woken,
       Enter, GotFrom, GotTo, WroteFrom, WroteTo, Applied, Balance, Fetched, Seen
  <2>. QED
    BY <2>1, <1>i DEF Advance, TypeOK
<1>4. \A u \in Tasks : u # t => source'[u] = source[u]
  <2>1. UNCHANGED source \/ SettleRead(t)
    BY DEF Run, Settle, Arrive, SettleWrite, SettleFetch, Reject, End, Acquire, Woken, Advance,
       Enter, GotFrom, GotTo, WroteFrom, WroteTo, Applied, Balance, Fetched, Seen
  <2>. QED
    BY <2>1, <1>i DEF SettleRead, TypeOK
<1>5. \A u \in Tasks : u # t => history'[u] = history[u]
  <2>1. UNCHANGED history \/ \E result : Record(t, result)
    BY DEF Run, Settle, Arrive, SettleRead, SettleWrite, SettleFetch, Reject, End, Acquire, Woken,
       Enter, GotFrom, GotTo, WroteFrom, WroteTo, Applied, Balance, Fetched, Seen, Continue, Conclude
  <2>. QED
    BY <2>1, <1>i DEF Record, TypeOK
<1>6. ASSUME NEW u \in Tasks, u # t, pc[u] \in Holding \/ pc'[u] \in Holding \ {"woken"}
      PROVE  pc'[u] = pc[u] /\ threw'[u] = threw[u]
  <2>1. CASE Fetched(t)
    <3> DEFINE all == Range(sharers[Line(t).to])
    <3>1. /\ pc' = [v \in Tasks |-> IF v \in all THEN "seen" ELSE pc[v]]
          /\ threw' = [v \in Tasks |-> IF v \in all THEN threw[t] ELSE threw[v]]
          /\ pc[t] = "fetched"
      BY <2>1 DEF Fetched, Due
    <3>2. Line(t).to \in Accounts
      <4>1. callNo[t] > 0
        BY <3>1 DEF IInv, Positioned
      <4>. QED
        BY <4>1, LineType DEF IInv
    <3>3. \A v \in all : pc[v] \in Asking
      <4>1. sharers[Line(t).to] \in Seq(Tasks)
        BY <3>2, <1>i DEF TypeOK
      <4>2. \A v \in all : \E i \in 1..Len(sharers[Line(t).to]) : v = sharers[Line(t).to][i]
        BY <4>1 DEF Range
      <4>. QED
        BY <3>2, <4>2, <1>i DEF SharersInv
    <3>4. u \notin all
      BY <3>1, <3>3, <1>6 DEF Asking, Holding
    <3>. QED
      BY <3>1, <3>4
  <2>2. CASE ~Fetched(t)
    <3>1. pc'[u] = pc[u] \/ (pc[u] = "queued" /\ pc'[u] = "woken")
      BY <2>2, <1>6, OthersPlaces
    <3>2. pc'[u] = pc[u]
      BY <3>1, <1>6 DEF Holding
    <3>3. UNCHANGED threw \/ \E x : threw' = [threw EXCEPT ![t] = x]
      BY <2>2 DEF Run, Settle, Arrive, SettleRead, SettleWrite, SettleFetch, Reject, End, Acquire, Woken,
         Enter, GotFrom, GotTo, WroteFrom, WroteTo, Applied, Balance, Seen
    <3>. QED
      BY <3>2, <3>3, <1>6, <1>i DEF TypeOK
  <2>. QED
    BY <2>1, <2>2
<1>. QED
  BY <1>1, <1>2, <1>3, <1>4, <1>5, <1>6

\* Where a step of the section takes its task.
LEMMA OwnPlace ==
  ASSUME IInv, NEW t \in Tasks, Arrive(t) \/ Settle(t) \/ Run(t)
  PROVE  \/ /\ pc'[t] \notin {"readTo", "gotTo", "writeFrom", "wroteFrom", "writeTo", "wroteTo"}
            /\ UNCHANGED balances
         \/ pc'[t] = "readTo" /\ Enter(t) /\ ~Batch(t)
         \/ pc'[t] = "readTo" /\ GotFrom(t) /\ ~threw[t] /\ source[t] >= Line(t).amount
         \/ pc'[t] = "gotTo" /\ Settle(t) /\ pc[t] = "readTo" /\ UNCHANGED <<balances, source>>
         \/ pc'[t] = "writeFrom" /\ GotTo(t) /\ Batch(t)
         \/ pc'[t] = "writeTo" /\ GotTo(t) /\ ~Batch(t)
         \/ pc'[t] = "wroteFrom" /\ Settle(t) /\ pc[t] = "writeFrom"
         \/ pc'[t] = "writeTo" /\ WroteFrom(t) /\ ~threw[t]
         \/ pc'[t] = "wroteTo" /\ Settle(t) /\ pc[t] = "writeTo"
<1>i. TypeOK /\ QueueInv
  BY DEF IInv
<1>p. \A place : Goto(t, place) => pc'[t] = place
  BY <1>i DEF Goto, TypeOK
<1>l. Leave(t) /\ pc[t] # "queued" => pc'[t] = "start"
  BY <1>i, LeavePlaces
<1>c. ASSUME NEW result, Conclude(t, result), pc[t] # "queued"
      PROVE  pc'[t] \in {"start", "applied"}
  BY <1>c, <1>p, <1>l DEF Conclude
<1>1. CASE Settle(t)
  <2>1. pc'[t] = Resumed[pc[t]] /\ pc[t] \in InStore
    BY <1>1, <1>p DEF Settle, SettleRead, SettleWrite, SettleFetch, Reject, InStore, Resumed
  <2>2. pc[t] = "readTo" => UNCHANGED <<balances, source>>
    BY <1>1 DEF Settle, SettleRead, SettleWrite, SettleFetch, Reject, localVars
  <2>3. pc[t] \in {"readFrom", "fetching"} => UNCHANGED balances
    BY <1>1 DEF Settle, SettleRead, SettleWrite, SettleFetch, Reject
  <2>. QED
    BY <1>1, <2>1, <2>2, <2>3 DEF Resumed, InStore
<1>2. CASE Arrive(t) \/ End(t) \/ Acquire(t) \/ Woken(t) \/ Balance(t) \/ Seen(t)
  BY <1>2, <1>p DEF Arrive, End, Acquire, Woken, Balance, Seen
<1>3. CASE Enter(t)
  BY <1>3, <1>p DEF Enter
<1>4. CASE Fetched(t)
  <2>1. pc'[t] \in {"seen", "fetched"} /\ UNCHANGED balances
    BY <1>4 DEF Fetched, Due
  <2>. QED
    BY <2>1
<1>5. CASE Applied(t)
  BY <1>5, <1>p, <1>l DEF Applied, Due, Continue
<1>6. CASE GotFrom(t)
  BY <1>6, <1>p, <1>c DEF GotFrom, Due, Continue
<1>7. CASE GotTo(t)
  BY <1>7, <1>p, <1>c DEF GotTo, Due, Continue
<1>8. CASE WroteFrom(t)
  BY <1>8, <1>p, <1>c DEF WroteFrom, Due, Continue
<1>9. CASE WroteTo(t)
  BY <1>9, <1>c DEF WroteTo, Due
<1>. QED
  BY <1>1, <1>2, <1>3, <1>4, <1>5, <1>6, <1>7, <1>8, <1>9 DEF Run

\* What a transfer has checked and debited stays covered until its credit lands.
LEMMA FundedStep ==
  ASSUME IInv, Calm, Funded, NEW t \in Tasks, Arrive(t) \/ Settle(t) \/ Run(t)
  PROVE  Funded'
<1> USE DEF localVars
<1>i. TypeOK /\ Positioned /\ LockInv /\ DataInv
  BY DEF IInv
<1>1. ASSUME NEW u \in Tasks, u # t
      PROVE  Covered(u)'
  <2>1. CASE pc'[u] \in Holding \ {"woken"}
    <3>1. pc'[u] = pc[u] /\ threw'[u] = threw[u] /\ source'[u] = source[u]
      BY <2>1, <1>1, OthersStay
    <3>2. Line(u)' = Line(u) /\ Batch(u)' = Batch(u)
      BY <1>1, OthersStay DEF Line, Batch, Call
    <3>3. UNCHANGED balances
      BY <2>1, <3>1, <1>1, <1>i, OthersStay DEF LockInv, MutualExclusion
    <3>. QED
      BY <3>1, <3>2, <3>3 DEF Funded, Covered, Debiting, InTransit
  <2>2. CASE pc'[u] \notin Holding \ {"woken"}
    BY <2>2 DEF Covered, Debiting, InTransit, Holding
  <2>. QED
    BY <2>1, <2>2
<1>2. Covered(t)'
  <2>1. CASE pc'[t] \notin {"readTo", "gotTo", "writeFrom", "wroteFrom", "writeTo"}
    BY <2>1 DEF Covered, Debiting, InTransit
  <2>2. CASE pc'[t] \in {"readTo", "gotTo", "writeFrom", "wroteFrom", "writeTo"}
    <3>1. UNCHANGED <<program, callNo, lineNo>>
      BY <2>2, OwnPlace DEF Enter, GotFrom, GotTo, WroteFrom, Settle, SettleRead, SettleWrite,
                            SettleFetch, Reject
    <3>2. Line(t)' = Line(t) /\ Batch(t)' = Batch(t)
      BY <3>1 DEF Line, Batch, Call
    <3>3. CASE ~Batch(t)
      BY <3>2, <3>3 DEF Covered, Debiting, InTransit
    <3>4. CASE pc'[t] = "readTo" /\ Batch(t)
      <4>1. source[t] >= Line(t).amount /\ UNCHANGED source
        BY <3>4, OwnPlace DEF GotFrom
      <4>. QED
        BY <3>2, <3>4, <4>1 DEF Covered, Debiting, InTransit
    <3>5. CASE pc'[t] \in {"gotTo", "writeFrom"} /\ Batch(t)
      <4>1. pc[t] \in {"readTo", "gotTo"} /\ UNCHANGED source
        BY <3>5, OwnPlace DEF GotTo, Due
      <4>. QED
        BY <3>2, <3>5, <4>1 DEF Funded, Covered, Debiting, InTransit
    <3>6. CASE pc'[t] = "wroteFrom" /\ Batch(t)
      <4>1. Settle(t) /\ pc[t] = "writeFrom"
        BY <3>6, OwnPlace
      <4>2. source[t] >= Line(t).amount
        BY <4>1, <3>6 DEF Funded, Covered, Debiting
      <4>3. CASE Reject(t)
        <5>1. threw'[t] = TRUE
          BY <4>3, <1>i DEF Reject, TypeOK
        <5>. QED
          BY <5>1, <3>6 DEF Covered, Debiting, InTransit
      <4>4. CASE SettleWrite(t)
        <5>1. /\ balances' = [balances EXCEPT ![Line(t).from] = source[t] - Line(t).amount]
              /\ UNCHANGED source
          BY <4>1, <4>4 DEF SettleWrite
        <5>2. Line(t).from \in Accounts /\ Line(t).amount \in Nat /\ source[t] \in Int
          <6>1. callNo[t] > 0
            BY <4>1, <1>i DEF Positioned
          <6>. QED
            BY <6>1, <3>6, <1>i, LineType DEF TypeOK
        <5>3. balances'[Line(t).from] = source[t] - Line(t).amount
          BY <5>1, <5>2, <1>i DEF TypeOK
        <5>4. OrZero(balances'[Line(t).from]) = source[t] - Line(t).amount
          BY <5>2, <5>3, NameAssumption DEF OrZero
        <5>5. source'[t] = source[t]
          BY <5>1
        <5>. QED
          BY <3>2, <3>6, <4>2, <5>4, <5>5 DEF Covered, Debiting, InTransit
      <4>. QED
        BY <4>1, <4>3, <4>4 DEF Settle, SettleRead, SettleFetch
    <3>7. CASE pc'[t] = "writeTo" /\ Batch(t)
      <4>1. pc[t] = "wroteFrom" /\ ~threw[t] /\ UNCHANGED <<source, balances, threw>>
        BY <3>7, OwnPlace DEF WroteFrom, Due
      <4>. QED
        BY <3>2, <3>7, <4>1 DEF Funded, Covered, Debiting, InTransit
    <3>. QED
      BY <2>2, <3>3, <3>4, <3>5, <3>6, <3>7
  <2>. QED
    BY <2>1, <2>2
<1>. QED
  BY <1>1, <1>2 DEF Funded

\* The ledger starts with no exception, no transfer under way and nobody waiting.
LEMMA InitRInv == Init => RInv
<1> SUFFICES ASSUME Init PROVE RInv
  OBVIOUS
<1>1. Calm /\ Needed
  BY DEF Init, Calm, Needed
<1>2. Funded
  BY DEF Init, Funded, Covered, Debiting, InTransit
<1>. QED
  BY <1>1, <1>2 DEF RInv

\* Every step keeps it.
LEMMA NextRInv == IInv /\ RInv /\ [Next]_vars => RInv'
<1> SUFFICES ASSUME IInv, RInv, [Next]_vars PROVE RInv'
  OBVIOUS
<1>1. CASE Next
  <2>1. PICK t \in Tasks : Arrive(t) \/ Settle(t) \/ Run(t)
    BY <1>1 DEF Next
  <2>. QED
    BY <2>1, CalmStep, FundedStep, NeededStep DEF RInv
<1>2. CASE UNCHANGED vars
  <2> USE <1>2 DEF vars, lockVars, localVars
  <2>1. Calm' /\ Needed'
    BY DEF RInv, Calm, Needed
  <2>2. Funded'
    BY DEF RInv, Funded, Covered, Debiting, InTransit, Batch, Line, Call
  <2>. QED
    BY <2>1, <2>2 DEF RInv
<1>. QED
  BY <1>1, <1>2

\* So it holds at all times.
LEMMA LedgerFunded == Spec => [](IInv /\ RInv)
<1>1. QED
  BY InitRInv, NextRInv, LedgerInvariant, PTL DEF Spec

-----------------------------------------------------------------------------
\* At most one transfer is on its way, and the books put its debit back.
LEMMA BooksOf ==
  ASSUME NEW t \in Tasks, \A u \in Tasks : u # t => ~InTransit(u)
  PROVE  Books = [a \in Accounts |->
                   IF InTransit(t) /\ Line(t).from = a THEN OrZero(balances[a]) + Line(t).amount
                   ELSE OrZero(balances[a])]
<1>1. CASE InTransit(t)
  <2>1. (CHOOSE u \in Tasks : InTransit(u)) = t
    BY <1>1
  <2>. QED
    BY <1>1, <2>1 DEF Books
<1>2. CASE ~InTransit(t)
  BY <1>2 DEF Books
<1>. QED
  BY <1>1, <1>2

\* The same of the books after a step.
LEMMA BooksNext ==
  ASSUME NEW t \in Tasks, \A u \in Tasks : u # t => ~InTransit(u)'
  PROVE  Books' = [a \in Accounts |->
                    IF InTransit(t)' /\ Line(t)'.from = a THEN OrZero(balances'[a]) + Line(t)'.amount
                    ELSE OrZero(balances'[a])]
<1>1. CASE InTransit(t)'
  <2>1. (CHOOSE u \in Tasks : InTransit(u)') = t
    BY <1>1
  <2>. QED
    BY <1>1, <2>1 DEF Books
<1>2. CASE ~InTransit(t)'
  BY <1>2 DEF Books
<1>. QED
  BY <1>1, <1>2

\* Whoever holds the lock is the only one in transit.
LEMMA AloneInTransit ==
  ASSUME MutualExclusion, NEW t \in Tasks, pc[t] \in Holding
  PROVE  \A u \in Tasks : u # t => ~InTransit(u)
BY DEF MutualExclusion, InTransit, Holding

\* A step that moves no money and nobody's debit leaves the books.
LEMMA BooksSame ==
  ASSUME IInv, NEW t \in Tasks, Arrive(t) \/ Settle(t) \/ Run(t), UNCHANGED balances,
         InTransit(t)' <=> InTransit(t), InTransit(t) => Line(t)' = Line(t)
  PROVE  Books' = Books
<1>i. TypeOK /\ LockInv
  BY DEF IInv
<1>1. \A u \in Tasks : u # t => (InTransit(u)' <=> InTransit(u)) /\ Line(u)' = Line(u)
  <2> SUFFICES ASSUME NEW u \in Tasks, u # t
               PROVE  (InTransit(u)' <=> InTransit(u)) /\ Line(u)' = Line(u)
    OBVIOUS
  <2>1. Line(u)' = Line(u) /\ Batch(u)' = Batch(u)
    BY OthersStay DEF Line, Batch, Call
  <2>2. CASE pc[u] \in Holding \/ pc'[u] \in Holding \ {"woken"}
    BY <2>1, <2>2, OthersStay DEF InTransit
  <2>3. CASE ~(pc[u] \in Holding \/ pc'[u] \in Holding \ {"woken"})
    <3>1. ~InTransit(u) /\ ~InTransit(u)'
      BY <2>3 DEF InTransit, Holding
    <3>. QED
      BY <3>1, <2>1
  <2>. QED
    BY <2>2, <2>3
<1>2. CASE \E u \in Tasks : InTransit(u)
  <2>1. PICK h \in Tasks : InTransit(h)
    BY <1>2
  <2>2. \A u \in Tasks : u # h => ~InTransit(u)
    BY <2>1, <1>i, AloneInTransit DEF LockInv, InTransit, Holding
  <2>3. InTransit(h)' /\ Line(h)' = Line(h) /\ \A u \in Tasks : u # h => ~InTransit(u)'
    BY <2>1, <2>2, <1>1
  <2>. QED
    BY <2>1, <2>2, <2>3, BooksOf, BooksNext
<1>3. CASE ~\E u \in Tasks : InTransit(u)
  <2>1. \A u \in Tasks : ~InTransit(u)'
    BY <1>1, <1>3
  <2>2. Books = [a \in Accounts |-> OrZero(balances[a])]
    BY <1>3 DEF Books
  <2>3. Books' = [a \in Accounts |-> OrZero(balances'[a])]
    BY <2>1 DEF Books
  <2>. QED
    BY <2>2, <2>3
<1>. QED
  BY <1>2, <1>3

\* What the others have been told stays, in step t.
LEMMA HistorySame ==
  ASSUME IInv, NEW t \in Tasks, Arrive(t) \/ Settle(t) \/ Run(t)
  PROVE  History' = [History EXCEPT ![t] = History'[t]]
<1>1. ASSUME NEW u \in Tasks, u # t
      PROVE  History'[u] = History[u]
  <2>1. Line(u)' = Line(u) /\ history'[u] = history[u]
    BY <1>1, OthersStay DEF Line, Call
  <2>2. CASE pc[u] \in Holding \/ pc'[u] \in Holding \ {"woken"}
    <3>1. pc'[u] = pc[u] /\ threw'[u] = threw[u]
      BY <2>2, <1>1, OthersStay
    <3>2. Outcome(u)' = Outcome(u)
      BY <2>1, <3>1 DEF Outcome
    <3>. QED
      BY <2>1, <3>1, <3>2 DEF History
  <2>3. CASE ~(pc[u] \in Holding \/ pc'[u] \in Holding \ {"woken"})
    BY <2>3, <2>1 DEF History, Holding
  <2>. QED
    BY <2>2, <2>3
<1>2. History' = [u \in Tasks |-> History'[u]] /\ DOMAIN History = Tasks
  BY DEF History
<1>. QED
  BY <1>1, <1>2 DEF History

Mapped == Atomic!Next \/ UNCHANGED <<Books, History>>

\* A step of a line's that tells nothing and moves nothing.
LEMMA StillStep ==
  ASSUME IInv, NEW t \in Tasks, Arrive(t) \/ Settle(t) \/ Run(t), UNCHANGED Books,
         History'[t] = History[t]
  PROVE  Mapped
<1>1. UNCHANGED History
  <2>1. History' = [History EXCEPT ![t] = History[t]]
    BY HistorySame
  <2>. QED
    BY <2>1 DEF History
<1>. QED
  BY <1>1 DEF Mapped

\* A step that tells its task how its line ended.
LEMMA TellingStep ==
  ASSUME IInv, NEW t \in Tasks, Arrive(t) \/ Settle(t) \/ Run(t), NEW result,
         History'[t] = Append(History[t], [line |-> Line(t), result |-> result])
  PROVE  Atomic!Told(t, Line(t), result)
<1>1. History' = [History EXCEPT ![t] = Append(History[t], [line |-> Line(t), result |-> result])]
  BY HistorySame
<1>. QED
  BY <1>1 DEF Atomic!Told

\* An account that was never written is empty: its balance is a number all the same.
LEMMA BalanceType ==
  ASSUME TypeOK, NEW a \in Accounts
  PROVE  OrZero(balances[a]) \in Int
BY DEF TypeOK, OrZero

\* The credit lands: the transfer, or the deposit, takes effect in one piece.
LEMMA CreditStep ==
  ASSUME TwoAccounts, IInv, RInv, NEW t \in Tasks, SettleWrite(t), pc[t] = "writeTo"
  PROVE  Atomic!Next
<1> DEFINE line == Line(t)
<1>i. TypeOK /\ Positioned /\ LockInv /\ DataInv /\ Calm /\ Covered(t)
  BY DEF IInv, RInv, Funded
<1>s. Settle(t)
  BY DEF Settle
<1>1. callNo[t] > 0
  BY <1>i DEF Positioned
<1>2. /\ line \in Lines /\ line.to \in Accounts /\ line.amount \in Nat
      /\ line.from = NoAccount <=> ~Batch(t)
      /\ Batch(t) => line.from \in Accounts
  BY <1>1, <1>i, LineType
<1>3. line.from # line.to
  <2> DEFINE s == program
  <2>1. s \in Scenarios /\ callNo[t] \in 1..Len(s[t]) /\ lineNo[t] \in 1..Len(s[t][callNo[t]].lines)
    BY <1>1, <1>i DEF TypeOK, Positioned, Call
  <2>. QED
    BY <2>1 DEF TwoAccounts, Line, Call
<1>4. target[t] = OrZero(balances[line.to])
  BY <1>3, <1>i DEF DataInv, Current, TargetRead
<1>5. /\ balances' = [balances EXCEPT ![line.to] = target[t] + line.amount]
      /\ UNCHANGED <<program, callNo, lineNo, threw, history>> /\ pc' = [pc EXCEPT ![t] = "wroteTo"]
  BY DEF SettleWrite, Goto, localVars
<1>6. pc'[t] = "wroteTo" /\ ~threw[t] /\ Line(t)' = line
  BY <1>5, <1>i DEF TypeOK, Calm, Throwing, Line, Call
<1>7. Atomic!Told(t, line, "ok")
  <2>1. History[t] = history[t] /\ History'[t] = Append(history[t], [line |-> line, result |-> "ok"])
    BY <1>5, <1>6 DEF History, Outcome
  <2>. QED
    BY <2>1, <1>s, TellingStep
<1>8. Books' = [a \in Accounts |-> OrZero(balances'[a])]
  <2>1. \A u \in Tasks : ~InTransit(u)'
    BY <1>6, <1>s, <1>i, OthersStay DEF InTransit, Holding, LockInv, MutualExclusion
  <2>. QED
    BY <2>1 DEF Books
<1>9. Books = [a \in Accounts |-> IF Batch(t) /\ line.from = a THEN OrZero(balances[a]) + line.amount
                                  ELSE OrZero(balances[a])]
  <2>1. InTransit(t) <=> Batch(t)
    BY DEF InTransit
  <2>2. \A u \in Tasks : u # t => ~InTransit(u)
    BY <1>i, AloneInTransit DEF LockInv, Holding
  <2>. QED
    BY <2>1, <2>2, BooksOf
<1>10. /\ OrZero(balances'[line.to]) = OrZero(balances[line.to]) + line.amount
       /\ \A a \in Accounts : a # line.to => OrZero(balances'[a]) = OrZero(balances[a])
  <2>1. /\ balances'[line.to] = target[t] + line.amount
        /\ \A a \in Accounts : a # line.to => balances'[a] = balances[a]
    BY <1>2, <1>5, <1>i DEF TypeOK
  <2>2. target[t] + line.amount \in Int
    BY <1>2, <1>i DEF TypeOK
  <2>. QED
    BY <2>1, <2>2, <1>4, NameAssumption DEF OrZero
<1>11. CASE Batch(t)
  <2> DEFINE debited == [Books EXCEPT ![line.from] = @ - line.amount]
  <2>1. Books[line.from] = OrZero(balances[line.from]) + line.amount
    BY <1>2, <1>9, <1>11
  <2>2. OrZero(balances[line.from]) = source[t] - line.amount /\ source[t] >= line.amount
    BY <1>11, <1>i DEF Covered, InTransit
  <2>3. OrZero(balances[line.from]) \in Int /\ source[t] \in Int
    BY <1>2, <1>11, <1>i, BalanceType DEF TypeOK
  <2>4. Books[line.from] >= line.amount
    BY <2>1, <2>2, <2>3, <1>2
  <2>5. debited = [a \in Accounts |-> OrZero(balances[a])]
    <3>1. debited[line.from] = OrZero(balances[line.from])
      BY <2>1, <2>3, <1>2, <1>9, <1>11
    <3>. QED
      BY <3>1, <1>9
  <2>6. Books' = [debited EXCEPT ![line.to] = @ + line.amount]
    BY <2>5, <1>2, <1>8, <1>10
  <2>7. Atomic!Transfer(t, line)
    BY <2>4, <2>6, <1>2, <1>7, <1>11 DEF Atomic!Transfer, Atomic!Debited
  <2>. QED
    BY <2>7, <1>2 DEF Atomic!Next, Atomic!Lines, Lines
<1>12. CASE ~Batch(t)
  <2>1. Books' = [Books EXCEPT ![line.to] = @ + line.amount]
    BY <1>2, <1>8, <1>9, <1>10, <1>12
  <2>2. Atomic!Deposit(t, line)
    BY <2>1, <1>2, <1>7, <1>12 DEF Atomic!Deposit
  <2>. QED
    BY <2>2, <1>2 DEF Atomic!Next, Atomic!Lines, Lines
<1>. QED
  BY <1>11, <1>12

\* The credit is rejected: a transfer's debit stands, and it is told so.
LEMMA LostCreditStep ==
  ASSUME IInv, RInv, NEW t \in Tasks, Reject(t), pc[t] = "writeTo"
  PROVE  Atomic!Next
<1> DEFINE line == Line(t)
<1>i. TypeOK /\ Positioned /\ LockInv /\ Covered(t)
  BY DEF IInv, RInv, Funded
<1>s. Settle(t)
  BY DEF Settle
<1>1. callNo[t] > 0
  BY <1>i DEF Positioned
<1>2. /\ line \in Lines /\ line.amount \in Nat
      /\ Batch(t) => line.from \in Accounts
  BY <1>1, <1>i, LineType
<1>3. MaxFailures > 0
  <2>1. failures \in Nat /\ MaxFailures \in Nat
    BY <1>i, NameAssumption DEF TypeOK
  <2>2. failures < MaxFailures
    BY DEF Reject
  <2>. QED
    BY <2>1, <2>2
<1>5. /\ UNCHANGED <<balances, program, callNo, lineNo, history>> /\ threw'[t] = TRUE
      /\ pc'[t] = "wroteTo"
  BY <1>i DEF Reject, Goto, localVars, Resumed, TypeOK
<1>6. Line(t)' = line
  BY <1>5 DEF Line, Call
<1>7. Atomic!Told(t, line, "failed")
  <2>1. History[t] = history[t] /\ History'[t] = Append(history[t], [line |-> line, result |-> "failed"])
    BY <1>5, <1>6 DEF History, Outcome
  <2>. QED
    BY <2>1, <1>s, TellingStep
<1>8. Books' = [a \in Accounts |-> OrZero(balances[a])]
  <2>1. \A u \in Tasks : ~InTransit(u)'
    BY <1>5, <1>s, <1>i, OthersStay DEF InTransit, Holding, LockInv, MutualExclusion
  <2>. QED
    BY <2>1, <1>5 DEF Books
<1>9. Books = [a \in Accounts |-> IF Batch(t) /\ line.from = a THEN OrZero(balances[a]) + line.amount
                                  ELSE OrZero(balances[a])]
  <2>1. InTransit(t) <=> Batch(t)
    BY DEF InTransit
  <2>2. \A u \in Tasks : u # t => ~InTransit(u)
    BY <1>i, AloneInTransit DEF LockInv, Holding
  <2>. QED
    BY <2>1, <2>2, BooksOf
<1>10. Atomic!Fail(t, line)
  <2>1. CASE Batch(t)
    <3>1. Books[line.from] = OrZero(balances[line.from]) + line.amount
      BY <1>2, <1>9, <2>1
    <3>2. OrZero(balances[line.from]) = source[t] - line.amount /\ source[t] >= line.amount
      BY <2>1, <1>i DEF Covered, InTransit
    <3>3. OrZero(balances[line.from]) \in Int /\ source[t] \in Int
      BY <1>2, <2>1, <1>i, BalanceType DEF TypeOK
    <3>4. Books[line.from] >= line.amount
      BY <3>1, <3>2, <3>3, <1>2
    <3>5. Books' = [Books EXCEPT ![line.from] = @ - line.amount]
      <4>1. Books[line.from] - line.amount = OrZero(balances[line.from])
        BY <3>1, <3>3, <1>2
      <4>. QED
        BY <4>1, <1>8, <1>9
    <3>. QED
      BY <3>4, <3>5, <1>2, <1>3, <1>7, <2>1 DEF Atomic!Fail, Atomic!Debited
  <2>2. CASE ~Batch(t)
    <3>1. UNCHANGED Books
      BY <2>2, <1>8, <1>9
    <3>. QED
      BY <3>1, <1>3, <1>7 DEF Atomic!Fail
  <2>. QED
    BY <2>1, <2>2
<1>. QED
  BY <1>2, <1>10 DEF Atomic!Next, Atomic!Lines, Lines

\* A line that ends without its credit: it is refused or failed.
Ending(t, result) ==
  \/ (GotFrom(t) \/ GotTo(t) \/ WroteFrom(t)) /\ threw[t] /\ result = "failed"
  \/ GotFrom(t) /\ ~threw[t] /\ source[t] < Line(t).amount /\ result = "refused"

\* A call that ends without effect has been told as it is: a step of the abstract ledger.
LEMMA EndingStep ==
  ASSUME IInv, RInv, NEW t \in Tasks, NEW result, Ending(t, result)
  PROVE  Mapped
<1> DEFINE line == Line(t)
<1>i. TypeOK /\ Positioned /\ LockInv /\ QueueInv /\ DataInv /\ Calm
  BY DEF IInv, RInv
<1>s. Run(t)
  BY DEF Run, Ending
<1>0. pc[t] \in {"gotFrom", "gotTo", "wroteFrom"}
  BY DEF Ending, GotFrom, GotTo, WroteFrom, Due
<1>e. Conclude(t, result) /\ UNCHANGED balances
  <2>1. source[t] \in Int /\ callNo[t] > 0
    BY <1>0, <1>i DEF TypeOK, Positioned
  <2>2. Line(t).amount \in Nat
    BY <2>1, <1>i, LineType
  <2>. QED
    BY <2>1, <2>2 DEF Ending, GotFrom, GotTo, WroteFrom
<1>1. callNo[t] > 0
  BY <1>0, <1>i DEF Positioned
<1>2. line \in Lines /\ (Batch(t) => line.from \in Accounts)
  BY <1>1, <1>i, LineType
<1>3. /\ UNCHANGED balances /\ Record(t, result)
      /\ \/ result = "failed" /\ threw[t]
         \/ result = "refused" /\ GotFrom(t) /\ ~threw[t] /\ source[t] < line.amount
  BY <1>e DEF Conclude, Ending
<1>4. pc'[t] \in {"start", "applied"}
  <2>1. Goto(t, "applied") \/ Leave(t)
    BY <1>e DEF Conclude
  <2>. QED
    BY <2>1, <1>0, <1>i, LeavePlaces DEF Goto, TypeOK
<1>5. Atomic!Told(t, line, result)
  <2>1. History[t] = history[t] /\ History'[t] = Append(history[t], [line |-> line, result |-> result])
    BY <1>0, <1>3, <1>4, <1>i DEF History, Record, TypeOK
  <2>. QED
    BY <2>1, <1>s, TellingStep
<1>6. UNCHANGED Books
  <2>1. ~InTransit(t) /\ ~InTransit(t)'
    BY <1>0, <1>3, <1>4, <1>i DEF InTransit, GotFrom, Due
  <2>. QED
    BY <2>1, <1>3, <1>s, BooksSame
<1>7. CASE result = "failed" /\ threw[t]
  <2>1. MaxFailures > 0
    <3>1. failures \in Nat /\ MaxFailures \in Nat /\ failures \in 0..MaxFailures
      BY <1>i, NameAssumption DEF TypeOK
    <3>2. failures > 0
      BY <1>7, <1>i DEF Calm
    <3>. QED
      BY <3>1, <3>2
  <2>2. Atomic!Fail(t, line)
    BY <2>1, <1>5, <1>6, <1>7 DEF Atomic!Fail
  <2>. QED
    BY <2>2, <1>2 DEF Mapped, Atomic!Next, Atomic!Lines, Lines
<1>8. CASE result = "refused" /\ GotFrom(t) /\ ~threw[t] /\ source[t] < line.amount
  <2>1. pc[t] = "gotFrom" /\ Batch(t) /\ line.from \in Accounts
    BY <1>8, <1>2, <1>i DEF GotFrom, Due, Positioned, OfBatch
  <2>2. OrZero(balances[line.from]) < line.amount
    BY <2>1, <1>8, <1>i DEF DataInv, Current, SourceRead
  <2>3. Books[line.from] = OrZero(balances[line.from])
    <3>1. ~InTransit(t) /\ \A u \in Tasks : u # t => ~InTransit(u)
      BY <2>1, <1>i, AloneInTransit DEF LockInv, Holding, InTransit
    <3>. QED
      BY <3>1, <2>1, BooksOf
  <2>4. Atomic!Refuse(t, line)
    BY <2>1, <2>2, <2>3, <1>5, <1>6, <1>8 DEF Atomic!Refuse
  <2>. QED
    BY <2>4, <1>2 DEF Mapped, Atomic!Next, Atomic!Lines, Lines
<1>. QED
  BY <1>3, <1>7, <1>8

\* The debit lands: the books put it back.
LEMMA DebitStep ==
  ASSUME IInv, RInv, NEW t \in Tasks, SettleWrite(t), pc[t] = "writeFrom"
  PROVE  Mapped
<1> DEFINE line == Line(t)
<1>i. TypeOK /\ Positioned /\ LockInv /\ DataInv /\ Calm
  BY DEF IInv, RInv
<1>s. Settle(t)
  BY DEF Settle
<1>1. callNo[t] > 0 /\ Batch(t)
  BY <1>i DEF Positioned, OfBatch
<1>2. line.from \in Accounts /\ line.amount \in Nat
  BY <1>1, <1>i, LineType
<1>3. source[t] = OrZero(balances[line.from]) /\ source[t] \in Int
  BY <1>1, <1>i DEF DataInv, Current, SourceRead, TypeOK
<1>4. /\ balances' = [balances EXCEPT ![line.from] = source[t] - line.amount]
      /\ UNCHANGED <<program, callNo, lineNo, threw, history>> /\ pc'[t] = "wroteFrom"
  BY <1>i DEF SettleWrite, Goto, localVars, TypeOK
<1>5. ~threw[t] /\ Line(t)' = line /\ Batch(t)' = Batch(t)
  BY <1>4, <1>i DEF Calm, Throwing, Line, Batch, Call
<1>6. InTransit(t)' /\ ~InTransit(t)
  BY <1>1, <1>4, <1>5 DEF InTransit
<1>7. \A u \in Tasks : u # t => ~InTransit(u) /\ ~InTransit(u)'
  <2>1. \A u \in Tasks : u # t => ~InTransit(u)
    BY <1>i, AloneInTransit DEF LockInv, Holding
  <2>2. \A u \in Tasks : u # t => ~InTransit(u)'
    BY <1>s, <1>i, OthersStay DEF InTransit, Holding, LockInv, MutualExclusion
  <2>. QED
    BY <2>1, <2>2
<1>8. Books = [a \in Accounts |-> OrZero(balances[a])]
  BY <1>6, <1>7, BooksOf
<1>9. Books' = [a \in Accounts |-> IF line.from = a THEN OrZero(balances'[a]) + line.amount
                                   ELSE OrZero(balances'[a])]
  BY <1>5, <1>6, <1>7, BooksNext
<1>10. OrZero(balances'[line.from]) + line.amount = OrZero(balances[line.from])
  <2>1. balances'[line.from] = source[t] - line.amount /\ source[t] - line.amount \in Int
    BY <1>2, <1>3, <1>4, <1>i DEF TypeOK
  <2>2. OrZero(balances'[line.from]) = source[t] - line.amount
    BY <2>1, NameAssumption DEF OrZero
  <2>. QED
    BY <2>2, <1>2, <1>3
<1>11. \A a \in Accounts : a # line.from => balances'[a] = balances[a]
  BY <1>4, <1>i DEF TypeOK
<1>12. UNCHANGED Books
  BY <1>8, <1>9, <1>10, <1>11
<1>13. History'[t] = History[t]
  BY <1>4 DEF History
<1>. QED
  BY <1>12, <1>13, <1>s, StillStep

\* Every other step is between two effects.
LEMMA BetweenStep ==
  ASSUME IInv, RInv, NEW t \in Tasks, Arrive(t) \/ Settle(t) \/ Run(t),
         ~SettleWrite(t), ~(Reject(t) /\ pc[t] = "writeTo"), \A result : ~Ending(t, result)
  PROVE  Mapped
<1> USE DEF localVars
<1>i. TypeOK /\ QueueInv /\ Positioned
  BY DEF IInv
<1>1. UNCHANGED balances
  BY DEF Run, Settle, Arrive, SettleRead, SettleFetch, Reject, End, Acquire, Woken,
     Enter, GotFrom, GotTo, WroteFrom, WroteTo, Applied, Balance, Fetched, Seen
<1>2. CASE WroteTo(t)
  <2>1. pc[t] = "wroteTo" /\ Record(t, IF threw[t] THEN "failed" ELSE "ok")
    BY <1>2 DEF WroteTo, Due, Conclude
  <2>2. pc'[t] \in {"start", "applied"}
    <3>1. Goto(t, "applied") \/ Leave(t)
      BY <1>2 DEF WroteTo, Conclude
    <3>. QED
      BY <3>1, <2>1, <1>i, LeavePlaces DEF Goto, TypeOK
  <2>3. ~InTransit(t) /\ ~InTransit(t)'
    BY <2>1, <2>2 DEF InTransit
  <2>4. History'[t] = History[t]
    BY <2>1, <2>2, <1>i DEF History, Record, Outcome, TypeOK
  <2>. QED
    BY <2>3, <2>4, <1>1, BooksSame, StillStep
<1>3. CASE WroteFrom(t)
  <2>1. pc[t] = "wroteFrom" /\ ~threw[t] /\ Continue(t, "writeTo")
    <3>1. ~threw[t]
      BY <1>3 DEF Ending
    <3>. QED
      BY <3>1, <1>3 DEF WroteFrom, Due
  <2>2. pc'[t] = "writeTo" /\ UNCHANGED <<history, program, callNo, lineNo>>
    BY <2>1, <1>3, <1>i DEF Continue, Goto, TypeOK, WroteFrom
  <2>3. Line(t)' = Line(t) /\ Batch(t)' = Batch(t)
    BY <2>2 DEF Line, Batch, Call
  <2>4. InTransit(t)' <=> InTransit(t)
    BY <2>1, <2>2, <2>3 DEF InTransit
  <2>5. History'[t] = History[t]
    BY <2>1, <2>2 DEF History
  <2>. QED
    BY <2>3, <2>4, <2>5, <1>1, BooksSame, StillStep
<1>4. CASE ~WroteTo(t) /\ ~WroteFrom(t)
  <2>1. pc[t] \notin {"wroteFrom", "writeTo", "wroteTo"}
    BY <1>4 DEF Run, Settle, Arrive, SettleRead, SettleFetch, Reject, End, Acquire, Woken,
       Enter, GotFrom, GotTo, Applied, Balance, Fetched, Seen, Due, SettleWrite, InStore
  <2>2. UNCHANGED history
    <3>1. CASE GotFrom(t)
      <4>1. ~threw[t] /\ ~(source[t] < Line(t).amount)
        BY <3>1 DEF Ending
      <4>. QED
        BY <3>1, <4>1 DEF GotFrom, Continue
    <3>2. CASE GotTo(t)
      <4>1. ~threw[t]
        BY <3>2 DEF Ending
      <4>. QED
        BY <3>2, <4>1 DEF GotTo, Continue
    <3>. QED
      BY <3>1, <3>2, <1>4 DEF Run, Settle, Arrive, SettleRead, SettleFetch, Reject, End, Acquire, Woken,
         Enter, Applied, Continue, Balance, Fetched, Seen
  <2>3. pc'[t] # "wroteTo" /\ ~InTransit(t)'
    <3>1. pc'[t] # "wroteTo"
      BY <2>1, OwnPlace
    <3>2. CASE pc'[t] = "writeTo"
      <4>1. GotTo(t) /\ ~Batch(t)
        BY <3>2, <1>4, OwnPlace
      <4>2. ~Batch(t)'
        BY <4>1 DEF Batch, Call, GotTo
      <4>. QED
        BY <3>1, <4>2 DEF InTransit
    <3>3. CASE pc'[t] = "wroteFrom"
      <4>1. Settle(t) /\ pc[t] = "writeFrom"
        BY <3>3, OwnPlace
      <4>2. Reject(t)
        BY <4>1 DEF Settle, SettleRead, SettleFetch
      <4>3. threw'[t]
        BY <4>2, <1>i DEF Reject, TypeOK
      <4>. QED
        BY <3>1, <3>3, <4>3 DEF InTransit
    <3>. QED
      BY <3>1, <3>2, <3>3 DEF InTransit
  <2>4. ~InTransit(t)
    BY <2>1 DEF InTransit
  <2>5. History'[t] = History[t]
    BY <2>1, <2>2, <2>3 DEF History
  <2>. QED
    BY <2>3, <2>4, <2>5, <1>1, BooksSame, StillStep
<1>. QED
  BY <1>2, <1>3, <1>4

\* Whatever the step, it is one of the abstract ledger's or none of its business.
LEMMA MappedStep ==
  ASSUME TwoAccounts, IInv, RInv, [Next]_vars
  PROVE  [Atomic!Next]_<<Books, History>>
<1>1. CASE Next
  <2>1. PICK t \in Tasks : Arrive(t) \/ Settle(t) \/ Run(t)
    BY <1>1 DEF Next
  <2>2. CASE SettleWrite(t)
    <3>1. pc[t] = "writeFrom" \/ pc[t] = "writeTo"
      BY <2>2 DEF SettleWrite
    <3>. QED
      BY <2>2, <3>1, DebitStep, CreditStep DEF Mapped
  <2>3. CASE Reject(t) /\ pc[t] = "writeTo"
    BY <2>3, LostCreditStep
  <2>4. CASE \E result : Ending(t, result)
    BY <2>4, EndingStep DEF Mapped
  <2>. QED
    BY <2>1, <2>2, <2>3, <2>4, BetweenStep DEF Mapped
<1>2. CASE UNCHANGED vars
  <2>1. Books' = Books /\ History' = History
    BY <1>2 DEF vars, localVars, Books, History, InTransit, Outcome, Batch, Line, Call
  <2>. QED
    BY <2>1
<1>. QED
  BY <1>1, <1>2

\* The ledger opens with the books of the abstract one.
LEMMA MappedInit == Init => Atomic!Init
<1> SUFFICES ASSUME Init PROVE Atomic!Init
  OBVIOUS
<1>1. History = [t \in Tasks |-> <<>>]
  BY DEF Init, History
<1>2. Books = [a \in Accounts |-> OrZero(balances[a])]
  BY DEF Init, Books, InTransit
<1>3. \A a \in Accounts : OrZero(balances[a]) \in Int
  BY NameAssumption DEF Init, OrZero
<1>. QED
  BY <1>1, <1>2, <1>3 DEF Atomic!Init

\* apply and deposit (ledger.ts:161-246): however the store calls of the tasks interleave
\* and fail, every line takes effect in one piece, when its credit lands, and is told as it
\* is.  For transfers between two accounts: from an account to itself it is not so, as
\* MCLedger_itself shows.
THEOREM LedgerImplementsAtomic ==
  ASSUME TwoAccounts
  PROVE  Spec => ImplementsAtomic
<1>1. IInv /\ RInv /\ [Next]_vars => [Atomic!Next]_<<Books, History>>
  BY MappedStep
<1>. QED
  BY <1>1, MappedInit, LedgerFunded, PTL DEF Spec, ImplementsAtomic, Atomic!Spec

\* Who becomes a holder: an arrival that finds the lock free, or the first
\* waiter, when the holder comes to its end.
LEMMA Becoming ==
  ASSUME IInv, NEW u \in Tasks, Arrive(u) \/ Settle(u) \/ Run(u),
         NEW t \in Tasks, pc[t] \notin Holding, pc'[t] \in Holding
  PROVE  \/ t = u /\ ~held /\ pc'[t] = "enter"
         \/ /\ t # u /\ waiting # <<>> /\ t = Head(waiting) /\ pc'[t] = "woken"
            /\ pc[u] \in {"gotFrom", "gotTo", "wroteFrom", "wroteTo", "applied"}
<1>i. TypeOK /\ QueueInv
  BY DEF IInv
<1>1. CASE t = u
  <2>1. CASE Acquire(t)
    BY <1>1, <2>1, <1>i DEF Acquire, Goto, Holding, TypeOK
  <2>2. CASE ~Acquire(t)
    <3>1. CASE Settle(t)
      <4>1. Goto(t, "fetched")
        BY <3>1 DEF Settle, SettleRead, SettleWrite, SettleFetch, Reject, Resumed, InStore, Holding
      <4>. QED
        BY <4>1, <1>i DEF Goto, Holding, TypeOK
    <3>2. CASE Arrive(t) \/ End(t) \/ Balance(t) \/ Seen(t)
      <4>1. \E place \in {"start", "done", "fetching", "sharing", "seen"} : Goto(t, place)
        BY <3>2 DEF Arrive, End, Balance, Seen
      <4>. QED
        BY <4>1, <1>i DEF Goto, Holding, TypeOK
    <3>3. CASE Fetched(t)
      BY <3>3 DEF Fetched, Due, Holding
    <3>4. ~(Woken(t) \/ Enter(t) \/ GotFrom(t) \/ GotTo(t) \/ WroteFrom(t) \/ WroteTo(t) \/ Applied(t))
      BY DEF Woken, Enter, GotFrom, GotTo, WroteFrom, WroteTo, Applied, Due, Holding
    <3>. QED
      BY <1>1, <2>2, <3>1, <3>2, <3>3, <3>4 DEF Run
  <2>. QED
    BY <2>1, <2>2
<1>2. CASE t # u
  <2>1. CASE Fetched(u)
    <3>1. pc'[t] \in {"seen", pc[t]}
      BY <2>1 DEF Fetched
    <3>. QED
      BY <3>1 DEF Holding
  <2>2. CASE ~Fetched(u) /\ \E place : Goto(u, place)
    BY <1>2, <2>2, <1>i DEF Goto, TypeOK
  <2>3. CASE ~Fetched(u) /\ ~\E place : Goto(u, place)
    <3>1. Leave(u) /\ pc[u] \in {"gotFrom", "gotTo", "wroteFrom", "wroteTo", "applied"}
      <4>1. \A result : Conclude(u, result) => (\E place : Goto(u, place)) \/ Leave(u)
        BY DEF Conclude
      <4>. QED
        BY <4>1, <2>3 DEF Run, Settle, Arrive, SettleRead, SettleWrite, SettleFetch, Reject, End, Acquire,
           Woken, Enter, GotFrom, GotTo, WroteFrom, WroteTo, Applied, Continue, Balance, Seen, Due
    <3>2. waiting # <<>>
      BY <2>3, <3>1 DEF Leave
    <3>3. pc' = [pc EXCEPT ![u] = "start", ![Head(waiting)] = "woken"]
      BY <3>1, <3>2 DEF Leave
    <3>. QED
      BY <1>2, <3>1, <3>2, <3>3, <1>i DEF TypeOK
  <2>. QED
    BY <2>1, <2>2, <2>3
<1>. QED
  BY <1>1, <1>2

\* createMutex: whoever enters has nobody in front of it in the queue, whether it finds the
\* lock free or is handed it.
THEOREM LedgerNobodyOvertakes == Spec => NobodyOvertakes
<1> DEFINE Fair == \A t \in Tasks : pc[t] \notin Holding /\ pc'[t] \in Holding => InFrontOf(t) = {}
<1>1. IInv /\ RInv /\ [Next]_vars => [Fair]_vars
  <2> SUFFICES ASSUME IInv, RInv, Next, NEW t \in Tasks, pc[t] \notin Holding, pc'[t] \in Holding
               PROVE  InFrontOf(t) = {}
    OBVIOUS
  <2>1. PICK u \in Tasks : Arrive(u) \/ Settle(u) \/ Run(u)
    BY DEF Next
  <2>2. (t = u /\ ~held) \/ (waiting # <<>> /\ t = Head(waiting))
    BY <2>1, Becoming
  <2>3. waiting \in Seq(Tasks)
    BY DEF IInv, TypeOK
  <2>4. CASE ~held
    <3>1. Len(waiting) = 0
      BY <2>4 DEF RInv, Needed
    <3>. QED
      BY <3>1 DEF InFrontOf
  <2>5. CASE waiting # <<>> /\ t = Head(waiting)
    <3>1. t = waiting[1]
      BY <2>3, <2>5
    <3>2. \A j \in 1..Len(waiting) : 1 \in 1..j
      BY <2>3
    <3>3. \A j \in 1..Len(waiting) : t \in {waiting[k] : k \in 1..j}
      BY <3>1, <3>2
    <3>. QED
      BY <3>3 DEF InFrontOf
  <2>. QED
    BY <2>2, <2>4, <2>5
<1>. QED
  BY <1>1, LedgerFunded, PTL DEF Spec, NobodyOvertakes
=============================================================================
