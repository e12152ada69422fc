-------------------------------- MODULE Ledger --------------------------------
(***************************************************************************)
(* concurrency/ledger.ts: createMutex and createLedger over an async store *)
(* with no transactions of its own.                                        *)
(*                                                                         *)
(* The grain is the microtask.  A continuation that is due waits in a FIFO *)
(* of jobs and runs to its next await without interruption; a store call   *)
(* settles at any moment between two jobs and puts its continuation at the *)
(* back.  Every await of the code is a hop through the FIFO, because       *)
(* whether a reader may join a read that has just been answered is decided *)
(* by one hop.  pc[t] names the await at which t is suspended.             *)
(*                                                                         *)
(* A deposit is a line without a `from`; a transfer is a batch of one.     *)
(***************************************************************************)
EXTENDS Integers, Sequences, Functions

CONSTANTS Tasks, Accounts, Amounts,
          Scenarios,     \* what the tasks may do: functions from tasks to sequences of calls
          Opening,       \* the store before: balances, or Unwritten
          Unwritten, NoAccount, NoTask,
          MaxFailures    \* bound on the store calls that are rejected

\* A call is [op, lines]; op is "deposit", "settle" (transfer included) or "balance".
Lines == [from : Accounts \union {NoAccount}, to : Accounts, amount : Amounts]
Calls == [op : {"deposit", "settle", "balance"}, lines : Seq(Lines)]

ASSUME ScenarioAssumption ==
  \A s \in Scenarios : \A t \in Tasks :
    /\ s[t] \in Seq(Calls)
    /\ \A i \in 1..Len(s[t]) :
         /\ Len(s[t][i].lines) > 0
         /\ \A j \in 1..Len(s[t][i].lines) :
              s[t][i].lines[j].from = NoAccount <=> s[t][i].op # "settle"

ASSUME NameAssumption ==
  /\ NoAccount \notin Accounts /\ NoTask \notin Tasks /\ Unwritten \notin Int
  /\ Opening \in [Accounts -> Int \union {Unwritten}]
  /\ MaxFailures \in Nat /\ Amounts \subseteq Nat

VARIABLES
  program,   \* program[t]: the calls t makes, one after the other
  balances,  \* the store
  held, waiting,   \* the mutex
  reads,     \* reads[a]: the task whose read of a is in flight, or NoTask
  sharers,   \* sharers[a]: who awaits it, in the order they asked
  jobs,      \* continuations that are due
  pc, callNo, lineNo,
  source, target,  \* the locals of a deposit or of apply
  value,     \* what a balance call is about to return
  threw,     \* the continuation is an exception
  history,   \* outcomes of the lines applied, as returned by apply and deposit
  failures,
  credited,  \* credits to a whose calls have returned
  floor      \* credited[a] when t asked for the balance of a

lockVars == <<held, waiting>>
readVars == <<reads, sharers, value>>
localVars == <<callNo, lineNo, source, target>>
seenVars == <<credited, floor>>
vars == <<program, balances, lockVars, readVars, jobs, pc, localVars, threw, history, failures, seenVars>>

-----------------------------------------------------------------------------
Call(t) == program[t][callNo[t]]
Line(t) == Call(t).lines[lineNo[t]]
Batch(t) == Call(t).op = "settle"

\* `?? 0`: an account that was never written is empty.
OrZero(stored) == IF stored = Unwritten THEN 0 ELSE stored

Init ==
  /\ program \in Scenarios
  /\ balances = Opening
  /\ held = FALSE /\ waiting = <<>>
  /\ reads = [a \in Accounts |-> NoTask] /\ sharers = [a \in Accounts |-> <<>>]
  /\ jobs = <<>>
  /\ pc = [t \in Tasks |-> "new"]
  /\ callNo = [t \in Tasks |-> 0] /\ lineNo = [t \in Tasks |-> 1]
  /\ source = [t \in Tasks |-> 0] /\ target = [t \in Tasks |-> 0] /\ value = [t \in Tasks |-> 0]
  /\ threw = [t \in Tasks |-> FALSE]
  /\ history = [t \in Tasks |-> <<>>]
  /\ failures = 0
  /\ credited = [a \in Accounts |-> 0] /\ floor = [t \in Tasks |-> 0]

Goto(t, place) == pc' = [pc EXCEPT ![t] = place]

\* The first job is t's, resumed at `place`; it may put others at the back.
Due(t, place) == jobs # <<>> /\ Head(jobs) = t /\ pc[t] = place
Then(resumed) == jobs' = Tail(jobs) \o resumed

\* A request arrives.
Arrive(t) ==
  /\ pc[t] = "new"
  /\ Goto(t, "start") /\ jobs' = Append(jobs, t)
  /\ UNCHANGED <<program, balances, lockVars, readVars, localVars, threw, history, failures, seenVars>>

-----------------------------------------------------------------------------
\* Between two calls: the last one, if any, has returned or thrown.
Upcoming(t) == program[t][callNo[t] + 1]
Ends(t) == threw[t] \/ callNo[t] = Len(program[t])

Returned(t) ==
  credited' = IF callNo[t] > 0 /\ Call(t).op = "deposit" /\ ~threw[t]
              THEN [credited EXCEPT ![Line(t).to] = @ + Line(t).amount] ELSE credited

Advance(t) == /\ callNo' = [callNo EXCEPT ![t] = @ + 1]
              /\ lineNo' = [lineNo EXCEPT ![t] = 1]
              /\ UNCHANGED <<source, target>>

End(t) ==
  /\ Due(t, "start") /\ Ends(t)
  /\ Returned(t)
  /\ Goto(t, "done") /\ Then(<<>>)
  /\ UNCHANGED <<program, balances, lockVars, readVars, localVars, threw, history, failures, floor>>

\* Slip: an uncontended acquire does not mark the lock held.
AcquireUnmarked(t) ==
  /\ Due(t, "start") /\ ~Ends(t) /\ Upcoming(t).op # "balance"
  /\ Returned(t) /\ Advance(t)
  /\ Goto(t, "enter") /\ Then(<<t>>)
  /\ UNCHANGED <<program, balances, lockVars, readVars, threw, history, failures, floor>>

\* deposit, transfer and settle begin with mutex.acquire().
Acquire(t) ==
  /\ Due(t, "start") /\ ~Ends(t) /\ Upcoming(t).op # "balance"
  /\ Returned(t) /\ Advance(t)
  /\ \/ ~held /\ held' = TRUE /\ Goto(t, "enter") /\ Then(<<t>>) /\ UNCHANGED waiting
     \/ held /\ waiting' = Append(waiting, t) /\ Goto(t, "queued") /\ Then(<<>>) /\ UNCHANGED held
  /\ UNCHANGED <<program, balances, readVars, threw, history, failures, floor>>

\* The lock was handed over: acquire returns, one hop later.
Woken(t) ==
  /\ Due(t, "woken")
  /\ Goto(t, "enter") /\ Then(<<t>>)
  /\ UNCHANGED <<program, balances, lockVars, readVars, localVars, threw, history, failures, seenVars>>

\* The critical section starts with its first read.
Enter(t) ==
  /\ Due(t, "enter")
  /\ Goto(t, IF Batch(t) THEN "readFrom" ELSE "readTo") /\ Then(<<>>)
  /\ UNCHANGED <<program, balances, lockVars, readVars, localVars, threw, history, failures, seenVars>>

\* Slip: the newest waiter is served.
WakesNewest(t) ==
  LET next == waiting[Len(waiting)] IN
  \/ /\ waiting = <<>> /\ held' = FALSE /\ UNCHANGED waiting
     /\ Goto(t, "start") /\ Then(<<t>>)
  \/ /\ waiting # <<>> /\ waiting' = SubSeq(waiting, 1, Len(waiting) - 1) /\ UNCHANGED held
     /\ pc' = [pc EXCEPT ![t] = "start", ![next] = "woken"] /\ Then(<<next, t>>)

\* mutex.release() in the finally, and the call returns to its caller.
Leave(t) ==
  LET next == Head(waiting) IN
  \/ /\ waiting = <<>> /\ held' = FALSE /\ UNCHANGED waiting
     /\ Goto(t, "start") /\ Then(<<t>>)
  \/ /\ waiting # <<>> /\ waiting' = Tail(waiting) /\ UNCHANGED held
     /\ pc' = [pc EXCEPT ![t] = "start", ![next] = "woken"] /\ Then(<<next, t>>)

-----------------------------------------------------------------------------
\* The store settles a call: a read takes the balance of that moment, a write
\* lands; the continuation is due.
InStore == {"readFrom", "readTo", "writeFrom", "writeTo", "fetching"}

SettleRead(t) ==
  /\ \/ /\ pc[t] = "readFrom" /\ Goto(t, "gotFrom")
        /\ source' = [source EXCEPT ![t] = OrZero(balances[Line(t).from])]
        /\ UNCHANGED target
     \/ /\ pc[t] = "readTo" /\ Goto(t, "gotTo")
        /\ target' = [target EXCEPT ![t] = OrZero(balances[Line(t).to])]
        /\ UNCHANGED source
  /\ jobs' = Append(jobs, t)
  /\ UNCHANGED <<program, balances, lockVars, readVars, callNo, lineNo, threw, history, failures, seenVars>>

SettleWrite(t) ==
  /\ \/ /\ pc[t] = "writeFrom" /\ Goto(t, "wroteFrom")
        /\ balances' = [balances EXCEPT ![Line(t).from] = source[t] - Line(t).amount]
     \/ /\ pc[t] = "writeTo" /\ Goto(t, "wroteTo")
        /\ balances' = [balances EXCEPT ![Line(t).to] = target[t] + Line(t).amount]
  /\ jobs' = Append(jobs, t)
  /\ UNCHANGED <<program, lockVars, readVars, localVars, threw, history, failures, seenVars>>

SettleFetch(t) ==
  /\ pc[t] = "fetching" /\ Goto(t, "fetched")
  /\ value' = [value EXCEPT ![t] = OrZero(balances[Line(t).to])]
  /\ jobs' = Append(jobs, t)
  /\ UNCHANGED <<program, balances, lockVars, reads, sharers, localVars, threw, history, failures, seenVars>>

\* ... or rejects it.
Resumed == [readFrom |-> "gotFrom", readTo |-> "gotTo", writeFrom |-> "wroteFrom",
            writeTo |-> "wroteTo", fetching |-> "fetched"]

Reject(t) ==
  /\ pc[t] \in InStore /\ failures < MaxFailures
  /\ Goto(t, Resumed[pc[t]])
  /\ threw' = [threw EXCEPT ![t] = TRUE]
  /\ failures' = failures + 1
  /\ jobs' = Append(jobs, t)
  /\ UNCHANGED <<program, balances, lockVars, readVars, localVars, history, seenVars>>

-----------------------------------------------------------------------------
Record(t, result) ==
  history' = [history EXCEPT ![t] = Append(@, [line |-> Line(t), result |-> result])]

\* apply returns or throws, and its caller is due; a deposit has no apply, its
\* own finally releases.
Conclude(t, result) ==
  /\ Record(t, result)
  /\ \/ Batch(t) /\ Goto(t, "applied") /\ Then(<<t>>) /\ UNCHANGED lockVars
     \/ ~Batch(t) /\ Leave(t)

Continue(t, place) == Goto(t, place) /\ Then(<<>>) /\ UNCHANGED <<lockVars, history>>

GotFrom(t) ==
  /\ Due(t, "gotFrom")
  /\ \/ threw[t] /\ Conclude(t, "failed")
     \/ ~threw[t] /\ source[t] < Line(t).amount /\ Conclude(t, "refused")
     \/ ~threw[t] /\ source[t] >= Line(t).amount /\ Continue(t, "readTo")
  /\ UNCHANGED <<program, balances, readVars, localVars, threw, failures, seenVars>>

\* Slip: a transfer credits without debiting.
GotToNoDebit(t) ==
  /\ Due(t, "gotTo")
  /\ \/ threw[t] /\ Conclude(t, "failed")
     \/ ~threw[t] /\ Continue(t, "writeTo")
  /\ UNCHANGED <<program, balances, readVars, localVars, threw, failures, seenVars>>

GotTo(t) ==
  /\ Due(t, "gotTo")
  /\ \/ threw[t] /\ Conclude(t, "failed")
     \/ ~threw[t] /\ Continue(t, IF Batch(t) THEN "writeFrom" ELSE "writeTo")
  /\ UNCHANGED <<program, balances, readVars, localVars, threw, failures, seenVars>>

WroteFrom(t) ==
  /\ Due(t, "wroteFrom")
  /\ \/ threw[t] /\ Conclude(t, "failed")
     \/ ~threw[t] /\ Continue(t, "writeTo")
  /\ UNCHANGED <<program, balances, readVars, localVars, threw, failures, seenVars>>

WroteTo(t) ==
  /\ Due(t, "wroteTo")
  /\ Conclude(t, IF threw[t] THEN "failed" ELSE "ok")
  /\ UNCHANGED <<program, balances, readVars, localVars, threw, failures, seenVars>>

\* Slip: the lock is released only on success.
AppliedOnSuccess(t) ==
  /\ Due(t, "applied")
  /\ \/ /\ ~threw[t] /\ lineNo[t] < Len(Call(t).lines)
        /\ lineNo' = [lineNo EXCEPT ![t] = @ + 1]
        /\ Continue(t, "readFrom")
     \/ /\ ~threw[t] /\ lineNo[t] = Len(Call(t).lines)
        /\ Leave(t)
        /\ UNCHANGED <<lineNo, history>>
     \/ threw[t] /\ Continue(t, "start") /\ UNCHANGED lineNo
  /\ UNCHANGED <<program, balances, readVars, callNo, source, target, threw, failures, seenVars>>

\* The next line of the batch, under the same lock, or the end of the call.
Applied(t) ==
  /\ Due(t, "applied")
  /\ \/ /\ ~threw[t] /\ lineNo[t] < Len(Call(t).lines)
        /\ lineNo' = [lineNo EXCEPT ![t] = @ + 1]
        /\ Continue(t, "readFrom")
     \/ /\ threw[t] \/ lineNo[t] = Len(Call(t).lines)
        /\ Leave(t)
        /\ UNCHANGED <<lineNo, history>>
  /\ UNCHANGED <<program, balances, readVars, callNo, source, target, threw, failures, seenVars>>

-----------------------------------------------------------------------------
\* balance: start a read, share the one in flight, or take the answer of one
\* that is settled and not cleared yet.
Balance(t) ==
  LET a == Upcoming(t).lines[1].to
      owner == reads[a]
  IN
  /\ Due(t, "start") /\ ~Ends(t) /\ Upcoming(t).op = "balance"
  /\ Returned(t) /\ Advance(t)
  /\ floor' = [floor EXCEPT ![t] = credited'[a]]
  /\ \/ /\ owner = NoTask
        /\ reads' = [reads EXCEPT ![a] = t] /\ sharers' = [sharers EXCEPT ![a] = <<t>>]
        /\ Goto(t, "fetching") /\ Then(<<>>)
        /\ UNCHANGED <<value, threw>>
     \/ /\ owner # NoTask /\ pc[owner] \in {"fetching", "fetched"}
        /\ sharers' = [sharers EXCEPT ![a] = Append(@, t)]
        /\ Goto(t, "sharing") /\ Then(<<>>)
        /\ UNCHANGED <<reads, value, threw>>
     \/ /\ owner # NoTask /\ pc[owner] \notin {"fetching", "fetched"}
        /\ value' = [value EXCEPT ![t] = value[owner]] /\ threw' = [threw EXCEPT ![t] = threw[owner]]
        /\ Goto(t, "seen") /\ Then(<<t>>)
        /\ UNCHANGED <<reads, sharers>>
  /\ UNCHANGED <<program, balances, lockVars, history, failures>>

\* The then-callback: the shared promise settles for everybody who awaits it.
Fetched(t) ==
  LET a == Line(t).to
      all == Range(sharers[a])
  IN
  /\ Due(t, "fetched")
  /\ pc' = [u \in Tasks |-> IF u \in all THEN "seen" ELSE pc[u]]
  /\ value' = [u \in Tasks |-> IF u \in all THEN value[t] ELSE value[u]]
  /\ threw' = [u \in Tasks |-> IF u \in all THEN threw[t] ELSE threw[u]]
  /\ sharers' = [sharers EXCEPT ![a] = <<>>]
  /\ Then(sharers[a])
  /\ UNCHANGED <<program, balances, lockVars, reads, localVars, history, failures, seenVars>>

\* Slip: the settled read stays in the map.
SeenKeeps(t) ==
  /\ Due(t, "seen")
  /\ Goto(t, "start") /\ Then(<<t>>)
  /\ UNCHANGED <<program, balances, lockVars, readVars, localVars, threw, history, failures, seenVars>>

\* The call returns; the one that started the read clears it.
Seen(t) ==
  /\ Due(t, "seen")
  /\ reads' = [a \in Accounts |-> IF reads[a] = t THEN NoTask ELSE reads[a]]
  /\ Goto(t, "start") /\ Then(<<t>>)
  /\ UNCHANGED <<program, balances, lockVars, sharers, value, localVars, threw, history, failures, seenVars>>

-----------------------------------------------------------------------------
Settle(t) == SettleRead(t) \/ SettleWrite(t) \/ SettleFetch(t) \/ Reject(t)

Run(t) == \/ End(t) \/ Acquire(t) \/ Woken(t) \/ Enter(t)
          \/ GotFrom(t) \/ GotTo(t) \/ WroteFrom(t) \/ WroteTo(t) \/ Applied(t)
          \/ Balance(t) \/ Fetched(t) \/ Seen(t)

Next == \E t \in Tasks : Arrive(t) \/ Settle(t) \/ Run(t)

Spec == Init /\ [][Next]_vars

\* The microtask queue runs, and the store answers every call one way or the other.
Fairness == WF_vars(\E t \in Tasks : Run(t)) /\ \A t \in Tasks : WF_vars(Settle(t))
FairSpec == Spec /\ Fairness

-----------------------------------------------------------------------------
\* Holding the lock: from the acquire that found it free, or the release that
\* handed it over, to the release.
Holding == {"woken", "enter", "readFrom", "gotFrom", "readTo", "gotTo",
            "writeFrom", "wroteFrom", "writeTo", "wroteTo", "applied"}
Places == Holding \union {"new", "start", "queued", "fetching", "fetched", "sharing", "seen", "done"}

TypeOK ==
  /\ program \in Scenarios
  /\ balances \in [Accounts -> Int \union {Unwritten}]
  /\ held \in BOOLEAN
  /\ waiting \in Seq(Tasks) /\ jobs \in Seq(Tasks)
  /\ reads \in [Accounts -> Tasks \union {NoTask}]
  /\ sharers \in [Accounts -> Seq(Tasks)]
  /\ pc \in [Tasks -> Places]
  /\ callNo \in [Tasks -> Nat] /\ lineNo \in [Tasks -> Nat \ {0}]
  /\ source \in [Tasks -> Int] /\ target \in [Tasks -> Int] /\ value \in [Tasks -> Int]
  /\ threw \in [Tasks -> BOOLEAN]
  /\ history \in [Tasks -> Seq([line : Lines, result : {"ok", "refused", "failed"}])]
  /\ failures \in 0..MaxFailures
  /\ credited \in [Accounts -> Nat] /\ floor \in [Tasks -> Nat]

\* One holder at a time: two calls are never inside the critical section, the
\* hand-over included (ledger.ts:67-75).
MutualExclusion == \A t, u \in Tasks : pc[t] \in Holding /\ pc[u] \in Holding => t = u

\* What is written was computed from what is stored at that very moment: no
\* update of anybody else's, made since the read, is written over.
NoLostUpdate ==
  \A t \in Tasks :
    /\ pc[t] = "writeFrom" => source[t] = OrZero(balances[Line(t).from])
    /\ pc[t] = "writeTo" /\ Line(t).from # Line(t).to => target[t] = OrZero(balances[Line(t).to])

\* A balance is at least what every deposit that had returned before the call
\* makes it, although the read may be somebody else's, begun before them.
OnlyCredited(a) ==
  \A t \in Tasks : \A i \in 1..Len(program[t]) : \A j \in 1..Len(program[t][i].lines) :
    program[t][i].lines[j].from # a

NoStaleBalance ==
  \A t \in Tasks :
    pc[t] = "seen" /\ ~threw[t] /\ OnlyCredited(Line(t).to) =>
      /\ OrZero(Opening[Line(t).to]) + floor[t] <= value[t]
      /\ value[t] <= OrZero(balances[Line(t).to])

\* Nobody overtakes: whoever gets the lock has nobody in front of it.
InFrontOf(t) == {waiting[i] : i \in {j \in 1..Len(waiting) : t \notin {waiting[k] : k \in 1..j}}}

NobodyOvertakes ==
  [][\A t \in Tasks : pc[t] \notin Holding /\ pc'[t] \in Holding => InFrontOf(t) = {}]_vars

\* Every call that arrived is answered, the failed ones too, and what was
\* queued behind them.
EveryTaskSettles == \A t \in Tasks : pc[t] # "new" ~> pc[t] = "done"

-----------------------------------------------------------------------------
\* The abstract ledger.  A transfer is settled when its credit lands: until
\* then its debit is put back, and with it its outcome is told.
InTransit(t) == /\ pc[t] \in {"wroteFrom", "writeTo"} /\ Batch(t)
                /\ pc[t] = "wroteFrom" => ~threw[t]

Books == [a \in Accounts |->
           IF \E t \in Tasks : InTransit(t) /\ Line(t).from = a
           THEN OrZero(balances[a]) + Line(CHOOSE t \in Tasks : InTransit(t)).amount
           ELSE OrZero(balances[a])]

Outcome(t) == [line |-> Line(t), result |-> IF threw[t] THEN "failed" ELSE "ok"]

History == [t \in Tasks |-> IF pc[t] = "wroteTo" THEN Append(history[t], Outcome(t)) ELSE history[t]]

Atomic == INSTANCE AtomicLedger WITH books <- Books, history <- History,
                                     StoreMayFail <- MaxFailures > 0

\* However the calls interleave, each line takes effect in one piece.
ImplementsAtomic == Atomic!Spec
=============================================================================
