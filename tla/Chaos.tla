--------------------------------- MODULE Chaos ---------------------------------
(***************************************************************************)
(* chaos/: six ways of wrapping one fetch, measured against a dependency   *)
(* that goes wrong in nine ways, over a real socket and over a stubbed     *)
(* fetch.  A column of the table is one fault at one layer: each policy in *)
(* turn makes a series of three calls, each call up to three attempts.     *)
(*                                                                         *)
(* Time is counted in units of BUDGET_MS and starts again with every call. *)
(* What takes less (an answer over loopback, the 20 ms before a reset)     *)
(* takes none.  A call the deadline abandoned waits for an answer that     *)
(* never comes, so nothing of it is kept.                                  *)
(*                                                                         *)
(* Besides the nine columns there is "changing" weather, where every       *)
(* request of one policy meets a fault of its own: what the policies are   *)
(* for, and no cell measures.                                              *)
(***************************************************************************)
EXTENDS Integers, Sequences

CONSTANTS Columns   \* <<layer, weather>>: the columns to measure

Policies == <<"bare", "race-timeout", "signal-timeout", "retry-5xx", "retry-any", "breaker">>
FixedWeather == {"healthy", "slow-headers", "slow-body", "error-500", "transient-500",
                 "malformed-body", "connection-refused", "reset-mid-body", "black-hole"}
Layers == {"socket", "fetch-stub"}

ASSUME ColumnAssumption == Columns \subseteq Layers \X (FixedWeather \union {"changing"})

\* timings.ts, in budgets.
Budget == 1
Injected == 9
Deadline == 15
WaitedOutFloor == 6
Never == 99

MaxAttempts == 3
BreakerThreshold == 2
SeriesLength == 3

VARIABLES
  column,    \* the column of this behaviour
  toRun,     \* policies whose series has not begun
  policy,    \* the policy of the series under way
  callNo,    \* calls of the series begun
  attempt,   \* attempts of the call begun
  step,      \* "idle", "attempting", "headers", "body", "settled"
  clock,     \* time since the call began
  sentAt,    \* the clock when the attempt's request was sent
  meets,     \* the fault its answer meets
  failures,  \* the breaker's consecutive failures
  spentOn,   \* URLs that got their one 500 of transient-500
  requests,  \* requests of the series, as the harness counts them
  originHits, \* requests of the column, as the origin counts them
  outcome    \* how the last call ended

callVars == <<attempt, step, clock, sentAt, meets>>
chaosVars == <<column, toRun, policy, callNo, callVars, failures, spentOn, requests,
               originHits, outcome>>

Layer == column[1]
Weather == column[2]

ChaosInit ==
  /\ column = <<"none", "none">> /\ toRun = <<>> /\ policy = "none"
  /\ callNo = 0 /\ attempt = 0 /\ step = "idle" /\ clock = 0 /\ sentAt = 0 /\ meets = "none"
  /\ failures = 0 /\ spentOn = {} /\ requests = 0 /\ originHits = 0
  /\ outcome = "none"

ChaosIdle == column = <<"none", "none">>

PickColumn ==
  /\ ChaosIdle
  /\ column' \in Columns
  /\ IF column'[2] = "changing" THEN \E i \in 1..Len(Policies) : toRun' = <<Policies[i]>>
     ELSE toRun' = Policies
  /\ UNCHANGED <<policy, callNo, callVars, failures, spentOn, requests, originHits, outcome>>

\* runSeries: a wiring of its own, so a breaker of its own.
StartSeries ==
  /\ step = "idle" /\ toRun # <<>>
  /\ policy' = Head(toRun) /\ toRun' = Tail(toRun)
  /\ callNo' = 0 /\ failures' = 0 /\ requests' = 0
  /\ step' = "settled"
  /\ UNCHANGED <<column, attempt, clock, sentAt, meets, spentOn, originHits, outcome>>

StartCall ==
  /\ step = "settled" /\ callNo < SeriesLength
  /\ callNo' = callNo + 1
  /\ attempt' = 0 /\ clock' = 0 /\ step' = "attempting"
  /\ UNCHANGED <<column, toRun, policy, sentAt, meets, failures, spentOn, requests, originHits,
                 outcome>>

-----------------------------------------------------------------------------
\* The dependency: when the headers and the body of an answer come, counted
\* from the request, and what they bring.
HeadersAfter(fault) == IF fault = "slow-headers" THEN Injected
                       ELSE IF fault = "black-hole" THEN Never ELSE 0
BodyAfter(fault) == IF fault = "slow-body" THEN Injected ELSE HeadersAfter(fault)
Brings(fault) == CASE fault = "malformed-body" -> "malformed"
                   [] fault = "reset-mid-body" -> "reset"
                   [] fault \in {"error-500", "transient-500"} -> "wrong-body"
                   [] OTHER -> "ok"

Attempts == IF policy \in {"retry-5xx", "retry-any", "breaker"} THEN MaxAttempts ELSE 1

\* Slip: the breaker is looked at before the loop, not in it.
OpenAtFirst == policy = "breaker" /\ attempt = 0 /\ failures >= BreakerThreshold

Open == policy = "breaker" /\ failures >= BreakerThreshold

\* transient-500 answers 500 once for every URL, and every call has its own.
Url == <<policy, callNo>>
\* Slip: it does so once in all.
SeenOnce(fault) == IF fault = "transient-500" /\ spentOn # {} THEN "healthy" ELSE fault

Seen(fault) == IF fault = "transient-500" /\ Url \in spentOn THEN "healthy" ELSE fault

\* The next attempt, unless the breaker declines to call.
Send ==
  /\ step = "attempting" /\ ~Open
  /\ \E fault \in (IF Weather = "changing" THEN FixedWeather ELSE {Weather}) :
     /\ meets' = Seen(fault)
     /\ spentOn' = IF fault = "transient-500" THEN spentOn \union {Url} ELSE spentOn
     /\ originHits' = IF Layer = "socket" /\ fault # "connection-refused" THEN originHits + 1
                      ELSE originHits
  /\ attempt' = attempt + 1 /\ requests' = requests + 1
  /\ sentAt' = clock
  /\ step' = "headers"
  /\ UNCHANGED <<column, toRun, policy, callNo, clock, failures, outcome>>

Decline ==
  /\ step = "attempting" /\ Open
  /\ outcome' = "breaker-open" /\ step' = "settled"
  /\ UNCHANGED <<column, toRun, policy, callNo, attempt, clock, sentAt, meets, failures, spentOn,
                 requests, originHits>>

\* The attempt threw: again, or give the error to the caller.
Retries(error) == CASE policy = "retry-5xx" -> error = "http-error"
                    [] policy \in {"retry-any", "breaker"} -> TRUE
                    [] OTHER -> FALSE

Throw(error) ==
  /\ failures' = IF policy = "breaker" THEN failures + 1 ELSE failures
  /\ IF Retries(error) /\ attempt < Attempts
     THEN step' = "attempting" /\ UNCHANGED outcome
     ELSE step' = "settled" /\ outcome' = error

Return(body) == step' = "settled" /\ outcome' = body /\ failures' = 0

\* fetch() resolves, or rejects before there is an answer.  Only `bare` takes
\* the body of a 500 for an answer.
HeadersArrive ==
  /\ step = "headers" /\ clock >= sentAt + HeadersAfter(meets)
  /\ CASE meets = "connection-refused" -> Throw("refused")
       [] meets \in {"error-500", "transient-500"} /\ policy # "bare" -> Throw("http-error")
       [] OTHER -> step' = "body" /\ UNCHANGED <<failures, outcome>>
  /\ UNCHANGED <<column, toRun, policy, callNo, attempt, clock, sentAt, meets, spentOn, requests,
                 originHits>>

BodyArrives ==
  /\ step = "body" /\ clock >= sentAt + BodyAfter(meets)
  /\ IF Brings(meets) \in {"malformed", "reset"} THEN Throw(Brings(meets)) ELSE Return(Brings(meets))
  /\ UNCHANGED <<column, toRun, policy, callNo, attempt, clock, sentAt, meets, spentOn, requests,
                 originHits>>

\* Slip: the signal of the first attempt serves them all.
GuardedSinceFirst ==
  CASE policy = "bare" -> FALSE
    [] policy = "race-timeout" -> step = "headers"
    [] OTHER -> Layer = "socket" /\ attempt = 1

\* What the attempt's timeout still guards: the race ends with the headers, and
\* the stub never looks at a signal.
Guarded ==
  CASE policy = "bare" -> FALSE
    [] policy = "race-timeout" -> step = "headers"
    [] OTHER -> Layer = "socket"

BudgetFires ==
  /\ step \in {"headers", "body"} /\ Guarded /\ clock >= sentAt + Budget
  /\ Throw("aborted")
  /\ UNCHANGED <<column, toRun, policy, callNo, attempt, clock, sentAt, meets, spentOn, requests,
                 originHits>>

\* observe(): the harness waits no longer.
DeadlinePasses ==
  /\ step \in {"headers", "body"} /\ clock >= Deadline
  /\ step' = "settled" /\ outcome' = "hung"
  /\ UNCHANGED <<column, toRun, policy, callNo, attempt, clock, sentAt, meets, failures, spentOn,
                 requests, originHits>>

\* Time passes when nothing is due.
Due == \/ step = "headers" /\ clock >= sentAt + HeadersAfter(meets)
       \/ step = "body" /\ clock >= sentAt + BodyAfter(meets)
       \/ Guarded /\ clock >= sentAt + Budget
       \/ clock >= Deadline

Wait ==
  /\ step \in {"headers", "body"} /\ ~Due
  /\ clock' = clock + 1
  /\ UNCHANGED <<column, toRun, policy, callNo, attempt, step, sentAt, meets, failures, spentOn,
                 requests, originHits, outcome>>

Band(elapsed) == IF elapsed >= Deadline THEN "deadline"
                 ELSE IF elapsed >= WaitedOutFloor THEN "waited-out" ELSE "prompt"

\* The cell is the last call's outcome and band, and the series' requests.
Cell == <<outcome, Band(clock), requests>>
Ended == step = "settled" /\ callNo = SeriesLength

EndSeries ==
  /\ Ended
  /\ step' = "idle"
  /\ policy' = "none" /\ outcome' = "none"
  /\ callNo' = 0 /\ attempt' = 0 /\ clock' = 0 /\ sentAt' = 0 /\ meets' = "none"
  /\ failures' = 0 /\ requests' = 0
  /\ UNCHANGED <<column, toRun, spentOn, originHits>>

ChaosNext ==
  \/ PickColumn \/ StartSeries \/ StartCall \/ Send \/ Decline
  \/ HeadersArrive \/ BodyArrives \/ BudgetFires \/ DeadlinePasses \/ Wait \/ EndSeries

ChaosSpec == ChaosInit /\ [][ChaosNext]_chaosVars

-----------------------------------------------------------------------------
\* matrix.ts: both tables, as the repository publishes them.
Repeats == {"retry-5xx", "retry-any"}
Signals == {"signal-timeout", "retry-5xx", "retry-any", "breaker"}

PublishedError(fault) ==
  CASE fault = "malformed-body" -> "malformed"
    [] fault = "connection-refused" -> "refused"
    [] fault = "reset-mid-body" -> "reset"

Published ==
  LET overStub == Layer = "fetch-stub"
      late == {"slow-headers", "slow-body"}
      times == CASE policy = "retry-any" -> 9 [] OTHER -> 3
  IN
  CASE Weather = "healthy" -> <<"ok", "prompt", 3>>
    [] policy = "bare" ->
         (CASE Weather \in late -> <<"ok", "waited-out", 3>>
            [] Weather \in {"error-500", "transient-500"} -> <<"wrong-body", "prompt", 3>>
            [] Weather = "black-hole" -> <<"hung", "deadline", 3>>
            [] OTHER -> <<PublishedError(Weather), "prompt", 3>>)
    [] policy = "race-timeout" /\ Weather = "slow-body" -> <<"ok", "waited-out", 3>>
    [] policy = "race-timeout" /\ Weather \in {"slow-headers", "black-hole"} -> <<"aborted", "prompt", 3>>
    [] overStub /\ Weather \in late -> <<"ok", "waited-out", 3>>
    [] overStub /\ Weather = "black-hole" -> <<"hung", "deadline", 3>>
    [] Weather = "transient-500" /\ policy \in Repeats \union {"breaker"} -> <<"ok", "prompt", 6>>
    [] policy = "breaker" -> <<"breaker-open", "prompt", 2>>
    [] Weather \in late \union {"black-hole"} -> <<"aborted", "prompt", times>>
    [] Weather = "error-500" /\ policy \in Repeats -> <<"http-error", "prompt", 9>>
    [] Weather \in {"error-500", "transient-500"} -> <<"http-error", "prompt", 3>>
    [] OTHER -> <<PublishedError(Weather), "prompt", times>>

PublishedHits ==
  CASE Weather = "healthy" -> 18 [] Weather = "connection-refused" -> 0
    [] Weather = "error-500" -> 29 [] Weather = "transient-500" -> 27 [] OTHER -> 23

\* Every cell of the two tables, and what the origin counted of every column
\* (matrix.ts:81-123), follow from the policies' code and the two transports.
CellsAsPublished ==
  Weather \notin {"none", "changing"} =>
    /\ Ended => Cell = Published
    /\ step = "idle" /\ toRun = <<>> /\ Layer = "socket" => originHits = PublishedHits

\* "the timeout around the whole call rather than around the request"
\* (policies.ts:89): over a socket, whatever the dependency does, a call that
\* passes a signal settles within a budget per attempt.
SignalBoundsTheCall ==
  Layer = "socket" /\ policy \in Signals => clock <= Budget * Attempts /\ outcome # "hung"

\* "a dependency that is down is not called again" (policies.ts:105): two
\* failures in a row, of one call or of two, and the series sends nothing more.
OpenBreakerIsSilent ==
  [][policy = "breaker" /\ policy' = policy /\ failures >= BreakerThreshold =>
       requests' = requests /\ outcome' \in {outcome, "breaker-open"}]_chaosVars
=============================================================================
