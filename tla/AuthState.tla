------------------------------ MODULE AuthState ------------------------------
(***************************************************************************)
(* The isolation runs of authstate/: for one strategy, `playwright test`   *)
(* with two workers that meet at barriers (the parallel phase), then with  *)
(* one worker whose second test fails once (the restart phase), each from  *)
(* an empty origin and an empty auth directory, and then the verdict.      *)
(*                                                                         *)
(* A worker is one process with a workerIndex at a parallelIndex, which is *)
(* its slot.  Each of its requests is a step; it may die between any two   *)
(* of them and any request that is parked may meet its deadline.           *)
(***************************************************************************)
EXTENDS Origin, Verdicts

CONSTANTS Cells,     \* the strategies to measure
          MaxDeaths  \* bound on workers that die of something else

\* scope, acquisition and needsSetup of the five strategies.
Strategies ==
  [n \in {"shared-lazy", "shared-file", "per-parallel-index", "per-worker-index", "per-test"} |->
    CASE n = "shared-lazy" -> [scope |-> "run", acquisition |-> "sign-in"]
      [] n = "shared-file" -> [scope |-> "run", acquisition |-> "restore-only"]
      [] n = "per-parallel-index" -> [scope |-> "parallel-index", acquisition |-> "save-and-restore"]
      [] n = "per-worker-index" -> [scope |-> "worker-index", acquisition |-> "save-and-restore"]
      [] n = "per-test" -> [scope |-> "test", acquisition |-> "sign-in"]]

ASSUME CellAssumption == Cells \subseteq DOMAIN Strategies /\ MaxDeaths \in Nat

VARIABLES
  strategy,
  phase,      \* "parallel", "restart", then "judged" or "failed"
  results,    \* what the finished runs report: [rows, logins]
  disturbed,  \* something went wrong that the suite did not ask for
  deaths,
  files,      \* the auth directory: slot name -> the session saved there
  setUp,      \* the setup project has been passed, or there is none
  jobs,       \* slot -> [test, retry] left for it
  workers,    \* how many workers this run has started: the next workerIndex
  worker,     \* slot -> its worker's workerIndex, or NoWorker
  pc, session, me, notes  \* slot -> where its worker is and what it holds

driverVars == <<strategy, phase, results>>
faultVars == <<disturbed, deaths>>
runVars == <<files, setUp, jobs, workers, worker>>
workerVars == <<pc, session, me, notes>>
vars == <<driverVars, faultVars, runVars, workerVars, originVars>>

NoWorker == -1
Slots == 1..2
Scope == Strategies[strategy].scope
Acquisition == Strategies[strategy].acquisition
NeedsSetup == Acquisition = "restore-only"

Test(s) == Head(jobs[s]).test
Retry(s) == Head(jobs[s]).retry
Attempt(test) == [test |-> test, retry |-> 0]

\* The playwright config: who runs what, and how often again.
Setup == << <<Attempt("setup")>>, <<>> >>
Measure(p) == IF p = "parallel" THEN << <<Attempt("alpha")>>, <<Attempt("beta")>> >>
              ELSE << <<Attempt("before"), Attempt("trigger"), Attempt("after")>>, <<>> >>
Retries == IF phase = "restart" THEN 1 ELSE 0
Meeting == phase = "parallel" /\ Parties >= 2

\* Slip: the account is named after the workerIndex.
AccountByWorker(s) ==
  CASE Scope = "run" -> <<"shared", 0>> [] Scope = "test" -> <<"test", Test(s)>>
    [] OTHER -> <<"w", worker[s]>>

\* Slip: a worker's account is named after its slot, which outlives it.
AccountBySlot(s) ==
  CASE Scope = "run" -> <<"shared", 0>> [] Scope = "test" -> <<"test", Test(s)>>
    [] Scope = "parallel-index" -> <<"p", s>> [] OTHER -> <<"w", s>>

\* accountFor: the account's email, and the name of its file.
Account(s) ==
  CASE Scope = "run" -> <<"shared", 0>>
    [] Scope = "parallel-index" -> <<"p", s>>
    [] Scope = "worker-index" -> <<"w", worker[s]>>
    [] Scope = "test" -> <<"test", Test(s)>>

\* A run starts with the setup project if there is one.
FirstJobs(p) == IF NeedsSetup THEN Setup ELSE Measure(p)

Init ==
  /\ OriginInit
  /\ strategy \in Cells /\ phase = "parallel" /\ results = <<>>
  /\ disturbed = FALSE /\ deaths = 0
  /\ files = <<>> /\ setUp = ~NeedsSetup /\ jobs = FirstJobs("parallel")
  /\ workers = 0 /\ worker = [s \in Slots |-> NoWorker]
  /\ pc = [s \in Slots |-> "idle"] /\ session = [s \in Slots |-> NoSession]
  /\ me = [s \in Slots |-> 0] /\ notes = [s \in Slots |-> <<>>]

-----------------------------------------------------------------------------
Goto(s, place) == pc' = [pc EXCEPT ![s] = place]
Holding(s) == UNCHANGED <<session, me, notes>>

\* The slot's worker, a new one if the last was discarded, takes the next test.
Begin(s) ==
  /\ pc[s] = "idle" /\ jobs[s] # <<>>
  /\ IF worker[s] = NoWorker
     THEN worker' = [worker EXCEPT ![s] = workers] /\ workers' = workers + 1
     ELSE UNCHANGED <<worker, workers>>
  /\ Goto(s, IF session[s] = NoSession THEN "session" ELSE "signed-in")
  /\ Holding(s) /\ UNCHANGED <<driverVars, faultVars, files, setUp, jobs, originVars>>

\* The test is over: a session of its own is disposed of, a worker's is kept.
Complete(s) ==
  /\ jobs' = [jobs EXCEPT ![s] = Tail(@)]
  /\ session' = [session EXCEPT ![s] = IF Scope = "test" \/ Test(s) = "setup" THEN NoSession ELSE @]
  /\ Goto(s, "idle")
  /\ me' = [me EXCEPT ![s] = 0] /\ notes' = [notes EXCEPT ![s] = <<>>]
  /\ UNCHANGED <<setUp, workers, worker>>

\* The test fails and its worker is discarded; a retry goes before or after
\* what is left.
Discard(s) ==
  LET left == Tail(jobs[s])
      again == <<[Head(jobs[s]) EXCEPT !.retry = @ + 1]>>
  IN
  /\ \E rest \in IF Retry(s) < Retries THEN {again \o left, left \o again} ELSE {left} :
       jobs' = [jobs EXCEPT ![s] = rest]
  /\ worker' = [worker EXCEPT ![s] = NoWorker]
  /\ Goto(s, "idle")
  /\ session' = [session EXCEPT ![s] = NoSession]
  /\ me' = [me EXCEPT ![s] = 0] /\ notes' = [notes EXCEPT ![s] = <<>>]
  /\ UNCHANGED <<files, setUp, workers>>

-----------------------------------------------------------------------------
\* buildSession: restore the slot's file, or go and sign in.
Acquire(s) ==
  LET saved == Account(s) \in DOMAIN files
      restores == Test(s) # "setup" /\ (Acquisition = "restore-only" \/ (Acquisition = "save-and-restore" /\ saved))
  IN
  /\ pc[s] = "session"
  /\ \/ ~restores /\ Goto(s, "login") /\ Holding(s) /\ UNCHANGED runVars
     \/ /\ restores /\ saved
        /\ session' = [session EXCEPT ![s] = files[Account(s)]]
        /\ Goto(s, "signed-in") /\ UNCHANGED <<me, notes, runVars>>
     \/ restores /\ ~saved /\ Discard(s)
  /\ UNCHANGED <<driverVars, faultVars, originVars>>

LogIn(s) ==
  /\ pc[s] = "login"
  /\ Login(Account(s))
  /\ session' = [session EXCEPT ![s] = counter']
  /\ Goto(s, "save")
  /\ UNCHANGED <<driverVars, faultVars, runVars, me, notes, ledger, barrierVars>>

\* context.storageState: the session is written to the slot's file.
Save(s) ==
  /\ pc[s] = "save"
  /\ files' = Put(files, Account(s), session[s])
  /\ \/ Test(s) = "setup" /\ Complete(s)
     \/ Test(s) # "setup" /\ Goto(s, "signed-in") /\ Holding(s) /\ UNCHANGED <<setUp, jobs, workers, worker>>
  /\ UNCHANGED <<driverVars, faultVars, originVars>>

-----------------------------------------------------------------------------
At(name) == IF name = "signed-in" THEN "at-signed-in" ELSE "at-written"
After(s, name) == IF name = "signed-in" THEN "me" ELSE IF me[s] = 200 THEN "read" ELSE "file"

\* rendezvous: ask for the barrier, unless one worker runs alone, ...
Meet(s, name) ==
  /\ pc[s] = name
  /\ \/ ~Meeting /\ Goto(s, After(s, name)) /\ UNCHANGED barrierVars
     \/ Meeting /\ Arrive(name, worker[s]) /\ Goto(s, At(name))
  /\ Holding(s) /\ UNCHANGED <<driverVars, faultVars, runVars, accountVars, ledger>>

\* Slip: the answer's status is not looked at.
AnsweredAnyhow(s, name) ==
  /\ pc[s] = At(name) /\ <<name, worker[s]>> \in DOMAIN reply
  /\ Goto(s, After(s, name)) /\ Holding(s)
  /\ UNCHANGED <<driverVars, faultVars, runVars, originVars>>

\* ... and go on when it opens; a 504 fails the test.
Answered(s, name) ==
  LET request == <<name, worker[s]>> IN
  /\ pc[s] = At(name) /\ request \in DOMAIN reply
  /\ \/ reply[request] = 200 /\ Goto(s, After(s, name)) /\ Holding(s) /\ UNCHANGED runVars
     \/ reply[request] # 200 /\ Discard(s)
  /\ UNCHANGED <<driverVars, faultVars, originVars>>

Me(s) ==
  /\ pc[s] = "me"
  /\ me' = [me EXCEPT ![s] = IF Authenticated(session[s]) THEN 200 ELSE 401]
  /\ Goto(s, IF Authenticated(session[s]) THEN "write" ELSE "written")
  /\ UNCHANGED <<driverVars, faultVars, runVars, session, notes, originVars>>

Write(s) ==
  /\ pc[s] = "write"
  /\ \/ /\ Authenticated(session[s])
        /\ WriteNote(session[s], Test(s))
        /\ Goto(s, "written") /\ Holding(s) /\ UNCHANGED runVars
     \/ ~Authenticated(session[s]) /\ Discard(s) /\ UNCHANGED accountVars
  /\ UNCHANGED <<driverVars, faultVars, ledger, barrierVars>>

Read(s) ==
  /\ pc[s] = "read"
  /\ \/ /\ Authenticated(session[s])
        /\ notes' = [notes EXCEPT ![s] = NotesOf(session[s])]
        /\ Goto(s, "file") /\ UNCHANGED <<session, me, runVars>>
     \/ ~Authenticated(session[s]) /\ Discard(s)
  /\ UNCHANGED <<driverVars, faultVars, originVars>>

\* The row is filed before the test that is to fail throws.
File(s) ==
  /\ pc[s] = "file"
  /\ FileRow([phase |-> phase, marker |-> Test(s), worker |-> worker[s], slot |-> s, retry |-> Retry(s),
              email |-> Account(s), me |-> me[s], notes |-> notes[s]])
  /\ \/ Test(s) = "trigger" /\ Retry(s) = 0 /\ Discard(s)
     \/ ~(Test(s) = "trigger" /\ Retry(s) = 0) /\ Complete(s) /\ UNCHANGED files
  /\ UNCHANGED <<driverVars, faultVars, accountVars, barrierVars>>

-----------------------------------------------------------------------------
\* The worker's process dies in the middle of a test.
Die(s) ==
  /\ pc[s] # "idle" /\ deaths < MaxDeaths
  /\ deaths' = deaths + 1 /\ disturbed' = TRUE
  /\ Discard(s)
  /\ UNCHANGED <<driverVars, originVars>>

Deadline ==
  /\ \E r \in timers : Expire(r)
  /\ disturbed' = TRUE
  /\ UNCHANGED <<driverVars, deaths, runVars, workerVars, accountVars, ledger>>

Quiet == \A s \in Slots : pc[s] = "idle" /\ jobs[s] = <<>>
SetupSaved == <<"shared", 0>> \in DOMAIN files

\* The setup project has passed: the projects that depend on it start, with
\* workers of their own.
StartMeasure ==
  /\ Quiet /\ ~setUp /\ SetupSaved
  /\ setUp' = TRUE /\ jobs' = Measure(phase)
  /\ worker' = [s \in Slots |-> NoWorker]
  /\ UNCHANGED <<driverVars, faultVars, files, workers, workerVars, originVars>>

\* runPhase is over, and a run that filed nothing fails the measurement.
RunIsOver == Quiet /\ (setUp \/ ~SetupSaved) /\ phase \in {"parallel", "restart"}

FailRun ==
  /\ RunIsOver /\ ledger = <<>>
  /\ phase' = "failed"
  /\ UNCHANGED <<strategy, results, faultVars, runVars, workerVars, originVars>>

Report(next) ==
  /\ RunIsOver /\ ledger # <<>>
  /\ phase' = next /\ results' = Append(results, [rows |-> ledger, logins |-> logins])
  /\ UNCHANGED <<strategy, faultVars, pc, me, notes>>

\* The next one starts from an empty origin and an empty auth directory.
EndParallel ==
  /\ phase = "parallel" /\ Report("restart")
  /\ Reset
  /\ files' = <<>> /\ setUp' = ~NeedsSetup /\ jobs' = FirstJobs("restart")
  /\ workers' = 0 /\ worker' = [s \in Slots |-> NoWorker]
  /\ session' = [s \in Slots |-> NoSession]

EndRestart ==
  /\ phase = "restart" /\ Report("judged")
  /\ UNCHANGED <<runVars, session, originVars>>

Step(s) == \/ Begin(s) \/ Acquire(s) \/ LogIn(s) \/ Save(s)
           \/ \E name \in Barriers : Meet(s, name) \/ Answered(s, name)
           \/ Me(s) \/ Write(s) \/ Read(s) \/ File(s)

Next == \/ \E s \in Slots : Step(s) \/ Die(s)
        \/ Deadline \/ StartMeasure \/ FailRun \/ EndParallel \/ EndRestart

Spec == Init /\ [][Next]_vars

\* The runner keeps its workers going, timers fire, the driver awaits the run.
Fairness == /\ \A s \in Slots : WF_vars(Step(s))
            /\ WF_vars(Deadline) /\ WF_vars(StartMeasure \/ FailRun \/ EndParallel \/ EndRestart)

FairSpec == Spec /\ Fairness

-----------------------------------------------------------------------------
\* EXPECTED_ISOLATION
Expected ==
  LET Cell(e, m, i, l, a) == [eviction |-> e, mutation |-> m, inheritance |-> i, logins |-> l, accounts |-> a] IN
  [n \in DOMAIN Strategies |->
    CASE n = "shared-lazy" -> Cell("evicted", "unreachable", "inherited", 4, 2)
      [] n = "shared-file" -> Cell("survives", "collided", "inherited", 2, 2)
      [] n = "per-parallel-index" -> Cell("survives", "isolated", "inherited", 3, 3)
      [] n = "per-worker-index" -> Cell("survives", "isolated", "fresh", 4, 4)
      [] n = "per-test" -> Cell("survives", "isolated", "fresh", 6, 5)]

\* The table is what the runs measure, in every order in which two workers get
\* to their barriers and in which the runner retries, if nothing else went wrong.
AsDeclared ==
  phase \in {"judged", "failed"} /\ ~disturbed =>
    phase = "judged" /\ DeriveRow(results[1], results[2]) = Expected[strategy]

\* Every run ends, with a verdict or a failure: nobody is parked for ever on a
\* barrier whose other party has died (server.ts:17-23).
EveryRunEnds == <>(phase \in {"judged", "failed"})

\* measure.ts:11-18, "the barriers are the determinism": while two workers meet,
\* nobody is past a barrier that the other has yet to reach, unless the other
\* will never come.  A request that was given up still counts as its worker's.
Before(name) ==
  {"idle", "session", "login", "save", "signed-in"}
    \union (IF name = "signed-in" THEN {} ELSE {"at-signed-in", "me", "write", "written"})

NobodyGoesAhead ==
  Meeting =>
    \A name \in Barriers : \A s, t \in Slots :
      s # t /\ pc[s] \notin Before(name) \union {At(name)} /\ jobs[t] # <<>> => pc[t] \notin Before(name)

\* isolation.ts:45-70, in the runs that went wrong too: whatever dies and
\* whoever misses a deadline, no row shows a hazard its strategy is cleared of.
\* Only shared-lazy signs anybody out, and an account that is new to a test (its
\* own, its slot's in the parallel run, a worker's first) holds nothing else's.
NewTo(i) ==
  \/ Scope = "test"
  \/ Scope = "parallel-index" /\ ledger[i].phase = "parallel"
  \/ Scope = "worker-index" /\ \A j \in 1..(i - 1) : ledger[j].worker # ledger[i].worker

ClearedStaysCleared ==
  \A i \in DOMAIN ledger :
    /\ strategy # "shared-lazy" => ledger[i].me = 200
    /\ NewTo(i) => ToSet(ledger[i].notes) \subseteq {ledger[i].marker}

\* server.ts:21-23: a parked request gets its time and then a 504.  It is
\* answered by the barrier or by the deadline, not by both.
AnsweredOnce == ~unhandled

\* isolation.ts:76-78: "inherited" is two rows at one slot, of different workers,
\* with one account.
InheritedAsRead ==
  phase = "judged" /\ ~disturbed =>
    LET rows == results[2].rows IN
    (\E i, j \in DOMAIN rows : /\ rows[i].slot = rows[j].slot /\ rows[i].worker # rows[j].worker
                               /\ rows[i].email = rows[j].email)
      => InheritanceVerdict(rows) = "inherited"
=============================================================================
