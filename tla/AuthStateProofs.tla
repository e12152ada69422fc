---------------------------- MODULE AuthStateProofs ----------------------------
(***************************************************************************)
(* Theorems about AuthState, for any bound on deaths, any number of        *)
(* parties a barrier is opened for and any choice of the strategies.       *)
(***************************************************************************)
EXTENDS AuthState, SequenceTheorems, TLAPS

Markers == {"setup", "alpha", "beta", "before", "trigger", "after"}
Tasks == [test : Markers, retry : Nat]
Places == {"idle", "session", "login", "save", "signed-in", "at-signed-in", "me", "write", "written",
           "at-written", "read", "file"}
Emails == ({"shared", "p", "w"} \X Nat) \union ({"test"} \X Markers)
Requests == Barriers \X Nat
Phases == {"parallel", "restart", "judged", "failed"}
Rows == [phase : Phases, marker : Markers, worker : Nat, slot : Slots, retry : Nat,
         email : Emails, me : {0, 200, 401}, notes : Seq(Markers)]

RunTyped ==
  /\ strategy \in DOMAIN Strategies
  /\ phase \in Phases
  /\ setUp \in BOOLEAN /\ jobs \in [Slots -> Seq(Tasks)]
  /\ workers \in Nat /\ worker \in [Slots -> Nat \union {NoWorker}]

WorkerTyped ==
  /\ pc \in [Slots -> Places] /\ session \in [Slots -> Nat]
  /\ me \in [Slots -> {0, 200, 401}] /\ notes \in [Slots -> Seq(Markers)]

OriginTyped ==
  /\ counter \in Nat /\ ledger \in Seq(Rows)
  /\ \A e \in DOMAIN accounts : accounts[e] \in [session : Nat, notes : Seq(Markers)]
  /\ waiting \in [Barriers -> Seq(Nat)] /\ timers \subseteq Requests /\ DOMAIN reply \subseteq Requests

TypeOK == RunTyped /\ WorkerTyped /\ OriginTyped

-----------------------------------------------------------------------------
Own == <<"alpha", "beta">>  \* the one test of each slot in the parallel run

\* What is left to do, and by whom.
Staged ==
  /\ ~setUp =>
       /\ strategy = "shared-file" /\ ledger = <<>>
       /\ \A name \in Barriers : waiting[name] = <<>>
       /\ \A s \in Slots : pc[s] \in {"idle", "session", "login", "save"}
       /\ jobs[1] # <<>> => Len(jobs[1]) = 1 /\ Test(1) = "setup" /\ files = <<>>
  /\ setUp => \A s \in Slots : \A i \in 1..Len(jobs[s]) : jobs[s][i].test # "setup"
  /\ phase = "parallel" => \A s \in Slots : Len(jobs[s]) \in {0, 1} /\ (setUp /\ jobs[s] # <<>> => Test(s) = Own[s])
  /\ phase # "parallel" \/ ~setUp => jobs[2] = <<>>
  /\ phase \in {"judged", "failed"} => Quiet /\ (setUp \/ ~SetupSaved)

\* Workers have numbers of their own, and nobody works without one.
Numbered ==
  /\ \A s \in Slots : worker[s] # NoWorker => worker[s] < workers
  /\ worker[1] = worker[2] => worker[1] = NoWorker
  /\ \A s \in Slots : pc[s] # "idle" => jobs[s] # <<>> /\ worker[s] # NoWorker
  /\ \A i \in 1..Len(ledger) : ledger[i].worker < workers

-----------------------------------------------------------------------------
\* The two maps of the origin agree: an account's live session is its last one.
Agree ==
  /\ \A c \in DOMAIN sessions :
       c \in 1..counter /\ sessions[c] \in DOMAIN accounts /\ accounts[sessions[c]].session = c
  /\ \A e \in DOMAIN accounts :
       accounts[e].session \in DOMAIN sessions /\ sessions[accounts[e].session] = e

Alive(cookie, email) == cookie \in DOMAIN sessions /\ sessions[cookie] = email

\* Who has a session; and, but under shared-lazy, it is alive and of its own
\* account, as what is saved to be restored is.
Holds(s) ==
  /\ pc[s] \in {"session", "login"} => session[s] = NoSession
  /\ pc[s] \notin {"idle", "session", "login"} => session[s] # NoSession
  /\ pc[s] = "idle" /\ (Scope = "test" \/ ~setUp \/ worker[s] = NoWorker) => session[s] = NoSession
  /\ strategy # "shared-lazy" /\ session[s] # NoSession => Alive(session[s], Account(s))

SignsIn(s) ==
  pc[s] \in {"login", "save"} => Account(s) \notin DOMAIN files /\ (Acquisition = "restore-only" => ~setUp)

Held ==
  /\ \A s \in Slots : Holds(s)
  /\ Acquisition # "sign-in" =>
       /\ \A f \in DOMAIN files : Alive(files[f], f)
       /\ \A s \in Slots : SignsIn(s)

\* A request with a live session is taken for its account's.
Asking == {"write", "written", "at-written", "read", "file"}
Taken ==
  strategy # "shared-lazy" =>
    /\ \A s \in Slots : pc[s] \in Asking => me[s] = 200
    /\ \A i \in 1..Len(ledger) : ledger[i].me = 200

-----------------------------------------------------------------------------
NoRowOf(w) == \A i \in 1..Len(ledger) : ledger[i].worker # w
Only(list, marker) == \A i \in 1..Len(list) : list[i] = marker

\* The account is new to the test the slot is at.
NewHere(s) ==
  \/ Scope = "test"
  \/ Scope = "parallel-index" /\ phase = "parallel"
  \/ Scope = "worker-index" /\ NoRowOf(worker[s])

\* What is in the accounts before anybody comes.
Unused ==
  /\ Scope = "test" => \A e \in DOMAIN accounts : \E m \in Markers : e = <<"test", m>> /\ Only(accounts[e].notes, m)
  /\ Scope = "parallel-index" /\ phase = "parallel" =>
       \A s \in Slots : <<"p", s>> \in DOMAIN accounts => Only(accounts[<<"p", s>>].notes, Own[s])
  /\ Scope = "worker-index" =>
       /\ \A e \in DOMAIN accounts : \E w \in 0..(workers - 1) : e = <<"w", w>>
       /\ \A s \in Slots : pc[s] = "idle" /\ worker[s] # NoWorker => ~NoRowOf(worker[s])

\* What a test finds where nobody has been but itself.
Clean ==
  \A s \in Slots :
    /\ pc[s] # "file" => notes[s] = <<>>
    /\ pc[s] # "idle" /\ NewHere(s) =>
         /\ Account(s) \in DOMAIN accounts => Only(accounts[Account(s)].notes, Test(s))
         /\ Only(notes[s], Test(s))

Filed ==
  \A i \in 1..Len(ledger) : NewTo(i) => Only(ledger[i].notes, ledger[i].marker)

-----------------------------------------------------------------------------
\* s has reached the barrier, or will never come.
Reached(name, s) == jobs[s] = <<>> \/ pc[s] \notin Before(name)

\* No request bears the name of one that is still to be made.
Asked == DOMAIN reply \union timers \union UNION {{name} \X ToSet(waiting[name]) : name \in Barriers}
Unasked ==
  phase = "parallel" =>
    /\ \A r \in Asked : r[2] < workers
    /\ \A name \in Barriers : \A s \in Slots :
         jobs[s] # <<>> /\ pc[s] \in Before(name) => <<name, worker[s]>> \notin Asked

\* Where somebody waits one at most is still to come, and whoever is let
\* through is the last.
Opens ==
  Meeting =>
    \A name \in Barriers : \A s, t \in Slots : s # t =>
      /\ waiting[name] # <<>> => Reached(name, s) \/ Reached(name, t)
      /\ pc[s] = At(name) /\ <<name, worker[s]>> \in DOMAIN reply /\ reply[<<name, worker[s]>>] = 200
           => Reached(name, t)

IInv == /\ TypeOK /\ Staged /\ Numbered /\ Agree /\ Held /\ Taken /\ Unused /\ Clean /\ Filed
        /\ Unasked /\ Opens /\ NobodyGoesAhead

-----------------------------------------------------------------------------
LEMMA StrategyIs ==
  ASSUME strategy \in DOMAIN Strategies
  PROVE  \/ strategy = "shared-lazy" /\ Scope = "run" /\ Acquisition = "sign-in"
         \/ strategy = "shared-file" /\ Scope = "run" /\ Acquisition = "restore-only"
         \/ strategy = "per-parallel-index" /\ Scope = "parallel-index" /\ Acquisition = "save-and-restore"
         \/ strategy = "per-worker-index" /\ Scope = "worker-index" /\ Acquisition = "save-and-restore"
         \/ strategy = "per-test" /\ Scope = "test" /\ Acquisition = "sign-in"
  BY DEF Strategies, Scope, Acquisition

LEMMA ListIs ==
  ASSUME NEW S, NEW list \in Seq(S), list # <<>>
  PROVE  /\ Len(list) \in Nat \ {0} /\ Head(list) = list[1] /\ list[1] \in S
         /\ Tail(list) \in Seq(S) /\ Len(Tail(list)) = Len(list) - 1
         /\ \A i \in 1..Len(Tail(list)) : Tail(list)[i] = list[i + 1]
  OBVIOUS

LEMMA OneLess ==
  ASSUME NEW S, NEW list \in Seq(S), Len(list) = 1
  PROVE  Tail(list) = <<>>
<1>1. list # <<>>
  OBVIOUS
<1>2. Tail(list) \in Seq(S) /\ Len(Tail(list)) = Len(list) - 1
  BY <1>1, ListIs
<1>3. Len(Tail(list)) = 0
  BY <1>2
<1> QED
  BY ONLY <1>2, <1>3, EmptySeq

LEMMA OneIs ==
  ASSUME NEW S, NEW x \in S
  PROVE  <<x>> \in Seq(S) /\ Len(<<x>>) = 1 /\ <<x>>[1] = x /\ Head(<<x>>) = x /\ <<x>> # <<>>
  OBVIOUS

LEMMA JoinIs ==
  ASSUME NEW S, NEW list \in Seq(S), NEW more \in Seq(S)
  PROVE  /\ list \o more \in Seq(S) /\ Len(list \o more) = Len(list) + Len(more)
         /\ \A i \in 1..Len(list) : (list \o more)[i] = list[i]
         /\ \A i \in (Len(list) + 1)..(Len(list) + Len(more)) : (list \o more)[i] = more[i - Len(list)]
  OBVIOUS

LEMMA AttemptIs ==
  ASSUME NEW m \in Markers
  PROVE  /\ Attempt(m) \in Tasks /\ Attempt(m).test = m
         /\ Len(<<Attempt(m)>>) = 1 /\ <<Attempt(m)>>[1].test = m /\ Head(<<Attempt(m)>>).test = m
<1>1. Attempt(m) \in Tasks /\ Attempt(m).test = m
  BY DEF Attempt, Tasks
<1> QED
  BY <1>1, OneIs

LEMMA SetupIs ==
  /\ Setup \in [Slots -> Seq(Tasks)]
  /\ Setup[1] = <<Attempt("setup")>> /\ Setup[2] = <<>>
<1>1. Attempt("setup") \in Tasks
  BY DEF Attempt, Tasks, Markers
<1>2. <<Attempt("setup")>> \in Seq(Tasks) /\ <<>> \in Seq(Tasks)
  BY <1>1
<1>3. Setup \in Seq(Seq(Tasks)) /\ Len(Setup) = 2
  BY <1>2 DEF Setup
<1>4. Setup \in [Slots -> Seq(Tasks)]
  BY <1>3, LenProperties DEF Slots
<1> QED
  BY <1>4 DEF Setup

LEMMA MeasureIs ==
  /\ \A p \in {"parallel", "restart"} : Measure(p) \in [Slots -> Seq(Tasks)]
  /\ \A s \in Slots : Measure("parallel")[s] = <<Attempt(Own[s])>>
  /\ Measure("restart")[1] = <<Attempt("before"), Attempt("trigger"), Attempt("after")>>
  /\ Measure("restart")[2] = <<>>
<1>1. \A m \in Markers : Attempt(m) \in Tasks
  BY DEF Attempt, Tasks, Markers
<1>2. /\ <<Attempt("alpha")>> \in Seq(Tasks) /\ <<Attempt("beta")>> \in Seq(Tasks) /\ <<>> \in Seq(Tasks)
      /\ <<Attempt("before"), Attempt("trigger"), Attempt("after")>> \in Seq(Tasks)
  BY <1>1 DEF Markers
<1>3. ASSUME NEW p \in {"parallel", "restart"} PROVE Measure(p) \in [Slots -> Seq(Tasks)]
  <2>1. Measure(p) \in Seq(Seq(Tasks)) /\ Len(Measure(p)) = 2
    BY <1>2 DEF Measure
  <2> QED
    BY <2>1, LenProperties DEF Slots
<1>4. \A s \in Slots : Measure("parallel")[s] = <<Attempt(Own[s])>>
  BY DEF Measure, Slots, Own
<1>5. /\ Measure("restart")[1] = <<Attempt("before"), Attempt("trigger"), Attempt("after")>>
      /\ Measure("restart")[2] = <<>>
  BY DEF Measure
<1> QED
  BY <1>3, <1>4, <1>5

LEMMA JobsBegin ==
  ASSUME strategy \in DOMAIN Strategies, NEW p \in {"parallel", "restart"}
  PROVE  /\ FirstJobs(p) \in [Slots -> Seq(Tasks)]
         /\ NeedsSetup => FirstJobs(p)[1] = <<Attempt("setup")>> /\ FirstJobs(p)[2] = <<>>
         /\ ~NeedsSetup => FirstJobs(p) = Measure(p)
  BY SetupIs, MeasureIs DEF FirstJobs

LEMMA InitIInv == Init => IInv
<1> SUFFICES ASSUME Init PROVE IInv
  OBVIOUS
<1> USE DEF Init, OriginInit
<1>1. strategy \in DOMAIN Strategies
  BY CellAssumption
<1>2. TypeOK
  BY <1>1, JobsBegin DEF TypeOK, RunTyped, WorkerTyped, OriginTyped, Phases, Slots, Places, Barriers, Requests, NoWorker, NoSession
<1>3. Staged
  <2>1. CASE NeedsSetup
    <3>1. jobs[1] = <<Attempt("setup")>> /\ jobs[2] = <<>> /\ ~setUp /\ strategy = "shared-file"
      BY <1>1, <2>1, JobsBegin, StrategyIs DEF NeedsSetup
    <3>2. Len(jobs[1]) = 1 /\ Head(jobs[1]).test = "setup" /\ \A s \in Slots : pc[s] = "idle"
    <4>1. "setup" \in Markers
      BY DEF Markers
    <4>2. Len(jobs[1]) = 1 /\ Head(jobs[1]).test = "setup"
      BY ONLY <3>1, <4>1, AttemptIs
    <4> QED
      BY <4>2
    <3>3. ledger = <<>> /\ files = <<>> /\ \A name \in Barriers : waiting[name] = <<>>
      OBVIOUS
    <3>4. \A s \in Slots : Len(jobs[s]) \in {0, 1}
      <4>1. Len(jobs[2]) = 0
        BY <3>1
      <4>2. \A s \in Slots : s = 1 \/ s = 2
        BY DEF Slots
      <4> QED
        BY ONLY <3>2, <4>1, <4>2
    <3>5. phase = "parallel" /\ phase \notin {"judged", "failed"}
      OBVIOUS
    <3> QED
      <4>1. jobs[1] # <<>> => Len(jobs[1]) = 1 /\ Test(1) = "setup" /\ files = <<>>
        BY ONLY <3>2, <3>3 DEF Test
      <4>2. \A s \in Slots : pc[s] \in {"idle", "session", "login", "save"}
        BY ONLY <3>2
      <4>3. phase = "parallel" => \A s \in Slots : Len(jobs[s]) \in {0, 1} /\ (setUp /\ jobs[s] # <<>> => Test(s) = Own[s])
        BY ONLY <3>1, <3>4
      <4> QED
        BY ONLY <3>1, <3>3, <3>5, <4>1, <4>2, <4>3 DEF Staged
  <2>2. CASE ~NeedsSetup
    <3>1. \A s \in Slots : jobs[s] = <<Attempt(Own[s])>>
      BY <1>1, <2>2, JobsBegin, MeasureIs
    <3>2. Own[1] = "alpha" /\ Own[2] = "beta" /\ setUp
      BY <2>2 DEF Own
    <3>3. \A s \in Slots : Len(jobs[s]) = 1 /\ jobs[s][1].test = Own[s] /\ Head(jobs[s]).test = Own[s]
      <4>1. \A s \in Slots : Own[s] \in Markers
        BY <3>2 DEF Markers, Slots
      <4> QED
        BY <3>1, <4>1, AttemptIs
    <3>4. \A s \in Slots : \A i \in 1..Len(jobs[s]) : jobs[s][i].test # "setup"
      <4>1. \A s \in Slots : Own[s] # "setup"
        BY <3>2 DEF Slots
      <4> QED
        BY ONLY <3>3, <4>1
    <3> QED
      BY <3>2, <3>3, <3>4 DEF Staged, Test
  <2> QED
    BY <2>1, <2>2
<1>4. Numbered
  BY DEF Numbered, Slots, NoWorker
<1>5. Agree /\ Held /\ Taken
  BY DEF Agree, Held, Holds, SignsIn, Taken, Asking, NoSession, Slots
<1>6. Unused /\ Clean /\ Filed
  BY DEF Unused, Clean, Filed, NoWorker, Slots
<1>7. Unasked
  <2>1. Asked = {}
    BY DEF Asked, ToSet, Barriers
  <2> QED
    BY <2>1 DEF Unasked
<1>8. Opens /\ NobodyGoesAhead
  BY DEF Opens, NobodyGoesAhead, At, Before, Barriers, Slots
<1> QED
  BY <1>2, <1>3, <1>4, <1>5, <1>6, <1>7, <1>8 DEF IInv

-----------------------------------------------------------------------------
\* What a discarded worker leaves to do.
LEMMA DiscardIs ==
  ASSUME TypeOK, Staged, NEW s \in Slots, jobs[s] # <<>>, Discard(s)
  PROVE  /\ jobs' \in [Slots -> Seq(Tasks)]
         /\ \A t \in Slots : t # s => jobs'[t] = jobs[t]
         /\ \A i \in 1..Len(jobs'[s]) : \E j \in 1..Len(jobs[s]) : jobs'[s][i].test = jobs[s][j].test
         /\ Len(jobs'[s]) <= Len(jobs[s])
         /\ phase = "parallel" => jobs'[s] = <<>>
<1> DEFINE left == Tail(jobs[s])
           again == <<[Head(jobs[s]) EXCEPT !.retry = @ + 1]>>
<1>1. PICK rest \in IF Retry(s) < Retries THEN {again \o left, left \o again} ELSE {left} :
        jobs' = [jobs EXCEPT ![s] = rest]
  BY DEF Discard
<1>2. /\ jobs[s] \in Seq(Tasks) /\ Len(jobs[s]) \in Nat \ {0} /\ left \in Seq(Tasks) /\ Len(left) = Len(jobs[s]) - 1
      /\ \A i \in 1..Len(left) : left[i] = jobs[s][i + 1]
      /\ Head(jobs[s]) = jobs[s][1] /\ jobs[s][1] \in Tasks
  BY ListIs DEF TypeOK, RunTyped
<1>3. again \in Seq(Tasks) /\ Len(again) = 1 /\ again[1].test = jobs[s][1].test
  <2>1. PICK task \in Tasks : task = Head(jobs[s])
    BY <1>2
  <2>2. [task EXCEPT !.retry = @ + 1] \in Tasks /\ [task EXCEPT !.retry = @ + 1].test = task.test
    BY DEF Tasks
  <2>3. again = <<[task EXCEPT !.retry = @ + 1]>>
    BY <2>1
  <2> QED
    BY ONLY <1>2, <2>1, <2>2, <2>3, OneIs
<1> HIDE DEF left, again
<1>n. Len(left) \in Nat /\ Len(jobs[s]) = 1 + Len(left) /\ Len(again) = 1
  <2>1. Len(jobs[s]) \in Nat \ {0} /\ Len(left) = Len(jobs[s]) - 1 /\ Len(again) = 1
    BY ONLY <1>2, <1>3, Zenon
  <2> QED
    BY ONLY <2>1
<1>4. /\ rest \in Seq(Tasks) /\ Len(rest) <= Len(jobs[s])
      /\ \A i \in 1..Len(rest) : \E j \in 1..Len(jobs[s]) : rest[i].test = jobs[s][j].test
  <2>1. CASE rest = left
    BY <1>2, <2>1
  <2>2. CASE rest = again \o left
    <3>1. /\ rest \in Seq(Tasks) /\ Len(rest) = Len(jobs[s])
          /\ rest[1] = again[1] /\ \A i \in 2..Len(rest) : rest[i] = left[i - 1]
      <4>1. /\ rest \in Seq(Tasks) /\ Len(rest) = 1 + Len(left)
            /\ \A i \in 1..1 : rest[i] = again[i]
            /\ \A i \in 2..(1 + Len(left)) : rest[i] = left[i - 1]
        <5>1. left \in Seq(Tasks) /\ again \in Seq(Tasks) /\ Len(again) = 1
          BY ONLY <1>2, <1>3
        <5> QED
          BY ONLY <2>2, <5>1, JoinIs
      <4>2. rest[1] = again[1]
        BY ONLY <4>1
      <4> QED
        BY ONLY <1>n, <4>1, <4>2
    <3>2. ASSUME NEW i \in 1..Len(rest) PROVE rest[i].test = jobs[s][i].test
      <4>1. CASE i = 1
        BY <1>3, <3>1, <4>1
      <4>2. CASE i > 1
        <5>1. rest[i] = left[i - 1] /\ i - 1 \in 1..Len(left)
          BY <1>2, <3>1, <4>2
        <5> QED
          BY <1>2, <5>1
      <4> QED
        BY <4>1, <4>2
    <3> QED
      BY <1>2, <3>1, <3>2
  <2>3. CASE rest = left \o again
    <3>1. /\ rest \in Seq(Tasks) /\ Len(rest) = Len(jobs[s])
          /\ rest[Len(rest)] = again[1] /\ \A i \in 1..(Len(rest) - 1) : rest[i] = left[i]
      <4>1. /\ rest \in Seq(Tasks) /\ Len(rest) = Len(left) + 1
            /\ \A i \in 1..Len(left) : rest[i] = left[i]
            /\ \A i \in (Len(left) + 1)..(Len(left) + Len(again)) : rest[i] = again[i - Len(left)]
        <5>1. left \in Seq(Tasks) /\ again \in Seq(Tasks) /\ Len(again) = 1
          BY ONLY <1>2, <1>3
        <5> DEFINE both == left \o again
        <5>2. /\ both \in Seq(Tasks) /\ Len(both) = Len(left) + Len(again)
              /\ \A i \in 1..Len(left) : both[i] = left[i]
              /\ \A i \in (Len(left) + 1)..(Len(left) + Len(again)) : both[i] = again[i - Len(left)]
          BY ONLY <5>1, JoinIs
        <5>3. rest = both
          BY ONLY <2>3
        <5> HIDE DEF both
        <5> QED
          BY ONLY <5>1, <5>2, <5>3
      <4>2. Len(left) \in Nat /\ Len(again) = 1
        BY ONLY <1>n
      <4>3. \A i \in (Len(left) + 1)..(Len(left) + 1) : rest[i] = again[i - Len(left)]
        BY ONLY <4>1, <4>2
      <4>4. rest[Len(left) + 1] = again[Len(left) + 1 - Len(left)]
        BY ONLY <4>2, <4>3
      <4>5. Len(left) + 1 - Len(left) = 1 /\ Len(rest) = Len(left) + 1 /\ Len(rest) = Len(jobs[s])
        BY ONLY <1>n, <4>1
      <4>6. rest[Len(rest)] = again[1]
        BY ONLY <4>4, <4>5
      <4>7. \A i \in 1..(Len(rest) - 1) : rest[i] = left[i]
        BY ONLY <4>1, <4>2
      <4> QED
        BY ONLY <4>1, <4>5, <4>6, <4>7
    <3>2. ASSUME NEW i \in 1..Len(rest) PROVE \E j \in 1..Len(jobs[s]) : rest[i].test = jobs[s][j].test
      <4>1. CASE i = Len(rest)
        <5>1. rest[i].test = jobs[s][1].test /\ 1 \in 1..Len(jobs[s])
          BY <1>2, <1>3, <3>1, <4>1
        <5> QED
          BY <5>1
      <4>2. CASE i < Len(rest)
        <5>1. rest[i] = jobs[s][i + 1] /\ i + 1 \in 1..Len(jobs[s])
          BY <1>2, <3>1, <4>2
        <5> QED
          BY <5>1
      <4> QED
        BY <1>2, <3>1, <4>1, <4>2
    <3> QED
      BY <1>2, <3>1, <3>2
  <2> QED
    BY <1>1, <2>1, <2>2, <2>3 DEF left, again
<1>5. phase = "parallel" => rest = <<>>
  <2> SUFFICES ASSUME phase = "parallel" PROVE rest = <<>>
    OBVIOUS
  <2>1. Retries = 0
    BY DEF Retries
  <2>2. Retry(s) \in Nat
    BY <1>2 DEF Retry, Tasks
  <2>3. rest = left
    BY <1>1, <2>1, <2>2 DEF left
  <2> QED
    BY <1>2, <2>3 DEF Staged
<1>6. jobs'[s] = rest /\ \A t \in Slots : t # s => jobs'[t] = jobs[t]
  BY <1>1 DEF TypeOK, RunTyped
<1>7. jobs' \in [Slots -> Seq(Tasks)]
  BY <1>1, <1>4 DEF TypeOK, RunTyped
<1> QED
  BY <1>4, <1>5, <1>6, <1>7

LEMMA AccountIs ==
  ASSUME TypeOK, NEW s \in Slots
  PROVE  /\ Scope = "run" => Account(s) = <<"shared", 0>>
         /\ Scope = "parallel-index" => Account(s) = <<"p", s>>
         /\ Scope = "worker-index" => Account(s) = <<"w", worker[s]>>
         /\ Scope = "test" => Account(s) = <<"test", Test(s)>>
         /\ jobs[s] # <<>> => Test(s) \in Markers /\ Retry(s) \in Nat
         /\ jobs[s] # <<>> /\ worker[s] # NoWorker => Account(s) \in Emails
<1>1. /\ Scope = "run" => Account(s) = <<"shared", 0>>
      /\ Scope = "parallel-index" => Account(s) = <<"p", s>>
      /\ Scope = "worker-index" => Account(s) = <<"w", worker[s]>>
      /\ Scope = "test" => Account(s) = <<"test", Test(s)>>
  BY DEF Account
<1>2. jobs[s] # <<>> => Test(s) \in Markers /\ Retry(s) \in Nat
  <2> SUFFICES ASSUME jobs[s] # <<>> PROVE Test(s) \in Markers /\ Retry(s) \in Nat
    OBVIOUS
  <2>1. Head(jobs[s]) \in Tasks
    BY ListIs DEF TypeOK, RunTyped
  <2> QED
    BY <2>1 DEF Test, Retry, Tasks
<1>3. worker[s] \in Nat \union {NoWorker}
  BY DEF TypeOK, RunTyped
<1>4. Scope \in {"run", "parallel-index", "worker-index", "test"}
  BY StrategyIs DEF TypeOK, RunTyped
<1>5. ASSUME jobs[s] # <<>>, worker[s] # NoWorker PROVE Account(s) \in Emails
  <2>1. worker[s] \in Nat /\ s \in Nat /\ 0 \in Nat
    BY <1>3, <1>5 DEF Slots
  <2>2. <<"shared", 0>> \in Emails /\ <<"p", s>> \in Emails /\ <<"w", worker[s]>> \in Emails
    BY <2>1 DEF Emails
  <2>3. <<"test", Test(s)>> \in Emails
    BY <1>2, <1>5 DEF Emails
  <2> QED
    BY <1>1, <1>4, <2>2, <2>3
<1> QED
  BY <1>1, <1>2, <1>5

-----------------------------------------------------------------------------
USE DEF driverVars, faultVars, runVars, workerVars, vars, accountVars, barrierVars, originVars, Goto, Holding

LEMMA PutIs ==
  ASSUME NEW f, NEW k, NEW v
  PROVE  /\ DOMAIN Put(f, k, v) = DOMAIN f \union {k} /\ Put(f, k, v)[k] = v
         /\ \A x \in DOMAIN f : x # k => Put(f, k, v)[x] = f[x]
  BY DEF Put

LEMMA WithoutIs ==
  ASSUME NEW f, NEW k
  PROVE  DOMAIN Without(f, k) = DOMAIN f \ {k} /\ \A x \in DOMAIN f : x # k => Without(f, k)[x] = f[x]
  BY DEF Without

\* Whatever is released or expires, it is requests that are answered.
LEMMA RequestsTyped ==
  ASSUME TypeOK, NEW name \in Barriers, NEW w \in Nat, Arrive(name, w)
  PROVE  waiting' \in [Barriers -> Seq(Nat)] /\ timers' \subseteq Requests /\ DOMAIN reply' \subseteq Requests
<1>1. waiting[name] \in Seq(Nat) /\ <<name, w>> \in Requests
  BY DEF TypeOK, OriginTyped, Requests
<1>2. CASE Park(name, w)
  <2>1. Append(waiting[name], w) \in Seq(Nat)
    BY <1>1
  <2> QED
    BY <1>1, <1>2, <2>1 DEF Park, TypeOK, OriginTyped
<1>3. CASE Release(name, w)
  <2>1. Append(waiting[name], w) \in Seq(Nat)
    BY <1>1
  <2>2. Gathered(name, w) \subseteq Nat
    BY <2>1 DEF Gathered, ToSet
  <2>3. \A x \in Gathered(name, w) : <<name, x>> \in Requests
    BY <2>2 DEF Requests
  <2> QED
    BY <1>3, <2>3 DEF Release, TypeOK, OriginTyped
<1> QED
  BY <1>2, <1>3 DEF Arrive

LEMMA DiscardTyped ==
  ASSUME TypeOK, Staged, NEW s \in Slots, jobs[s] # <<>>, Discard(s), UNCHANGED <<driverVars>>
  PROVE  RunTyped' /\ WorkerTyped'
<1>1. jobs' \in [Slots -> Seq(Tasks)]
  BY DiscardIs
<1>2. worker' \in [Slots -> Nat \union {NoWorker}]
  BY DEF Discard, TypeOK, RunTyped
<1>3. RunTyped'
  BY <1>1, <1>2 DEF Discard, TypeOK, RunTyped
<1> QED
  BY <1>3 DEF Discard, TypeOK, WorkerTyped, Places, NoSession

LEMMA CompleteTyped ==
  ASSUME TypeOK, NEW s \in Slots, jobs[s] # <<>>, Complete(s), UNCHANGED <<driverVars>>
  PROVE  RunTyped' /\ WorkerTyped'
<1>1. Tail(jobs[s]) \in Seq(Tasks)
  BY ListIs DEF TypeOK, RunTyped
<1>2. jobs' \in [Slots -> Seq(Tasks)]
  BY <1>1 DEF Complete, TypeOK, RunTyped
<1>3. RunTyped'
  BY <1>2 DEF Complete, TypeOK, RunTyped
<1> QED
  BY <1>3 DEF Complete, TypeOK, WorkerTyped, Places, NoSession

LEMMA WorkerMoves ==
  ASSUME WorkerTyped, NEW s \in Slots, NEW place \in Places, Goto(s, place), Holding(s)
  PROVE  WorkerTyped'
  BY DEF WorkerTyped

LEMMA TypeStep == ASSUME IInv, [Next]_vars PROVE TypeOK'
<1>0. TypeOK /\ RunTyped /\ WorkerTyped /\ OriginTyped /\ Staged /\ Numbered /\ Agree /\ Held
  BY DEF IInv, TypeOK
<1>a. \A s \in Slots : pc[s] # "idle" => jobs[s] # <<>> /\ worker[s] # NoWorker /\ worker[s] \in Nat
  BY <1>0 DEF Numbered, RunTyped
<1>b. UNCHANGED originVars => OriginTyped'
  BY <1>0 DEF OriginTyped
<1>c. UNCHANGED <<driverVars, setUp, jobs, workers, worker>> => RunTyped'
  BY <1>0 DEF RunTyped
<1>d. UNCHANGED workerVars => WorkerTyped'
  BY <1>0 DEF WorkerTyped
<1>1. ASSUME NEW s \in Slots, Begin(s) PROVE TypeOK'
  <2>1. RunTyped'
    BY <1>0, <1>1 DEF Begin, RunTyped
  <2>2. WorkerTyped'
    BY <1>0, <1>1 DEF Begin, WorkerTyped, Places
  <2> QED
    BY <1>1, <1>b, <2>1, <2>2 DEF Begin, TypeOK
<1>2. ASSUME NEW s \in Slots, Acquire(s) PROVE TypeOK'
  <2>1. CASE Discard(s)
    BY <1>0, <1>2, <1>a, <1>b, <2>1, DiscardTyped DEF Acquire, TypeOK
  <2>2. CASE ~Discard(s)
    <3>1. RunTyped' /\ OriginTyped'
      BY <1>2, <1>b, <1>c, <2>2 DEF Acquire
    <3>2. CASE session' = [session EXCEPT ![s] = files[Account(s)]] /\ Account(s) \in DOMAIN files /\ Acquisition # "sign-in"
      <4>1. files[Account(s)] \in Nat
        BY <1>0, <3>2 DEF Held, Alive, Agree, OriginTyped
      <4>2. pc' \in [Slots -> Places] /\ UNCHANGED <<me, notes>>
        <5>1. (Goto(s, "login") \/ Goto(s, "signed-in")) /\ UNCHANGED <<me, notes>>
          BY <1>2, <2>2 DEF Acquire
        <5>2. "login" \in Places /\ "signed-in" \in Places
          BY DEF Places
        <5>3. ASSUME NEW place \in Places, Goto(s, place) PROVE pc' \in [Slots -> Places]
          BY <1>0, <5>3 DEF WorkerTyped
        <5> QED
          BY ONLY <5>1, <5>2, <5>3
      <4> QED
        BY <1>0, <3>1, <3>2, <4>1, <4>2 DEF WorkerTyped, TypeOK
    <3>3. CASE Goto(s, "login") /\ Holding(s)
      <4>1. "login" \in Places
        BY DEF Places
      <4> QED
        BY ONLY <1>0, <3>1, <3>3, <4>1, WorkerMoves DEF TypeOK
    <3> QED
      BY <1>2, <2>2, <3>2, <3>3 DEF Acquire
  <2> QED
    BY <2>1, <2>2
<1>3. ASSUME NEW s \in Slots, LogIn(s) PROVE TypeOK'
  <2>1. RunTyped'
    BY <1>3, <1>c DEF LogIn
  <2>2. /\ counter' = counter + 1
        /\ accounts' = Put(accounts, Account(s), [AccountFor(Account(s)) EXCEPT !.session = counter + 1])
        /\ UNCHANGED <<ledger, waiting, timers, reply>>
    BY <1>3 DEF LogIn, Login
  <2>3. AccountFor(Account(s)) \in [session : Nat, notes : Seq(Markers)]
    BY <1>0 DEF AccountFor, OriginTyped, NoSession
  <2>4. [AccountFor(Account(s)) EXCEPT !.session = counter + 1] \in [session : Nat, notes : Seq(Markers)]
    BY <1>0, <2>3 DEF OriginTyped
  <2>5. \A e \in DOMAIN accounts' : accounts'[e] \in [session : Nat, notes : Seq(Markers)]
    <3>1. PICK v : v = [AccountFor(Account(s)) EXCEPT !.session = counter + 1]
      OBVIOUS
    <3>2. accounts' = Put(accounts, Account(s), v) /\ v \in [session : Nat, notes : Seq(Markers)]
      BY <2>2, <2>4, <3>1
    <3>3. /\ DOMAIN accounts' = DOMAIN accounts \union {Account(s)} /\ accounts'[Account(s)] = v
          /\ \A e \in DOMAIN accounts : e # Account(s) => accounts'[e] = accounts[e]
      <4>1. PICK put : put = Put(accounts, Account(s), v)
        OBVIOUS
      <4>2. /\ DOMAIN put = DOMAIN accounts \union {Account(s)} /\ put[Account(s)] = v
            /\ \A e \in DOMAIN accounts : e # Account(s) => put[e] = accounts[e]
        BY ONLY <4>1 DEF Put
      <4>3. accounts' = put
        BY <3>2, <4>1
      <4> QED
        BY ONLY <4>2, <4>3
    <3> QED
      <4>1. ASSUME NEW e \in DOMAIN accounts' PROVE accounts'[e] \in [session : Nat, notes : Seq(Markers)]
        <5>1. CASE e = Account(s)
          BY <3>2, <3>3, <5>1
        <5>2. CASE e # Account(s)
          <6>1. e \in DOMAIN accounts /\ accounts'[e] = accounts[e]
            BY ONLY <3>3, <4>1, <5>2
          <6> QED
            BY <1>0, <6>1 DEF OriginTyped
        <5> QED
          BY <5>1, <5>2
      <4> QED
        BY <4>1
  <2>6. OriginTyped'
    <3>1. counter' \in Nat
      BY <1>0, <2>2 DEF OriginTyped
    <3> QED
      BY ONLY <1>0, <2>2, <2>5, <3>1 DEF OriginTyped
  <2>7. WorkerTyped'
    BY <1>0, <1>3, <2>2 DEF LogIn, WorkerTyped, OriginTyped, Places
  <2> QED
    BY <2>1, <2>6, <2>7 DEF TypeOK
<1>4. ASSUME NEW s \in Slots, Save(s) PROVE TypeOK'
  <2>1. CASE Complete(s)
    BY <1>0, <1>4, <1>a, <1>b, <2>1, CompleteTyped DEF Save, TypeOK
  <2>2. CASE ~Complete(s)
    <3>1. RunTyped' /\ OriginTyped'
      BY <1>4, <1>b, <1>c, <2>2 DEF Save
    <3>2. Goto(s, "signed-in") /\ Holding(s) /\ "signed-in" \in Places
      BY <1>4, <2>2 DEF Save, Places
    <3>3. WorkerTyped'
      BY ONLY <1>0, <3>2, WorkerMoves
    <3> QED
      BY <3>1, <3>3 DEF TypeOK
  <2> QED
    BY <2>1, <2>2
<1>5. ASSUME NEW s \in Slots, NEW name \in Barriers, Meet(s, name) PROVE TypeOK'
  <2>1. RunTyped'
    BY <1>5, <1>c DEF Meet
  <2>2. WorkerTyped'
    <3>1. At(name) \in Places /\ After(s, name) \in Places
      BY DEF At, After, Places
    <3>2. Holding(s) /\ (Goto(s, At(name)) \/ Goto(s, After(s, name)))
      BY <1>5 DEF Meet
    <3> QED
      BY ONLY <1>0, <3>1, <3>2, WorkerMoves
  <2>3. pc[s] # "idle"
    BY <1>5 DEF Meet, Barriers
  <2>4. waiting' \in [Barriers -> Seq(Nat)] /\ timers' \subseteq Requests /\ DOMAIN reply' \subseteq Requests
    <3>1. CASE UNCHANGED barrierVars
      BY <1>0, <3>1 DEF OriginTyped
    <3>2. CASE Arrive(name, worker[s])
      BY <1>0, <1>a, <2>3, <3>2, RequestsTyped
    <3> QED
      BY <1>5, <3>1, <3>2 DEF Meet
  <2>5. OriginTyped'
    BY <1>0, <1>5, <2>4 DEF Meet, OriginTyped
  <2> QED
    BY <2>1, <2>2, <2>5 DEF TypeOK
<1>6. ASSUME NEW s \in Slots, NEW name \in Barriers, Answered(s, name) PROVE TypeOK'
  <2>1. pc[s] # "idle"
    BY <1>6 DEF Answered, At
  <2>2. CASE Discard(s)
    BY <1>0, <1>6, <1>a, <1>b, <2>1, <2>2, DiscardTyped DEF Answered, TypeOK
  <2>3. CASE ~Discard(s)
    <3>1. RunTyped' /\ OriginTyped'
      BY <1>6, <1>b, <1>c, <2>3 DEF Answered
    <3>2. Goto(s, After(s, name)) /\ Holding(s) /\ After(s, name) \in Places
      BY <1>6, <2>3 DEF Answered, After, Places
    <3>3. WorkerTyped'
      BY ONLY <1>0, <3>2, WorkerMoves
    <3> QED
      BY <3>1, <3>3 DEF TypeOK
  <2> QED
    BY <2>2, <2>3
<1>7. ASSUME NEW s \in Slots, Me(s) PROVE TypeOK'
  <2>1. WorkerTyped'
    BY <1>0, <1>7 DEF Me, WorkerTyped, Places
  <2> QED
    BY <1>7, <1>b, <1>c, <2>1 DEF Me, TypeOK
<1>8. ASSUME NEW s \in Slots, Write(s) PROVE TypeOK'
  <2>1. pc[s] # "idle"
    BY <1>8 DEF Write
  <2>2. CASE Authenticated(session[s])
    <3>1. RunTyped' /\ UNCHANGED <<ledger, barrierVars, counter>>
      BY <1>8, <1>c, <2>2 DEF Write, WriteNote
    <3>2. WorkerTyped'
      <4>1. Goto(s, "written") /\ Holding(s) /\ "written" \in Places
        BY <1>8, <2>2 DEF Write, Places
      <4> QED
        BY ONLY <1>0, <4>1, WorkerMoves
    <3>3. accounts' = [accounts EXCEPT ![sessions[session[s]]].notes = Append(@, Test(s))]
      BY <1>8, <2>2 DEF Write, WriteNote
    <3>4. sessions[session[s]] \in DOMAIN accounts
      BY <1>0, <2>2 DEF Agree, Authenticated
    <3>5. Test(s) \in Markers
      BY <1>0, <1>a, <2>1, AccountIs
    <3>6. \A e \in DOMAIN accounts' : accounts'[e] \in [session : Nat, notes : Seq(Markers)]
      <4>1. PICK email \in DOMAIN accounts : email = sessions[session[s]]
        BY <3>4
      <4>2. PICK account : account = accounts[email]
        OBVIOUS
      <4>3. [account EXCEPT !.notes = Append(@, Test(s))] \in [session : Nat, notes : Seq(Markers)]
        <5>1. account \in [session : Nat, notes : Seq(Markers)]
          BY <1>0, <4>1, <4>2 DEF OriginTyped
        <5>2. Append(account.notes, Test(s)) \in Seq(Markers)
          BY ONLY <3>5, <5>1
        <5> QED
          BY ONLY <5>1, <5>2
      <4>4. accounts' = [accounts EXCEPT ![email] = [account EXCEPT !.notes = Append(@, Test(s))]]
        <5>1. accounts' = [accounts EXCEPT ![email] = [accounts[email] EXCEPT !.notes = Append(@, Test(s))]]
          BY <3>3, <4>1
        <5> QED
          BY ONLY <4>2, <5>1
      <4> QED
        BY <1>0, <4>3, <4>4 DEF OriginTyped
    <3> QED
      BY <1>0, <3>1, <3>2, <3>6 DEF TypeOK, OriginTyped
  <2>3. CASE ~Authenticated(session[s])
    <3>1. Discard(s) /\ UNCHANGED <<driverVars, originVars>>
      BY <1>8, <2>3 DEF Write
    <3> QED
      BY <1>0, <1>a, <1>b, <2>1, <3>1, DiscardTyped DEF TypeOK
  <2> QED
    BY <2>2, <2>3
<1>9. ASSUME NEW s \in Slots, Read(s) PROVE TypeOK'
  <2>1. pc[s] # "idle"
    BY <1>9 DEF Read
  <2>2. CASE Authenticated(session[s])
    <3>1. RunTyped' /\ OriginTyped'
      BY <1>9, <1>b, <1>c, <2>2 DEF Read
    <3>2. NotesOf(session[s]) \in Seq(Markers)
      BY <1>0, <2>2 DEF Agree, Authenticated, NotesOf, OriginTyped
    <3>3. WorkerTyped'
      <4>1. /\ notes' = [notes EXCEPT ![s] = NotesOf(session[s])] /\ UNCHANGED <<session, me>>
            /\ pc' = [pc EXCEPT ![s] = "file"] /\ "file" \in Places
        BY <1>9, <2>2 DEF Read, Places
      <4> QED
        BY ONLY <1>0, <3>2, <4>1 DEF WorkerTyped
    <3> QED
      BY <3>1, <3>3 DEF TypeOK
  <2>3. CASE ~Authenticated(session[s])
    <3>1. Discard(s) /\ UNCHANGED <<driverVars, originVars>>
      BY <1>9, <2>3 DEF Read
    <3> QED
      BY <1>0, <1>a, <1>b, <2>1, <3>1, DiscardTyped DEF TypeOK
  <2> QED
    BY <2>2, <2>3
<1>10. ASSUME NEW s \in Slots, File(s) PROVE TypeOK'
  <2>1. pc[s] # "idle" /\ UNCHANGED <<driverVars, accountVars, barrierVars>>
    BY <1>10 DEF File
  <2>2. RunTyped' /\ WorkerTyped'
    BY <1>0, <1>a, <1>10, <2>1, DiscardTyped, CompleteTyped DEF File
  <2> DEFINE row == [phase |-> phase, marker |-> Test(s), worker |-> worker[s], slot |-> s, retry |-> Retry(s),
                     email |-> Account(s), me |-> me[s], notes |-> notes[s]]
  <2>3. row \in Rows
    <3>1. phase \in Phases /\ me[s] \in {0, 200, 401} /\ notes[s] \in Seq(Markers)
      BY <1>0 DEF RunTyped, WorkerTyped
    <3>2. Test(s) \in Markers /\ Retry(s) \in Nat /\ Account(s) \in Emails /\ worker[s] \in Nat
      BY <1>0, <1>a, <2>1, AccountIs
    <3> QED
      BY <3>1, <3>2 DEF Rows
  <2>4. ledger' = Append(ledger, row)
    BY <1>10 DEF File, FileRow
  <2>5. ledger' \in Seq(Rows)
    BY <1>0, <2>3, <2>4 DEF OriginTyped
  <2>6. OriginTyped'
    BY <1>0, <2>1, <2>5 DEF OriginTyped
  <2> QED
    BY <2>2, <2>6 DEF TypeOK
<1>11. ASSUME NEW s \in Slots, Die(s) PROVE TypeOK'
  BY <1>0, <1>a, <1>b, <1>11, DiscardTyped DEF Die, TypeOK
<1>12. ASSUME Deadline PROVE TypeOK'
  <2>1. RunTyped' /\ WorkerTyped'
    BY <1>12, <1>c, <1>d DEF Deadline
  <2>2. timers' \subseteq Requests /\ DOMAIN reply' \subseteq Requests
    <3>1. PICK r \in timers : Expire(r)
      BY <1>12 DEF Deadline
    <3>2. timers' \subseteq timers /\ reply' = Put(reply, r, 504)
      BY <3>1 DEF Expire
    <3>3. DOMAIN reply' = DOMAIN reply \union {r}
      <4>1. DOMAIN Put(reply, r, 504) = DOMAIN reply \union {r}
        BY DEF Put
      <4> QED
        BY ONLY <3>2, <4>1, Zenon
    <3>4. timers \subseteq Requests /\ DOMAIN reply \subseteq Requests
      BY <1>0 DEF OriginTyped
    <3>5. timers' \subseteq Requests
      BY ONLY <3>2, <3>4, Zenon
    <3> QED
      BY ONLY <3>1, <3>3, <3>4, <3>5, Zenon
  <2>3. UNCHANGED <<counter, ledger, accounts, waiting>>
    BY <1>12 DEF Deadline, Expire
  <2> QED
    BY <1>0, <2>1, <2>2, <2>3 DEF TypeOK, OriginTyped
<1>13. ASSUME StartMeasure PROVE TypeOK'
  <2>1. phase \in {"parallel", "restart"}
    BY <1>0, <1>13 DEF StartMeasure, Staged, RunTyped, Phases
  <2>2. RunTyped'
    BY <1>0, <1>13, <2>1, MeasureIs DEF StartMeasure, RunTyped
  <2> QED
    BY <1>13, <1>b, <1>d, <2>2 DEF StartMeasure, TypeOK
<1>14. ASSUME FailRun PROVE TypeOK'
  <2>1. RunTyped'
    BY <1>0, <1>14 DEF FailRun, RunTyped, Phases
  <2> QED
    BY <1>14, <1>b, <1>d, <2>1 DEF FailRun, TypeOK
<1>15. ASSUME EndParallel PROVE TypeOK'
  <2>1. RunTyped'
    BY <1>0, <1>15, JobsBegin DEF EndParallel, Report, RunTyped, Phases
  <2>2. WorkerTyped'
    BY <1>0, <1>15 DEF EndParallel, Report, WorkerTyped, NoSession
  <2>3. OriginTyped'
    BY <1>0, <1>15 DEF EndParallel, Reset, OriginTyped
  <2> QED
    BY <2>1, <2>2, <2>3 DEF TypeOK
<1>16. ASSUME EndRestart PROVE TypeOK'
  <2>1. RunTyped'
    BY <1>0, <1>16 DEF EndRestart, Report, RunTyped, Phases
  <2> QED
    BY <1>16, <1>b, <1>d, <2>1 DEF EndRestart, Report, TypeOK
<1>17. CASE UNCHANGED vars
  BY <1>17, <1>b, <1>c, <1>d DEF TypeOK
<1> QED
  BY <1>1, <1>2, <1>3, <1>4, <1>5, <1>6, <1>7, <1>8, <1>9, <1>10, <1>11, <1>12, <1>13, <1>14, <1>15, <1>16, <1>17
     DEF Next, Step

-----------------------------------------------------------------------------
\* A step of a slot begins a test, goes on with it, or ends it well or badly.
Works(s) ==
  /\ pc[s] # "idle" /\ pc'[s] # "idle"
  /\ UNCHANGED <<setUp, jobs, workers, worker>>

Elsewhere(s) ==
  \A t \in Slots : t # s =>
    /\ jobs'[t] = jobs[t] /\ worker'[t] = worker[t] /\ pc'[t] = pc[t]
    /\ session'[t] = session[t] /\ me'[t] = me[t] /\ notes'[t] = notes[t]

LEMMA SlotStep ==
  ASSUME IInv, NEW s \in Slots, Step(s) \/ Die(s)
  PROVE  /\ UNCHANGED driverVars /\ jobs[s] # <<>>
         /\ Begin(s) \/ (pc[s] # "idle" /\ (Works(s) \/ Complete(s) \/ Discard(s)))
         /\ Elsewhere(s)
<1>0. RunTyped /\ WorkerTyped /\ TypeOK /\ Staged /\ Numbered
  BY DEF IInv, TypeOK
<1>1. UNCHANGED driverVars
  BY DEF Step, Begin, Acquire, LogIn, Save, Meet, Answered, Me, Write, Read, File, Die
<1>2. Begin(s) \/ (pc[s] # "idle" /\ (Works(s) \/ Complete(s) \/ Discard(s)))
  <2> USE <1>0 DEF WorkerTyped, Works
  <2>1. CASE Acquire(s)
    BY <2>1 DEF Acquire
  <2>2. CASE LogIn(s)
    BY <2>2 DEF LogIn
  <2>3. CASE Save(s)
    BY <2>3 DEF Save
  <2>4. ASSUME NEW name \in Barriers, Meet(s, name) PROVE Works(s)
    <3>1. pc[s] = name /\ (pc' = [pc EXCEPT ![s] = At(name)] \/ pc' = [pc EXCEPT ![s] = After(s, name)])
      BY <2>4 DEF Meet
    <3>2. At(name) # "idle" /\ After(s, name) # "idle" /\ name # "idle"
      BY DEF At, After, Barriers
    <3> QED
      BY <2>4, <3>1, <3>2 DEF Meet
  <2>5. ASSUME NEW name \in Barriers, Answered(s, name) PROVE pc[s] # "idle" /\ (Works(s) \/ Discard(s))
    <3>1. At(name) # "idle" /\ After(s, name) # "idle"
      BY DEF At, After, Barriers
    <3> QED
      BY <2>5, <3>1 DEF Answered
  <2>6. CASE Me(s)
    BY <2>6 DEF Me
  <2>7. CASE Write(s)
    BY <2>7 DEF Write
  <2>8. CASE Read(s)
    BY <2>8 DEF Read
  <2>9. CASE File(s)
    BY <2>9 DEF File
  <2>10. CASE Die(s)
    BY <2>10 DEF Die
  <2> QED
    BY <2>1, <2>2, <2>3, <2>4, <2>5, <2>6, <2>7, <2>8, <2>9, <2>10 DEF Step
<1>3. jobs[s] # <<>>
  BY <1>0, <1>2 DEF Numbered, Begin
<1>4. ASSUME Begin(s) PROVE Elsewhere(s)
  BY <1>0, <1>4 DEF Begin, Elsewhere, RunTyped, WorkerTyped
<1>5. ASSUME Complete(s) PROVE Elsewhere(s)
  BY <1>0, <1>5 DEF Complete, Elsewhere, RunTyped, WorkerTyped
<1>6. ASSUME Discard(s) PROVE Elsewhere(s)
  <2>1. \A t \in Slots : t # s => jobs'[t] = jobs[t]
    BY <1>0, <1>3, <1>6, DiscardIs
  <2> QED
    BY <1>0, <1>6, <2>1 DEF Discard, Elsewhere, RunTyped, WorkerTyped
<1>7. ASSUME ~Begin(s), ~Complete(s), ~Discard(s) PROVE Elsewhere(s)
  <2>1. UNCHANGED <<jobs, worker>>
    BY <1>2, <1>7 DEF Works
  <2> USE <1>0, <1>7, <2>1 DEF WorkerTyped, Elsewhere
  <2>2. CASE Acquire(s)
    BY <2>2 DEF Acquire
  <2>3. CASE LogIn(s)
    BY <2>3 DEF LogIn
  <2>4. CASE Save(s)
    BY <2>4 DEF Save
  <2>5. CASE \E name \in Barriers : Meet(s, name)
    BY <2>5 DEF Meet
  <2>6. CASE \E name \in Barriers : Answered(s, name)
    BY <2>6 DEF Answered
  <2>7. CASE Me(s)
    BY <2>7 DEF Me
  <2>8. CASE Write(s)
    BY <2>8 DEF Write
  <2>9. CASE Read(s)
    BY <2>9 DEF Read
  <2>10. CASE File(s)
    BY <2>10 DEF File
  <2>11. CASE Die(s)
    BY <2>11 DEF Die
  <2> QED
    BY <2>2, <2>3, <2>4, <2>5, <2>6, <2>7, <2>8, <2>9, <2>10, <2>11 DEF Step
<1> QED
  BY <1>1, <1>2, <1>3, <1>4, <1>5, <1>6, <1>7

\* Who is discarded is left with nothing, and whose test is over with a session
\* at most.
LEMMA Discarded ==
  ASSUME TypeOK, NEW s \in Slots, Discard(s)
  PROVE  /\ pc'[s] = "idle" /\ worker'[s] = NoWorker /\ session'[s] = NoSession /\ me'[s] = 0 /\ notes'[s] = <<>>
         /\ UNCHANGED <<files, setUp, workers>>
<1>1. /\ worker' = [worker EXCEPT ![s] = NoWorker] /\ pc' = [pc EXCEPT ![s] = "idle"]
      /\ session' = [session EXCEPT ![s] = NoSession]
      /\ me' = [me EXCEPT ![s] = 0] /\ notes' = [notes EXCEPT ![s] = <<>>]
      /\ UNCHANGED <<files, setUp, workers>>
  BY DEF Discard
<1> QED
  BY <1>1 DEF TypeOK, RunTyped, WorkerTyped

LEMMA Completed ==
  ASSUME TypeOK, NEW s \in Slots, Complete(s)
  PROVE  /\ pc'[s] = "idle" /\ me'[s] = 0 /\ notes'[s] = <<>> /\ jobs'[s] = Tail(jobs[s])
         /\ session'[s] = IF Scope = "test" \/ Test(s) = "setup" THEN NoSession ELSE session[s]
         /\ UNCHANGED <<setUp, workers, worker>>
<1>1. /\ jobs' = [jobs EXCEPT ![s] = Tail(jobs[s])] /\ pc' = [pc EXCEPT ![s] = "idle"]
      /\ session' = [session EXCEPT ![s] = IF Scope = "test" \/ Test(s) = "setup" THEN NoSession ELSE session[s]]
      /\ me' = [me EXCEPT ![s] = 0] /\ notes' = [notes EXCEPT ![s] = <<>>]
      /\ UNCHANGED <<setUp, workers, worker>>
  BY DEF Complete
<1> QED
  BY <1>1 DEF TypeOK, RunTyped, WorkerTyped

\* What a slot's step does to the list of its tests.
LEMMA JobsStep ==
  ASSUME IInv, NEW s \in Slots, Step(s) \/ Die(s)
  PROVE  /\ \A i \in 1..Len(jobs'[s]) : \E j \in 1..Len(jobs[s]) : jobs'[s][i].test = jobs[s][j].test
         /\ Len(jobs[s]) = 1 => Len(jobs'[s]) \in {0, 1}
         /\ phase = "parallel" => jobs'[s] = jobs[s] \/ (jobs'[s] = <<>> /\ pc'[s] = "idle")
         /\ jobs'[s] # jobs[s] => pc'[s] = "idle"
         /\ jobs'[s] \in Seq(Tasks)
<1>0. RunTyped /\ WorkerTyped /\ TypeOK /\ Staged
  BY DEF IInv, TypeOK
<1>1. jobs[s] # <<>> /\ (Begin(s) \/ Works(s) \/ Complete(s) \/ Discard(s))
  BY SlotStep
<1>2. /\ jobs[s] \in Seq(Tasks) /\ Len(jobs[s]) \in Nat \ {0} /\ Tail(jobs[s]) \in Seq(Tasks)
      /\ Len(Tail(jobs[s])) = Len(jobs[s]) - 1
      /\ \A i \in 1..Len(Tail(jobs[s])) : Tail(jobs[s])[i] = jobs[s][i + 1]
  BY <1>0, <1>1, ListIs DEF RunTyped
<1>3. CASE Begin(s) \/ Works(s)
  <2>1. jobs' = jobs
    BY <1>3 DEF Begin, Works
  <2> QED
    BY <1>2, <2>1
<1>4. CASE Complete(s)
  <2>1. jobs'[s] = Tail(jobs[s]) /\ pc'[s] = "idle"
    BY <1>0, <1>4 DEF Complete, RunTyped, WorkerTyped
  <2>2. ASSUME NEW i \in 1..Len(jobs'[s]) PROVE \E j \in 1..Len(jobs[s]) : jobs'[s][i].test = jobs[s][j].test
    <3>1. i + 1 \in 1..Len(jobs[s]) /\ jobs'[s][i] = jobs[s][i + 1]
      BY <1>2, <2>1
    <3> QED
      BY <3>1
  <2>3. Len(jobs[s]) = 1 => jobs'[s] = <<>> /\ Len(jobs'[s]) = 0
    <3>1. Len(jobs[s]) = 1 => Tail(jobs[s]) = <<>>
      BY ONLY <1>2, OneLess
    <3> QED
      BY ONLY <2>1, <3>1
  <2>4. phase = "parallel" => Len(jobs[s]) = 1
    <3>1. phase = "parallel" => Len(jobs[s]) \in {0, 1}
      BY <1>0 DEF Staged
    <3> QED
      BY ONLY <1>2, <3>1
  <2> QED
    BY <1>2, <2>1, <2>2, <2>3, <2>4
<1>5. CASE Discard(s)
  <2>1. pc'[s] = "idle"
    BY <1>0, <1>5 DEF Discard, WorkerTyped
  <2>2. /\ jobs'[s] \in Seq(Tasks) /\ Len(jobs'[s]) <= Len(jobs[s]) /\ (phase = "parallel" => jobs'[s] = <<>>)
        /\ \A i \in 1..Len(jobs'[s]) : \E j \in 1..Len(jobs[s]) : jobs'[s][i].test = jobs[s][j].test
    BY <1>0, <1>1, <1>5, DiscardIs
  <2>3. Len(jobs[s]) = 1 => Len(jobs'[s]) \in {0, 1}
    BY <1>2, <2>2
  <2> QED
    BY <2>1, <2>2, <2>3
<1> QED
  BY <1>1, <1>3, <1>4, <1>5

\* The steps that are nobody's leave the run alone, but for saying that it is over.
LEMMA AsideStep ==
  ASSUME Deadline \/ FailRun \/ EndRestart \/ UNCHANGED vars
  PROVE  /\ UNCHANGED <<strategy, runVars, workerVars, accountVars, ledger>>
         /\ UNCHANGED phase \/ (RunIsOver /\ phase' \in {"judged", "failed"})
         /\ waiting' = waiting /\ (Deadline \/ UNCHANGED barrierVars)
<1>1. CASE Deadline
  BY <1>1 DEF Deadline, Expire
<1>2. CASE FailRun
  BY <1>2 DEF FailRun
<1>3. CASE EndRestart
  BY <1>3 DEF EndRestart, Report
<1> QED
  BY <1>1, <1>2, <1>3

\* A run whose measuring project begins.
LEMMA StagedAfresh ==
  ASSUME setUp', phase' \in {"parallel", "restart"}, jobs' = Measure(phase')
  PROVE  Staged'
<1>1. ASSUME phase' = "parallel" PROVE Staged'
  <2>1. \A t \in Slots : jobs'[t] = <<Attempt(Own[t])>> /\ Own[t] \in Markers /\ Own[t] # "setup"
    BY <1>1, MeasureIs DEF Own, Slots, Markers
  <2>2. \A t \in Slots : Len(jobs'[t]) = 1 /\ jobs'[t][1].test = Own[t] /\ Head(jobs'[t]).test = Own[t]
    BY ONLY <2>1, AttemptIs
  <2>3. \A t \in Slots : \A i \in 1..Len(jobs'[t]) : jobs'[t][i].test # "setup"
    BY ONLY <2>1, <2>2
  <2> QED
    BY ONLY setUp', <1>1, <2>2, <2>3 DEF Staged, Test
<1>2. ASSUME phase' = "restart" PROVE Staged'
  <2>1. jobs'[1] = <<Attempt("before"), Attempt("trigger"), Attempt("after")>> /\ jobs'[2] = <<>>
    BY <1>2, MeasureIs
  <2>2. Len(jobs'[2]) = 0 /\ \A t \in Slots : t = 1 \/ t = 2
    BY <2>1 DEF Slots
  <2>3. \A i \in 1..Len(jobs'[1]) : jobs'[1][i].test # "setup"
    BY <2>1 DEF Attempt
  <2>4. \A t \in Slots : \A i \in 1..Len(jobs'[t]) : jobs'[t][i].test # "setup"
    BY ONLY <2>2, <2>3
  <2> QED
    BY ONLY setUp', <1>2, <2>1, <2>4 DEF Staged, Test
<1> QED
  BY <1>1, <1>2

LEMMA StagedStep == ASSUME IInv, [Next]_vars PROVE Staged'
<1>0. RunTyped /\ WorkerTyped /\ TypeOK /\ Staged /\ Held
  BY DEF IInv, TypeOK
<1>1. ASSUME NEW s \in Slots, Step(s) \/ Die(s) PROVE Staged'
  <2>0. UNCHANGED driverVars /\ jobs[s] # <<>> /\ Elsewhere(s) /\ setUp' = setUp
    BY <1>1, SlotStep DEF Begin, Works, Complete, Discard
  <2>1. phase \notin {"judged", "failed"} /\ s \in {1, 2} /\ 1 \in Slots /\ 2 \in Slots
    BY <1>0, <2>0 DEF Staged, Quiet, Slots
  <2>2. jobs[2] = <<>> => s = 1 /\ jobs'[2] = <<>>
    BY <2>0, <2>1 DEF Elsewhere
  <2>3. setUp => \A t \in Slots : \A i \in 1..Len(jobs'[t]) : jobs'[t][i].test # "setup"
    <3> SUFFICES ASSUME setUp, NEW t \in Slots, NEW i \in 1..Len(jobs'[t]) PROVE jobs'[t][i].test # "setup"
      OBVIOUS
    <3>1. CASE t = s
      BY <1>0, <1>1, <3>1, JobsStep DEF Staged
    <3>2. CASE t # s
      BY <1>0, <2>0, <3>2 DEF Staged, Elsewhere
    <3> QED
      BY <3>1, <3>2
  <2>4. ASSUME phase = "parallel", NEW t \in Slots
        PROVE  Len(jobs'[t]) \in {0, 1} /\ (setUp /\ jobs'[t] # <<>> => Head(jobs'[t]).test = Own[t])
    <3>1. jobs'[t] = jobs[t] \/ jobs'[t] = <<>>
      BY <1>1, <2>0, <2>4, JobsStep DEF Elsewhere
    <3> QED
      BY <1>0, <2>4, <3>1 DEF Staged, Test
  <2>5. ASSUME ~setUp
        PROVE  /\ strategy = "shared-file" /\ ledger' = <<>>
               /\ \A name \in Barriers : waiting'[name] = <<>>
               /\ \A t \in Slots : pc'[t] \in {"idle", "session", "login", "save"}
               /\ jobs'[1] # <<>> => Len(jobs'[1]) = 1 /\ Head(jobs'[1]).test = "setup" /\ files' = <<>>
    <3>1. /\ strategy = "shared-file" /\ ledger = <<>> /\ \A name \in Barriers : waiting[name] = <<>>
          /\ \A t \in Slots : pc[t] \in {"idle", "session", "login", "save"}
          /\ s = 1 /\ jobs[2] = <<>> /\ Len(jobs[1]) = 1 /\ Test(1) = "setup" /\ files = <<>>
          /\ pc[1] = "idle" => session[1] = NoSession
      BY <1>0, <2>0, <2>1, <2>2, <2>5 DEF Staged, Held, Holds
    <3>2. jobs'[1] # <<>> => Len(jobs'[1]) = 1 /\ Head(jobs'[1]).test = "setup"
      <4> SUFFICES ASSUME jobs'[1] # <<>> PROVE Len(jobs'[1]) = 1 /\ Head(jobs'[1]).test = "setup"
        OBVIOUS
      <4>1. Len(jobs'[1]) \in {0, 1} /\ jobs'[1] \in Seq(Tasks)
        BY <1>1, <3>1, JobsStep
      <4>2. Len(jobs'[1]) = 1 /\ Head(jobs'[1]) = jobs'[1][1]
        BY <4>1, ListIs
      <4>3. \E j \in 1..Len(jobs[1]) : jobs'[1][1].test = jobs[1][j].test
        BY <1>1, <3>1, <4>2, JobsStep
      <4>4. Test(1) = jobs[1][1].test
        BY <1>0, <2>0, <3>1, ListIs DEF Test, RunTyped
      <4> QED
        BY <3>1, <4>2, <4>3, <4>4
    <3>3. pc[s] \notin Barriers /\ \A name \in Barriers : pc[s] # At(name)
      BY <3>1 DEF Barriers, At
    <3>4. ~(\E name \in Barriers : Meet(s, name) \/ Answered(s, name)) /\ ~Me(s) /\ ~Write(s) /\ ~Read(s) /\ ~File(s)
      BY <3>1, <3>3 DEF Meet, Answered, Me, Write, Read, File
    <3>5. UNCHANGED <<ledger, barrierVars>>
      BY <1>1, <3>4 DEF Step, Begin, Acquire, LogIn, Save, Die
    <3>6. pc'[1] \in {"idle", "session", "login", "save"}
      <4>1. CASE Begin(s)
        BY <1>0, <3>1, <4>1 DEF Begin, WorkerTyped
      <4>2. CASE Acquire(s)
        BY <1>0, <2>1, <3>1, <4>2 DEF Acquire, WorkerTyped
      <4>3. CASE LogIn(s)
        BY <1>0, <2>1, <3>1, <4>3 DEF LogIn, WorkerTyped
      <4>4. CASE Save(s)
        BY <1>0, <2>1, <3>1, <4>4 DEF Save, Complete, WorkerTyped
      <4>5. CASE Die(s)
        BY <1>0, <2>1, <3>1, <4>5 DEF Die, Discard, WorkerTyped
      <4> QED
        BY <1>1, <3>4, <4>1, <4>2, <4>3, <4>4, <4>5 DEF Step
    <3>7. jobs'[1] # <<>> => files' = <<>>
      <4>1. CASE Save(s)
        <5>1. jobs'[1] = Tail(jobs[1])
          BY <1>0, <2>1, <3>1, <4>1 DEF Save, Complete, RunTyped
        <5>2. Tail(jobs[1]) = <<>>
          <6>1. jobs[1] \in Seq(Tasks) /\ Len(jobs[1]) = 1
            BY <1>0, <2>1, <3>1 DEF RunTyped
          <6> QED
            BY ONLY <6>1, OneLess
        <5> QED
          BY <5>1, <5>2
      <4>2. CASE ~Save(s)
        <5>1. files' = files
          BY <1>1, <3>4, <4>2 DEF Step, Begin, Acquire, LogIn, Die, Discard
        <5> QED
          BY <3>1, <5>1
      <4> QED
        BY <4>1, <4>2
    <3>8. \A t \in Slots : t # 1 => pc'[t] = pc[t]
      BY <2>0, <3>1 DEF Elsewhere
    <3> QED
      BY <3>1, <3>2, <3>5, <3>6, <3>7, <3>8
  <2>6. phase # "parallel" \/ ~setUp => jobs'[2] = <<>>
    BY <1>0, <2>2 DEF Staged
  <2> QED
    BY <2>0, <2>1, <2>3, <2>4, <2>5, <2>6 DEF Staged, Test
<1>2. CASE Deadline \/ FailRun \/ EndRestart \/ UNCHANGED vars
  <2>1. /\ UNCHANGED <<strategy, runVars, workerVars, ledger, waiting>>
        /\ UNCHANGED phase \/ (RunIsOver /\ phase' \in {"judged", "failed"})
    BY <1>2, AsideStep
  <2>2. CASE UNCHANGED phase
    BY <1>0, <2>1, <2>2 DEF Staged, Test, Quiet, SetupSaved
  <2>3. CASE RunIsOver /\ phase' \in {"judged", "failed"}
    BY <1>0, <2>1, <2>3 DEF Staged, Test, RunIsOver, Quiet, SetupSaved, Slots
  <2> QED
    BY <2>1, <2>2, <2>3
<1>3. CASE StartMeasure
  <2>1. setUp' /\ jobs' = Measure(phase) /\ phase' = phase /\ phase \in {"parallel", "restart"}
    BY <1>0, <1>3 DEF StartMeasure, Staged, RunTyped, Phases
  <2>2. /\ \A t \in Slots : pc'[t] = pc[t] /\ pc[t] = "idle"
        /\ UNCHANGED <<ledger, waiting, files>>
    BY <1>3 DEF StartMeasure, Quiet
  <2> QED
    BY ONLY <2>1, <2>2, StagedAfresh
<1>4. CASE EndParallel
  <2>1. /\ jobs' = FirstJobs("restart") /\ phase' = "restart" /\ setUp' = ~NeedsSetup /\ UNCHANGED <<strategy, pc>>
        /\ files' = <<>> /\ ledger' = <<>> /\ \A name \in Barriers : waiting'[name] = <<>>
        /\ \A t \in Slots : pc[t] = "idle"
    BY <1>4 DEF EndParallel, Report, Reset, RunIsOver, Quiet
  <2>2. CASE NeedsSetup
    <3>1. jobs'[1] = <<Attempt("setup")>> /\ jobs'[2] = <<>> /\ ~setUp' /\ strategy' = "shared-file"
      BY <1>0, <2>1, <2>2, JobsBegin, StrategyIs DEF NeedsSetup, RunTyped
    <3>2. "setup" \in Markers
      BY DEF Markers
    <3>3. Len(jobs'[1]) = 1 /\ Head(jobs'[1]).test = "setup"
      BY ONLY <3>1, <3>2, AttemptIs
    <3>4. \A t \in Slots : pc'[t] \in {"idle", "session", "login", "save"}
      BY ONLY <2>1
    <3> QED
      BY ONLY <2>1, <3>1, <3>3, <3>4 DEF Staged, Test
  <2>3. CASE ~NeedsSetup
    <3>1. setUp' /\ jobs' = Measure(phase') /\ phase' \in {"parallel", "restart"}
      BY <1>0, <2>1, <2>3, JobsBegin DEF RunTyped
    <3> QED
      BY ONLY <3>1, StagedAfresh
  <2> QED
    BY <2>2, <2>3
<1> QED
  BY <1>1, <1>2, <1>3, <1>4 DEF Next

-----------------------------------------------------------------------------
\* What is filed, and that nothing else is.
LEMMA RowFiled ==
  ASSUME IInv, NEW s \in Slots, File(s)
  PROVE  \E row \in Rows :
           /\ row.phase = phase /\ row.marker = Test(s) /\ row.worker = worker[s] /\ row.slot = s
           /\ row.me = me[s] /\ row.notes = notes[s]
           /\ Len(ledger') = Len(ledger) + 1 /\ Len(ledger) \in Nat
           /\ ledger'[Len(ledger) + 1] = row /\ \A i \in 1..Len(ledger) : ledger'[i] = ledger[i]
<1>0. TypeOK /\ RunTyped /\ WorkerTyped /\ OriginTyped /\ Numbered
  BY DEF IInv, TypeOK
<1> DEFINE row == [phase |-> phase, marker |-> Test(s), worker |-> worker[s], slot |-> s, retry |-> Retry(s),
                   email |-> Account(s), me |-> me[s], notes |-> notes[s]]
<1>1. row \in Rows
  <2>1. phase \in Phases /\ me[s] \in {0, 200, 401} /\ notes[s] \in Seq(Markers)
    BY <1>0 DEF RunTyped, WorkerTyped
  <2>2. jobs[s] # <<>> /\ worker[s] # NoWorker
    BY <1>0 DEF File, Numbered
  <2>3. Test(s) \in Markers /\ Retry(s) \in Nat /\ Account(s) \in Emails /\ worker[s] \in Nat
    BY <1>0, <2>2, AccountIs DEF RunTyped
  <2> QED
    BY <2>1, <2>3 DEF Rows
<1>2. /\ row.phase = phase /\ row.marker = Test(s) /\ row.worker = worker[s] /\ row.slot = s
      /\ row.me = me[s] /\ row.notes = notes[s]
  OBVIOUS
<1>3. ledger' = Append(ledger, row) /\ ledger \in Seq(Rows)
  BY <1>0 DEF File, FileRow, OriginTyped
<1> HIDE DEF row
<1>4. /\ Len(ledger') = Len(ledger) + 1 /\ Len(ledger) \in Nat
      /\ ledger'[Len(ledger) + 1] = row /\ \A i \in 1..Len(ledger) : ledger'[i] = ledger[i]
  BY ONLY <1>1, <1>3
<1> QED
  BY <1>1, <1>2, <1>4

LEMMA LedgerStep ==
  ASSUME IInv, NEW s \in Slots, Step(s) \/ Die(s), ~File(s)
  PROVE  ledger' = ledger
  BY DEF Step, Begin, Acquire, LogIn, Save, Meet, Answered, Me, Write, Read, Die

LEMMA WorkerStep ==
  ASSUME IInv, NEW s \in Slots, Step(s) \/ Die(s)
  PROVE  /\ \/ Begin(s) /\ worker[s] = NoWorker /\ worker'[s] = workers /\ workers' = workers + 1
            \/ worker'[s] = worker[s] /\ workers' = workers
            \/ Discard(s) /\ worker'[s] = NoWorker /\ pc'[s] = "idle" /\ workers' = workers
         /\ pc'[s] # "idle" => jobs'[s] # <<>> /\ worker'[s] # NoWorker
<1>0. RunTyped /\ WorkerTyped /\ TypeOK /\ Numbered
  BY DEF IInv, TypeOK
<1>1. jobs[s] # <<>> /\ (Begin(s) \/ (pc[s] # "idle" /\ (Works(s) \/ Complete(s) \/ Discard(s))))
  BY SlotStep
<1>2. CASE Begin(s)
  BY <1>0, <1>2 DEF Begin, RunTyped, NoWorker
<1>3. CASE pc[s] # "idle" /\ Works(s)
  BY <1>0, <1>3 DEF Works, Numbered
<1>4. CASE Complete(s)
  BY <1>0, <1>4 DEF Complete, WorkerTyped
<1>5. CASE Discard(s)
  BY <1>0, <1>5, Discarded
<1> QED
  BY <1>1, <1>2, <1>3, <1>4, <1>5

LEMMA NumberedStep == ASSUME IInv, [Next]_vars PROVE Numbered'
<1>0. RunTyped /\ WorkerTyped /\ TypeOK /\ OriginTyped /\ Numbered
  BY DEF IInv, TypeOK
<1>1. ASSUME NEW s \in Slots, Step(s) \/ Die(s) PROVE Numbered'
  <2>0. Elsewhere(s) /\ s \in {1, 2}
    BY <1>1, SlotStep DEF Slots
  <2>1. /\ \/ worker[s] = NoWorker /\ worker'[s] = workers /\ workers' = workers + 1
           \/ worker'[s] = worker[s] /\ workers' = workers
           \/ worker'[s] = NoWorker /\ workers' = workers
        /\ pc'[s] # "idle" => jobs'[s] # <<>> /\ worker'[s] # NoWorker
    BY <1>1, WorkerStep
  <2>2. \A t \in Slots : pc'[t] # "idle" => jobs'[t] # <<>> /\ worker'[t] # NoWorker
    BY <1>0, <2>0, <2>1 DEF Elsewhere, Numbered
  <2>3. /\ \A t \in Slots : worker[t] \in Nat \union {NoWorker} /\ (worker[t] # NoWorker => worker[t] < workers)
        /\ worker[1] = worker[2] => worker[1] = NoWorker
        /\ \A t \in Slots : t # s => worker'[t] = worker[t]
        /\ workers \in Nat /\ 1 \in Slots /\ 2 \in Slots /\ NoWorker \notin Nat
    BY <1>0, <2>0 DEF Elsewhere, Numbered, RunTyped, Slots, NoWorker
  <2>4. \A t \in Slots : worker'[t] # NoWorker => worker'[t] < workers'
    BY ONLY <2>0, <2>1, <2>3
  <2>5. worker'[1] = worker'[2] => worker'[1] = NoWorker
    BY ONLY <2>0, <2>1, <2>3
  <2>6. \A i \in 1..Len(ledger') : ledger'[i].worker < workers'
    <3>1. \A i \in 1..Len(ledger) : ledger[i].worker \in Nat /\ ledger[i].worker < workers'
      <4> SUFFICES ASSUME NEW i \in 1..Len(ledger) PROVE ledger[i].worker \in Nat /\ ledger[i].worker < workers'
        OBVIOUS
      <4>1. ledger[i] \in Rows /\ ledger[i].worker < workers
        BY <1>0 DEF OriginTyped, Numbered
      <4> QED
        BY <2>1, <2>3, <4>1 DEF Rows
    <3>2. CASE File(s)
      <4>1. PICK row \in Rows : /\ row.worker = worker[s] /\ Len(ledger') = Len(ledger) + 1 /\ Len(ledger) \in Nat
                                /\ ledger'[Len(ledger) + 1] = row /\ \A i \in 1..Len(ledger) : ledger'[i] = ledger[i]
        BY <3>2, RowFiled
      <4>2. worker[s] < workers'
        <5>1. worker[s] < workers /\ worker[s] \in Nat /\ workers' \in {workers, workers + 1}
          BY <1>0, <2>1, <2>3, <3>2 DEF File, Numbered
        <5> QED
          BY <2>3, <5>1
      <4> QED
        BY ONLY <3>1, <4>1, <4>2
    <3>3. CASE ~File(s)
      BY <1>1, <3>1, <3>3, LedgerStep
    <3> QED
      BY <3>2, <3>3
  <2> QED
    BY <2>2, <2>4, <2>5, <2>6 DEF Numbered
<1>2. CASE Deadline \/ FailRun \/ EndRestart \/ UNCHANGED vars
  <2>1. UNCHANGED <<runVars, workerVars, ledger>>
    BY <1>2, AsideStep
  <2> QED
    BY <1>0, <2>1 DEF Numbered
<1>3. CASE StartMeasure
  BY <1>0, <1>3 DEF StartMeasure, Quiet, Numbered, Slots
<1>4. CASE EndParallel
  BY <1>0, <1>4 DEF EndParallel, Report, Reset, RunIsOver, Quiet, Numbered, Slots
<1> QED
  BY <1>1, <1>2, <1>3, <1>4 DEF Next

-----------------------------------------------------------------------------
\* A sign-in opens one session and closes the one its account had, and no other.
LEMMA LoggedIn ==
  ASSUME IInv, NEW s \in Slots, LogIn(s)
  PROVE  /\ counter \in Nat /\ counter' = counter + 1
         /\ DOMAIN accounts' = DOMAIN accounts \union {Account(s)}
         /\ \A e \in DOMAIN accounts : e # Account(s) => accounts'[e] = accounts[e]
         /\ accounts'[Account(s)].session = counter + 1
         /\ accounts'[Account(s)].notes = IF Account(s) \in DOMAIN accounts THEN accounts[Account(s)].notes ELSE <<>>
         /\ counter + 1 \in DOMAIN sessions' /\ sessions'[counter + 1] = Account(s)
         /\ \A c \in DOMAIN sessions' : c # counter + 1 =>
              c \in DOMAIN sessions /\ sessions'[c] = sessions[c] /\ sessions[c] # Account(s)
         /\ \A c \in DOMAIN sessions : sessions[c] # Account(s) =>
              c \in DOMAIN sessions' /\ sessions'[c] = sessions[c] /\ c # counter + 1
         /\ session'[s] = counter + 1 /\ pc'[s] = "save" /\ pc[s] = "login" /\ UNCHANGED <<me, notes, runVars, ledger>>
<1>0. OriginTyped /\ Agree /\ WorkerTyped
  BY DEF IInv, TypeOK
<1>1. /\ Login(Account(s)) /\ session' = [session EXCEPT ![s] = counter'] /\ pc[s] = "login"
      /\ pc' = [pc EXCEPT ![s] = "save"] /\ UNCHANGED <<me, notes, runVars, ledger>>
  BY DEF LogIn
<1>2. PICK e : e = Account(s)
  OBVIOUS
<1>3. PICK old : old = AccountFor(e)
  OBVIOUS
<1>4. old \in [session : Nat, notes : Seq(Markers)] /\ counter \in Nat
  BY <1>0, <1>3 DEF AccountFor, OriginTyped, NoSession
<1>5. PICK v : v = [old EXCEPT !.session = counter + 1]
  OBVIOUS
<1>6. v.session = counter + 1 /\ v.notes = old.notes
  BY ONLY <1>4, <1>5
<1>7. accounts' = Put(accounts, e, v) /\ counter' = counter + 1
  BY ONLY <1>1, <1>2, <1>3, <1>5 DEF Login
<1>8. sessions' = Put(Without(sessions, old.session), counter + 1, e)
  BY ONLY <1>1, <1>2, <1>3 DEF Login
<1>9. /\ DOMAIN accounts' = DOMAIN accounts \union {e} /\ accounts'[e] = v
      /\ \A x \in DOMAIN accounts : x # e => accounts'[x] = accounts[x]
  <2>1. PICK put : put = Put(accounts, e, v)
    OBVIOUS
  <2>2. /\ DOMAIN put = DOMAIN accounts \union {e} /\ put[e] = v
        /\ \A x \in DOMAIN accounts : x # e => put[x] = accounts[x]
    BY ONLY <2>1 DEF Put
  <2>3. accounts' = put
    BY <1>7, <2>1
  <2> QED
    BY ONLY <2>2, <2>3
<1>10. /\ DOMAIN sessions' = (DOMAIN sessions \ {old.session}) \union {counter + 1} /\ sessions'[counter + 1] = e
       /\ \A c \in DOMAIN sessions : c # old.session /\ c # counter + 1 => sessions'[c] = sessions[c]
  <2>1. PICK put : put = Put(Without(sessions, old.session), counter + 1, e)
    OBVIOUS
  <2>2. /\ DOMAIN put = (DOMAIN sessions \ {old.session}) \union {counter + 1} /\ put[counter + 1] = e
        /\ \A c \in DOMAIN sessions : c # old.session /\ c # counter + 1 => put[c] = sessions[c]
    BY ONLY <2>1 DEF Put, Without
  <2>3. sessions' = put
    BY <1>8, <2>1
  <2> QED
    BY ONLY <2>2, <2>3
<1>11. old.notes = IF e \in DOMAIN accounts THEN accounts[e].notes ELSE <<>>
  BY ONLY <1>3 DEF AccountFor
<1>12. \A c \in DOMAIN sessions : c # counter + 1 /\ (c = old.session <=> sessions[c] = e)
  <2> SUFFICES ASSUME NEW c \in DOMAIN sessions PROVE c # counter + 1 /\ (c = old.session <=> sessions[c] = e)
    OBVIOUS
  <2>1. c \in 1..counter /\ sessions[c] \in DOMAIN accounts /\ accounts[sessions[c]].session = c
    BY <1>0 DEF Agree
  <2>2. CASE e \in DOMAIN accounts
    <3>1. old = accounts[e] /\ sessions[accounts[e].session] = e
      BY <1>0, <1>3, <2>2 DEF AccountFor, Agree
    <3> QED
      BY <1>4, <2>1, <3>1
  <2>3. CASE e \notin DOMAIN accounts
    <3>1. old.session = 0
      BY <1>3, <2>3 DEF AccountFor, NoSession
    <3> QED
      BY <1>4, <2>1, <2>3, <3>1
  <2> QED
    BY <2>2, <2>3
<1>13. session'[s] = counter + 1 /\ pc'[s] = "save"
  BY <1>0, <1>1, <1>7 DEF WorkerTyped
<1> QED
  <2>1. \A c \in DOMAIN sessions' : c # counter + 1 =>
          c \in DOMAIN sessions /\ sessions'[c] = sessions[c] /\ sessions[c] # e
    BY ONLY <1>10, <1>12
  <2>2. \A c \in DOMAIN sessions : sessions[c] # e =>
          c \in DOMAIN sessions' /\ sessions'[c] = sessions[c] /\ c # counter + 1
    BY ONLY <1>10, <1>12
  <2> QED
    BY ONLY <1>1, <1>2, <1>4, <1>6, <1>7, <1>9, <1>10, <1>11, <1>13, <2>1, <2>2

\* A note is put where the session belongs.
LEMMA Wrote ==
  ASSUME IInv, NEW s \in Slots, Write(s), Authenticated(session[s])
  PROVE  /\ sessions[session[s]] \in DOMAIN accounts /\ DOMAIN accounts' = DOMAIN accounts
         /\ \A e \in DOMAIN accounts :
              /\ accounts'[e].session = accounts[e].session
              /\ accounts'[e].notes = IF e = sessions[session[s]] THEN Append(accounts[e].notes, Test(s))
                                      ELSE accounts[e].notes
         /\ pc'[s] = "written" /\ pc[s] = "write" /\ UNCHANGED <<sessions, counter, session, me, notes, runVars, ledger>>
<1>0. OriginTyped /\ Agree /\ WorkerTyped
  BY DEF IInv, TypeOK
<1>1. accounts' = [accounts EXCEPT ![sessions[session[s]]].notes = Append(@, Test(s))]
  BY DEF Write, WriteNote
<1>2. /\ pc' = [pc EXCEPT ![s] = "written"] /\ pc[s] = "write"
      /\ UNCHANGED <<sessions, counter, session, me, notes, runVars, ledger>>
  BY DEF Write, WriteNote
<1>3. PICK email \in DOMAIN accounts : email = sessions[session[s]]
  BY <1>0 DEF Agree, Authenticated
<1>4. PICK account : account = accounts[email]
  OBVIOUS
<1>5. PICK v : v = [account EXCEPT !.notes = Append(@, Test(s))]
  OBVIOUS
<1>6. account \in [session : Nat, notes : Seq(Markers)]
  BY <1>0, <1>3, <1>4 DEF OriginTyped
<1>7. v.session = account.session /\ v.notes = Append(account.notes, Test(s))
  BY ONLY <1>5, <1>6
<1>8. accounts' = [accounts EXCEPT ![email] = v]
  <2>1. accounts' = [accounts EXCEPT ![email] = [accounts[email] EXCEPT !.notes = Append(@, Test(s))]]
    BY <1>1, <1>3
  <2> QED
    BY ONLY <1>4, <1>5, <2>1
<1>9. /\ DOMAIN accounts' = DOMAIN accounts
      /\ \A e \in DOMAIN accounts : accounts'[e] = IF e = email THEN v ELSE accounts[e]
  BY ONLY <1>3, <1>8
<1>10. \A e \in DOMAIN accounts :
         /\ accounts'[e].session = accounts[e].session
         /\ accounts'[e].notes = IF e = email THEN Append(accounts[e].notes, Test(s)) ELSE accounts[e].notes
  BY ONLY <1>4, <1>7, <1>9
<1>11. pc'[s] = "written"
  BY <1>0, <1>2 DEF WorkerTyped
<1> QED
  BY ONLY <1>2, <1>3, <1>9, <1>10, <1>11

LEMMA AccountsStep ==
  ASSUME IInv, NEW s \in Slots, Step(s) \/ Die(s), ~LogIn(s), ~(Write(s) /\ Authenticated(session[s]))
  PROVE  UNCHANGED accountVars
<1>1. CASE Write(s)
  BY <1>1 DEF Write
<1>2. CASE ~Write(s)
  BY <1>2 DEF Step, Begin, Acquire, Save, Meet, Answered, Me, Read, File, Die
<1> QED
  BY <1>1, <1>2

LEMMA AgreeStep == ASSUME IInv, [Next]_vars PROVE Agree'
<1>0. OriginTyped /\ Agree
  BY DEF IInv, TypeOK
<1>1. ASSUME NEW s \in Slots, Step(s) \/ Die(s) PROVE Agree'
  <2>1. CASE LogIn(s)
    <3>1. PICK e : e = Account(s)
      OBVIOUS
    <3>2. /\ counter \in Nat /\ counter' = counter + 1
          /\ DOMAIN accounts' = DOMAIN accounts \union {e}
          /\ \A x \in DOMAIN accounts : x # e => accounts'[x] = accounts[x]
          /\ accounts'[e].session = counter + 1
          /\ counter + 1 \in DOMAIN sessions' /\ sessions'[counter + 1] = e
          /\ \A c \in DOMAIN sessions' : c # counter + 1 =>
               c \in DOMAIN sessions /\ sessions'[c] = sessions[c] /\ sessions[c] # e
          /\ \A c \in DOMAIN sessions : sessions[c] # e =>
               c \in DOMAIN sessions' /\ sessions'[c] = sessions[c] /\ c # counter + 1
      BY <2>1, <3>1, LoggedIn
    <3>3. ASSUME NEW c \in DOMAIN sessions'
          PROVE  c \in 1..counter' /\ sessions'[c] \in DOMAIN accounts' /\ accounts'[sessions'[c]].session = c
      <4>1. CASE c = counter + 1
        BY ONLY <3>2, <4>1
      <4>2. CASE c # counter + 1
        <5>1. c \in DOMAIN sessions /\ sessions'[c] = sessions[c] /\ sessions[c] # e
          BY ONLY <3>2, <3>3, <4>2
        <5>2. c \in 1..counter /\ sessions[c] \in DOMAIN accounts /\ accounts[sessions[c]].session = c
          BY <1>0, <5>1 DEF Agree
        <5> QED
          BY ONLY <3>2, <5>1, <5>2
      <4> QED
        BY <4>1, <4>2
    <3>4. ASSUME NEW x \in DOMAIN accounts'
          PROVE  accounts'[x].session \in DOMAIN sessions' /\ sessions'[accounts'[x].session] = x
      <4>1. CASE x = e
        BY ONLY <3>2, <4>1
      <4>2. CASE x # e
        <5>1. x \in DOMAIN accounts /\ accounts'[x] = accounts[x]
          BY ONLY <3>2, <3>4, <4>2
        <5>2. accounts[x].session \in DOMAIN sessions /\ sessions[accounts[x].session] = x
          BY <1>0, <5>1 DEF Agree
        <5> QED
          BY ONLY <3>2, <4>2, <5>1, <5>2
      <4> QED
        BY <4>1, <4>2
    <3> QED
      BY <3>3, <3>4 DEF Agree
  <2>2. CASE Write(s) /\ Authenticated(session[s])
    <3>1. /\ DOMAIN accounts' = DOMAIN accounts /\ UNCHANGED <<sessions, counter>>
          /\ \A e \in DOMAIN accounts : accounts'[e].session = accounts[e].session
      BY <2>2, Wrote
    <3> QED
      BY ONLY <1>0, <3>1 DEF Agree
  <2>3. CASE ~LogIn(s) /\ ~(Write(s) /\ Authenticated(session[s]))
    BY <1>0, <1>1, <2>3, AccountsStep DEF Agree
  <2> QED
    BY <2>1, <2>2, <2>3
<1>2. CASE Deadline \/ FailRun \/ EndRestart \/ UNCHANGED vars
  BY <1>0, <1>2, AsideStep DEF Agree
<1>3. CASE StartMeasure
  BY <1>0, <1>3 DEF StartMeasure, Agree
<1>4. CASE EndParallel
  BY <1>4 DEF EndParallel, Reset, Agree
<1> QED
  BY <1>1, <1>2, <1>3, <1>4 DEF Next

-----------------------------------------------------------------------------
\* Two slots at work share an account only where the strategy has them share it.
LEMMA ApartAccounts ==
  ASSUME IInv, NEW s \in Slots, NEW t \in Slots, s # t, pc[s] # "idle", Scope # "run",
         Scope = "test" => pc[t] # "idle"
  PROVE  Account(s) # Account(t)
<1>0. RunTyped /\ TypeOK /\ Staged /\ Numbered
  BY DEF IInv, TypeOK
<1>1. Scope \in {"parallel-index", "worker-index", "test"}
  BY <1>0, StrategyIs DEF RunTyped
<1>2. jobs[s] # <<>> /\ worker[s] # NoWorker /\ worker[s] # worker[t]
  BY <1>0 DEF Numbered, Slots
<1>3. CASE Scope = "parallel-index"
  BY <1>0, <1>3, AccountIs
<1>4. CASE Scope = "worker-index"
  BY <1>0, <1>2, <1>4, AccountIs
<1>5. CASE Scope = "test"
  <2>1. jobs[t] # <<>>
    BY <1>0, <1>5 DEF Numbered
  <2>2. jobs[1] # <<>> /\ jobs[2] # <<>>
    BY <1>2, <2>1 DEF Slots
  <2>3. phase = "parallel" /\ setUp
    BY <1>0, <2>2 DEF Staged
  <2>4. Test(s) = Own[s] /\ Test(t) = Own[t] /\ Own[s] # Own[t]
    BY <1>0, <1>2, <2>1, <2>3 DEF Staged, Own, Slots
  <2> QED
    BY <1>0, <1>5, <2>4, AccountIs
<1> QED
  BY <1>1, <1>3, <1>4, <1>5

Signed == Places \ {"idle", "session", "login"}

\* Where a slot's session comes from and how long it is kept.
LEMMA SessionStep ==
  ASSUME IInv, NEW s \in Slots, Step(s) \/ Die(s)
  PROVE  \/ Begin(s)
         \/ LogIn(s)
         \/ /\ pc[s] = "session" /\ pc'[s] = "login" /\ session'[s] = session[s] /\ UNCHANGED <<jobs, worker, files>>
            /\ Acquisition # "sign-in" =>
                 Test(s) = "setup" \/ (Acquisition = "save-and-restore" /\ Account(s) \notin DOMAIN files)
         \/ /\ pc[s] = "session" /\ pc'[s] = "signed-in" /\ UNCHANGED <<jobs, worker, files>>
            /\ Acquisition # "sign-in" /\ Account(s) \in DOMAIN files /\ session'[s] = files[Account(s)]
         \/ pc[s] \in Signed /\ pc'[s] \in Signed \ {"save"} /\ session'[s] = session[s] /\ UNCHANGED <<jobs, worker>>
         \/ Complete(s) /\ pc[s] \in Signed
         \/ Discard(s)
<1>0. RunTyped /\ WorkerTyped /\ TypeOK
  BY DEF IInv, TypeOK
<1>a. Acquisition \in {"sign-in", "restore-only", "save-and-restore"}
  BY <1>0, StrategyIs DEF RunTyped
<1> USE DEF WorkerTyped, Signed, Places
<1>1. CASE Acquire(s)
  <2>1. CASE Discard(s)
    BY <2>1
  <2>2. CASE ~Discard(s)
    BY <1>0, <1>a, <1>1, <2>2 DEF Acquire
  <2> QED
    BY <2>1, <2>2
<1>2. CASE Save(s)
  BY <1>0, <1>2 DEF Save
<1>3. ASSUME NEW name \in Barriers, Meet(s, name)
      PROVE  pc[s] \in Signed /\ pc'[s] \in Signed \ {"save"} /\ session'[s] = session[s] /\ UNCHANGED <<jobs, worker>>
  <2>1. /\ pc[s] = name /\ (pc' = [pc EXCEPT ![s] = At(name)] \/ pc' = [pc EXCEPT ![s] = After(s, name)])
        /\ UNCHANGED <<session, jobs, worker>>
    BY <1>3 DEF Meet
  <2>2. At(name) \in Signed \ {"save"} /\ After(s, name) \in Signed \ {"save"} /\ name \in Signed
    BY DEF At, After, Barriers
  <2> QED
    BY <1>0, <2>1, <2>2
<1>4. ASSUME NEW name \in Barriers, Answered(s, name), ~Discard(s)
      PROVE  pc[s] \in Signed /\ pc'[s] \in Signed \ {"save"} /\ session'[s] = session[s] /\ UNCHANGED <<jobs, worker>>
  <2>1. /\ pc[s] = At(name) /\ pc' = [pc EXCEPT ![s] = After(s, name)]
        /\ UNCHANGED <<session, jobs, worker>>
    BY <1>4 DEF Answered
  <2>2. At(name) \in Signed /\ After(s, name) \in Signed \ {"save"}
    BY DEF At, After
  <2> QED
    BY <1>0, <2>1, <2>2
<1>5. CASE Me(s)
  BY <1>0, <1>5 DEF Me
<1>6. CASE Write(s)
  BY <1>0, <1>6 DEF Write
<1>7. CASE Read(s)
  BY <1>0, <1>7 DEF Read
<1>8. CASE File(s)
  BY <1>0, <1>8 DEF File
<1>9. CASE Die(s)
  BY <1>9 DEF Die
<1> QED
  BY <1>1, <1>2, <1>3, <1>4, <1>5, <1>6, <1>7, <1>8, <1>9 DEF Step

LEMMA FilesStep ==
  ASSUME IInv, NEW s \in Slots, Step(s) \/ Die(s), ~Save(s)
  PROVE  files' = files
<1>1. CASE Discard(s)
  BY <1>1 DEF Discard
<1>2. CASE ~Discard(s)
  BY <1>2 DEF Step, Begin, Acquire, LogIn, Meet, Answered, Me, Write, Read, File, Die
<1> QED
  BY <1>1, <1>2

\* A session lives on until somebody signs in to its account.
LEMMA AliveStep ==
  ASSUME IInv, NEW s \in Slots, Step(s) \/ Die(s), NEW c, NEW e, Alive(c, e), LogIn(s) => e # Account(s)
  PROVE  Alive(c, e)'
<1>1. CASE LogIn(s)
  <2>1. \A x \in DOMAIN sessions : sessions[x] # Account(s) => x \in DOMAIN sessions' /\ sessions'[x] = sessions[x]
    BY <1>1, LoggedIn
  <2> QED
    BY <1>1, <2>1 DEF Alive
<1>2. CASE Write(s) /\ Authenticated(session[s])
  BY <1>2, Wrote DEF Alive
<1>3. CASE ~LogIn(s) /\ ~(Write(s) /\ Authenticated(session[s]))
  BY <1>3, AccountsStep DEF Alive
<1> QED
  BY <1>1, <1>2, <1>3

LEMMA HeldStep == ASSUME IInv, [Next]_vars PROVE Held'
<1>0. RunTyped /\ WorkerTyped /\ TypeOK /\ Staged /\ Numbered /\ Agree /\ Held /\ OriginTyped
  BY DEF IInv, TypeOK
<1>s. /\ strategy = "shared-file" => Scope = "run" /\ Acquisition = "restore-only"
      /\ Scope = "run" => strategy \in {"shared-lazy", "shared-file"}
      /\ Acquisition # "sign-in" => strategy # "shared-lazy"
      /\ Acquisition \in {"sign-in", "restore-only", "save-and-restore"}
      /\ Acquisition = "save-and-restore" => strategy # "shared-file"
  BY <1>0, StrategyIs DEF RunTyped
<1>1. ASSUME NEW s \in Slots, Step(s) \/ Die(s) PROVE Held'
  <2>0. /\ Elsewhere(s) /\ setUp' = setUp /\ strategy' = strategy /\ jobs[s] # <<>>
        /\ Scope' = Scope /\ Acquisition' = Acquisition
    BY <1>1, SlotStep DEF Begin, Works, Complete, Discard, Scope, Acquisition
  <2>1. \A t \in Slots : jobs'[t] = jobs[t] /\ worker'[t] = worker[t] => Account(t)' = Account(t)
    BY <2>0 DEF Account, Test
  <2>b. \A t \in Slots : t # s => ~(~setUp /\ pc[s] # "idle" /\ pc[t] # "idle")
    BY <1>0 DEF Staged, Numbered, Slots
  <2>2. ASSUME LogIn(s), strategy # "shared-lazy", NEW t \in Slots, t # s, session[t] # NoSession
        PROVE  Account(t) # Account(s)
    <3>1. pc[s] = "login" /\ (Scope = "test" => pc[t] # "idle")
      BY <1>0, <2>2 DEF LogIn, Held, Holds
    <3>2. CASE Scope = "run"
      <4>1. ~setUp
        BY <1>0, <1>s, <2>2, <3>1, <3>2 DEF Held, SignsIn
      <4>2. pc[t] # "idle"
        BY <1>0, <2>2, <4>1 DEF Held, Holds
      <4> QED
        BY <2>b, <2>2, <3>1, <4>1, <4>2
    <3>3. CASE Scope # "run"
      BY <2>2, <3>1, <3>3, ApartAccounts
    <3> QED
      BY <3>2, <3>3
  <2>3. ASSUME NEW t \in Slots, t # s PROVE Holds(t)'
    <3>1. pc'[t] = pc[t] /\ session'[t] = session[t] /\ worker'[t] = worker[t] /\ Account(t)' = Account(t)
      BY <2>0, <2>1, <2>3 DEF Elsewhere
    <3>2. Holds(t)
      BY <1>0 DEF Held
    <3>3. ASSUME strategy # "shared-lazy", session[t] # NoSession PROVE Alive(session[t], Account(t))'
      <4>1. Alive(session[t], Account(t))
        BY <3>2, <3>3 DEF Holds
      <4>2. PICK c, e : c = session[t] /\ e = Account(t)
        OBVIOUS
      <4>3. Alive(c, e)'
        BY <1>1, <2>2, <2>3, <3>3, <4>1, <4>2, AliveStep
      <4> QED
        BY <3>1, <4>2, <4>3 DEF Alive
    <3> QED
      BY <2>0, <3>1, <3>2, <3>3 DEF Holds
  <2>4. Holds(s)'
    <3>0. Holds(s)
      BY <1>0 DEF Held
    <3>a. ASSUME ~LogIn(s), NEW c, NEW e, Alive(c, e) PROVE c \in DOMAIN sessions' /\ sessions'[c] = e
      BY <1>1, <3>a, AliveStep DEF Alive
    <3>1. CASE Begin(s)
      <4>1. /\ pc[s] = "idle" /\ pc'[s] = (IF session[s] = NoSession THEN "session" ELSE "signed-in")
            /\ session'[s] = session[s] /\ jobs' = jobs /\ ~LogIn(s)
            /\ worker[s] # NoWorker => worker'[s] = worker[s]
        BY <1>0, <3>1 DEF Begin, WorkerTyped, LogIn
      <4>2. strategy # "shared-lazy" /\ session[s] # NoSession => Alive(session[s], Account(s)) /\ worker[s] # NoWorker
        BY <3>0, <4>1 DEF Holds
      <4>3. strategy # "shared-lazy" /\ session[s] # NoSession =>
               session[s] \in DOMAIN sessions' /\ sessions'[session[s]] = Account(s) /\ Account(s)' = Account(s)
        BY <2>1, <3>a, <4>1, <4>2
      <4> QED
        BY <2>0, <4>1, <4>3 DEF Holds, Alive
    <3>2. CASE LogIn(s)
      <4>1. /\ session'[s] = counter + 1 /\ pc'[s] = "save" /\ counter + 1 \in DOMAIN sessions'
            /\ sessions'[counter + 1] = Account(s) /\ jobs'[s] = jobs[s] /\ worker'[s] = worker[s] /\ counter \in Nat
        BY <3>2, LoggedIn
      <4>2. Account(s)' = Account(s) /\ session'[s] # NoSession
        BY <2>1, <4>1 DEF NoSession
      <4> QED
        BY ONLY <4>1, <4>2 DEF Holds, Alive
    <3>3. CASE pc[s] = "session" /\ pc'[s] = "login" /\ session'[s] = session[s]
      BY <3>0, <3>3 DEF Holds
    <3>4. CASE /\ pc[s] = "session" /\ pc'[s] = "signed-in" /\ UNCHANGED <<jobs, worker, files>>
               /\ Acquisition # "sign-in" /\ Account(s) \in DOMAIN files /\ session'[s] = files[Account(s)]
      <4>1. Alive(files[Account(s)], Account(s)) /\ ~LogIn(s)
        BY <1>0, <3>4 DEF Held, LogIn
      <4>2. files[Account(s)] \in DOMAIN sessions' /\ sessions'[files[Account(s)]] = Account(s)
        BY <3>a, <4>1
      <4>3. session'[s] # NoSession /\ Account(s)' = Account(s)
        <5>1. session'[s] \in 1..counter /\ counter \in Nat
          BY <1>0, <3>4, <4>1 DEF Alive, Agree, OriginTyped
        <5> QED
          BY <2>1, <3>4, <5>1 DEF NoSession
      <4> QED
        BY ONLY <3>4, <4>2, <4>3 DEF Holds, Alive
    <3>5. CASE pc[s] \in Signed /\ pc'[s] \in Signed \ {"save"} /\ session'[s] = session[s] /\ UNCHANGED <<jobs, worker>>
      <4>1. session[s] # NoSession /\ (strategy # "shared-lazy" => Alive(session[s], Account(s))) /\ ~LogIn(s)
        BY <3>0, <3>5 DEF Holds, Signed, Places, LogIn
      <4>2. strategy # "shared-lazy" => session[s] \in DOMAIN sessions' /\ sessions'[session[s]] = Account(s)
        BY <3>a, <4>1
      <4>3. Account(s)' = Account(s) /\ pc'[s] \notin {"idle", "session", "login"}
        BY <2>1, <3>5 DEF Signed
      <4> QED
        BY ONLY <2>0, <3>5, <4>1, <4>2, <4>3 DEF Holds, Alive
    <3>6. CASE Complete(s) /\ pc[s] \in Signed
      <4>1. /\ pc'[s] = "idle" /\ worker' = worker
            /\ session'[s] = IF Scope = "test" \/ Test(s) = "setup" THEN NoSession ELSE session[s]
        BY <1>0, <3>6, Completed
      <4>2. /\ session[s] # NoSession /\ (strategy # "shared-lazy" => Alive(session[s], Account(s)))
            /\ ~LogIn(s) /\ worker[s] # NoWorker
        BY <1>0, <3>0, <3>6 DEF Holds, Signed, Places, LogIn, Numbered
      <4>3. strategy # "shared-lazy" => session[s] \in DOMAIN sessions' /\ sessions'[session[s]] = Account(s)
        BY <3>a, <4>2
      <4>4. ~setUp => Test(s) = "setup"
        BY <1>0, <2>0 DEF Staged, Slots
      <4>5. Scope # "test" => Account(s)' = Account(s)
        BY <2>0, <4>1 DEF Account
      <4> QED
        BY ONLY <2>0, <4>1, <4>2, <4>3, <4>4, <4>5 DEF Holds, Alive
    <3>7. CASE Discard(s)
      <4>1. pc'[s] = "idle" /\ session'[s] = NoSession
        BY <1>0, <3>7, Discarded
      <4> QED
        BY ONLY <4>1 DEF Holds, NoSession
    <3> QED
      BY <1>1, <3>1, <3>2, <3>3, <3>4, <3>5, <3>6, <3>7, SessionStep
  <2>5. ASSUME Acquisition # "sign-in", NEW f \in DOMAIN files' PROVE Alive(files[f], f)'
    <3>1. CASE f \in DOMAIN files /\ files'[f] = files[f] /\ (LogIn(s) => f # Account(s))
      <4>1. PICK c : c = files[f]
        OBVIOUS
      <4>2. Alive(c, f)'
        BY <1>0, <1>1, <2>5, <3>1, <4>1, AliveStep DEF Held
      <4> QED
        BY <3>1, <4>1, <4>2 DEF Alive
    <3>2. CASE Save(s)
      <4>1. PICK c, e : c = session[s] /\ e = Account(s)
        OBVIOUS
      <4>2. files' = Put(files, e, c) /\ pc[s] = "save" /\ ~LogIn(s)
        BY <3>2, <4>1 DEF Save, LogIn
      <4>3. DOMAIN files' = DOMAIN files \union {e} /\ files'[e] = c /\ \A x \in DOMAIN files : x # e => files'[x] = files[x]
        BY ONLY <4>2 DEF Put
      <4>4. Alive(c, e)
        BY <1>0, <1>s, <2>5, <4>1, <4>2 DEF Held, Holds
      <4>5. Alive(c, e)'
        BY <1>1, <4>2, <4>4, AliveStep
      <4>6. CASE f = e
        BY <4>3, <4>5, <4>6 DEF Alive
      <4>7. CASE f # e
        <5>1. f \in DOMAIN files /\ files'[f] = files[f]
          BY ONLY <2>5, <4>3, <4>7
        <5> QED
          BY <3>1, <4>2, <5>1
      <4> QED
        BY <4>6, <4>7
    <3>3. CASE ~Save(s)
      <4>1. files' = files
        BY <1>1, <3>3, FilesStep
      <4>2. LogIn(s) => Account(s) \notin DOMAIN files
        BY <1>0, <2>5 DEF LogIn, Held, SignsIn
      <4> QED
        BY <2>5, <3>1, <4>1, <4>2
    <3> QED
      BY <3>2, <3>3
  <2>6. ASSUME Acquisition # "sign-in", NEW t \in Slots PROVE SignsIn(t)'
    <3>0. SignsIn(s) /\ SignsIn(t)
      BY <1>0, <2>6 DEF Held
    <3>1. CASE t # s
      <4>1. pc'[t] = pc[t] /\ Account(t)' = Account(t)
        BY <2>0, <2>1, <3>1 DEF Elsewhere
      <4>2. CASE Save(s)
        <5>1. pc[t] \in {"login", "save"} => Account(t) # Account(s)
          <6> SUFFICES ASSUME pc[t] \in {"login", "save"} PROVE Account(t) # Account(s)
            OBVIOUS
          <6>1. pc[s] # "idle"
            BY <4>2 DEF Save
          <6>2. CASE Scope = "run"
            BY <1>s, <2>b, <2>6, <3>0, <3>1, <6>1, <6>2 DEF SignsIn
          <6>3. CASE Scope # "run"
            BY <3>1, <6>1, <6>3, ApartAccounts
          <6> QED
            BY <6>2, <6>3
        <5>2. DOMAIN files' = DOMAIN files \union {Account(s)}
          BY <4>2 DEF Save, Put
        <5> QED
          BY ONLY <2>0, <3>0, <4>1, <5>1, <5>2 DEF SignsIn
      <4>3. CASE ~Save(s)
        BY <1>1, <2>0, <3>0, <4>1, <4>3, FilesStep DEF SignsIn
      <4> QED
        BY <4>2, <4>3
    <3>2. ASSUME t = s, pc'[s] \in {"login", "save"} PROVE Account(s)' \notin DOMAIN files' /\ (Acquisition = "restore-only" => ~setUp)
      <4>1. \/ LogIn(s)
            \/ /\ pc'[s] = "login" /\ UNCHANGED <<jobs, worker, files>>
               /\ Test(s) = "setup" \/ (Acquisition = "save-and-restore" /\ Account(s) \notin DOMAIN files)
        <5>1. Begin(s) => pc'[s] \notin {"login", "save"}
          BY <1>0 DEF Begin, WorkerTyped
        <5>2. Complete(s) \/ Discard(s) => pc'[s] = "idle"
          BY <1>0, Discarded, Completed
        <5> QED
          BY <1>1, <2>6, <3>2, <5>1, <5>2, SessionStep DEF Signed, Places
      <4>2. CASE LogIn(s)
        <5>1. pc[s] = "login" /\ UNCHANGED runVars
          BY <4>2 DEF LogIn
        <5> QED
          BY <2>1, <3>0, <3>2, <5>1 DEF SignsIn
      <4>3. CASE Test(s) = "setup" /\ UNCHANGED <<jobs, worker, files>>
        <5>1. jobs[s][1].test = "setup" /\ 1 \in 1..Len(jobs[s])
          BY <1>0, <2>0, <4>3, ListIs DEF RunTyped, Test
        <5>2. ~setUp
          BY <1>0, <5>1 DEF Staged
        <5>3. jobs[1] # <<>> /\ files = <<>>
          BY <1>0, <2>0, <5>2 DEF Staged, Slots
        <5> QED
          BY <4>3, <5>2, <5>3
      <4>4. CASE Acquisition = "save-and-restore" /\ Account(s) \notin DOMAIN files /\ UNCHANGED <<jobs, worker, files>>
        BY <2>1, <4>4
      <4> QED
        BY <4>1, <4>2, <4>3, <4>4
    <3> QED
      <4>1. t = s => Account(t)' = Account(s)' /\ pc'[t] = pc'[s]
        BY DEF Account, Test
      <4> QED
        BY ONLY <2>0, <3>1, <3>2, <4>1 DEF SignsIn
  <2> QED
    BY <2>0, <2>3, <2>4, <2>5, <2>6 DEF Held
<1>2. CASE Deadline \/ FailRun \/ EndRestart \/ UNCHANGED vars
  <2>1. UNCHANGED <<strategy, runVars, workerVars, accountVars>>
    BY <1>2, AsideStep
  <2> QED
    BY <1>0, <2>1 DEF Held, Holds, SignsIn, Alive, Account, Scope, Acquisition, Test
<1>3. CASE StartMeasure
  <2>1. /\ UNCHANGED <<strategy, files, accountVars, workerVars>>
        /\ \A s \in Slots : pc[s] = "idle" /\ session[s] = NoSession
    BY <1>0, <1>3 DEF StartMeasure, Quiet, Held, Holds
  <2> QED
    BY <1>0, <2>1 DEF Held, Holds, SignsIn, Alive, Acquisition
<1>4. CASE EndParallel
  <2>1. \A s \in Slots : pc'[s] = "idle" /\ session'[s] = NoSession
    BY <1>4 DEF EndParallel, Report, RunIsOver, Quiet
  <2>2. DOMAIN files' = {}
    BY <1>4 DEF EndParallel
  <2> QED
    BY <2>1, <2>2 DEF Held, Holds, SignsIn
<1> QED
  BY <1>1, <1>2, <1>3, <1>4 DEF Next

-----------------------------------------------------------------------------
\* What a test was told of its session it keeps.
LEMMA AskingStep ==
  ASSUME IInv, NEW s \in Slots, Step(s) \/ Die(s), pc'[s] \in Asking
  PROVE  (Me(s) /\ pc[s] = "me") \/ (pc[s] \in Asking /\ me'[s] = me[s])
<1>0. WorkerTyped /\ TypeOK
  BY DEF IInv, TypeOK
<1> USE DEF WorkerTyped, Asking
<1>1. ~Begin(s) /\ ~LogIn(s)
  BY <1>0 DEF Begin, LogIn
<1>2. ~Complete(s) /\ ~Discard(s)
  BY <1>0, Discarded, Completed
<1>3. ~Acquire(s) /\ ~Save(s) /\ ~Die(s)
  BY <1>0, <1>2 DEF Acquire, Save, Die
<1>4. ASSUME NEW name \in Barriers, Meet(s, name) PROVE pc[s] \in Asking /\ me'[s] = me[s]
  <2>1. /\ pc[s] = name /\ (pc'[s] = At(name) \/ pc'[s] = After(s, name)) /\ me' = me
    BY <1>0, <1>4 DEF Meet
  <2> QED
    BY <2>1 DEF At, After, Barriers
<1>5. ASSUME NEW name \in Barriers, Answered(s, name) PROVE pc[s] \in Asking /\ me'[s] = me[s]
  <2>1. pc[s] = At(name) /\ pc'[s] = After(s, name) /\ me' = me
    BY <1>0, <1>2, <1>5 DEF Answered
  <2> QED
    BY <2>1 DEF At, After, Barriers
<1>6. CASE Me(s)
  BY <1>6 DEF Me
<1>7. CASE Write(s)
  BY <1>0, <1>2, <1>7 DEF Write
<1>8. CASE Read(s)
  BY <1>0, <1>2, <1>8 DEF Read
<1>9. CASE File(s)
  BY <1>2, <1>9 DEF File
<1> QED
  BY <1>1, <1>3, <1>4, <1>5, <1>6, <1>7, <1>8, <1>9 DEF Step

LEMMA TakenStep == ASSUME IInv, [Next]_vars PROVE Taken'
<1>0. WorkerTyped /\ OriginTyped /\ Taken /\ Held
  BY DEF IInv, TypeOK
<1>1. ASSUME NEW s \in Slots, Step(s) \/ Die(s) PROVE Taken'
  <2>0. Elsewhere(s) /\ strategy' = strategy
    BY <1>1, SlotStep
  <2> SUFFICES ASSUME strategy # "shared-lazy"
               PROVE  /\ \A t \in Slots : pc'[t] \in Asking => me'[t] = 200
                      /\ \A i \in 1..Len(ledger') : ledger'[i].me = 200
    BY <2>0 DEF Taken
  <2>1. \A t \in Slots : t # s => (pc'[t] \in Asking => me'[t] = 200)
    BY <1>0, <2>0 DEF Elsewhere, Taken
  <2>2. pc'[s] \in Asking => me'[s] = 200
    <3>1. Me(s) /\ pc[s] = "me" => me'[s] = 200
      <4> SUFFICES ASSUME Me(s), pc[s] = "me" PROVE me'[s] = 200
        OBVIOUS
      <4>1. Alive(session[s], Account(s))
        BY <1>0 DEF Held, Holds
      <4> QED
        BY <1>0, <4>1 DEF Me, Alive, Authenticated, WorkerTyped
    <3> QED
      BY <1>0, <1>1, <3>1, AskingStep DEF Taken
  <2>3. CASE File(s)
    <3>1. PICK row \in Rows : /\ row.me = me[s] /\ Len(ledger') = Len(ledger) + 1 /\ Len(ledger) \in Nat
                              /\ ledger'[Len(ledger) + 1] = row /\ \A i \in 1..Len(ledger) : ledger'[i] = ledger[i]
      BY <2>3, RowFiled
    <3>2. me[s] = 200 /\ \A i \in 1..Len(ledger) : ledger[i].me = 200
      BY <1>0, <2>3 DEF File, Taken, Asking
    <3>3. \A i \in 1..Len(ledger') : ledger'[i].me = 200
      BY ONLY <3>1, <3>2
    <3> QED
      BY <2>1, <2>2, <3>3
  <2>4. CASE ~File(s)
    BY <1>0, <1>1, <2>1, <2>2, <2>4, LedgerStep DEF Taken
  <2> QED
    BY <2>3, <2>4
<1>2. CASE Deadline \/ FailRun \/ EndRestart \/ UNCHANGED vars
  BY <1>0, <1>2, AsideStep DEF Taken
<1>3. CASE StartMeasure
  BY <1>0, <1>3 DEF StartMeasure, Taken
<1>4. CASE EndParallel
  BY <1>4 DEF EndParallel, Report, Reset, RunIsOver, Quiet, Taken, Asking
<1> QED
  BY <1>1, <1>2, <1>3, <1>4 DEF Next

-----------------------------------------------------------------------------
LEMMA Between ==
  ASSUME NEW n \in Nat, NEW m \in Nat, n <= m, NEW w \in Nat, w <= n - 1
  PROVE  w \in 0..(m - 1)
  OBVIOUS

\* A slot's step puts a note of its test into its account, and nothing elsewhere.
LEMMA NotesStep ==
  ASSUME IInv, NEW s \in Slots, Step(s) \/ Die(s), strategy # "shared-lazy", NEW e \in DOMAIN accounts', NEW m,
         e \in DOMAIN accounts => Only(accounts[e].notes, m),
         Write(s) /\ e = Account(s) => m = Test(s)
  PROVE  Only(accounts'[e].notes, m) /\ (e \in DOMAIN accounts \/ (LogIn(s) /\ e = Account(s)))
<1>0. OriginTyped /\ Held
  BY DEF IInv, TypeOK
<1>1. CASE LogIn(s)
  <2>1. /\ DOMAIN accounts' = DOMAIN accounts \union {Account(s)}
        /\ \A x \in DOMAIN accounts : x # Account(s) => accounts'[x] = accounts[x]
        /\ accounts'[Account(s)].notes = IF Account(s) \in DOMAIN accounts THEN accounts[Account(s)].notes ELSE <<>>
    BY <1>1, LoggedIn
  <2>2. CASE e = Account(s) /\ e \notin DOMAIN accounts
    <3>1. accounts'[e].notes = <<>>
      BY <2>1, <2>2
    <3> QED
      BY <1>1, <2>2, <3>1 DEF Only
  <2>3. CASE e \in DOMAIN accounts
    <3>1. accounts'[e].notes = accounts[e].notes
      BY <2>1, <2>3
    <3> QED
      BY <2>3, <3>1
  <2> QED
    BY <2>1, <2>2, <2>3
<1>2. CASE Write(s) /\ Authenticated(session[s])
  <2>1. /\ e \in DOMAIN accounts
        /\ accounts'[e].notes = IF e = sessions[session[s]] THEN Append(accounts[e].notes, Test(s)) ELSE accounts[e].notes
    BY <1>2, Wrote
  <2>2. sessions[session[s]] = Account(s)
    BY <1>0, <1>2 DEF Held, Holds, Alive, Write
  <2>3. CASE e = Account(s)
    <3>1. PICK list \in Seq(Markers) : list = accounts[e].notes
      BY <1>0, <2>1 DEF OriginTyped
    <3>2. accounts'[e].notes = Append(list, m) /\ Only(list, m)
      BY <1>2, <2>1, <2>2, <2>3, <3>1
    <3>3. Only(Append(list, m), m)
      <4>1. \A i \in 1..Len(list) : list[i] = m
        BY <3>2 DEF Only
      <4>2. Len(Append(list, m)) = Len(list) + 1 /\ Append(list, m)[Len(list) + 1] = m /\ Len(list) \in Nat
            /\ \A i \in 1..Len(list) : Append(list, m)[i] = list[i]
        BY ONLY <3>1
      <4> QED
        BY ONLY <4>1, <4>2 DEF Only
    <3> QED
      BY <2>1, <3>2, <3>3
  <2>4. CASE e # Account(s)
    BY <2>1, <2>2, <2>4
  <2> QED
    BY <2>3, <2>4
<1>3. CASE ~LogIn(s) /\ ~(Write(s) /\ Authenticated(session[s]))
  BY <1>3, AccountsStep
<1> QED
  BY <1>1, <1>2, <1>3

\* Who is done has filed a row, is discarded, or was the setup.
LEMMA DoneStep ==
  ASSUME IInv, NEW s \in Slots, Step(s) \/ Die(s), pc'[s] = "idle"
  PROVE  File(s) \/ Discard(s) \/ (Save(s) /\ Test(s) = "setup")
<1>0. WorkerTyped /\ TypeOK
  BY DEF IInv, TypeOK
<1>1. ~LogIn(s) /\ ~Begin(s) /\ ~Me(s)
  BY <1>0 DEF LogIn, Begin, Me, WorkerTyped
<1>2. Acquire(s) \/ Save(s) \/ Write(s) \/ Read(s) \/ Die(s) => Discard(s) \/ (Save(s) /\ Test(s) = "setup")
  BY <1>0 DEF Acquire, Save, Write, Read, Die, WorkerTyped
<1>3. ASSUME NEW name \in Barriers, Meet(s, name) \/ Answered(s, name) PROVE Discard(s)
  <2>1. At(name) # "idle" /\ After(s, name) # "idle"
    BY DEF At, After
  <2> QED
    BY <1>0, <1>3, <2>1 DEF Meet, Answered, WorkerTyped
<1> QED
  BY <1>1, <1>2, <1>3 DEF Step

\* Rows stay.
LEMMA RowsStay ==
  ASSUME IInv, NEW s \in Slots, Step(s) \/ Die(s)
  PROVE  /\ Len(ledger) \in Nat /\ Len(ledger') \in Nat /\ Len(ledger) <= Len(ledger')
         /\ \A i \in 1..Len(ledger) : ledger'[i] = ledger[i]
<1>1. ledger \in Seq(Rows)
  BY DEF IInv, TypeOK, OriginTyped
<1>2. CASE File(s)
  BY <1>2, RowFiled
<1>3. CASE ~File(s)
  BY <1>1, <1>3, LedgerStep
<1> QED
  BY <1>2, <1>3

\* One's own account keeps its name.
LEMMA AccountStays ==
  ASSUME IInv, NEW s \in Slots, Step(s) \/ Die(s), NEW t \in Slots, t # s \/ (pc[s] # "idle" /\ pc'[s] # "idle")
  PROVE  /\ jobs'[t] = jobs[t] /\ worker'[t] = worker[t] /\ Test(t)' = Test(t) /\ Account(t)' = Account(t)
         /\ Scope' = Scope /\ phase' = phase
<1>1. Elsewhere(s) /\ UNCHANGED driverVars /\ (Begin(s) \/ Works(s) \/ Complete(s) \/ Discard(s))
  BY SlotStep
<1>2. jobs'[t] = jobs[t] /\ worker'[t] = worker[t]
  <2>1. CASE t # s
    BY <1>1, <2>1 DEF Elsewhere
  <2>2. CASE t = s /\ pc[s] # "idle" /\ pc'[s] # "idle"
    <3>1. Works(s)
      BY <1>1, <2>2, Discarded, Completed DEF Begin, IInv
    <3> QED
      BY <2>2, <3>1 DEF Works
  <2> QED
    BY <2>1, <2>2
<1> QED
  BY <1>1, <1>2 DEF Account, Test, Scope

LEMMA UnusedStep == ASSUME IInv, [Next]_vars PROVE Unused'
<1>0. RunTyped /\ WorkerTyped /\ OriginTyped /\ TypeOK /\ Staged /\ Numbered /\ Unused
  BY DEF IInv, TypeOK
<1>s. Scope # "run" => strategy # "shared-lazy" /\ setUp
  BY <1>0, StrategyIs DEF RunTyped, Staged
<1>1. ASSUME NEW s \in Slots, Step(s) \/ Die(s) PROVE Unused'
  <2>0. Elsewhere(s) /\ UNCHANGED driverVars /\ Scope' = Scope /\ jobs[s] # <<>> /\ Test(s) \in Markers
    BY <1>0, <1>1, SlotStep, AccountIs DEF Scope
  <2>1. ASSUME Scope = "test", NEW e \in DOMAIN accounts'
        PROVE  \E m \in Markers : e = <<"test", m>> /\ Only(accounts'[e].notes, m)
    <3>1. Account(s) = <<"test", Test(s)>>
      BY <1>0, <2>1, AccountIs
    <3>2. CASE e \in DOMAIN accounts
      <4>1. PICK m \in Markers : e = <<"test", m>> /\ Only(accounts[e].notes, m)
        BY <1>0, <2>1, <3>2 DEF Unused
      <4>2. Write(s) /\ e = Account(s) => m = Test(s)
        BY <3>1, <4>1
      <4> QED
        BY <1>1, <1>s, <2>1, <4>1, <4>2, NotesStep
    <3>3. CASE e \notin DOMAIN accounts
      <4>1. Only(accounts'[e].notes, Test(s)) /\ e = Account(s)
        BY <1>1, <1>s, <2>1, <3>3, NotesStep
      <4> QED
        BY <2>0, <3>1, <4>1
    <3> QED
      BY <3>2, <3>3
  <2>2. ASSUME Scope = "parallel-index", phase = "parallel", NEW t \in Slots, <<"p", t>> \in DOMAIN accounts'
        PROVE  Only(accounts'[<<"p", t>>].notes, Own[t])
    <3>1. Account(s) = <<"p", s>> /\ Test(s) = Own[s]
      BY <1>0, <1>s, <2>0, <2>2, AccountIs DEF Staged
    <3>2. Write(s) /\ <<"p", t>> = Account(s) => Own[t] = Test(s)
      BY <3>1
    <3>3. <<"p", t>> \in DOMAIN accounts => Only(accounts[<<"p", t>>].notes, Own[t])
      BY <1>0, <2>2 DEF Unused
    <3> QED
      BY <1>1, <1>s, <2>2, <3>2, <3>3, NotesStep
  <2>3. ASSUME Scope = "worker-index", NEW e \in DOMAIN accounts' PROVE \E w \in 0..(workers' - 1) : e = <<"w", w>>
    <3>1. workers \in Nat /\ workers' \in Nat /\ workers <= workers'
      BY <1>0, <1>1, WorkerStep DEF RunTyped
    <3>2. CASE e \in DOMAIN accounts
      <4>1. PICK w \in 0..(workers - 1) : e = <<"w", w>>
        BY <1>0, <2>3, <3>2 DEF Unused
      <4>2. w \in Nat /\ w <= workers - 1
        BY ONLY <3>1
      <4>3. w \in 0..(workers' - 1)
        BY ONLY <3>1, <4>2, Between
      <4> QED
        BY <4>1, <4>3
    <3>3. CASE e \notin DOMAIN accounts
      <4>1. LogIn(s) /\ e = Account(s)
        BY <1>1, <1>s, <2>3, <3>3, NotesStep
      <4>2. worker[s] \in Nat /\ worker[s] < workers
        BY <1>0, <4>1 DEF LogIn, Numbered, RunTyped
      <4>3. e = <<"w", worker[s]>>
        BY <1>0, <2>3, <4>1, AccountIs
      <4>4. worker[s] \in 0..(workers' - 1)
        BY <3>1, <4>2
      <4> QED
        BY <4>3, <4>4
    <3> QED
      BY <3>2, <3>3
  <2>4. ASSUME Scope = "worker-index", NEW t \in Slots, pc'[t] = "idle", worker'[t] # NoWorker
        PROVE  ~NoRowOf(worker[t])'
    <3>1. CASE t # s
      <4>1. pc[t] = "idle" /\ worker'[t] = worker[t] /\ worker[t] # NoWorker
        BY <2>0, <2>4, <3>1 DEF Elsewhere
      <4>2. PICK i \in 1..Len(ledger) : ledger[i].worker = worker[t]
        BY <1>0, <2>4, <4>1 DEF Unused, NoRowOf
      <4>3. i \in 1..Len(ledger') /\ ledger'[i] = ledger[i]
        BY <1>1, RowsStay
      <4> QED
        BY <4>1, <4>2, <4>3 DEF NoRowOf
    <3>2. CASE t = s
      <4>1. ~(Test(s) = "setup")
        <5>1. jobs[s][1].test # "setup" /\ Head(jobs[s]) = jobs[s][1]
          BY <1>0, <1>s, <2>0, <2>4, ListIs DEF Staged, RunTyped
        <5> QED
          BY <5>1 DEF Test
      <4>2. ~Discard(s)
        BY <1>0, <2>4, <3>2, Discarded
      <4>3. File(s)
        BY <1>1, <2>4, <3>2, <4>1, <4>2, DoneStep
      <4>4. worker'[s] = worker[s]
        BY <4>2, <4>3 DEF File, Complete
      <4>5. PICK row \in Rows : /\ row.worker = worker[s] /\ Len(ledger') = Len(ledger) + 1 /\ Len(ledger) \in Nat
                                /\ ledger'[Len(ledger) + 1] = row
        BY <4>3, RowFiled
      <4>6. Len(ledger) + 1 \in 1..Len(ledger')
        BY <4>5
      <4> QED
        BY <3>2, <4>4, <4>5, <4>6 DEF NoRowOf
    <3> QED
      BY <3>1, <3>2
  <2> QED
    BY <2>0, <2>1, <2>2, <2>3, <2>4 DEF Unused
<1>2. CASE Deadline \/ FailRun \/ EndRestart \/ UNCHANGED vars
  <2>1. UNCHANGED <<strategy, runVars, workerVars, accountVars, ledger>> /\ (phase' = "parallel" => phase = "parallel")
    BY <1>2, AsideStep
  <2> QED
    BY <1>0, <2>1 DEF Unused, Scope, NoRowOf
<1>3. CASE StartMeasure
  <2>1. ~setUp /\ strategy' = strategy
    BY <1>3 DEF StartMeasure
  <2>2. Scope' \notin {"test", "parallel-index", "worker-index"}
    BY <1>0, <1>s, <2>1, StrategyIs DEF RunTyped, Scope, Staged
  <2> QED
    BY <2>2 DEF Unused
<1>4. CASE EndParallel
  <2>1. DOMAIN accounts' = {} /\ \A s \in Slots : worker'[s] = NoWorker
    BY <1>4 DEF EndParallel, Reset
  <2> QED
    BY <2>1 DEF Unused
<1> QED
  BY <1>1, <1>2, <1>3, <1>4 DEF Next

LEMMA NotesAreRead ==
  ASSUME IInv, NEW s \in Slots, Step(s) \/ Die(s)
  PROVE  /\ pc'[s] # "file" => notes'[s] = <<>>
         /\ pc'[s] = "file" =>
              \/ notes'[s] = notes[s] /\ pc[s] # "idle"
              \/ Read(s) /\ Authenticated(session[s]) /\ notes'[s] = NotesOf(session[s]) /\ pc[s] = "read"
<1>0. WorkerTyped /\ TypeOK /\ Clean
  BY DEF IInv, TypeOK
<1>1. pc[s] # "file" => notes[s] = <<>>
  BY <1>0 DEF Clean
<1> USE DEF WorkerTyped
<1>2. CASE Complete(s) \/ Discard(s)
  BY <1>0, <1>2, Discarded, Completed
<1>3. CASE ~Complete(s) /\ ~Discard(s)
  <2> USE <1>0, <1>1, <1>3
  <2>1. CASE Begin(s)
    BY <2>1 DEF Begin
  <2>2. CASE Acquire(s) \/ LogIn(s) \/ Save(s)
    BY <2>2 DEF Acquire, LogIn, Save
  <2>3. ASSUME NEW name \in Barriers, Meet(s, name) \/ Answered(s, name)
        PROVE  notes' = notes /\ pc[s] # "file" /\ pc[s] # "idle"
    BY <2>3 DEF Meet, Answered, At, Barriers
  <2>4. CASE Me(s) \/ Write(s)
    BY <2>4 DEF Me, Write
  <2>5. CASE Read(s)
    BY <2>5 DEF Read
  <2>6. CASE File(s) \/ Die(s)
    BY <2>6 DEF File, Die
  <2> QED
    BY <2>1, <2>2, <2>3, <2>4, <2>5, <2>6 DEF Step
<1> QED
  BY <1>2, <1>3

LEMMA CleanStep == ASSUME IInv, [Next]_vars PROVE Clean'
<1>0. RunTyped /\ WorkerTyped /\ OriginTyped /\ TypeOK /\ Staged /\ Numbered /\ Unused /\ Clean /\ Held
  BY DEF IInv, TypeOK
<1>s. /\ Scope # "run" => strategy # "shared-lazy" /\ setUp
      /\ Scope \in {"run", "test", "parallel-index", "worker-index"}
  BY <1>0, StrategyIs DEF RunTyped, Staged
<1>1. ASSUME NEW s \in Slots, Step(s) \/ Die(s) PROVE Clean'
  <2>0. Elsewhere(s) /\ UNCHANGED driverVars /\ Scope' = Scope
    BY <1>1, SlotStep DEF Scope
  <2>1. ASSUME NEW t \in Slots PROVE pc'[t] # "file" => notes'[t] = <<>>
    BY <1>0, <1>1, <2>0, NotesAreRead DEF Elsewhere, Clean
  <2>2. ASSUME NEW t \in Slots, pc'[t] # "idle", NewHere(t)', t # s \/ pc[s] # "idle"
        PROVE  /\ Account(t)' \in DOMAIN accounts' => Only(accounts'[Account(t)'].notes, Test(t)')
               /\ Only(notes'[t], Test(t)')
    <3>1. /\ worker'[t] = worker[t] /\ Test(t)' = Test(t) /\ Account(t)' = Account(t)
          /\ pc[t] # "idle" /\ (t # s => notes'[t] = notes[t])
      BY <1>1, <2>0, <2>2, AccountStays DEF Elsewhere
    <3>2. NewHere(t) /\ Scope # "run"
      <4>1. NoRowOf(worker[t])' => NoRowOf(worker[t])
        <5> SUFFICES ASSUME NoRowOf(worker[t])', NEW i \in 1..Len(ledger) PROVE ledger[i].worker # worker[t]
          BY DEF NoRowOf
        <5>1. i \in 1..Len(ledger') /\ ledger'[i] = ledger[i]
          BY <1>1, RowsStay
        <5> QED
          BY <3>1, <5>1 DEF NoRowOf
      <4> QED
        BY <1>s, <2>0, <2>2, <4>1 DEF NewHere
    <3>3. /\ Account(t) \in DOMAIN accounts => Only(accounts[Account(t)].notes, Test(t))
          /\ Only(notes[t], Test(t))
      BY <1>0, <3>1, <3>2 DEF Clean
    <3>4. Account(t) \in DOMAIN accounts' => Only(accounts'[Account(t)].notes, Test(t))
      <4>1. Write(s) /\ Account(t) = Account(s) => Test(t) = Test(s)
        <5>1. t # s /\ Write(s) => Account(t) # Account(s)
          BY <3>1, <3>2, ApartAccounts DEF Write
        <5> QED
          BY <5>1
      <4> QED
        BY <1>1, <1>s, <3>2, <3>3, <4>1, NotesStep
    <3>5. Only(notes'[t], Test(t))
      <4>1. CASE t # s \/ notes'[t] = notes[t]
        BY <3>1, <3>3, <4>1
      <4>2. CASE t = s /\ pc'[s] # "file"
        BY <1>1, <4>2, NotesAreRead DEF Only
      <4>3. CASE t = s /\ Read(s) /\ Authenticated(session[s]) /\ notes'[s] = NotesOf(session[s]) /\ pc[s] = "read"
        <5>1. Alive(session[s], Account(s))
          BY <1>0, <1>s, <3>2, <4>3 DEF Held, Holds
        <5>2. sessions[session[s]] = Account(s) /\ Account(s) \in DOMAIN accounts
          BY <5>1, <4>3 DEF Alive, IInv, Agree
        <5>3. notes'[s] = accounts[Account(s)].notes
          BY <4>3, <5>2 DEF NotesOf
        <5> QED
          BY <3>3, <4>3, <5>2, <5>3
      <4> QED
        BY <1>1, <4>1, <4>2, <4>3, NotesAreRead
    <3> QED
      BY <3>1, <3>4, <3>5
  <2>3. ASSUME pc[s] = "idle", pc'[s] # "idle", NewHere(s)'
        PROVE  /\ Account(s)' \in DOMAIN accounts' => Only(accounts'[Account(s)'].notes, Test(s)')
               /\ Only(notes'[s], Test(s)')
    <3>1. Begin(s)
      BY <1>1, <2>3, SlotStep
    <3>2. /\ jobs' = jobs /\ accounts' = accounts /\ ledger' = ledger /\ pc'[s] # "file"
          /\ (worker'[s] = worker[s] /\ worker[s] # NoWorker) \/ worker'[s] = workers
      BY <1>0, <3>1 DEF Begin, WorkerTyped, RunTyped
    <3>3. Only(notes'[s], Test(s)')
      BY <2>1, <3>2 DEF Only
    <3>4. Test(s)' = Test(s) /\ jobs[s] # <<>> /\ Test(s) \in Markers
      BY <1>0, <3>1, <3>2, AccountIs DEF Test, Begin
    <3>5. /\ Scope = "parallel-index" => Account(s)' = <<"p", s>>
          /\ Scope = "worker-index" => Account(s)' = <<"w", worker'[s]>>
          /\ Scope = "test" => Account(s)' = <<"test", Test(s)>>
      BY <2>0, <3>4 DEF Account
    <3>6. CASE Scope = "test"
      <4> SUFFICES ASSUME Account(s)' \in DOMAIN accounts PROVE Only(accounts[Account(s)'].notes, Test(s))
        BY <3>2, <3>3, <3>4
      <4>1. PICK m \in Markers : Account(s)' = <<"test", m>> /\ Only(accounts[Account(s)'].notes, m)
        BY <1>0, <3>6 DEF Unused
      <4> QED
        BY <3>5, <3>6, <4>1
    <3>7. CASE Scope = "parallel-index" /\ phase = "parallel"
      <4>1. Test(s) = Own[s]
        BY <1>0, <1>s, <3>4, <3>7 DEF Staged
      <4>2. <<"p", s>> \in DOMAIN accounts => Only(accounts[<<"p", s>>].notes, Own[s])
        BY <1>0, <3>7 DEF Unused
      <4> QED
        BY <3>2, <3>3, <3>4, <3>5, <3>7, <4>1, <4>2
    <3>8. CASE Scope = "worker-index" /\ NoRowOf(worker[s])'
      <4>1. worker'[s] = workers
        BY <1>0, <2>3, <3>2, <3>8 DEF Unused, NoRowOf
      <4>2. <<"w", workers>> \notin DOMAIN accounts
        <5> SUFFICES ASSUME <<"w", workers>> \in DOMAIN accounts PROVE FALSE
          OBVIOUS
        <5>1. PICK w \in 0..(workers - 1) : <<"w", workers>> = <<"w", w>>
          BY <1>0, <3>8 DEF Unused
        <5>2. w = workers /\ workers \in Nat
          BY <1>0, <5>1 DEF RunTyped
        <5> QED
          BY <5>1, <5>2
      <4> QED
        BY <3>2, <3>3, <3>5, <3>8, <4>1, <4>2
    <3> QED
      BY <2>0, <2>3, <3>6, <3>7, <3>8 DEF NewHere
  <2>4. ASSUME NEW t \in Slots, pc'[t] # "idle", NewHere(t)'
        PROVE  /\ Account(t)' \in DOMAIN accounts' => Only(accounts'[Account(t)'].notes, Test(t)')
               /\ Only(notes'[t], Test(t)')
    <3>1. CASE t # s \/ pc[s] # "idle"
      BY <2>2, <2>4, <3>1
    <3>2. CASE t = s /\ pc[s] = "idle"
      <4>1. Account(t)' = Account(s)' /\ Test(t)' = Test(s)' /\ (NewHere(t)' => NewHere(s)')
        BY <3>2 DEF Account, Test, NewHere, NoRowOf
      <4> QED
        BY <2>3, <2>4, <3>2, <4>1
    <3> QED
      BY <3>1, <3>2
  <2> QED
    BY <2>1, <2>4 DEF Clean
<1>2. CASE Deadline \/ FailRun \/ EndRestart \/ UNCHANGED vars
  <2>1. /\ UNCHANGED <<strategy, runVars, workerVars, accountVars, ledger>>
        /\ phase' = phase \/ \A s \in Slots : pc[s] = "idle"
    BY <1>2, AsideStep DEF RunIsOver, Quiet
  <2> QED
    BY <1>0, <2>1 DEF Clean, NewHere, Account, Test, Scope, NoRowOf
<1>3. CASE StartMeasure
  BY <1>0, <1>3 DEF StartMeasure, Quiet, Clean
<1>4. CASE EndParallel
  BY <1>0, <1>4 DEF EndParallel, Report, RunIsOver, Quiet, Clean
<1> QED
  BY <1>1, <1>2, <1>3, <1>4 DEF Next

LEMMA FiledStep == ASSUME IInv, [Next]_vars PROVE Filed'
<1>0. RunTyped /\ OriginTyped /\ Clean /\ Filed
  BY DEF IInv, TypeOK
<1>1. ASSUME NEW s \in Slots, Step(s) \/ Die(s) PROVE Filed'
  <2>0. Scope' = Scope
    BY <1>1, SlotStep DEF Scope
  <2>1. CASE File(s)
    <3>1. PICK row \in Rows :
            /\ row.phase = phase /\ row.marker = Test(s) /\ row.worker = worker[s] /\ row.notes = notes[s]
            /\ Len(ledger') = Len(ledger) + 1 /\ Len(ledger) \in Nat
            /\ ledger'[Len(ledger) + 1] = row /\ \A i \in 1..Len(ledger) : ledger'[i] = ledger[i]
      BY <2>1, RowFiled
    <3>2. ASSUME NEW i \in 1..Len(ledger), NewTo(i)' PROVE Only(ledger'[i].notes, ledger'[i].marker)
      <4>1. ledger'[i] = ledger[i] /\ \A j \in 1..(i - 1) : ledger'[j] = ledger[j]
        BY ONLY <3>1, <3>2
      <4>2. NewTo(i)
        BY <2>0, <3>2, <4>1 DEF NewTo
      <4> QED
        BY <1>0, <4>1, <4>2 DEF Filed
    <3>3. ASSUME NEW i \in {Len(ledger) + 1}, NewTo(i)' PROVE Only(row.notes, row.marker)
      <4>1. Scope = "worker-index" /\ (\A j \in 1..(i - 1) : ledger'[j].worker # row.worker) => NoRowOf(worker[s])
        <5>1. 1..(i - 1) = 1..Len(ledger)
          BY ONLY <3>1, <3>3
        <5> QED
          BY <3>1, <5>1 DEF NoRowOf
      <4>2. ledger'[i].phase = phase /\ ledger'[i].worker = row.worker
        BY <3>1, <3>3
      <4>3. NewHere(s)
        BY <2>0, <3>3, <4>1, <4>2 DEF NewTo, NewHere
      <4> QED
        BY <1>0, <2>1, <3>1, <4>3 DEF File, Clean
    <3>4. ASSUME NEW i \in 1..Len(ledger'), NewTo(i)' PROVE Only(ledger'[i].notes, ledger'[i].marker)
      <4>1. CASE i \in 1..Len(ledger)
        BY <3>2, <3>4, <4>1
      <4>2. CASE i = Len(ledger) + 1
        <5>1. ledger'[i] = row
          BY <3>1, <4>2
        <5> QED
          BY <3>3, <3>4, <4>2, <5>1
      <4>3. i \in 1..Len(ledger) \/ i = Len(ledger) + 1
        BY ONLY <3>1, <3>4
      <4> QED
        BY <4>1, <4>2, <4>3
    <3> QED
      BY <3>4 DEF Filed
  <2>2. CASE ~File(s)
    BY <1>0, <1>1, <2>0, <2>2, LedgerStep DEF Filed, NewTo
  <2> QED
    BY <2>1, <2>2
<1>2. CASE Deadline \/ FailRun \/ EndRestart \/ UNCHANGED vars
  BY <1>0, <1>2, AsideStep DEF Filed, NewTo, Scope
<1>3. CASE StartMeasure
  BY <1>0, <1>3 DEF StartMeasure, Filed, NewTo, Scope
<1>4. CASE EndParallel
  BY <1>4 DEF EndParallel, Reset, Filed
<1> QED
  BY <1>1, <1>2, <1>3, <1>4 DEF Next

-----------------------------------------------------------------------------
\* A slot's step touches the barriers only by coming to one.
LEMMA ArriveStep ==
  ASSUME IInv, NEW s \in Slots, Step(s) \/ Die(s)
  PROVE  \/ UNCHANGED barrierVars
         \/ \E n \in Barriers : pc[s] = n /\ pc'[s] = At(n) /\ Meeting /\ Arrive(n, worker[s])
<1>0. WorkerTyped
  BY DEF IInv, TypeOK
<1>1. CASE \E n \in Barriers : Meet(s, n)
  <2>1. PICK n \in Barriers : Meet(s, n)
    BY <1>1
  <2>2. pc[s] = n /\ (UNCHANGED barrierVars \/ (Meeting /\ Arrive(n, worker[s]) /\ pc' = [pc EXCEPT ![s] = At(n)]))
    BY <2>1 DEF Meet
  <2> QED
    BY <1>0, <2>2 DEF WorkerTyped
<1>2. CASE ~ \E n \in Barriers : Meet(s, n)
  BY <1>2 DEF Step, Begin, Acquire, LogIn, Save, Answered, Me, Write, Read, File, Die, WriteNote, FileRow
<1> QED
  BY <1>1, <1>2

\* Nobody goes back, and where two workers meet past a barrier only when let through.
LEMMA PlaceStep ==
  ASSUME IInv, NEW s \in Slots, Step(s) \/ Die(s), NEW name \in Barriers, pc'[s] # "idle"
  PROVE  /\ pc[s] \notin Before(name) => pc'[s] \notin Before(name)
         /\ Meeting /\ pc[s] \in Before(name) => pc'[s] \in Before(name) \union {At(name)}
         /\ pc[s] = At(name) /\ pc'[s] # pc[s] =>
              <<name, worker[s]>> \in DOMAIN reply /\ reply[<<name, worker[s]>>] = 200
<1>0. WorkerTyped /\ TypeOK
  BY DEF IInv, TypeOK
<1>b. /\ Before("signed-in") = {"idle", "session", "login", "save", "signed-in"}
      /\ Before("written") = {"idle", "session", "login", "save", "signed-in", "at-signed-in", "me", "write", "written"}
      /\ At("signed-in") = "at-signed-in" /\ At("written") = "at-written"
      /\ After(s, "signed-in") = "me" /\ After(s, "written") \in {"read", "file"}
      /\ name = "signed-in" \/ name = "written"
  BY DEF Before, At, After, Barriers
<1>n. ~Complete(s) /\ ~Discard(s)
  BY <1>0, Discarded, Completed
<1>1. CASE Begin(s)
  <2>1. pc[s] = "idle" /\ pc'[s] \in {"session", "signed-in"}
    BY <1>0, <1>1 DEF Begin, WorkerTyped
  <2> QED
    BY <1>b, <2>1
<1>2. CASE Acquire(s)
  <2>1. pc[s] = "session" /\ pc'[s] \in {"login", "signed-in"}
    BY <1>0, <1>2, <1>n DEF Acquire, WorkerTyped
  <2> QED
    BY <1>b, <2>1
<1>3. CASE LogIn(s) \/ Save(s)
  <2>1. pc[s] \in {"login", "save"} /\ pc'[s] \in {"save", "signed-in"}
    BY <1>0, <1>3, <1>n DEF LogIn, Save, WorkerTyped
  <2> QED
    BY <1>b, <2>1
<1>4. ASSUME NEW n \in Barriers, Meet(s, n)
      PROVE  pc[s] = n /\ (pc'[s] = At(n) \/ (~Meeting /\ pc'[s] = After(s, n)))
  BY <1>0, <1>4 DEF Meet, WorkerTyped
<1>5. ASSUME NEW n \in Barriers, Answered(s, n)
      PROVE  /\ pc[s] = At(n) /\ pc'[s] = After(s, n)
             /\ <<n, worker[s]>> \in DOMAIN reply /\ reply[<<n, worker[s]>>] = 200
  BY <1>0, <1>5, <1>n DEF Answered, WorkerTyped
<1>6. CASE Me(s)
  <2>1. pc[s] = "me" /\ pc'[s] \in {"write", "written"}
    BY <1>0, <1>6 DEF Me, WorkerTyped
  <2> QED
    BY <1>b, <2>1
<1>7. CASE Write(s)
  <2>1. pc[s] = "write" /\ pc'[s] = "written"
    BY <1>0, <1>7, <1>n DEF Write, WorkerTyped
  <2> QED
    BY <1>b, <2>1
<1>8. CASE Read(s)
  <2>1. pc[s] = "read" /\ pc'[s] = "file"
    BY <1>0, <1>8, <1>n DEF Read, WorkerTyped
  <2> QED
    BY <1>b, <2>1
<1>9. ~File(s) /\ ~Die(s)
  BY <1>n DEF File, Die
<1>10. CASE \E n \in Barriers : Meet(s, n)
  <2>1. PICK n \in Barriers : pc[s] = n /\ (pc'[s] = At(n) \/ (~Meeting /\ pc'[s] = After(s, n)))
    BY <1>4, <1>10
  <2>2. n = "signed-in" \/ n = "written"
    BY DEF Barriers
  <2> QED
    BY <1>b, <2>1, <2>2
<1>11. CASE \E n \in Barriers : Answered(s, n)
  <2>1. PICK n \in Barriers : /\ pc[s] = At(n) /\ pc'[s] = After(s, n)
                              /\ <<n, worker[s]>> \in DOMAIN reply /\ reply[<<n, worker[s]>>] = 200
    BY <1>5, <1>11
  <2>2. n = "signed-in" \/ n = "written"
    BY DEF Barriers
  <2> QED
    BY <1>b, <2>1, <2>2
<1> QED
  BY <1>1, <1>2, <1>3, <1>6, <1>7, <1>8, <1>9, <1>10, <1>11 DEF Step

\* Where two workers meet a test has one attempt.
LEMMA OneAttempt ==
  ASSUME IInv, phase = "parallel", NEW s \in Slots, Step(s) \/ Die(s), pc'[s] = "idle"
  PROVE  jobs'[s] = <<>>
<1>0. RunTyped /\ WorkerTyped /\ TypeOK /\ Staged
  BY DEF IInv, TypeOK
<1>1. jobs[s] # <<>> /\ (Complete(s) \/ Discard(s))
  <2>1. jobs[s] # <<>> /\ (Begin(s) \/ Works(s) \/ Complete(s) \/ Discard(s))
    BY SlotStep
  <2>2. ~Begin(s) /\ ~Works(s)
    BY <1>0 DEF Begin, Works, WorkerTyped
  <2> QED
    BY <2>1, <2>2
<1>2. CASE Complete(s)
  <2>1. jobs'[s] = Tail(jobs[s])
    BY <1>0, <1>2, Completed
  <2>2. Len(jobs[s]) \in {0, 1} /\ jobs[s] \in Seq(Tasks)
    BY <1>0 DEF Staged, RunTyped
  <2>3. Len(jobs[s]) = 1
    BY ONLY <1>1, <2>2, EmptySeq
  <2> QED
    BY ONLY <2>1, <2>2, <2>3, OneLess
<1>3. CASE Discard(s)
  BY <1>0, <1>1, <1>3, DiscardIs
<1> QED
  BY <1>1, <1>2, <1>3

LEMMA ReachedStays ==
  ASSUME IInv, Meeting, NEW s \in Slots, Step(s) \/ Die(s), NEW name \in Barriers, NEW t \in Slots, Reached(name, t)
  PROVE  Reached(name, t)'
<1>1. Elsewhere(s) /\ jobs[s] # <<>>
  BY SlotStep
<1>2. CASE t # s
  BY <1>1, <1>2 DEF Elsewhere, Reached
<1>3. CASE t = s /\ pc'[s] = "idle"
  BY <1>3, OneAttempt DEF Reached, Meeting
<1>4. CASE t = s /\ pc'[s] # "idle"
  BY <1>1, <1>4, PlaceStep DEF Reached
<1> QED
  BY <1>2, <1>3, <1>4

\* A request adds itself to what has been asked, a release and a deadline nothing.
LEMMA AskedStep ==
  ASSUME TypeOK, NEW n \in Barriers, NEW w \in Nat, Arrive(n, w)
  PROVE  Asked' \subseteq Asked \union {<<n, w>>}
<1>0. waiting \in [Barriers -> Seq(Nat)]
  BY DEF TypeOK, OriginTyped
<1>1. \A r : r \in Asked <=> r \in DOMAIN reply \/ r \in timers
                             \/ \E name \in Barriers : \E x \in ToSet(waiting[name]) : r = <<name, x>>
  BY DEF Asked
<1>2. \A r : r \in Asked' <=> r \in DOMAIN reply' \/ r \in timers'
                              \/ \E name \in Barriers : \E x \in ToSet(waiting'[name]) : r = <<name, x>>
  BY DEF Asked
<1>3. ToSet(Append(waiting[n], w)) = ToSet(waiting[n]) \union {w} /\ ToSet(<<>>) = {}
  <2>1. waiting[n] \in Seq(Nat)
    BY <1>0
  <2>2. /\ Len(Append(waiting[n], w)) = Len(waiting[n]) + 1 /\ Append(waiting[n], w)[Len(waiting[n]) + 1] = w
        /\ \A i \in 1..Len(waiting[n]) : Append(waiting[n], w)[i] = waiting[n][i]
        /\ Len(waiting[n]) \in Nat
    BY ONLY <2>1
  <2>3. ToSet(<<>>) = {}
    BY DEF ToSet
  <2>4. \A list \in Seq(Nat) : \A x : x \in ToSet(list) <=> \E i \in 1..Len(list) : x = list[i]
    BY DEF ToSet
  <2>5. \A x : x \in ToSet(Append(waiting[n], w)) <=> x \in ToSet(waiting[n]) \/ x = w
    <3> DEFINE list == waiting[n]
               more == Append(list, w)
    <3>1. more \in Seq(Nat)
      BY ONLY <2>1, w \in Nat
    <3>2. /\ \A x : x \in ToSet(more) <=> \E i \in 1..Len(more) : x = more[i]
          /\ \A x : x \in ToSet(list) <=> \E i \in 1..Len(list) : x = list[i]
      BY ONLY <2>1, <2>4, <3>1
    <3>3. /\ Len(more) = Len(list) + 1 /\ more[Len(list) + 1] = w /\ Len(list) \in Nat
          /\ \A i \in 1..Len(list) : more[i] = list[i]
      BY ONLY <2>2
    <3> HIDE DEF list, more
    <3>4. ASSUME NEW x, x \in ToSet(more) PROVE x \in ToSet(list) \/ x = w
      <4>1. PICK i \in 1..Len(more) : x = more[i]
        BY ONLY <3>2, <3>4
      <4>2. i \in 1..Len(list) \/ i = Len(list) + 1
        BY ONLY <3>3, <4>1
      <4> QED
        BY ONLY <3>2, <3>3, <4>1, <4>2
    <3>5. ASSUME NEW x, x \in ToSet(list) \/ x = w PROVE x \in ToSet(more)
      <4>1. CASE x = w
        <5>1. Len(list) + 1 \in 1..Len(more)
          BY ONLY <3>3
        <5> QED
          BY ONLY <3>2, <3>3, <4>1, <5>1
      <4>2. CASE x \in ToSet(list)
        <5>1. PICK i \in 1..Len(list) : x = list[i]
          BY ONLY <3>2, <4>2
        <5>2. i \in 1..Len(more) /\ more[i] = x
          BY ONLY <3>3, <5>1
        <5> QED
          BY ONLY <3>2, <5>2
      <4> QED
        BY ONLY <3>5, <4>1, <4>2
    <3>6. \A x : x \in ToSet(more) <=> x \in ToSet(list) \/ x = w
      BY ONLY <3>4, <3>5
    <3> QED
      BY ONLY <3>6 DEF list, more
  <2> QED
    BY ONLY <2>3, <2>5
<1>4. CASE Park(n, w)
  <2>1. /\ waiting' = [waiting EXCEPT ![n] = Append(@, w)]
        /\ timers' = timers \union {<<n, w>>} /\ reply' = reply
    BY <1>4 DEF Park
  <2>2. \A name \in Barriers : waiting'[name] = IF name = n THEN Append(waiting[n], w) ELSE waiting[name]
    BY ONLY <1>0, <2>1
  <2>3. \A name \in Barriers : \A x \in ToSet(waiting'[name]) : x \in ToSet(waiting[name]) \/ (name = n /\ x = w)
    BY ONLY <1>3, <2>2
  <2> QED
    BY <1>1, <1>2, <2>1, <2>3
<1>5. CASE Release(n, w)
  <2>1. /\ waiting' = [waiting EXCEPT ![n] = <<>>] /\ timers' \subseteq timers
        /\ \A r \in DOMAIN reply' : r \in DOMAIN reply \/ \E x \in Gathered(n, w) : r = <<n, x>>
    BY <1>5 DEF Release
  <2>2. Gathered(n, w) = ToSet(waiting[n]) \union {w}
    BY <1>3 DEF Gathered
  <2>3. \A name \in Barriers : waiting'[name] = IF name = n THEN <<>> ELSE waiting[name]
    BY ONLY <1>0, <2>1
  <2>4. \A name \in Barriers : \A x \in ToSet(waiting'[name]) : x \in ToSet(waiting[name])
    BY ONLY <1>3, <2>3
  <2> QED
    BY <1>1, <1>2, <2>1, <2>2, <2>4
<1> QED
  BY <1>4, <1>5 DEF Arrive

LEMMA RequestsAsked == ASSUME TypeOK PROVE \A r \in Asked : r \in Requests /\ r[2] \in Nat
<1>1. \A name \in Barriers : \A x \in ToSet(waiting[name]) : x \in Nat
  BY DEF TypeOK, OriginTyped, ToSet
<1> QED
  BY <1>1 DEF TypeOK, OriginTyped, Asked, Requests

LEMMA UnaskedStep == ASSUME IInv, [Next]_vars PROVE Unasked'
<1>0. RunTyped /\ WorkerTyped /\ OriginTyped /\ TypeOK /\ Staged /\ Numbered /\ Unasked
  BY DEF IInv, TypeOK
<1>1. ASSUME NEW s \in Slots, Step(s) \/ Die(s) PROVE Unasked'
  <2>0. Elsewhere(s) /\ phase' = phase /\ jobs[s] # <<>>
    BY <1>1, SlotStep
  <2> SUFFICES ASSUME phase = "parallel"
               PROVE  /\ \A r \in Asked' : r[2] < workers'
                      /\ \A name \in Barriers : \A t \in Slots :
                           jobs'[t] # <<>> /\ pc'[t] \in Before(name) => <<name, worker'[t]>> \notin Asked'
    BY <2>0 DEF Unasked, Before
  <2>1. /\ \A r \in Asked : r[2] < workers /\ r[2] \in Nat /\ r \in Requests
        /\ \A name \in Barriers : \A t \in Slots :
             jobs[t] # <<>> /\ pc[t] \in Before(name) => <<name, worker[t]>> \notin Asked
    BY <1>0, RequestsAsked DEF Unasked
  <2>2. workers \in Nat /\ workers' \in Nat /\ workers <= workers'
    BY <1>0, <1>1, WorkerStep DEF RunTyped
  <2>3. CASE UNCHANGED barrierVars
    <3>1. Asked' = Asked
      BY <2>3 DEF Asked
    <3>2. \A r \in Asked' : r[2] < workers'
      BY <2>1, <2>2, <3>1
    <3>3. ASSUME NEW name \in Barriers, NEW t \in Slots, jobs'[t] # <<>>, pc'[t] \in Before(name),
                 <<name, worker'[t]>> \in Asked
          PROVE  FALSE
      <4>1. CASE t # s
        BY <2>0, <2>1, <3>3, <4>1 DEF Elsewhere
      <4>2. CASE t = s /\ worker'[s] = worker[s]
        <5>1. pc'[s] # "idle"
          BY <1>1, <3>3, <4>2, OneAttempt
        <5>2. pc[s] \in Before(name)
          BY <1>1, <3>3, <4>2, <5>1, PlaceStep
        <5> QED
          BY <2>0, <2>1, <3>3, <4>2, <5>2
      <4>3. CASE t = s /\ worker'[s] # worker[s]
        <5>1. pc'[s] # "idle"
          BY <1>1, <3>3, <4>3, OneAttempt
        <5>2. worker'[s] = workers
          BY <1>1, <4>3, <5>1, WorkerStep
        <5>3. <<name, workers>>[2] = workers
          OBVIOUS
        <5> QED
          BY <2>1, <2>2, <3>3, <4>3, <5>2, <5>3
      <4> QED
        BY <4>1, <4>2, <4>3
    <3> QED
      BY <3>1, <3>2, <3>3
  <2>4. ASSUME NEW n \in Barriers, pc[s] = n, pc'[s] = At(n), Meeting, Arrive(n, worker[s])
        PROVE  /\ \A r \in Asked' : r[2] < workers'
               /\ \A name \in Barriers : \A t \in Slots :
                    jobs'[t] # <<>> /\ pc'[t] \in Before(name) => <<name, worker'[t]>> \notin Asked'
    <3>1. pc[s] # "idle" /\ pc'[s] # "idle" /\ pc'[s] \notin Before(n)
      BY <2>4 DEF Barriers, At, Before
    <3>2. worker[s] \in Nat /\ worker[s] < workers /\ \A t \in Slots : t # s => worker[t] # worker[s]
      BY <1>0, <3>1 DEF Numbered, RunTyped, Slots
    <3>3. Asked' \subseteq Asked \union {<<n, worker[s]>>}
      BY <1>0, <2>4, <3>2, AskedStep
    <3>4. \A r \in Asked' : r[2] < workers'
      <4>1. <<n, worker[s]>>[2] = worker[s]
        OBVIOUS
      <4> QED
        BY <2>1, <2>2, <3>2, <3>3, <4>1
    <3>5. ASSUME NEW name \in Barriers, NEW t \in Slots, jobs'[t] # <<>>, pc'[t] \in Before(name),
                 <<name, worker'[t]>> \in Asked'
          PROVE  FALSE
      <4>1. CASE t # s
        <5>1. <<name, worker[t]>> \notin Asked /\ worker'[t] = worker[t]
          BY <2>0, <2>1, <3>5, <4>1 DEF Elsewhere
        <5>2. <<name, worker[t]>> # <<n, worker[s]>>
          BY <3>2, <4>1
        <5> QED
          BY <3>3, <3>5, <5>1, <5>2
      <4>2. CASE t = s
        <5>1. pc[s] \in Before(name) /\ name # n
          BY <1>1, <2>4, <3>1, <3>5, <4>2, PlaceStep
        <5>2. worker'[s] = worker[s]
          BY <1>1, <3>1, <4>2, AccountStays
        <5>3. <<name, worker[s]>> \notin Asked
          BY <2>0, <2>1, <5>1
        <5>4. <<name, worker[s]>> # <<n, worker[s]>>
          BY <5>1
        <5> QED
          BY <3>3, <3>5, <4>2, <5>2, <5>3, <5>4
      <4> QED
        BY <4>1, <4>2
    <3> QED
      BY <3>4, <3>5
  <2> QED
    BY <1>1, <2>3, <2>4, ArriveStep
<1>2. CASE Deadline
  <2>1. PICK r \in timers : Expire(r)
    BY <1>2 DEF Deadline
  <2>2. /\ timers' \subseteq timers /\ waiting' = waiting /\ reply' = Put(reply, r, 504)
        /\ UNCHANGED <<phase, workers, worker, jobs, pc>>
    BY <1>2, <2>1 DEF Expire, Deadline
  <2>3. DOMAIN reply' = DOMAIN reply \union {r}
    <3>1. DOMAIN Put(reply, r, 504) = DOMAIN reply \union {r}
      BY DEF Put
    <3> QED
      BY ONLY <2>2, <3>1, Zenon
  <2>4. Asked' \subseteq Asked
    BY <2>1, <2>2, <2>3 DEF Asked
  <2> QED
    BY <1>0, <2>2, <2>4 DEF Unasked, Before
<1>3. CASE FailRun \/ EndRestart \/ EndParallel
  <2>1. phase' # "parallel"
    BY <1>3 DEF FailRun, EndRestart, EndParallel, Report
  <2> QED
    BY <2>1 DEF Unasked
<1>4. CASE StartMeasure
  <2>1. UNCHANGED <<phase, workers, reply, timers, waiting>> /\ \A s \in Slots : worker'[s] = NoWorker
    BY <1>4 DEF StartMeasure
  <2>2. Asked' = Asked
    BY <2>1 DEF Asked
  <2>3. \A name : <<name, NoWorker>> \notin Asked
    <3> SUFFICES ASSUME NEW name, <<name, NoWorker>> \in Asked PROVE FALSE
      OBVIOUS
    <3>1. <<name, NoWorker>>[2] \in Nat
      BY <1>0, RequestsAsked
    <3> QED
      BY <3>1 DEF NoWorker
  <2> QED
    BY <1>0, <2>1, <2>2, <2>3 DEF Unasked
<1>5. CASE UNCHANGED vars
  BY <1>0, <1>5 DEF Unasked, Asked, Before
<1> QED
  BY <1>1, <1>2, <1>3, <1>4, <1>5 DEF Next

LEMMA GoesStep == ASSUME IInv, [Next]_vars PROVE Opens' /\ NobodyGoesAhead'
<1>0. RunTyped /\ WorkerTyped /\ OriginTyped /\ TypeOK /\ Staged /\ Numbered /\ Unasked /\ Opens /\ NobodyGoesAhead
  BY DEF IInv, TypeOK
<1>1. ASSUME NEW s \in Slots, Step(s) \/ Die(s) PROVE Opens' /\ NobodyGoesAhead'
  <2>0. Elsewhere(s) /\ phase' = phase /\ jobs[s] # <<>> /\ Meeting' = Meeting
    BY <1>1, SlotStep DEF Meeting
  <2>a. ASSUME Meeting => \A name \in Barriers : \A x, y \in Slots : x # y =>
                 /\ waiting'[name] # <<>> => Reached(name, x)' \/ Reached(name, y)'
                 /\ pc'[x] = At(name) /\ <<name, worker'[x]>> \in DOMAIN reply' /\ reply'[<<name, worker'[x]>>] = 200
                      => Reached(name, y)'
                 /\ pc'[x] \notin Before(name) \union {At(name)} => Reached(name, y)'
        PROVE  Opens' /\ NobodyGoesAhead'
    <3>1. Opens'
      BY <2>0, <2>a DEF Opens
    <3>2. NobodyGoesAhead'
      BY <2>0, <2>a DEF NobodyGoesAhead, Reached
    <3> QED
      BY <3>1, <3>2
  <2> SUFFICES ASSUME Meeting, NEW name \in Barriers, NEW x \in Slots, NEW y \in Slots, x # y
               PROVE  /\ waiting'[name] # <<>> => Reached(name, x)' \/ Reached(name, y)'
                      /\ pc'[x] = At(name) /\ <<name, worker'[x]>> \in DOMAIN reply' /\ reply'[<<name, worker'[x]>>] = 200
                           => Reached(name, y)'
                      /\ pc'[x] \notin Before(name) \union {At(name)} => Reached(name, y)'
    BY <2>a
  <2>1. /\ waiting[name] # <<>> => Reached(name, x) \/ Reached(name, y)
        /\ pc[x] = At(name) /\ <<name, worker[x]>> \in DOMAIN reply /\ reply[<<name, worker[x]>>] = 200
             => Reached(name, y)
        /\ pc[x] \notin Before(name) \union {At(name)} => Reached(name, y)
    BY <1>0 DEF Opens, NobodyGoesAhead, Reached
  <2>2. /\ Reached(name, x) => Reached(name, x)'
        /\ Reached(name, y) => Reached(name, y)'
    BY <1>1, ReachedStays
  <2>3. ASSUME pc'[x] \notin Before(name) \union {At(name)} PROVE Reached(name, y)'
    <3>1. pc'[x] # "idle"
      BY <2>3 DEF Before
    <3>2. CASE x = s
      <4>1. CASE pc[x] \notin Before(name) \union {At(name)}
        BY <2>1, <2>2, <4>1
      <4>2. CASE pc[x] \in Before(name) \union {At(name)}
        <5>1. pc[x] = At(name) /\ <<name, worker[x]>> \in DOMAIN reply /\ reply[<<name, worker[x]>>] = 200
          BY <1>1, <2>3, <3>1, <3>2, <4>2, PlaceStep
        <5> QED
          BY <2>1, <2>2, <5>1
      <4> QED
        BY <4>1, <4>2
    <3>3. CASE x # s
      BY <2>0, <2>1, <2>2, <2>3, <3>3 DEF Elsewhere
    <3> QED
      BY <3>2, <3>3
  <2>4. CASE UNCHANGED barrierVars
    <3>1. waiting'[name] # <<>> => Reached(name, x)' \/ Reached(name, y)'
      BY <2>1, <2>2, <2>4
    <3>2. ASSUME pc'[x] = At(name), <<name, worker'[x]>> \in DOMAIN reply, reply[<<name, worker'[x]>>] = 200
          PROVE  Reached(name, y)'
      <4>1. CASE x # s
        BY <2>0, <2>1, <2>2, <3>2, <4>1 DEF Elsewhere
      <4>2. CASE x = s
        <5>1. pc'[s] # "idle" /\ pc'[s] \notin Before(name)
          BY <3>2, <4>2 DEF At, Before, Barriers
        <5>2. pc[s] \notin Before(name)
          <6>1. CASE pc[s] = "idle"
            <7>1. Begin(s)
              BY <1>1, <5>1, <6>1, SlotStep
            <7>2. pc'[s] \in {"session", "signed-in"}
              BY <1>0, <7>1 DEF Begin, WorkerTyped
            <7> QED
              BY <3>2, <4>2, <7>2 DEF At
          <6>2. CASE pc[s] # "idle" /\ pc[s] \in Before(name)
            <7>1. worker'[s] = worker[s]
              BY <1>1, <5>1, <6>2, AccountStays
            <7>2. <<name, worker[s]>> \notin Asked
              BY <1>0, <2>0, <6>2 DEF Unasked, Meeting
            <7> QED
              BY <3>2, <4>2, <7>1, <7>2 DEF Asked
          <6> QED
            BY <6>1, <6>2
        <5>3. pc[s] = At(name) \/ pc[s] \notin Before(name) \union {At(name)}
          BY <5>2
        <5>4. worker'[s] = worker[s]
          <6>1. pc[s] # "idle"
            BY <5>2 DEF Before
          <6> QED
            BY <1>1, <5>1, <6>1, AccountStays
        <5> QED
          BY <2>1, <2>2, <3>2, <4>2, <5>3, <5>4
      <4> QED
        BY <4>1, <4>2
    <3> QED
      BY <2>3, <2>4, <3>1, <3>2
  <2>5. ASSUME NEW n \in Barriers, pc[s] = n, pc'[s] = At(n), Arrive(n, worker[s])
        PROVE  /\ waiting'[name] # <<>> => Reached(name, x)' \/ Reached(name, y)'
               /\ pc'[x] = At(name) /\ <<name, worker'[x]>> \in DOMAIN reply' /\ reply'[<<name, worker'[x]>>] = 200
                    => Reached(name, y)'
    <3>1. pc[s] # "idle" /\ pc'[s] # "idle" /\ pc[s] \in Before(n) /\ pc'[s] \notin Before(n) /\ ~Reached(n, s) /\ Reached(n, s)'
      BY <2>0, <2>5 DEF Barriers, At, Before, Reached
    <3>2. \A m \in Barriers : At(m) = At(n) => m = n
      BY DEF At, Barriers
    <3>3. waiting[n] \in Seq(Nat) /\ waiting \in [Barriers -> Seq(Nat)]
      BY <1>0 DEF OriginTyped
    <3>4. x = s \/ y = s
      BY DEF Slots
    <3>5. worker'[s] = worker[s]
      BY <1>1, <3>1, AccountStays
    <3>6. CASE Park(n, worker[s])
      <4>1. reply' = reply /\ waiting' = [waiting EXCEPT ![n] = Append(@, worker[s])]
        BY <3>6 DEF Park
      <4>2. waiting'[name] # <<>> => Reached(name, x)' \/ Reached(name, y)'
        BY <2>1, <2>2, <3>1, <3>3, <3>4, <4>1
      <4>3. ASSUME pc'[x] = At(name), <<name, worker'[x]>> \in DOMAIN reply, reply[<<name, worker'[x]>>] = 200
            PROVE  Reached(name, y)'
        <5>1. CASE x = s
          <6>1. name = n
            BY <2>5, <3>2, <4>3, <5>1
          <6>2. <<n, worker[s]>> \notin Asked
            BY <1>0, <2>0, <3>1 DEF Unasked, Meeting
          <6> QED
            BY <3>5, <4>3, <5>1, <6>1, <6>2 DEF Asked
        <5>2. CASE x # s
          BY <2>0, <2>1, <2>2, <4>3, <5>2 DEF Elsewhere
        <5> QED
          BY <5>1, <5>2
      <4> QED
        BY <4>1, <4>2, <4>3
    <3>7. CASE Len(waiting[n]) + 1 >= Parties /\ Release(n, worker[s])
      <4>1. /\ waiting' = [waiting EXCEPT ![n] = <<>>]
            /\ \A r : r[1] # n /\ r \in DOMAIN reply' => r \in DOMAIN reply /\ reply'[r] = reply[r]
        BY <3>7 DEF Release
      <4>2. waiting[n] # <<>>
        BY <3>3, <3>7, PartiesAssumption DEF Meeting
      <4>3. CASE name = n
        BY <2>1, <2>2, <3>1, <3>4, <4>2, <4>3
      <4>4. CASE name # n
        <5>1. waiting'[name] = waiting[name]
          BY <3>3, <4>1, <4>4
        <5>2. ASSUME pc'[x] = At(name), <<name, worker'[x]>> \in DOMAIN reply', reply'[<<name, worker'[x]>>] = 200
              PROVE  Reached(name, y)'
          <6>1. x # s
            BY <2>5, <3>2, <4>4, <5>2
          <6>2. <<name, worker'[x]>>[1] = name
            OBVIOUS
          <6>3. <<name, worker'[x]>> \in DOMAIN reply /\ reply[<<name, worker'[x]>>] = 200
            BY <4>1, <4>4, <5>2, <6>2
          <6> QED
            BY <2>0, <2>1, <2>2, <5>2, <6>1, <6>3 DEF Elsewhere
        <5> QED
          BY <2>1, <2>2, <5>1, <5>2
      <4> QED
        BY <4>3, <4>4
    <3> QED
      BY <2>5, <3>6, <3>7 DEF Arrive
  <2> QED
    BY <1>1, <2>3, <2>4, <2>5, ArriveStep
<1>2. CASE Deadline
  <2>1. PICK r \in timers : Expire(r)
    BY <1>2 DEF Deadline
  <2>2. waiting' = waiting /\ reply' = Put(reply, r, 504) /\ UNCHANGED <<phase, worker, jobs, pc>>
    BY <1>2, <2>1 DEF Expire, Deadline
  <2>3. \A q \in DOMAIN reply' : reply'[q] = 200 => q \in DOMAIN reply /\ reply[q] = 200
    BY ONLY <2>2 DEF Put
  <2> QED
    BY <1>0, <2>2, <2>3 DEF Opens, NobodyGoesAhead, Meeting, Reached, Before, At
<1>3. CASE FailRun \/ EndRestart \/ EndParallel
  <2>1. phase' # "parallel"
    BY <1>3 DEF FailRun, EndRestart, EndParallel, Report
  <2> QED
    BY <2>1 DEF Opens, NobodyGoesAhead, Meeting
<1>4. CASE StartMeasure
  <2>1. /\ \A name \in Barriers : waiting'[name] = <<>>
        /\ \A s \in Slots : pc'[s] = "idle"
    BY <1>0, <1>4 DEF StartMeasure, Quiet, Staged
  <2> QED
    BY <2>1 DEF Opens, NobodyGoesAhead, At, Before
<1>5. CASE UNCHANGED vars
  BY <1>0, <1>5 DEF Opens, NobodyGoesAhead, Meeting, Reached, Before, At
<1> QED
  BY <1>1, <1>2, <1>3, <1>4, <1>5 DEF Next

-----------------------------------------------------------------------------
LEMMA NextIInv == IInv /\ [Next]_vars => IInv'
  BY TypeStep, StagedStep, NumberedStep, AgreeStep, HeldStep, TakenStep, UnusedStep, CleanStep, FiledStep,
     UnaskedStep, GoesStep DEF IInv

\* What every state of every measurement satisfies, whatever dies and whoever
\* misses a deadline, between runs too.
THEOREM AuthStateInvariant == Spec => []IInv
  BY InitIInv, NextIInv, PTL DEF Spec

\* The shape of the state: who is where, what the origin holds, what is filed.
THEOREM AuthStateTypes == Spec => []TypeOK
<1>1. IInv => TypeOK
  BY DEF IInv
<1> QED
  BY AuthStateInvariant, <1>1, PTL

\* The barriers hold: nobody goes on while the other is still to come
\* (measure.ts:11-18).
THEOREM AuthStateNobodyGoesAhead == Spec => []NobodyGoesAhead
<1>1. IInv => NobodyGoesAhead
  BY DEF IInv
<1> QED
  BY AuthStateInvariant, <1>1, PTL

\* No row shows a hazard its strategy is cleared of, in the runs that went wrong
\* too (isolation.ts:45-70).
THEOREM AuthStateClearedStaysCleared == Spec => []ClearedStaysCleared
<1>1. IInv => ClearedStaysCleared
  <2> SUFFICES ASSUME IInv, NEW i \in DOMAIN ledger
               PROVE  /\ strategy # "shared-lazy" => ledger[i].me = 200
                      /\ NewTo(i) => ToSet(ledger[i].notes) \subseteq {ledger[i].marker}
    BY DEF ClearedStaysCleared
  <2>1. ledger \in Seq(Rows) /\ i \in 1..Len(ledger) /\ ledger[i] \in Rows
    BY DEF IInv, TypeOK, OriginTyped
  <2>2. strategy # "shared-lazy" => ledger[i].me = 200
    BY <2>1 DEF IInv, Taken
  <2>3. ASSUME NewTo(i) PROVE ToSet(ledger[i].notes) \subseteq {ledger[i].marker}
    <3>1. Only(ledger[i].notes, ledger[i].marker)
      BY <2>1, <2>3 DEF IInv, Filed
    <3>2. PICK list \in Seq(Markers) : list = ledger[i].notes
      BY <2>1 DEF Rows
    <3>3. DOMAIN list = 1..Len(list)
      BY <3>2
    <3> QED
      BY <3>1, <3>2, <3>3 DEF Only, ToSet
  <2> QED
    BY <2>2, <2>3
<1> QED
  BY AuthStateInvariant, <1>1, PTL
=============================================================================
