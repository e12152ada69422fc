-------------------------- MODULE LedgerBalanceProofs --------------------------
(***************************************************************************)
(* Ledger: a shared read never answers with less than the deposits that    *)
(* had returned when it was asked for.                                     *)
(*                                                                         *)
(* It rests on the order of the jobs.  A deposit that lands while a read   *)
(* is settled and not cleared is counted by a hop of its own, behind the   *)
(* hop that clears the read: nobody who asks after the deposit returned    *)
(* finds that read any more.                                               *)
(***************************************************************************)
EXTENDS LedgerProofs

\* The continuations that are due: one for each task at such a place.
Resuming == {"start", "woken", "enter", "gotFrom", "gotTo", "wroteFrom", "wroteTo", "applied",
             "fetched", "seen"}
InJobs(t) == \E i \in 1..Len(jobs) : jobs[i] = t
OneJobEach ==
  /\ \A i, j \in 1..Len(jobs) : jobs[i] = jobs[j] => i = j
  /\ \A t \in Tasks : pc[t] \in Resuming <=> InJobs(t)
Ahead(t, u) == \E i, j \in 1..Len(jobs) : i < j /\ jobs[i] = t /\ jobs[j] = u

\* Who reads an account, and who shares that read.
Owners ==
  /\ \A a \in Accounts, t \in Tasks : reads[a] = t =>
       pc[t] \in {"fetching", "fetched", "seen"} /\ Line(t).to = a
  /\ \A t \in Tasks : pc[t] \in {"fetching", "fetched"} =>
       reads[Line(t).to] = t /\ \E i \in 1..Len(sharers[Line(t).to]) : sharers[Line(t).to][i] = t
  /\ \A a \in Accounts : \A i, j \in 1..Len(sharers[a]) : sharers[a][i] = sharers[a][j] => i = j

\* A deposit that has landed and is not counted yet.
Landed(t) == /\ pc[t] = "wroteTo" \/ (pc[t] = "start" /\ callNo[t] > 0)
             /\ Call(t).op = "deposit" /\ ~threw[t]
\* What kind of call a task is in, where its place does not say it.
Placed == \A t \in Tasks : /\ pc[t] = "new" => callNo[t] = 0
                           /\ pc[t] \in {"fetching", "fetched", "sharing", "seen"} => Call(t).op = "balance"
\* The deposit is counted before the next holder is past its hand-over.
Turn == \A t, u \in Tasks :
  Landed(t) /\ pc[u] \in Holding /\ u # t =>
    pc[t] = "start" /\ (pc[u] = "woken" \/ (pc[u] = "enter" /\ Ahead(t, u)))
OneLanded == \A t, u \in Tasks : Landed(t) /\ Landed(u) => t = u

Before(a) == OrZero(Opening[a]) + credited[a]
Counted == \A a \in Accounts : OnlyCredited(a) =>
  /\ Before(a) <= OrZero(balances[a])
  /\ \A t \in Tasks : Landed(t) /\ Line(t).to = a => Before(a) + Line(t).amount <= OrZero(balances[a])

Reading(t) == pc[t] \in {"fetching", "fetched", "sharing", "seen"}
Asked == \A t \in Tasks : Reading(t) => floor[t] <= credited[Line(t).to]

\* What an owner has read has all that was counted, and what will be before it is cleared.
Owning(t) == /\ pc[t] \in {"fetched", "seen"} /\ reads[Line(t).to] = t
             /\ ~threw[t] /\ OnlyCredited(Line(t).to)
Fresh ==
  /\ \A t \in Tasks : Owning(t) => Before(Line(t).to) <= value[t]
  /\ \A t, u \in Tasks : Owning(t) /\ Landed(u) /\ Line(u).to = Line(t).to =>
         \/ Before(Line(t).to) + Line(u).amount <= value[t]
         \/ pc[u] = "wroteTo" /\ (pc[t] = "fetched" => Ahead(t, u))
         \/ pc[u] = "start" /\ pc[t] = "seen" /\ Ahead(t, u)
Answered(t) == pc[t] \in {"fetched", "seen"} /\ ~threw[t] /\ OnlyCredited(Line(t).to)
Known == \A t \in Tasks : Answered(t) => value[t] <= OrZero(balances[Line(t).to])
Learnt == \A t \in Tasks :
  pc[t] = "seen" /\ Answered(t) => OrZero(Opening[Line(t).to]) + floor[t] <= value[t]

-----------------------------------------------------------------------------
(* The queue of jobs. *)

\* A job put at the back is behind all others, which keep their order.
LEMMA AppendJobs ==
  ASSUME jobs \in Seq(Tasks), NEW t \in Tasks, jobs' = Append(jobs, t), ~InJobs(t),
         \A i, j \in 1..Len(jobs) : jobs[i] = jobs[j] => i = j
  PROVE  /\ \A i, j \in 1..Len(jobs') : jobs'[i] = jobs'[j] => i = j
         /\ \A u \in Tasks : InJobs(u)' <=> InJobs(u) \/ u = t
         /\ \A u, v \in Tasks : Ahead(u, v) => Ahead(u, v)'
         /\ \A u \in Tasks : InJobs(u) => Ahead(u, t)'
<1> DEFINE n == Len(jobs)
<1>1. /\ n \in Nat /\ Len(jobs') = n + 1 /\ jobs'[n + 1] = t
      /\ \A i \in 1..n : jobs'[i] = jobs[i] /\ jobs[i] # t
  BY DEF InJobs
<1>2. \A i \in 1..(n + 1) : i \in 1..n \/ i = n + 1
  BY <1>1
<1>3. 1..n \subseteq 1..(n + 1) /\ n + 1 \in 1..(n + 1) /\ \A i \in 1..n : i < n + 1
  BY <1>1
<1>4. \A i, j \in 1..Len(jobs') : jobs'[i] = jobs'[j] => i = j
  BY <1>1, <1>2
<1>5. \A u \in Tasks : InJobs(u)' <=> InJobs(u) \/ u = t
  BY <1>1, <1>2, <1>3 DEF InJobs
<1>6. \A u, v \in Tasks : Ahead(u, v) => Ahead(u, v)'
  BY <1>1, <1>3 DEF Ahead
<1>7. \A u \in Tasks : InJobs(u) => Ahead(u, t)'
  BY <1>1, <1>3 DEF Ahead, InJobs
<1>. QED
  BY <1>4, <1>5, <1>6, <1>7

\* The first job runs: the others keep their order, and those it puts at the back are
\* behind them.
LEMMA ShiftJobs ==
  ASSUME jobs \in Seq(Tasks), NEW t \in Tasks, jobs # <<>>, Head(jobs) = t,
         NEW more \in Seq(Tasks), Then(more),
         \A i, j \in 1..Len(jobs) : jobs[i] = jobs[j] => i = j,
         \A i, j \in 1..Len(more) : more[i] = more[j] => i = j,
         \A i \in 1..Len(more) : InJobs(more[i]) => more[i] = t
  PROVE  /\ \A i, j \in 1..Len(jobs') : jobs'[i] = jobs'[j] => i = j
         /\ \A u \in Tasks : InJobs(u)' <=> (InJobs(u) /\ u # t) \/ \E i \in 1..Len(more) : more[i] = u
         /\ \A u, v \in Tasks : u # t /\ Ahead(u, v) => Ahead(u, v)'
         /\ \A u \in Tasks : InJobs(u) /\ u # t => \A i \in 1..Len(more) : Ahead(u, more[i])'
         /\ \A u \in Tasks : ~Ahead(u, t)
<1> DEFINE n == Len(jobs)
           m == Len(more)
           tail == Tail(jobs)
<1>1. n \in Nat /\ m \in Nat /\ n > 0 /\ jobs[1] = t
  OBVIOUS
<1>2. /\ tail \in Seq(Tasks) /\ Len(tail) = n - 1
      /\ \A i \in 1..(n - 1) : tail[i] = jobs[i + 1]
  BY <1>1
<1>3. jobs' = tail \o more
  BY DEF Then
<1> HIDE DEF tail
<1>4. /\ Len(jobs') = (n - 1) + m
      /\ \A i \in 1..(n - 1) : jobs'[i] = tail[i]
      /\ \A i \in 1..m : jobs'[(n - 1) + i] = more[i]
  BY <1>1, <1>2, <1>3
<1>5. \A i \in 1..((n - 1) + m) : i \in 1..(n - 1) \/ \E k \in 1..m : i = (n - 1) + k
  <2> TAKE i \in 1..((n - 1) + m)
  <2>1. CASE i <= n - 1
    BY <2>1, <1>1
  <2>2. CASE i > n - 1
    <3>1. i - (n - 1) \in 1..m /\ i = (n - 1) + (i - (n - 1))
      BY <2>2, <1>1
    <3>. QED
      BY <3>1
  <2>. QED
    BY <2>1, <2>2, <1>1
<1>6. /\ \A i \in 1..(n - 1) : i + 1 \in 1..n /\ i \in 1..((n - 1) + m)
      /\ \A k \in 1..m : (n - 1) + k \in 1..((n - 1) + m)
      /\ \A i \in 1..(n - 1), k \in 1..m : i < (n - 1) + k
      /\ \A i \in 1..n : i # 1 => i - 1 \in 1..(n - 1) /\ (i - 1) + 1 = i
  BY <1>1
<1>7. \A i \in 1..(n - 1) : tail[i] # t /\ InJobs(tail[i])
  <2> TAKE i \in 1..(n - 1)
  <2>1. i + 1 \in 1..n /\ 1 \in 1..n /\ i + 1 # 1 /\ tail[i] = jobs[i + 1]
    BY <1>1, <1>2, <1>6
  <2>. QED
    BY <2>1, <1>1 DEF InJobs
<1>8. \A u \in Tasks : InJobs(u) /\ u # t => \E i \in 1..(n - 1) : tail[i] = u
  <2> SUFFICES ASSUME NEW u \in Tasks, InJobs(u), u # t PROVE \E i \in 1..(n - 1) : tail[i] = u
    OBVIOUS
  <2>1. PICK i \in 1..n : jobs[i] = u
    BY DEF InJobs
  <2>2. i # 1
    BY <2>1, <1>1
  <2>3. i - 1 \in 1..(n - 1) /\ (i - 1) + 1 = i
    BY <2>2, <1>6
  <2>4. tail[i - 1] = jobs[(i - 1) + 1]
    BY <2>3, <1>2
  <2>. QED
    BY <2>1, <2>3, <2>4
<1>9. \A i, j \in 1..(n - 1) : tail[i] = tail[j] => i = j
  <2> SUFFICES ASSUME NEW i \in 1..(n - 1), NEW j \in 1..(n - 1), tail[i] = tail[j] PROVE i = j
    OBVIOUS
  <2>1. i + 1 \in 1..n /\ j + 1 \in 1..n /\ jobs[i + 1] = jobs[j + 1]
    BY <1>2, <1>6
  <2>2. i + 1 = j + 1
    BY <2>1
  <2>. QED
    BY <2>2
<1>10. \A i \in 1..(n - 1), k \in 1..m : tail[i] # more[k]
  BY <1>7
<1>11. \A i, j \in 1..Len(jobs') : jobs'[i] = jobs'[j] => i = j
  <2> SUFFICES ASSUME NEW i \in 1..((n - 1) + m), NEW j \in 1..((n - 1) + m), jobs'[i] = jobs'[j]
               PROVE  i = j
    BY <1>4
  <2>1. CASE i \in 1..(n - 1) /\ j \in 1..(n - 1)
    BY <2>1, <1>4, <1>9
  <2>2. CASE i \in 1..(n - 1) /\ \E k \in 1..m : j = (n - 1) + k
    BY <2>2, <1>4, <1>10
  <2>3. CASE j \in 1..(n - 1) /\ \E k \in 1..m : i = (n - 1) + k
    BY <2>3, <1>4, <1>10
  <2>4. CASE (\E k \in 1..m : i = (n - 1) + k) /\ (\E k \in 1..m : j = (n - 1) + k)
    BY <2>4, <1>4
  <2>. QED
    BY <2>1, <2>2, <2>3, <2>4, <1>5
<1>12. \A u \in Tasks : InJobs(u)' <=> (InJobs(u) /\ u # t) \/ \E i \in 1..Len(more) : more[i] = u
  <2> TAKE u \in Tasks
  <2>1. ASSUME InJobs(u)' PROVE (InJobs(u) /\ u # t) \/ \E i \in 1..m : more[i] = u
    <3>1. PICK i \in 1..((n - 1) + m) : jobs'[i] = u
      BY <2>1, <1>4 DEF InJobs
    <3>2. CASE i \in 1..(n - 1)
      BY <3>1, <3>2, <1>4, <1>7
    <3>3. CASE \E k \in 1..m : i = (n - 1) + k
      BY <3>1, <3>3, <1>4
    <3>. QED
      BY <3>2, <3>3, <1>5
  <2>2. ASSUME InJobs(u), u # t PROVE InJobs(u)'
    <3>1. PICK i \in 1..(n - 1) : tail[i] = u
      BY <2>2, <1>8
    <3>. QED
      BY <3>1, <1>4, <1>6 DEF InJobs
  <2>3. ASSUME NEW k \in 1..m, more[k] = u PROVE InJobs(u)'
    BY <2>3, <1>4, <1>6 DEF InJobs
  <2>. QED
    BY <2>1, <2>2, <2>3
<1>13. \A u, v \in Tasks : u # t /\ Ahead(u, v) => Ahead(u, v)'
  <2> SUFFICES ASSUME NEW u \in Tasks, NEW v \in Tasks, u # t, Ahead(u, v) PROVE Ahead(u, v)'
    OBVIOUS
  <2>1. PICK i \in 1..n, j \in 1..n : i < j /\ jobs[i] = u /\ jobs[j] = v
    BY DEF Ahead
  <2>2. i # 1 /\ j # 1
    BY <2>1, <1>1
  <2>3. /\ i - 1 \in 1..(n - 1) /\ j - 1 \in 1..(n - 1) /\ i - 1 < j - 1
        /\ tail[i - 1] = u /\ tail[j - 1] = v
    BY <2>1, <2>2, <1>1, <1>2, <1>6
  <2>. QED
    BY <2>3, <1>4, <1>6 DEF Ahead
<1>14. \A u \in Tasks : InJobs(u) /\ u # t => \A i \in 1..Len(more) : Ahead(u, more[i])'
  <2> SUFFICES ASSUME NEW u \in Tasks, InJobs(u), u # t, NEW k \in 1..m
               PROVE  Ahead(u, more[k])'
    OBVIOUS
  <2>1. PICK i \in 1..(n - 1) : tail[i] = u
    BY <1>8
  <2>2. jobs'[i] = u /\ jobs'[(n - 1) + k] = more[k] /\ i < (n - 1) + k
    BY <2>1, <1>4, <1>6
  <2>3. i \in 1..Len(jobs') /\ (n - 1) + k \in 1..Len(jobs')
    BY <1>4, <1>6
  <2>. QED
    BY <2>2, <2>3 DEF Ahead
<1>15. \A u \in Tasks : ~Ahead(u, t)
  <2> SUFFICES ASSUME NEW u \in Tasks, NEW i \in 1..n, NEW j \in 1..n, i < j, jobs[j] = t PROVE FALSE
    BY DEF Ahead
  <2>1. j = 1
    BY <1>1
  <2>. QED
    BY <2>1
<1>. QED
  BY <1>11, <1>12, <1>13, <1>14, <1>15

-----------------------------------------------------------------------------
\* A step is a call that settles, or the first job, which may put some back.
LEMMA RunShape ==
  ASSUME NEW t \in Tasks, Run(t)
  PROVE  /\ jobs # <<>> /\ Head(jobs) = t /\ pc[t] \in Resuming
         /\ \/ \E place : place \notin Resuming /\ Goto(t, place) /\ Then(<<>>)
            \/ \E place \in Resuming : Goto(t, place) /\ Then(<<t>>)
            \/ Leave(t) /\ pc[t] # "queued"
            \/ Fetched(t)
<1>1. jobs # <<>> /\ Head(jobs) = t /\ pc[t] \in Resuming
  BY DEF Run, End, Acquire, Woken, Enter, GotFrom, GotTo, WroteFrom, WroteTo, Applied, Balance,
         Fetched, Seen, Due, Resuming
<1>2. CASE End(t) \/ Acquire(t) \/ Woken(t) \/ Enter(t) \/ Balance(t) \/ Seen(t)
  <2>1. \/ \E place \in {"done", "queued", "readFrom", "readTo", "fetching", "sharing"} : Goto(t, place) /\ Then(<<>>)
        \/ \E place \in {"enter", "seen", "start"} : Goto(t, place) /\ Then(<<t>>)
    BY <1>2 DEF End, Acquire, Woken, Enter, Balance, Seen
  <2>. QED
    BY <1>1, <2>1 DEF Resuming
<1>3. CASE GotFrom(t) \/ GotTo(t) \/ WroteFrom(t) \/ WroteTo(t) \/ Applied(t)
  <2>1. pc[t] # "queued"
    BY <1>1 DEF Resuming
  <2>2. \/ \E place \in {"readTo", "writeFrom", "writeTo", "readFrom"} : Continue(t, place)
        \/ Goto(t, "applied") /\ Then(<<t>>)
        \/ Leave(t)
    BY <1>3 DEF GotFrom, GotTo, WroteFrom, WroteTo, Applied, Conclude
  <2>3. \A place : Continue(t, place) => Goto(t, place) /\ Then(<<>>)
    BY DEF Continue
  <2>. QED
    BY <1>1, <2>1, <2>2, <2>3 DEF Resuming
<1>. QED
  BY <1>1, <1>2, <1>3 DEF Run

\* The one whose read is answered answers those who share it, itself included.
LEMMA SharersOf ==
  ASSUME IInv, Owners, NEW t \in Tasks, pc[t] = "fetched"
  PROVE  /\ Line(t).to \in Accounts /\ sharers[Line(t).to] \in Seq(Tasks)
         /\ \A i, j \in 1..Len(sharers[Line(t).to]) : sharers[Line(t).to][i] = sharers[Line(t).to][j] => i = j
         /\ \E i \in 1..Len(sharers[Line(t).to]) : sharers[Line(t).to][i] = t
         /\ \A i \in 1..Len(sharers[Line(t).to]) :
              LET v == sharers[Line(t).to][i] IN
              Line(v).to = Line(t).to /\ (v = t \/ pc[v] = "sharing")
         /\ \A u : u \in Range(sharers[Line(t).to]) <=> \E i \in 1..Len(sharers[Line(t).to]) : sharers[Line(t).to][i] = u
         /\ t \in Range(sharers[Line(t).to])
         /\ \A u \in Range(sharers[Line(t).to]) : u \in Tasks /\ Line(u).to = Line(t).to /\ (u = t \/ pc[u] = "sharing")
<1> DEFINE a == Line(t).to
<1>i. TypeOK /\ Positioned /\ SharersInv
  BY DEF IInv
<1>1. callNo[t] > 0
  BY <1>i DEF Positioned
<1>2. a \in Accounts
  BY <1>1, <1>i, LineType
<1>3. sharers[a] \in Seq(Tasks)
  BY <1>2, <1>i DEF TypeOK
<1>4. reads[a] = t /\ \E i \in 1..Len(sharers[a]) : sharers[a][i] = t
  BY DEF Owners
<1>5. \A i \in 1..Len(sharers[a]) : sharers[a][i] \in Tasks
  BY <1>3
<1>6. \A i \in 1..Len(sharers[a]) : Line(sharers[a][i]).to = a /\ pc[sharers[a][i]] \in Asking
  BY <1>2, <1>i DEF SharersInv
<1>7. \A i \in 1..Len(sharers[a]) : sharers[a][i] = t \/ pc[sharers[a][i]] = "sharing"
  BY <1>4, <1>5, <1>6 DEF Owners, Asking
<1>8. \A i, j \in 1..Len(sharers[a]) : sharers[a][i] = sharers[a][j] => i = j
  BY <1>2 DEF Owners
<1>9. DOMAIN sharers[a] = 1..Len(sharers[a])
  BY <1>3
<1>10. \A u : u \in Range(sharers[a]) <=> \E i \in 1..Len(sharers[a]) : sharers[a][i] = u
  BY <1>9 DEF Range
<1>11. t \in Range(sharers[a])
  BY <1>4, <1>10
<1>12. \A u \in Range(sharers[a]) : u \in Tasks /\ Line(u).to = a /\ (u = t \/ pc[u] = "sharing")
  BY <1>5, <1>6, <1>7, <1>10
<1>. QED
  BY <1>2, <1>3, <1>4, <1>6, <1>7, <1>8, <1>10, <1>11, <1>12

\* How a step of t moves the jobs: the others keep their order, and are all
\* ahead of t when it goes to the back.
InOrder(t) ==
  /\ \A u, v \in Tasks : u # t /\ Ahead(u, v) => Ahead(u, v)'
  /\ \A u \in Tasks : u # t /\ InJobs(u) /\ InJobs(t)' => Ahead(u, t)'
  /\ Run(t) => \A u \in Tasks : ~Ahead(u, t)

\* A task has a job while it is due and only then; what was in front of another stays there.
LEMMA JobsStep ==
  ASSUME IInv, OneJobEach, Owners, NEW t \in Tasks, Arrive(t) \/ Settle(t) \/ Run(t)
  PROVE  OneJobEach' /\ InOrder(t)
<1>i. TypeOK /\ QueueInv
  BY DEF IInv
<1>j. jobs \in Seq(Tasks) /\ \A i, j \in 1..Len(jobs) : jobs[i] = jobs[j] => i = j
  BY <1>i DEF OneJobEach, TypeOK
<1>1. CASE Arrive(t) \/ Settle(t)
  <2>1. /\ jobs' = Append(jobs, t) /\ pc[t] \notin Resuming
        /\ \E place \in Resuming : Goto(t, place)
    BY <1>1 DEF Arrive, Settle, SettleRead, SettleWrite, SettleFetch, Reject, InStore, Resumed, Resuming
  <2>2. ~InJobs(t)
    BY <2>1 DEF OneJobEach
  <2>3. /\ \A i, j \in 1..Len(jobs') : jobs'[i] = jobs'[j] => i = j
        /\ \A u \in Tasks : InJobs(u)' <=> InJobs(u) \/ u = t
        /\ \A u, v \in Tasks : Ahead(u, v) => Ahead(u, v)'
        /\ \A u \in Tasks : InJobs(u) => Ahead(u, t)'
    BY <2>1, <2>2, <1>j, AppendJobs
  <2>4. pc'[t] \in Resuming /\ \A u \in Tasks : u # t => pc'[u] = pc[u]
    BY <2>1, <1>i DEF Goto, TypeOK
  <2>5. ~Run(t)
    BY <2>1, RunShape
  <2>. QED
    BY <2>3, <2>4, <2>5 DEF OneJobEach, InOrder
<1>2. CASE Run(t)
  <2>h. jobs # <<>> /\ Head(jobs) = t /\ pc[t] \in Resuming
    BY <1>2, RunShape
  <2>1. ASSUME NEW more \in Seq(Tasks), Then(more),
               \A i, j \in 1..Len(more) : more[i] = more[j] => i = j,
               \A i \in 1..Len(more) : InJobs(more[i]) => more[i] = t,
               \A u \in Tasks : pc'[u] \in Resuming <=>
                 (pc[u] \in Resuming /\ u # t) \/ \E i \in 1..Len(more) : more[i] = u
        PROVE  OneJobEach' /\ InOrder(t)
    <3>1. /\ \A i, j \in 1..Len(jobs') : jobs'[i] = jobs'[j] => i = j
          /\ \A u \in Tasks : InJobs(u)' <=> (InJobs(u) /\ u # t) \/ \E i \in 1..Len(more) : more[i] = u
          /\ \A u, v \in Tasks : u # t /\ Ahead(u, v) => Ahead(u, v)'
          /\ \A u \in Tasks : InJobs(u) /\ u # t => \A i \in 1..Len(more) : Ahead(u, more[i])'
          /\ \A u \in Tasks : ~Ahead(u, t)
      BY <2>1, <2>h, <1>j, ShiftJobs
    <3>2. OneJobEach'
      BY <2>1, <3>1 DEF OneJobEach
    <3>3. \A u \in Tasks : u # t /\ InJobs(u) /\ InJobs(t)' => Ahead(u, t)'
      BY <3>1
    <3>. QED
      BY <3>1, <3>2, <3>3 DEF InOrder
  <2>2. CASE \E place : place \notin Resuming /\ Goto(t, place) /\ Then(<<>>)
    <3> DEFINE more == <<>>
    <3>1. pc'[t] \notin Resuming /\ \A u \in Tasks : u # t => pc'[u] = pc[u]
      BY <2>2, <1>i DEF Goto, TypeOK
    <3>2. more \in Seq(Tasks) /\ Then(more) /\ 1..Len(more) = {}
      BY <2>2
    <3> HIDE DEF more
    <3>. QED
      BY <3>1, <3>2, <2>1
  <2>3. CASE \E place \in Resuming : Goto(t, place) /\ Then(<<t>>)
    <3> DEFINE more == <<t>>
    <3>1. pc'[t] \in Resuming /\ \A u \in Tasks : u # t => pc'[u] = pc[u]
      BY <2>3, <1>i DEF Goto, TypeOK
    <3>2. more \in Seq(Tasks) /\ Then(more) /\ 1..Len(more) = {1} /\ more[1] = t
      BY <2>3
    <3> HIDE DEF more
    <3>. QED
      BY <3>1, <3>2, <2>1
  <2>4. CASE Leave(t) /\ pc[t] # "queued"
    <3>1. CASE waiting = <<>>
      <4>1. Goto(t, "start") /\ Then(<<t>>)
        BY <2>4, <3>1 DEF Leave
      <4>. QED
        BY <4>1, <2>3 DEF Resuming
    <3>2. CASE waiting # <<>>
      <4> DEFINE next == Head(waiting)
                 more == <<next, t>>
      <4>1. pc' = [pc EXCEPT ![t] = "start", ![next] = "woken"] /\ Then(more)
        BY <2>4, <3>2 DEF Leave
      <4>2. next \in Tasks /\ pc[next] = "queued" /\ next # t
        <5>1. waiting \in Seq(Tasks) /\ next = waiting[1] /\ 1 \in 1..Len(waiting)
          BY <3>2, <1>i DEF TypeOK
        <5>2. pc[next] = "queued"
          BY <5>1, <1>i DEF QueueInv
        <5>. QED
          BY <5>1, <5>2, <2>4
      <4>3. more \in Seq(Tasks) /\ 1..Len(more) = {1, 2} /\ more[1] = next /\ more[2] = t
        BY <4>2
      <4>4. ~InJobs(next)
        BY <4>2 DEF OneJobEach, Resuming
      <4>5. \A u \in Tasks : pc'[u] \in Resuming <=> (pc[u] \in Resuming /\ u # t) \/ u = next \/ u = t
        BY <4>1, <4>2, <1>i DEF Resuming, TypeOK
      <4> HIDE DEF more, next
      <4>. QED
        BY <4>1, <4>2, <4>3, <4>4, <4>5, <2>1
    <3>. QED
      BY <3>1, <3>2
  <2>5. CASE Fetched(t)
    <3> DEFINE more == sharers[Line(t).to]
    <3>1. pc[t] = "fetched" /\ Then(more) /\ pc' = [u \in Tasks |-> IF u \in Range(more) THEN "seen" ELSE pc[u]]
      BY <2>5 DEF Fetched, Due
    <3>2. /\ more \in Seq(Tasks)
          /\ \A i, j \in 1..Len(more) : more[i] = more[j] => i = j
          /\ \E i \in 1..Len(more) : more[i] = t
          /\ \A i \in 1..Len(more) : more[i] = t \/ pc[more[i]] = "sharing"
          /\ \A u : u \in Range(more) <=> \E i \in 1..Len(more) : more[i] = u
      BY <3>1, SharersOf
    <3>a. \A i \in 1..Len(more) : more[i] \in Tasks
      BY <3>2
    <3> HIDE DEF more
    <3>3. \A i \in 1..Len(more) : InJobs(more[i]) => more[i] = t
      BY <3>2, <3>a DEF OneJobEach, Resuming
    <3>4. \A u \in Tasks : pc'[u] \in Resuming <=>
            (pc[u] \in Resuming /\ u # t) \/ \E i \in 1..Len(more) : more[i] = u
      <4> TAKE u \in Tasks
      <4>1. CASE u \in Range(more)
        BY <4>1, <3>1, <3>2 DEF Resuming
      <4>2. CASE u \notin Range(more)
        BY <4>2, <3>1, <3>2
      <4>. QED
        BY <4>1, <4>2
    <3>. QED
      BY <3>1, <3>2, <3>3, <3>4, <2>1
  <2>. QED
    BY <1>2, <2>2, <2>3, <2>4, <2>5, RunShape
<1>. QED
  BY <1>1, <1>2

-----------------------------------------------------------------------------
\* What a step of t does not touch of the others' calls.
LEMMA LinesStay ==
  ASSUME IInv, NEW t \in Tasks, Arrive(t) \/ Settle(t) \/ Run(t)
  PROVE  /\ \A u \in Tasks : u # t => Line(u)' = Line(u) /\ Call(u)' = Call(u)
         /\ \A a \in Accounts : OnlyCredited(a)' <=> OnlyCredited(a)
         /\ \/ Line(t)' = Line(t) /\ Call(t)' = Call(t) /\ callNo'[t] = callNo[t]
            \/ pc[t] \in {"start", "applied"}
<1>1. UNCHANGED program /\ \A u \in Tasks : u # t => callNo'[u] = callNo[u] /\ lineNo'[u] = lineNo[u]
  BY OthersStay
<1>2. UNCHANGED <<callNo, lineNo>> \/ pc[t] \in {"start", "applied"}
  BY DEF Run, Settle, Arrive, SettleRead, SettleWrite, SettleFetch, Reject, End, Acquire, Woken,
     Enter, GotFrom, GotTo, WroteFrom, WroteTo, Applied, Balance, Fetched, Seen, Due, localVars
<1>. QED
  BY <1>1, <1>2 DEF Line, Call, OnlyCredited

\* The read a balance call starts or joins is of the account it asks for.
LEMMA BalanceLine ==
  ASSUME IInv, NEW t \in Tasks, Balance(t)
  PROVE  /\ Upcoming(t).lines[1].to \in Accounts /\ pc[t] = "start"
         /\ Line(t)'.to = Upcoming(t).lines[1].to
<1>i. TypeOK /\ Positioned
  BY DEF IInv
<1>1. ~Ends(t) /\ Advance(t) /\ UNCHANGED program /\ pc[t] = "start"
  BY DEF Balance, Due
<1>2. PICK place \in {"fetching", "sharing", "seen"} : Goto(t, place)
  BY DEF Balance
<1>3. place \in Places \ OfBatch
  BY <1>2 DEF Places, OfBatch
<1>4. Line(t)' = Upcoming(t).lines[1]
  BY <1>1, <1>2, <1>3, <1>i, AdvancePositioned
<1>. QED
  BY <1>1, <1>4, <1>i, UpcomingType

\* The map of reads names those who read, and their sharers once.
LEMMA OwnersStep ==
  ASSUME IInv, Owners, NEW t \in Tasks, Arrive(t) \/ Settle(t) \/ Run(t)
  PROVE  Owners'
<1> DEFINE Own == {"fetching", "fetched", "seen"}
<1>i. TypeOK /\ SharersInv /\ t # NoTask
  BY NameAssumption DEF IInv
<1>r. reads \in [Accounts -> Tasks \union {NoTask}] /\ sharers \in [Accounts -> Seq(Tasks)]
  BY <1>i DEF TypeOK
<1>l. \A u \in Tasks : u # t => Line(u)' = Line(u)
  BY LinesStay
<1>t. \A u \in Tasks : pc[u] \in {"fetching", "fetched"} => Line(u).to \in Accounts
  BY <1>i, LineType DEF IInv, Positioned
<1>1. CASE Fetched(t)
  <2> DEFINE a == Line(t).to
             all == Range(sharers[a])
  <2>1. /\ pc[t] = "fetched" /\ pc' = [u \in Tasks |-> IF u \in all THEN "seen" ELSE pc[u]]
        /\ sharers' = [sharers EXCEPT ![a] = <<>>] /\ UNCHANGED <<reads, program, callNo, lineNo>>
    BY <1>1 DEF Fetched, Due, localVars
  <2>2. /\ a \in Accounts /\ t \in all
        /\ \A u \in all : u = t \/ pc[u] = "sharing"
    BY <2>1, SharersOf
  <2>3. \A u \in Tasks : Line(u)' = Line(u)
    BY <2>1 DEF Line, Call
  <2>4. reads[a] = t
    BY <2>1 DEF Owners
  <2>5. sharers'[a] = <<>> /\ \A b \in Accounts : b # a => sharers'[b] = sharers[b]
    BY <2>1, <2>2, <1>r
  <2> HIDE DEF all, a
  <2>6. ASSUME NEW b \in Accounts, NEW u \in Tasks, reads'[b] = u
        PROVE  pc'[u] \in Own /\ Line(u)'.to = b
    BY <2>6, <2>1, <2>3 DEF Owners
  <2>7. ASSUME NEW u \in Tasks, pc'[u] \in {"fetching", "fetched"}
        PROVE  /\ reads'[Line(u)'.to] = u
               /\ \E i \in 1..Len(sharers'[Line(u)'.to]) : sharers'[Line(u)'.to][i] = u
    <3>1. u \notin all /\ pc[u] = pc'[u]
      BY <2>1, <2>7
    <3>2. u # t /\ reads[Line(u).to] = u /\ Line(u).to \in Accounts
      BY <3>1, <2>2, <2>7, <1>t DEF Owners
    <3>3. sharers'[Line(u).to] = sharers[Line(u).to]
      BY <3>2, <2>4, <2>5
    <3>. QED
      BY <3>1, <3>2, <3>3, <2>1, <2>3, <2>7 DEF Owners
  <2>8. \A b \in Accounts : \A i, j \in 1..Len(sharers'[b]) : sharers'[b][i] = sharers'[b][j] => i = j
    BY <2>5 DEF Owners
  <2>. QED
    BY <2>6, <2>7, <2>8 DEF Owners
<1>2. CASE ~Fetched(t)
  <2>p. \A u \in Tasks : u # t =>
          /\ pc[u] \in Own => pc'[u] = pc[u]
          /\ pc'[u] \in Own => pc'[u] = pc[u]
    <3>1. \A u \in Tasks : u # t => pc'[u] = pc[u] \/ (pc[u] = "queued" /\ pc'[u] = "woken")
      BY <1>2, OthersPlaces
    <3>. QED
      BY <3>1
  <2>1. CASE Seen(t)
    <3>1. /\ pc[t] = "seen" /\ pc'[t] = "start" /\ UNCHANGED sharers
          /\ reads' = [a \in Accounts |-> IF reads[a] = t THEN NoTask ELSE reads[a]]
      BY <2>1, <1>i DEF Seen, Due, Goto, TypeOK
    <3>2. ASSUME NEW b \in Accounts, NEW u \in Tasks, reads'[b] = u
          PROVE  pc'[u] \in Own /\ Line(u)'.to = b
      <4>1. reads[b] = u /\ u # t
        BY <3>1, <3>2, NameAssumption
      <4>2. pc[u] \in Own /\ Line(u).to = b
        BY <4>1 DEF Owners
      <4>. QED
        BY <4>1, <4>2, <2>p, <1>l
    <3>3. ASSUME NEW u \in Tasks, pc'[u] \in {"fetching", "fetched"}
          PROVE  /\ reads'[Line(u)'.to] = u
                 /\ \E i \in 1..Len(sharers'[Line(u)'.to]) : sharers'[Line(u)'.to][i] = u
      <4>1. u # t /\ pc[u] = pc'[u] /\ Line(u)' = Line(u)
        BY <3>1, <3>3, <2>p, <1>l
      <4>2. reads[Line(u).to] = u /\ Line(u).to \in Accounts
        BY <4>1, <3>3, <1>t DEF Owners
      <4>. QED
        BY <3>1, <3>3, <4>1, <4>2 DEF Owners
    <3>. QED
      BY <3>1, <3>2, <3>3 DEF Owners
  <2>2. CASE Balance(t)
    <3> DEFINE a == Upcoming(t).lines[1].to
    <3>a. a \in Accounts /\ pc[t] = "start" /\ Line(t)'.to = a
      BY <2>2, BalanceLine
    <3>n. \A b \in Accounts : reads[b] # t
      BY <3>a, <1>i DEF Owners
    <3>o. ASSUME NEW b \in Accounts, NEW u \in Tasks, reads[b] = u
          PROVE  pc'[u] \in Own /\ Line(u)'.to = b
      <4>1. u # t /\ pc[u] \in Own /\ Line(u).to = b
        BY <3>o, <3>n DEF Owners
      <4>. QED
        BY <4>1, <2>p, <1>l
    <3>u. ASSUME NEW u \in Tasks, u # t, pc'[u] \in {"fetching", "fetched"}
          PROVE  /\ Line(u)' = Line(u) /\ Line(u).to \in Accounts /\ reads[Line(u).to] = u
                 /\ \E i \in 1..Len(sharers[Line(u).to]) : sharers[Line(u).to][i] = u
      <4>1. pc[u] = pc'[u] /\ Line(u)' = Line(u)
        BY <3>u, <2>p, <1>l
      <4>. QED
        BY <4>1, <3>u, <1>t DEF Owners
    <3>1. CASE reads[a] = NoTask
      <4>1. /\ reads' = [reads EXCEPT ![a] = t] /\ sharers' = [sharers EXCEPT ![a] = <<t>>]
            /\ Goto(t, "fetching")
        BY <2>2, <3>1 DEF Balance
      <4>2. /\ reads'[a] = t /\ sharers'[a] = <<t>> /\ pc'[t] = "fetching"
            /\ \A b \in Accounts : b # a => reads'[b] = reads[b] /\ sharers'[b] = sharers[b]
        BY <4>1, <3>a, <1>r, <1>i DEF Goto, TypeOK
      <4> HIDE DEF a
      <4>3. ASSUME NEW b \in Accounts, NEW u \in Tasks, reads'[b] = u
            PROVE  pc'[u] \in Own /\ Line(u)'.to = b
        <5>1. CASE b = a
          BY <5>1, <4>2, <4>3, <3>a
        <5>2. CASE b # a
          <6>1. reads[b] = u
            BY <5>2, <4>2, <4>3
          <6>. QED
            BY <6>1, <3>o
        <5>. QED
          BY <5>1, <5>2
      <4>4. ASSUME NEW u \in Tasks, pc'[u] \in {"fetching", "fetched"}
            PROVE  /\ reads'[Line(u)'.to] = u
                   /\ \E i \in 1..Len(sharers'[Line(u)'.to]) : sharers'[Line(u)'.to][i] = u
        <5>1. CASE u = t
          BY <5>1, <4>2, <3>a
        <5>2. CASE u # t
          <6>1. /\ Line(u)' = Line(u) /\ Line(u).to \in Accounts /\ reads[Line(u).to] = u
                /\ \E i \in 1..Len(sharers[Line(u).to]) : sharers[Line(u).to][i] = u
            BY <5>2, <4>4, <3>u
          <6>2. Line(u).to # a /\ u # NoTask
            BY <6>1, <3>1, NameAssumption
          <6>. QED
            BY <6>1, <6>2, <4>2
        <5>. QED
          BY <5>1, <5>2
      <4>5. \A b \in Accounts : \A i, j \in 1..Len(sharers'[b]) : sharers'[b][i] = sharers'[b][j] => i = j
        <5>1. 1..Len(sharers'[a]) = {1}
          BY <4>2
        <5>. QED
          BY <5>1, <4>2 DEF Owners
      <4>. QED
        BY <4>3, <4>4, <4>5 DEF Owners
    <3>2. CASE reads[a] # NoTask /\ pc[reads[a]] \in {"fetching", "fetched"}
      <4>1. /\ UNCHANGED reads /\ sharers' = [sharers EXCEPT ![a] = Append(@, t)]
            /\ Goto(t, "sharing")
        BY <2>2, <3>2 DEF Balance
      <4>2. /\ sharers'[a] = Append(sharers[a], t) /\ pc'[t] = "sharing"
            /\ \A b \in Accounts : b # a => sharers'[b] = sharers[b]
        BY <4>1, <3>a, <1>r, <1>i DEF Goto, TypeOK
      <4>o. \A b \in Accounts : \A i, j \in 1..Len(sharers[b]) : sharers[b][i] = sharers[b][j] => i = j
        BY DEF Owners
      <4> HIDE DEF a
      <4>3. \A i \in 1..Len(sharers[a]) : sharers[a][i] # t
        BY <3>a, <1>i DEF SharersInv, Asking
      <4>4. /\ Len(sharers'[a]) = Len(sharers[a]) + 1 /\ Len(sharers[a]) \in Nat
            /\ \A i \in 1..Len(sharers[a]) : sharers'[a][i] = sharers[a][i]
            /\ sharers'[a][Len(sharers[a]) + 1] = t
        BY <4>2, <3>a, <1>r
      <4>5. \A i \in 1..Len(sharers[a]) : i \in 1..Len(sharers'[a])
        BY <4>4
      <4>6. \A i \in 1..Len(sharers'[a]) : i \in 1..Len(sharers[a]) \/ i = Len(sharers[a]) + 1
        BY <4>4
      <4>7. \A i, j \in 1..Len(sharers'[a]) : sharers'[a][i] = sharers'[a][j] => i = j
        <5> SUFFICES ASSUME NEW i \in 1..Len(sharers'[a]), NEW j \in 1..Len(sharers'[a]),
                            sharers'[a][i] = sharers'[a][j]
                     PROVE  i = j
          OBVIOUS
        <5>1. CASE i \in 1..Len(sharers[a]) /\ j \in 1..Len(sharers[a])
          BY <5>1, <4>4, <3>a, <4>o
        <5>2. CASE i = Len(sharers[a]) + 1 \/ j = Len(sharers[a]) + 1
          BY <5>2, <4>3, <4>4, <4>6
        <5>. QED
          BY <5>1, <5>2, <4>6
      <4>8. \A b \in Accounts : \A i, j \in 1..Len(sharers'[b]) : sharers'[b][i] = sharers'[b][j] => i = j
        BY <4>2, <4>7, <4>o
      <4>9. ASSUME NEW u \in Tasks, pc'[u] \in {"fetching", "fetched"}
            PROVE  /\ reads'[Line(u)'.to] = u
                   /\ \E i \in 1..Len(sharers'[Line(u)'.to]) : sharers'[Line(u)'.to][i] = u
        <5>1. u # t
          BY <4>2, <4>9
        <5>2. /\ Line(u)' = Line(u) /\ Line(u).to \in Accounts /\ reads[Line(u).to] = u
              /\ \E i \in 1..Len(sharers[Line(u).to]) : sharers[Line(u).to][i] = u
          BY <5>1, <4>9, <3>u
        <5>. QED
          BY <5>2, <4>1, <4>2, <4>4, <4>5
      <4>10. \A b \in Accounts, u \in Tasks : reads'[b] = u => pc'[u] \in Own /\ Line(u)'.to = b
        BY <3>o, <4>1
      <4>. QED
        BY <4>8, <4>9, <4>10 DEF Owners
    <3>3. CASE reads[a] # NoTask /\ pc[reads[a]] \notin {"fetching", "fetched"}
      <4>1. UNCHANGED <<reads, sharers>> /\ Goto(t, "seen")
        BY <2>2, <3>3 DEF Balance
      <4>2. pc'[t] = "seen"
        BY <4>1, <1>i DEF Goto, TypeOK
      <4> HIDE DEF a
      <4>3. ASSUME NEW u \in Tasks, pc'[u] \in {"fetching", "fetched"}
            PROVE  /\ reads'[Line(u)'.to] = u
                   /\ \E i \in 1..Len(sharers'[Line(u)'.to]) : sharers'[Line(u)'.to][i] = u
        <5>1. u # t
          BY <4>2, <4>3
        <5>. QED
          BY <5>1, <4>1, <4>3, <3>u
      <4>4. \A b \in Accounts, u \in Tasks : reads'[b] = u => pc'[u] \in Own /\ Line(u)'.to = b
        BY <3>o, <4>1
      <4>. QED
        BY <4>1, <4>3, <4>4 DEF Owners
    <3>. QED
      BY <3>1, <3>2, <3>3
  <2>3. CASE ~Seen(t) /\ ~Balance(t)
    <3>1. UNCHANGED <<reads, sharers>>
      BY <2>3, <1>2 DEF Run, Settle, Arrive, SettleRead, SettleWrite, SettleFetch, Reject, End, Acquire,
         Woken, Enter, GotFrom, GotTo, WroteFrom, WroteTo, Applied, readVars
    <3>2. /\ pc[t] \in Own => pc[t] = "fetching" /\ pc'[t] = "fetched" /\ Line(t)' = Line(t)
          /\ pc'[t] \in {"fetching", "fetched"} => pc[t] = "fetching"
      <4>1. CASE Settle(t)
        <5>1. pc'[t] = Resumed[pc[t]] /\ pc[t] \in InStore
          BY <4>1, <1>i DEF Settle, SettleRead, SettleWrite, SettleFetch, Reject, Goto, InStore, Resumed, TypeOK
        <5>. QED
          BY <5>1, LinesStay DEF Resumed, InStore
      <4>2. CASE Arrive(t)
        BY <4>2, <1>i DEF Arrive, Goto, TypeOK
      <4>3. CASE Run(t)
        <5>1. pc[t] \notin Own
          BY <4>3, <2>3, <1>2 DEF Run, End, Acquire, Woken, Enter, GotFrom, GotTo, WroteFrom, WroteTo,
                                  Applied, Due
        <5>2. \/ \E place \in {"done", "queued", "enter", "readFrom", "readTo", "writeFrom", "writeTo", "applied"} :
                   Goto(t, place)
              \/ Leave(t) /\ pc[t] # "queued"
          <6>1. pc[t] # "queued"
            BY <4>3, RunShape DEF Resuming
          <6>2. \A place : Continue(t, place) => Goto(t, place)
            BY DEF Continue
          <6>3. \A result : Conclude(t, result) => Goto(t, "applied") \/ Leave(t)
            BY DEF Conclude
          <6>. QED
            BY <6>1, <6>2, <6>3, <4>3, <2>3, <1>2 DEF Run, End, Acquire, Woken, Enter, GotFrom, GotTo, WroteFrom,
               WroteTo, Applied
        <5>3. pc'[t] \notin Own
          BY <5>2, <1>i, LeavePlaces DEF Goto, TypeOK, IInv
        <5>. QED
          BY <5>1, <5>3
      <4>. QED
        BY <4>1, <4>2, <4>3
    <3>3. ASSUME NEW b \in Accounts, NEW u \in Tasks, reads'[b] = u
          PROVE  pc'[u] \in Own /\ Line(u)'.to = b
      <4>1. reads[b] = u /\ pc[u] \in Own /\ Line(u).to = b
        BY <3>1, <3>3 DEF Owners
      <4>2. CASE u = t
        BY <4>1, <4>2, <3>2
      <4>3. CASE u # t
        BY <4>1, <4>3, <2>p, <1>l
      <4>. QED
        BY <4>2, <4>3
    <3>4. ASSUME NEW u \in Tasks, pc'[u] \in {"fetching", "fetched"}
          PROVE  /\ reads'[Line(u)'.to] = u
                 /\ \E i \in 1..Len(sharers'[Line(u)'.to]) : sharers'[Line(u)'.to][i] = u
      <4>1. pc[u] \in {"fetching", "fetched"} /\ Line(u)' = Line(u)
        BY <3>2, <3>4, <2>p, <1>l
      <4>. QED
        BY <4>1, <3>1 DEF Owners
    <3>5. \A b \in Accounts : \A i, j \in 1..Len(sharers'[b]) : sharers'[b][i] = sharers'[b][j] => i = j
      BY <3>1 DEF Owners
    <3>. QED
      BY <3>3, <3>4, <3>5 DEF Owners
  <2>. QED
    BY <2>1, <2>2, <2>3
<1>. QED
  BY <1>1, <1>2

-----------------------------------------------------------------------------
\* A request that has not arrived has made no call; a reader is in a balance call.
LEMMA PlacedStep ==
  ASSUME IInv, Owners, Placed, NEW t \in Tasks, Arrive(t) \/ Settle(t) \/ Run(t)
  PROVE  Placed'
<1> DEFINE Asks == {"fetching", "fetched", "sharing", "seen"}
<1>i. TypeOK /\ QueueInv
  BY DEF IInv
<1>c. /\ \A u \in Tasks : u # t => Call(u)' = Call(u) /\ callNo'[u] = callNo[u]
      /\ pc[t] \in Asks => Call(t)' = Call(t)
  BY LinesStay, OthersStay
<1>1. CASE Fetched(t)
  <2> DEFINE all == Range(sharers[Line(t).to])
  <2>1. /\ pc[t] = "fetched" /\ pc' = [u \in Tasks |-> IF u \in all THEN "seen" ELSE pc[u]]
    BY <1>1 DEF Fetched, Due
  <2>2. \A u \in all : u = t \/ pc[u] = "sharing"
    BY <2>1, SharersOf
  <2>3. \A u \in Tasks : (pc'[u] \in Asks => pc[u] \in Asks) /\ (pc'[u] = "new" => pc[u] = "new" /\ u # t)
    BY <2>1, <2>2
  <2>. QED
    BY <2>3, <1>c, <2>1 DEF Placed
<1>2. CASE ~Fetched(t)
  <2>1. \A u \in Tasks : u # t => pc'[u] = pc[u] \/ (pc[u] = "queued" /\ pc'[u] = "woken")
    BY <1>2, OthersPlaces
  <2>2. \A u \in Tasks : u # t => (pc'[u] \in Asks => pc[u] \in Asks) /\ (pc'[u] = "new" => pc[u] = "new")
    BY <2>1
  <2>3. pc'[t] # "new" /\ (pc'[t] \in Asks => pc[t] \in Asks \/ Balance(t))
    <3>1. CASE Settle(t)
      <4>1. pc'[t] = Resumed[pc[t]] /\ pc[t] \in InStore
        BY <3>1, <1>i DEF Settle, SettleRead, SettleWrite, SettleFetch, Reject, Goto, InStore, Resumed, TypeOK
      <4>. QED
        BY <4>1 DEF Resumed, InStore
    <3>2. CASE Arrive(t)
      BY <3>2, <1>i DEF Arrive, Goto, TypeOK
    <3>3. CASE Run(t) /\ ~Balance(t)
      <4>1. pc[t] # "queued"
        BY <3>3, RunShape DEF Resuming
      <4>2. \A place : Continue(t, place) => Goto(t, place)
        BY DEF Continue
      <4>3. \A result : Conclude(t, result) => Goto(t, "applied") \/ Leave(t)
        BY DEF Conclude
      <4>4. \/ \E place \in {"start", "done", "queued", "enter", "readFrom", "readTo", "writeFrom", "writeTo", "applied"} :
                 Goto(t, place)
            \/ Leave(t)
        BY <4>2, <4>3, <3>3, <1>2 DEF Run, End, Acquire, Woken, Enter, GotFrom, GotTo, WroteFrom,
           WroteTo, Applied, Seen
      <4>. QED
        BY <4>1, <4>4, <1>i, LeavePlaces DEF Goto, TypeOK
    <3>4. CASE Balance(t)
      <4>1. \E place \in Asks : Goto(t, place)
        BY <3>4 DEF Balance
      <4>. QED
        BY <3>4, <4>1, <1>i DEF Goto, TypeOK
    <3>. QED
      BY <3>1, <3>2, <3>3, <3>4
  <2>4. Balance(t) => Call(t)'.op = "balance"
    <3> SUFFICES ASSUME Balance(t) PROVE Call(t)'.op = "balance"
      OBVIOUS
    <3>1. UNCHANGED program /\ callNo' = [callNo EXCEPT ![t] = @ + 1] /\ Upcoming(t).op = "balance"
      BY DEF Balance, Advance
    <3>2. callNo'[t] = callNo[t] + 1
      BY <3>1, <1>i DEF TypeOK
    <3>. QED
      BY <3>1, <3>2 DEF Upcoming, Call
  <2>. QED
    BY <2>2, <2>3, <2>4, <1>c DEF Placed
<1>. QED
  BY <1>1, <1>2

\* How a step of t changes what has landed: its own write does, and its own
\* return makes it part of what is counted.
Landing(t) == SettleWrite(t) /\ pc[t] = "writeTo" /\ pc'[t] = "wroteTo"
Leaving(t) == WroteTo(t) /\ Landed(t) /\ pc[t] = "wroteTo" /\ pc'[t] = "start"

\* Only the task that steps can land a deposit or have it counted.
LEMMA LandedOthers ==
  ASSUME IInv, Owners, Placed, NEW t \in Tasks, Arrive(t) \/ Settle(t) \/ Run(t)
  PROVE  \A u \in Tasks : u # t => (Landed(u)' <=> Landed(u)) /\ (Landed(u) => pc'[u] = pc[u])
<1>i. TypeOK
  BY DEF IInv
<1> SUFFICES ASSUME NEW u \in Tasks, u # t
             PROVE  (Landed(u)' <=> Landed(u)) /\ (Landed(u) => pc'[u] = pc[u])
  OBVIOUS
<1>c. Call(u)' = Call(u) /\ callNo'[u] = callNo[u]
  BY LinesStay, OthersStay
<1>1. CASE Fetched(t)
  <2> DEFINE all == Range(sharers[Line(t).to])
  <2>1. /\ pc[t] = "fetched" /\ pc' = [v \in Tasks |-> IF v \in all THEN "seen" ELSE pc[v]]
        /\ threw' = [v \in Tasks |-> IF v \in all THEN threw[t] ELSE threw[v]]
    BY <1>1 DEF Fetched, Due
  <2>2. u \in all => pc[u] = "sharing"
    BY <2>1, SharersOf
  <2>. QED
    BY <2>1, <2>2, <1>c DEF Landed
<1>2. CASE ~Fetched(t)
  <2>1. pc'[u] = pc[u] \/ (pc[u] = "queued" /\ pc'[u] = "woken")
    BY <1>2, OthersPlaces
  <2>2. UNCHANGED threw \/ \E x : threw' = [threw EXCEPT ![t] = x]
    BY <1>2 DEF Run, Settle, Arrive, SettleRead, SettleWrite, SettleFetch, Reject, End, Acquire, Woken,
       Enter, GotFrom, GotTo, WroteFrom, WroteTo, Applied, Balance, Seen
  <2>3. threw'[u] = threw[u]
    BY <2>2, <1>i DEF TypeOK
  <2>. QED
    BY <2>1, <2>3, <1>c DEF Landed
<1>. QED
  BY <1>1, <1>2

\* A deposit lands with its write and stays landed over its release.
LEMMA LandedOwn ==
  ASSUME IInv, Owners, Placed, NEW t \in Tasks, Arrive(t) \/ Settle(t) \/ Run(t), Landed(t)'
  PROVE  Landing(t) \/ Leaving(t)
<1>i. TypeOK /\ QueueInv /\ Positioned
  BY DEF IInv
<1>g. \A place : Goto(t, place) => pc'[t] = place
  BY <1>i DEF Goto, TypeOK
<1>1. CASE pc'[t] = "wroteTo"
  <2>1. Settle(t) /\ pc[t] = "writeTo"
    BY <1>1, OwnPlace
  <2>2. ~Reject(t)
    <3>1. Reject(t) => threw'[t] = TRUE
      BY <1>i DEF Reject, TypeOK
    <3>. QED
      BY <3>1 DEF Landed
  <2>. QED
    BY <1>1, <2>1, <2>2 DEF Landing, Settle, SettleRead, SettleFetch
<1>2. CASE pc'[t] = "start"
  <2>0. callNo'[t] > 0 /\ Call(t)'.op = "deposit" /\ ~threw'[t]
    BY <1>2 DEF Landed
  <2>c. pc[t] \notin {"start", "applied"} => Call(t)' = Call(t) /\ callNo'[t] = callNo[t]
    BY LinesStay
  <2>1. ~Arrive(t)
    <3> SUFFICES ASSUME Arrive(t) PROVE FALSE
      OBVIOUS
    <3>1. pc[t] = "new" /\ callNo'[t] = callNo[t]
      BY DEF Arrive, localVars
    <3>. QED
      BY <3>1, <2>0 DEF Placed
  <2>2. ~Settle(t)
    BY <1>2, <1>g DEF Settle, SettleRead, SettleWrite, SettleFetch, Reject, Resumed, InStore
  <2>3. ~(End(t) \/ Acquire(t) \/ Woken(t) \/ Enter(t) \/ Balance(t))
    BY <1>2, <1>g DEF End, Acquire, Woken, Enter, Balance
  <2>4. ~Seen(t) /\ ~Fetched(t)
    <3>1. Seen(t) \/ Fetched(t) => pc[t] \in {"seen", "fetched"}
      BY DEF Seen, Fetched, Due
    <3>. QED
      BY <3>1, <2>0, <2>c DEF Placed
  <2>5. ~Applied(t)
    <3> SUFFICES ASSUME Applied(t) PROVE FALSE
      OBVIOUS
    <3>1. Batch(t) /\ UNCHANGED <<program, callNo>>
      BY <1>i DEF Applied, Due, Positioned, OfBatch
    <3>. QED
      BY <3>1, <2>0 DEF Batch, Call
  <2>6. ~(GotFrom(t) \/ GotTo(t) \/ WroteFrom(t))
    <3> SUFFICES ASSUME GotFrom(t) \/ GotTo(t) \/ WroteFrom(t) PROVE FALSE
      OBVIOUS
    <3>1. pc[t] \in {"gotFrom", "gotTo", "wroteFrom"} /\ UNCHANGED threw
      BY DEF GotFrom, GotTo, WroteFrom, Due
    <3>2. ~threw[t] /\ ~Batch(t)
      BY <3>1, <2>0, <2>c DEF Batch
    <3>3. pc[t] = "gotTo"
      BY <3>1, <3>2, <1>i DEF Positioned, OfBatch
    <3>4. GotTo(t)
      BY <3>3 DEF GotFrom, WroteFrom, Due
    <3>5. Goto(t, "writeTo")
      BY <3>2, <3>4 DEF GotTo, Continue
    <3>. QED
      BY <3>5, <1>g, <1>2
  <2>7. WroteTo(t)
    BY <2>1, <2>2, <2>3, <2>4, <2>5, <2>6 DEF Run
  <2>8. pc[t] = "wroteTo" /\ UNCHANGED threw
    BY <2>7 DEF WroteTo, Due
  <2>. QED
    BY <2>7, <2>8, <2>0, <2>c, <1>2 DEF Leaving, Landed
<1>. QED
  BY <1>1, <1>2 DEF Landed

\* The lock passes on only behind a deposit that has landed: its hop is in front.
LEMMA TurnStep ==
  ASSUME IInv, OneJobEach, Owners, Placed, Turn, OneLanded,
         NEW t \in Tasks, Arrive(t) \/ Settle(t) \/ Run(t)
  PROVE  Turn' /\ OneLanded'
<1>i. TypeOK /\ LockInv
  BY DEF IInv
<1>j. OneJobEach' /\ InOrder(t)
  BY JobsStep
<1>1. ASSUME NEW v \in Tasks, NEW u \in Tasks, Landed(v)', pc'[u] \in Holding, u # v
      PROVE  pc'[v] = "start" /\ (pc'[u] = "woken" \/ (pc'[u] = "enter" /\ Ahead(v, u)'))
  <2>1. CASE v # t
    <3>1. Landed(v) /\ pc'[v] = pc[v]
      BY <1>1, <2>1, LandedOthers
    <3>2. CASE u # t /\ pc[u] \in Holding
      <4>1. pc'[u] = pc[u]
        BY <3>2, OthersStay
      <4>2. pc[v] = "start" /\ (pc[u] = "woken" \/ (pc[u] = "enter" /\ Ahead(v, u)))
        BY <3>1, <3>2, <1>1 DEF Turn
      <4>. QED
        BY <4>1, <4>2, <3>1, <2>1, <1>j DEF InOrder
    <3>3. CASE u # t /\ pc[u] \notin Holding
      <4>1. pc'[u] = "woken" /\ pc[t] \in {"gotFrom", "gotTo", "wroteFrom", "wroteTo", "applied"}
        BY <1>1, <3>3, Becoming
      <4>2. pc[t] \in {"woken", "enter"}
        BY <3>1, <4>1, <2>1 DEF Turn, Holding
      <4>. QED
        BY <4>1, <4>2
    <3>4. CASE u = t
      <4>1. pc[v] = "start"
        <5>1. CASE pc[t] \in Holding
          BY <5>1, <3>1, <2>1 DEF Turn
        <5>2. CASE pc[t] \notin Holding
          <6>1. ~held
            BY <1>1, <3>4, <5>2, Becoming
          <6>2. pc[v] # "wroteTo"
            BY <6>1, <1>i DEF LockInv, Holding
          <6>. QED
            BY <6>2, <3>1 DEF Landed
        <5>. QED
          BY <5>1, <5>2
      <4>2. InJobs(v)
        BY <4>1 DEF OneJobEach, Resuming
      <4>3. pc'[t] = "enter"
        <5>1. CASE pc[t] \in Holding
          <6>1. pc[t] = "woken" \/ (pc[t] = "enter" /\ Ahead(v, t))
            BY <5>1, <3>1, <2>1 DEF Turn
          <6>2. pc[t] \in {"woken", "enter"} => Run(t)
            BY DEF Arrive, Settle, SettleRead, SettleWrite, SettleFetch, Reject, InStore
          <6>3. pc[t] = "woken"
            BY <6>1, <6>2, <1>j DEF InOrder
          <6>4. Woken(t)
            BY <6>2, <6>3 DEF Run, End, Acquire, Enter, GotFrom, GotTo, WroteFrom, WroteTo, Applied,
                              Balance, Fetched, Seen, Due
          <6>. QED
            BY <6>4, <1>i DEF Woken, Goto, TypeOK
        <5>2. CASE pc[t] \notin Holding
          BY <1>1, <3>4, <5>2, Becoming
        <5>. QED
          BY <5>1, <5>2
      <4>4. InJobs(t)'
        BY <4>3, <1>j DEF OneJobEach, Resuming
      <4>5. Ahead(v, t)'
        BY <4>2, <4>4, <2>1, <1>j DEF InOrder
      <4>. QED
        BY <4>1, <4>3, <4>5, <3>1, <3>4
    <3>. QED
      BY <3>2, <3>3, <3>4
  <2>2. CASE v = t
    <3>1. pc[t] \in Holding /\ u # t
      BY <2>2, <1>1, LandedOwn DEF Landing, Leaving, Holding
    <3>2. pc[u] \notin Holding
      BY <3>1, <1>i DEF LockInv, MutualExclusion
    <3>3. pc'[u] = "woken" /\ pc[t] \in {"gotFrom", "gotTo", "wroteFrom", "wroteTo", "applied"}
      BY <1>1, <3>1, <3>2, Becoming
    <3>4. Leaving(t)
      BY <2>2, <1>1, <3>3, LandedOwn DEF Landing
    <3>. QED
      BY <2>2, <3>3, <3>4 DEF Leaving
  <2>. QED
    BY <2>1, <2>2
<1>2. ASSUME NEW u \in Tasks, u # t, Landed(u)', Landed(t)'
      PROVE  FALSE
  <2>1. Landed(u)
    BY <1>2, LandedOthers
  <2>2. CASE Landing(t)
    <3>1. pc[t] = "writeTo"
      BY <2>2 DEF Landing
    <3>. QED
      BY <2>1, <3>1, <1>2 DEF Turn, Holding
  <2>3. CASE Leaving(t)
    BY <2>1, <2>3, <1>2 DEF Leaving, OneLanded
  <2>. QED
    BY <2>2, <2>3, <1>2, LandedOwn
<1>3. \A u, v \in Tasks : u # t /\ v # t /\ Landed(u)' /\ Landed(v)' => u = v
  BY LandedOthers DEF OneLanded
<1>4. OneLanded'
  BY <1>2, <1>3 DEF OneLanded
<1>. QED
  BY <1>1, <1>4 DEF Turn

-----------------------------------------------------------------------------
\* What a step counts: the deposit of the task that goes on, if it made one.
LEMMA CreditedStep ==
  ASSUME IInv, NEW t \in Tasks, Arrive(t) \/ Settle(t) \/ Run(t)
  PROVE  \/ UNCHANGED credited /\ ~(Landed(t) /\ pc[t] = "start")
         \/ /\ Landed(t) /\ pc[t] = "start" /\ Run(t)
            /\ credited' = [credited EXCEPT ![Line(t).to] = @ + Line(t).amount]
<1>1. CASE End(t) \/ Acquire(t) \/ Balance(t)
  <2>1. pc[t] = "start" /\ Returned(t) /\ Run(t)
    BY <1>1 DEF End, Acquire, Balance, Due, Run
  <2>. QED
    BY <2>1 DEF Returned, Landed
<1>2. CASE ~(End(t) \/ Acquire(t) \/ Balance(t))
  <2>1. UNCHANGED credited
    BY <1>2 DEF Run, Settle, Arrive, SettleRead, SettleWrite, SettleFetch, Reject, Woken,
       Enter, GotFrom, GotTo, WroteFrom, WroteTo, Applied, Fetched, Seen, seenVars
  <2>2. pc[t] # "start"
    BY <1>2 DEF Run, Settle, Arrive, SettleRead, SettleWrite, SettleFetch, Reject, Woken,
       Enter, GotFrom, GotTo, WroteFrom, WroteTo, Applied, Fetched, Seen, Due, InStore
  <2>. QED
    BY <2>1, <2>2
<1>. QED
  BY <1>1, <1>2

\* A line of the program is not of an account that is only credited.
LEMMA CreditedLine ==
  ASSUME IInv, NEW t \in Tasks, callNo[t] > 0, NEW a \in Accounts, OnlyCredited(a)
  PROVE  Line(t).from # a
<1> DEFINE s == program
<1>1. callNo[t] \in 1..Len(s[t]) /\ lineNo[t] \in 1..Len(s[t][callNo[t]].lines)
  BY DEF IInv, TypeOK, Positioned, Call
<1>. QED
  BY <1>1 DEF OnlyCredited, Line, Call

\* An account that is only credited has never less than before.
LEMMA BalancesStep ==
  ASSUME IInv, NEW t \in Tasks, Arrive(t) \/ Settle(t) \/ Run(t), NEW a \in Accounts, OnlyCredited(a)
  PROVE  /\ OrZero(balances[a]) \in Int /\ OrZero(balances'[a]) \in Int
         /\ OrZero(balances'[a]) >= OrZero(balances[a])
         /\ Landing(t) /\ Line(t).to = a =>
              OrZero(balances'[a]) = OrZero(balances[a]) + Line(t).amount
<1>i. TypeOK /\ Positioned /\ DataInv
  BY DEF IInv
<1>z. OrZero(balances[a]) \in Int
  BY <1>i, BalanceType
<1>1. CASE ~SettleWrite(t)
  <2>1. UNCHANGED balances
    BY <1>1 DEF Run, Settle, Arrive, SettleRead, SettleFetch, Reject, End, Acquire, Woken,
       Enter, GotFrom, GotTo, WroteFrom, WroteTo, Applied, Balance, Fetched, Seen
  <2>. QED
    BY <2>1, <1>1, <1>z DEF Landing
<1>2. CASE SettleWrite(t)
  <2>1. callNo[t] > 0 /\ pc[t] \in {"writeFrom", "writeTo"}
    BY <1>2, <1>i DEF SettleWrite, Positioned
  <2>2. /\ Line(t).to \in Accounts /\ Line(t).amount \in Nat
        /\ Line(t).from = NoAccount <=> ~Batch(t)
        /\ Batch(t) => Line(t).from \in Accounts
    BY <2>1, <1>i, LineType
  <2>3. Line(t).from # a
    BY <2>1, CreditedLine
  <2>4. CASE pc[t] = "writeFrom"
    <3>1. balances' = [balances EXCEPT ![Line(t).from] = source[t] - Line(t).amount]
      BY <1>2, <2>4 DEF SettleWrite
    <3>2. balances'[a] = balances[a]
      BY <3>1, <2>3, <1>i DEF TypeOK
    <3>. QED
      BY <3>2, <2>4, <1>z DEF Landing
  <2>5. CASE pc[t] = "writeTo"
    <3>1. balances' = [balances EXCEPT ![Line(t).to] = target[t] + Line(t).amount]
      BY <1>2, <2>5 DEF SettleWrite
    <3>2. CASE Line(t).to # a
      <4>1. balances'[a] = balances[a]
        BY <3>1, <3>2, <1>i DEF TypeOK
      <4>. QED
        BY <4>1, <3>2, <1>z
    <3>3. CASE Line(t).to = a
      <4>1. target[t] = OrZero(balances[a])
        BY <2>3, <2>5, <3>3, <1>i DEF DataInv, Current, TargetRead
      <4>2. balances'[a] = OrZero(balances[a]) + Line(t).amount
        BY <3>1, <3>3, <4>1, <1>i DEF TypeOK
      <4>3. OrZero(balances'[a]) = OrZero(balances[a]) + Line(t).amount
        BY <4>2, <1>z, <2>2, NameAssumption DEF OrZero
      <4>. QED
        BY <4>3, <1>z, <2>2
    <3>. QED
      BY <3>2, <3>3
  <2>. QED
    BY <2>1, <2>4, <2>5
<1>. QED
  BY <1>1, <1>2

\* What was counted is a number.
LEMMA BeforeType ==
  ASSUME IInv, NEW a \in Accounts
  PROVE  Before(a) \in Int /\ credited[a] \in Nat /\ OrZero(Opening[a]) \in Int
<1>1. credited[a] \in Nat
  BY DEF IInv, TypeOK
<1>2. OrZero(Opening[a]) \in Int
  BY NameAssumption DEF OrZero
<1>. QED
  BY <1>1, <1>2 DEF Before

\* The money counted on an account grows by the deposit that returns.
LEMMA BeforeStep ==
  ASSUME IInv, NEW t \in Tasks, Arrive(t) \/ Settle(t) \/ Run(t), NEW a \in Accounts
  PROVE  /\ Before(a)' = OrZero(Opening[a]) + credited'[a]
         /\ Before(a)' >= Before(a) /\ Before(a)' \in Int /\ credited'[a] >= credited[a] /\ credited'[a] \in Nat
         /\ \/ Before(a)' = Before(a)
            \/ /\ Landed(t) /\ pc[t] = "start" /\ Run(t) /\ Line(t).to = a
               /\ Before(a)' = Before(a) + Line(t).amount
<1>i. TypeOK /\ Positioned
  BY DEF IInv
<1>1. Before(a) \in Int /\ credited[a] \in Nat /\ OrZero(Opening[a]) \in Int
  BY BeforeType
<1>2. Before(a)' = OrZero(Opening[a]) + credited'[a]
  BY DEF Before
<1>3. CASE UNCHANGED credited
  BY <1>1, <1>2, <1>3 DEF Before
<1>4. CASE /\ Landed(t) /\ pc[t] = "start" /\ Run(t)
           /\ credited' = [credited EXCEPT ![Line(t).to] = @ + Line(t).amount]
  <2>1. callNo[t] > 0
    BY <1>4 DEF Landed
  <2>2. Line(t).amount \in Nat /\ Line(t).to \in Accounts
    BY <2>1, <1>i, LineType
  <2>3. credited'[a] = IF Line(t).to = a THEN credited[a] + Line(t).amount ELSE credited[a]
    BY <1>4, <2>2, <1>i DEF TypeOK
  <2>. QED
    BY <1>1, <1>2, <1>4, <2>2, <2>3 DEF Before
<1>. QED
  BY <1>3, <1>4, CreditedStep

\* A deposit that has landed has an account and an amount.
LEMMA LandedAmount ==
  ASSUME IInv, NEW t \in Tasks, Landed(t)
  PROVE  Line(t).to \in Accounts /\ Line(t).amount \in Nat
<1>1. callNo[t] > 0
  BY DEF Landed, IInv, Positioned
<1>. QED
  BY <1>1, LineType DEF IInv

\* The store has all that was counted, and what has landed on top.
LEMMA CountedStep ==
  ASSUME IInv, Owners, Placed, Turn, OneLanded, Counted,
         NEW t \in Tasks, Arrive(t) \/ Settle(t) \/ Run(t)
  PROVE  Counted'
<1> SUFFICES ASSUME NEW a \in Accounts, OnlyCredited(a)
             PROVE  /\ Before(a)' <= OrZero(balances'[a])
                    /\ \A u \in Tasks : Landed(u)' /\ Line(u)'.to = a =>
                         Before(a)' + Line(u)'.amount <= OrZero(balances'[a])
  BY LinesStay DEF Counted
<1>b. /\ OrZero(balances[a]) \in Int /\ OrZero(balances'[a]) \in Int
      /\ OrZero(balances'[a]) >= OrZero(balances[a])
      /\ Landing(t) /\ Line(t).to = a => OrZero(balances'[a]) = OrZero(balances[a]) + Line(t).amount
  BY BalancesStep
<1>c. /\ Before(a) \in Int /\ Before(a)' \in Int
      /\ \/ Before(a)' = Before(a)
         \/ /\ Landed(t) /\ pc[t] = "start" /\ Run(t) /\ Line(t).to = a
            /\ Before(a)' = Before(a) + Line(t).amount
  BY BeforeType, BeforeStep
<1>d. /\ Before(a) <= OrZero(balances[a])
      /\ \A u \in Tasks : Landed(u) /\ Line(u).to = a => Before(a) + Line(u).amount <= OrZero(balances[a])
  BY DEF Counted
<1>l. Landed(t)' => Line(t)' = Line(t)
  BY LinesStay, LandedOwn DEF Landing, Leaving
<1>1. Before(a)' <= OrZero(balances'[a])
  BY <1>b, <1>c, <1>d
<1>2. ASSUME NEW u \in Tasks, Landed(u)', Line(u)'.to = a
      PROVE  Before(a)' + Line(u)'.amount <= OrZero(balances'[a])
  <2>1. CASE u # t
    <3>1. Landed(u) /\ Line(u)' = Line(u)
      BY <1>2, <2>1, LandedOthers, LinesStay
    <3>2. Before(a)' = Before(a)
      BY <1>c, <2>1, <3>1 DEF OneLanded
    <3>3. Line(u).amount \in Nat
      BY <3>1, LandedAmount
    <3>. QED
      BY <3>1, <3>2, <3>3, <1>2, <1>b, <1>c, <1>d
  <2>2. CASE u = t /\ Landing(t)
    <3>1. Before(a)' = Before(a)
      BY <1>c, <2>2 DEF Landing
    <3>2. Line(t)' = Line(t) /\ Line(t).amount \in Nat
      <4>1. callNo[t] > 0
        BY <2>2 DEF IInv, Positioned, Landing
      <4>. QED
        BY <4>1, <1>l, <1>2, <2>2, LineType DEF IInv
    <3>. QED
      BY <3>1, <3>2, <1>2, <2>2, <1>b, <1>c, <1>d
  <2>3. CASE u = t /\ Leaving(t)
    <3>1. Before(a)' = Before(a)
      BY <1>c, <2>3 DEF Leaving
    <3>2. Line(t)' = Line(t) /\ Line(t).amount \in Nat /\ Landed(t)
      BY <2>3, <1>l, <1>2, LandedAmount DEF Leaving
    <3>. QED
      BY <3>1, <3>2, <1>2, <2>3, <1>b, <1>c, <1>d
  <2>. QED
    BY <2>1, <2>2, <2>3, <1>2, LandedOwn
<1>. QED
  BY <1>1, <1>2

\* What a step does to those who ask for a balance: t's own request is answered
\* or begins, everybody's shared one is answered by its owner.
Sharing(t, u) == Fetched(t) /\ u \in Range(sharers[Line(t).to])

\* Other readers than those being answered stay as they are.
LEMMA ReadersStay ==
  ASSUME IInv, Owners, NEW t \in Tasks, Arrive(t) \/ Settle(t) \/ Run(t),
         NEW u \in Tasks, u # t, ~Sharing(t, u)
  PROVE  /\ Reading(u)' <=> Reading(u)
         /\ Reading(u) => /\ pc'[u] = pc[u] /\ threw'[u] = threw[u]
                          /\ value'[u] = value[u] /\ floor'[u] = floor[u]
<1>i. TypeOK
  BY DEF IInv
<1>1. CASE Fetched(t)
  <2>1. /\ pc' = [v \in Tasks |-> IF v \in Range(sharers[Line(t).to]) THEN "seen" ELSE pc[v]]
        /\ value' = [v \in Tasks |-> IF v \in Range(sharers[Line(t).to]) THEN value[t] ELSE value[v]]
        /\ threw' = [v \in Tasks |-> IF v \in Range(sharers[Line(t).to]) THEN threw[t] ELSE threw[v]]
        /\ UNCHANGED floor
    BY <1>1 DEF Fetched, seenVars
  <2>2. u \notin Range(sharers[Line(t).to])
    BY <1>1 DEF Sharing
  <2>. QED
    BY <2>1, <2>2 DEF Reading
<1>2. CASE ~Fetched(t)
  <2>1. pc'[u] = pc[u] \/ (pc[u] = "queued" /\ pc'[u] = "woken")
    BY <1>2, OthersPlaces
  <2>2. UNCHANGED threw \/ \E x : threw' = [threw EXCEPT ![t] = x]
    BY <1>2 DEF Run, Settle, Arrive, SettleRead, SettleWrite, SettleFetch, Reject, End, Acquire, Woken,
       Enter, GotFrom, GotTo, WroteFrom, WroteTo, Applied, Balance, Seen
  <2>3. UNCHANGED value \/ \E x : value' = [value EXCEPT ![t] = x]
    BY <1>2 DEF Run, Settle, Arrive, SettleRead, SettleWrite, SettleFetch, Reject, End, Acquire, Woken,
       Enter, GotFrom, GotTo, WroteFrom, WroteTo, Applied, Balance, Seen, readVars
  <2>4. UNCHANGED floor \/ \E x : floor' = [floor EXCEPT ![t] = x]
    BY <1>2 DEF Run, Settle, Arrive, SettleRead, SettleWrite, SettleFetch, Reject, End, Acquire, Woken,
       Enter, GotFrom, GotTo, WroteFrom, WroteTo, Applied, Balance, Seen, seenVars
  <2>5. threw'[u] = threw[u] /\ value'[u] = value[u] /\ floor'[u] = floor[u]
    BY <2>2, <2>3, <2>4, <1>i DEF TypeOK
  <2>. QED
    BY <2>1, <2>5 DEF Reading
<1>. QED
  BY <1>1, <1>2

\* An answer reaches those who share it as it is.
LEMMA SharingStep ==
  ASSUME IInv, Owners, NEW t \in Tasks, NEW u \in Tasks, Sharing(t, u)
  PROVE  /\ pc[t] = "fetched" /\ reads[Line(t).to] = t /\ Line(u).to = Line(t).to
         /\ u = t \/ pc[u] = "sharing"
         /\ Line(u)' = Line(u) /\ pc'[u] = "seen" /\ value'[u] = value[t] /\ threw'[u] = threw[t]
         /\ UNCHANGED <<floor, balances, credited, reads>>
<1>1. /\ pc[t] = "fetched" /\ UNCHANGED <<program, callNo, lineNo, floor, balances, credited, reads>>
      /\ pc'[u] = "seen" /\ value'[u] = value[t] /\ threw'[u] = threw[t]
  BY DEF Sharing, Fetched, Due, localVars, seenVars
<1>2. Line(u).to = Line(t).to /\ (u = t \/ pc[u] = "sharing")
  BY <1>1, SharersOf DEF Sharing
<1>3. reads[Line(t).to] = t
  BY <1>1 DEF Owners
<1>. QED
  BY <1>1, <1>2, <1>3 DEF Line, Call

\* The one whose read has been started or answered comes on by its own step.
LEMMA ReaderOwn ==
  ASSUME IInv, Owners, NEW t \in Tasks, Arrive(t) \/ Settle(t) \/ Run(t), Reading(t)'
  PROVE  \/ Sharing(t, t)
         \/ /\ SettleFetch(t) \/ (Reject(t) /\ threw'[t])
            /\ pc[t] = "fetching" /\ pc'[t] = "fetched"
            /\ Line(t)' = Line(t) /\ floor'[t] = floor[t] /\ UNCHANGED <<balances, credited, reads>>
         \/ Balance(t)
<1>i. TypeOK /\ QueueInv
  BY DEF IInv
<1>1. CASE Settle(t)
  <2>1. pc'[t] = Resumed[pc[t]] /\ pc[t] \in InStore
    BY <1>1, <1>i DEF Settle, SettleRead, SettleWrite, SettleFetch, Reject, Goto, InStore, Resumed, TypeOK
  <2>2. pc[t] = "fetching" /\ pc'[t] = "fetched"
    BY <2>1 DEF Reading, Resumed, InStore
  <2>3. SettleFetch(t) \/ (Reject(t) /\ threw'[t])
    BY <1>1, <2>2, <1>i DEF Settle, SettleRead, SettleWrite, Reject, TypeOK
  <2>4. UNCHANGED <<floor, balances, credited, reads>>
    BY <2>3 DEF SettleFetch, Reject, seenVars, readVars
  <2>5. Line(t)' = Line(t)
    BY <2>2, LinesStay
  <2>. QED
    BY <2>2, <2>3, <2>4, <2>5
<1>2. CASE Arrive(t)
  BY <1>2, <1>i DEF Arrive, Goto, TypeOK, Reading
<1>3. CASE Fetched(t)
  BY <1>3, SharersOf DEF Fetched, Due, Sharing
<1>4. CASE Run(t) /\ ~Balance(t) /\ ~Fetched(t)
  <2>1. pc[t] # "queued"
    BY <1>4, RunShape DEF Resuming
  <2>2. \A place : Continue(t, place) => Goto(t, place)
    BY DEF Continue
  <2>3. \A result : Conclude(t, result) => Goto(t, "applied") \/ Leave(t)
    BY DEF Conclude
  <2>4. \/ \E place \in {"start", "done", "queued", "enter", "readFrom", "readTo", "writeFrom", "writeTo", "applied"} :
             Goto(t, place)
        \/ Leave(t)
    BY <2>2, <2>3, <1>4 DEF Run, End, Acquire, Woken, Enter, GotFrom, GotTo, WroteFrom,
       WroteTo, Applied, Seen
  <2>5. ~Reading(t)'
    BY <2>1, <2>4, <1>i, LeavePlaces DEF Goto, TypeOK, Reading
  <2>. QED
    BY <2>5
<1>. QED
  BY <1>1, <1>2, <1>3, <1>4

\* A reader asks for an account.
LEMMA ReadingLine ==
  ASSUME IInv, NEW t \in Tasks, Reading(t)
  PROVE  Line(t).to \in Accounts /\ value[t] \in Int /\ floor[t] \in Nat
<1>1. callNo[t] > 0
  BY DEF Reading, IInv, Positioned
<1>. QED
  BY <1>1, LineType DEF IInv, TypeOK

\* A balance call that is answered at once takes its answer from an owner.
LEMMA BalanceSeen ==
  ASSUME IInv, Owners, NEW t \in Tasks, Balance(t), pc'[t] \in {"fetched", "seen"}
  PROVE  \E v \in Tasks :
           /\ v # t /\ pc[v] = "seen" /\ Line(v).to = Line(t)'.to /\ reads[Line(v).to] = v
           /\ value'[t] = value[v] /\ threw'[t] = threw[v] /\ UNCHANGED <<reads, balances>>
<1> DEFINE a == Upcoming(t).lines[1].to
           v == reads[a]
<1>i. TypeOK
  BY DEF IInv
<1>1. a \in Accounts /\ pc[t] = "start" /\ Line(t)'.to = a
  BY BalanceLine
<1>2. /\ v # NoTask /\ pc[v] \notin {"fetching", "fetched"} /\ UNCHANGED <<reads, balances>>
      /\ value' = [value EXCEPT ![t] = value[v]] /\ threw' = [threw EXCEPT ![t] = threw[v]]
  BY <1>i DEF Balance, Goto, TypeOK
<1>3. v \in Tasks
  BY <1>1, <1>2, <1>i DEF TypeOK
<1>4. pc[v] = "seen" /\ Line(v).to = a /\ v # t
  BY <1>1, <1>2, <1>3 DEF Owners
<1>5. value'[t] = value[v] /\ threw'[t] = threw[v]
  BY <1>2, <1>i DEF TypeOK
<1>. QED
  BY <1>1, <1>2, <1>3, <1>4, <1>5

\* The map of reads gets no other owner than the one that steps.
LEMMA ReadsStep ==
  ASSUME IInv, NEW t \in Tasks, Arrive(t) \/ Settle(t) \/ Run(t),
         NEW v \in Tasks, v # t, NEW a \in Accounts, reads'[a] = v
  PROVE  reads[a] = v
<1>1. CASE Seen(t)
  BY <1>1, NameAssumption DEF Seen
<1>2. CASE Balance(t)
  BY <1>2 DEF Balance, IInv, TypeOK
<1>3. CASE ~Seen(t) /\ ~Balance(t)
  <2>1. UNCHANGED reads
    BY <1>3 DEF Run, Settle, Arrive, SettleRead, SettleWrite, SettleFetch, Reject, End, Acquire,
       Woken, Enter, GotFrom, GotTo, WroteFrom, WroteTo, Applied, Fetched, readVars
  <2>. QED
    BY <2>1
<1>. QED
  BY <1>1, <1>2, <1>3

\* What was counted when a balance was asked for is counted since.
LEMMA AskedStep ==
  ASSUME IInv, Owners, Asked, NEW t \in Tasks, Arrive(t) \/ Settle(t) \/ Run(t)
  PROVE  Asked'
<1> SUFFICES ASSUME NEW u \in Tasks, Reading(u)'
             PROVE  floor'[u] <= credited'[Line(u)'.to]
  BY DEF Asked
<1>1. CASE Sharing(t, u)
  <2>1. Reading(u) /\ Line(u)' = Line(u) /\ UNCHANGED <<floor, credited>>
    BY <1>1, SharingStep DEF Reading
  <2>. QED
    BY <2>1 DEF Asked
<1>2. CASE u # t /\ ~Sharing(t, u)
  <2>1. Reading(u) /\ floor'[u] = floor[u] /\ Line(u)' = Line(u)
    BY <1>2, ReadersStay, LinesStay
  <2>2. Line(u).to \in Accounts /\ floor[u] \in Nat
    BY <2>1, ReadingLine
  <2>3. /\ credited'[Line(u).to] >= credited[Line(u).to]
        /\ credited[Line(u).to] \in Nat /\ credited'[Line(u).to] \in Nat
    BY <2>2, BeforeStep, BeforeType
  <2>4. floor[u] <= credited[Line(u).to]
    BY <2>1 DEF Asked
  <2>. QED
    BY <2>1, <2>2, <2>3, <2>4
<1>3. CASE u = t /\ ~Sharing(t, t)
  <2>1. CASE Balance(t)
    <3>1. floor' = [floor EXCEPT ![t] = credited'[Upcoming(t).lines[1].to]]
      BY <2>1 DEF Balance
    <3>2. floor'[t] = credited'[Upcoming(t).lines[1].to]
      BY <3>1 DEF IInv, TypeOK
    <3>3. Upcoming(t).lines[1].to \in Accounts /\ Line(t)'.to = Upcoming(t).lines[1].to
      BY <2>1, BalanceLine
    <3>4. credited'[Upcoming(t).lines[1].to] \in Nat
      BY <3>3, BeforeStep
    <3>. QED
      BY <3>2, <3>3, <3>4, <1>3
  <2>2. CASE ~Balance(t)
    <3>1. /\ pc[t] = "fetching" /\ Line(t)' = Line(t) /\ floor'[t] = floor[t] /\ UNCHANGED credited
      BY <2>2, <1>3, ReaderOwn
    <3>. QED
      BY <3>1, <1>3 DEF Asked, Reading
  <2>. QED
    BY <2>1, <2>2
<1>. QED
  BY <1>1, <1>2, <1>3

\* What is read from the store, or handed on, is never more than the store has.
LEMMA KnownStep ==
  ASSUME IInv, Owners, Known, NEW t \in Tasks, Arrive(t) \/ Settle(t) \/ Run(t)
  PROVE  Known'
<1> SUFFICES ASSUME NEW u \in Tasks, pc'[u] \in {"fetched", "seen"}, ~threw'[u], OnlyCredited(Line(u).to)'
             PROVE  value'[u] <= OrZero(balances'[Line(u)'.to])
  BY DEF Known, Answered
<1>a. PICK a : a = Line(u)'.to
  OBVIOUS
<1>o. OnlyCredited(a)
  BY <1>a, OthersStay DEF OnlyCredited
<1>r. Reading(u)'
  BY DEF Reading
<1>1. CASE Sharing(t, u)
  <2>1. /\ pc[t] = "fetched" /\ Line(u)' = Line(u) /\ Line(u).to = Line(t).to /\ UNCHANGED balances
        /\ value'[u] = value[t] /\ threw'[u] = threw[t]
    BY <1>1, SharingStep
  <2>. QED
    BY <2>1, <1>a, <1>o DEF Known, Answered
<1>2. CASE u # t /\ ~Sharing(t, u)
  <2>1. /\ Reading(u) /\ pc'[u] = pc[u] /\ value'[u] = value[u] /\ threw'[u] = threw[u]
        /\ Line(u)' = Line(u)
    BY <1>r, <1>2, ReadersStay, LinesStay
  <2>2. Line(u).to \in Accounts /\ value[u] \in Int
    BY <2>1, ReadingLine
  <2>3. value[u] <= OrZero(balances[Line(u).to])
    BY <2>1, <1>a, <1>o DEF Known, Answered
  <2>4. /\ OrZero(balances[Line(u).to]) \in Int /\ OrZero(balances'[Line(u).to]) \in Int
        /\ OrZero(balances'[Line(u).to]) >= OrZero(balances[Line(u).to])
    BY <2>1, <2>2, <1>a, <1>o, BalancesStep
  <2>. QED
    BY <2>1, <2>2, <2>3, <2>4
<1>3. CASE u = t /\ ~Sharing(t, t) /\ Balance(t)
  <2>1. PICK v \in Tasks :
           /\ v # t /\ pc[v] = "seen" /\ Line(v).to = Line(t)'.to /\ reads[Line(v).to] = v
           /\ value'[t] = value[v] /\ threw'[t] = threw[v] /\ UNCHANGED <<reads, balances>>
    BY <1>3, BalanceSeen
  <2>2. ~threw[v] /\ OnlyCredited(Line(v).to)
    BY <2>1, <1>a, <1>o, <1>3
  <2>3. value[v] <= OrZero(balances[Line(v).to])
    BY <2>1, <2>2 DEF Known, Answered
  <2>. QED
    BY <2>1, <2>3, <1>3
<1>4. CASE u = t /\ ~Sharing(t, t) /\ ~Balance(t)
  <2>1. /\ SettleFetch(t) \/ (Reject(t) /\ threw'[t])
        /\ pc[t] = "fetching" /\ Line(t)' = Line(t) /\ UNCHANGED balances
    BY <1>r, <1>4, ReaderOwn
  <2>2. SettleFetch(t)
    BY <2>1, <1>4
  <2>3. value'[t] = OrZero(balances[Line(t).to])
    BY <2>2 DEF SettleFetch, IInv, TypeOK
  <2>4. OrZero(balances[Line(t).to]) \in Int
    <3>1. Line(t).to \in Accounts
      BY <2>1, ReadingLine DEF Reading
    <3>. QED
      BY <3>1, BalanceType DEF IInv
  <2>. QED
    BY <2>1, <2>3, <2>4, <1>4
<1>. QED
  BY <1>1, <1>2, <1>3, <1>4

\* When a deposit is counted, an owner that is not cleared yet has it.
LEMMA FreshBefore ==
  ASSUME IInv, OneJobEach, Owners, Fresh, NEW t \in Tasks, Arrive(t) \/ Settle(t) \/ Run(t),
         NEW v \in Tasks, v # t, Owning(v), NEW a \in Accounts, Line(v).to = a
  PROVE  Before(a)' <= value[v]
<1>1. Before(a) <= value[v]
  BY DEF Fresh
<1>2. CASE Before(a)' = Before(a)
  BY <1>1, <1>2
<1>3. CASE /\ Landed(t) /\ pc[t] = "start" /\ Run(t) /\ Line(t).to = a
           /\ Before(a)' = Before(a) + Line(t).amount
  <2>1. \/ Before(a) + Line(t).amount <= value[v]
        \/ pc[t] = "wroteTo"
        \/ Ahead(v, t)
    BY <1>3 DEF Fresh
  <2>2. ~Ahead(v, t)
    BY <1>3, JobsStep DEF InOrder
  <2>. QED
    BY <2>1, <2>2, <1>3
<1>. QED
  BY <1>2, <1>3, BeforeStep

\* An owner after the step was one before, or has just been answered.
LEMMA OwningStep ==
  ASSUME IInv, Owners, NEW t \in Tasks, Arrive(t) \/ Settle(t) \/ Run(t), NEW v \in Tasks, Owning(v)'
  PROVE  /\ Line(v)' = Line(v) /\ Line(v).to \in Accounts /\ OnlyCredited(Line(v).to)
         /\ \/ v # t /\ Owning(v) /\ pc'[v] = pc[v] /\ value'[v] = value[v]
            \/ /\ v = t /\ Sharing(t, t) /\ Owning(t) /\ pc[t] = "fetched" /\ pc'[t] = "seen"
               /\ value'[t] = value[t] /\ UNCHANGED credited
            \/ /\ v = t /\ SettleFetch(t) /\ pc[t] = "fetching" /\ pc'[t] = "fetched"
               /\ value'[t] = OrZero(balances[Line(t).to]) /\ UNCHANGED <<credited, balances>>
<1>a. PICK a : a = Line(v)'.to
  OBVIOUS
<1>0. pc'[v] \in {"fetched", "seen"} /\ reads'[a] = v /\ ~threw'[v]
  BY <1>a DEF Owning
<1>r. Reading(v)'
  BY <1>0 DEF Reading
<1>o. OnlyCredited(a)
  <2>1. OnlyCredited(Line(v).to)'
    BY DEF Owning
  <2>. QED
    BY <2>1, <1>a, OthersStay DEF OnlyCredited
<1>1. CASE Sharing(t, v)
  <2>1. /\ pc[t] = "fetched" /\ reads[Line(t).to] = t /\ Line(v).to = Line(t).to /\ pc'[v] = "seen"
        /\ Line(v)' = Line(v) /\ value'[v] = value[t] /\ threw'[v] = threw[t] /\ UNCHANGED <<credited, reads>>
    BY <1>1, SharingStep
  <2>2. v = t
    BY <2>1, <1>0, <1>a
  <2>3. Line(t).to \in Accounts
    BY <2>1, ReadingLine DEF Reading
  <2>. QED
    BY <2>1, <2>2, <2>3, <1>0, <1>1, <1>a, <1>o DEF Owning
<1>2. CASE v # t /\ ~Sharing(t, v)
  <2>1. /\ Reading(v) /\ pc'[v] = pc[v] /\ value'[v] = value[v] /\ threw'[v] = threw[v]
        /\ Line(v)' = Line(v)
    BY <1>r, <1>2, ReadersStay, LinesStay
  <2>2. Line(v).to \in Accounts
    BY <2>1, ReadingLine
  <2>3. reads[Line(v).to] = v
    BY <2>1, <2>2, <1>0, <1>2, <1>a, ReadsStep
  <2>. QED
    BY <2>1, <2>2, <2>3, <1>0, <1>2, <1>a, <1>o DEF Owning
<1>3. CASE v = t /\ ~Sharing(t, t)
  <2>1. ~Balance(t)
    <3> SUFFICES ASSUME Balance(t) PROVE FALSE
      OBVIOUS
    <3>1. PICK w \in Tasks : w # t /\ Line(w).to = Line(t)'.to /\ reads[Line(w).to] = w /\ UNCHANGED reads
      BY <1>0, <1>3, BalanceSeen
    <3>. QED
      BY <3>1, <1>0, <1>3, <1>a
  <2>2. /\ SettleFetch(t) \/ (Reject(t) /\ threw'[t])
        /\ pc[t] = "fetching" /\ pc'[t] = "fetched" /\ Line(t)' = Line(t) /\ UNCHANGED <<balances, credited>>
    BY <1>r, <1>3, <2>1, ReaderOwn
  <2>3. SettleFetch(t)
    BY <2>2, <1>0, <1>3
  <2>4. value'[t] = OrZero(balances[Line(t).to])
    BY <2>3 DEF SettleFetch, IInv, TypeOK
  <2>5. Line(t).to \in Accounts
    BY <2>2, ReadingLine DEF Reading
  <2>. QED
    BY <2>2, <2>3, <2>4, <2>5, <1>3, <1>a, <1>o
<1>. QED
  BY <1>1, <1>2, <1>3

\* An owner's answer has all that is counted as long as it can be handed on: a deposit
\* that lands after the read is counted behind the owner's own hop.
LEMMA FreshStep ==
  ASSUME IInv, OneJobEach, Owners, Placed, Turn, OneLanded, Counted, Fresh,
         NEW t \in Tasks, Arrive(t) \/ Settle(t) \/ Run(t)
  PROVE  Fresh'
<1>j. OneJobEach' /\ InOrder(t)
  BY JobsStep
<1>1. ASSUME NEW v \in Tasks, Owning(v)', NEW a \in Accounts, Line(v).to = a
      PROVE  Before(a)' <= value'[v]
  <2>0. OnlyCredited(a)
    BY <1>1, OwningStep
  <2>1. CASE v # t /\ Owning(v) /\ value'[v] = value[v]
    BY <1>1, <2>1, FreshBefore
  <2>2. CASE v = t /\ Owning(t) /\ value'[t] = value[t] /\ UNCHANGED credited
    BY <1>1, <2>2 DEF Fresh, Before
  <2>3. CASE v = t /\ value'[t] = OrZero(balances[Line(t).to]) /\ UNCHANGED credited
    <3>1. Before(a) <= OrZero(balances[a])
      BY <2>0 DEF Counted
    <3>. QED
      BY <1>1, <2>3, <3>1 DEF Before
  <2>. QED
    BY <1>1, <2>1, <2>2, <2>3, OwningStep
<1>2. ASSUME NEW v \in Tasks, NEW u \in Tasks, Owning(v)', Landed(u)',
             NEW a \in Accounts, Line(v).to = a, Line(u)'.to = a
      PROVE  \/ Before(a)' + Line(u)'.amount <= value'[v]
             \/ pc'[u] = "wroteTo" /\ (pc'[v] = "fetched" => Ahead(v, u)')
             \/ pc'[u] = "start" /\ pc'[v] = "seen" /\ Ahead(v, u)'
  <2>0. OnlyCredited(a)
    BY <1>2, OwningStep
  <2>1. CASE v = t /\ Sharing(t, t)
    <3>1. /\ Owning(t) /\ pc[t] = "fetched" /\ pc'[t] = "seen" /\ value'[t] = value[t] /\ UNCHANGED credited
      <4>1. pc[t] = "fetched"
        BY <2>1, SharingStep
      <4>. QED
        BY <1>2, <2>1, <4>1, OwningStep
    <3>2. u # t
      BY <1>2, <2>1, <3>1 DEF Landed
    <3>3. Landed(u) /\ pc'[u] = pc[u] /\ Line(u)' = Line(u)
      BY <1>2, <3>2, LandedOthers, LinesStay
    <3>4. \/ Before(a) + Line(u).amount <= value[t]
          \/ pc[u] = "wroteTo"
      BY <1>2, <2>1, <3>1, <3>3 DEF Fresh
    <3>5. Before(a)' = Before(a)
      BY <3>1 DEF Before
    <3>. QED
      BY <2>1, <3>1, <3>3, <3>4, <3>5
  <2>2. CASE v = t /\ ~Sharing(t, t)
    <3>1. /\ SettleFetch(t) /\ pc'[t] = "fetched"
          /\ value'[t] = OrZero(balances[Line(t).to]) /\ UNCHANGED <<credited, balances>>
      BY <1>2, <2>2, OwningStep
    <3>2. u # t
      BY <1>2, <2>2, <3>1 DEF Landed
    <3>3. Landed(u) /\ Line(u)' = Line(u)
      BY <1>2, <3>2, LandedOthers, LinesStay
    <3>4. Before(a) + Line(u).amount <= OrZero(balances[a])
      BY <1>2, <2>0, <3>3 DEF Counted
    <3>5. Before(a)' = Before(a)
      BY <3>1 DEF Before
    <3>. QED
      BY <1>2, <2>2, <3>1, <3>3, <3>4, <3>5
  <2>3. CASE v # t
    <3>1. Owning(v) /\ pc'[v] = pc[v] /\ value'[v] = value[v]
      BY <1>2, <2>3, OwningStep
    <3>v. pc[v] \in {"fetched", "seen"} /\ InJobs(v)
      BY <3>1 DEF Owning, OneJobEach, Resuming
    <3>2. CASE u # t
      <4>1. Landed(u) /\ pc'[u] = pc[u] /\ Line(u)' = Line(u)
        BY <1>2, <3>2, LandedOthers, LinesStay
      <4>2. Before(a)' = Before(a)
        BY <3>2, <4>1, BeforeStep DEF OneLanded
      <4>3. \/ Before(a) + Line(u).amount <= value[v]
            \/ pc[u] = "wroteTo" /\ (pc[v] = "fetched" => Ahead(v, u))
            \/ pc[u] = "start" /\ pc[v] = "seen" /\ Ahead(v, u)
        BY <1>2, <3>1, <4>1 DEF Fresh
      <4>4. Ahead(v, u) => Ahead(v, u)'
        BY <2>3, <1>j DEF InOrder
      <4>. QED
        BY <3>1, <4>1, <4>2, <4>3, <4>4
    <3>3. CASE u = t /\ Landing(t)
      <4>1. pc'[t] = "wroteTo"
        BY <3>3 DEF Landing
      <4>2. InJobs(t)'
        BY <4>1, <1>j DEF OneJobEach, Resuming
      <4>3. Ahead(v, t)'
        BY <4>2, <2>3, <3>v, <1>j DEF InOrder
      <4>. QED
        BY <3>3, <4>1, <4>3
    <3>4. CASE u = t /\ Leaving(t)
      <4>1. Landed(t) /\ pc[t] = "wroteTo" /\ pc'[t] = "start" /\ Run(t)
        BY <3>4 DEF Leaving, Run
      <4>2. Line(t)' = Line(t)
        BY <4>1, LinesStay
      <4>3. Before(a)' = Before(a)
        BY <2>0, <4>1, BeforeStep
      <4>4. \/ Before(a) + Line(t).amount <= value[v]
            \/ pc[v] = "fetched" => Ahead(v, t)
        BY <1>2, <3>1, <3>4, <4>1, <4>2 DEF Fresh
      <4>5. ~Ahead(v, t)
        BY <4>1, <1>j DEF InOrder
      <4>6. InJobs(t)'
        BY <4>1, <1>j DEF OneJobEach, Resuming
      <4>7. Ahead(v, t)'
        BY <4>6, <2>3, <3>v, <1>j DEF InOrder
      <4>. QED
        BY <3>1, <3>4, <3>v, <4>1, <4>2, <4>3, <4>4, <4>5, <4>7
    <3>. QED
      BY <1>2, <3>2, <3>3, <3>4, LandedOwn
  <2>. QED
    BY <2>1, <2>2, <2>3
<1>3. ASSUME NEW v \in Tasks, Owning(v)'
      PROVE  /\ (Before(Line(v).to) <= value[v])'
             /\ \A u \in Tasks : Landed(u)' /\ Line(u)'.to = Line(v)'.to =>
                  \/ (Before(Line(v).to) + Line(u).amount <= value[v])'
                  \/ pc'[u] = "wroteTo" /\ (pc'[v] = "fetched" => Ahead(v, u)')
                  \/ pc'[u] = "start" /\ pc'[v] = "seen" /\ Ahead(v, u)'
  <2>1. PICK a \in Accounts : a = Line(v)'.to /\ a = Line(v).to
    BY <1>3, OwningStep
  <2>2. Before(Line(v).to)' = Before(a)'
    BY <2>1 DEF Before
  <2>3. Before(a)' <= value'[v]
    BY <1>1, <1>3, <2>1
  <2>4. \A u \in Tasks : Landed(u)' /\ Line(u)'.to = a =>
          \/ Before(a)' + Line(u)'.amount <= value'[v]
          \/ pc'[u] = "wroteTo" /\ (pc'[v] = "fetched" => Ahead(v, u)')
          \/ pc'[u] = "start" /\ pc'[v] = "seen" /\ Ahead(v, u)'
    BY <1>2, <1>3, <2>1
  <2>. QED
    BY <2>1, <2>2, <2>3, <2>4
<1>. QED
  BY <1>3 DEF Fresh

\* A balance that is returned has what was counted when it was asked for.
LEMMA LearntStep ==
  ASSUME IInv, OneJobEach, Owners, Asked, Fresh, Learnt,
         NEW t \in Tasks, Arrive(t) \/ Settle(t) \/ Run(t)
  PROVE  Learnt'
<1> SUFFICES ASSUME NEW u \in Tasks, pc'[u] = "seen", ~threw'[u], OnlyCredited(Line(u).to)'
             PROVE  OrZero(Opening[Line(u)'.to]) + floor'[u] <= value'[u]
  BY DEF Learnt, Answered
<1>a. PICK a : a = Line(u)'.to
  OBVIOUS
<1>o. OnlyCredited(a)
  BY <1>a, OthersStay DEF OnlyCredited
<1>r. Reading(u)'
  BY DEF Reading
<1>1. CASE Sharing(t, u)
  <2>1. /\ pc[t] = "fetched" /\ Line(u)' = Line(u) /\ Line(u).to = Line(t).to /\ reads[Line(t).to] = t
        /\ value'[u] = value[t] /\ threw'[u] = threw[t] /\ UNCHANGED floor
        /\ u = t \/ pc[u] = "sharing"
    BY <1>1, SharingStep
  <2>2. Reading(u) /\ Owning(t)
    BY <2>1, <1>a, <1>o DEF Reading, Owning
  <2>3. Before(Line(t).to) <= value[t] /\ floor[u] <= credited[Line(t).to]
    BY <2>1, <2>2 DEF Fresh, Asked
  <2>4. /\ Line(t).to \in Accounts /\ floor[u] \in Nat /\ value[t] \in Int
    BY <2>2, <2>1, ReadingLine DEF Reading
  <2>5. credited[Line(t).to] \in Nat /\ OrZero(Opening[Line(t).to]) \in Int
    BY <2>4, BeforeType
  <2>. QED
    BY <2>1, <2>3, <2>4, <2>5 DEF Before
<1>2. CASE u # t /\ ~Sharing(t, u)
  <2>1. /\ Reading(u) /\ pc'[u] = pc[u] /\ value'[u] = value[u] /\ threw'[u] = threw[u]
        /\ floor'[u] = floor[u] /\ Line(u)' = Line(u)
    BY <1>r, <1>2, ReadersStay, LinesStay
  <2>. QED
    BY <2>1, <1>a, <1>o DEF Learnt, Answered
<1>3. CASE u = t /\ ~Sharing(t, t) /\ Balance(t)
  <2>1. PICK v \in Tasks :
           /\ v # t /\ pc[v] = "seen" /\ Line(v).to = Line(t)'.to /\ reads[Line(v).to] = v
           /\ value'[t] = value[v] /\ threw'[t] = threw[v] /\ UNCHANGED <<reads, balances>>
    BY <1>3, BalanceSeen
  <2>2. Owning(v)
    BY <2>1, <1>a, <1>o, <1>3 DEF Owning
  <2>3. PICK b \in Accounts : b = Line(v).to
    BY <2>1, ReadingLine DEF Reading
  <2>4. Before(b)' <= value[v]
    BY <2>1, <2>2, <2>3, FreshBefore
  <2>5. Before(b)' = OrZero(Opening[b]) + credited'[b]
    BY BeforeStep
  <2>6. floor'[t] = credited'[Line(t)'.to]
    <3>1. floor' = [floor EXCEPT ![t] = credited'[Upcoming(t).lines[1].to]]
      BY <1>3 DEF Balance
    <3>2. floor'[t] = credited'[Upcoming(t).lines[1].to]
      BY <3>1 DEF IInv, TypeOK
    <3>. QED
      BY <3>2, <1>3, BalanceLine
  <2>. QED
    BY <2>1, <2>3, <2>4, <2>5, <2>6, <1>3
<1>4. CASE u = t /\ ~Sharing(t, t) /\ ~Balance(t)
  <2>1. pc'[t] = "fetched"
    BY <1>r, <1>4, ReaderOwn
  <2>. QED
    BY <2>1, <1>4
<1>. QED
  BY <1>1, <1>2, <1>3, <1>4

-----------------------------------------------------------------------------
\* What the order of the jobs gives the readers, in one.
SInv == /\ OneJobEach /\ Owners /\ Placed /\ Turn /\ OneLanded
        /\ Counted /\ Asked /\ Fresh /\ Known /\ Learnt

\* Before the first request nothing is due, read, landed or counted.
LEMMA InitSInv == Init => SInv
<1> SUFFICES ASSUME Init PROVE SInv
  OBVIOUS
<1>1. \A t \in Tasks : pc[t] = "new" /\ callNo[t] = 0
  BY DEF Init
<1>2. OneJobEach
  <2>1. Len(jobs) = 0
    BY DEF Init
  <2>. QED
    BY <1>1, <2>1 DEF OneJobEach, InJobs, Resuming
<1>3. Owners
  <2>1. \A a \in Accounts : reads[a] = NoTask /\ Len(sharers[a]) = 0
    BY DEF Init
  <2>. QED
    BY <1>1, <2>1, NameAssumption DEF Owners
<1>4. Placed /\ \A t \in Tasks : ~Landed(t)
  BY <1>1 DEF Placed, Landed
<1>5. \A t \in Tasks : ~Reading(t) /\ ~Owning(t) /\ ~Answered(t)
  BY <1>1 DEF Reading, Owning, Answered
<1>6. Turn /\ OneLanded
  BY <1>4 DEF Turn, OneLanded
<1>7. Counted
  <2>1. \A a \in Accounts : OrZero(Opening[a]) \in Int /\ balances = Opening /\ credited[a] = 0
    BY NameAssumption DEF Init, OrZero
  <2>2. \A a \in Accounts : Before(a) <= OrZero(balances[a])
    BY <2>1 DEF Before
  <2>. QED
    BY <2>2, <1>4 DEF Counted
<1>8. Asked /\ Fresh /\ Known /\ Learnt
  BY <1>5 DEF Asked, Fresh, Known, Learnt
<1>. QED
  BY <1>2, <1>3, <1>4, <1>6, <1>7, <1>8 DEF SInv

\* Every step keeps it.
LEMMA NextSInv == IInv /\ SInv /\ [Next]_vars => SInv'
<1> SUFFICES ASSUME IInv, SInv, [Next]_vars PROVE SInv'
  OBVIOUS
<1>i. /\ OneJobEach /\ Owners /\ Placed /\ Turn /\ OneLanded
      /\ Counted /\ Asked /\ Fresh /\ Known /\ Learnt
  BY DEF SInv
<1>1. CASE Next
  <2>1. PICK t \in Tasks : Arrive(t) \/ Settle(t) \/ Run(t)
    BY <1>1 DEF Next
  <2>2. OneJobEach' /\ Owners' /\ Placed'
    BY <2>1, <1>i, JobsStep, OwnersStep, PlacedStep
  <2>3. Turn' /\ OneLanded' /\ Counted'
    BY <2>1, <1>i, TurnStep, CountedStep
  <2>4. Asked' /\ Known' /\ Learnt'
    BY <2>1, <1>i, AskedStep, KnownStep, LearntStep
  <2>5. Fresh'
    BY <2>1, <1>i, FreshStep
  <2>. QED
    BY <2>2, <2>3, <2>4, <2>5 DEF SInv
<1>2. CASE UNCHANGED vars
  <2> USE <1>2 DEF vars, lockVars, readVars, localVars, seenVars
  <2>1. \A t \in Tasks : Line(t)' = Line(t) /\ Call(t)' = Call(t)
    BY DEF Line, Call
  <2>2. \A a \in Accounts : Before(a)' = Before(a)
    BY DEF Before
  <2>3. OneJobEach' /\ Owners' /\ Placed'
    BY <1>i, <2>1 DEF OneJobEach, InJobs, Owners, Placed
  <2>4. \A t \in Tasks : Landed(t)' <=> Landed(t)
    BY <2>1 DEF Landed
  <2>5. Turn' /\ OneLanded'
    BY <1>i, <2>4 DEF Turn, OneLanded, Ahead
  <2>6. Counted'
    BY <1>i, <2>1, <2>2, <2>4 DEF Counted, OnlyCredited
  <2>7. Asked'
    BY <1>i, <2>1 DEF Asked, Reading
  <2>8. Fresh'
    <3>1. \A t \in Tasks : Owning(t)' <=> Owning(t)
      BY DEF Owning, OnlyCredited, Line, Call
    <3>2. \A t, u \in Tasks : Ahead(t, u)' <=> Ahead(t, u)
      BY DEF Ahead
    <3>3. \A t \in Tasks : Before(Line(t).to)' = Before(Line(t).to)
      BY DEF Before, Line, Call
    <3>. QED
      BY <1>i, <2>1, <2>4, <3>1, <3>2, <3>3 DEF Fresh
  <2>9. Known' /\ Learnt'
    BY <1>i DEF Known, Learnt, Answered, OnlyCredited, Line, Call
  <2>. QED
    BY <2>3, <2>5, <2>6, <2>7, <2>8, <2>9 DEF SInv
<1>. QED
  BY <1>1, <1>2

\* createLedger's balance: an answer is at least what every deposit that had
\* returned before the question makes it, and no more than the store holds, for
\* any number of tasks, however the reads are shared.
THEOREM LedgerNoStaleBalance == Spec => []NoStaleBalance
<1>1. SInv => NoStaleBalance
  BY DEF SInv, Known, Learnt, Answered, NoStaleBalance
<1>2. Spec => [](IInv /\ SInv)
  BY InitSInv, NextSInv, LedgerInvariant, PTL DEF Spec
<1>. QED
  BY <1>1, <1>2, PTL
================================================================================
