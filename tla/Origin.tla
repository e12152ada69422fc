-------------------------------- MODULE Origin --------------------------------
(***************************************************************************)
(* authstate/origin.ts behind authstate/server.ts: the fixture server.  An *)
(* account has one live session and a sign-in ends the one before it.  A   *)
(* request to a named barrier is parked until `Parties` requests are       *)
(* there, or answered 504 at its deadline.  Every other route is one step. *)
(***************************************************************************)
EXTENDS Integers, Sequences, SequencesExt

CONSTANT Parties  \* AUTHSTATE_PARTIES of the parallel phase

ASSUME PartiesAssumption == Parties \in Nat \ {0}

VARIABLES
  accounts,   \* email -> [session, notes], for the emails that ever signed in
  sessions,   \* session id -> email, for the sessions that are alive
  counter, logins, ledger,
  waiting,    \* barrier name -> requests whose resolver it holds, in order
  timers,     \* parked requests whose deadline is still to come
  reply,      \* request -> the status its client got
  unhandled   \* a request was answered again after its 504: writeHead threw

accountVars == <<accounts, sessions, counter, logins>>
barrierVars == <<waiting, timers, reply, unhandled>>
originVars == <<accountVars, ledger, barrierVars>>

Barriers == {"signed-in", "written"}
NoSession == 0

Put(f, k, v) == [x \in DOMAIN f \union {k} |-> IF x = k THEN v ELSE f[x]]
Without(f, k) == [x \in DOMAIN f \ {k} |-> f[x]]

OriginInit ==
  /\ accounts = <<>> /\ sessions = <<>> /\ counter = 0 /\ logins = 0 /\ ledger = <<>>
  /\ waiting = [name \in Barriers |-> <<>>]
  /\ timers = {} /\ reply = <<>> /\ unhandled = FALSE

\* Between two runs the driver clears the state object; what a parked request
\* holds, its timer and its socket, is not in it.
Reset ==
  /\ accounts' = <<>> /\ sessions' = <<>> /\ counter' = 0 /\ logins' = 0 /\ ledger' = <<>>
  /\ waiting' = [name \in Barriers |-> <<>>]
  /\ UNCHANGED <<timers, reply, unhandled>>

-----------------------------------------------------------------------------
AccountFor(email) == IF email \in DOMAIN accounts THEN accounts[email]
                     ELSE [session |-> NoSession, notes |-> <<>>]

\* POST /api/login
Login(email) ==
  /\ accounts' = Put(accounts, email, [AccountFor(email) EXCEPT !.session = counter + 1])
  /\ sessions' = Put(Without(sessions, AccountFor(email).session), counter + 1, email)
  /\ counter' = counter + 1 /\ logins' = logins + 1

\* What a request carrying this cookie is taken for.
Authenticated(cookie) == cookie \in DOMAIN sessions
NotesOf(cookie) == accounts[sessions[cookie]].notes

\* POST /api/notes, with a session that is alive
WriteNote(cookie, note) ==
  /\ accounts' = [accounts EXCEPT ![sessions[cookie]].notes = Append(@, note)]
  /\ UNCHANGED <<sessions, counter, logins>>

\* POST /api/ledger, with no credential
FileRow(row) == ledger' = Append(ledger, row)

-----------------------------------------------------------------------------
\* Who is at the barrier once this request has come, and who of them is held
\* only by the barrier, having been answered at its deadline.
Gathered(name, who) == ToSet(Append(waiting[name], who))
Expired(name, who) == {w \in Gathered(name, who) \ {who} : <<name, w>> \notin timers}

Park(name, who) ==
  /\ waiting' = [waiting EXCEPT ![name] = Append(@, who)]
  /\ timers' = timers \union {<<name, who>>}
  /\ UNCHANGED <<reply, unhandled>>

\* Every resolver is called; the ones that come after a 504 throw.
Release(name, who) ==
  LET inTime == {<<name, w>> : w \in Gathered(name, who) \ Expired(name, who)} IN
  /\ waiting' = [waiting EXCEPT ![name] = <<>>]
  /\ timers' = timers \ inTime
  /\ reply' = [r \in DOMAIN reply \union inTime |-> IF r \in inTime THEN 200 ELSE reply[r]]
  /\ unhandled' = (unhandled \/ Expired(name, who) # {})

\* Slip: no deadline.
ArriveForGood(name, who) ==
  IF Len(waiting[name]) + 1 < Parties
  THEN /\ waiting' = [waiting EXCEPT ![name] = Append(@, who)]
       /\ UNCHANGED <<timers, reply, unhandled>>
  ELSE /\ waiting' = [waiting EXCEPT ![name] = <<>>]
       /\ reply' = [r \in DOMAIN reply \union {<<name, w>> : w \in Gathered(name, who)} |-> 200]
       /\ UNCHANGED <<timers, unhandled>>

\* GET /api/barrier.  All who come name the same number of parties.
Arrive(name, who) ==
  \/ Len(waiting[name]) + 1 < Parties /\ Park(name, who)
  \/ Len(waiting[name]) + 1 >= Parties /\ Release(name, who)

\* BARRIER_TIMEOUT_MS is over: 504.  The resolver stays where it is.
Expire(r) ==
  /\ r \in timers
  /\ timers' = timers \ {r}
  /\ reply' = Put(reply, r, 504)
  /\ UNCHANGED <<waiting, unhandled>>
=============================================================================
