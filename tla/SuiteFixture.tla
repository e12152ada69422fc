----------------------------- MODULE SuiteFixture -----------------------------
(***************************************************************************)
(* containers/suite.ts: one started container per store and run, and one   *)
(* namespace per suite in it.  Runs follow one another; a run may die      *)
(* anywhere, its hooks unrun, and with reuse the next one adopts its       *)
(* container as it was left.  Suites are told apart by their slugs: two    *)
(* names with one slug are one suite here.                                 *)
(***************************************************************************)
EXTENDS Integers, Sequences, FiniteSets

CONSTANTS
  FixtureStores,  \* the stores to consider
  FixtureSuites,  \* slugs of suite names
  RedisDatabases, \* databases of the server
  MaxRuns         \* bound on the number of runs

ASSUME FixtureAssumption == RedisDatabases \in Nat \ {0} /\ MaxRuns \in Nat \ {0}

VARIABLES
  fixture,   \* [store, reuse] of this behaviour, or NoFixture
  runId,     \* RUN_ID: a new one for every process
  promise,   \* the promise in the map: "absent", "started" or "rejected"
  allocated, \* allocatedDatabases: slugs, in the order they were given one
  suiteState, \* per suite: "before", "inside", "after", or "refused" by beforeAll
  wrote,     \* suites that have written since beforeAll
  holdings   \* the container: {<<namespace, <<run, suite>>>>}

fixtureVars == <<fixture, runId, promise, allocated, suiteState, wrote, holdings>>

-----------------------------------------------------------------------------
\* Slip: the name of the suite without the nonce of the run.
UnnoncedName(s, run) == <<s>>

\* t_<slug>_<RUN_ID>, <slug>-<RUN_ID>-events
RunName(s, run) == <<s, run>>

InNamespace(ns) == {h \in holdings : h[1] = ns}

NoFixture == [store |-> "none", reuse |-> FALSE]

FixtureInit ==
  /\ fixture = NoFixture /\ runId = 1 /\ promise = "absent" /\ allocated = <<>>
  /\ suiteState = [s \in FixtureSuites |-> "before"] /\ wrote = {} /\ holdings = {}

FixtureIdle == fixture = NoFixture

PickFixture ==
  /\ FixtureIdle
  /\ fixture' \in [store : FixtureStores, reuse : BOOLEAN]
  /\ UNCHANGED <<runId, promise, allocated, suiteState, wrote, holdings>>

Namespace(s) ==
  IF fixture.store = "redis"
  THEN CHOOSE n \in DOMAIN allocated : allocated[n] = s
  ELSE RunName(s, runId)

-----------------------------------------------------------------------------
\* sharedStore: the first suite starts the container, and what that came to is
\* what every later suite of the run is given.
StartStore ==
  /\ ~FixtureIdle /\ promise = "absent"
  /\ promise' \in {"started", "rejected"}
  /\ UNCHANGED <<fixture, runId, allocated, suiteState, wrote, holdings>>

\* beforeAll fails: no container, or no database left for a new name.
RefuseSuite(s) ==
  /\ suiteState[s] = "before"
  /\ \/ promise = "rejected"
     \/ /\ promise = "started" /\ fixture.store = "redis"
        /\ Len(allocated) >= RedisDatabases
  /\ suiteState' = [suiteState EXCEPT ![s] = "refused"]
  /\ UNCHANGED <<fixture, runId, promise, allocated, wrote, holdings>>

\* create schema if not exists; for Kafka a name is all there is.
EnterNamed(s) ==
  /\ suiteState[s] = "before" /\ promise = "started" /\ fixture.store # "redis"
  /\ suiteState' = [suiteState EXCEPT ![s] = "inside"]
  /\ UNCHANGED <<fixture, runId, promise, allocated, wrote, holdings>>

\* FLUSHDB on the way in, for the run that did not get to the one on the way out.
EnterDatabase(s) ==
  /\ suiteState[s] = "before" /\ promise = "started" /\ fixture.store = "redis"
  /\ Len(allocated) < RedisDatabases
  /\ allocated' = Append(allocated, s)
  /\ holdings' = holdings \ InNamespace(Len(allocated'))
  /\ suiteState' = [suiteState EXCEPT ![s] = "inside"]
  /\ UNCHANGED <<fixture, runId, promise, wrote>>

\* A test writes through connect, or to the suite's topic.
WriteIn(s) ==
  /\ suiteState[s] = "inside"
  /\ holdings' = holdings \union {<<Namespace(s), <<runId, s>>>>}
  /\ wrote' = wrote \union {s}
  /\ UNCHANGED <<fixture, runId, promise, allocated, suiteState>>

\* afterAll: drop schema, flushdb; topics stay.
LeaveSuite(s) ==
  /\ suiteState[s] = "inside"
  /\ suiteState' = [suiteState EXCEPT ![s] = "after"]
  /\ wrote' = wrote \ {s}
  /\ holdings' = IF fixture.store = "kafka" THEN holdings
                 ELSE holdings \ InNamespace(Namespace(s))
  /\ UNCHANGED <<fixture, runId, promise, allocated>>

\* The process ends, at the end of the run or anywhere before it.  Without reuse
\* the reaper takes the container.
NextRun ==
  /\ promise # "absent" /\ runId < MaxRuns
  /\ runId' = runId + 1
  /\ promise' = "absent" /\ allocated' = <<>>
  /\ suiteState' = [s \in FixtureSuites |-> "before"] /\ wrote' = {}
  /\ holdings' = IF fixture.reuse THEN holdings ELSE {}
  /\ UNCHANGED fixture

FixtureNext ==
  \/ PickFixture \/ StartStore \/ NextRun
  \/ \E s \in FixtureSuites :
       RefuseSuite(s) \/ EnterNamed(s) \/ EnterDatabase(s) \/ WriteIn(s) \/ LeaveSuite(s)

-----------------------------------------------------------------------------
\* suite.ts:21-25, README "Reuse": a suite that is inside its hooks finds what it
\* wrote itself and nothing else, whatever earlier runs left in the container and
\* whatever the other suites of the run do.
SuiteSeesOnlyItsOwn ==
  \A s \in FixtureSuites : suiteState[s] = "inside" =>
    {h[2] : h \in InNamespace(Namespace(s))} = (IF s \in wrote THEN {<<runId, s>>} ELSE {})
=============================================================================
