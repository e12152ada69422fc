----------------------------- MODULE Environments -----------------------------
(***************************************************************************)
(* ephemeral/harness.ts and the eight wirings of ephemeral/strategies.ts:  *)
(* pull requests, the workflow runs their events register, and the         *)
(* environments those runs make and remove.  A run takes effect when it    *)
(* finishes, or dies; in between anything may happen, in any order.        *)
(*                                                                         *)
(* An event that GitHub would not send is not taken: a pull request is     *)
(* opened once and pushed to while it is open.  A label may be applied at  *)
(* any time after that.                                                    *)
(***************************************************************************)
EXTENDS Deployer, Sequences, FiniteSets

CONSTANTS Wirings,      \* those of Strategies that are played
          MayFork,      \* pull requests that may come from a fork
          MaxRuns,      \* bound on the runs a pull request registers
          MaxTraffic    \* bound on the log groups of a pull request

VARIABLES
  wiring,     \* the strategy in use
  runs,       \* runs[p]: in the order they were registered
  heads, stage,           \* p's head commit; new, open or closed
  forks, approved,
  exposed,    \* pull requests whose unreviewed code was deployed
  removal     \* how p's environment was removed last, if it was

prVars == <<heads, stage, forks, approved>>
vars == <<wiring, cloudVars, seedVars, records, runs, prVars, exposed, removal>>

ASSUME NoneAssumption ==
  None \notin PRs \union Int \union Shas \union Records \union Datasets \union {"teardown", "sweep"}
ASSUME BoundAssumption == TTL \in Nat /\ MaxTraffic \in [PRs -> Nat] /\ MaxRuns \in [PRs -> Nat]
ASSUME ShaAssumption == Shas \subseteq [no : Nat, schema : Schemas] /\ BaseSchema \in Schemas

-----------------------------------------------------------------------------
Wiring(trigger, deployOn, teardown, cancel, namespaced, policy, reaper) ==
  [trigger |-> trigger, deployOn |-> deployOn, teardownOnClose |-> teardown, cancelInFlight |-> cancel,
   namespaced |-> namespaced, seedPolicy |-> policy, reaper |-> reaper]

OnPush == {"opened", "synchronize"}
Target == "pull_request_target"

Strategies ==
  [manual              |-> Wiring("pull_request", {"opened"}, FALSE, FALSE, FALSE, "shared", "none"),
   onClose             |-> Wiring(Target, OnPush, TRUE, FALSE, FALSE, "shared", "none"),
   onCloseCancel       |-> Wiring(Target, OnPush, TRUE, TRUE, FALSE, "shared", "none"),
   onCloseSeeded       |-> Wiring(Target, OnPush, TRUE, TRUE, FALSE, "per-env", "none"),
   ttlReaper           |-> Wiring(Target, OnPush, FALSE, TRUE, FALSE, "per-env", "age"),
   onCloseTtl          |-> Wiring(Target, OnPush, TRUE, TRUE, FALSE, "per-env", "age"),
   namespaceOwned      |-> Wiring(Target, OnPush, TRUE, TRUE, TRUE, "per-env", "none"),
   namespaceReconciled |-> Wiring("labelled", OnPush \union {"labeled"}, TRUE, TRUE, TRUE, "per-env", "open-prs")]

ASSUME WiringAssumption == Wirings \subseteq DOMAIN Strategies

Runs == [kind : {"deploy", "destroy"}, sha : Shas,
         status : {"pending", "finished", "cancelled", "blocked"}]

Init ==
  /\ wiring \in {Strategies[s] : s \in Wirings}
  /\ CloudInit
  /\ records = [p \in PRs |-> None]
  /\ runs = [p \in PRs |-> <<>>]
  /\ heads = [p \in PRs |-> None] /\ stage = [p \in PRs |-> "new"]
  /\ forks = {} /\ approved = {} /\ exposed = {}
  /\ removal = [p \in PRs |-> None]

-----------------------------------------------------------------------------
NewRun(kind, sha, status) == [kind |-> kind, sha |-> sha, status |-> status]

Cancelled(run) == [run EXCEPT !.status = "cancelled"]

\* Slip: the destroys have a group of their own, and a close cancels no deploy.
CancelledDestroys(p) ==
  [i \in DOMAIN runs[p] |-> IF runs[p][i].status = "pending" /\ runs[p][i].kind = "destroy"
                            THEN Cancelled(runs[p][i]) ELSE runs[p][i]]
\* The group is the pull request; deploys and destroys share it.
CancelledPending(p) ==
  [i \in DOMAIN runs[p] |-> IF runs[p][i].status = "pending" THEN Cancelled(runs[p][i]) ELSE runs[p][i]]

Group(p) == IF wiring.cancelInFlight THEN CancelledPending(p) ELSE runs[p]

\* Whether an event makes a run, once it has been noted.
Asked(p, event) ==
  /\ event \in wiring.deployOn
  /\ p \in forks' /\ wiring.trigger = "labelled" => p \in approved'

\* A fork's workflow has no secrets under pull_request: the run is there, blocked.
Blocked(p) == p \in forks' /\ wiring.trigger = "pull_request"

RegisterDeploy(p, event) ==
  \/ ~Asked(p, event) /\ UNCHANGED runs
  \/ /\ Asked(p, event) /\ Blocked(p)
     /\ runs' = [runs EXCEPT ![p] = Append(@, NewRun("deploy", heads'[p], "blocked"))]
  \/ /\ Asked(p, event) /\ ~Blocked(p)
     /\ runs' = [runs EXCEPT ![p] = Append(Group(p), NewRun("deploy", heads'[p], "pending"))]

Room(p) == Len(runs[p]) < MaxRuns[p]

Open(p) ==
  /\ stage[p] = "new" /\ Room(p)
  /\ stage' = [stage EXCEPT ![p] = "open"]
  /\ \E sha \in Shas : sha.no = 1 /\ heads' = [heads EXCEPT ![p] = sha]
  /\ forks' \in {forks, forks \union ({p} \intersect MayFork)}
  /\ UNCHANGED approved
  /\ RegisterDeploy(p, "opened")
  /\ UNCHANGED <<wiring, cloudVars, seedVars, records, exposed, removal>>

Push(p) ==
  /\ stage[p] = "open" /\ Room(p)
  /\ \E sha \in Shas : sha.no = heads[p].no + 1 /\ heads' = [heads EXCEPT ![p] = sha]
  /\ UNCHANGED <<stage, forks, approved>>
  /\ RegisterDeploy(p, "synchronize")
  /\ UNCHANGED <<wiring, cloudVars, seedVars, records, exposed, removal>>

Label(p) ==
  /\ stage[p] # "new" /\ Room(p)
  /\ approved' = approved \union {p}
  /\ UNCHANGED <<heads, stage, forks>>
  /\ RegisterDeploy(p, "labeled")
  /\ UNCHANGED <<wiring, cloudVars, seedVars, records, exposed, removal>>

Close(p) ==
  /\ stage[p] = "open" /\ Room(p)
  /\ stage' = [stage EXCEPT ![p] = "closed"]
  /\ runs' = IF wiring.teardownOnClose
             THEN [runs EXCEPT ![p] = Append(Group(p), NewRun("destroy", heads[p], "pending"))]
             ELSE runs
  /\ UNCHANGED <<wiring, cloudVars, seedVars, records, heads, forks, approved, exposed, removal>>

\* A run reaches its end and its effects land ...
FinishDestroy(p) ==
  /\ Destroy(p)
  /\ removal' = [removal EXCEPT ![p] = "teardown"]
  /\ UNCHANGED exposed

FinishDeploy(p, sha) ==
  /\ Deploy(p, sha, wiring.namespaced, wiring.seedPolicy)
  /\ removal' = [removal EXCEPT ![p] = None]
  /\ exposed' = IF p \in forks \ approved THEN exposed \union {p} ELSE exposed

Finish(p, i) ==
  /\ runs[p][i].status = "pending"
  /\ runs' = [runs EXCEPT ![p][i].status = "finished"]
  /\ \/ runs[p][i].kind = "destroy" /\ FinishDestroy(p)
     \/ runs[p][i].kind = "deploy" /\ FinishDeploy(p, runs[p][i].sha)
  /\ UNCHANGED <<wiring, prVars>>

\* ... or it dies.
Cancel(p, i) ==
  /\ runs[p][i].status = "pending"
  /\ runs' = [runs EXCEPT ![p][i] = Cancelled(@)]
  /\ UNCHANGED <<wiring, cloudVars, seedVars, records, prVars, exposed, removal>>

\* The platform adds a resource nobody recorded.
Traffic(p) ==
  /\ records[p] # None
  /\ Cardinality({r \in Of(p) : r.kind = "log-group"}) < MaxTraffic[p]
  /\ cloud' = cloud \union {Resource(sequence + 1, "log-group", records[p].namespace, p, None)}
  /\ sequence' = sequence + 1
  /\ UNCHANGED <<wiring, seedVars, records, runs, prVars, exposed, removal>>

\* Somebody uses p's environment, or what they still take for it.
Use(p) ==
  /\ stage[p] # "new"
  /\ Write(p)
  /\ UNCHANGED <<wiring, records, runs, prVars, exposed, removal>>

Older(r) == [r EXCEPT !.age = IF @ < TTL THEN @ + 1 ELSE @]

Tick ==
  /\ \E r \in cloud : r.age < TTL
  /\ cloud' = {Older(r) : r \in cloud}
  /\ UNCHANGED <<wiring, sequence, seedVars, records, runs, prVars, exposed, removal>>

\* Slip: the sweep reads the state file and not the labels.
DueTracked(p) ==
  /\ records[p] # None
  /\ \/ wiring.reaper = "age" /\ \E r \in Of(p) : r.age = TTL
     \/ wiring.reaper = "open-prs" /\ stage[p] # "open"
\* The oldest thing labelled p has outlived the TTL, or p is not open.
Due(p) ==
  /\ Of(p) # {}
  /\ \/ wiring.reaper = "age" /\ \E r \in Of(p) : r.age = TTL
     \/ wiring.reaper = "open-prs" /\ stage[p] # "open"

Sweep ==
  LET due == {p \in PRs : Due(p)} IN
  /\ due # {}
  /\ cloud' = Deleted({r.id : r \in UNION {Of(p) : p \in due}})
  /\ Forget(due)
  /\ removal' = [p \in PRs |-> IF p \in due THEN "sweep" ELSE removal[p]]
  /\ UNCHANGED <<wiring, sequence, shared, runs, prVars, exposed>>

Next == \/ \E p \in PRs : Open(p) \/ Push(p) \/ Label(p) \/ Close(p) \/ Traffic(p) \/ Use(p)
        \/ \E p \in PRs : \E i \in DOMAIN runs[p] : Finish(p, i) \/ Cancel(p, i)
        \/ Tick \/ Sweep

Spec == Init /\ [][Next]_vars

\* The clock goes on and the schedule is kept.  Nothing says that a run ends.
FairSpec == Spec /\ WF_vars(Tick) /\ WF_vars(Sweep)

-----------------------------------------------------------------------------
Last(p) == runs[p][Len(runs[p])]
LastFinished(p, kind) == runs[p] # <<>> /\ Last(p).kind = kind /\ Last(p).status = "finished"
Heads(p) == {r.sha : r \in ServicesOf(p)}

\* An environment that was torn down and not deployed since has nothing left,
\* except for what the platform added to a flat stack: deleting the namespace
\* takes along what nobody recorded (deployer.ts:15-21).
TornDownForGood ==
  \A p \in PRs : removal[p] = "teardown" =>
    \A r \in Of(p) : r.kind = "log-group" /\ ~wiring.namespaced

\* With cancel-in-progress the newest run decides, however the ones before it
\* raced.  Once it has landed: after a deploy the open pull request's environment
\* serves the head commit and no older one, and only the TTL can have taken it
\* away (racing-pushes, pushed-a-fix); after the teardown of a closed one no
\* deploy that was in flight puts a service back (zombie-deploy, harness.ts:229-236).
NewestRunDecides ==
  wiring.cancelInFlight =>
    \A p \in PRs :
      /\ OnPush \subseteq wiring.deployOn /\ stage[p] = "open" /\ LastFinished(p, "deploy") =>
           Heads(p) = {heads[p]} \/ (wiring.reaper = "age" /\ removal[p] = "sweep" /\ Heads(p) = {})
      /\ stage[p] = "closed" /\ LastFinished(p, "destroy") =>
           /\ Heads(p) = {}
           /\ \A i \in DOMAIN runs[p] : runs[p][i].status # "pending"

\* With a database per environment: while it is recorded it has a dataset at the
\* schema of the commit it serves, which no other pull request ever wrote to;
\* and no dataset outlives its environment.
OwnData ==
  wiring.seedPolicy = "per-env" =>
    \A p \in PRs :
      /\ records[p] = None <=> perEnv[p] = None
      /\ records[p] # None =>
           /\ perEnv[p].writer \in {None, p}
           /\ \A sha \in Heads(p) : perEnv[p].schema = sha.schema

\* As long as the schedule is kept, a wiring with a reaper gets rid of what a
\* closed pull request left, even if the teardown died and even of what no
\* record names (teardown-cancelled, platform-created-resource).
NothingLeaksForEver ==
  wiring.reaper # "none" => \A p \in PRs : stage[p] = "closed" ~> Of(p) = {}
=============================================================================
