------------------------------ MODULE PactPipeline ------------------------------
(***************************************************************************)
(* pact/: four ways of wiring a consumer's contract to its provider's      *)
(* build, each run against twelve changes.  The provider (provider/app.ts) *)
(* answers the contract's requests from the store its provider states set  *)
(* up; the broker is a service, modelled from how run.ts and client.ts use *)
(* it: published contracts, verification results by content, deployments,  *)
(* pending contracts and can-i-deploy.                                     *)
(*                                                                         *)
(* A contract is the set of its interactions, an answer its status and the *)
(* parts of the body a matcher may ask for.                                *)
(***************************************************************************)
EXTENDS Naturals

CONSTANTS PactCells   \* <<strategy, scenario>>: the cells to run

PactStrategies == {"files-stale", "files-fresh", "broker", "broker-pending"}

\* scenarios.ts: the provider's one flag, the consumer's contract, who is in
\* production, and whether the change breaks anybody.
Change(flag, contract, deployed, truth) ==
  [flag |-> flag, contract |-> contract, deployed |-> deployed, truth |-> truth]

Scenarios ==
  [NOTHING_CHANGED |-> Change("none", "baseline", "baseline", "safe"),
   USER_ROLE_REMOVED |-> Change("omitUserRole", "baseline", "baseline", "breaks"),
   CREATED_AT_RENAMED |-> Change("snakeCaseCreatedAt", "baseline", "baseline", "breaks"),
   USER_ID_STRINGIFIED |-> Change("stringifyUserId", "baseline", "baseline", "breaks"),
   CREATE_STATUS_CHANGED |-> Change("createUserReturns200", "baseline", "baseline", "breaks"),
   ROLE_VALUE_RENAMED |-> Change("renameUserRoleValue", "baseline", "baseline", "breaks"),
   SCOPE_HEADER_REQUIRED |-> Change("requireScopeHeader", "baseline", "baseline", "breaks"),
   LOGOUT_ROUTE_REMOVED |-> Change("removeLogoutRoute", "baseline", "baseline", "breaks"),
   EXTRA_FIELD_ADDED |-> Change("extraUserField", "baseline", "baseline", "safe"),
   CONSUMER_ADDED_EXPECTATION |-> Change("none", "added", "baseline", "breaks"),
   LOGOUT_RETIRED |-> Change("removeLogoutRoute", "dropped", "changed", "safe"),
   LOGOUT_RETIRED_EARLY |-> Change("removeLogoutRoute", "dropped", "baseline", "breaks")]

ASSUME PactCellAssumption == PactCells \subseteq PactStrategies \X DOMAIN Scenarios

VARIABLES
  pactCell,   \* the cell of this behaviour
  pactStep,   \* what the pipeline does next; "end": the stage is known
  published,  \* published[v]: the contract of consumer version v, or {}
  results,    \* [content, by, ok]: verification results
  inProduction, \* the version of either side that is deployed
  pactStage   \* where something went red

pactVars == <<pactCell, pactStep, published, results, inProduction, pactStage>>

PactStrategy == pactCell[1]
PactScenario == Scenarios[pactCell[2]]

-----------------------------------------------------------------------------
\* provider/states.ts: who exists, and whether a refresh token is valid.  Each
\* state starts from an empty store.
StateHandler(given) ==
  CASE given = "user with id 1 exists" -> [users |-> {"alice"}, token |-> FALSE]
    [] given = "users exist" -> [users |-> {"alice", "mod"}, token |-> FALSE]
    [] given = "valid credentials for alice" -> [users |-> {"alice"}, token |-> FALSE]
    [] given = "a valid refresh token exists" -> [users |-> {"alice"}, token |-> TRUE]
    [] given \in {"no bob", "no unknown"} -> [users |-> {}, token |-> FALSE]

Reply(status, body) == [status |-> status, body |-> body]

\* A number sent as a string still satisfies the integer matcher
\* (provider/coercion.test.ts); an id that is no number does not.
SerialiseUser(flag) ==
  {"email", "name"}
  \union (IF flag = "bogusUserId" THEN {} ELSE {"id"})
  \union (IF flag = "omitUserRole" THEN {} ELSE {"role"})
  \union (IF flag \in {"omitUserRole", "renameUserRoleValue"} THEN {} ELSE {"role in enum"})
  \union (IF flag = "snakeCaseCreatedAt" THEN {} ELSE {"createdAt"})
  \union (IF flag = "extraUserField" THEN {"lastSeenAt"} ELSE {})

Tokens == {"accessToken", "refreshToken", "expiresIn"}

HandleUsers(flag, store, ask) ==
  CASE flag = "requireScopeHeader" -> Reply(403, {})
    [] ask = "get user 1" /\ "alice" \in store.users -> Reply(200, SerialiseUser(flag))
    [] ask = "delete user 1" /\ "alice" \in store.users -> Reply(204, {})
    [] ask = "list users" -> Reply(200, {"meta"} \union
                                        (IF store.users = {} THEN {} ELSE SerialiseUser(flag)))
    [] ask = "create bob" /\ "bob" \notin store.users ->
         Reply(IF flag = "createUserReturns200" THEN 200 ELSE 201, SerialiseUser(flag))
    [] ask = "create bob" /\ "bob" \in store.users -> Reply(409, {})
    [] OTHER -> Reply(404, {})

HandleRequest(flag, store, ask) ==
  CASE ask \in {"get user 1", "delete user 1", "list users", "create bob", "get preferences"} ->
         HandleUsers(flag, store, ask)
    [] ask = "login alice" -> IF "alice" \in store.users THEN Reply(200, Tokens) ELSE Reply(401, {"error"})
    [] ask = "login unknown" -> Reply(401, {"error"})
    [] ask = "refresh" -> IF store.token THEN Reply(200, Tokens) ELSE Reply(401, {"error"})
    [] ask = "logout" /\ flag # "removeLogoutRoute" -> Reply(IF store.token THEN 204 ELSE 401, {})
    [] OTHER -> Reply(404, {})

-----------------------------------------------------------------------------
\* The consumer's contract, as its own suites write it.
Interaction(given, ask, status, body) ==
  [given |-> given, ask |-> ask, status |-> status, body |-> body]

UserShape == {"id", "email", "name", "role", "role in enum", "createdAt"}
Logout == Interaction("a valid refresh token exists", "logout", 204, {})

BaselineContract ==
  {Interaction("user with id 1 exists", "get user 1", 200, UserShape),
   Interaction("users exist", "list users", 200, UserShape \union {"meta"}),
   Interaction("no bob", "create bob", 201, UserShape \ {"role in enum"}),
   Interaction("user with id 1 exists", "delete user 1", 204, {}),
   Interaction("valid credentials for alice", "login alice", 200, Tokens),
   Interaction("no unknown", "login unknown", 401, {"error"}),
   Interaction("a valid refresh token exists", "refresh", 200, Tokens),
   Logout}

ContractVariant(variant) ==
  CASE variant = "baseline" -> BaselineContract
    [] variant = "added" -> BaselineContract \union
         {Interaction("user with id 1 exists", "get preferences", 200, UserShape)}
    [] variant = "dropped" -> BaselineContract \ {Logout}

\* What the verifier finds of a contract at a provider with this flag: fields
\* nobody asked for are nobody's business.
Satisfies(flag, contract) ==
  \A i \in contract :
    LET reply == HandleRequest(flag, StateHandler(i.given), i.ask)
    IN  reply.status = i.status /\ i.body \subseteq reply.body

-----------------------------------------------------------------------------
\* The broker.
\* Selectors: the newest contract of the consumer's main branch, and what is
\* in production.
OnMain == published[IF published["consumer-2"] = {} THEN "consumer-1" ELSE "consumer-2"]

Selected ==
  {OnMain} \union (IF inProduction.consumer = "none" THEN {} ELSE {published[inProduction.consumer]})

\* No version of the provider's main branch has satisfied it yet.
PendingContract(content) == ~\E r \in results : r.content = content /\ r.ok

\* verifyProvider: the results are published, and a contract that is pending
\* does not turn the build red where pending is on.
Results(version, flag) ==
  {[content |-> c, by |-> version, ok |-> Satisfies(flag, c)] : c \in Selected}

ProviderBuildRed(version, flag) ==
  \E r \in Results(version, flag) :
    ~r.ok /\ ~(PactStrategy = "broker-pending" /\ PendingContract(r.content))

Verified(content, version) == \E r \in results : r.content = content /\ r.by = version /\ r.ok
Refuted(content, version) == \E r \in results : r.content = content /\ r.by = version /\ ~r.ok

\* Slip: an answer the broker does not know counts as a yes.
CanDeployUnknown(consumer, provider) == ~Refuted(published[consumer], provider)

\* can-i-deploy, of one pair that would meet: yes, no and unknown, of which
\* client.ts takes only yes for a yes.
CanDeploy(consumer, provider) == Verified(published[consumer], provider)

-----------------------------------------------------------------------------
PactInit ==
  /\ pactCell = <<"none", "none">> /\ pactStep = "idle"
  /\ published = [v \in {"consumer-1", "consumer-2"} |-> {}]
  /\ results = {} /\ inProduction = [consumer |-> "none", provider |-> "none"]
  /\ pactStage = "none"

At(step) == pactStep = step

PactIdle == pactStep = "idle"

\* runCell, and deletePacticipant of both sides.
PickPactCell ==
  /\ PactIdle
  /\ pactCell' \in PactCells
  /\ pactStep' = IF pactCell'[1] \in {"broker", "broker-pending"} THEN "publish baseline" ELSE "file"
  /\ UNCHANGED <<published, results, inProduction, pactStage>>

\* runFileCell: the contract as the provider's own repository has it.
VerifyFile ==
  /\ At("file")
  /\ LET contract == ContractVariant(IF PactStrategy = "files-fresh" THEN PactScenario.contract
                                     ELSE "baseline")
     IN  pactStage' = IF Satisfies(PactScenario.flag, contract) THEN "none" ELSE "provider-ci"
  /\ pactStep' = "end"
  /\ UNCHANGED <<pactCell, published, results, inProduction>>

Publish(version, variant) ==
  /\ published' = [published EXCEPT ![version] = ContractVariant(variant)]
  /\ UNCHANGED <<pactCell, results, inProduction, pactStage>>

\* A red build of a provider nobody changed stops the run.
Build(version, flag, red) ==
  /\ results' = results \union Results(version, flag)
  /\ pactStage' = IF ProviderBuildRed(version, flag) THEN red ELSE pactStage
  /\ UNCHANGED <<pactCell, published, inProduction>>

Deploy(side, version) ==
  /\ inProduction' = [inProduction EXCEPT ![side] = version]
  /\ UNCHANGED <<pactCell, published, results, pactStage>>

Then(step) == pactStep' = IF pactStage' = "none" THEN step ELSE "end"

PublishBaseline ==
  At("publish baseline") /\ Publish("consumer-1", "baseline") /\ Then("verify baseline")
VerifyBaseline ==
  At("verify baseline") /\ Build("provider-1", "none", "errored") /\ Then("deploy consumer")
DeployConsumer ==
  At("deploy consumer") /\ Deploy("consumer", "consumer-1") /\ Then("deploy provider")
DeployProvider ==
  At("deploy provider") /\ Deploy("provider", "provider-1") /\ Then("publish change")
PublishChange ==
  /\ At("publish change") /\ Publish("consumer-2", PactScenario.contract)
  /\ Then(IF PactScenario.deployed = "changed" THEN "verify unchanged" ELSE "verify change")
VerifyUnchanged ==
  At("verify unchanged") /\ Build("provider-1", "none", "errored") /\ Then("deploy change")
DeployChange ==
  At("deploy change") /\ Deploy("consumer", "consumer-2") /\ Then("verify change")
VerifyChange ==
  At("verify change") /\ Build("provider-2", PactScenario.flag, "provider-ci") /\ Then("gate")

\* Both sides ask, and either answer blocks.
DeployGate ==
  /\ At("gate") /\ pactStep' = "end"
  /\ pactStage' = IF CanDeploy(inProduction.consumer, "provider-2")
                     /\ CanDeploy("consumer-2", inProduction.provider)
                  THEN "none" ELSE "deploy-gate"
  /\ UNCHANGED <<pactCell, published, results, inProduction>>

PactNext ==
  \/ PickPactCell \/ VerifyFile
  \/ PublishBaseline \/ VerifyBaseline \/ DeployConsumer \/ DeployProvider
  \/ PublishChange \/ VerifyUnchanged \/ DeployChange \/ VerifyChange \/ DeployGate

PactSpec == PactInit /\ [][PactNext]_pactVars

-----------------------------------------------------------------------------
\* pact/README.md:68-82, in words.
PublishedStage ==
  LET scenario == pactCell[2] IN
  CASE scenario \in {"NOTHING_CHANGED", "EXTRA_FIELD_ADDED", "USER_ID_STRINGIFIED"} -> "none"
    [] scenario = "CONSUMER_ADDED_EXPECTATION" ->
         (CASE PactStrategy = "files-stale" -> "none"
            [] PactStrategy = "broker-pending" -> "deploy-gate"
            [] OTHER -> "provider-ci")
    [] scenario = "LOGOUT_RETIRED" -> IF PactStrategy = "files-stale" THEN "provider-ci" ELSE "none"
    [] scenario = "LOGOUT_RETIRED_EARLY" -> IF PactStrategy = "files-fresh" THEN "none" ELSE "provider-ci"
    [] OTHER -> "provider-ci"

\* Every stage is the published one (pact/README.md:68-82); and where a broker
\* lets a change through, whichever side ships first, and when both have, the
\* consumer in production is answered as its contract says.
PactCellsAsPublished ==
  pactStep = "end" =>
    /\ pactStage = PublishedStage
    /\ PactStrategy \in {"broker", "broker-pending"} /\ pactStage = "none" =>
         /\ Satisfies(PactScenario.flag, published[inProduction.consumer])
         /\ Satisfies("none", published["consumer-2"])
         /\ Satisfies(PactScenario.flag, published["consumer-2"])
=============================================================================
