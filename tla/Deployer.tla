------------------------------- MODULE Deployer -------------------------------
(***************************************************************************)
(* ephemeral/deployer.ts: the state file.  It names what the deployer      *)
(* created, which is not all that exists.                                  *)
(***************************************************************************)
EXTENDS Cloud

VARIABLE records   \* records[p]: [ids, namespace], or None

Records == [ids : SUBSET Nat, namespace : Nat \union {None}]

Retired(p) == {r.id : r \in {s \in cloud : s.id \in records[p].ids /\ s.kind = "service"}}

\* A push: the service is replaced, the rest stands, the data is seeded anew.
Redeploy(p, sha, policy) ==
  LET old == records[p]
      new == sequence + 1
  IN
  /\ old # None
  /\ cloud' = Deleted(Retired(p)) \union {Resource(new, "service", old.namespace, p, sha)}
  /\ sequence' = new
  /\ records' = [records EXCEPT ![p].ids = (@ \ Retired(p)) \union {new}]
  /\ Provision(p, policy, sha.schema)
  /\ UNCHANGED shared

BringUp(p, sha, namespaced, policy) ==
  LET namespace == IF namespaced THEN sequence + 1 ELSE None
      database == sequence + (IF namespaced THEN 2 ELSE 1)
      service == database + 1
      made == {Resource(database, "database", namespace, p, None),
               Resource(service, "service", namespace, p, sha)}
              \union (IF namespaced THEN {Resource(namespace, "namespace", None, p, None)} ELSE {})
  IN
  /\ records[p] = None
  /\ cloud' = cloud \union made
  /\ sequence' = service
  /\ records' = [records EXCEPT ![p] = [ids |-> {r.id : r \in made}, namespace |-> namespace]]
  /\ Provision(p, policy, sha.schema)
  /\ UNCHANGED shared

Deploy(p, sha, namespaced, policy) == Redeploy(p, sha, policy) \/ BringUp(p, sha, namespaced, policy)

Destroy(p) ==
  \/ records[p] = None /\ UNCHANGED <<cloudVars, seedVars, records>>
  \/ /\ records[p] # None
     /\ cloud' = Deleted(records[p].ids)
     /\ records' = [records EXCEPT ![p] = None]
     /\ Release(p)
     /\ UNCHANGED <<sequence, shared>>

\* The sweep's forget(), for everyone it reaped.
Forget(ps) == /\ records' = [p \in PRs |-> IF p \in ps THEN None ELSE records[p]]
              /\ perEnv' = [p \in PRs |-> IF p \in ps THEN None ELSE perEnv[p]]

=============================================================================
