--------------------------------- MODULE Cloud ---------------------------------
(***************************************************************************)
(* ephemeral/cloud.ts and ephemeral/seeds.ts: what exists.  Resources with *)
(* ids from a counter, deleted with what is nested in them; and the data   *)
(* the environments read, of their own or the shared staging database.     *)
(*                                                                         *)
(* Two abstractions.  A creation time is kept as an age, capped at the     *)
(* TTL: the sweep only asks whether it has passed.  Rows are one row, and  *)
(* of it only who wrote it last.                                           *)
(***************************************************************************)
EXTENDS Integers

CONSTANTS PRs, BaseSchema, Schemas,
          Shas,   \* commits: which of a pull request, and the schema its code expects
          None,   \* no parent, no record, no dataset, nobody
          TTL

VARIABLES
  cloud,      \* the living resources
  sequence,   \* the last id
  perEnv,     \* perEnv[p]: the dataset of p's environment, or None
  shared      \* the dataset everybody else reads

cloudVars == <<cloud, sequence>>
seedVars == <<perEnv, shared>>

Kinds == {"namespace", "database", "service", "log-group"}
Resources == [id : Nat, kind : Kinds, parent : Nat \union {None}, pr : PRs,
              sha : Shas \union {None}, age : 0..TTL]
Datasets == [schema : Schemas, writer : PRs \union {None}]

CloudInit == /\ cloud = {} /\ sequence = 0
             /\ perEnv = [p \in PRs |-> None] /\ shared = [schema |-> BaseSchema, writer |-> None]

-----------------------------------------------------------------------------
Resource(id, kind, parent, p, sha) ==
  [id |-> id, kind |-> kind, parent |-> parent, pr |-> p, sha |-> sha, age |-> 0]

Of(p) == {r \in cloud : r.pr = p}
ServicesOf(p) == {r \in Of(p) : r.kind = "service"}

\* Slip: only what is named is deleted.
DeletedAlone(ids) == {r \in cloud : r.id \notin ids}
\* delete() takes along what is nested; only namespaces have anything inside.
Deleted(ids) == {r \in cloud : r.id \notin ids /\ r.parent \notin ids}

-----------------------------------------------------------------------------
FreshDataset(schema) == [schema |-> schema, writer |-> None]

\* Slip: an environment that has a dataset keeps it.
ProvisionOnce(p, policy, schema) ==
  perEnv' = [perEnv EXCEPT ![p] = IF policy = "shared" THEN None
                                  ELSE IF @ = None THEN FreshDataset(schema) ELSE @]
Provision(p, policy, schema) ==
  perEnv' = [perEnv EXCEPT ![p] = IF policy = "shared" THEN None ELSE FreshDataset(schema)]

Release(p) == perEnv' = [perEnv EXCEPT ![p] = None]

DatasetFor(p) == IF perEnv[p] = None THEN shared ELSE perEnv[p]

\* A write from inside p's environment, wherever its reads go.
Write(p) ==
  /\ \/ perEnv[p] = None /\ shared' = [shared EXCEPT !.writer = p] /\ UNCHANGED perEnv
     \/ perEnv[p] # None /\ perEnv' = [perEnv EXCEPT ![p].writer = p] /\ UNCHANGED shared
  /\ UNCHANGED cloudVars
=============================================================================
