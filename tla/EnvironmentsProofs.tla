-------------------------- MODULE EnvironmentsProofs --------------------------
(***************************************************************************)
(* Theorems about Environments, for any pull requests, commits, time to    *)
(* live and bounds, and any of the wirings.                                *)
(***************************************************************************)
EXTENDS Environments, TLAPS

-----------------------------------------------------------------------------
(* Types, and what the cloud, the state file and the data say together.    *)

CTyped ==
  /\ wiring \in {Strategies[s] : s \in Wirings}
  /\ cloud \in SUBSET Resources /\ sequence \in Nat
  /\ perEnv \in [PRs -> Datasets \union {None}]
  /\ records \in [PRs -> Records \union {None}]
  /\ removal \in [PRs -> {None, "teardown", "sweep"}]

\* Ids are new when they are given, and nobody has one twice.
Numbered ==
  /\ \A r \in cloud : r.id <= sequence /\ (r.parent # None => r.parent <= sequence)
  /\ \A r, s \in cloud : r.id = s.id => r = s
  /\ \A p \in PRs : records[p] # None => \A n \in records[p].ids : n <= sequence

\* A record names, and a parent contains, what is labelled the same.
Owned ==
  /\ \A p, q \in PRs : records[p] # None /\ records[q] # None /\ p # q =>
       \A n \in records[p].ids : n \notin records[q].ids
  /\ \A r \in cloud, q \in PRs : records[q] # None /\ (r.id \in records[q].ids \/ r.parent \in records[q].ids) =>
       r.pr = q
  /\ \A r, s \in cloud : r.parent = s.id => r.pr = s.pr

\* An environment's namespace is recorded and is not among what a push replaces.
Nested ==
  \A p \in PRs : records[p] # None =>
    /\ records[p].namespace # None =>
         /\ records[p].namespace \in records[p].ids
         /\ \A s \in cloud : s.id = records[p].namespace => s.kind # "service"
    /\ wiring.namespaced => records[p].namespace # None

\* The deployer recorded what it created; what the platform created is in the
\* namespace, if there is one.
Recorded ==
  \A r \in cloud :
    /\ r.kind # "log-group" => records[r.pr] # None /\ r.id \in records[r.pr].ids
    /\ r.kind = "log-group" /\ wiring.namespaced =>
         records[r.pr] # None /\ r.parent = records[r.pr].namespace

Torn == \A p \in PRs : removal[p] = "teardown" => records[p] = None

CInv == CTyped /\ Numbered /\ Owned /\ Nested /\ Recorded /\ Torn /\ OwnData

-----------------------------------------------------------------------------
(* What the wirings have in common.                                        *)

LEMMA WiringFacts ==
  ASSUME NEW w \in {Strategies[s] : s \in Wirings}
  PROVE  /\ w.namespaced \in BOOLEAN /\ w.cancelInFlight \in BOOLEAN
         /\ w.seedPolicy \in {"shared", "per-env"}
         /\ w.reaper \in {"none", "age", "open-prs"}
         /\ w.cancelInFlight => w.trigger \in {Target, "labelled"} /\ OnPush \subseteq w.deployOn
<1>1. PICK s \in Wirings : w = Strategies[s]
  OBVIOUS
<1>2. DOMAIN Strategies = {"manual", "onClose", "onCloseCancel", "onCloseSeeded", "ttlReaper",
                           "onCloseTtl", "namespaceOwned", "namespaceReconciled"}
  BY DEF Strategies
<1>3. s \in DOMAIN Strategies
  BY WiringAssumption
<1>4. CASE s = "manual" BY <1>1, <1>4 DEF Strategies, Wiring, Target, OnPush
<1>5. CASE s = "onClose" BY <1>1, <1>5 DEF Strategies, Wiring, Target, OnPush
<1>6. CASE s = "onCloseCancel" BY <1>1, <1>6 DEF Strategies, Wiring, Target, OnPush
<1>7. CASE s = "onCloseSeeded" BY <1>1, <1>7 DEF Strategies, Wiring, Target, OnPush
<1>8. CASE s = "ttlReaper" BY <1>1, <1>8 DEF Strategies, Wiring, Target, OnPush
<1>9. CASE s = "onCloseTtl" BY <1>1, <1>9 DEF Strategies, Wiring, Target, OnPush
<1>10. CASE s = "namespaceOwned" BY <1>1, <1>10 DEF Strategies, Wiring, Target, OnPush
<1>11. CASE s = "namespaceReconciled" BY <1>1, <1>11 DEF Strategies, Wiring, Target, OnPush
<1> QED BY <1>2, <1>3, <1>4, <1>5, <1>6, <1>7, <1>8, <1>9, <1>10, <1>11

LEMMA ResourceFacts ==
  ASSUME NEW id \in Nat, NEW kind \in Kinds, NEW parent \in Nat \union {None}, NEW p \in PRs,
         NEW sha \in Shas \union {None}
  PROVE  /\ Resource(id, kind, parent, p, sha) \in Resources
         /\ Resource(id, kind, parent, p, sha).id = id
         /\ Resource(id, kind, parent, p, sha).kind = kind
         /\ Resource(id, kind, parent, p, sha).parent = parent
         /\ Resource(id, kind, parent, p, sha).pr = p
         /\ Resource(id, kind, parent, p, sha).sha = sha
BY BoundAssumption DEF Resource, Resources

-----------------------------------------------------------------------------
(* Steps that only take away, or only let time pass.                       *)

\* Everything there is was there, though it may have been younger.
Faded ==
  \A r \in cloud' : \E s \in cloud :
    r.id = s.id /\ r.kind = s.kind /\ r.parent = s.parent /\ r.pr = s.pr /\ r.sha = s.sha

LEMMA FadedKeeps ==
  ASSUME CTyped, CTyped', Numbered, Owned, Nested, Recorded, Faded,
         \A r, s \in cloud' : r.id = s.id => r = s,
         sequence' = sequence, wiring' = wiring,
         \A p \in PRs : records'[p] \in {records[p], None},
         \A r \in cloud' : records'[r.pr] = None /\ records[r.pr] # None =>
           r.kind = "log-group" /\ ~wiring.namespaced
  PROVE  Numbered' /\ Owned' /\ Nested' /\ Recorded'
<1> USE DEF Faded
<1>1. Numbered'
  <2>1. \A r \in cloud' : r.id <= sequence /\ (r.parent # None => r.parent <= sequence)
    BY DEF Numbered
  <2>2. \A p \in PRs : records'[p] # None => \A n \in records'[p].ids : n <= sequence
    BY DEF Numbered
  <2> QED BY <2>1, <2>2 DEF Numbered
<1>2. Owned'
  <2>1. \A p, q \in PRs : records'[p] # None /\ records'[q] # None /\ p # q =>
          \A n \in records'[p].ids : n \notin records'[q].ids
    BY DEF Owned
  <2>2. \A r \in cloud', q \in PRs :
          records'[q] # None /\ (r.id \in records'[q].ids \/ r.parent \in records'[q].ids) => r.pr = q
    BY DEF Owned
  <2>3. \A r, s \in cloud' : r.parent = s.id => r.pr = s.pr
    BY DEF Owned
  <2> QED BY <2>1, <2>2, <2>3 DEF Owned
<1>3. Nested'
  BY DEF Nested
<1>4. Recorded'
  <2> SUFFICES ASSUME NEW r \in cloud'
               PROVE  /\ r.kind # "log-group" => records'[r.pr] # None /\ r.id \in records'[r.pr].ids
                      /\ r.kind = "log-group" /\ wiring.namespaced =>
                           records'[r.pr] # None /\ r.parent = records'[r.pr].namespace
    BY DEF Recorded
  <2>1. PICK s \in cloud : r.id = s.id /\ r.kind = s.kind /\ r.parent = s.parent /\ r.pr = s.pr
    OBVIOUS
  <2>2. r.pr \in PRs
    BY DEF CTyped, Resources
  <2> QED BY <2>1, <2>2 DEF Recorded
<1> QED BY <1>1, <1>2, <1>3, <1>4

LEMMA DeletedFades ==
  ASSUME NEW ids, cloud' = Deleted(ids)
  PROVE  Faded
BY DEF Faded, Deleted

-----------------------------------------------------------------------------
(* The runs a pull request's events registered.                            *)

QTyped ==
  /\ runs \in [PRs -> Seq(Runs)]
  /\ heads \in [PRs -> Shas \union {None}] /\ stage \in [PRs -> {"new", "open", "closed"}]
  /\ forks \in SUBSET PRs /\ approved \in SUBSET PRs
  /\ \A p \in PRs : stage[p] = "new" => runs[p] = <<>>
  /\ \A p \in PRs : stage[p] # "new" => heads[p] \in Shas

\* What a group cancels is all but the run that was registered last.
OnlyLastPending ==
  wiring.cancelInFlight => \A p \in PRs : \A i \in DOMAIN runs[p] :
    runs[p][i].status = "pending" => i = Len(runs[p])

\* An open pull request that ever had a run gets one for each push.
LastIsHead ==
  wiring.cancelInFlight => \A p \in PRs : runs[p] # <<>> =>
    /\ Last(p).sha = heads[p]
    /\ stage[p] = "open" => Last(p).kind = "deploy"
    /\ wiring.trigger = "labelled" /\ stage[p] = "open" => p \notin forks \/ p \in approved

QInv == QTyped /\ OnlyLastPending /\ LastIsHead /\ NewestRunDecides

-----------------------------------------------------------------------------
(* The deployer's operations, and the platform's.                          *)

\* What a pull request's environment serves is settled by its own steps.
Serves(p, shas) == Heads(p)' = shas /\ \A q \in PRs \ {p} : Heads(q)' = Heads(q)

LEMMA NoneFacts ==
  /\ None \notin PRs /\ None \notin Shas /\ None \notin Nat
  /\ None \notin Records /\ None \notin Datasets
  /\ None # "teardown" /\ None # "sweep"
BY NoneAssumption

LEMMA Types ==
  ASSUME CTyped
  PROVE  /\ \A r \in cloud : /\ r.id \in Nat /\ r.kind \in Kinds /\ r.parent \in Nat \union {None}
                             /\ r.pr \in PRs /\ r.sha \in Shas \union {None}
         /\ \A p \in PRs : records[p] # None => /\ records[p] \in Records
                                                /\ records[p].ids \in SUBSET Nat
                                                /\ records[p].namespace \in Nat \union {None}
         /\ None \notin Nat
<1>1. \A r \in cloud : r \in Resources
  BY DEF CTyped
<1>2. \A p \in PRs : records[p] # None => records[p] \in Records
  BY DEF CTyped
<1>3. None \notin Nat
  BY NoneFacts
<1> QED BY <1>1, <1>2, <1>3 DEF Resources, Records

\* A deployment's data is new and at its commit's schema.
LEMMA ProvidedKeeps ==
  ASSUME CTyped, OwnData, NEW p \in PRs, NEW sha \in Shas, wiring' = wiring,
         Provision(p, wiring.seedPolicy, sha.schema), Serves(p, {sha}),
         records'[p] # None, \A q \in PRs : q # p => records'[q] = records[q]
  PROVE  OwnData'
<1> SUFFICES ASSUME wiring.seedPolicy = "per-env", NEW q \in PRs
             PROVE  /\ records'[q] = None <=> perEnv'[q] = None
                    /\ records'[q] # None =>
                         /\ perEnv'[q].writer \in {None, q}
                         /\ \A h \in Heads(q)' : perEnv'[q].schema = h.schema
  BY DEF OwnData
<1>1. perEnv' = [perEnv EXCEPT ![p] = FreshDataset(sha.schema)]
  BY DEF Provision
<1>2. FreshDataset(sha.schema) \in Datasets
  BY ShaAssumption DEF FreshDataset, Datasets
<1>3. perEnv \in [PRs -> Datasets \union {None}]
  BY DEF CTyped
<1>4. CASE q = p
  <2>1. perEnv'[q] = FreshDataset(sha.schema) /\ perEnv'[q] # None
    BY <1>1, <1>2, <1>3, <1>4, NoneFacts
  <2> QED BY <1>4, <2>1 DEF Serves, FreshDataset
<1>5. CASE q # p
  <2>1. perEnv'[q] = perEnv[q] /\ records'[q] = records[q] /\ Heads(q)' = Heads(q)
    BY <1>1, <1>3, <1>5 DEF Serves
  <2>2. /\ records[q] = None <=> perEnv[q] = None
        /\ records[q] # None =>
             /\ perEnv[q].writer \in {None, q}
             /\ \A h \in Heads(q) : perEnv[q].schema = h.schema
    BY DEF OwnData
  <2> QED BY <2>1, <2>2
<1> QED BY <1>4, <1>5

LEMMA RedeployStep ==
  ASSUME CInv, NEW p \in PRs, NEW sha \in Shas,
         Redeploy(p, sha, wiring.seedPolicy), wiring' = wiring,
         removal' = [removal EXCEPT ![p] = None]
  PROVE  CInv' /\ Serves(p, {sha})
<1> DEFINE new == sequence + 1
           made == Resource(new, "service", records[p].namespace, p, sha)
           gone == Retired(p)
<1>0. /\ records[p] # None
      /\ cloud' = Deleted(gone) \union {made}
      /\ sequence' = new
      /\ records' = [records EXCEPT ![p].ids = (@ \ gone) \union {new}]
      /\ Provision(p, wiring.seedPolicy, sha.schema)
  BY DEF Redeploy
<1>1. /\ CTyped /\ Numbered /\ Owned /\ Nested /\ Recorded /\ Torn /\ OwnData
      /\ records \in [PRs -> Records \union {None}] /\ sequence \in Nat /\ new \in Nat
  BY DEF CInv, CTyped
<1>2. /\ made \in Resources /\ made.id = new /\ made.kind = "service"
      /\ made.parent = records[p].namespace /\ made.pr = p /\ made.sha = sha
  BY <1>0, <1>1, Types, ResourceFacts DEF Kinds
<1>3. /\ records'[p].ids = (records[p].ids \ gone) \union {new}
      /\ records'[p].namespace = records[p].namespace
      /\ records'[p] \in Records /\ records'[p] # None
      /\ \A q \in PRs : q # p => records'[q] = records[q]
  <2>1. records[p] \in Records
    BY <1>0, <1>1
  <2>2. records'[p] = [ids |-> (records[p].ids \ gone) \union {new}, namespace |-> records[p].namespace]
    BY <1>0, <1>1, <2>1 DEF Records
  <2>3. (records[p].ids \ gone) \union {new} \in SUBSET Nat
    BY <1>1, <2>1 DEF Records
  <2>4. records'[p] \in Records
    BY <2>1, <2>2, <2>3 DEF Records
  <2>5. \A q \in PRs : q # p => records'[q] = records[q]
    BY <1>0, <1>1
  <2>6. records'[p] # None
    BY <2>4, NoneFacts
  <2>7. records'[p].ids = (records[p].ids \ gone) \union {new} /\ records'[p].namespace = records[p].namespace
    BY <2>2
  <2> QED BY <2>4, <2>5, <2>6, <2>7
<1>4. \A r \in cloud' : r = made \/ (r \in cloud /\ r.id \notin gone)
  BY <1>0 DEF Deleted
<1>5. \A n \in gone : n \in records[p].ids
  BY DEF Retired
<1>6. \A r \in cloud : r.id <= sequence /\ r.id \in Nat
  BY <1>1, Types DEF Numbered
<1>7. CTyped'
  <2>1. cloud' \in SUBSET Resources
    BY <1>0, <1>1, <1>2 DEF CTyped, Deleted
  <2>2. perEnv' \in [PRs -> Datasets \union {None}]
    <3>1. sha.schema \in Schemas
      BY ShaAssumption
    <3>2. FreshDataset(sha.schema) \in Datasets
      BY <3>1 DEF FreshDataset, Datasets
    <3> QED BY <1>0, <1>1, <3>2 DEF Provision, CTyped
  <2>3. records' \in [PRs -> Records \union {None}]
    BY <1>0, <1>1, <1>3
  <2> QED BY <1>0, <1>1, <2>1, <2>2, <2>3 DEF CTyped
<1>8. Numbered'
  <2>1. \A r \in cloud' : r.id <= sequence' /\ (r.parent # None => r.parent <= sequence')
    <3>1. records[p].namespace # None => records[p].namespace <= sequence
      BY <1>0, <1>1 DEF Nested, Numbered
    <3>2. \A r \in cloud : r.parent # None => r.parent <= sequence /\ r.parent \in Nat
      BY <1>1, Types DEF Numbered
    <3>3. records[p].namespace # None => records[p].namespace \in Nat
      BY <1>0, <1>1, Types
    <3> QED BY <1>0, <1>1, <1>2, <1>4, <1>6, <3>1, <3>2, <3>3
  <2>2. \A r, s \in cloud' : r.id = s.id => r = s
    BY <1>1, <1>2, <1>4, <1>6 DEF Numbered
  <2>3. ASSUME NEW q \in PRs, records'[q] # None, NEW n \in records'[q].ids
        PROVE  n <= sequence'
    <3>1. n = new \/ (n \in Nat /\ n <= sequence)
      BY <1>0, <1>1, <1>3, <2>3, Types DEF Numbered
    <3> QED BY <1>0, <1>1, <3>1
  <2> QED BY <2>1, <2>2, <2>3 DEF Numbered
<1>9. \A q \in PRs : records[q] # None => new \notin records[q].ids
  BY <1>1 DEF Numbered
<1>10. Owned'
  <2>1. ASSUME NEW a \in PRs, NEW b \in PRs, records'[a] # None, records'[b] # None, a # b,
               NEW n \in records'[a].ids
        PROVE  n \notin records'[b].ids
    <3>1. records[a] # None /\ records[b] # None
      BY <1>0, <1>3, <2>1
    <3>2. \A m \in records[a].ids : m \notin records[b].ids
      BY <1>1, <2>1, <3>1 DEF Owned
    <3> QED BY <1>3, <1>9, <2>1, <3>1, <3>2
  <2>2. ASSUME NEW r \in cloud', NEW a \in PRs, records'[a] # None,
               r.id \in records'[a].ids \/ r.parent \in records'[a].ids
        PROVE  r.pr = a
    <3>1. records[a] # None
      BY <1>0, <1>3, <2>2
    <3>2. CASE r = made
      <4>1. r.id = new /\ r.parent = records[p].namespace /\ r.pr = p
        BY <1>2, <3>2
      <4>2. CASE a = p
        BY <4>1, <4>2
      <4>3. CASE a # p
        <5>1. r.parent \in records[a].ids
          BY <1>3, <1>9, <2>2, <3>1, <4>1, <4>3
        <5>2. r.parent # None
          BY <3>1, <5>1, <1>1, Types
        <5>3. r.parent \in records[p].ids
          BY <1>0, <1>1, <4>1, <5>2 DEF Nested
        <5> QED BY <1>0, <1>1, <3>1, <4>3, <5>1, <5>3 DEF Owned
      <4> QED BY <4>2, <4>3
    <3>3. CASE r \in cloud
      <4>1. r.id # new /\ r.parent # new
        BY <1>1, <1>6, <3>3, Types DEF Numbered
      <4>2. r.id \in records[a].ids \/ r.parent \in records[a].ids
        BY <1>3, <2>2, <4>1
      <4> QED BY <1>1, <3>1, <3>3, <4>2 DEF Owned
    <3> QED BY <1>4, <3>2, <3>3
  <2>3. ASSUME NEW r \in cloud', NEW s \in cloud', r.parent = s.id
        PROVE  r.pr = s.pr
    <3>1. CASE r = made /\ s = made
      BY <3>1
    <3>2. CASE r = made /\ s \in cloud
      <4>1. s.id = records[p].namespace /\ s.id \in Nat
        BY <1>2, <1>6, <2>3, <3>2
      <4>2. s.id \in records[p].ids
        BY <1>0, <1>1, <4>1, Types DEF Nested
      <4>3. s.pr = p
        BY <1>0, <1>1, <3>2, <4>2 DEF Owned
      <4> QED BY <1>2, <3>2, <4>3
    <3>3. CASE r \in cloud /\ s = made
      <4>1. r.parent = new
        BY <1>2, <2>3, <3>3
      <4> QED BY <1>1, <3>3, <4>1, Types DEF Numbered
    <3>4. CASE r \in cloud /\ s \in cloud
      BY <1>1, <2>3, <3>4 DEF Owned
    <3> QED BY <1>4, <3>1, <3>2, <3>3, <3>4
  <2> QED BY <2>1, <2>2, <2>3 DEF Owned
<1>11. Nested'
  <2> SUFFICES ASSUME NEW a \in PRs, records'[a] # None
               PROVE  /\ records'[a].namespace # None =>
                           /\ records'[a].namespace \in records'[a].ids
                           /\ \A s \in cloud' : s.id = records'[a].namespace => s.kind # "service"
                      /\ wiring.namespaced => records'[a].namespace # None
    BY DEF Nested
  <2>1. records[a] # None /\ records'[a].namespace = records[a].namespace
    BY <1>0, <1>3
  <2>2. wiring.namespaced => records'[a].namespace # None
    BY <1>1, <2>1 DEF Nested
  <2>3. ASSUME records[a].namespace # None
        PROVE  /\ records[a].namespace \in records'[a].ids
               /\ \A s \in cloud' : s.id = records[a].namespace => s.kind # "service"
    <3>1. /\ records[a].namespace \in records[a].ids
          /\ \A s \in cloud : s.id = records[a].namespace => s.kind # "service"
      BY <1>1, <2>1, <2>3 DEF Nested
    <3>2. records[a].namespace \notin gone
      BY <3>1 DEF Retired
    <3>3. records[a].namespace # new
      BY <1>9, <2>1, <3>1
    <3> QED BY <1>2, <1>3, <1>4, <3>1, <3>2, <3>3
  <2> QED BY <2>1, <2>2, <2>3
<1>12. Recorded'
  <2> SUFFICES ASSUME NEW r \in cloud'
               PROVE  /\ r.kind # "log-group" => records'[r.pr] # None /\ r.id \in records'[r.pr].ids
                      /\ r.kind = "log-group" /\ wiring.namespaced =>
                           records'[r.pr] # None /\ r.parent = records'[r.pr].namespace
    BY DEF Recorded
  <2>1. CASE r = made
    BY <1>2, <1>3, <2>1
  <2>2. CASE r \in cloud /\ r.id \notin gone
    <3>1. r.pr \in PRs
      BY <1>1, <2>2, Types
    <3> QED BY <1>0, <1>1, <1>3, <2>2, <3>1 DEF Recorded
  <2> QED BY <1>4, <2>1, <2>2
<1>13. Torn'
  BY <1>0, <1>1, <1>3, NoneFacts DEF Torn, CTyped
<1>14. Serves(p, {sha})
  <2>1. \A r \in cloud : r.pr = p /\ r.kind = "service" => r.id \in gone
    BY <1>1 DEF Recorded, Retired
  <2>2. Heads(p)' = {sha}
    <3>1. made \in cloud'
      BY <1>0
    <3>2. \A r \in cloud' : r.pr = p /\ r.kind = "service" => r = made
      BY <1>4, <2>1
    <3> QED BY <1>2, <3>1, <3>2 DEF Heads, ServicesOf, Of
  <2>3. ASSUME NEW q \in PRs \ {p} PROVE Heads(q)' = Heads(q)
    <3>1. \A r \in cloud : r.pr = q => r \in cloud'
      BY <1>0, <1>1, <1>5 DEF Deleted, Owned
    <3>2. \A r \in cloud' : r.pr = q => r \in cloud
      BY <1>2, <1>4
    <3>3. ServicesOf(q)' = ServicesOf(q)
      BY <3>1, <3>2 DEF ServicesOf, Of
    <3> QED BY <3>3 DEF Heads
  <2> QED BY <2>2, <2>3 DEF Serves
<1>15. OwnData'
  BY <1>0, <1>1, <1>3, <1>14, ProvidedKeeps
<1> QED BY <1>7, <1>8, <1>10, <1>11, <1>12, <1>13, <1>14, <1>15 DEF CInv

LEMMA BringUpStep ==
  ASSUME CInv, NEW p \in PRs, NEW sha \in Shas,
         BringUp(p, sha, wiring.namespaced, wiring.seedPolicy), wiring' = wiring,
         removal' = [removal EXCEPT ![p] = None]
  PROVE  CInv' /\ Serves(p, {sha})
<1> DEFINE namespace == IF wiring.namespaced THEN sequence + 1 ELSE None
           database == sequence + (IF wiring.namespaced THEN 2 ELSE 1)
           service == database + 1
           data == Resource(database, "database", namespace, p, None)
           served == Resource(service, "service", namespace, p, sha)
           space == Resource(namespace, "namespace", None, p, None)
           made == {data, served} \union (IF wiring.namespaced THEN {space} ELSE {})
<1>0. /\ records[p] = None
      /\ cloud' = cloud \union made
      /\ sequence' = service
      /\ records' = [records EXCEPT ![p] = [ids |-> {r.id : r \in made}, namespace |-> namespace]]
      /\ Provision(p, wiring.seedPolicy, sha.schema)
  BY DEF BringUp
<1>1. /\ CTyped /\ Numbered /\ Owned /\ Nested /\ Recorded /\ Torn /\ OwnData
      /\ records \in [PRs -> Records \union {None}] /\ sequence \in Nat
      /\ database \in Nat /\ service \in Nat /\ service = database + 1 /\ database > sequence
      /\ wiring.namespaced => namespace = sequence + 1 /\ namespace \in Nat /\ database = namespace + 1
      /\ ~wiring.namespaced => namespace = None
  BY DEF CInv, CTyped
<1>2. /\ data \in Resources /\ data.id = database /\ data.kind = "database"
      /\ data.parent = namespace /\ data.pr = p
      /\ served \in Resources /\ served.id = service /\ served.kind = "service"
      /\ served.parent = namespace /\ served.pr = p /\ served.sha = sha
      /\ wiring.namespaced =>
           /\ space \in Resources /\ space.id = namespace /\ space.kind = "namespace"
           /\ space.parent = None /\ space.pr = p
  <2> HIDE DEF namespace, database, service
  <2>1. namespace \in Nat \union {None}
    BY <1>1, WiringFacts DEF CTyped
  <2>2. "database" \in Kinds /\ "service" \in Kinds /\ "namespace" \in Kinds
    BY DEF Kinds
  <2>3. /\ data \in Resources /\ data.id = database /\ data.kind = "database"
        /\ data.parent = namespace /\ data.pr = p
    BY <1>1, <2>1, <2>2, ResourceFacts
  <2>4. /\ served \in Resources /\ served.id = service /\ served.kind = "service"
        /\ served.parent = namespace /\ served.pr = p /\ served.sha = sha
    BY <1>1, <2>1, <2>2, ResourceFacts
  <2>5. ASSUME wiring.namespaced
        PROVE  /\ space \in Resources /\ space.id = namespace /\ space.kind = "namespace"
               /\ space.parent = None /\ space.pr = p
    <3>1. namespace \in Nat /\ None \in Nat \union {None} /\ None \in Shas \union {None}
      BY <1>1, <2>5
    <3>2. /\ Resource(namespace, "namespace", None, p, None) \in Resources
          /\ Resource(namespace, "namespace", None, p, None).id = namespace
          /\ Resource(namespace, "namespace", None, p, None).kind = "namespace"
          /\ Resource(namespace, "namespace", None, p, None).parent = None
          /\ Resource(namespace, "namespace", None, p, None).pr = p
      BY <2>2, <3>1, BoundAssumption DEF Resource, Resources
    <3> QED BY <3>2
  <2> QED BY <2>3, <2>4, <2>5
<1>3. DEFINE ids == {r.id : r \in made}
<1>4. /\ \A r \in made : /\ r \in Resources /\ r.pr = p /\ r.kind # "log-group"
                         /\ r.id \in Nat /\ r.id > sequence /\ r.id <= service
                         /\ (r.parent = None \/ (r.parent = namespace /\ wiring.namespaced))
                         /\ r.id \in ids
                         /\ r.kind = "service" => r = served
      /\ served \in made
      /\ \A r, s \in made : r.id = s.id => r = s
      /\ \A n \in ids : n \in Nat /\ n > sequence /\ n <= service
      /\ wiring.namespaced => namespace \in ids /\ space \in made
  <2>1. CASE wiring.namespaced
    <3>1. made = {data, served, space} BY <2>1
    <3> HIDE DEF data, served, space, made, namespace, database, service
    <3>2. \A r \in made : /\ r \in Resources /\ r.pr = p /\ r.kind # "log-group"
                          /\ r.id \in Nat /\ r.id > sequence /\ r.id <= service
                          /\ (r.parent = None \/ (r.parent = namespace /\ wiring.namespaced))
                          /\ r.kind = "service" => r = served
      BY <1>1, <1>2, <2>1, <3>1
    <3>3. \A r, s \in made : r.id = s.id => r = s
      BY <1>1, <1>2, <2>1, <3>1
    <3>4. \A r \in made : r.id \in ids
      OBVIOUS
    <3>5. \A n \in ids : \E r \in made : n = r.id
      OBVIOUS
    <3>6. served \in made /\ (wiring.namespaced => space \in made)
      BY <2>1, <3>1
    <3> HIDE DEF ids
    <3>7. \A n \in ids : n \in Nat /\ n > sequence /\ n <= service
      BY <3>2, <3>5
    <3>8. wiring.namespaced => namespace \in ids
      BY <1>2, <3>4, <3>6
    <3> QED BY <3>2, <3>3, <3>4, <3>6, <3>7, <3>8
  <2>2. CASE ~wiring.namespaced
    <3>1. made = {data, served} BY <2>2
    <3> HIDE DEF data, served, space, made, namespace, database, service
    <3>2. \A r \in made : /\ r \in Resources /\ r.pr = p /\ r.kind # "log-group"
                          /\ r.id \in Nat /\ r.id > sequence /\ r.id <= service
                          /\ (r.parent = None \/ (r.parent = namespace /\ wiring.namespaced))
                          /\ r.kind = "service" => r = served
      BY <1>1, <1>2, <2>2, <3>1
    <3>3. \A r, s \in made : r.id = s.id => r = s
      BY <1>1, <1>2, <2>2, <3>1
    <3>4. \A r \in made : r.id \in ids
      OBVIOUS
    <3>5. \A n \in ids : \E r \in made : n = r.id
      OBVIOUS
    <3>6. served \in made /\ (wiring.namespaced => space \in made)
      BY <2>2, <3>1
    <3> HIDE DEF ids
    <3>7. \A n \in ids : n \in Nat /\ n > sequence /\ n <= service
      BY <3>2, <3>5
    <3>8. wiring.namespaced => namespace \in ids
      BY <1>2, <3>4, <3>6
    <3> QED BY <3>2, <3>3, <3>4, <3>6, <3>7, <3>8
  <2> QED BY <2>1, <2>2
<1>5. /\ records'[p] = [ids |-> ids, namespace |-> namespace]
      /\ records'[p].ids = ids /\ records'[p].namespace = namespace
      /\ records'[p] \in Records /\ records'[p] # None
      /\ \A q \in PRs : q # p => records'[q] = records[q]
  <2>1. records'[p] = [ids |-> ids, namespace |-> namespace] /\ \A q \in PRs : q # p => records'[q] = records[q]
    BY <1>0, <1>1
  <2> HIDE DEF ids, namespace
  <2>2. ids \in SUBSET Nat /\ namespace \in Nat \union {None}
    BY <1>1, <1>4
  <2>3. [ids |-> ids, namespace |-> namespace] \in Records
    BY <2>2 DEF Records
  <2> QED BY <2>1, <2>3, NoneFacts
<1> HIDE DEF data, served, space, made, ids, namespace, database, service
<1>6. \A r \in cloud' : r \in made \/ r \in cloud
  BY <1>0
<1>7. \A r \in cloud : r.id <= sequence /\ r.id \in Nat
  BY <1>1, Types DEF Numbered
<1>8. CTyped'
  <2>1. cloud' \in SUBSET Resources
    BY <1>0, <1>1, <1>4 DEF CTyped
  <2>2. perEnv' \in [PRs -> Datasets \union {None}]
    <3>1. sha.schema \in Schemas
      BY ShaAssumption
    <3>2. FreshDataset(sha.schema) \in Datasets
      BY <3>1 DEF FreshDataset, Datasets
    <3> QED BY <1>0, <1>1, <3>2 DEF Provision, CTyped
  <2>3. records' \in [PRs -> Records \union {None}]
    BY <1>0, <1>1, <1>5
  <2>4. removal' \in [PRs -> {None, "teardown", "sweep"}]
    BY <1>1 DEF CTyped
  <2> QED BY <1>0, <1>1, <2>1, <2>2, <2>3, <2>4 DEF CTyped
<1>9. Numbered'
  <2>1. \A r \in cloud' : r.id <= sequence' /\ (r.parent # None => r.parent <= sequence')
    <3>1. \A r \in cloud : r.parent # None => r.parent <= sequence /\ r.parent \in Nat
      BY <1>1, Types DEF Numbered
    <3> QED BY <1>0, <1>1, <1>4, <1>6, <1>7, <3>1
  <2>2. \A r, s \in cloud' : r.id = s.id => r = s
    <3>1. \A r, s \in cloud : r.id = s.id => r = s
      BY <1>1 DEF Numbered
    <3> QED BY <1>1, <1>4, <1>6, <1>7, <3>1
  <2>3. ASSUME NEW q \in PRs, records'[q] # None, NEW n \in records'[q].ids
        PROVE  n <= sequence'
    <3>1. CASE q = p
      BY <1>0, <1>4, <1>5, <2>3, <3>1
    <3>2. CASE q # p
      <4>1. n \in Nat /\ n <= sequence
        BY <1>1, <1>5, <2>3, <3>2, Types DEF Numbered
      <4> QED BY <1>0, <1>1, <4>1
    <3> QED BY <3>1, <3>2
  <2> QED BY <2>1, <2>2, <2>3 DEF Numbered
<1>10. ASSUME NEW q \in PRs, records[q] # None, NEW n \in records[q].ids
       PROVE  n \in Nat /\ n <= sequence /\ n \notin ids
  <2>1. n \in Nat /\ n <= sequence
    BY <1>1, <1>10, Types DEF Numbered
  <2> QED BY <1>1, <1>4, <2>1
<1>11. Owned'
  <2>1. ASSUME NEW a \in PRs, NEW b \in PRs, records'[a] # None, records'[b] # None, a # b,
               NEW n \in records'[a].ids
        PROVE  n \notin records'[b].ids
    <3>1. CASE a = p
      BY <1>5, <1>10, <2>1, <3>1
    <3>2. CASE b = p
      BY <1>5, <1>10, <2>1, <3>2
    <3>3. CASE a # p /\ b # p
      BY <1>1, <1>5, <2>1, <3>3 DEF Owned
    <3> QED BY <3>1, <3>2, <3>3
  <2>2. ASSUME NEW r \in cloud', NEW a \in PRs, records'[a] # None,
               r.id \in records'[a].ids \/ r.parent \in records'[a].ids
        PROVE  r.pr = a
    <3>1. CASE r \in made
      <4>1. CASE a = p BY <1>4, <3>1, <4>1
      <4>2. CASE a # p
        <5>1. records[a] # None /\ (r.id \in records[a].ids \/ r.parent \in records[a].ids)
          BY <1>5, <2>2, <4>2
        <5>2. r.id \in ids /\ (r.parent = None \/ r.parent \in ids)
          BY <1>4, <3>1
        <5>3. None \notin records[a].ids
          BY <1>1, <5>1, Types
        <5> QED BY <1>10, <5>1, <5>2, <5>3
      <4> QED BY <4>1, <4>2
    <3>2. CASE r \in cloud
      <4>1. CASE a = p
        <5>1. r.id \in ids \/ r.parent \in ids
          BY <1>5, <2>2, <4>1
        <5>2. r.parent # None => r.parent \in Nat /\ r.parent <= sequence
          BY <1>1, <3>2, Types DEF Numbered
        <5>3. None \notin ids
          BY <1>4, NoneFacts
        <5> QED BY <1>1, <1>4, <1>7, <3>2, <5>1, <5>2, <5>3
      <4>2. CASE a # p
        BY <1>1, <1>5, <2>2, <3>2, <4>2 DEF Owned
      <4> QED BY <4>1, <4>2
    <3> QED BY <1>6, <3>1, <3>2
  <2>3. ASSUME NEW r \in cloud', NEW s \in cloud', r.parent = s.id
        PROVE  r.pr = s.pr
    <3>1. s.id \in Nat /\ r.parent # None
      BY <1>4, <1>6, <1>7, <2>3, NoneFacts
    <3>2. CASE r \in made /\ s \in made
      BY <1>4, <3>2
    <3>3. CASE r \in made /\ s \in cloud
      BY <1>1, <1>4, <1>7, <2>3, <3>1, <3>3
    <3>4. CASE r \in cloud /\ s \in made
      <4>1. r.parent \in Nat /\ r.parent <= sequence
        BY <1>1, <3>1, <3>4, Types DEF Numbered
      <4> QED BY <1>1, <1>4, <2>3, <3>4, <4>1
    <3>5. CASE r \in cloud /\ s \in cloud
      BY <1>1, <2>3, <3>5 DEF Owned
    <3> QED BY <1>6, <3>2, <3>3, <3>4, <3>5
  <2> QED BY <2>1, <2>2, <2>3 DEF Owned
<1>12. Nested'
  <2> SUFFICES ASSUME NEW a \in PRs, records'[a] # None
               PROVE  /\ records'[a].namespace # None =>
                           /\ records'[a].namespace \in records'[a].ids
                           /\ \A s \in cloud' : s.id = records'[a].namespace => s.kind # "service"
                      /\ wiring.namespaced => records'[a].namespace # None
    BY DEF Nested
  <2>1. CASE a = p
    <3>1. wiring.namespaced => namespace # None
      BY <1>1, NoneFacts
    <3>2. ASSUME wiring.namespaced, NEW s \in cloud', s.id = namespace PROVE s.kind # "service"
      <4>1. CASE s \in cloud
        BY <1>1, <1>7, <3>2, <4>1
      <4>2. CASE s \in made
        BY <1>1, <1>2, <1>4, <3>2, <4>2
      <4> QED BY <1>6, <4>1, <4>2
    <3> QED BY <1>1, <1>4, <1>5, <2>1, <3>1, <3>2
  <2>2. CASE a # p
    <3>1. records[a] # None /\ records'[a] = records[a]
      BY <1>5, <2>2
    <3>2. wiring.namespaced => records[a].namespace # None
      BY <1>1, <3>1 DEF Nested
    <3>3. ASSUME records[a].namespace # None
          PROVE  /\ records[a].namespace \in records[a].ids
                 /\ \A s \in cloud' : s.id = records[a].namespace => s.kind # "service"
      <4>1. /\ records[a].namespace \in records[a].ids
            /\ \A s \in cloud : s.id = records[a].namespace => s.kind # "service"
        BY <1>1, <3>1, <3>3 DEF Nested
      <4>2. \A s \in made : s.id # records[a].namespace
        BY <1>4, <1>10, <3>1, <4>1
      <4> QED BY <1>6, <4>1, <4>2
    <3> QED BY <3>1, <3>2, <3>3
  <2> QED BY <2>1, <2>2
<1>13. Recorded'
  <2> SUFFICES ASSUME NEW r \in cloud'
               PROVE  /\ r.kind # "log-group" => records'[r.pr] # None /\ r.id \in records'[r.pr].ids
                      /\ r.kind = "log-group" /\ wiring.namespaced =>
                           records'[r.pr] # None /\ r.parent = records'[r.pr].namespace
    BY DEF Recorded
  <2>1. CASE r \in made
    BY <1>4, <1>5, <2>1
  <2>2. CASE r \in cloud
    <3>1. r.pr \in PRs
      BY <1>1, <2>2, Types
    <3> QED BY <1>0, <1>1, <1>5, <2>2, <3>1 DEF Recorded
  <2> QED BY <1>6, <2>1, <2>2
<1>14. Torn'
  BY <1>0, <1>1, <1>5, NoneFacts DEF Torn, CTyped
<1>15. Serves(p, {sha})
  <2>1. \A r \in cloud : r.pr = p => r.kind # "service"
    BY <1>0, <1>1 DEF Recorded
  <2>2. Heads(p)' = {sha}
    <3>1. served \in cloud'
      BY <1>0, <1>4
    <3>2. \A r \in cloud' : r.pr = p /\ r.kind = "service" => r = served
      BY <1>4, <1>6, <2>1
    <3> QED BY <1>2, <3>1, <3>2 DEF Heads, ServicesOf, Of
  <2>3. ASSUME NEW q \in PRs \ {p} PROVE Heads(q)' = Heads(q)
    <3>1. ServicesOf(q)' = ServicesOf(q)
      BY <1>0, <1>4, <1>6 DEF ServicesOf, Of
    <3> QED BY <3>1 DEF Heads
  <2> QED BY <2>2, <2>3 DEF Serves
<1>16. OwnData'
  BY <1>1, <1>5, <1>15, ProvidedKeeps, <1>0
<1> QED BY <1>8, <1>9, <1>11, <1>12, <1>13, <1>14, <1>15, <1>16 DEF CInv

\* What is deleted with a record, or labelled as one of those who are due, is
\* nobody else's.
LEMMA OthersKept ==
  ASSUME CInv, NEW gone \in SUBSET PRs, NEW ids,
         cloud' = Deleted(ids),
         \A n \in ids : \/ \E q \in gone : records[q] # None /\ n \in records[q].ids
                       \/ \E r \in cloud : r.id = n /\ r.pr \in gone
  PROVE  \A q \in PRs \ gone : Of(q)' = Of(q)
<1> SUFFICES ASSUME NEW q \in PRs \ gone PROVE Of(q)' = Of(q)
  OBVIOUS
<1>1. ASSUME NEW r \in cloud, r.pr = q PROVE r \in cloud'
  <2>1. SUFFICES ASSUME r.id \in ids \/ r.parent \in ids PROVE FALSE
    BY DEF Deleted
  <2>2. ASSUME NEW a \in gone, records[a] # None, r.id \in records[a].ids \/ r.parent \in records[a].ids
        PROVE  FALSE
    BY <1>1, <2>2 DEF CInv, Owned
  <2>3. ASSUME NEW s \in cloud, s.pr \in gone, r.id = s.id \/ r.parent = s.id
        PROVE  FALSE
    <3>1. r.id = s.id => r = s
      BY DEF CInv, Numbered
    <3>2. r.parent = s.id => r.pr = s.pr
      BY DEF CInv, Owned
    <3> QED BY <1>1, <2>3, <3>1, <3>2
  <2> QED BY <2>1, <2>2, <2>3
<1>2. \A r \in cloud' : r \in cloud
  BY DEF Deleted
<1> QED BY <1>1, <1>2 DEF Of

LEMMA DestroyStep ==
  ASSUME CInv, NEW p \in PRs, Destroy(p), wiring' = wiring,
         removal' = [removal EXCEPT ![p] = "teardown"]
  PROVE  CInv' /\ Serves(p, {})
<1>1. /\ CTyped /\ Numbered /\ Owned /\ Nested /\ Recorded /\ Torn /\ OwnData
  BY DEF CInv
<1>2. CASE records[p] = None /\ UNCHANGED <<cloudVars, seedVars, records>>
  <2>1. UNCHANGED <<cloud, sequence, perEnv, records, wiring>>
    BY <1>2 DEF cloudVars, seedVars
  <2>2. CTyped'
    BY <1>1, <2>1 DEF CTyped
  <2>3. Numbered' /\ Owned' /\ Nested' /\ Recorded'
    BY <1>1, <2>1 DEF Numbered, Owned, Nested, Recorded
  <2>4. Torn'
    BY <1>1, <1>2, <2>1 DEF Torn, CTyped
  <2>5. \A q \in PRs : Heads(q)' = Heads(q)
    BY <2>1 DEF Heads, ServicesOf, Of
  <2>6. OwnData'
    BY <1>1, <2>1, <2>5 DEF OwnData
  <2>7. Heads(p) = {}
    <3>1. ServicesOf(p) = {}
      BY <1>1, <1>2 DEF ServicesOf, Of, Recorded
    <3> QED BY <3>1 DEF Heads
  <2> QED BY <2>2, <2>3, <2>4, <2>5, <2>6, <2>7 DEF CInv, Serves
<1>3. CASE /\ records[p] # None /\ cloud' = Deleted(records[p].ids)
           /\ records' = [records EXCEPT ![p] = None]
           /\ Release(p) /\ UNCHANGED <<sequence, shared>>
  <2>1. /\ records \in [PRs -> Records \union {None}]
        /\ records'[p] = None /\ \A q \in PRs : q # p => records'[q] = records[q]
    BY <1>1, <1>3 DEF CTyped
  <2>2. CTyped'
    <3>1. cloud' \in SUBSET Resources
      BY <1>1, <1>3 DEF CTyped, Deleted
    <3>2. records' \in [PRs -> Records \union {None}] /\ perEnv' \in [PRs -> Datasets \union {None}]
      BY <1>1, <1>3 DEF CTyped, Release
    <3> QED BY <1>1, <1>3, <3>1, <3>2 DEF CTyped
  <2>3. Faded
    BY <1>3, DeletedFades
  <2>4. \A r \in cloud' : r \in cloud /\ r.id \notin records[p].ids /\ r.parent \notin records[p].ids
    BY <1>3 DEF Deleted
  <2>5. \A r \in cloud' : r.pr = p => r.kind = "log-group" /\ ~wiring.namespaced
    <3> SUFFICES ASSUME NEW r \in cloud', r.pr = p PROVE r.kind = "log-group" /\ ~wiring.namespaced
      OBVIOUS
    <3>1. r.kind = "log-group"
      BY <1>1, <2>4 DEF Recorded
    <3>2. wiring.namespaced => records[p].namespace \in records[p].ids
      BY <1>1, <1>3 DEF Nested
    <3> QED BY <1>1, <2>4, <3>1, <3>2 DEF Recorded
  <2>6. Numbered' /\ Owned' /\ Nested' /\ Recorded'
    <3>1. \A r, s \in cloud' : r.id = s.id => r = s
      BY <1>1, <2>4 DEF Numbered
    <3>2. \A q \in PRs : records'[q] \in {records[q], None}
      BY <2>1
    <3>3. \A r \in cloud' : records'[r.pr] = None /\ records[r.pr] # None =>
            r.kind = "log-group" /\ ~wiring.namespaced
      <4>1. \A r \in cloud' : r.pr \in PRs
        BY <1>1, <2>4, Types
      <4> QED BY <2>1, <2>5, <4>1
    <3> QED BY <1>1, <1>3, <2>2, <2>3, <3>1, <3>2, <3>3, FadedKeeps
  <2>7. Torn'
    BY <1>1, <2>1 DEF Torn, CTyped
  <2>8. Heads(p)' = {}
    <3>1. ServicesOf(p)' = {}
      BY <2>5 DEF ServicesOf, Of
    <3> QED BY <3>1 DEF Heads
  <2>9. \A q \in PRs \ {p} : Heads(q)' = Heads(q)
    <3>1. \A q \in PRs \ {p} : Of(q)' = Of(q)
      BY <1>3, OthersKept
    <3> QED BY <3>1 DEF Heads, ServicesOf
  <2>10. OwnData'
    <3>1. perEnv \in [PRs -> Datasets \union {None}] /\ perEnv' = [perEnv EXCEPT ![p] = None]
      BY <1>1, <1>3 DEF CTyped, Release
    <3> QED BY <1>1, <2>1, <2>9, <3>1 DEF OwnData
  <2> QED BY <2>2, <2>6, <2>7, <2>8, <2>9, <2>10 DEF CInv, Serves
<1> QED BY <1>2, <1>3 DEF Destroy

\* The platform's log group comes in the namespace of an environment that is there.
LEMMA TrafficStep ==
  ASSUME CInv, NEW p \in PRs, Traffic(p)
  PROVE  CInv' /\ \A q \in PRs : Heads(q)' = Heads(q)
<1> DEFINE made == Resource(sequence + 1, "log-group", records[p].namespace, p, None)
<1>0. /\ CTyped /\ Numbered /\ Owned /\ Nested /\ Recorded /\ Torn /\ OwnData
      /\ records[p] # None /\ cloud' = cloud \union {made} /\ sequence' = sequence + 1
      /\ UNCHANGED <<wiring, perEnv, records, removal>> /\ sequence \in Nat
  BY DEF CInv, CTyped, Traffic, seedVars
<1>1. /\ made \in Resources /\ made.id = sequence + 1 /\ made.kind = "log-group"
      /\ made.parent = records[p].namespace /\ made.pr = p
  BY <1>0, Types, BoundAssumption DEF Kinds, Resource, Resources
<1> HIDE DEF made
<1>2. CTyped'
  BY <1>0, <1>1 DEF CTyped
<1>3. \A r \in cloud : /\ r.id \in Nat /\ r.id <= sequence
                       /\ r.parent # None => r.parent \in Nat /\ r.parent <= sequence
  BY <1>0, Types DEF Numbered
<1>4. \A q \in PRs : records[q] # None => \A n \in records[q].ids : n \in Nat /\ n <= sequence
  BY <1>0, Types DEF Numbered
<1>5. records[p].namespace # None =>
        /\ records[p].namespace \in records[p].ids
        /\ records[p].namespace \in Nat /\ records[p].namespace <= sequence
  BY <1>0, <1>4 DEF Nested
<1>6. Numbered'
  <2>1. \A r \in cloud' : r.id <= sequence' /\ (r.parent # None => r.parent <= sequence')
    BY <1>0, <1>1, <1>3, <1>5
  <2>2. \A r, s \in cloud' : r.id = s.id => r = s
    BY <1>0, <1>1, <1>3 DEF Numbered
  <2>3. \A q \in PRs : records'[q] # None => \A n \in records'[q].ids : n <= sequence'
    BY <1>0, <1>4
  <2> QED BY <2>1, <2>2, <2>3 DEF Numbered
<1>7. Owned'
  <2>1. \A a, b \in PRs : records'[a] # None /\ records'[b] # None /\ a # b =>
          \A n \in records'[a].ids : n \notin records'[b].ids
    BY <1>0 DEF Owned
  <2>2. ASSUME NEW r \in cloud', NEW a \in PRs, records'[a] # None,
               r.id \in records'[a].ids \/ r.parent \in records'[a].ids
        PROVE  r.pr = a
    <3>1. CASE r = made
      <4>1. sequence + 1 \notin records[a].ids
        BY <1>0, <1>4, <2>2
      <4>2. records[p].namespace \in records[a].ids
        BY <1>0, <1>1, <2>2, <3>1, <4>1
      <4>3. records[p].namespace # None
        BY <1>0, <2>2, <4>2, Types
      <4> QED BY <1>0, <1>1, <1>5, <2>2, <3>1, <4>2, <4>3 DEF Owned
    <3>2. CASE r \in cloud
      BY <1>0, <2>2, <3>2 DEF Owned
    <3> QED BY <1>0, <3>1, <3>2
  <2>3. ASSUME NEW r \in cloud', NEW s \in cloud', r.parent = s.id
        PROVE  r.pr = s.pr
    <3>1. s.id \in Nat /\ r.parent # None
      BY <1>0, <1>1, <1>3, <2>3, NoneFacts
    <3>2. CASE s = made
      BY <1>0, <1>1, <1>3, <1>5, <2>3, <3>1, <3>2
    <3>3. CASE r = made /\ s \in cloud
      <4>1. s.id \in records[p].ids
        BY <1>1, <1>5, <2>3, <3>1, <3>3
      <4> QED BY <1>0, <1>1, <3>3, <4>1 DEF Owned
    <3>4. CASE r \in cloud /\ s \in cloud
      BY <1>0, <2>3, <3>4 DEF Owned
    <3> QED BY <1>0, <3>2, <3>3, <3>4
  <2> QED BY <2>1, <2>2, <2>3 DEF Owned
<1>8. Nested'
  BY <1>0, <1>1 DEF Nested
<1>9. Recorded'
  BY <1>0, <1>1 DEF Recorded
<1>10. \A q \in PRs : Heads(q)' = Heads(q)
  <2>1. \A q \in PRs : ServicesOf(q)' = ServicesOf(q)
    BY <1>0, <1>1 DEF ServicesOf, Of
  <2> QED BY <2>1 DEF Heads
<1>11. Torn' /\ OwnData'
  BY <1>0, <1>10 DEF Torn, OwnData
<1> QED BY <1>2, <1>6, <1>7, <1>8, <1>9, <1>10, <1>11 DEF CInv

LEMMA UseStep ==
  ASSUME CInv, NEW p \in PRs, Use(p)
  PROVE  CInv' /\ \A q \in PRs : Heads(q)' = Heads(q)
<1>1. /\ CTyped /\ Numbered /\ Owned /\ Nested /\ Recorded /\ Torn /\ OwnData
      /\ UNCHANGED <<wiring, cloud, sequence, records, removal>>
      /\ perEnv \in [PRs -> Datasets \union {None}]
  BY DEF CInv, CTyped, Use, Write, cloudVars
<1>2. \A q \in PRs : Heads(q)' = Heads(q)
  BY <1>1 DEF Heads, ServicesOf, Of
<1>3. Numbered' /\ Owned' /\ Nested' /\ Recorded' /\ Torn'
  BY <1>1 DEF Numbered, Owned, Nested, Recorded, Torn
<1>4. CASE perEnv[p] = None /\ UNCHANGED perEnv
  BY <1>1, <1>2, <1>3, <1>4 DEF CInv, CTyped, OwnData
<1>5. CASE perEnv[p] # None /\ perEnv' = [perEnv EXCEPT ![p].writer = p]
  <2>1. perEnv[p] \in Datasets
    BY <1>1, <1>5
  <2>2. perEnv'[p] = [schema |-> perEnv[p].schema, writer |-> p]
    BY <1>1, <1>5, <2>1 DEF Datasets
  <2>3. perEnv'[p] \in Datasets
    BY <2>1, <2>2 DEF Datasets
  <2>4. \A q \in PRs : q # p => perEnv'[q] = perEnv[q]
    BY <1>1, <1>5
  <2>5. perEnv' \in [PRs -> Datasets \union {None}]
    BY <1>1, <1>5, <2>3
  <2>6. perEnv'[p] # None /\ perEnv'[p].schema = perEnv[p].schema /\ perEnv'[p].writer = p
    BY <2>2, <2>3, NoneFacts
  <2>7. OwnData'
    BY <1>1, <1>2, <1>5, <2>4, <2>6 DEF OwnData
  <2> QED BY <1>1, <1>2, <1>3, <2>5, <2>7 DEF CInv, CTyped
<1> QED BY <1>4, <1>5 DEF Use, Write

LEMMA OlderFacts ==
  ASSUME NEW r \in Resources
  PROVE  /\ Older(r) \in Resources
         /\ Older(r).id = r.id /\ Older(r).kind = r.kind /\ Older(r).parent = r.parent
         /\ Older(r).pr = r.pr /\ Older(r).sha = r.sha
<1>1. Older(r) = [id |-> r.id, kind |-> r.kind, parent |-> r.parent, pr |-> r.pr, sha |-> r.sha,
                  age |-> IF r.age < TTL THEN r.age + 1 ELSE r.age]
  BY DEF Older, Resources
<1>2. (IF r.age < TTL THEN r.age + 1 ELSE r.age) \in 0..TTL
  BY BoundAssumption DEF Resources
<1> QED BY <1>1, <1>2 DEF Resources

LEMMA TickStep ==
  ASSUME CInv, Tick
  PROVE  CInv' /\ \A q \in PRs : Heads(q)' = Heads(q)
<1>1. /\ CTyped /\ Numbered /\ Owned /\ Nested /\ Recorded /\ Torn /\ OwnData
      /\ UNCHANGED <<wiring, sequence, perEnv, records, removal>>
      /\ cloud' = {Older(r) : r \in cloud}
  BY DEF CInv, Tick, seedVars
<1>2. \A r \in cloud :
        /\ Older(r) \in Resources
        /\ Older(r).id = r.id /\ Older(r).kind = r.kind /\ Older(r).parent = r.parent
        /\ Older(r).pr = r.pr /\ Older(r).sha = r.sha
  BY <1>1, OlderFacts DEF CTyped
<1>3. CTyped'
  <2>1. cloud' \in SUBSET Resources
    BY <1>1, <1>2
  <2> QED BY <1>1, <2>1 DEF CTyped
<1>4. Faded
  BY <1>1, <1>2 DEF Faded
<1>5. \A r, s \in cloud' : r.id = s.id => r = s
  BY <1>1, <1>2 DEF Numbered
<1>6. Numbered' /\ Owned' /\ Nested' /\ Recorded'
  <2>1. \A p \in PRs : records'[p] \in {records[p], None}
    BY <1>1
  <2> QED BY <1>1, <1>3, <1>4, <1>5, <2>1, FadedKeeps
<1>7. ASSUME NEW q \in PRs PROVE Heads(q)' = Heads(q)
  <2>1. \A r \in ServicesOf(q) : \E t \in ServicesOf(q)' : t.sha = r.sha
    BY <1>1, <1>2 DEF ServicesOf, Of
  <2>2. \A t \in ServicesOf(q)' : \E r \in ServicesOf(q) : t.sha = r.sha
    BY <1>1, <1>2 DEF ServicesOf, Of
  <2> QED BY <2>1, <2>2 DEF Heads
<1>8. Torn' /\ OwnData'
  BY <1>1, <1>7 DEF Torn, OwnData
<1> QED BY <1>3, <1>6, <1>7, <1>8 DEF CInv

\* The sweep leaves those it reaps nothing, and the others as they were.
LEMMA SweepStep ==
  ASSUME CInv, Sweep
  PROVE  /\ CInv'
         /\ \A q \in PRs : /\ Due(q) => Heads(q)' = {} /\ removal'[q] = "sweep"
                           /\ ~Due(q) => Heads(q)' = Heads(q) /\ removal'[q] = removal[q]
<1> DEFINE due == {p \in PRs : Due(p)}
           ids == {r.id : r \in UNION {Of(p) : p \in due}}
<1>1. /\ CTyped /\ Numbered /\ Owned /\ Nested /\ Recorded /\ Torn /\ OwnData
      /\ UNCHANGED <<wiring, sequence>>
      /\ cloud' = Deleted(ids)
      /\ records' = [p \in PRs |-> IF p \in due THEN None ELSE records[p]]
      /\ perEnv' = [p \in PRs |-> IF p \in due THEN None ELSE perEnv[p]]
      /\ removal' = [p \in PRs |-> IF p \in due THEN "sweep" ELSE removal[p]]
  BY DEF CInv, Sweep, Forget
<1>2. \A r \in cloud : r.pr \in due => r.id \in ids
  BY DEF Of
<1>3. \A n \in ids : \E r \in cloud : r.id = n /\ r.pr \in due
  BY DEF Of
<1>4. due \in SUBSET PRs
  OBVIOUS
<1> HIDE DEF ids
<1>5. \A r \in cloud' : r \in cloud /\ r.pr \notin due
  BY <1>1, <1>2 DEF Deleted
<1>6. \A q \in PRs \ due : Of(q)' = Of(q)
  BY <1>1, <1>3, <1>4, OthersKept
<1>7. \A q \in due : Of(q)' = {}
  BY <1>5 DEF Of
<1>8. \A q \in PRs : /\ q \in due => Heads(q)' = {}
                     /\ q \notin due => Heads(q)' = Heads(q)
  BY <1>6, <1>7 DEF Heads, ServicesOf
<1> HIDE DEF due
<1>9. CTyped'
  <2>1. cloud' \in SUBSET Resources
    BY <1>1, <1>5 DEF CTyped
  <2> QED BY <1>1, <2>1 DEF CTyped
<1>10. Numbered' /\ Owned' /\ Nested' /\ Recorded'
  <2>1. \A r, s \in cloud' : r.id = s.id => r = s
    BY <1>1, <1>5 DEF Numbered
  <2>2. \A q \in PRs : records'[q] \in {records[q], None}
    BY <1>1
  <2>3. \A r \in cloud' : r.pr \in PRs
    BY <1>1, <1>5, Types
  <2>4. \A r \in cloud' : ~(records'[r.pr] = None /\ records[r.pr] # None)
    BY <1>1, <1>5, <2>3
  <2> QED BY <1>1, <1>9, <2>1, <2>2, <2>4, DeletedFades, FadedKeeps
<1>11. Torn'
  BY <1>1, NoneFacts DEF Torn, CTyped
<1>12. OwnData'
  BY <1>1, <1>8 DEF OwnData
<1>13. \A q \in PRs : /\ Due(q) => Heads(q)' = {} /\ removal'[q] = "sweep"
                      /\ ~Due(q) => Heads(q)' = Heads(q) /\ removal'[q] = removal[q]
  BY <1>1, <1>8 DEF due
<1> QED BY <1>9, <1>10, <1>11, <1>12, <1>13 DEF CInv

\* Events and dead runs touch none of it.
LEMMA CloudUntouched ==
  ASSUME CInv, UNCHANGED <<wiring, cloud, sequence, perEnv, records, removal>>
  PROVE  CInv' /\ \A q \in PRs : Heads(q)' = Heads(q)
<1>1. \A q \in PRs : Heads(q)' = Heads(q)
  BY DEF Heads, ServicesOf, Of
<1> QED BY <1>1 DEF CInv, CTyped, Numbered, Owned, Nested, Recorded, Torn, OwnData

-----------------------------------------------------------------------------
(* The queue.                                                              *)

\* A run of p's group at the end of the queue, or a blocked one.
LEMMA Appended ==
  ASSUME CTyped, QTyped, NEW p \in PRs, NEW run \in Runs, wiring' = wiring,
         runs' = [runs EXCEPT ![p] = Append(Group(p), run)]
  PROVE  /\ runs' \in [PRs -> Seq(Runs)] /\ \A q \in PRs : q # p => runs'[q] = runs[q]
         /\ runs'[p] # <<>> /\ Last(p)' = run
         /\ wiring.cancelInFlight => \A i \in DOMAIN runs'[p] :
              i # Len(runs'[p]) => runs'[p][i].status # "pending"
<1>1. runs[p] \in Seq(Runs) /\ runs \in [PRs -> Seq(Runs)]
  BY DEF QTyped
<1>2. \A r \in Runs : Cancelled(r) \in Runs /\ Cancelled(r).status = "cancelled"
  <2> SUFFICES ASSUME NEW r \in Runs PROVE Cancelled(r) \in Runs /\ Cancelled(r).status = "cancelled"
    OBVIOUS
  <2>1. Cancelled(r) = [kind |-> r.kind, sha |-> r.sha, status |-> "cancelled"]
    BY DEF Cancelled, Runs
  <2> QED BY <2>1 DEF Runs
<1>3. /\ CancelledPending(p) \in Seq(Runs)
      /\ Len(CancelledPending(p)) = Len(runs[p])
      /\ \A i \in DOMAIN CancelledPending(p) : CancelledPending(p)[i].status # "pending"
  <2>1. DOMAIN runs[p] = 1..Len(runs[p]) /\ Len(runs[p]) \in Nat /\ \A i \in 1..Len(runs[p]) : runs[p][i] \in Runs
    BY <1>1
  <2>2. CancelledPending(p) \in [1..Len(runs[p]) -> Runs]
    BY <1>2, <2>1 DEF CancelledPending
  <2>3. \A i \in 1..Len(runs[p]) : CancelledPending(p)[i].status # "pending"
    BY <1>2, <2>1 DEF CancelledPending
  <2> QED BY <2>1, <2>2, <2>3
<1>4. /\ Group(p) \in Seq(Runs)
      /\ wiring.cancelInFlight => \A i \in DOMAIN Group(p) : Group(p)[i].status # "pending"
  BY <1>1, <1>3 DEF Group
<1> DEFINE g == Group(p)
<1> HIDE DEF g
<1>5. g \in Seq(Runs) /\ (wiring.cancelInFlight => \A i \in DOMAIN g : g[i].status # "pending")
  BY <1>4 DEF g
<1>6. /\ Append(g, run) \in Seq(Runs) /\ Len(Append(g, run)) = Len(g) + 1
      /\ Append(g, run)[Len(g) + 1] = run /\ Append(g, run) # <<>>
      /\ \A i \in DOMAIN Append(g, run) : i # Len(g) + 1 => i \in DOMAIN g /\ Append(g, run)[i] = g[i]
  BY <1>5
<1>7. runs'[p] = Append(g, run)
  BY <1>1 DEF g
<1>8. runs' \in [PRs -> Seq(Runs)] /\ \A q \in PRs : q # p => runs'[q] = runs[q]
  BY <1>1, <1>4
<1>9. Last(p)' = run
  BY <1>6, <1>7 DEF Last
<1>10. wiring.cancelInFlight => \A i \in DOMAIN runs'[p] : i # Len(runs'[p]) => runs'[p][i].status # "pending"
  BY <1>5, <1>6, <1>7
<1> QED BY <1>6, <1>7, <1>8, <1>9, <1>10

\* Step i of the queue of p gets the status s, and nothing else about it changes.
Ends(p, i, s) ==
  /\ runs' \in [PRs -> Seq(Runs)] /\ \A q \in PRs : q # p => runs'[q] = runs[q]
  /\ runs[p] # <<>> /\ runs'[p] # <<>>
  /\ DOMAIN runs'[p] = DOMAIN runs[p] /\ Len(runs'[p]) = Len(runs[p]) /\ Len(runs[p]) \in DOMAIN runs[p]
  /\ \A j \in DOMAIN runs[p] : j # i => runs'[p][j] = runs[p][j]
  /\ runs'[p][i].status = s /\ runs'[p][i].kind = runs[p][i].kind /\ runs'[p][i].sha = runs[p][i].sha
  /\ runs[p][i].kind \in {"deploy", "destroy"} /\ runs[p][i].sha \in Shas

\* A run that was pending ends, and is otherwise what it was.
LEMMA Ended ==
  ASSUME QTyped, NEW p \in PRs, NEW i \in DOMAIN runs[p], NEW s \in {"finished", "cancelled"},
         runs' = [runs EXCEPT ![p][i].status = s]
  PROVE  Ends(p, i, s)
<1>1. /\ runs \in [PRs -> Seq(Runs)] /\ runs[p] \in Seq(Runs) /\ runs[p][i] \in Runs
      /\ DOMAIN runs[p] = 1..Len(runs[p]) /\ Len(runs[p]) \in Nat
  BY DEF QTyped
<1> DEFINE run == [kind |-> runs[p][i].kind, sha |-> runs[p][i].sha, status |-> s]
<1>2. [runs[p][i] EXCEPT !.status = s] = run
  BY <1>1 DEF Runs
<1>3. run \in Runs /\ run.status = s /\ run.kind = runs[p][i].kind /\ run.sha = runs[p][i].sha
  BY <1>1 DEF Runs
<1> HIDE DEF run
<1>4. runs'[p] = [runs[p] EXCEPT ![i] = run] /\ \A q \in PRs : q # p => runs'[q] = runs[q]
  BY <1>1, <1>2
<1>5. /\ runs'[p] \in Seq(Runs) /\ DOMAIN runs'[p] = DOMAIN runs[p] /\ Len(runs'[p]) = Len(runs[p])
      /\ runs'[p][i] = run /\ \A j \in DOMAIN runs[p] : j # i => runs'[p][j] = runs[p][j]
  <2>1. runs[p] \in [1..Len(runs[p]) -> Runs]
    BY <1>1
  <2>2. runs'[p] \in [1..Len(runs[p]) -> Runs]
    BY <1>3, <1>4, <2>1
  <2>3. runs'[p][i] = run /\ \A j \in DOMAIN runs[p] : j # i => runs'[p][j] = runs[p][j]
    BY <1>1, <1>4
  <2>4. runs'[p] \in Seq(Runs) /\ Len(runs'[p]) = Len(runs[p])
    BY <1>1, <2>2
  <2> QED BY <1>1, <2>2, <2>3, <2>4
<1>6. runs[p] # <<>> /\ runs'[p] # <<>> /\ Len(runs[p]) \in DOMAIN runs[p]
  BY <1>1, <1>5
<1>7. runs' \in [PRs -> Seq(Runs)]
  <2>1. DOMAIN runs' = PRs /\ runs' = [q \in PRs |-> runs'[q]]
    BY <1>1
  <2> QED BY <1>1, <1>4, <1>5, <2>1
<1>8. runs[p][i].kind \in {"deploy", "destroy"} /\ runs[p][i].sha \in Shas
  BY <1>1 DEF Runs
<1> QED BY <1>3, <1>4, <1>5, <1>6, <1>7, <1>8 DEF Ends

\* What NewestRunDecides says of p.
Decided(p) ==
  /\ OnPush \subseteq wiring.deployOn /\ stage[p] = "open" /\ LastFinished(p, "deploy") =>
       Heads(p) = {heads[p]} \/ (wiring.reaper = "age" /\ removal[p] = "sweep" /\ Heads(p) = {})
  /\ stage[p] = "closed" /\ LastFinished(p, "destroy") =>
       /\ Heads(p) = {}
       /\ \A i \in DOMAIN runs[p] : runs[p][i].status # "pending"

LEMMA DecidedMeans == NewestRunDecides <=> (wiring.cancelInFlight => \A p \in PRs : Decided(p))
BY DEF NewestRunDecides, Decided

LEMMA DecidedThen ==
  ASSUME \A p \in PRs : wiring'.cancelInFlight => Decided(p)'
  PROVE  NewestRunDecides'
BY DEF NewestRunDecides, Decided

LEMMA DecidedKept ==
  ASSUME CTyped, NEW p \in PRs, Decided(p), wiring' = wiring, stage'[p] = stage[p], heads'[p] = heads[p],
         runs'[p] = runs[p], Heads(p)' = Heads(p), removal'[p] = removal[p]
  PROVE  Decided(p)'
BY DEF Decided, LastFinished, Last

LEMMA QuietStep ==
  ASSUME CTyped, QInv, UNCHANGED <<wiring, runs, heads, stage, forks, approved, removal>>,
         \A q \in PRs : Heads(q)' = Heads(q)
  PROVE  QInv'
<1>1. QTyped' /\ OnlyLastPending' /\ LastIsHead'
  BY DEF QInv, QTyped, OnlyLastPending, LastIsHead, Last
<1>2. ASSUME wiring.cancelInFlight, NEW q \in PRs PROVE Decided(q)'
  <2>1. Decided(q)
    BY <1>2, DecidedMeans DEF QInv
  <2> QED BY <2>1, DecidedKept
<1>3. NewestRunDecides'
  BY <1>2, DecidedThen
<1> QED BY <1>1, <1>3 DEF QInv

LEMMA SweepQueue ==
  ASSUME CTyped, QInv, wiring' = wiring, UNCHANGED <<runs, prVars>>,
         \A q \in PRs : /\ Due(q) => Heads(q)' = {} /\ removal'[q] = "sweep"
                        /\ ~Due(q) => Heads(q)' = Heads(q) /\ removal'[q] = removal[q]
  PROVE  QInv'
<1>1. QTyped' /\ OnlyLastPending' /\ LastIsHead'
  BY DEF QInv, QTyped, OnlyLastPending, LastIsHead, Last, prVars
<1>2. ASSUME wiring.cancelInFlight, NEW p \in PRs PROVE Decided(p)'
  <2>1. Decided(p) /\ stage'[p] = stage[p] /\ heads'[p] = heads[p] /\ runs'[p] = runs[p]
    BY <1>2, DecidedMeans DEF QInv, prVars
  <2>2. CASE ~Due(p)
    BY <2>1, <2>2, DecidedKept
  <2>3. CASE Due(p)
    <3>1. Heads(p)' = {} /\ removal'[p] = "sweep"
      BY <2>3
    <3>2. stage[p] = "open" => wiring.reaper = "age"
      BY <2>3 DEF Due
    <3>3. stage[p] = "closed" /\ LastFinished(p, "destroy") =>
            \A i \in DOMAIN runs[p] : runs[p][i].status # "pending"
      BY <2>1 DEF Decided
    <3>4. LastFinished(p, "destroy")' => LastFinished(p, "destroy")
      BY <2>1 DEF LastFinished, Last
    <3> QED BY <2>1, <3>1, <3>2, <3>3, <3>4 DEF Decided
  <2> QED BY <2>2, <2>3
<1>3. NewestRunDecides'
  BY <1>2, DecidedThen
<1> QED BY <1>1, <1>3 DEF QInv

\* An event: p's queue may get a run, which is then the last and not finished.
LEMMA EventQueue ==
  ASSUME CTyped, QInv, NEW p \in PRs, NEW event, RegisterDeploy(p, event), wiring' = wiring,
         heads' \in [PRs -> Shas \union {None}], heads'[p] \in Shas,
         stage' \in [PRs -> {"new", "open", "closed"}], stage'[p] # "new",
         forks' \in SUBSET PRs, approved' \in SUBSET PRs,
         \A q \in PRs \ {p} : /\ heads'[q] = heads[q] /\ stage'[q] = stage[q]
                              /\ (q \in forks') = (q \in forks)
                              /\ (q \in approved') = (q \in approved),
         wiring.cancelInFlight /\ runs[p] # <<>> /\ ~Asked(p, event) =>
           /\ heads'[p] = heads[p] /\ stage'[p] = stage[p] /\ forks' = forks
           /\ p \in approved => p \in approved',
         \A q \in PRs : Heads(q)' = Heads(q) /\ removal'[q] = removal[q]
  PROVE  QInv'
<1>1. QTyped /\ OnlyLastPending /\ LastIsHead /\ NewestRunDecides
  BY DEF QInv
<1>2. \/ ~Asked(p, event) /\ runs' = runs
      \/ /\ Asked(p, event) /\ ~wiring.cancelInFlight
         /\ runs' = [runs EXCEPT ![p] = Append(Group(p), NewRun("deploy", heads'[p], "blocked"))]
      \/ /\ Asked(p, event)
         /\ runs' = [runs EXCEPT ![p] = Append(Group(p), NewRun("deploy", heads'[p], "pending"))]
  <2>1. Blocked(p) => ~wiring.cancelInFlight
    BY WiringFacts DEF Blocked, CTyped, Target
  <2>2. ~wiring.cancelInFlight => Group(p) = runs[p]
    BY DEF Group
  <2>3. CASE Asked(p, event) /\ Blocked(p) /\ runs' = [runs EXCEPT ![p] = Append(@, NewRun("deploy", heads'[p], "blocked"))]
    BY <2>1, <2>2, <2>3
  <2> QED BY <2>3 DEF RegisterDeploy
<1>3. ASSUME ~Asked(p, event), runs' = runs PROVE QInv'
  <2>1. QTyped'
    <3>1. \A q \in PRs : /\ stage'[q] = "new" => runs'[q] = <<>>
                         /\ stage'[q] # "new" => heads'[q] \in Shas
      BY <1>1, <1>3 DEF QTyped
    <3> QED BY <1>1, <1>3, <3>1 DEF QTyped
  <2>2. OnlyLastPending'
    BY <1>1, <1>3 DEF OnlyLastPending
  <2>3. LastIsHead'
    <3> SUFFICES ASSUME wiring.cancelInFlight, NEW q \in PRs, runs[q] # <<>>
                 PROVE  /\ Last(q)'.sha = heads'[q]
                        /\ stage'[q] = "open" => Last(q)'.kind = "deploy"
                        /\ wiring.trigger = "labelled" /\ stage'[q] = "open" => q \notin forks' \/ q \in approved'
      BY <1>3 DEF LastIsHead
    <3>1. /\ Last(q).sha = heads[q]
          /\ stage[q] = "open" => Last(q).kind = "deploy"
          /\ wiring.trigger = "labelled" /\ stage[q] = "open" => q \notin forks \/ q \in approved
      BY <1>1 DEF LastIsHead
    <3>2. Last(q)' = Last(q)
      BY <1>3 DEF Last
    <3> QED BY <1>3, <3>1, <3>2
  <2>4. ASSUME wiring.cancelInFlight, NEW q \in PRs PROVE Decided(q)'
    <3>1. Decided(q)
      BY <1>1, <2>4, DecidedMeans
    <3>2. CASE runs[q] = <<>>
      BY <1>3, <3>2 DEF Decided, LastFinished
    <3>3. CASE runs[q] # <<>>
      BY <1>3, <2>4, <3>1, <3>3, DecidedKept
    <3> QED BY <3>2, <3>3
  <2>5. NewestRunDecides'
    BY <2>4, DecidedThen
  <2> QED BY <2>1, <2>2, <2>3, <2>5 DEF QInv
<1>4. ASSUME Asked(p, event), NEW s \in {"pending", "blocked"}, s = "blocked" => ~wiring.cancelInFlight,
             runs' = [runs EXCEPT ![p] = Append(Group(p), NewRun("deploy", heads'[p], s))]
      PROVE  QInv'
  <2> DEFINE run == NewRun("deploy", heads'[p], s)
  <2>1. run \in Runs /\ run.kind = "deploy" /\ run.sha = heads'[p] /\ run.status = s
    BY DEF NewRun, Runs
  <2> HIDE DEF run
  <2>2. runs' = [runs EXCEPT ![p] = Append(Group(p), run)]
    BY <1>4 DEF run
  <2>3. /\ runs' \in [PRs -> Seq(Runs)] /\ \A q \in PRs : q # p => runs'[q] = runs[q]
        /\ runs'[p] # <<>> /\ Last(p)' = run
        /\ wiring.cancelInFlight => \A i \in DOMAIN runs'[p] :
              i # Len(runs'[p]) => runs'[p][i].status # "pending"
    BY <1>1, <2>1, <2>2, Appended
  <2>4. QTyped'
    <3>1. \A q \in PRs : /\ stage'[q] = "new" => runs'[q] = <<>>
                         /\ stage'[q] # "new" => heads'[q] \in Shas
      BY <1>1, <2>3 DEF QTyped
    <3> QED BY <1>1, <2>3, <3>1 DEF QTyped
  <2>5. OnlyLastPending'
    BY <1>1, <2>3 DEF OnlyLastPending
  <2>6. LastIsHead'
    <3> SUFFICES ASSUME wiring.cancelInFlight, NEW q \in PRs, runs'[q] # <<>>
                 PROVE  /\ Last(q)'.sha = heads'[q]
                        /\ stage'[q] = "open" => Last(q)'.kind = "deploy"
                        /\ wiring.trigger = "labelled" /\ stage'[q] = "open" => q \notin forks' \/ q \in approved'
      BY DEF LastIsHead
    <3>1. CASE q = p
      BY <1>4, <2>1, <2>3, <3>1 DEF Asked
    <3>2. CASE q # p
      <4>1. /\ Last(q).sha = heads[q]
            /\ stage[q] = "open" => Last(q).kind = "deploy"
            /\ wiring.trigger = "labelled" /\ stage[q] = "open" => q \notin forks \/ q \in approved
        BY <1>1, <2>3, <3>2 DEF LastIsHead
      <4>2. Last(q)' = Last(q)
        BY <2>3, <3>2 DEF Last
      <4> QED BY <3>2, <4>1, <4>2
    <3> QED BY <3>1, <3>2
  <2>7. ASSUME wiring.cancelInFlight, NEW q \in PRs PROVE Decided(q)'
    <3>1. CASE q = p
      BY <1>4, <2>1, <2>3, <3>1 DEF Decided, LastFinished
    <3>2. CASE q # p
      BY <1>1, <2>3, <2>7, <3>2, DecidedKept, DecidedMeans
    <3> QED BY <3>1, <3>2
  <2>8. NewestRunDecides'
    BY <2>7, DecidedThen
  <2> QED BY <2>4, <2>5, <2>6, <2>8 DEF QInv
<1> QED BY <1>2, <1>3, <1>4

\* A pending run is the last one, and it ends: what p serves is what it did.
LEMMA FinishQueue ==
  ASSUME CTyped, QInv, NEW p \in PRs, NEW i \in DOMAIN runs[p], runs[p][i].status = "pending",
         NEW s \in {"finished", "cancelled"}, runs' = [runs EXCEPT ![p][i].status = s],
         wiring' = wiring, UNCHANGED <<heads, stage, forks, approved>>,
         s = "finished" => Heads(p)' = IF runs[p][i].kind = "deploy" THEN {runs[p][i].sha} ELSE {},
         \A q \in PRs \ {p} : Heads(q)' = Heads(q) /\ removal'[q] = removal[q]
  PROVE  QInv'
<1>1. QTyped /\ OnlyLastPending /\ LastIsHead /\ NewestRunDecides
  BY DEF QInv
<1>2. /\ runs' \in [PRs -> Seq(Runs)] /\ \A q \in PRs : q # p => runs'[q] = runs[q]
      /\ runs[p] # <<>> /\ runs'[p] # <<>>
      /\ DOMAIN runs'[p] = DOMAIN runs[p] /\ Len(runs'[p]) = Len(runs[p]) /\ Len(runs[p]) \in DOMAIN runs[p]
      /\ \A j \in DOMAIN runs[p] : j # i => runs'[p][j] = runs[p][j]
      /\ runs'[p][i].status = s /\ runs'[p][i].kind = runs[p][i].kind /\ runs'[p][i].sha = runs[p][i].sha
      /\ runs[p][i].kind \in {"deploy", "destroy"} /\ runs[p][i].sha \in Shas
  <2>1. Ends(p, i, s)
    BY <1>1, Ended
  <2> QED BY <2>1 DEF Ends
<1>3. QTyped'
  <2>1. \A q \in PRs : /\ stage'[q] = "new" => runs'[q] = <<>>
                       /\ stage'[q] # "new" => heads'[q] \in Shas
    BY <1>1, <1>2 DEF QTyped
  <2> QED BY <1>1, <1>2, <2>1 DEF QTyped
<1>4. OnlyLastPending'
  <2> SUFFICES ASSUME wiring.cancelInFlight, NEW q \in PRs, NEW j \in DOMAIN runs'[q],
                      runs'[q][j].status = "pending"
               PROVE  j = Len(runs'[q])
    BY DEF OnlyLastPending
  <2>1. runs[q][j].status = "pending" /\ j \in DOMAIN runs[q] /\ Len(runs'[q]) = Len(runs[q])
    BY <1>2
  <2> QED BY <1>1, <2>1 DEF OnlyLastPending
<1>5. LastIsHead'
  <2> SUFFICES ASSUME wiring.cancelInFlight, NEW q \in PRs, runs'[q] # <<>>
               PROVE  /\ Last(q)'.sha = heads'[q]
                      /\ stage'[q] = "open" => Last(q)'.kind = "deploy"
                      /\ wiring.trigger = "labelled" /\ stage'[q] = "open" => q \notin forks' \/ q \in approved'
    BY DEF LastIsHead
  <2>1. /\ Last(q).sha = heads[q]
        /\ stage[q] = "open" => Last(q).kind = "deploy"
        /\ wiring.trigger = "labelled" /\ stage[q] = "open" => q \notin forks \/ q \in approved
    BY <1>1, <1>2 DEF LastIsHead
  <2>2. Last(q)'.sha = Last(q).sha /\ Last(q)'.kind = Last(q).kind
    BY <1>2 DEF Last
  <2> QED BY <2>1, <2>2
<1>6. ASSUME wiring.cancelInFlight, NEW q \in PRs PROVE Decided(q)'
  <2>1. CASE q # p
    BY <1>1, <1>2, <1>6, <2>1, DecidedKept, DecidedMeans
  <2>2. CASE q = p
    <3>1. i = Len(runs[p])
      BY <1>1, <1>6 DEF OnlyLastPending
    <3>2. Last(p)'.status = s /\ Last(p)'.kind = runs[p][i].kind /\ runs[p][i].sha = heads[p]
      BY <1>1, <1>2, <1>6, <3>1 DEF Last, LastIsHead
    <3>3. CASE s = "cancelled"
      BY <2>2, <3>2, <3>3 DEF Decided, LastFinished
    <3>4. CASE s = "finished"
      <4>1. runs[p][i].kind = "deploy" => Heads(p)' = {heads'[p]}
        BY <3>2, <3>4
      <4>2. runs[p][i].kind = "destroy" => Heads(p)' = {}
        BY <3>4
      <4>3. \A j \in DOMAIN runs'[p] : runs'[p][j].status # "pending"
        BY <1>2, <1>4, <1>6, <3>1, <3>4 DEF OnlyLastPending
      <4> QED BY <2>2, <3>2, <4>1, <4>2, <4>3 DEF Decided, LastFinished
    <3> QED BY <3>3, <3>4
  <2> QED BY <2>1, <2>2
<1>7. NewestRunDecides'
  BY <1>6, DecidedThen
<1> QED BY <1>3, <1>4, <1>5, <1>7 DEF QInv

-----------------------------------------------------------------------------
(* One lemma an action.                                                    *)

IInv == CInv /\ QInv

LEMMA OpenKeeps == ASSUME IInv, NEW p \in PRs, Open(p) PROVE IInv'
<1>1. /\ CInv /\ QInv /\ CTyped /\ QTyped
      /\ stage[p] = "new" /\ stage' = [stage EXCEPT ![p] = "open"]
      /\ forks' \in {forks, forks \union ({p} \intersect MayFork)} /\ approved' = approved
      /\ RegisterDeploy(p, "opened") /\ UNCHANGED <<wiring, cloud, sequence, perEnv, records, removal>>
  BY DEF IInv, CInv, QInv, Open, cloudVars, seedVars
<1>2. PICK sha \in Shas : heads' = [heads EXCEPT ![p] = sha]
  BY DEF Open
<1>3. runs[p] = <<>>
  BY <1>1 DEF QTyped
<1>4. CInv' /\ \A q \in PRs : Heads(q)' = Heads(q)
  BY <1>1, CloudUntouched
<1>5. /\ heads' \in [PRs -> Shas \union {None}] /\ heads'[p] \in Shas
      /\ stage' \in [PRs -> {"new", "open", "closed"}] /\ stage'[p] # "new"
      /\ forks' \in SUBSET PRs /\ approved' \in SUBSET PRs
  BY <1>1, <1>2 DEF QTyped
<1>6. \A q \in PRs \ {p} : /\ heads'[q] = heads[q] /\ stage'[q] = stage[q]
                           /\ (q \in forks') = (q \in forks)
                           /\ (q \in approved') = (q \in approved)
  BY <1>1, <1>2 DEF QTyped
<1>7. QInv'
  BY <1>1, <1>3, <1>4, <1>5, <1>6, EventQueue
<1> QED BY <1>4, <1>7 DEF IInv

LEMMA PushKeeps == ASSUME IInv, NEW p \in PRs, Push(p) PROVE IInv'
<1>1. /\ CInv /\ QInv /\ CTyped /\ QTyped /\ LastIsHead
      /\ stage[p] = "open" /\ UNCHANGED <<stage, forks, approved>>
      /\ RegisterDeploy(p, "synchronize") /\ UNCHANGED <<wiring, cloud, sequence, perEnv, records, removal>>
  BY DEF IInv, CInv, QInv, Push, cloudVars, seedVars
<1>2. PICK sha \in Shas : heads' = [heads EXCEPT ![p] = sha]
  BY DEF Push
<1>3. wiring.cancelInFlight /\ runs[p] # <<>> => Asked(p, "synchronize")
  <2>1. wiring.cancelInFlight => "synchronize" \in wiring.deployOn
    BY <1>1, WiringFacts DEF CTyped, OnPush
  <2> QED BY <1>1, <2>1 DEF LastIsHead, Asked
<1>4. CInv' /\ \A q \in PRs : Heads(q)' = Heads(q)
  BY <1>1, CloudUntouched
<1>5. /\ heads' \in [PRs -> Shas \union {None}] /\ heads'[p] \in Shas
      /\ stage' \in [PRs -> {"new", "open", "closed"}] /\ stage'[p] # "new"
      /\ forks' \in SUBSET PRs /\ approved' \in SUBSET PRs
  BY <1>1, <1>2 DEF QTyped
<1>6. \A q \in PRs \ {p} : /\ heads'[q] = heads[q] /\ stage'[q] = stage[q]
                           /\ (q \in forks') = (q \in forks)
                           /\ (q \in approved') = (q \in approved)
  BY <1>1, <1>2 DEF QTyped
<1>7. QInv'
  BY <1>1, <1>3, <1>4, <1>5, <1>6, EventQueue
<1> QED BY <1>4, <1>7 DEF IInv

LEMMA LabelKeeps == ASSUME IInv, NEW p \in PRs, Label(p) PROVE IInv'
<1>1. /\ CInv /\ QInv /\ CTyped /\ QTyped
      /\ stage[p] # "new" /\ approved' = approved \union {p} /\ UNCHANGED <<heads, stage, forks>>
      /\ RegisterDeploy(p, "labeled") /\ UNCHANGED <<wiring, cloud, sequence, perEnv, records, removal>>
  BY DEF IInv, CInv, QInv, Label, cloudVars, seedVars
<1>2. CInv' /\ \A q \in PRs : Heads(q)' = Heads(q)
  BY <1>1, CloudUntouched
<1>3. /\ heads' \in [PRs -> Shas \union {None}] /\ heads'[p] \in Shas
      /\ stage' \in [PRs -> {"new", "open", "closed"}] /\ stage'[p] # "new"
      /\ forks' \in SUBSET PRs /\ approved' \in SUBSET PRs
  BY <1>1 DEF QTyped
<1>4. \A q \in PRs \ {p} : /\ heads'[q] = heads[q] /\ stage'[q] = stage[q]
                           /\ (q \in forks') = (q \in forks)
                           /\ (q \in approved') = (q \in approved)
  BY <1>1
<1>5. QInv'
  BY <1>1, <1>2, <1>3, <1>4, EventQueue
<1> QED BY <1>2, <1>5 DEF IInv

\* The last run becomes a destroy, or the last deploy is no longer asked about.
LEMMA CloseKeeps == ASSUME IInv, NEW p \in PRs, Close(p) PROVE IInv'
<1>1. /\ CInv /\ QInv /\ CTyped /\ QTyped /\ OnlyLastPending /\ LastIsHead /\ NewestRunDecides
      /\ stage[p] = "open" /\ stage' = [stage EXCEPT ![p] = "closed"]
      /\ UNCHANGED <<wiring, cloud, sequence, perEnv, records, removal, heads, forks, approved>>
  BY DEF IInv, CInv, QInv, Close, cloudVars, seedVars
<1>2. CInv' /\ \A q \in PRs : Heads(q)' = Heads(q)
  BY <1>1, CloudUntouched
<1>3. /\ heads[p] \in Shas /\ stage' \in [PRs -> {"new", "open", "closed"}]
      /\ stage'[p] = "closed" /\ \A q \in PRs : q # p => stage'[q] = stage[q]
  BY <1>1 DEF QTyped
<1>4. CASE wiring.teardownOnClose
  <2> DEFINE run == NewRun("destroy", heads[p], "pending")
  <2>1. run \in Runs /\ run.kind = "destroy" /\ run.sha = heads[p] /\ run.status = "pending"
    BY <1>3 DEF NewRun, Runs
  <2>2. runs' = [runs EXCEPT ![p] = Append(Group(p), run)]
    BY <1>4 DEF Close
  <2> HIDE DEF run
  <2>3. /\ runs' \in [PRs -> Seq(Runs)] /\ \A q \in PRs : q # p => runs'[q] = runs[q]
        /\ runs'[p] # <<>> /\ Last(p)' = run
        /\ wiring.cancelInFlight => \A i \in DOMAIN runs'[p] :
              i # Len(runs'[p]) => runs'[p][i].status # "pending"
    BY <1>1, <2>1, <2>2, Appended
  <2>4. QTyped'
    <3>1. \A q \in PRs : /\ stage'[q] = "new" => runs'[q] = <<>>
                         /\ stage'[q] # "new" => heads'[q] \in Shas
      BY <1>1, <1>3, <2>3 DEF QTyped
    <3> QED BY <1>1, <1>3, <2>3, <3>1 DEF QTyped
  <2>5. OnlyLastPending'
    BY <1>1, <2>3 DEF OnlyLastPending
  <2>6. LastIsHead'
    <3> SUFFICES ASSUME wiring.cancelInFlight, NEW q \in PRs, runs'[q] # <<>>
                 PROVE  /\ Last(q)'.sha = heads'[q]
                        /\ stage'[q] = "open" => Last(q)'.kind = "deploy"
                        /\ wiring.trigger = "labelled" /\ stage'[q] = "open" => q \notin forks' \/ q \in approved'
      BY <1>1 DEF LastIsHead
    <3>1. CASE q = p
      BY <1>1, <1>3, <2>1, <2>3, <3>1
    <3>2. CASE q # p
      <4>1. /\ Last(q).sha = heads[q]
            /\ stage[q] = "open" => Last(q).kind = "deploy"
            /\ wiring.trigger = "labelled" /\ stage[q] = "open" => q \notin forks \/ q \in approved
        BY <1>1, <2>3, <3>2 DEF LastIsHead
      <4>2. Last(q)' = Last(q)
        BY <2>3, <3>2 DEF Last
      <4> QED BY <1>1, <1>3, <3>2, <4>1, <4>2
    <3> QED BY <3>1, <3>2
  <2>7. ASSUME wiring.cancelInFlight, NEW q \in PRs PROVE Decided(q)'
    <3>1. CASE q = p
      BY <2>1, <2>3, <3>1 DEF Decided, LastFinished
    <3>2. CASE q # p
      BY <1>1, <1>2, <1>3, <2>3, <2>7, <3>2, DecidedKept, DecidedMeans
    <3> QED BY <3>1, <3>2
  <2>8. NewestRunDecides'
    BY <1>1, <2>7, DecidedThen
  <2> QED BY <1>2, <2>4, <2>5, <2>6, <2>8 DEF IInv, QInv
<1>5. CASE ~wiring.teardownOnClose
  <2>1. runs' = runs
    BY <1>5 DEF Close
  <2>2. QTyped'
    <3>1. \A q \in PRs : /\ stage'[q] = "new" => runs'[q] = <<>>
                         /\ stage'[q] # "new" => heads'[q] \in Shas
      BY <1>1, <1>3, <2>1 DEF QTyped
    <3> QED BY <1>1, <1>3, <2>1, <3>1 DEF QTyped
  <2>3. OnlyLastPending'
    BY <1>1, <2>1 DEF OnlyLastPending
  <2>4. LastIsHead'
    BY <1>1, <1>3, <2>1 DEF LastIsHead, Last
  <2>5. ASSUME wiring.cancelInFlight, NEW q \in PRs PROVE Decided(q)'
    <3>1. CASE q = p
      BY <1>1, <1>3, <2>1, <2>5, <3>1 DEF Decided, LastFinished, Last, LastIsHead
    <3>2. CASE q # p
      BY <1>1, <1>2, <1>3, <2>1, <2>5, <3>2, DecidedKept, DecidedMeans
    <3> QED BY <3>1, <3>2
  <2>6. NewestRunDecides'
    BY <1>1, <2>5, DecidedThen
  <2> QED BY <1>2, <2>2, <2>3, <2>4, <2>6 DEF IInv, QInv
<1> QED BY <1>4, <1>5

LEMMA FinishKeeps ==
  ASSUME IInv, NEW p \in PRs, NEW i \in DOMAIN runs[p], Finish(p, i) PROVE IInv'
<1>1. /\ CInv /\ QInv /\ CTyped /\ QTyped /\ runs[p][i].status = "pending"
      /\ runs' = [runs EXCEPT ![p][i].status = "finished"]
      /\ UNCHANGED <<wiring, heads, stage, forks, approved>>
  BY DEF IInv, CInv, QInv, Finish, prVars
<1>2. runs[p][i].sha \in Shas
  <2>1. Ends(p, i, "finished")
    BY <1>1, Ended
  <2> QED BY <2>1 DEF Ends
<1>3. removal \in [PRs -> {None, "teardown", "sweep"}]
  BY <1>1 DEF CTyped
<1>4. CASE runs[p][i].kind = "destroy" /\ FinishDestroy(p)
  <2>1. Destroy(p) /\ removal' = [removal EXCEPT ![p] = "teardown"]
    BY <1>4 DEF FinishDestroy
  <2>2. CInv' /\ Serves(p, {})
    BY <1>1, <2>1, DestroyStep
  <2>3. QInv'
    BY <1>1, <1>3, <1>4, <2>1, <2>2, FinishQueue DEF Serves
  <2> QED BY <2>2, <2>3 DEF IInv
<1>5. CASE runs[p][i].kind = "deploy" /\ FinishDeploy(p, runs[p][i].sha)
  <2>1. /\ Deploy(p, runs[p][i].sha, wiring.namespaced, wiring.seedPolicy)
        /\ removal' = [removal EXCEPT ![p] = None]
    BY <1>5 DEF FinishDeploy
  <2>2. CInv' /\ Serves(p, {runs[p][i].sha})
    BY <1>1, <1>2, <2>1, RedeployStep, BringUpStep DEF Deploy
  <2>3. QInv'
    BY <1>1, <1>3, <1>5, <2>1, <2>2, FinishQueue DEF Serves
  <2> QED BY <2>2, <2>3 DEF IInv
<1> QED BY <1>4, <1>5 DEF Finish

LEMMA CancelKeeps ==
  ASSUME IInv, NEW p \in PRs, NEW i \in DOMAIN runs[p], Cancel(p, i) PROVE IInv'
<1>1. /\ CInv /\ QInv /\ CTyped /\ runs[p][i].status = "pending"
      /\ runs' = [runs EXCEPT ![p][i].status = "cancelled"]
      /\ UNCHANGED <<wiring, cloud, sequence, perEnv, records, removal, heads, stage, forks, approved>>
  BY DEF IInv, CInv, QInv, Cancel, Cancelled, cloudVars, seedVars, prVars
<1>2. CInv' /\ \A q \in PRs : Heads(q)' = Heads(q)
  BY <1>1, CloudUntouched
<1>3. QInv'
  BY <1>1, <1>2, FinishQueue
<1> QED BY <1>2, <1>3 DEF IInv

LEMMA QuietKeeps ==
  ASSUME IInv, CInv', UNCHANGED <<runs, prVars, removal>>, wiring' = wiring, \A q \in PRs : Heads(q)' = Heads(q)
  PROVE  IInv'
BY QuietStep DEF IInv, CInv, prVars

LEMMA SweepKeeps == ASSUME IInv, Sweep PROVE IInv'
<1>1. CInv /\ QInv /\ CTyped /\ wiring' = wiring /\ UNCHANGED <<runs, prVars>>
  BY DEF IInv, CInv, Sweep
<1>2. /\ CInv'
      /\ \A q \in PRs : /\ Due(q) => Heads(q)' = {} /\ removal'[q] = "sweep"
                        /\ ~Due(q) => Heads(q)' = Heads(q) /\ removal'[q] = removal[q]
  BY <1>1, SweepStep
<1> QED BY <1>1, <1>2, SweepQueue DEF IInv

LEMMA InitIInv == Init => IInv
<1> SUFFICES ASSUME Init PROVE IInv
  OBVIOUS
<1> USE DEF Init, CloudInit
<1>1. CTyped
  <2>1. cloud \in SUBSET Resources
    OBVIOUS
  <2> QED BY <2>1 DEF CTyped
<1>2. Numbered /\ Owned /\ Nested /\ Recorded
  BY DEF Numbered, Owned, Nested, Recorded
<1>3. Torn /\ OwnData
  BY NoneFacts DEF Torn, OwnData
<1>4. QTyped
  BY DEF QTyped
<1>5. OnlyLastPending /\ LastIsHead
  BY DEF OnlyLastPending, LastIsHead
<1>6. NewestRunDecides
  BY DEF NewestRunDecides, LastFinished
<1> QED BY <1>1, <1>2, <1>3, <1>4, <1>5, <1>6 DEF IInv, CInv, QInv

LEMMA NextIInv == IInv /\ [Next]_vars => IInv'
<1> SUFFICES ASSUME IInv, [Next]_vars PROVE IInv'
  OBVIOUS
<1>1. ASSUME NEW p \in PRs, Open(p) PROVE IInv' BY <1>1, OpenKeeps
<1>2. ASSUME NEW p \in PRs, Push(p) PROVE IInv' BY <1>2, PushKeeps
<1>3. ASSUME NEW p \in PRs, Label(p) PROVE IInv' BY <1>3, LabelKeeps
<1>4. ASSUME NEW p \in PRs, Close(p) PROVE IInv' BY <1>4, CloseKeeps
<1>5. ASSUME NEW p \in PRs, Traffic(p) PROVE IInv'
  BY <1>5, TrafficStep, QuietKeeps DEF IInv, Traffic
<1>6. ASSUME NEW p \in PRs, Use(p) PROVE IInv'
  BY <1>6, UseStep, QuietKeeps DEF IInv, Use
<1>7. ASSUME NEW p \in PRs, NEW i \in DOMAIN runs[p], Finish(p, i) PROVE IInv' BY <1>7, FinishKeeps
<1>8. ASSUME NEW p \in PRs, NEW i \in DOMAIN runs[p], Cancel(p, i) PROVE IInv' BY <1>8, CancelKeeps
<1>9. CASE Tick
  BY <1>9, TickStep, QuietKeeps DEF IInv, Tick
<1>10. CASE Sweep BY <1>10, SweepKeeps
<1>11. CASE UNCHANGED vars
  <2>1. UNCHANGED <<wiring, cloud, sequence, perEnv, records, removal, runs, prVars>>
    BY <1>11 DEF vars, cloudVars, seedVars
  <2>2. CInv' /\ \A q \in PRs : Heads(q)' = Heads(q)
    BY <2>1, CloudUntouched DEF IInv
  <2> QED BY <2>1, <2>2, QuietKeeps
<1> QED BY <1>1, <1>2, <1>3, <1>4, <1>5, <1>6, <1>7, <1>8, <1>9, <1>10, <1>11 DEF Next

-----------------------------------------------------------------------------
\* The cloud, the state file, the data and the queue always fit together
\* (ephemeral/cloud.ts, deployer.ts, seeds.ts, harness.ts).
THEOREM EnvironmentsInvariant == Spec => []IInv
<1>1. Init => IInv BY InitIInv
<1>2. IInv /\ [Next]_vars => IInv' BY NextIInv
<1> QED BY <1>1, <1>2, PTL DEF Spec

\* What a teardown leaves is at most what the platform added to a flat stack,
\* and so it stays until the next deployment (deployer.ts:137-146).
THEOREM EnvironmentsTornDownForGood == Spec => []TornDownForGood
<1>1. IInv => TornDownForGood
  BY DEF IInv, CInv, Torn, Recorded, TornDownForGood, Of
<1> QED BY <1>1, EnvironmentsInvariant, PTL

\* With cancel-in-progress the run that was registered last has the last word on
\* what the pull request serves (harness.ts:229-288).
THEOREM EnvironmentsNewestRunDecides == Spec => []NewestRunDecides
<1>1. IInv => NewestRunDecides
  BY DEF IInv, QInv
<1> QED BY <1>1, EnvironmentsInvariant, PTL

\* An environment's own data is there while it is, at its commit's schema, and
\* nobody else's (seeds.ts:100-135, deployer.ts:137-152).
THEOREM EnvironmentsOwnData == Spec => []OwnData
<1>1. IInv => OwnData
  BY DEF IInv, CInv
<1> QED BY <1>1, EnvironmentsInvariant, PTL
=============================================================================
