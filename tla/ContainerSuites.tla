---------------------------- MODULE ContainerSuites ----------------------------
(***************************************************************************)
(* containers/: two suites, one after the other, on one container, under   *)
(* each strategy of isolation.ts, and what workload.ts finds left over.    *)
(* Schemas, keys, topics and offsets are the container's and outlive a     *)
(* suite; a context is the names a suite uses.                             *)
(***************************************************************************)
EXTENDS Integers, Sequences, FiniteSets, Functions, TLC

CONSTANT Plans  \* the stores to measure

VARIABLES
  plan,      \* the store of this behaviour, or "none"
  slot, run, \* runPlan: the strategy under way, and which of its two suites
  behaviour, \* the behaviour that is due, 0 before the suite has entered
  context,   \* what enter returned
  schemas,   \* PostgreSQL: schema -> [orders, nextReceipt, customers]
  keys,      \* Redis: {<<db, prefix, key>>}
  topics,    \* Kafka: topic -> the keys of its events
  offsets,   \* Kafka: <<group, topic>> -> events committed
  residue    \* the last result of execute

containerVars == <<plan, slot, run, behaviour, context, schemas, keys, topics, offsets, residue>>

StoreStrategies ==
  [postgres |-> <<"none", "truncate", "truncate-restart", "schema-per-suite">>,
   redis    |-> <<"none", "flushdb", "prefix-per-suite", "db-per-suite">>,
   kafka    |-> <<"none", "delete-topic", "group-per-suite", "topic-and-group-per-suite">>]

StoreBehaviours ==
  [postgres |-> <<"counts-rows", "first-receipt-id", "rejects-duplicate-email">>,
   redis    |-> <<"misses-cold-cache", "acquires-lock", "counts-its-own-keys">>,
   kafka    |-> <<"creates-topics", "replays-seeded-events", "counts-its-own-outbox">>]

SuitesPerStrategy == 2
PerSuiteDbBase == 8
RedisDatabaseCount == 16
SeedCount == 3

StoreStrategy == StoreStrategies[plan][slot]
Suffix(apart) == IF apart THEN run ELSE 0
Entering(store) == behaviour = 0 /\ plan = store

ContainerInit ==
  /\ plan = "none" /\ slot = 1 /\ run = 1 /\ behaviour = 0 /\ context = <<>>
  /\ schemas = <<>> /\ keys = {} /\ topics = <<>> /\ offsets = <<>> /\ residue = <<>>

ContainerIdle == plan = "none"

RunPlan ==
  /\ ContainerIdle
  /\ plan' \in Plans
  /\ UNCHANGED <<slot, run, behaviour, context, schemas, keys, topics, offsets, residue>>

-----------------------------------------------------------------------------
(* enter, per store.                                                       *)
EmptySchema == [orders |-> {}, nextReceipt |-> 1, customers |-> {}]

\* TRUNCATE empties the tables; only RESTART IDENTITY takes the sequences back.
EmptiedSchema(schema, restartIdentity) ==
  [EmptySchema EXCEPT !.nextReceipt = IF restartIdentity THEN @ ELSE schema.nextReceipt]

EnterPostgres ==
  LET name == <<slot, Suffix(StoreStrategy = "schema-per-suite")>>
      ensured == IF name \in DOMAIN schemas THEN schemas ELSE schemas @@ name :> EmptySchema
  IN  /\ Entering("postgres")
      /\ behaviour' = 1 /\ context' = name
      /\ schemas' = IF StoreStrategy \in {"truncate", "truncate-restart"}
                    THEN [ensured EXCEPT ![name] = EmptiedSchema(@, StoreStrategy = "truncate-restart")]
                    ELSE ensured
      /\ UNCHANGED <<plan, slot, run, keys, topics, offsets, residue>>

RedisDb == IF StoreStrategy = "db-per-suite"
           THEN PerSuiteDbBase + (run % (RedisDatabaseCount - PerSuiteDbBase))
           ELSE slot - 1

EnterRedis ==
  /\ Entering("redis")
  /\ behaviour' = 1
  /\ context' = [db |-> RedisDb, prefix |-> Suffix(StoreStrategy = "prefix-per-suite")]
  /\ keys' = IF StoreStrategy = "flushdb" THEN {k \in keys : k[1] # RedisDb} ELSE keys
  /\ UNCHANGED <<plan, slot, run, schemas, topics, offsets, residue>>

\* Slip: the group is named by the slot alone.
GroupBySlot(strategy) == [slot |-> slot, run |-> 0, census |-> 0]

KafkaGroup(strategy) ==
  [slot |-> slot, run |-> Suffix(strategy \in {"group-per-suite", "topic-and-group-per-suite"}),
   census |-> 0]

\* deleteTopics, waited for until the metadata has forgotten the topics; the
\* broker drops the offsets committed for them.
EnterKafka ==
  LET apart == Suffix(StoreStrategy = "topic-and-group-per-suite")
      own == {<<"orders", slot, apart>>, <<"outbox", slot, apart>>}
      doomed == IF StoreStrategy = "delete-topic" THEN own \intersect DOMAIN topics ELSE {}
  IN  /\ Entering("kafka")
      /\ behaviour' = 1
      /\ context' = [topic |-> <<"orders", slot, apart>>, outbox |-> <<"outbox", slot, apart>>,
                     group |-> KafkaGroup(StoreStrategy)]
      /\ topics' = Restrict(topics, DOMAIN topics \ doomed)
      /\ offsets' = Restrict(offsets, {o \in DOMAIN offsets : o[2] \notin doomed})
      /\ UNCHANGED <<plan, slot, run, schemas, keys, residue>>

-----------------------------------------------------------------------------
(* execute: a behaviour passes, fails, or times out.                       *)
Turn(store, n) == plan = store /\ behaviour = n

Found(outcome) ==
  /\ residue' = [strategy |-> StoreStrategy, behaviour |-> StoreBehaviours[plan][behaviour],
              suite |-> run, outcome |-> outcome]
  /\ behaviour' = behaviour + 1
  /\ UNCHANGED <<plan, slot, run, context>>

PassedIf(holds) == IF holds THEN "passed" ELSE "failed"

CountsRows ==
  /\ Turn("postgres", 1)
  /\ schemas' = [schemas EXCEPT ![context].orders = @ \union ({run} \X (1..3))]
  /\ Found(PassedIf(Cardinality(schemas'[context].orders) = 3))
  /\ UNCHANGED <<keys, topics, offsets>>

FirstReceiptId ==
  /\ Turn("postgres", 2)
  /\ schemas' = [schemas EXCEPT ![context].nextReceipt = @ + 1]
  /\ Found(PassedIf(schemas[context].nextReceipt = 1))
  /\ UNCHANGED <<keys, topics, offsets>>

\* The first registration must succeed; the unique index rejects the second.
RejectsDuplicateEmail ==
  /\ Turn("postgres", 3)
  /\ schemas' = [schemas EXCEPT ![context].customers = @ \union {"ada"}]
  /\ Found(PassedIf("ada" \notin schemas[context].customers))
  /\ UNCHANGED <<keys, topics, offsets>>

Key(name) == <<context.db, context.prefix, name>>

\* A miss is filled; a hit fails before it writes.
MissesColdCache ==
  /\ Turn("redis", 1)
  /\ keys' = keys \union {Key("user:1")}
  /\ Found(PassedIf(Key("user:1") \notin keys))
  /\ UNCHANGED <<schemas, topics, offsets>>

\* SET NX EX 30; no two suites of a run are 30 seconds apart.
AcquiresLock ==
  /\ Turn("redis", 2)
  /\ keys' = keys \union {Key("lock:orders")}
  /\ Found(PassedIf(Key("lock:orders") \notin keys))
  /\ UNCHANGED <<schemas, topics, offsets>>

\* DBSIZE knows nothing of prefixes.
CountsItsOwnKeys ==
  /\ Turn("redis", 3)
  /\ Found(PassedIf(Cardinality({k \in keys : k[1] = context.db}) = 2))
  /\ UNCHANGED <<schemas, keys, topics, offsets>>

\* createTopics says false when the topics exist; then nothing is seeded.
CreatesTopics ==
  LET created == context.topic \notin DOMAIN topics
  IN  /\ Turn("kafka", 1)
      /\ topics' = IF created
                   THEN topics @@ context.topic :> [n \in 1..SeedCount |-> "seed"]
                               @@ context.outbox :> <<>>
                   ELSE topics
      /\ Found(PassedIf(created))
      /\ UNCHANGED <<schemas, keys, offsets>>

\* drain: a group starts at its committed offset, at the beginning without one,
\* and commits what it was given.
Committed(group, topic) ==
  IF <<group, topic>> \in DOMAIN offsets THEN offsets[<<group, topic>>] ELSE 0
Drained(group, topic, log) == SubSeq(log, Committed(group, topic) + 1, Len(log))
CommitOffset(group, topic, log) == (<<group, topic>> :> Len(log)) @@ offsets

ReplaysSeededEvents ==
  LET log == topics[context.topic]
      got == Drained(context.group, context.topic, log)
  IN  /\ Turn("kafka", 2)
      /\ offsets' = CommitOffset(context.group, context.topic, log)
      /\ Found(IF got = <<>> THEN "timed-out"
               ELSE PassedIf(Cardinality({n \in DOMAIN got : got[n] = "seed"}) = SeedCount))
      /\ UNCHANGED <<schemas, keys, topics>>

CountsItsOwnOutbox ==
  LET log == Append(topics[context.outbox], "append")
      census == [context.group EXCEPT !.census = run]
  IN  /\ Turn("kafka", 3)
      /\ topics' = [topics EXCEPT ![context.outbox] = log]
      /\ offsets' = CommitOffset(census, context.outbox, log)
      /\ Found(PassedIf(Len(Drained(census, context.outbox, log)) = 1))
      /\ UNCHANGED <<schemas, keys>>

\* runPlan: the second suite, then the next strategy.
NextSuite ==
  /\ behaviour = 4
  /\ \/ run < SuitesPerStrategy /\ run' = run + 1 /\ UNCHANGED slot
     \/ run = SuitesPerStrategy /\ slot < 4 /\ slot' = slot + 1 /\ run' = 1
  /\ behaviour' = 0
  /\ UNCHANGED <<plan, context, schemas, keys, topics, offsets, residue>>

ContainerNext ==
  \/ RunPlan \/ EnterPostgres \/ EnterRedis \/ EnterKafka
  \/ CountsRows \/ FirstReceiptId \/ RejectsDuplicateEmail
  \/ MissesColdCache \/ AcquiresLock \/ CountsItsOwnKeys
  \/ CreatesTopics \/ ReplaysSeededEvents \/ CountsItsOwnOutbox \/ NextSuite

-----------------------------------------------------------------------------
\* The cells of containers/README.md:80-100 that are not "pass".
PublishedResidue ==
  ({"counts-rows", "first-receipt-id", "rejects-duplicate-email",
    "misses-cold-cache", "acquires-lock", "creates-topics", "counts-its-own-outbox"}
     \X {"none"})
  \union {<<"first-receipt-id", "truncate">>, <<"counts-its-own-keys", "prefix-per-suite">>,
          <<"creates-topics", "group-per-suite">>, <<"counts-its-own-outbox", "group-per-suite">>}

\* The residue tables (containers/README.md:80-100, residue.container.test.ts):
\* the first suite of every strategy passes, so no strategy inherits another's
\* residue, and the second finds exactly what the tables say it finds: each
\* strategy leaves what it does not name, and only that.
ResidueAsPublished ==
  residue # <<>> =>
    LET where == <<residue.behaviour, residue.strategy>>
    IN  residue.outcome =
          CASE residue.suite = 1 -> "passed"
            [] residue.suite = 2 /\ where = <<"replays-seeded-events", "none">> -> "timed-out"
            [] OTHER -> PassedIf(where \notin PublishedResidue)
=============================================================================
