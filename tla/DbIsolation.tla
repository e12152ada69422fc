----------------------------- MODULE DbIsolation -----------------------------
(***************************************************************************)
(* The two measurements of dbisolation/: for every strategy, a suite of    *)
(* seven behaviours against a correct subject and against one with a       *)
(* fault, in a database of its own each (matrix.ts), and a probe that runs *)
(* twice in one database (leakage.ts).  A test is beginTest, its           *)
(* statements one at a time, endTest; the subject and the tests are        *)
(* sequences of statements.                                                *)
(*                                                                         *)
(* Tables are abstract: orders {[id, ref, total]}, order_lines             *)
(* {[order, sku, cents]}, stock, the refs in audit_log in insertion order, *)
(* whether the scratch column and the lookup index exist, and the          *)
(* notifications that were delivered.                                      *)
(***************************************************************************)
EXTENDS SavepointRewriting, Integers, FiniteSets, SequencesExt, FiniteSetsExt

CONSTANTS DbCells   \* <<strategy, subject>>: the cells to run

VARIABLES
  cell,     \* the cell of this behaviour
  round,    \* 1, 2: control and fault, or first and second run of the probe
  test,     \* which behaviour of the suite; 0: the round has not begun
  stage,    \* "between" two tests, "running", "ending"
  script,   \* the statements the test has still to send
  conn,     \* the connection of the test, or the one that is held
  level,    \* the depth counter of the rewriting
  nextId,   \* orders_id_seq
  placed,   \* the id the subject's insert returned
  red       \* red[round]: behaviours, or the probe, that failed

dbVars == <<cell, round, test, stage, script, conn, level, nextId, placed, red>>

DbStrategies == {"none", "truncate", "truncate-restart", "truncate-derived", "rollback",
               "rollback-savepoint", "schema-per-test", "template-db"}

Faults == {"TOTAL_NOT_RECOMPUTED", "STOCK_NOT_DECREMENTED", "WRONG_LINE_COUNT",
           "AUDIT_NOT_WRITTEN", "STOCK_OVERSOLD", "ORPHAN_LINE", "DUPLICATE_REF",
           "NEVER_COMMITS", "NOTIFY_MISSING", "MIGRATION_IN_TX"}

Behaviours == <<"total", "lines", "stock", "audit", "durability", "notification", "migration">>

Probes == {"rows", "plain-insert", "ids", "audit", "ddl"}

ASSUME DbCellAssumption == DbCells \subseteq DbStrategies \X (Faults \union Probes)

NoCell == <<"no cell", "no subject">>
Strategy == cell[1]
Subject == cell[2]
Probing == Subject \in Probes
By(strategies) == Strategy \in strategies

-----------------------------------------------------------------------------
\* schema.ts: the tables as the DDL makes them, and what seed() puts in.
Skus == {"WIDGET", "GASKET"}
NewTables == [orders |-> {}, lines |-> {}, stock |-> [sku \in Skus |-> 0], audit |-> <<>>,
              column |-> FALSE, index |-> FALSE, heard |-> {}]
Seed(c) == [c EXCEPT !.stock = [sku \in Skus |-> 10]]

\* The deferred unique and foreign keys.
Valid(c) ==
  /\ \A l \in c.lines : \E o \in c.orders : o.id = l.order
  /\ \A o, p \in c.orders : o.ref = p.ref => o = p

\* TRUNCATE ... CASCADE of the three listed tables, or of all there are.
Truncated(c) == [c EXCEPT !.orders = {}, !.lines = {}]
TruncatedAll(c) == [Truncated(c) EXCEPT !.audit = <<>>]

-----------------------------------------------------------------------------
\* Statements.  A line against order 0 is one against an order that is not there.
Begin == [do |-> "begin"]
Commit == [do |-> "commit"]
InsertOrder(ref) == [do |-> "order", ref |-> ref]
InsertAgain(ref) == [do |-> "order again", ref |-> ref]
InsertLine(sku, cents) == [do |-> "line", sku |-> sku, cents |-> cents]
OrphanLine == [do |-> "orphan"]
Recompute == [do |-> "total"]
Decrement(sku, n) == [do |-> "stock", sku |-> sku, n |-> n]
InsertAudit(ref) == [do |-> "audit", ref |-> ref]
Notify(ref) == [do |-> "notify", ref |-> ref]
CreateIndex == [do |-> "index"]
AddColumn == [do |-> "column"]
\* What the test expects of what it reads.
Expect(what, ref) == [do |-> "expect", what |-> what, ref |-> ref]

When(condition, statements) == IF condition THEN statements ELSE <<>>

\* orders.ts: the subject, with one fault or none.
PlaceOrder(ref, lines, fault) ==
  LET written == IF fault = "WRONG_LINE_COUNT" THEN Front(lines) ELSE lines
      line(i) == InsertLine(written[i].sku, written[i].cents)
      take(i) == Decrement(written[i].sku, IF fault = "STOCK_OVERSOLD" THEN 100 ELSE 1)
  IN  <<Begin, InsertOrder(ref)>>
      \o When(fault = "DUPLICATE_REF", <<InsertAgain(ref)>>)
      \o [i \in 1..Len(written) |-> line(i)]
      \o When(fault = "ORPHAN_LINE", <<OrphanLine>>)
      \o When(fault # "TOTAL_NOT_RECOMPUTED", <<Recompute>>)
      \o When(fault # "STOCK_NOT_DECREMENTED", [i \in 1..Len(written) |-> take(i)])
      \o When(fault # "AUDIT_NOT_WRITTEN", <<InsertAudit(ref)>>)
      \o When(fault # "NOTIFY_MISSING", <<Notify(ref)>>)
      \o When(fault # "NEVER_COMMITS", <<Commit>>)

EnsureRefIndex(fault) ==
  IF fault = "MIGRATION_IN_TX" THEN <<Begin, CreateIndex, Commit>> ELSE <<CreateIndex>>

TwoLines == <<[sku |-> "WIDGET", cents |-> 1200], [sku |-> "GASKET", cents |-> 300]>>
OneLine == <<[sku |-> "WIDGET", cents |-> 100]>>

\* behaviours.ts: act through the subject, then look.
BehaviourScript(b, fault) ==
  (IF b = "migration" THEN EnsureRefIndex(fault) ELSE PlaceOrder(b, TwoLines, fault))
  \o <<Expect(b, b)>>

\* leakage.ts: refs differ between the two runs.
ProbeScript(p) ==
  CASE p = "plain-insert" -> <<InsertOrder(round), Expect("rows", round)>>
    [] p = "ddl" -> <<Expect("ddl", round), AddColumn>>
    [] OTHER -> PlaceOrder(round, OneLine, "none") \o <<Expect(p \o " alone", round)>>

-----------------------------------------------------------------------------
\* What a statement makes of what the session sees, and whether a constraint
\* or the server refuses it on the spot.
LinesOf(c, id) == {l \in c.lines : l.order = id}
Total(c, id) == MapThenSumSet(LAMBDA l : l.cents, LinesOf(c, id))

After(c, s) ==
  CASE s.do \in {"order", "order again"} ->
         [c EXCEPT !.orders = @ \union {[id |-> nextId, ref |-> s.ref, total |-> 0]}]
    [] s.do = "line" -> [c EXCEPT !.lines = @ \union {[order |-> placed, sku |-> s.sku, cents |-> s.cents]}]
    [] s.do = "orphan" -> [c EXCEPT !.lines = @ \union {[order |-> 0, sku |-> "GHOST", cents |-> 0]}]
    [] s.do = "total" -> [c EXCEPT !.orders = {IF o.id = placed THEN [o EXCEPT !.total = Total(c, placed)]
                                               ELSE o : o \in c.orders}]
    [] s.do = "stock" -> [c EXCEPT !.stock[s.sku] = @ - s.n]
    [] s.do = "audit" -> [c EXCEPT !.audit = Append(@, s.ref)]
    [] s.do = "notify" -> [c EXCEPT !.heard = @ \union {s.ref}]
    [] s.do = "index" -> [c EXCEPT !.index = TRUE]
    [] s.do = "column" -> [c EXCEPT !.column = TRUE]

Accepted(c, s) ==
  /\ s.do = "stock" => c.view.stock[s.sku] >= s.n
  /\ s.do = "index" => c.tx = "idle"

\* env.db.query(s): [ok, c, depth].
Query(c, d, s) ==
  LET rewriting == By({"rollback-savepoint"}) IN
  CASE s.do = "begin" /\ rewriting -> RewriteBegin(c, d)
    [] s.do = "commit" /\ rewriting -> RewriteCommit(c, d)
    [] s.do = "begin" /\ ~rewriting -> Through(PgBegin(c), d)
    [] s.do = "commit" /\ ~rewriting -> Through(PgCommit(c, Valid(c.view)), d)
    [] OTHER -> Through(PgWrite(c, After(c.view, s), Accepted(c, s), Valid(After(c.view, s))), d)

\* What a test reads back: through the session that wrote, or through another
\* one, which only sees what is committed.
Holds(s) ==
  LET c == conn.view IN
  IF s.what \in {"durability", "notification"}
  THEN IF s.what = "durability" THEN \E o \in conn.db.orders : o.id = placed
       ELSE s.ref \in conn.db.heard
  ELSE conn.tx # "aborted" /\
    CASE s.what = "total" -> \A o \in c.orders : o.id = placed => o.total = 1500
      [] s.what = "lines" -> Cardinality(LinesOf(c, placed)) = 2
      [] s.what = "stock" -> c.stock["WIDGET"] = 9
      [] s.what = "audit" -> Len(SelectSeq(c.audit, LAMBDA ref : ref = s.ref)) = 1
      [] s.what = "migration" -> c.index
      [] s.what \in {"rows", "rows alone"} -> Cardinality(c.orders) = 1
      [] s.what = "ids alone" -> placed = 1
      [] s.what = "audit alone" -> Len(c.audit) = 1
      [] s.what = "ddl" -> ~c.column

-----------------------------------------------------------------------------
DbInit ==
  /\ cell = NoCell /\ round = 0 /\ test = 0 /\ stage = "between" /\ script = <<>>
  /\ conn = Connected(NewTables) /\ level = 0 /\ nextId = 1 /\ placed = 0
  /\ red = [r \in 1..2 |-> {}]

DbIdle == cell = NoCell

PickCell ==
  /\ DbIdle
  /\ cell' \in DbCells
  /\ round' = 1
  /\ UNCHANGED <<test, stage, script, conn, level, nextId, placed, red>>

Tests == IF Probing THEN <<Subject>> ELSE Behaviours
ScriptOf(name) == IF Probing THEN ProbeScript(name)
                  ELSE BehaviourScript(name, IF round = 2 THEN Subject ELSE "none")

\* beginTest leaves the connection ready and the seed in place.  What it finds
\* is what the database kept, or fresh tables in a schema or a clone of its own.
Reset(db) ==
  CASE By({"truncate", "truncate-restart"}) -> Truncated(db)
    [] By({"truncate-derived"}) -> TruncatedAll(db)
    [] By({"schema-per-test", "template-db"}) -> NewTables
    [] OTHER -> db

Restarts == By({"truncate-restart", "truncate-derived", "schema-per-test", "template-db"})

Held == By({"rollback", "rollback-savepoint"})

BeginTest ==
  /\ ~DbIdle /\ stage = "between" /\ test < Len(Tests)
  /\ stage' = "running"
  /\ test' = test + 1
  /\ script' = ScriptOf(Tests[test + 1])
  /\ conn' = IF Held
             THEN LET begun == PgBegin(conn).c IN [begun EXCEPT !.view = Seed(begun.view)]
             ELSE Connected(Seed(Reset(conn.db)))
  /\ level' = 0
  /\ nextId' = IF Restarts THEN 1 ELSE nextId
  /\ placed' = 0
  /\ UNCHANGED <<cell, round, red>>

\* The next statement of the test: one that throws ends it as red.
RunStatement ==
  /\ stage = "running" /\ script # <<>> /\ Head(script).do # "expect"
  /\ LET reply == Query(conn, level, Head(script)) IN
     /\ conn' = reply.c
     /\ level' = reply.depth
     /\ IF reply.ok THEN script' = Tail(script) /\ UNCHANGED <<stage, red>>
        ELSE /\ script' = <<>> /\ stage' = "ending"
             /\ red' = [red EXCEPT ![round] = @ \union {Tests[test]}]
  /\ nextId' = IF Head(script).do \in {"order", "order again"} /\ conn.tx # "aborted"
               THEN nextId + 1 ELSE nextId
  /\ placed' = IF Head(script).do = "order" THEN nextId ELSE placed
  /\ UNCHANGED <<cell, round, test>>

CheckExpectation ==
  /\ stage = "running" /\ script # <<>> /\ Head(script).do = "expect"
  /\ IF Holds(Head(script)) THEN script' = Tail(script) /\ UNCHANGED <<stage, red>>
     ELSE /\ script' = <<>> /\ stage' = "ending"
          /\ red' = [red EXCEPT ![round] = @ \union {Tests[test]}]
  /\ UNCHANGED <<cell, round, test, conn, level, nextId, placed>>

\* Slip: the connection is handed on as the subject left it.
EndTestKeeping ==
  /\ stage = "ending" \/ (stage = "running" /\ script = <<>>)
  /\ stage' = "between" /\ script' = <<>>
  /\ UNCHANGED <<cell, round, test, conn, level, nextId, placed, red>>

\* endTest ends the connection, or rolls the held one back, whatever happened;
\* a schema and a clone are dropped.
EndTest ==
  /\ stage = "ending" \/ (stage = "running" /\ script = <<>>)
  /\ conn' = PgRollback(conn).c
  /\ stage' = "between" /\ script' = <<>>
  /\ UNCHANGED <<cell, round, test, level, nextId, placed, red>>

\* The second round: the faulty subject gets a database of its own, the probe
\* runs again where it ran before.
NextRound ==
  /\ ~DbIdle /\ stage = "between" /\ test = Len(Tests) /\ round = 1
  /\ round' = 2 /\ test' = 0
  /\ IF Probing THEN UNCHANGED <<conn, nextId>>
     ELSE conn' = Connected(NewTables) /\ nextId' = 1
  /\ UNCHANGED <<cell, stage, script, level, placed, red>>

DbNext == PickCell \/ BeginTest \/ RunStatement \/ CheckExpectation \/ EndTest \/ NextRound

DbSpec == DbInit /\ [][DbNext]_dbVars

-----------------------------------------------------------------------------
\* Both rounds are over.
Measured == round = 2 /\ stage = "between" /\ test = Len(Tests)

\* scoring.ts: green against the correct subject, red against the faulty one.
Catchers == red[2] \ red[1]

Missed(strategy) ==
  CASE strategy = "rollback" -> {"MIGRATION_IN_TX"}
    [] strategy = "rollback-savepoint" ->
         {"ORPHAN_LINE", "DUPLICATE_REF", "NEVER_COMMITS", "NOTIFY_MISSING", "MIGRATION_IN_TX"}
    [] OTHER -> {}

Unusable(strategy) ==
  CASE strategy = "rollback" -> {"migration"}
    [] strategy = "rollback-savepoint" -> {"durability", "notification", "migration"}
    [] OTHER -> {}

Leaks(strategy) ==
  CASE strategy = "none" -> Probes
    [] strategy = "truncate" -> {"ids", "audit", "ddl"}
    [] strategy = "truncate-restart" -> {"audit", "ddl"}
    [] strategy = "truncate-derived" -> {"ddl"}
    [] strategy = "rollback" -> {"rows", "ids", "audit"}
    [] strategy = "rollback-savepoint" -> {"ids"}
    [] OTHER -> {}

\* The detection, usability and leakage tables (README.md:58-83, 138-144).
\* Under each strategy the suite still sees exactly the faults published as
\* caught, and of the correct subject refuses exactly the behaviours published
\* as unusable; a probe passes in a fresh database and fails the second time
\* exactly where its residue is published as left.
MeasuredAsPublished ==
  Measured =>
    IF Probing
    THEN red[1] = {} /\ (red[2] # {} <=> Subject \in Leaks(Strategy))
    ELSE red[1] = Unusable(Strategy) /\ (Catchers = {} <=> Subject \in Missed(Strategy))
=============================================================================
