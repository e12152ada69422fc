-------------------------- MODULE SavepointRewriting --------------------------
(***************************************************************************)
(* dbisolation/rewrite.ts: the subject's BEGIN, COMMIT and ROLLBACK become *)
(* savepoints inside the transaction the harness opened before the test    *)
(* and rolls back after it.                                                *)
(*                                                                         *)
(* The subject here is any program that sends statements one at a time,    *)
(* whatever it was answered: it may nest, send a COMMIT it never opened,   *)
(* go on after an error, or spell its transaction control in a way that    *)
(* the first word does not tell, which then reaches PostgreSQL as it is.   *)
(* It names no savepoints of its own.  `nested` is what it believes: a     *)
(* stack of the states its open transactions would go back to.             *)
(***************************************************************************)
EXTENDS Postgres

CONSTANTS Contents,   \* what the tables may hold
          Seeded,     \* what they held before the test
          MaxSent     \* bound on the statements of one subject

ASSUME SeededAssumption == Seeded \in Contents
ASSUME SentAssumption == MaxSent \in Nat

VARIABLES
  link,     \* the connection the harness holds
  depth,    \* the rewriting's depth counter
  running,  \* between beginTest and endTest
  sent,     \* statements the subject has sent
  nested,   \* Seq(Contents): what each open transaction goes back to
  believed, \* what the subject believes the tables hold
  astray,   \* the subject did something nested transactions have no answer to
  bypassed  \* a COMMIT or ROLLBACK in another spelling has been sent, in any test

rewriteVars == <<link, depth, running, sent, nested, believed, astray, bypassed>>

-----------------------------------------------------------------------------
\* The rewriting, as an operator on a connection: [ok, c, depth].
Through(answer, d) == [ok |-> answer.ok, c |-> answer.c, depth |-> d]

RewriteBegin(c, d) == Through(PgSavepoint(c, d + 1), d + 1)

\* COMMIT and ROLLBACK at depth zero throw, and nothing is sent.
Outside(c, d) == [ok |-> FALSE, c |-> c, depth |-> d]

\* Slip: at depth zero the keyword goes through as it is.
CommitAnyway(c, d) == IF d = 0 THEN Through(PgCommit(c, TRUE), 0)
                      ELSE Through(PgRelease(c, d), d - 1)

\* Slip: a rollback forgets to leave the level.
RollbackKeepsDepth(c, d) == IF d = 0 THEN Outside(c, d) ELSE Through(PgRollbackTo(c, d), d)

RewriteCommit(c, d) == IF d = 0 THEN Outside(c, d) ELSE Through(PgRelease(c, d), d - 1)

RewriteRollback(c, d) == IF d = 0 THEN Outside(c, d) ELSE Through(PgRollbackTo(c, d), d - 1)

\* Transaction control that is read as any other statement: END or `commit;`, ABORT
\* or `rollback;`, START TRANSACTION or `begin;`.
Unread == {"end", "abort", "start"}
Forwarded(c, word) == CASE word = "end" -> PgCommit(c, TRUE)
                        [] word = "abort" -> PgRollback(c)
                        [] word = "start" -> PgBegin(c)

-----------------------------------------------------------------------------
RewriteInit ==
  /\ link = Connected(Seeded)
  /\ depth = 0 /\ running = FALSE /\ sent = 0
  /\ nested = <<>> /\ believed = Seeded /\ astray = FALSE /\ bypassed = FALSE

\* No test has run yet.
RewriteIdle == ~running /\ sent = 0 /\ link = Connected(Seeded)

\* beginTest: BEGIN, and a rewriting of its own with its counter at zero.
BeginWrapped ==
  /\ ~running
  /\ link' = PgBegin(link).c
  /\ depth' = 0 /\ running' = TRUE
  /\ nested' = <<>> /\ believed' = link.view /\ astray' = FALSE
  /\ UNCHANGED <<sent, bypassed>>

\* The subject sends something, and hears what became of it.
Sends(reply) ==
  /\ running /\ sent < MaxSent
  /\ link' = reply.c /\ depth' = reply.depth
  /\ sent' = sent + 1
  /\ UNCHANGED running

\* After a refusal the only thing to say is ROLLBACK.
Aborted == link.tx = "aborted"

SendBegin ==
  /\ Sends(RewriteBegin(link, depth))
  /\ nested' = Append(nested, believed)
  /\ astray' = (astray \/ Aborted)
  /\ UNCHANGED <<believed, bypassed>>

SendCommit ==
  /\ Sends(RewriteCommit(link, depth))
  /\ nested' = IF nested = <<>> THEN <<>> ELSE SubSeq(nested, 1, Len(nested) - 1)
  /\ astray' = (astray \/ Aborted)
  /\ UNCHANGED <<believed, bypassed>>

SendRollback ==
  /\ Sends(RewriteRollback(link, depth))
  /\ IF nested = <<>> THEN UNCHANGED <<nested, believed>>
     ELSE /\ nested' = SubSeq(nested, 1, Len(nested) - 1)
          /\ believed' = nested[Len(nested)]
  /\ UNCHANGED <<astray, bypassed>>

\* A write, or a statement that is refused; outside any transaction of the
\* subject's a refusal would cost it that statement alone.
SendWrite(new, accepted) ==
  /\ Sends(Through(PgWrite(link, new, accepted, TRUE), depth))
  /\ believed' = IF accepted THEN new ELSE believed
  /\ astray' = (astray \/ Aborted \/ (~accepted /\ nested = <<>>))
  /\ UNCHANGED <<nested, bypassed>>

\* What is not read goes through: the counter and the harness know nothing of it.
SendUnread(word) ==
  /\ Sends(Through(Forwarded(link, word), depth))
  /\ astray' = TRUE /\ bypassed' = (bypassed \/ word # "start")
  /\ UNCHANGED <<nested, believed>>

\* endTest: ROLLBACK, whatever the subject left.
EndWrapped ==
  /\ running
  /\ link' = PgRollback(link).c
  /\ running' = FALSE
  /\ UNCHANGED <<depth, sent, nested, believed, astray, bypassed>>

RewriteNext ==
  \/ BeginWrapped \/ SendBegin \/ SendCommit \/ SendRollback
  \/ \E new \in Contents, accepted \in BOOLEAN : SendWrite(new, accepted)
  \/ \E word \in Unread : SendUnread(word)
  \/ EndWrapped

RewriteSpec == RewriteInit /\ [][RewriteNext]_rewriteVars

-----------------------------------------------------------------------------
\* The transaction around the subject is the harness's to end, and no other
\* session sees anything of the test.
TransactionIsOurs ==
  /\ running => link.tx # "idle"
  /\ link.db = Seeded

\* So it is whatever order the subject sends BEGIN, COMMIT, ROLLBACK, START
\* TRANSACTION, reads and writes in, nested, unmatched or refused
\* (rewrite.ts:23-27), as long as it commits and rolls back by the bare keywords,
\* as the subjects of the repository do (orders.ts:84-89, double.ts:27-31): END,
\* ABORT or a keyword with a semicolon on it ends the harness's transaction.
WrapperHolds == ~bypassed => TransactionIsOurs

\* A subject that answers every refusal with ROLLBACK finds its transactions
\* nested: its reads see what its open transactions wrote, a rollback takes it
\* back to where that transaction began, and the counter is their number.
RewritingNests ==
  running /\ ~astray =>
    /\ depth = Len(nested)
    /\ link.tx = "open" => link.view = believed
    /\ link.tx = "aborted" => depth > 0
=============================================================================
