------------------------------- MODULE Postgres -------------------------------
(***************************************************************************)
(* One session of PostgreSQL as dbisolation/ meets it, and as              *)
(* mechanism.ts measures it: a nested BEGIN is only a warning, COMMIT of a *)
(* transaction in which a statement was refused rolls it back, deferred    *)
(* constraints speak at COMMIT and not at RELEASE, ROLLBACK TO keeps its   *)
(* savepoint.                                                              *)
(*                                                                         *)
(* A connection is [tx, view, saves, db]: what its reads see, and what     *)
(* every other session sees.  Nothing else writes while it is in use, so   *)
(* outside a transaction the two are the same.  A statement answers        *)
(* [ok, c]: whether the driver threw, and the connection afterwards.       *)
(***************************************************************************)
EXTENDS Naturals, Sequences

Connected(db) == [tx |-> "idle", view |-> db, saves |-> <<>>, db |-> db]

Answers(ok, c) == [ok |-> ok, c |-> c]

\* A refused statement aborts the transaction it is in.
Refuse(c) == Answers(FALSE, IF c.tx = "idle" THEN c ELSE [c EXCEPT !.tx = "aborted"])

PgBegin(c) ==
  CASE c.tx = "idle" -> Answers(TRUE, [c EXCEPT !.tx = "open"])
    [] c.tx = "open" -> Answers(TRUE, c)
    [] OTHER -> Refuse(c)

\* `valid`: the deferred constraints hold of what would be committed.
PgCommit(c, valid) ==
  CASE c.tx = "open" /\ valid -> Answers(TRUE, Connected(c.view))
    [] c.tx = "open" /\ ~valid -> Answers(FALSE, Connected(c.db))
    [] OTHER -> Answers(TRUE, Connected(c.db))

PgRollback(c) == Answers(TRUE, Connected(c.db))

\* The savepoints of that name; the last one shadows the others.
Named(c, name) == {i \in 1..Len(c.saves) : c.saves[i].name = name}
Innermost(c, name) == CHOOSE i \in Named(c, name) : \A j \in Named(c, name) : j <= i

PgSavepoint(c, name) ==
  IF c.tx = "open"
  THEN Answers(TRUE, [c EXCEPT !.saves = Append(@, [name |-> name, view |-> c.view])])
  ELSE Refuse(c)

PgRelease(c, name) ==
  IF c.tx = "open" /\ Named(c, name) # {}
  THEN Answers(TRUE, [c EXCEPT !.saves = SubSeq(@, 1, Innermost(c, name) - 1)])
  ELSE Refuse(c)

PgRollbackTo(c, name) ==
  IF c.tx # "idle" /\ Named(c, name) # {}
  THEN Answers(TRUE, [c EXCEPT !.tx = "open",
                               !.view = c.saves[Innermost(c, name)].view,
                               !.saves = SubSeq(@, 1, Innermost(c, name))])
  ELSE Refuse(c)

\* A statement that changes what the session sees to `new`; `accepted` unless
\* a constraint refuses it at once; outside a transaction it commits by itself.
PgWrite(c, new, accepted, valid) ==
  CASE c.tx = "open" /\ accepted -> Answers(TRUE, [c EXCEPT !.view = new])
    [] c.tx = "idle" /\ accepted /\ valid -> Answers(TRUE, Connected(new))
    [] OTHER -> Refuse(c)
=============================================================================
