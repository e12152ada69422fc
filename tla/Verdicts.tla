------------------------------- MODULE Verdicts -------------------------------
(***************************************************************************)
(* authstate/derive.ts: what a ledger says of a strategy.  A row is        *)
(* [phase, marker, worker, slot, retry, email, me, notes]; rows come in    *)
(* the order they were filed.                                              *)
(***************************************************************************)
EXTENDS Integers, Sequences, FiniteSets, SequencesExt

EvictionVerdict(rows) ==
  IF \E row \in ToSet(rows) : row.me = 401 THEN "evicted" ELSE "survives"

MutationVerdict(rows) ==
  LET parallel == {row \in ToSet(rows) : row.phase = "parallel"} IN
  IF \E row \in parallel : row.me # 200 THEN "unreachable"
  ELSE IF \E row \in parallel : ToSet(row.notes) \ {row.marker} # {} THEN "collided"
  ELSE "isolated"

\* Positions of the restart rows, and of those before i at the same slot.
Restarts(rows) == {i \in DOMAIN rows : rows[i].phase = "restart"}
Earlier(rows, i) == {j \in Restarts(rows) : j < i /\ rows[j].slot = rows[i].slot}

\* The first row of each worker, and each one's with that of the worker before
\* it at the same slot.
First(rows) == {i \in Restarts(rows) :
                  Earlier(rows, i) # {} => rows[Max(Earlier(rows, i))].worker # rows[i].worker}
Replacements(rows) ==
  {<<Max(Earlier(rows, i) \intersect First(rows)), i>> : i \in {k \in First(rows) : Earlier(rows, k) # {}}}

InheritanceVerdict(rows) ==
  IF Replacements(rows) = {} THEN "unanswered"
  ELSE IF \E r \in Replacements(rows) : rows[r[1]].email = rows[r[2]].email THEN "inherited"
  ELSE "fresh"

AccountsUsed(rows) == Cardinality({row.email : row \in ToSet(rows)})

\* deriveRow, of the two runs that measured one strategy.
DeriveRow(parallel, restart) ==
  LET rows == parallel.rows \o restart.rows IN
  [eviction |-> EvictionVerdict(rows), mutation |-> MutationVerdict(rows),
   inheritance |-> InheritanceVerdict(rows),
   logins |-> parallel.logins + restart.logins,
   accounts |-> AccountsUsed(parallel.rows) + AccountsUsed(restart.rows)]
=============================================================================
