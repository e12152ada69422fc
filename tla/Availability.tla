----------------------------- MODULE Availability -----------------------------
(***************************************************************************)
(* property/availability.ts: sets of half-open ranges kept as lists, and   *)
(* the three operations on them.  union normalises the concatenation;      *)
(* intersect and subtract normalise both operands and walk them together,  *)
(* the first with two pointers, the second with a cursor.  One action is   *)
(* one iteration of one of the loops.                                      *)
(***************************************************************************)
EXTENDS Integers, Sequences, FiniteSets, Functions

CONSTANTS Questions,  \* [op, a, b]: the calls to make
          Horizon     \* bound on the ends of ranges

Times == 0..Horizon
Ranges == [start : Times, end : Times]
Operations == {"union", "intersect", "subtract"}

ASSUME HorizonAssumption == Horizon \in Nat
ASSUME QuestionAssumption == Questions \subseteq [op : Operations, a : Seq(Ranges), b : Seq(Ranges)]

VARIABLES
  asked,     \* the call
  doing,     \* "idle", the loop that is running, or "done"
  unmerged,  \* defaultNormalise: what is left of the sorted list
  merged,    \* defaultNormalise: its result so far
  left, right,  \* the normalised operands
  li, ri,    \* the indices into them
  cursor,    \* makeSubtract: where the rest of left[li] begins
  result     \* overlaps, remaining, or what normalise returned

availabilityVars == <<asked, doing, unmerged, merged, left, right, li, ri, cursor, result>>

-----------------------------------------------------------------------------
Interval(start, end) == [start |-> start, end |-> end]
IsEmpty(r) == r.end <= r.start
Inside(r, t) == r.start <= t /\ t < r.end
Covers(s, t) == \E n \in DOMAIN s : Inside(s[n], t)

MinOf(x, y) == IF x <= y THEN x ELSE y
MaxOf(x, y) == IF x >= y THEN x ELSE y

\* filter(!isEmpty).sort(by start, then end): sort is any permutation that sorts.
Before(q, r) == q.start < r.start \/ (q.start = r.start /\ q.end <= r.end)
Sorted(s) == \A m, n \in DOMAIN s : m < n => Before(s[m], s[n])
NonEmpty(s) == {n \in DOMAIN s : ~IsEmpty(s[n])}
Sortings(s) ==
  {q \in {[n \in 1..Cardinality(NonEmpty(s)) |-> s[p[n]]] :
            p \in Bijection(1..Cardinality(NonEmpty(s)), NonEmpty(s))} : Sorted(q)}

-----------------------------------------------------------------------------
NoCall == [op |-> "none", a |-> <<>>, b |-> <<>>]

AvailabilityInit ==
  /\ asked = NoCall /\ doing = "idle"
  /\ unmerged = <<>> /\ merged = <<>> /\ left = <<>> /\ right = <<>>
  /\ li = 1 /\ ri = 1 /\ cursor = 0 /\ result = <<>>

AvailabilityIdle == asked = NoCall

Ask ==
  /\ AvailabilityIdle
  /\ asked' \in Questions
  /\ doing' = IF asked'.op = "union" THEN "merging" ELSE "merging a"
  /\ unmerged' \in Sortings(IF asked'.op = "union" THEN asked'.a \o asked'.b ELSE asked'.a)
  /\ UNCHANGED <<merged, left, right, li, ri, cursor, result>>

\* Slip: < for <=, so ranges that touch stay apart.
MergeOnOverlap(last, r) == r.start < last.end

\* A range that begins where the last one ends, or before, belongs to it.
Joins(last, r) == r.start <= last.end

MergeNext ==
  /\ doing \in {"merging", "merging a", "merging b"} /\ unmerged # <<>>
  /\ unmerged' = Tail(unmerged)
  /\ merged' = IF merged # <<>> /\ Joins(merged[Len(merged)], Head(unmerged))
               THEN [merged EXCEPT ![Len(merged)] =
                       Interval(@.start, MaxOf(@.end, Head(unmerged).end))]
               ELSE Append(merged, Head(unmerged))
  /\ UNCHANGED <<asked, doing, left, right, li, ri, cursor, result>>

\* normalise returns: that is the union, or an operand.
MergedUnion ==
  /\ doing = "merging" /\ unmerged = <<>>
  /\ result' = merged /\ doing' = "done"
  /\ UNCHANGED <<asked, unmerged, merged, left, right, li, ri, cursor>>

MergedLeft ==
  /\ doing = "merging a" /\ unmerged = <<>>
  /\ left' = merged /\ merged' = <<>>
  /\ unmerged' \in Sortings(asked.b)
  /\ doing' = "merging b"
  /\ UNCHANGED <<asked, right, li, ri, cursor, result>>

MergedRight ==
  /\ doing = "merging b" /\ unmerged = <<>>
  /\ right' = merged
  /\ IF asked.op = "intersect" THEN doing' = "overlapping" /\ UNCHANGED cursor
     ELSE IF left = <<>> THEN doing' = "done" /\ UNCHANGED cursor
     ELSE doing' = "removing" /\ cursor' = left[1].start
  /\ UNCHANGED <<asked, unmerged, merged, left, li, ri, result>>

\* makeIntersect: keep what the two heads share, drop the one that ends first.
Overlap ==
  LET x == left[li]
      y == right[ri]
      start == MaxOf(x.start, y.start)
      end == MinOf(x.end, y.end)
  IN  /\ doing = "overlapping" /\ li <= Len(left) /\ ri <= Len(right)
      /\ result' = IF end > start THEN Append(result, Interval(start, end)) ELSE result
      /\ IF x.end < y.end THEN li' = li + 1 /\ UNCHANGED ri ELSE ri' = ri + 1 /\ UNCHANGED li
      /\ UNCHANGED <<asked, doing, unmerged, merged, left, right, cursor>>

Overlapped ==
  /\ doing = "overlapping" /\ (li > Len(left) \/ ri > Len(right))
  /\ doing' = "done"
  /\ UNCHANGED <<asked, unmerged, merged, left, right, li, ri, cursor, result>>

\* makeSubtract, the inner loop: a range that ended before the cursor ...
SkipRemoved ==
  /\ doing = "removing" /\ ri <= Len(right) /\ cursor < left[li].end
  /\ right[ri].end <= cursor
  /\ ri' = ri + 1
  /\ UNCHANGED <<asked, doing, unmerged, merged, left, right, li, cursor, result>>

\* ... or one that takes something off the rest ...
RemoveNext ==
  /\ doing = "removing" /\ ri <= Len(right) /\ cursor < left[li].end
  /\ right[ri].end > cursor /\ right[ri].start < left[li].end
  /\ result' = IF right[ri].start > cursor
               THEN Append(result, Interval(cursor, right[ri].start)) ELSE result
  /\ cursor' = right[ri].end
  /\ ri' = ri + 1
  /\ UNCHANGED <<asked, doing, unmerged, merged, left, right, li>>

\* ... until none is left, one begins behind left[li], or nothing is left of
\* that; what is left is kept, and the outer loop goes on from the first removed.
KeepRest ==
  /\ doing = "removing"
  /\ \/ ri > Len(right) \/ cursor >= left[li].end
     \/ ri <= Len(right) /\ right[ri].end > cursor /\ right[ri].start >= left[li].end
  /\ result' = IF cursor < left[li].end
               THEN Append(result, Interval(cursor, left[li].end)) ELSE result
  /\ IF li < Len(left)
     THEN li' = li + 1 /\ ri' = 1 /\ cursor' = left[li + 1].start /\ UNCHANGED doing
     ELSE doing' = "done" /\ UNCHANGED <<li, ri, cursor>>
  /\ UNCHANGED <<asked, unmerged, merged, left, right>>

AvailabilityNext ==
  \/ Ask \/ MergeNext \/ MergedUnion \/ MergedLeft \/ MergedRight
  \/ Overlap \/ Overlapped \/ SkipRemoved \/ RemoveNext \/ KeepRest

AvailabilitySpec == AvailabilityInit /\ [][AvailabilityNext]_availabilityVars

-----------------------------------------------------------------------------
\* No range is empty, and between any two is a gap.
Canonical(s) ==
  /\ \A n \in DOMAIN s : ~IsEmpty(s[n])
  /\ \A m, n \in DOMAIN s : m < n => s[m].end < s[n].start

Wanted(t) ==
  CASE asked.op = "union" -> Covers(asked.a, t) \/ Covers(asked.b, t)
    [] asked.op = "intersect" -> Covers(asked.a, t) /\ Covers(asked.b, t)
    [] asked.op = "subtract" -> Covers(asked.a, t) /\ ~Covers(asked.b, t)

\* Structure and extension (availability.ts:17-21): an operation returns the
\* points the set operation has, in the one list of ranges that has no empty
\* range and none that touch, whatever its operands looked like.
AnswersAreSets ==
  doing = "done" => Canonical(result) /\ \A t \in Times : Covers(result, t) <=> Wanted(t)
=============================================================================
