----------------------------- MODULE MCHarnesses -----------------------------
(***************************************************************************)
(* Harnesses for TLC: every cell of every table, and for the minimiser     *)
(* every predicate over three characters (with the whole input failing),   *)
(* and the ones that need all of a set of positions, or of either of two.  *)
(* The sets: operands of up to two ranges, empty and inverted ones too,    *)
(* and normalised ones with a gap or a touch at every distance.  The diff: *)
(* two suites over a module that may or may not be there, imported by way  *)
(* of either of two specifiers, one of which has two candidates; a setup   *)
(* file that a trigger matches, and that imports, is imported and reads    *)
(* data like any other.                                                    *)
(***************************************************************************)
EXTENDS Harnesses

CONSTANTS t0, t1, t2, adaTest, bobTest, rates, index, indexDir, setup, data

AllDbCells == DbStrategies \X (Faults \union Probes)

AllColumns == Layers \X (FixedWeather \union {"changing"})

AllPactCells == PactStrategies \X DOMAIN Scenarios

Positions(k) == SelectSeq(Input(8), LAMBDA i : i \in k)
Predicate(n, holds(_)) ==
  [length |-> n, failing |-> {Positions(k) : k \in {q \in SUBSET (1..n) : holds(q)}}]

AnyOf(n) == {Predicate(n, LAMBDA q : q \in f \/ q = 1..n) : f \in SUBSET (SUBSET (1..n))}
Needing(n, ways) == Predicate(n, LAMBDA q : \E way \in ways : way \subseteq q)

AllSearches ==
  AnyOf(3) \union {Needing(5, {v, w}) : v, w \in SUBSET (1..5)}
           \union {Needing(8, {w}) : w \in SUBSET (1..8)}

AllPlans == {"postgres", "redis", "kafka"}

Pool == {[start |-> s, end |-> e] : s \in 0..3, e \in 0..3}
Shapely == {r \in Pool : r.start < r.end} \union {[start |-> 2, end |-> 1]}
UpTo2(S) == {<<>>} \union {<<x>> : x \in S} \union (S \X S)
Wide == {[start |-> s, end |-> e] : s \in 0..6, e \in 0..6}
Long == {<<x, y, z>> : x \in {[start |-> 0, end |-> 1], [start |-> 1, end |-> 2]},
                       y \in {[start |-> 2, end |-> 3], [start |-> 3, end |-> 4]},
                       z \in {[start |-> 5, end |-> 6], [start |-> 4, end |-> 6]}}
Normal == {s \in UpTo2(Wide) \union Long : Canonical(s)}
AllQuestions == [op : Operations, a : UpTo2(Shapely), b : UpTo2(Shapely)]
                  \union [op : {"intersect", "subtract"}, a : Normal, b : Normal]

ImpactFiles == {adaTest, bobTest, rates, index, indexDir, setup, data}
ImpactCandidates == "rates" :> <<rates>> @@ "index" :> <<index, indexDir>>
                      @@ "setup" :> <<setup>>
ImpactEdges == {<<setup, data>>, <<rates, data>>}

Source(wants) == [wants |-> wants, rest |-> 0]
Maybe(f, wants) == IF "absent" \in wants THEN <<>> ELSE f :> Source(wants)
Shapes ==
  {adaTest :> Source(ada) @@ bobTest :> Source({"setup"}) @@ setup :> Source({"index"})
     @@ data :> Source({}) @@ Maybe(rates, r) @@ Maybe(index, i) @@ Maybe(indexDir, d) :
     ada \in {{"rates"}, {"index"}}, r \in {{"absent"}, {}, {"index"}},
     i \in {{"absent"}, {}, {"rates"}}, d \in {{"absent"}, {}}}
Edited(tree) == {tree} \union {[tree EXCEPT ![f].rest = 1] : f \in DOMAIN tree}
AllChanges == Shapes \X UNION {Edited(tree) : tree \in Shapes}

AllDrifts == {0, -300}
=============================================================================
