---------------------------- MODULE ImpactSelection ----------------------------
(***************************************************************************)
(* impact/: from a diff to the suites to run.  A tree is the files of a    *)
(* checkout with their texts; the graph is read off the working tree, and  *)
(* walked backwards from the changed paths, one action per round.  A       *)
(* specifier is what is left of an import once joined to its directory: a  *)
(* list of candidate files.  Edges are the declared and derived ones,      *)
(* already expanded, and a trigger is the files its pattern matches.       *)
(***************************************************************************)
EXTENDS Integers, Sequences, FiniteSets

CONSTANTS
  Files,      \* paths
  Suites,     \* those that are unit test files
  Candidates, \* specifier -> the paths resolveSpecifier tries, in order
  Edges,      \* <<importer, dependency>>
  Triggers,   \* paths a trigger matches
  Changes     \* <<before, after>>: the merge base and the working tree

Texts == [wants : SUBSET DOMAIN Candidates, rest : Nat]
IsTree(t) == DOMAIN t \subseteq Files /\ t \in [DOMAIN t -> Texts]

ASSUME ImpactAssumption ==
  /\ Suites \subseteq Files /\ Triggers \subseteq Files
  /\ Edges \subseteq Files \X Files
  /\ \A w \in DOMAIN Candidates : Candidates[w] \in Seq(Files)
  /\ \A c \in Changes : c = <<c[1], c[2]>> /\ IsTree(c[1]) /\ IsTree(c[2])

VARIABLES
  strategy,      \* of the selection, or "none"
  before, after, \* the trees
  renamed,       \* vanished paths that git reports as the source of a rename
  untracked,     \* files of the working tree that git ls-files does not list
  walk,          \* "idle", "diffed", "walking", "selected"
  frontier,      \* reverseReachable: the round to come
  reached,       \*                   and what the rounds have found
  selection      \* [suites, ranAll]

impactVars ==
  <<strategy, before, after, renamed, untracked, walk, frontier, reached, selection>>

StrategyIds == {"importers-transitive", "transitive-triggers", "transitive-triggers-edges"}
ConsultsTriggers == strategy \in {"transitive-triggers", "transitive-triggers-edges"}
ConsultsEdges == strategy = "transitive-triggers-edges"

-----------------------------------------------------------------------------
\* resolveSpecifier: the first candidate that is there.
Present(files, w) == {n \in DOMAIN Candidates[w] : Candidates[w][n] \in files}
Resolved(files, w) ==
  {Candidates[w][n] : n \in {k \in Present(files, w) : \A j \in Present(files, w) : k <= j}}

\* buildGraph, withEdges
Imports(tree, files, f) == (UNION {Resolved(files, w) : w \in tree[f].wants}) \ {f}
Declared(files, f) == {d \in files : <<f, d>> \in Edges}
Dependencies(tree, files, f) ==
  Imports(tree, files, f) \union IF ConsultsEdges THEN Declared(files, f) ELSE {}

\* trackedFiles: what the graph is built over.
Tracked == DOMAIN after \ untracked
Importers(f) == {g \in Tracked : f \in Dependencies(after, Tracked, g)}

\* readDiff, changedPaths and vanishedPaths.
Added == DOMAIN after \ DOMAIN before
ChangedNow == Added \union {f \in DOMAIN after \intersect DOMAIN before : before[f] # after[f]}
Gone == DOMAIN before \ DOMAIN after

\* Slip: a rename's source is forgotten.
DeletedOnly == Gone \ renamed

\* The deleted paths and the sources of the renames.
Vanished == (Gone \ renamed) \union renamed

-----------------------------------------------------------------------------
NoSelection == [suites |-> {}, ranAll |-> FALSE]

ImpactInit ==
  /\ strategy = "none" /\ before = <<>> /\ after = <<>> /\ renamed = {} /\ untracked = {}
  /\ walk = "idle" /\ frontier = {} /\ reached = {} /\ selection = NoSelection

ImpactIdle == strategy = "none"

\* git pairs a rename with a path that is new and tracked.
ReadDiff ==
  /\ ImpactIdle
  /\ strategy' \in StrategyIds
  /\ \E change \in Changes : before' = change[1] /\ after' = change[2]
  /\ untracked' \in SUBSET Added'
  /\ renamed' \in {r \in SUBSET Gone' : Cardinality(r) <= Cardinality(Added' \ untracked')}
  /\ walk' = "diffed"
  /\ UNCHANGED <<frontier, reached, selection>>

RunsEverything ==
  /\ ConsultsTriggers
  /\ ChangedNow \intersect Triggers # {} \/ Vanished # {} \/ ChangedNow \ Tracked # {}

EmptyDiff ==
  /\ walk = "diffed" /\ ChangedNow \union Vanished = {}
  /\ selection' = NoSelection
  /\ walk' = "selected"
  /\ UNCHANGED <<strategy, before, after, renamed, untracked, frontier, reached>>

RunEverything ==
  /\ walk = "diffed" /\ ChangedNow \union Vanished # {} /\ RunsEverything
  /\ selection' = [suites |-> Suites \intersect Tracked, ranAll |-> TRUE]
  /\ walk' = "selected"
  /\ UNCHANGED <<strategy, before, after, renamed, untracked, frontier, reached>>

\* reverseReachable: seeds that the graph knows ...
SeedWalk ==
  /\ walk = "diffed" /\ ChangedNow \union Vanished # {} /\ ~RunsEverything
  /\ frontier' = ChangedNow \intersect Tracked
  /\ reached' = frontier'
  /\ walk' = "walking"
  /\ UNCHANGED <<strategy, before, after, renamed, untracked, selection>>

\* ... a round of importers not met before ...
Round ==
  /\ walk = "walking" /\ frontier # {}
  /\ frontier' = (UNION {Importers(f) : f \in frontier}) \ reached
  /\ reached' = reached \union frontier'
  /\ UNCHANGED <<strategy, before, after, renamed, untracked, walk, selection>>

\* ... until a round is empty.
Narrow ==
  /\ walk = "walking" /\ frontier = {}
  /\ selection' = [suites |-> reached \intersect Suites, ranAll |-> FALSE]
  /\ walk' = "selected"
  /\ UNCHANGED <<strategy, before, after, renamed, untracked, frontier, reached>>

ImpactNext == ReadDiff \/ EmptyDiff \/ RunEverything \/ SeedWalk \/ Round \/ Narrow

ImpactSpec == ImpactInit /\ [][ImpactNext]_impactVars

-----------------------------------------------------------------------------
Closed(tree, S) == \A f \in S : Dependencies(tree, DOMAIN tree, f) \subseteq S

\* The files suite t reaches in a tree on its own: by imports, and as far as the
\* strategy claims them by declared edges.
Reach(tree, t) ==
  {f \in DOMAIN tree : \A S \in SUBSET DOMAIN tree : t \in S /\ Closed(tree, S) => f \in S}

\* importers-transitive misses only what was not an import (strategies.ts:55):
\* it says nothing of paths that are gone or not tracked.
Promised == ConsultsTriggers \/ (Vanished = {} /\ untracked = {})

\* The two trees have the same text at f, or nothing.
SameAt(f) ==
  /\ f \in DOMAIN before <=> f \in DOMAIN after
  /\ f \in DOMAIN after => after[f] = before[f]

\* Under-selection is the defect (select.ts:9-21): a suite that is not selected
\* reaches the same files with the same texts as it did at the merge base, and
\* where triggers are consulted each file that one matches has the text it had.
\* A trigger stands for its own text only: what vitest/setup.ts or a config imports
\* is walked like any other file, and selects its importers.
SelectionIsSafe ==
  walk = "selected" /\ Promised =>
    \A t \in (Suites \intersect Tracked) \ selection.suites :
      /\ t \in DOMAIN before
      /\ Reach(after, t) = Reach(before, t)
      /\ \A f \in Reach(after, t) : SameAt(f)
      /\ ConsultsTriggers => \A f \in Triggers : SameAt(f)
=============================================================================
