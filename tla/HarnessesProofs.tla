--------------------------- MODULE HarnessesProofs ---------------------------
(***************************************************************************)
(* Seven of the parts that share no state, for every value of their        *)
(* constants: the selection of impact/, the clock of determinism/, the     *)
(* fixture of containers/, the minimiser of fuzz/, the policies of chaos/, *)
(* the savepoint rewriting of dbisolation/ and the availability sets of    *)
(* property/.  Each has its invariant, and the last section shows that a   *)
(* behaviour of all parts is one of each.                                  *)
(***************************************************************************)
EXTENDS Harnesses, TLAPS, FiniteSetTheorems, WellFoundedInduction, SequenceTheorems

\* A nonempty set of natural numbers has a least element.
LEMMA LeastExists ==
  ASSUME NEW S \in SUBSET Nat, S # {}
  PROVE  \E n \in S : \A k \in S : n <= k
<1>1. \E n \in S : \A k \in S : ~ (<<k, n>> \in OpToRel(<, Nat))
  BY NatLessThanWellFounded, WFMin
<1>2. PICK n \in S : \A k \in S : ~ (<<k, n>> \in OpToRel(<, Nat))
  BY <1>1
<1>3. \A k \in S : ~(k < n)
  BY <1>2 DEF OpToRel
<1>. QED
  BY <1>3, SMT

-----------------------------------------------------------------------------
(* The invariant of the walk.                                              *)

\* R is what a finished walk leaves: the changed files, closed under importers.
Settled(R) ==
  /\ R \subseteq Tracked
  /\ ChangedNow \intersect Tracked \subseteq R
  /\ \A f \in R : Importers(f) \subseteq R

Picked ==
  /\ strategy \in StrategyIds
  /\ <<before, after>> \in Changes
  /\ untracked \subseteq Added

WalkInv ==
  walk = "walking" =>
    /\ ~RunsEverything
    /\ frontier \subseteq reached /\ reached \subseteq Tracked
    /\ ChangedNow \intersect Tracked \subseteq reached
    /\ \A f \in reached \ frontier : Importers(f) \subseteq reached

SelectedInv ==
  walk = "selected" =>
    \/ Suites \intersect Tracked \subseteq selection.suites
    \/ ~RunsEverything /\ \E R : Settled(R) /\ selection.suites = R \intersect Suites

ImpactInv ==
  /\ walk \in {"idle", "diffed", "walking", "selected"}
  /\ walk # "idle" => Picked
  /\ WalkInv
  /\ SelectedInv

\* What an action of the walk leaves alone, and what is defined from that.
Frame == UNCHANGED <<strategy, before, after, renamed, untracked>>

LEMMA FrameKeeps ==
  ASSUME Frame
  PROVE  /\ Tracked' = Tracked /\ ChangedNow' = ChangedNow /\ Added' = Added
         /\ Vanished' = Vanished /\ RunsEverything' = RunsEverything
         /\ \A f : Importers(f)' = Importers(f)
         /\ \A R : Settled(R)' = Settled(R)
         /\ Picked' = Picked
<1>1. /\ Added' = Added /\ Tracked' = Tracked
  BY DEF Frame, Added, Tracked
<1>2. ChangedNow' = ChangedNow /\ Gone' = Gone
  BY <1>1 DEF Frame, ChangedNow, Gone
<1>3. Vanished' = Vanished
  BY <1>2 DEF Frame, Vanished
<1>4. ConsultsTriggers' = ConsultsTriggers /\ ConsultsEdges' = ConsultsEdges
  BY DEF Frame, ConsultsTriggers, ConsultsEdges
<1>5. RunsEverything' = RunsEverything
  BY <1>1, <1>2, <1>3, <1>4 DEF RunsEverything
<1>6. \A f : Dependencies(after, Tracked, f)' = Dependencies(after, Tracked, f)
  BY <1>1, <1>4 DEF Frame, Dependencies, Imports, Resolved, Present, Declared
<1>7. \A f : Importers(f)' = Importers(f)
  BY <1>1, <1>6 DEF Importers
<1>8. \A R : Settled(R)' = Settled(R)
  BY <1>1, <1>2, <1>7 DEF Settled
<1>9. Picked' = Picked
  BY <1>1 DEF Frame, Picked
<1>. QED
  BY <1>1, <1>2, <1>3, <1>5, <1>7, <1>8, <1>9

LEMMA ImpactInitInv == ImpactInit => ImpactInv
BY DEF ImpactInit, ImpactInv, WalkInv, SelectedInv

LEMMA ImpactNextInv == ImpactInv /\ [ImpactNext]_impactVars => ImpactInv'
<1>. SUFFICES ASSUME ImpactInv, [ImpactNext]_impactVars PROVE ImpactInv'
  OBVIOUS
<1>1. CASE ReadDiff
  <2>1. walk' = "diffed" /\ strategy' \in StrategyIds /\ untracked' \in SUBSET Added'
    BY <1>1 DEF ReadDiff
  <2>2. PICK change \in Changes : before' = change[1] /\ after' = change[2]
    BY <1>1 DEF ReadDiff
  <2>3. change = <<change[1], change[2]>>
    BY <2>2, ImpactAssumption
  <2>4. <<before', after'>> \in Changes
    BY <2>2, <2>3
  <2>. QED
    BY <2>1, <2>4 DEF ImpactInv, Picked, WalkInv, SelectedInv
<1>2. CASE EmptyDiff
  <2>1. Frame /\ walk = "diffed" /\ walk' = "selected" /\ ChangedNow \union Vanished = {}
    BY <1>2 DEF EmptyDiff, Frame
  <2>2. ~RunsEverything /\ Settled({})
    <3>1. Added \subseteq ChangedNow /\ ChangedNow = {} /\ Vanished = {}
      BY <2>1 DEF ChangedNow
    <3>. QED
      BY <3>1 DEF RunsEverything, Settled
  <2>3. selection'.suites = {} \intersect Suites
    BY <1>2 DEF EmptyDiff, NoSelection
  <2>4. ~RunsEverything' /\ Settled({})' /\ Picked'
    BY <2>1, <2>2, FrameKeeps DEF ImpactInv
  <2>5. ~RunsEverything' /\ \E R : Settled(R)' /\ selection'.suites = R \intersect Suites
    BY <2>3, <2>4
  <2>. QED
    BY <2>1, <2>4, <2>5 DEF ImpactInv, WalkInv, SelectedInv
<1>3. CASE RunEverything
  <2>1. Frame /\ walk = "diffed" /\ walk' = "selected"
    BY <1>3 DEF RunEverything, Frame
  <2>2. selection'.suites = Suites \intersect Tracked /\ Tracked' = Tracked /\ Picked'
    BY <1>3, <2>1, FrameKeeps DEF RunEverything, ImpactInv
  <2>. QED
    BY <2>1, <2>2 DEF ImpactInv, WalkInv, SelectedInv
<1>4. CASE SeedWalk
  <2>1. /\ Frame /\ walk = "diffed" /\ walk' = "walking" /\ ~RunsEverything
        /\ frontier' = ChangedNow \intersect Tracked /\ reached' = frontier'
    BY <1>4 DEF SeedWalk, Frame
  <2>2. WalkInv'
    BY <2>1, FrameKeeps DEF WalkInv
  <2>. QED
    BY <2>1, <2>2, FrameKeeps DEF ImpactInv, SelectedInv
<1>5. CASE Round
  <2>1. /\ Frame /\ walk = "walking" /\ walk' = "walking"
        /\ frontier' = (UNION {Importers(f) : f \in frontier}) \ reached
        /\ reached' = reached \union frontier'
    BY <1>5 DEF Round, Frame
  <2>2. /\ ~RunsEverything /\ frontier \subseteq reached /\ reached \subseteq Tracked
        /\ ChangedNow \intersect Tracked \subseteq reached
        /\ \A f \in reached \ frontier : Importers(f) \subseteq reached
    BY <2>1 DEF ImpactInv, WalkInv
  <2>3. frontier' \subseteq Tracked
    BY <2>1 DEF Importers
  <2>4. \A f \in reached' \ frontier' : Importers(f) \subseteq reached'
    <3>. SUFFICES ASSUME NEW f \in reached' \ frontier', NEW g \in Importers(f) PROVE g \in reached'
      OBVIOUS
    <3>1. f \in reached
      BY <2>1
    <3>2. CASE f \in frontier
      <4>1. g \in UNION {Importers(h) : h \in frontier}
        BY <3>2
      <4>2. g \notin reached => g \in frontier'
        BY <4>1, <2>1
      <4>3. reached \subseteq reached' /\ frontier' \subseteq reached'
        BY <2>1
      <4>. QED
        BY <4>2, <4>3
    <3>3. CASE f \notin frontier
      BY <3>1, <3>3, <2>1, <2>2
    <3>. QED
      BY <3>2, <3>3
  <2>5. reached' \subseteq Tracked
    BY <2>1, <2>2, <2>3
  <2>6. WalkInv'
    BY <2>1, <2>2, <2>4, <2>5, FrameKeeps DEF WalkInv
  <2>. QED
    BY <2>1, <2>6, FrameKeeps DEF ImpactInv, SelectedInv
<1>6. CASE Narrow
  <2>1. /\ Frame /\ walk = "walking" /\ walk' = "selected" /\ frontier = {}
        /\ selection'.suites = reached \intersect Suites
    BY <1>6 DEF Narrow, Frame
  <2>2. Settled(reached) /\ ~RunsEverything
    BY <2>1 DEF ImpactInv, WalkInv, Settled
  <2>3. PICK R : Settled(R) /\ R = reached
    BY <2>2
  <2>4. Settled(R)' /\ ~RunsEverything' /\ Picked' /\ selection'.suites = R \intersect Suites
    BY <2>1, <2>2, <2>3, FrameKeeps DEF ImpactInv
  <2>. QED
    BY <2>1, <2>4 DEF ImpactInv, WalkInv, SelectedInv
<1>7. CASE UNCHANGED impactVars
  <2>1. Frame /\ UNCHANGED <<walk, frontier, reached, selection>>
    BY <1>7 DEF impactVars, Frame
  <2>. QED
    BY <2>1, FrameKeeps DEF ImpactInv, WalkInv, SelectedInv
<1>. QED
  BY <1>1, <1>2, <1>3, <1>4, <1>5, <1>6, <1>7 DEF ImpactNext

-----------------------------------------------------------------------------
(* What a settled walk has not reached.                                    *)

\* Two sets of files, one of which holds what the other resolves a specifier to,
\* resolve it alike.
LEMMA SameResolution ==
  ASSUME NEW w \in DOMAIN Candidates, NEW F, NEW G, F \subseteq G, Resolved(G, w) \subseteq F
  PROVE  Resolved(F, w) = Resolved(G, w)
<1>1. Present(F, w) \subseteq Present(G, w) /\ Present(G, w) \in SUBSET Nat
  <2>1. Candidates[w] \in Seq(Files)
    BY ImpactAssumption
  <2>. QED
    BY <2>1 DEF Present
<1>2. Resolved(G, w) \subseteq Resolved(F, w)
  BY <1>1 DEF Resolved, Present
<1>3. ASSUME NEW c \in Resolved(F, w) PROVE c \in Resolved(G, w)
  <2>1. PICK n \in Present(F, w) : c = Candidates[w][n] /\ \A j \in Present(F, w) : n <= j
    BY DEF Resolved
  <2>2. PICK m \in Present(G, w) : \A k \in Present(G, w) : m <= k
    BY <1>1, LeastExists
  <2>3. Candidates[w][m] \in Resolved(G, w)
    BY <2>2 DEF Resolved
  <2>4. m \in Present(F, w)
    BY <2>3 DEF Present
  <2>5. n = m
    BY <1>1, <2>1, <2>2, <2>4
  <2>. QED
    BY <2>1, <2>3, <2>5
<1>. QED
  BY <1>2, <1>3

\* Nothing is gone, and everything is tracked.
LEMMA OneMoreTree ==
  ASSUME Picked, Promised, ~RunsEverything
  PROVE  /\ DOMAIN before \subseteq DOMAIN after /\ Tracked = DOMAIN after
         /\ ConsultsTriggers => ChangedNow \intersect Triggers = {}
<1>1. Vanished = {} /\ (ConsultsTriggers => ChangedNow \intersect Triggers = {})
  BY DEF RunsEverything, Promised
<1>2. Gone = {}
  BY <1>1 DEF Vanished
<1>3. untracked = {}
  <2>1. CASE ~ConsultsTriggers
    BY <2>1 DEF Promised
  <2>2. CASE ConsultsTriggers
    BY <2>2 DEF RunsEverything, Tracked, ChangedNow, Picked
  <2>. QED
    BY <2>1, <2>2
<1>. QED
  BY <1>1, <1>2, <1>3 DEF Gone, Tracked

\* The files that a settled walk did not reach: the trees agree on them, and they
\* depend on one another only.
LEMMA UnreachedAgree ==
  ASSUME Picked, Promised, ~RunsEverything, NEW R, Settled(R),
         NEW f \in DOMAIN after \ R
  PROVE  /\ f \in DOMAIN before /\ before[f] = after[f]
         /\ Dependencies(after, DOMAIN after, f) \subseteq DOMAIN after \ R
         /\ Dependencies(before, DOMAIN before, f) = Dependencies(after, DOMAIN after, f)
<1>0. DOMAIN before \subseteq DOMAIN after /\ Tracked = DOMAIN after
  BY OneMoreTree
<1>1. \A g \in DOMAIN after \ R : g \in DOMAIN before /\ before[g] = after[g]
  BY <1>0 DEF Settled, ChangedNow, Added
<1>2. Dependencies(after, DOMAIN after, f) \subseteq DOMAIN after \ R
  <2>1. Dependencies(after, DOMAIN after, f) \subseteq DOMAIN after
    BY DEF Dependencies, Imports, Resolved, Present, Declared
  <2>2. \A g \in R : g \notin Dependencies(after, DOMAIN after, f)
    BY <1>0 DEF Settled, Importers
  <2>. QED
    BY <2>1, <2>2
<1>3. Imports(before, DOMAIN before, f) = Imports(after, DOMAIN after, f)
  <2>1. IsTree(after)
    <3>1. IsTree(<<before, after>>[2])
      BY ImpactAssumption DEF Picked
    <3>. QED
      BY <3>1
  <2>2. after[f].wants \subseteq DOMAIN Candidates
    BY <2>1 DEF IsTree, Texts
  <2>3. \A w \in after[f].wants : Resolved(DOMAIN before, w) = Resolved(DOMAIN after, w)
    <3>. SUFFICES ASSUME NEW w \in after[f].wants
                  PROVE  Resolved(DOMAIN before, w) = Resolved(DOMAIN after, w)
      OBVIOUS
    <3>1. Resolved(DOMAIN after, w) \subseteq Imports(after, DOMAIN after, f) \union {f}
      <4>1. Resolved(DOMAIN after, w) \in {Resolved(DOMAIN after, v) : v \in after[f].wants}
        OBVIOUS
      <4> DEFINE All == UNION {Resolved(DOMAIN after, v) : v \in after[f].wants}
      <4>2. Resolved(DOMAIN after, w) \subseteq All
        BY <4>1
      <4>3. Imports(after, DOMAIN after, f) = All \ {f}
        BY DEF Imports
      <4>. QED
        BY <4>2, <4>3
    <3>2. Imports(after, DOMAIN after, f) \union {f} \subseteq DOMAIN before
      BY <1>1, <1>2 DEF Dependencies
    <3>. QED
      BY <1>0, <2>2, <3>1, <3>2, SameResolution
  <2>. QED
    BY <1>1, <2>3 DEF Imports
<1>4. ConsultsEdges => Declared(DOMAIN before, f) = Declared(DOMAIN after, f)
  BY <1>0, <1>1, <1>2 DEF Dependencies, Declared
<1>5. Dependencies(before, DOMAIN before, f) = Dependencies(after, DOMAIN after, f)
  BY <1>3, <1>4 DEF Dependencies
<1>. QED
  BY <1>1, <1>2, <1>5

\* So a suite among them reaches the same files in both.
LEMMA UnreachedSuite ==
  ASSUME Picked, Promised, ~RunsEverything, NEW R, Settled(R),
         NEW t \in DOMAIN after \ R
  PROVE  /\ t \in DOMAIN before
         /\ Reach(after, t) = Reach(before, t)
         /\ \A f \in Reach(after, t) : after[f] = before[f]
<1> DEFINE U == DOMAIN after \ R
<1>1. \A f \in U : /\ f \in DOMAIN before /\ before[f] = after[f]
                   /\ Dependencies(after, DOMAIN after, f) \subseteq U
                   /\ Dependencies(before, DOMAIN before, f) = Dependencies(after, DOMAIN after, f)
  BY UnreachedAgree
<1>2. U \subseteq DOMAIN before /\ U \subseteq DOMAIN after /\ t \in U
  BY <1>1
<1>. HIDE DEF U
<1>3. \A S : S \subseteq U => (Closed(before, S) <=> Closed(after, S))
  BY <1>1 DEF Closed
<1>4. Closed(after, U) /\ Closed(before, U)
  BY <1>1, <1>3 DEF Closed
<1>5. \A S : Closed(after, S) => Closed(after, S \intersect U)
  BY <1>4 DEF Closed
<1>6. \A S : Closed(before, S) => Closed(before, S \intersect U)
  BY <1>4 DEF Closed
<1>7. Reach(after, t) \subseteq U /\ Reach(before, t) \subseteq U
  BY <1>2, <1>4 DEF Reach
<1>8. ASSUME NEW f \in Reach(after, t) PROVE f \in Reach(before, t)
  <2>. SUFFICES ASSUME NEW S \in SUBSET DOMAIN before, t \in S, Closed(before, S) PROVE f \in S
    BY <1>2, <1>7 DEF Reach
  <2>1. Closed(after, S \intersect U) /\ S \intersect U \in SUBSET DOMAIN after /\ t \in S \intersect U
    BY <1>2, <1>3, <1>6
  <2>. QED
    BY <2>1 DEF Reach
<1>9. ASSUME NEW f \in Reach(before, t) PROVE f \in Reach(after, t)
  <2>. SUFFICES ASSUME NEW S \in SUBSET DOMAIN after, t \in S, Closed(after, S) PROVE f \in S
    BY <1>2, <1>7 DEF Reach
  <2>1. Closed(before, S \intersect U) /\ S \intersect U \in SUBSET DOMAIN before /\ t \in S \intersect U
    BY <1>2, <1>3, <1>5
  <2>. QED
    BY <2>1 DEF Reach
<1>. QED
  BY <1>1, <1>2, <1>7, <1>8, <1>9

\* What a trigger matches has not changed, or everything runs.
LEMMA TriggersUntouched ==
  ASSUME Picked, Promised, ~RunsEverything, ConsultsTriggers, NEW f \in Triggers
  PROVE  SameAt(f)
<1>1. /\ DOMAIN before \subseteq DOMAIN after
      /\ ChangedNow \intersect Triggers = {}
  BY OneMoreTree
<1>2. f \in DOMAIN after => f \in DOMAIN before /\ before[f] = after[f]
  BY <1>1 DEF ChangedNow, Added
<1>. QED
  BY <1>1, <1>2 DEF SameAt

LEMMA ImpactInvMeans == ImpactInv => SelectionIsSafe
<1>. SUFFICES ASSUME ImpactInv, walk = "selected", Promised,
                     NEW t \in (Suites \intersect Tracked) \ selection.suites
              PROVE  /\ t \in DOMAIN before
                     /\ Reach(after, t) = Reach(before, t)
                     /\ \A f \in Reach(after, t) : SameAt(f)
                     /\ ConsultsTriggers => \A f \in Triggers : SameAt(f)
  BY DEF SelectionIsSafe
<1>1. Picked
  BY DEF ImpactInv
<1>2. ~RunsEverything /\ \E R : Settled(R) /\ selection.suites = R \intersect Suites
  BY DEF ImpactInv, SelectedInv
<1>3. PICK R : Settled(R) /\ selection.suites = R \intersect Suites
  BY <1>2
<1>4. t \in DOMAIN after \ R
  BY <1>3 DEF Tracked
<1>5. /\ t \in DOMAIN before
      /\ Reach(after, t) = Reach(before, t)
      /\ \A f \in Reach(after, t) : after[f] = before[f]
  BY <1>1, <1>2, <1>3, <1>4, UnreachedSuite
<1>6. \A f \in Reach(after, t) : f \in DOMAIN before /\ f \in DOMAIN after
  BY <1>5 DEF Reach
<1>7. ConsultsTriggers => \A f \in Triggers : SameAt(f)
  BY <1>1, <1>2, TriggersUntouched
<1>. QED
  BY <1>5, <1>6, <1>7 DEF SameAt

-----------------------------------------------------------------------------
(* Sessions on the manual clock.                                           *)

IsEntry(e) ==
  /\ e = [dueAt |-> e.dueAt, seq |-> e.seq, expiresAt |-> e.expiresAt, due |-> e.due, steady |-> e.steady]
  /\ e.dueAt \in Int /\ e.seq \in Nat /\ e.expiresAt \in Int /\ e.due \in Int

\* What nobody corrected since it was queued is due on both clocks alike, in
\* time, and not before now.
InStep(e) ==
  e.steady => /\ e.dueAt - wall = e.due - monotonic
              /\ wall <= e.dueAt /\ e.dueAt < e.expiresAt

ClockInv ==
  /\ wall \in Int /\ monotonic \in Int /\ seq \in Nat
  /\ until # NoTick => TickEnd \in Int
  /\ \A e \in entries : IsEntry(e)
  /\ \E first \in Int : \A e \in entries : first <= e.dueAt
  /\ \A e \in entries : InStep(e)
  /\ RefreshedInTime

LEMMA SetSteady ==
  ASSUME NEW e, IsEntry(e), NEW y
  PROVE  [e EXCEPT !.steady = y] =
           [dueAt |-> e.dueAt, seq |-> e.seq, expiresAt |-> e.expiresAt, due |-> e.due, steady |-> y]
<1>1. e = [dueAt |-> e.dueAt, seq |-> e.seq, expiresAt |-> e.expiresAt, due |-> e.due, steady |-> e.steady]
  BY DEF IsEntry
<1> QED BY <1>1

LEMMA DelayLemma ==
  ASSUME NEW draw \in Draws
  PROVE  /\ RefreshDelay(draw) \in Int
         /\ 0 < RefreshDelay(draw) /\ RefreshDelay(draw) < TTL
BY ClockAssumption DEF RefreshDelay, Clamp, MinRefreshDelay, MaxRefreshDelay, TTL, JitterSpan

\* What is queued when the readings are w and m.
LEMMA EntryLemma ==
  ASSUME NEW w \in Int, NEW m \in Int, NEW draw \in Draws, seq \in Nat
  PROVE  /\ IsEntry(Entry(w, m, draw))
         /\ Entry(w, m, draw).dueAt - w = Entry(w, m, draw).due - m
         /\ Entry(w, m, draw).dueAt \in Int
         /\ w <= Entry(w, m, draw).dueAt /\ Entry(w, m, draw).dueAt < Entry(w, m, draw).expiresAt
<1> DEFINE d == RefreshDelay(draw)
<1>1. d \in Int /\ 0 < d /\ d < TTL
  BY DelayLemma
<1> HIDE DEF d
<1>2. Entry(w, m, draw) = [dueAt |-> w + d, seq |-> seq, expiresAt |-> w + TTL, due |-> m + d, steady |-> TRUE]
  BY DEF Entry, d
<1>3. TTL \in Int
  BY DEF TTL
<1> QED BY <1>1, <1>2, <1>3 DEF IsEntry

\* Among what is due there is an earliest, and of these a first one.
LEMMA EarliestExists ==
  ASSUME ClockInv, DueEntries # {}
  PROVE  /\ EarliestOf(DueEntries) \in DueEntries
         /\ \A f \in DueEntries : EarliestOf(DueEntries).dueAt <= f.dueAt
<1> DEFINE D == DueEntries
<1>1. (\A e \in D : IsEntry(e)) /\ D # {}
  BY DEF ClockInv, DueEntries
<1>2. PICK first \in Int : \A e \in D : first <= e.dueAt
  BY DEF ClockInv, DueEntries
<1>3. \A e \in D : e.dueAt \in Int /\ e.seq \in Nat
  BY <1>1 DEF IsEntry
<1> HIDE DEF D
<1> DEFINE T == {e.dueAt - first : e \in D}
<1>4. T \in SUBSET Nat /\ T # {}
  BY <1>1, <1>2, <1>3
<1>5. PICK t \in T : \A u \in T : t <= u
  BY <1>4, LeastExists
<1> DEFINE E == {e \in D : e.dueAt - first = t}
           N == {e.seq : e \in E}
<1>6. N \in SUBSET Nat /\ N # {}
  BY <1>3, <1>5
<1>7. PICK n \in N : \A k \in N : n <= k
  BY <1>6, LeastExists
<1>8. PICK e \in E : e.seq = n
  BY <1>7
<1>9. \A f \in D : e.dueAt < f.dueAt \/ (e.dueAt = f.dueAt /\ e.seq <= f.seq)
  <2> SUFFICES ASSUME NEW f \in D PROVE e.dueAt < f.dueAt \/ (e.dueAt = f.dueAt /\ e.seq <= f.seq)
    OBVIOUS
  <2>1. e.dueAt - first = t /\ t <= f.dueAt - first
    BY <1>5, <1>8
  <2>2. e.dueAt \in Int /\ f.dueAt \in Int /\ e \in D
    BY <1>3, <1>8
  <2>3. CASE f.dueAt = e.dueAt
    <3>1. f \in E
      BY <2>1, <2>3
    <3> QED BY <1>7, <1>8, <2>3, <3>1
  <2>4. CASE f.dueAt # e.dueAt
    BY <2>1, <2>2, <2>4
  <2> QED BY <2>3, <2>4
<1>10. e \in D
  BY <1>8
<1>11. /\ EarliestOf(D) \in D
       /\ \A f \in D : EarliestOf(D).dueAt < f.dueAt \/ (EarliestOf(D).dueAt = f.dueAt /\ EarliestOf(D).seq <= f.seq)
  BY <1>9, <1>10 DEF EarliestOf
<1>12. \A f \in D : EarliestOf(D).dueAt <= f.dueAt
  BY <1>3, <1>11
<1> QED BY <1>11, <1>12 DEF D

\* A step of the clock that leaves the two readings as far apart as they were and
\* passes nothing that is queued.
LEMMA AdvanceLemma ==
  ASSUME ClockInv, NEW e \in entries, NEW advance \in Nat,
         wall' = wall + advance, monotonic' = monotonic + advance, wall' <= e.dueAt \/ wall' = wall
  PROVE  InStep(e)'
<1>1. e.dueAt \in Int /\ e.due \in Int /\ e.expiresAt \in Int /\ wall \in Int /\ monotonic \in Int
  BY DEF ClockInv, IsEntry
<1> QED BY <1>1 DEF ClockInv, InStep

LEMMA AheadLemma ==
  ASSUME NEW instant \in Int, wall \in Int
  PROVE  /\ Ahead(instant) \in Nat
         /\ wall + Ahead(instant) = IF instant > wall THEN instant ELSE wall
BY DEF Ahead

LEMMA ClockNextInv == ClockInv /\ [ClockNext]_clockVars => ClockInv'
<1> SUFFICES ASSUME ClockInv, [ClockNext]_clockVars PROVE ClockInv'
  OBVIOUS
<1>1. /\ wall \in Int /\ monotonic \in Int /\ seq \in Nat
      /\ until # NoTick => TickEnd \in Int
      /\ \A e \in entries : IsEntry(e) /\ InStep(e)
      /\ \A e \in entries : e.dueAt \in Int
  BY DEF ClockInv, IsEntry
<1>2. PICK first \in Int : \A e \in entries : first <= e.dueAt
  BY DEF ClockInv, TickEnd
<1>3. CASE Issue
  <2>1. PICK draw \in Draws : entries' = entries \union {Entry(wall, monotonic, draw)}
    BY <1>3 DEF Issue
  <2> DEFINE new == Entry(wall, monotonic, draw)
  <2>2. /\ IsEntry(new) /\ new.dueAt - wall = new.due - monotonic
        /\ wall <= new.dueAt /\ new.dueAt < new.expiresAt /\ new.dueAt \in Int
    BY <1>1, EntryLemma
  <2> HIDE DEF new
  <2>3. UNCHANGED <<wall, monotonic, until, fired>> /\ seq' = seq + 1
    BY <1>3 DEF Issue
  <2>4. \A e \in entries' : InStep(e)'
    BY <1>1, <2>1, <2>2, <2>3 DEF InStep, new
  <2>5. \E b \in Int : \A e \in entries' : b <= e.dueAt
    <3> DEFINE b == IF first <= wall THEN first ELSE wall
    <3>1. b \in Int /\ \A e \in entries' : b <= e.dueAt
      BY <1>1, <1>2, <2>1, <2>2 DEF new
    <3> QED BY <3>1
  <2>6. \A f \in entries' : IsEntry(f)
    BY <1>1, <2>1, <2>2 DEF new
  <2>7. RefreshedInTime'
    BY <2>3 DEF ClockInv, RefreshedInTime, TickEnd
  <2> QED BY <1>1, <2>3, <2>4, <2>5, <2>6, <2>7 DEF ClockInv, TickEnd
<1>4. CASE CancelRefresh
  <2>1. entries' \subseteq entries /\ UNCHANGED <<wall, monotonic, until, seq, fired>>
    BY <1>4 DEF CancelRefresh
  <2> QED BY <2>1 DEF ClockInv, InStep, RefreshedInTime, TickEnd
<1>5. CASE Skew
  <2>1. /\ entries' = {[e EXCEPT !.steady = FALSE] : e \in entries}
        /\ UNCHANGED <<monotonic, until, seq, fired>>
    BY <1>5 DEF Skew
  <2>2. wall' \in Int
    BY <1>1, <1>5, ClockAssumption DEF Skew
  <2>3. \A e \in entries : /\ IsEntry([e EXCEPT !.steady = FALSE])
                           /\ [e EXCEPT !.steady = FALSE].dueAt = e.dueAt
                           /\ [e EXCEPT !.steady = FALSE].steady = FALSE
    <3> SUFFICES ASSUME NEW e \in entries
                 PROVE  /\ IsEntry([e EXCEPT !.steady = FALSE])
                        /\ [e EXCEPT !.steady = FALSE].dueAt = e.dueAt
                        /\ [e EXCEPT !.steady = FALSE].steady = FALSE
      OBVIOUS
    <3>1. IsEntry(e)
      BY <1>1
    <3>2. [e EXCEPT !.steady = FALSE] = [dueAt |-> e.dueAt, seq |-> e.seq, expiresAt |-> e.expiresAt,
                                         due |-> e.due, steady |-> FALSE]
      BY <3>1, SetSteady, Zenon
    <3> QED BY <3>1, <3>2 DEF IsEntry
  <2>4. \A f \in entries' : \E e \in entries : IsEntry(f) /\ f.dueAt = e.dueAt /\ f.steady = FALSE
    BY <2>1, <2>3
  <2>5. \A f \in entries' : first <= f.dueAt
    BY <1>2, <2>4
  <2>6. \A f \in entries' : InStep(f)'
    BY <2>4 DEF InStep
  <2> QED BY <1>1, <2>1, <2>2, <2>4, <2>5, <2>6 DEF ClockInv, RefreshedInTime, TickEnd
<1>6. CASE Tick
  <2>1. UNCHANGED <<wall, monotonic, entries, seq, fired>> /\ TickEnd' \in Int
    BY <1>1, <1>6, ClockAssumption DEF Tick, TickEnd
  <2> QED BY <2>1 DEF ClockInv, InStep, RefreshedInTime, TickEnd
<1>7. CASE Fire
  <2> DEFINE e == EarliestOf(DueEntries)
             w == wall + Ahead(e.dueAt)
             m == monotonic + Ahead(e.dueAt)
  <2>1. /\ until # NoTick /\ DueEntries # {} /\ wall' = w /\ monotonic' = m /\ until' = until
        /\ fired' = [at |-> m, due |-> e.due, expired |-> w >= e.expiresAt, steady |-> e.steady]
        /\ \/ entries' = entries \ {e} /\ UNCHANGED seq
           \/ /\ \E draw \in Draws : entries' = (entries \ {e}) \union {Entry(w, m, draw)}
              /\ seq' = seq + 1
    BY <1>7 DEF Fire
  <2>2. e \in entries /\ e.dueAt <= TickEnd /\ \A f \in DueEntries : e.dueAt <= f.dueAt
    BY <2>1, EarliestExists DEF DueEntries
  <2>3. e.dueAt \in Int /\ e.expiresAt \in Int /\ e.due \in Int /\ InStep(e)
    BY <1>1, <2>2 DEF IsEntry
  <2> HIDE DEF e
  <2>4. Ahead(e.dueAt) \in Nat /\ w = IF e.dueAt > wall THEN e.dueAt ELSE wall
    BY <1>1, <2>3, AheadLemma
  <2>5. w \in Int /\ m \in Int
    BY <1>1, <2>4
  <2>6. \A f \in entries : e.dueAt <= f.dueAt
    BY <1>1, <2>1, <2>2, <2>3 DEF DueEntries
  <2>7. \A f \in entries : InStep(f)'
    <3> SUFFICES ASSUME NEW f \in entries PROVE InStep(f)'
      OBVIOUS
    <3>1. wall' <= f.dueAt \/ wall' = wall
      BY <2>1, <2>4, <2>6
    <3> QED BY <2>1, <2>4, <3>1, AdvanceLemma
  <2>8. RefreshedInTime'
    <3>1. fired'.at = m /\ fired'.due = e.due /\ fired'.expired = (w >= e.expiresAt) /\ fired'.steady = e.steady
      BY <2>1
    <3>2. ASSUME e.steady PROVE m = e.due /\ ~(w >= e.expiresAt)
      <4>1. e.dueAt - wall = e.due - monotonic /\ wall <= e.dueAt /\ e.dueAt < e.expiresAt
        BY <2>3, <3>2, Zenon DEF InStep
      <4> QED BY <1>1, <2>3, <2>4, <4>1
    <3> QED BY <3>1, <3>2, Zenon DEF RefreshedInTime
  <2> HIDE DEF w, m
  <2>9. CASE entries' = entries \ {e} /\ UNCHANGED seq
    BY <1>1, <1>2, <2>1, <2>5, <2>7, <2>8, <2>9 DEF ClockInv, TickEnd
  <2>10. CASE /\ \E draw \in Draws : entries' = (entries \ {e}) \union {Entry(w, m, draw)}
              /\ seq' = seq + 1
    <3>1. PICK draw \in Draws : entries' = (entries \ {e}) \union {Entry(w, m, draw)}
      BY <2>10
    <3> DEFINE new == Entry(w, m, draw)
    <3>2. /\ IsEntry(new) /\ new.dueAt - w = new.due - m
          /\ w <= new.dueAt /\ new.dueAt < new.expiresAt /\ new.dueAt \in Int
      BY <1>1, <2>5, EntryLemma
    <3>3. \A f \in entries' : f \in entries \/ f = new
      BY <3>1
    <3> HIDE DEF new
    <3>4. \A f \in entries' : InStep(f)'
      BY <2>1, <2>7, <3>2, <3>3 DEF InStep
    <3>5. \E b \in Int : \A f \in entries' : b <= f.dueAt
      <4> DEFINE b == IF first <= w THEN first ELSE w
      <4>1. b \in Int /\ \A f \in entries' : b <= f.dueAt
        BY <1>1, <1>2, <2>5, <3>2, <3>3
      <4> QED BY <4>1
    <3>6. \A f \in entries' : IsEntry(f)
      BY <1>1, <3>2, <3>3
    <3> QED BY <1>1, <2>1, <2>5, <2>8, <2>10, <3>4, <3>5, <3>6 DEF ClockInv, TickEnd
  <2> QED BY <2>1, <2>9, <2>10
<1>8. CASE EndTick
  <2>1. /\ until # NoTick /\ DueEntries = {} /\ wall' = wall + Ahead(TickEnd) /\ monotonic' = monotonic + Ahead(TickEnd)
        /\ until' = NoTick /\ UNCHANGED <<entries, seq, fired>>
    BY <1>8 DEF EndTick
  <2>2. Ahead(TickEnd) \in Nat /\ wall + Ahead(TickEnd) = IF TickEnd > wall THEN TickEnd ELSE wall
    BY <1>1, <2>1, AheadLemma
  <2>3. \A f \in entries : f.dueAt > TickEnd
    BY <1>1, <2>1 DEF DueEntries
  <2>4. \A f \in entries : InStep(f)'
    <3> SUFFICES ASSUME NEW f \in entries PROVE InStep(f)'
      OBVIOUS
    <3>1. wall' <= f.dueAt \/ wall' = wall
      BY <1>1, <2>1, <2>2, <2>3
    <3> QED BY <2>1, <2>2, <3>1, AdvanceLemma
  <2>5. wall' \in Int /\ monotonic' \in Int
    BY <1>1, <2>1, <2>2
  <2>6. RefreshedInTime'
    BY <2>1 DEF ClockInv, RefreshedInTime, TickEnd
  <2> QED BY <1>1, <1>2, <2>1, <2>4, <2>5, <2>6 DEF ClockInv, TickEnd
<1>9. CASE UNCHANGED clockVars
  BY <1>9 DEF ClockInv, InStep, RefreshedInTime, clockVars, TickEnd
<1> QED BY <1>3, <1>4, <1>5, <1>6, <1>7, <1>8, <1>9 DEF ClockNext

LEMMA ClockInitInv == ClockInit => ClockInv
BY DEF ClockInit, ClockInv, NoTick, NotFired, RefreshedInTime

-----------------------------------------------------------------------------
(* Suites in a shared container.                                           *)

Own(ns, s) == IF s \in wrote THEN {<<ns, <<runId, s>>>>} ELSE {}

FixtureTyped ==
  /\ runId \in Nat /\ runId > 0 /\ allocated \in Seq(FixtureSuites) /\ wrote \in SUBSET FixtureSuites
  /\ suiteState \in [FixtureSuites -> {"before", "inside", "after", "refused"}]
  /\ \A s \in wrote : suiteState[s] = "inside"

\* A database is given to one suite, once it enters, and holds what that suite
\* wrote since, and nothing else.
Databases ==
  fixture.store = "redis" =>
    /\ \A s \in FixtureSuites : suiteState[s] \in {"before", "refused"} =>
         \A n \in DOMAIN allocated : allocated[n] # s
    /\ \A s \in FixtureSuites : suiteState[s] = "inside" => \E n \in DOMAIN allocated : allocated[n] = s
    /\ \A n, k \in DOMAIN allocated : allocated[n] = allocated[k] => n = k
    /\ \A n \in DOMAIN allocated : InNamespace(n) = Own(n, allocated[n])

\* A name has the run in it; what runs to come will be called, nothing is in.
Names ==
  fixture.store # "redis" =>
    /\ \A h \in holdings : \E s \in FixtureSuites, r \in 1..runId : h[1] = <<s, r>>
    /\ \A s \in FixtureSuites : suiteState[s] \in {"before", "inside"} =>
         InNamespace(<<s, runId>>) = Own(<<s, runId>>, s)

NothingYet ==
  FixtureIdle => /\ promise = "absent" /\ allocated = <<>> /\ wrote = {} /\ holdings = {}
                 /\ \A s \in FixtureSuites : suiteState[s] = "before"

FixtureInv == FixtureTyped /\ Databases /\ Names /\ NothingYet

LEMMA FixtureInitInv == FixtureInit => FixtureInv
<1> SUFFICES ASSUME FixtureInit PROVE FixtureInv
  OBVIOUS
<1> USE DEF FixtureInit
<1>1. FixtureTyped /\ NothingYet
  BY DEF FixtureTyped, NothingYet
<1>2. Databases /\ Names
  BY DEF Databases, Names, NoFixture, InNamespace, Own
<1> QED BY <1>1, <1>2 DEF FixtureInv

LEMMA EndOfList ==
  ASSUME NEW S, NEW q \in Seq(S), NEW x \in S
  PROVE  /\ Append(q, x) \in Seq(S) /\ Len(Append(q, x)) = Len(q) + 1
         /\ Len(q) \in Nat /\ Len(q) + 1 \notin DOMAIN q
         /\ DOMAIN Append(q, x) = DOMAIN q \union {Len(q) + 1}
         /\ Append(q, x)[Len(q) + 1] = x
         /\ \A n \in DOMAIN q : Append(q, x)[n] = q[n]
OBVIOUS

\* A slot's content in terms of what a step puts in or takes out.
LEMMA InNamespaceAdd ==
  ASSUME NEW x, NEW y, NEW ns, holdings' = holdings \union {<<x, y>>}
  PROVE  InNamespace(ns)' = InNamespace(ns) \union (IF ns = x THEN {<<x, y>>} ELSE {})
BY DEF InNamespace

LEMMA InNamespaceDrop ==
  ASSUME NEW x, NEW ns, holdings' = holdings \ InNamespace(x)
  PROVE  InNamespace(ns)' = IF ns = x THEN {} ELSE InNamespace(ns)
BY DEF InNamespace

LEMMA NamespaceOf ==
  ASSUME FixtureInv, NEW s \in FixtureSuites, suiteState[s] = "inside"
  PROVE  /\ fixture.store = "redis" => Namespace(s) \in DOMAIN allocated /\ allocated[Namespace(s)] = s
         /\ fixture.store # "redis" => Namespace(s) = <<s, runId>>
BY DEF FixtureInv, Databases, Namespace, RunName

LEMMA FixtureNextInv == FixtureInv /\ [FixtureNext]_fixtureVars => FixtureInv'
<1> SUFFICES ASSUME FixtureInv, [FixtureNext]_fixtureVars PROVE FixtureInv'
  OBVIOUS
<1>1. FixtureTyped /\ Databases /\ Names /\ NothingYet
  BY DEF FixtureInv
<1>2. CASE PickFixture
  <2>1. /\ FixtureIdle /\ UNCHANGED <<runId, promise, allocated, suiteState, wrote, holdings>>
        /\ allocated = <<>> /\ wrote = {} /\ holdings = {}
        /\ \A s \in FixtureSuites : suiteState[s] = "before"
    BY <1>1, <1>2 DEF PickFixture, NothingYet
  <2>2. FixtureTyped' /\ NothingYet'
    BY <1>1, <2>1 DEF FixtureTyped, NothingYet
  <2>3. Databases' /\ Names'
    BY <2>1 DEF Databases, Names, InNamespace, Own
  <2> QED BY <2>2, <2>3 DEF FixtureInv
<1>3. CASE StartStore
  <2>1. /\ ~FixtureIdle /\ UNCHANGED <<fixture, runId, allocated, suiteState, wrote, holdings>>
    BY <1>3 DEF StartStore
  <2>2. FixtureTyped' /\ NothingYet'
    BY <1>1, <2>1 DEF FixtureTyped, NothingYet, FixtureIdle
  <2>3. Databases' /\ Names'
    BY <1>1, <2>1 DEF Databases, Names, InNamespace, Own
  <2> QED BY <2>2, <2>3 DEF FixtureInv
<1>4. CASE NextRun
  <2>1. /\ runId' = runId + 1 /\ allocated' = <<>> /\ wrote' = {} /\ fixture' = fixture
        /\ suiteState' = [s \in FixtureSuites |-> "before"] /\ promise # "absent"
        /\ holdings' \in {holdings, {}}
    BY <1>4 DEF NextRun
  <2>2. FixtureTyped'
    BY <1>1, <2>1 DEF FixtureTyped
  <2>3. Databases'
    BY <2>1 DEF Databases, InNamespace, Own
  <2>4. Names'
    <3> SUFFICES ASSUME fixture.store # "redis"
                 PROVE  /\ \A h \in holdings' : \E s \in FixtureSuites, r \in 1..runId' : h[1] = <<s, r>>
                        /\ \A s \in FixtureSuites : InNamespace(<<s, runId>>)' = {}
      BY <2>1 DEF Names, Own
    <3>1. runId \in Nat
      BY <1>1 DEF FixtureTyped
    <3>2. \A h \in holdings : \E s \in FixtureSuites, r \in 1..runId : h[1] = <<s, r>>
      BY <1>1 DEF Names
    <3>3. \A h \in holdings, s \in FixtureSuites : h[1] # <<s, runId'>>
      BY <2>1, <3>1, <3>2
    <3>4. \A h \in holdings' : \E s \in FixtureSuites, r \in 1..runId' : h[1] = <<s, r>>
      BY <2>1, <3>1, <3>2
    <3> QED BY <2>1, <3>3, <3>4 DEF InNamespace
  <2>5. NothingYet'
    BY <1>1, <2>1 DEF NothingYet, FixtureIdle
  <2> QED BY <2>2, <2>3, <2>4, <2>5 DEF FixtureInv
<1>5. ASSUME NEW s \in FixtureSuites, RefuseSuite(s) PROVE FixtureInv'
  <2>1. /\ suiteState[s] = "before" /\ suiteState' = [suiteState EXCEPT ![s] = "refused"]
        /\ promise # "absent" /\ UNCHANGED <<fixture, runId, promise, allocated, wrote, holdings>>
    BY <1>5 DEF RefuseSuite
  <2>2. FixtureTyped' /\ NothingYet'
    BY <1>1, <2>1 DEF FixtureTyped, NothingYet, FixtureIdle
  <2>3. \A t \in FixtureSuites : suiteState'[t] = IF t = s THEN "refused" ELSE suiteState[t]
    BY <1>1, <2>1 DEF FixtureTyped
  <2>4. Databases' /\ Names'
    BY <1>1, <2>1, <2>3 DEF Databases, Names, InNamespace, Own
  <2> QED BY <2>2, <2>4 DEF FixtureInv
<1>6. ASSUME NEW s \in FixtureSuites, EnterNamed(s) PROVE FixtureInv'
  <2>1. /\ suiteState[s] = "before" /\ suiteState' = [suiteState EXCEPT ![s] = "inside"]
        /\ fixture.store # "redis" /\ promise # "absent"
        /\ UNCHANGED <<fixture, runId, promise, allocated, wrote, holdings>>
    BY <1>6 DEF EnterNamed
  <2>2. FixtureTyped' /\ NothingYet'
    BY <1>1, <2>1 DEF FixtureTyped, NothingYet, FixtureIdle
  <2>3. \A t \in FixtureSuites : suiteState'[t] = IF t = s THEN "inside" ELSE suiteState[t]
    BY <1>1, <2>1 DEF FixtureTyped
  <2>4. Databases' /\ Names'
    BY <1>1, <2>1, <2>3 DEF Databases, Names, InNamespace, Own
  <2> QED BY <2>2, <2>4 DEF FixtureInv
<1>7. ASSUME NEW s \in FixtureSuites, EnterDatabase(s) PROVE FixtureInv'
  <2> DEFINE last == Len(allocated) + 1
  <2>1. /\ suiteState[s] = "before" /\ suiteState' = [suiteState EXCEPT ![s] = "inside"]
        /\ fixture.store = "redis" /\ promise # "absent"
        /\ allocated' = Append(allocated, s)
        /\ holdings' = holdings \ InNamespace(Len(allocated'))
        /\ UNCHANGED <<fixture, runId, promise, wrote>>
    BY <1>7 DEF EnterDatabase
  <2>2. /\ allocated' \in Seq(FixtureSuites) /\ Len(allocated') = last /\ last \notin DOMAIN allocated
        /\ DOMAIN allocated' = DOMAIN allocated \union {last} /\ allocated'[last] = s
        /\ \A n \in DOMAIN allocated : allocated'[n] = allocated[n]
    BY <1>1, <2>1, EndOfList DEF FixtureTyped
  <2> HIDE DEF last
  <2>3. FixtureTyped' /\ NothingYet'
    BY <1>1, <2>1, <2>2 DEF FixtureTyped, NothingYet, FixtureIdle
  <2>4. \A t \in FixtureSuites : suiteState'[t] = IF t = s THEN "inside" ELSE suiteState[t]
    BY <1>1, <2>1 DEF FixtureTyped
  <2>5. s \notin wrote
    BY <1>1, <2>1 DEF FixtureTyped
  <2>6. \A n : InNamespace(n)' = IF n = last THEN {} ELSE InNamespace(n)
    BY <2>1, <2>2, InNamespaceDrop
  <2>7. Databases'
    <3>1. /\ \A t \in FixtureSuites : suiteState[t] \in {"before", "refused"} =>
               \A n \in DOMAIN allocated : allocated[n] # t
          /\ \A t \in FixtureSuites : suiteState[t] = "inside" => \E n \in DOMAIN allocated : allocated[n] = t
          /\ \A n, k \in DOMAIN allocated : allocated[n] = allocated[k] => n = k
          /\ \A n \in DOMAIN allocated : InNamespace(n) = Own(n, allocated[n])
      BY <1>1, <2>1 DEF Databases
    <3>2. \A t \in FixtureSuites : suiteState'[t] \in {"before", "refused"} =>
            \A n \in DOMAIN allocated' : allocated'[n] # t
      BY <2>2, <2>4, <3>1
    <3>3. \A t \in FixtureSuites : suiteState'[t] = "inside" => \E n \in DOMAIN allocated' : allocated'[n] = t
      BY <2>2, <2>4, <3>1
    <3>4. \A n, k \in DOMAIN allocated' : allocated'[n] = allocated'[k] => n = k
      BY <2>1, <2>2, <3>1
    <3>5. \A n \in DOMAIN allocated' : InNamespace(n)' = Own(n, allocated'[n])
      BY <2>2, <2>5, <2>6, <3>1 DEF Own
    <3> QED BY <2>1, <3>2, <3>3, <3>4, <3>5 DEF Databases, Own
  <2>8. Names'
    BY <2>1 DEF Names
  <2> QED BY <2>3, <2>7, <2>8 DEF FixtureInv
<1>8. ASSUME NEW s \in FixtureSuites, WriteIn(s) PROVE FixtureInv'
  <2> DEFINE ns == Namespace(s)
  <2>1. /\ suiteState[s] = "inside" /\ holdings' = holdings \union {<<ns, <<runId, s>>>>}
        /\ wrote' = wrote \union {s}
        /\ UNCHANGED <<fixture, runId, promise, allocated, suiteState>>
    BY <1>8 DEF WriteIn
  <2>2. /\ fixture.store = "redis" => ns \in DOMAIN allocated /\ allocated[ns] = s
        /\ fixture.store # "redis" => ns = <<s, runId>>
    BY <2>1, NamespaceOf
  <2> HIDE DEF ns
  <2>3. FixtureTyped' /\ NothingYet'
    BY <1>1, <2>1 DEF FixtureTyped, NothingYet, FixtureIdle
  <2>4. \A n : InNamespace(n)' = InNamespace(n) \union (IF n = ns THEN {<<ns, <<runId, s>>>>} ELSE {})
    BY <2>1, InNamespaceAdd
  <2>5. Databases'
    <3> SUFFICES ASSUME fixture.store = "redis" PROVE Databases'
      BY <2>1 DEF Databases
    <3>1. \A n \in DOMAIN allocated : InNamespace(n) = Own(n, allocated[n])
      BY <1>1 DEF Databases
    <3>2. \A n \in DOMAIN allocated : n # ns => allocated[n] # s
      BY <1>1, <2>2 DEF Databases
    <3>3. \A n \in DOMAIN allocated : InNamespace(n)' = Own(n, allocated[n])'
      BY <2>1, <2>2, <2>4, <3>1, <3>2 DEF Own
    <3> QED BY <1>1, <2>1, <3>3 DEF Databases
  <2>6. Names'
    <3> SUFFICES ASSUME fixture.store # "redis"
                 PROVE  /\ \A h \in holdings' : \E t \in FixtureSuites, r \in 1..runId : h[1] = <<t, r>>
                        /\ \A t \in FixtureSuites : suiteState[t] \in {"before", "inside"} =>
                             InNamespace(<<t, runId>>)' = Own(<<t, runId>>, t)'
      BY <2>1 DEF Names
    <3>1. runId \in Nat /\ runId > 0
      BY <1>1 DEF FixtureTyped
    <3>2. \A h \in holdings' : \E t \in FixtureSuites, r \in 1..runId : h[1] = <<t, r>>
      BY <1>1, <2>1, <2>2, <3>1 DEF Names
    <3>3. \A t \in FixtureSuites : suiteState[t] \in {"before", "inside"} =>
            InNamespace(<<t, runId>>) = Own(<<t, runId>>, t)
      BY <1>1 DEF Names
    <3>4. ASSUME NEW t \in FixtureSuites, suiteState[t] \in {"before", "inside"}
          PROVE  InNamespace(<<t, runId>>)' = Own(<<t, runId>>, t)'
      <4>1. PICK its : its = <<t, runId>>
        OBVIOUS
      <4>2. its = <<t, runId'>> /\ InNamespace(its) = Own(its, t)
        BY <2>1, <3>3, <3>4, <4>1
      <4>3. InNamespace(its)' = Own(its, t)'
        <5>1. CASE t = s
          <6>1. ns = its
            BY <2>2, <4>1, <5>1
          <6>2. InNamespace(its)' = InNamespace(its) \union {<<its, <<runId, s>>>>}
            BY <2>4, <6>1
          <6> QED BY <2>1, <4>2, <5>1, <6>2 DEF Own
        <5>2. CASE t # s
          <6>1. ns # its
            BY <2>2, <4>1, <5>2
          <6>2. InNamespace(its)' = InNamespace(its)
            BY <2>4, <6>1
          <6> QED BY <2>1, <4>2, <5>2, <6>2 DEF Own
        <5> QED BY <5>1, <5>2
      <4> QED BY <4>2, <4>3
    <3> QED BY <3>2, <3>4
  <2> QED BY <2>3, <2>5, <2>6 DEF FixtureInv
<1>9. ASSUME NEW s \in FixtureSuites, LeaveSuite(s) PROVE FixtureInv'
  <2> DEFINE ns == Namespace(s)
  <2>1. /\ suiteState[s] = "inside" /\ suiteState' = [suiteState EXCEPT ![s] = "after"]
        /\ wrote' = wrote \ {s}
        /\ holdings' = IF fixture.store = "kafka" THEN holdings ELSE holdings \ InNamespace(ns)
        /\ UNCHANGED <<fixture, runId, promise, allocated>>
    BY <1>9 DEF LeaveSuite
  <2>2. /\ fixture.store = "redis" => ns \in DOMAIN allocated /\ allocated[ns] = s
        /\ fixture.store # "redis" => ns = <<s, runId>>
    BY <2>1, NamespaceOf
  <2> HIDE DEF ns
  <2>3. \A t \in FixtureSuites : suiteState'[t] = IF t = s THEN "after" ELSE suiteState[t]
    BY <1>1, <2>1 DEF FixtureTyped
  <2>4. FixtureTyped' /\ NothingYet'
    BY <1>1, <2>1, <2>3 DEF FixtureTyped, NothingYet, FixtureIdle
  <2>5. fixture.store # "kafka" => \A n : InNamespace(n)' = IF n = ns THEN {} ELSE InNamespace(n)
    BY <2>1, InNamespaceDrop
  <2>6. fixture.store = "kafka" => \A n : InNamespace(n)' = InNamespace(n)
    BY <2>1 DEF InNamespace
  <2>7. Databases'
    <3> SUFFICES ASSUME fixture.store = "redis" PROVE Databases'
      BY <2>1 DEF Databases
    <3>1. \A n \in DOMAIN allocated : InNamespace(n) = Own(n, allocated[n])
      BY <1>1 DEF Databases
    <3>2. \A n \in DOMAIN allocated : n # ns => allocated[n] # s
      BY <1>1, <2>2 DEF Databases
    <3>3. \A n \in DOMAIN allocated : InNamespace(n)' = Own(n, allocated[n])'
      BY <2>1, <2>2, <2>5, <3>1, <3>2 DEF Own
    <3> QED BY <1>1, <2>1, <2>3, <3>3 DEF Databases
  <2>8. Names'
    <3> SUFFICES ASSUME fixture.store # "redis"
                 PROVE  /\ \A h \in holdings' : \E t \in FixtureSuites, r \in 1..runId : h[1] = <<t, r>>
                        /\ \A t \in FixtureSuites : suiteState'[t] \in {"before", "inside"} =>
                             InNamespace(<<t, runId>>)' = Own(<<t, runId>>, t)'
      BY <2>1 DEF Names
    <3>1. \A h \in holdings' : \E t \in FixtureSuites, r \in 1..runId : h[1] = <<t, r>>
      BY <1>1, <2>1 DEF Names
    <3>2. \A t \in FixtureSuites : suiteState[t] \in {"before", "inside"} =>
            InNamespace(<<t, runId>>) = Own(<<t, runId>>, t)
      BY <1>1 DEF Names
    <3>3. \A t \in FixtureSuites : suiteState'[t] \in {"before", "inside"} =>
            InNamespace(<<t, runId>>)' = Own(<<t, runId>>, t)'
      BY <2>1, <2>2, <2>3, <2>5, <2>6, <3>2 DEF Own
    <3> QED BY <3>1, <3>3
  <2> QED BY <2>4, <2>7, <2>8 DEF FixtureInv
<1>10. CASE UNCHANGED fixtureVars
  <2>1. UNCHANGED <<fixture, runId, promise, allocated, suiteState, wrote, holdings>>
    BY <1>10 DEF fixtureVars
  <2>2. FixtureTyped' /\ NothingYet'
    BY <1>1, <2>1 DEF FixtureTyped, NothingYet, FixtureIdle
  <2>3. Databases' /\ Names'
    BY <1>1, <2>1 DEF Databases, Names, InNamespace, Own
  <2> QED BY <2>2, <2>3 DEF FixtureInv
<1> QED BY <1>2, <1>3, <1>4, <1>5, <1>6, <1>7, <1>8, <1>9, <1>10 DEF FixtureNext

LEMMA FixtureInvMeans == FixtureInv => SuiteSeesOnlyItsOwn
<1> SUFFICES ASSUME FixtureInv, NEW s \in FixtureSuites, suiteState[s] = "inside"
             PROVE  {h[2] : h \in InNamespace(Namespace(s))} = (IF s \in wrote THEN {<<runId, s>>} ELSE {})
  BY DEF SuiteSeesOnlyItsOwn
<1>1. InNamespace(Namespace(s)) = Own(Namespace(s), s)
  <2>1. CASE fixture.store = "redis"
    <3>1. Namespace(s) \in DOMAIN allocated /\ allocated[Namespace(s)] = s
      BY <2>1, NamespaceOf
    <3> QED BY <2>1, <3>1 DEF FixtureInv, Databases
  <2>2. CASE fixture.store # "redis"
    <3>1. Namespace(s) = <<s, runId>>
      BY <2>2, NamespaceOf
    <3> QED BY <2>2, <3>1 DEF FixtureInv, Names
  <2> QED BY <2>1, <2>2
<1>2. CASE s \in wrote
  <2>1. InNamespace(Namespace(s)) = {<<Namespace(s), <<runId, s>>>>}
    BY <1>1, <1>2 DEF Own
  <2> QED BY <1>2, <2>1
<1>3. CASE s \notin wrote
  <2>1. InNamespace(Namespace(s)) = {}
    BY <1>1, <1>3 DEF Own
  <2> QED BY <1>3, <2>1
<1> QED BY <1>2, <1>3

-----------------------------------------------------------------------------
(* The minimiser.                                                          *)

Cut(q, from, count) == SubSeq(q, 1, from) \o SubSeq(q, from + count + 1, Len(q))

\* Of q, no one of the first n characters can go.
NoneToSpare(q, n) == \A p \in 0..Len(q) - 1 : p < n => Cut(q, p, 1) \notin failing

MinimiserTyped ==
  /\ kept \in Seq(Nat) /\ granularity \in Nat /\ granularity >= 2 /\ start \in Nat
  /\ searching \in {"idle", "chunks", "complements", "sweep", "done"}

\* The pieces are never empty, so every round ends.
Pieces ==
  searching \in {"chunks", "complements"} => Len(kept) > 1 /\ granularity <= Len(kept)

\* Complements of pieces of one character are what the sweep would try.
Tried ==
  /\ searching = "complements" /\ Size = 1 => NoneToSpare(kept, start)
  /\ searching = "sweep" => NoneToSpare(kept, start) /\ (Len(kept) > 1 => NoneToSpare(kept, Len(kept)))
  /\ searching = "done" => NoneToSpare(kept, Len(kept))

MinimiserInv ==
  /\ MinimiserTyped /\ Pieces /\ Tried
  /\ searching = "idle" => start = 0 /\ granularity = 2
  /\ searching # "idle" => kept \in failing

LEMMA WithoutIsCut == \A from, count : Without(from, count) = Cut(kept, from, count)
BY DEF Without, Cut

LEMMA SliceLength ==
  ASSUME NEW q \in Seq(Nat), NEW m \in Nat, m > 0, NEW n \in Nat, n <= Len(q)
  PROVE  /\ SubSeq(q, m, n) \in Seq(Nat)
         /\ Len(SubSeq(q, m, n)) = IF m <= n THEN n - m + 1 ELSE 0
<1>1. \A i \in m..n : q[i] \in Nat
  OBVIOUS
<1> QED BY <1>1, SubSeqProperties

LEMMA CutLength ==
  ASSUME NEW q \in Seq(Nat), NEW p \in Nat, p < Len(q), NEW n \in Nat
  PROVE  /\ Cut(q, p, n) \in Seq(Nat)
         /\ Len(Cut(q, p, n)) = IF p + n <= Len(q) THEN Len(q) - n ELSE p
<1> DEFINE front == SubSeq(q, 1, p)
           back == SubSeq(q, p + n + 1, Len(q))
<1>1. front \in Seq(Nat) /\ Len(front) = p
  BY SliceLength
<1>2. back \in Seq(Nat) /\ Len(back) = IF p + n + 1 <= Len(q) THEN Len(q) - (p + n + 1) + 1 ELSE 0
  BY SliceLength
<1>3. Cut(q, p, n) = front \o back
  BY DEF Cut
<1> HIDE DEF front, back
<1>4. front \o back \in Seq(Nat) /\ Len(front \o back) = Len(front) + Len(back)
  BY <1>1, <1>2, ConcatProperties
<1> QED BY <1>1, <1>2, <1>3, <1>4

\* A piece is a part of the whole, and there are that many of them.
LEMMA PieceSize ==
  ASSUME NEW n \in Nat, NEW g \in Nat, g >= 2, g <= n
  PROVE  /\ n \div g \in Nat /\ n \div g >= 1 /\ g * (n \div g) <= n
         /\ g = n => n \div g = 1
OBVIOUS

\* What one piece of g leaves can be cut into g - 1.
LEMMA ComplementLeaves ==
  ASSUME NEW n \in Nat, NEW g \in Nat, g >= 2, g <= n
  PROVE  n - (n \div g) >= g - 1
<1> DEFINE s == n \div g
<1>1. s \in Nat /\ s >= 1 /\ g * s <= n
  BY PieceSize
<1> HIDE DEF s
<1>2. (g - 1) * s >= g - 1
  BY <1>1
<1>3. g * s - s = (g - 1) * s
  BY <1>1
<1>4. n - s >= g - 1
  BY <1>1, <1>2, <1>3
<1> QED BY <1>4 DEF s

LEMMA RoundOn ==
  ASSUME NEW n \in Nat, NEW g \in Nat, g >= 2
  PROVE  /\ NextRoundOn(n, g) \in {"chunks", "sweep"}
         /\ NextRoundOn(n, g) = "chunks" => n > 1 /\ g <= n
         /\ n > 1 /\ g <= n => NextRoundOn(n, g) = "chunks"
<1>1. n < g => n \div g = 0
  OBVIOUS
<1>2. g <= n => n \div g >= 1
  BY PieceSize
<1> QED BY <1>1, <1>2 DEF NextRoundOn

\* A shorter input to go on with, and pieces it has enough characters for.
LEMMA GoesOn ==
  ASSUME NEW q \in Seq(Nat), NEW g \in Nat, g >= 2, Len(q) > 1 => g <= Len(q),
         kept' = q, granularity' = g, start' = 0, q \in failing',
         searching' = NextRoundOn(Len(q), g)
  PROVE  MinimiserInv'
<1>1. Len(q) \in Nat /\ (Len(q) > 1 <=> searching' = "chunks") /\ searching' \in {"chunks", "sweep"}
  BY RoundOn
<1>2. MinimiserTyped' /\ Pieces'
  BY <1>1 DEF MinimiserTyped, Pieces
<1>3. Tried'
  BY <1>1 DEF Tried, NoneToSpare
<1> QED BY <1>1, <1>2, <1>3 DEF MinimiserInv

LEMMA MinimiserInitInv == MinimiserInit => MinimiserInv
BY DEF MinimiserInit, MinimiserInv, MinimiserTyped, Pieces, Tried

LEMMA MinimiserNextInv == MinimiserInv /\ [MinimiserNext]_minimiserVars => MinimiserInv'
<1> SUFFICES ASSUME MinimiserInv, [MinimiserNext]_minimiserVars PROVE MinimiserInv'
  OBVIOUS
<1>1. /\ MinimiserTyped /\ Pieces /\ Tried
      /\ searching = "idle" => start = 0 /\ granularity = 2
      /\ searching # "idle" => kept \in failing
  BY DEF MinimiserInv
<1>2. kept \in Seq(Nat) /\ Len(kept) \in Nat /\ granularity \in Nat /\ granularity >= 2 /\ start \in Nat
  BY <1>1 DEF MinimiserTyped
<1>3. searching \in {"chunks", "complements"} =>
        /\ Len(kept) > 1 /\ granularity <= Len(kept)
        /\ Size \in Nat /\ Size >= 1 /\ Size < Len(kept)
        /\ granularity = Len(kept) => Size = 1
  <2> SUFFICES ASSUME searching \in {"chunks", "complements"}
               PROVE  /\ Len(kept) > 1 /\ granularity <= Len(kept)
                      /\ Size \in Nat /\ Size >= 1 /\ Size < Len(kept)
                      /\ granularity = Len(kept) => Size = 1
    OBVIOUS
  <2>1. Len(kept) > 1 /\ granularity <= Len(kept)
    BY <1>1 DEF Pieces
  <2>2. Size \in Nat /\ Size >= 1 /\ granularity * Size <= Len(kept) /\ (granularity = Len(kept) => Size = 1)
    BY <1>2, <2>1, PieceSize DEF Size
  <2>3. Len(kept) - Size >= granularity - 1
    BY <1>2, <2>1, ComplementLeaves DEF Size
  <2> QED BY <1>2, <2>1, <2>2, <2>3
<1>4. CASE PickSearch
  <2>1. PICK s \in Searches : /\ failing' = s.failing /\ kept' = Input(s.length)
                              /\ searching' = NextRoundOn(s.length, 2)
    BY <1>4 DEF PickSearch
  <2>2. s.length \in Nat /\ Input(s.length) \in s.failing
    BY SearchAssumption
  <2>3. Input(s.length) \in Seq(Nat) /\ Len(Input(s.length)) = s.length
    BY <2>2 DEF Input
  <2>4. granularity' = 2 /\ start' = 0
    BY <1>1, <1>4 DEF PickSearch, MinimiserIdle
  <2> QED BY <2>1, <2>2, <2>3, <2>4, GoesOn
<1>5. CASE TryChunk
  <2>1. searching = "chunks" /\ start < Len(kept)
    BY <1>5 DEF TryChunk
  <2>2. CASE Len(Chunk) > 0 /\ Shorter(Chunk) /\ Chunk \in failing
    <3>1. /\ kept' = Chunk /\ granularity' = 2 /\ start' = 0 /\ failing' = failing
          /\ searching' = NextRoundOn(Len(Chunk), 2)
      BY <1>5, <2>2 DEF TryChunk, KeepCandidate
    <3>2. Chunk \in Seq(Nat)
      <4> DEFINE last == IF start + Size < Len(kept) THEN start + Size ELSE Len(kept)
      <4>1. last \in Nat /\ last <= Len(kept) /\ start + 1 \in Nat /\ start + 1 > 0
        BY <1>2, <1>3, <2>1
      <4>2. Chunk = SubSeq(kept, start + 1, last)
        BY DEF Chunk
      <4> HIDE DEF last
      <4> QED BY <1>2, <4>1, <4>2, SliceLength
    <3> QED BY <2>2, <3>1, <3>2, GoesOn
  <2>3. CASE ~(Len(Chunk) > 0 /\ Shorter(Chunk) /\ Chunk \in failing)
    <3>1. start' = start + Size /\ UNCHANGED <<failing, kept, granularity, searching>>
      BY <1>5, <2>3 DEF TryChunk
    <3> QED BY <1>1, <1>2, <1>3, <2>1, <3>1 DEF MinimiserInv, MinimiserTyped, Pieces, Tried
  <2> QED BY <2>2, <2>3
<1>6. CASE ChunksTried
  <2>1. /\ searching = "chunks" /\ start' = 0 /\ searching' = "complements"
        /\ UNCHANGED <<failing, kept, granularity>>
    BY <1>6 DEF ChunksTried
  <2> QED BY <1>1, <1>2, <2>1 DEF MinimiserInv, MinimiserTyped, Pieces, Tried, NoneToSpare
<1>7. CASE TryComplement
  <2> DEFINE shortened == Without(start, Size)
  <2>1. searching = "complements" /\ start < Len(kept) /\ shortened = Cut(kept, start, Size)
    BY <1>7, WithoutIsCut DEF TryComplement
  <2>2. shortened \in Seq(Nat) /\ Len(shortened) = IF start + Size <= Len(kept) THEN Len(kept) - Size ELSE start
    <3>1. Size \in Nat
      BY <1>3, <2>1
    <3> HIDE DEF shortened
    <3>2. \A n \in Nat : /\ Cut(kept, start, n) \in Seq(Nat)
                         /\ Len(Cut(kept, start, n)) = IF start + n <= Len(kept) THEN Len(kept) - n ELSE start
      BY <1>2, <2>1, CutLength
    <3> QED BY <2>1, <3>1, <3>2
  <2>3. CASE Shorter(shortened) /\ shortened \in failing
    <3> DEFINE g == IF granularity > 2 THEN granularity - 1 ELSE 2
    <3>1. /\ kept' = shortened /\ granularity' = g /\ start' = 0 /\ failing' = failing
          /\ searching' = NextRoundOn(Len(shortened), g)
      BY <1>7, <2>3 DEF TryComplement, KeepCandidate
    <3>2. Len(kept) - Size >= granularity - 1
      BY <1>2, <1>3, <2>1, ComplementLeaves DEF Size
    <3>5. Size \in Nat
      BY <1>3, <2>1
    <3>6. g \in Nat /\ g >= 2
      BY <1>2
    <3>3. Len(shortened) >= granularity - 1 /\ g \in Nat /\ g >= 2
      <4> HIDE DEF shortened
      <4>1. PICK n : n = Size
        OBVIOUS
      <4>2. Len(shortened) = IF start + n <= Len(kept) THEN Len(kept) - n ELSE start
        BY <2>2, <4>1
      <4> QED BY <1>2, <2>1, <3>2, <3>5, <3>6, <4>1, <4>2
    <3>4. Len(shortened) > 1 => g <= Len(shortened)
      BY <1>2, <2>2, <3>3
    <3> HIDE DEF shortened, g
    <3> QED BY <2>2, <2>3, <3>1, <3>3, <3>4, GoesOn
  <2>4. CASE ~(Shorter(shortened) /\ shortened \in failing)
    <3>1. start' = start + Size /\ UNCHANGED <<failing, kept, granularity, searching>>
      BY <1>7, <2>4 DEF TryComplement
    <3>2. Size = 1 => shortened \notin failing
      BY <1>2, <2>1, <2>2, <2>4 DEF Shorter
    <3>3. Size = 1 => NoneToSpare(kept, start) /\ Cut(kept, start, 1) \notin failing
      BY <1>1, <2>1, <3>2 DEF Tried
    <3>4. Size = 1 => NoneToSpare(kept, start + 1)
      BY <1>2, <3>3 DEF NoneToSpare
    <3>5. Size' = Size
      BY <3>1 DEF Size
    <3>6. Size = 1 => NoneToSpare(kept, start)'
      BY <3>1, <3>4 DEF NoneToSpare
    <3>7. Tried'
      BY <2>1, <3>1, <3>5, <3>6 DEF Tried
    <3> QED BY <1>1, <1>2, <1>3, <2>1, <3>1, <3>7 DEF MinimiserInv, MinimiserTyped, Pieces
  <2> QED BY <2>3, <2>4
<1>8. CASE Refine
  <2>1. /\ searching = "complements" /\ start >= Len(kept) /\ start' = 0
        /\ UNCHANGED <<failing, kept>>
    BY <1>8 DEF Refine
  <2>2. CASE granularity >= Len(kept)
    <3>1. searching' = "sweep" /\ UNCHANGED granularity
      BY <1>8, <2>2 DEF Refine
    <3>2. Size = 1
      BY <1>2, <1>3, <2>1, <2>2
    <3>3. NoneToSpare(kept, Len(kept))
      BY <1>1, <1>2, <2>1, <3>2 DEF Tried, NoneToSpare
    <3>4. Tried'
      BY <1>2, <2>1, <3>1, <3>3 DEF Tried, NoneToSpare
    <3> QED BY <1>1, <1>2, <2>1, <3>1, <3>4 DEF MinimiserInv, MinimiserTyped, Pieces
  <2>3. CASE granularity < Len(kept)
    <3> DEFINE g == IF granularity * 2 < Len(kept) THEN granularity * 2 ELSE Len(kept)
    <3>1. granularity' = g /\ searching' = NextRoundOn(Len(kept), g)
      BY <1>2, <1>8, <2>3 DEF Refine
    <3>2. g \in Nat /\ g >= 2 /\ g <= Len(kept)
      BY <1>2, <2>3
    <3> HIDE DEF g
    <3> QED BY <1>1, <1>2, <2>1, <3>1, <3>2, GoesOn
  <2> QED BY <1>2, <2>2, <2>3
<1>9. CASE Sweep
  <2>1. /\ searching = "sweep" /\ start < Len(kept) /\ UNCHANGED <<failing, granularity, searching>>
        /\ NoneToSpare(kept, start) /\ (Len(kept) > 1 => NoneToSpare(kept, Len(kept)))
    BY <1>1, <1>9 DEF Sweep, Tried
  <2>2. CASE Without(start, 1) \in failing
    <3>1. kept' = Cut(kept, start, 1) /\ start' = start /\ Cut(kept, start, 1) \in failing
      BY <1>9, <2>2, WithoutIsCut DEF Sweep
    <3>2. Len(kept) <= 1
      BY <1>2, <2>1, <3>1 DEF NoneToSpare
    <3>3. kept' \in Seq(Nat) /\ Len(kept') = 0
      BY <1>2, <2>1, <3>1, <3>2, CutLength
    <3>4. Tried'
      BY <2>1, <3>3 DEF Tried, NoneToSpare
    <3> QED BY <1>1, <1>2, <2>1, <3>1, <3>3, <3>4 DEF MinimiserInv, MinimiserTyped, Pieces
  <2>3. CASE Without(start, 1) \notin failing
    <3>1. start' = start + 1 /\ kept' = kept /\ Cut(kept, start, 1) \notin failing
      BY <1>9, <2>3, WithoutIsCut DEF Sweep
    <3>2. NoneToSpare(kept, start + 1)
      BY <1>2, <2>1, <3>1 DEF NoneToSpare
    <3>3. Tried'
      BY <2>1, <3>1, <3>2 DEF Tried, NoneToSpare
    <3> QED BY <1>1, <1>2, <2>1, <3>1, <3>3 DEF MinimiserInv, MinimiserTyped, Pieces
  <2> QED BY <2>2, <2>3
<1>10. CASE SweepEnds
  <2>1. /\ searching = "sweep" /\ start >= Len(kept) /\ searching' = "done"
        /\ UNCHANGED <<failing, kept, granularity, start>>
    BY <1>10 DEF SweepEnds
  <2>2. NoneToSpare(kept, Len(kept))
    BY <1>1, <1>2, <2>1 DEF Tried, NoneToSpare
  <2>3. Tried'
    BY <2>1, <2>2 DEF Tried, NoneToSpare
  <2> QED BY <1>1, <1>2, <2>1, <2>3 DEF MinimiserInv, MinimiserTyped, Pieces
<1>11. CASE UNCHANGED minimiserVars
  BY <1>1, <1>11 DEF minimiserVars, MinimiserInv, MinimiserTyped, Pieces, Tried, NoneToSpare, Size
<1> QED BY <1>4, <1>5, <1>6, <1>7, <1>8, <1>9, <1>10, <1>11 DEF MinimiserNext, MinimiserStep

LEMMA MinimiserInvMeans == MinimiserInv => ReportIsMinimal
<1> SUFFICES ASSUME MinimiserInv PROVE ReportIsMinimal
  OBVIOUS
<1>1. searching = "done" \/ (searching = "sweep" /\ Len(kept) > 1) => NoneToSpare(kept, Len(kept))
  BY DEF MinimiserInv, Tried
<1>2. Len(kept) \in Nat
  BY DEF MinimiserInv, MinimiserTyped
<1> QED BY <1>1, <1>2, WithoutIsCut DEF ReportIsMinimal, NoneToSpare, MinimiserInv

-----------------------------------------------------------------------------
(* Calls under a signal.                                                   *)

ChaosTyped ==
  /\ attempt \in Nat /\ clock \in Nat /\ sentAt \in Nat /\ failures \in Nat
  /\ step \in {"idle", "attempting", "headers", "body", "settled"}

\* Between two series nothing of the last one is left.
BetweenSeries ==
  /\ step = "idle" => policy = "none" /\ attempt = 0 /\ clock = 0 /\ outcome = "none"
  /\ ChaosIdle => step = "idle" /\ toRun = <<>>

Awaiting == step \in {"headers", "body"}

\* Every attempt is given a budget, counted from its own request.
WithinBudgets ==
  Layer = "socket" /\ policy \in Signals =>
    /\ outcome # "hung"
    /\ step = "attempting" => attempt < Attempts /\ clock <= attempt
    /\ Awaiting => /\ attempt <= Attempts /\ sentAt < attempt
                   /\ sentAt <= clock /\ clock <= sentAt + 1
    /\ clock <= Attempts

\* No answer is awaited behind an open breaker.
ClosedWhenAsked == policy = "breaker" /\ Awaiting => failures < BreakerThreshold

ChaosInv == ChaosTyped /\ BetweenSeries /\ WithinBudgets /\ ClosedWhenAsked

LEMMA ChaosInitInv == ChaosInit => ChaosInv
BY DEF ChaosInit, ChaosInv, ChaosTyped, BetweenSeries, WithinBudgets, ClosedWhenAsked,
       Awaiting, Signals, Layer

LEMMA AttemptsAtLeastOne == Attempts \in Nat /\ Attempts >= 1 /\ Attempts <= 3
BY DEF Attempts, MaxAttempts

\* An attempt that threw, or brought an answer, before its budget was out.
LEMMA AfterAnswer ==
  ASSUME ChaosInv, Awaiting, UNCHANGED <<column, toRun, policy, attempt, clock, sentAt>>,
         failures' \in {failures + 1, failures, 0},
         \/ step' = "attempting" /\ attempt < Attempts /\ outcome' = outcome
         \/ step' = "settled" /\ outcome' # "hung"
         \/ step' = "body" /\ outcome' = outcome /\ failures' = failures
  PROVE  ChaosInv'
<1>1. ChaosTyped'
  BY DEF ChaosInv, ChaosTyped
<1>2. BetweenSeries'
  BY DEF ChaosInv, BetweenSeries, ChaosIdle, Awaiting
<1>3. WithinBudgets'
  <2>1. Layer' = Layer /\ Attempts' = Attempts
    BY DEF Layer, Attempts
  <2> SUFFICES ASSUME Layer = "socket", policy \in Signals PROVE WithinBudgets'
    BY <2>1 DEF WithinBudgets
  <2>2. /\ outcome # "hung" /\ attempt <= Attempts /\ sentAt < attempt
        /\ sentAt <= clock /\ clock <= sentAt + 1 /\ clock <= Attempts
    BY DEF ChaosInv, WithinBudgets
  <2>3. attempt \in Nat /\ clock \in Nat /\ sentAt \in Nat /\ Attempts \in Nat
    BY AttemptsAtLeastOne DEF ChaosInv, ChaosTyped
  <2> QED BY <2>1, <2>2, <2>3 DEF WithinBudgets, Awaiting
<1>4. ClosedWhenAsked'
  BY DEF ChaosInv, ClosedWhenAsked, Awaiting
<1> QED BY <1>1, <1>2, <1>3, <1>4 DEF ChaosInv

LEMMA ThrowGoesOn ==
  ASSUME NEW error, Throw(error), error # "hung", failures \in Nat
  PROVE  /\ failures' \in {failures + 1, failures, 0}
         /\ \/ step' = "attempting" /\ attempt < Attempts /\ outcome' = outcome
            \/ step' = "settled" /\ outcome' # "hung"
BY DEF Throw

LEMMA ChaosNextInv == ChaosInv /\ [ChaosNext]_chaosVars => ChaosInv'
<1> SUFFICES ASSUME ChaosInv, [ChaosNext]_chaosVars PROVE ChaosInv'
  OBVIOUS
<1>1. ChaosTyped /\ BetweenSeries /\ WithinBudgets /\ ClosedWhenAsked
  BY DEF ChaosInv
<1>2. attempt \in Nat /\ clock \in Nat /\ sentAt \in Nat /\ failures \in Nat
  BY <1>1 DEF ChaosTyped
<1>3. CASE PickColumn
  <2>1. /\ step = "idle" /\ column' \in Columns
        /\ UNCHANGED <<policy, attempt, step, clock, sentAt, failures, outcome>>
    BY <1>1, <1>3 DEF PickColumn, callVars, BetweenSeries
  <2>2. ~ChaosIdle'
    BY <2>1, ColumnAssumption DEF ChaosIdle, Layers
  <2>3. ChaosTyped' /\ BetweenSeries' /\ ClosedWhenAsked'
    BY <1>1, <2>1, <2>2 DEF ChaosTyped, BetweenSeries, ClosedWhenAsked, Awaiting
  <2>4. WithinBudgets'
    BY <1>1, <2>1 DEF BetweenSeries, WithinBudgets, Signals
  <2> QED BY <2>3, <2>4 DEF ChaosInv
<1>4. CASE StartSeries
  <2>1. /\ step = "idle" /\ toRun # <<>> /\ step' = "settled" /\ failures' = 0
        /\ UNCHANGED <<column, attempt, clock, sentAt, outcome>>
    BY <1>4 DEF StartSeries
  <2>2. attempt = 0 /\ clock = 0 /\ outcome = "none" /\ ~ChaosIdle
    BY <1>1, <2>1 DEF BetweenSeries
  <2>3. ChaosTyped' /\ BetweenSeries' /\ ClosedWhenAsked'
    BY <1>1, <2>1, <2>2 DEF ChaosTyped, BetweenSeries, ClosedWhenAsked, Awaiting, ChaosIdle
  <2>4. Attempts' \in Nat /\ Attempts' >= 1
    BY DEF Attempts, MaxAttempts
  <2>5. WithinBudgets'
    BY <2>1, <2>2, <2>4 DEF WithinBudgets, Awaiting
  <2> QED BY <2>3, <2>5 DEF ChaosInv
<1>5. CASE StartCall
  <2>1. /\ step = "settled" /\ attempt' = 0 /\ clock' = 0 /\ step' = "attempting"
        /\ UNCHANGED <<column, toRun, policy, sentAt, failures, outcome>>
    BY <1>5 DEF StartCall
  <2>2. ChaosTyped' /\ BetweenSeries' /\ ClosedWhenAsked'
    BY <1>1, <2>1 DEF ChaosTyped, BetweenSeries, ClosedWhenAsked, Awaiting, ChaosIdle
  <2>3. Attempts' = Attempts /\ Layer' = Layer
    BY <2>1 DEF Attempts, Layer
  <2>4. WithinBudgets'
    BY <1>1, <2>1, <2>3, AttemptsAtLeastOne DEF WithinBudgets, Awaiting
  <2> QED BY <2>2, <2>4 DEF ChaosInv
<1>6. CASE Send
  <2>1. /\ step = "attempting" /\ ~Open /\ attempt' = attempt + 1 /\ sentAt' = clock
        /\ step' = "headers" /\ UNCHANGED <<column, toRun, policy, clock, failures, outcome>>
    BY <1>6 DEF Send
  <2>2. ChaosTyped' /\ BetweenSeries' /\ ClosedWhenAsked'
    BY <1>1, <1>2, <2>1 DEF ChaosTyped, BetweenSeries, ClosedWhenAsked, Awaiting, ChaosIdle,
                            Open, BreakerThreshold
  <2>3. Attempts' = Attempts /\ Layer' = Layer
    BY <2>1 DEF Attempts, Layer
  <2>4. WithinBudgets'
    BY <1>1, <1>2, <2>1, <2>3, AttemptsAtLeastOne DEF WithinBudgets, Awaiting
  <2> QED BY <2>2, <2>4 DEF ChaosInv
<1>7. CASE Decline
  <2>1. /\ step = "attempting" /\ outcome' = "breaker-open" /\ step' = "settled"
        /\ UNCHANGED <<column, toRun, policy, attempt, clock, sentAt, failures>>
    BY <1>7 DEF Decline
  <2>2. ChaosTyped' /\ BetweenSeries' /\ ClosedWhenAsked'
    BY <1>1, <2>1 DEF ChaosTyped, BetweenSeries, ClosedWhenAsked, Awaiting, ChaosIdle
  <2>3. Attempts' = Attempts /\ Layer' = Layer
    BY <2>1 DEF Attempts, Layer
  <2>4. WithinBudgets'
    BY <1>1, <2>1, <2>3 DEF WithinBudgets, Awaiting
  <2> QED BY <2>2, <2>4 DEF ChaosInv
<1>8. CASE HeadersArrive
  <2>1. Awaiting /\ UNCHANGED <<column, toRun, policy, attempt, clock, sentAt>>
    BY <1>8 DEF HeadersArrive, Awaiting
  <2>2. \/ \E error \in {"refused", "http-error"} : Throw(error)
        \/ step' = "body" /\ UNCHANGED <<failures, outcome>>
    BY <1>8 DEF HeadersArrive
  <2> QED BY <1>2, <2>1, <2>2, ThrowGoesOn, AfterAnswer
<1>9. CASE BodyArrives
  <2>1. Awaiting /\ UNCHANGED <<column, toRun, policy, attempt, clock, sentAt>>
    BY <1>9 DEF BodyArrives, Awaiting
  <2>2. Brings(meets) # "hung"
    BY DEF Brings
  <2>3. PICK brings : brings = Brings(meets)
    OBVIOUS
  <2>4. IF brings \in {"malformed", "reset"} THEN Throw(brings) ELSE Return(brings)
    BY <1>9, <2>3, Zenon DEF BodyArrives
  <2>5. CASE Throw(brings)
    BY <1>2, <2>1, <2>2, <2>3, <2>5, ThrowGoesOn, AfterAnswer
  <2>6. CASE Return(brings)
    <3>1. step' = "settled" /\ outcome' # "hung" /\ failures' = 0
      BY <2>2, <2>3, <2>6 DEF Return
    <3> QED BY <2>1, <3>1, AfterAnswer
  <2> QED BY <2>4, <2>5, <2>6
<1>10. CASE BudgetFires
  <2>1. Awaiting /\ UNCHANGED <<column, toRun, policy, attempt, clock, sentAt>> /\ Throw("aborted")
    BY <1>10 DEF BudgetFires, Awaiting
  <2> QED BY <1>2, <2>1, ThrowGoesOn, AfterAnswer
<1>11. CASE DeadlinePasses
  <2>1. /\ Awaiting /\ clock >= 15 /\ step' = "settled"
        /\ UNCHANGED <<column, toRun, policy, attempt, clock, sentAt, failures>>
    BY <1>11 DEF DeadlinePasses, Awaiting, Deadline
  <2>2. ChaosTyped' /\ BetweenSeries' /\ ClosedWhenAsked'
    BY <1>1, <2>1 DEF ChaosTyped, BetweenSeries, ClosedWhenAsked, Awaiting, ChaosIdle
  <2>3. ~(Layer = "socket" /\ policy \in Signals)
    BY <1>1, <1>2, <2>1, AttemptsAtLeastOne DEF WithinBudgets
  <2>4. WithinBudgets'
    BY <2>1, <2>3 DEF WithinBudgets, Layer
  <2> QED BY <2>2, <2>4 DEF ChaosInv
<1>12. CASE Wait
  <2>1. /\ Awaiting /\ ~Due /\ clock' = clock + 1
        /\ UNCHANGED <<column, toRun, policy, attempt, step, sentAt, failures, outcome>>
    BY <1>12 DEF Wait, Awaiting
  <2>2. ChaosTyped' /\ BetweenSeries' /\ ClosedWhenAsked'
    BY <1>1, <1>2, <2>1 DEF ChaosTyped, BetweenSeries, ClosedWhenAsked, Awaiting, ChaosIdle
  <2>3. Attempts' = Attempts /\ Layer' = Layer
    BY <2>1 DEF Attempts, Layer
  <2>4. Layer = "socket" /\ policy \in Signals => clock < sentAt + 1
    BY <1>2, <2>1 DEF Due, Guarded, Signals, Budget
  <2>5. WithinBudgets'
    BY <1>1, <1>2, <2>1, <2>3, <2>4, AttemptsAtLeastOne DEF WithinBudgets, Awaiting
  <2> QED BY <2>2, <2>5 DEF ChaosInv
<1>13. CASE EndSeries
  <2>1. /\ step = "settled" /\ step' = "idle" /\ policy' = "none" /\ outcome' = "none"
        /\ attempt' = 0 /\ clock' = 0 /\ sentAt' = 0 /\ failures' = 0
        /\ UNCHANGED <<column, toRun>>
    BY <1>13 DEF EndSeries, Ended
  <2>2. ChaosTyped' /\ BetweenSeries' /\ ClosedWhenAsked'
    BY <1>1, <2>1 DEF ChaosTyped, BetweenSeries, ClosedWhenAsked, Awaiting, ChaosIdle
  <2>3. WithinBudgets'
    BY <2>1 DEF WithinBudgets, Signals
  <2> QED BY <2>2, <2>3 DEF ChaosInv
<1>14. CASE UNCHANGED chaosVars
  <2>1. UNCHANGED <<column, toRun, policy, attempt, step, clock, sentAt, failures, outcome>>
    BY <1>14 DEF chaosVars, callVars
  <2>2. ChaosTyped' /\ BetweenSeries' /\ ClosedWhenAsked'
    BY <1>1, <2>1 DEF ChaosTyped, BetweenSeries, ClosedWhenAsked, Awaiting, ChaosIdle
  <2>3. WithinBudgets'
    BY <1>1, <2>1 DEF WithinBudgets, Awaiting, Layer, Attempts
  <2> QED BY <2>2, <2>3 DEF ChaosInv
<1> QED BY <1>3, <1>4, <1>5, <1>6, <1>7, <1>8, <1>9, <1>10, <1>11, <1>12, <1>13, <1>14 DEF ChaosNext

LEMMA ChaosInvMeans == ChaosInv => SignalBoundsTheCall
<1>1. Budget * Attempts = Attempts
  BY AttemptsAtLeastOne DEF Budget
<1> QED BY <1>1 DEF ChaosInv, WithinBudgets, SignalBoundsTheCall

\* Behind an open breaker, only a call that is about to be sent can end.
LEMMA ChaosStepSilent ==
  ASSUME ChaosInv, [ChaosNext]_chaosVars,
         policy = "breaker", policy' = policy, failures >= BreakerThreshold
  PROVE  requests' = requests /\ outcome' \in {outcome, "breaker-open"}
<1>1. failures \in Nat /\ ~Awaiting /\ step # "idle"
  BY DEF ChaosInv, ChaosTyped, ClosedWhenAsked, BetweenSeries, BreakerThreshold
<1>2. Open
  BY DEF Open
<1>3. ~(HeadersArrive \/ BodyArrives \/ BudgetFires \/ DeadlinePasses \/ Wait)
  BY <1>1 DEF HeadersArrive, BodyArrives, BudgetFires, DeadlinePasses, Wait, Awaiting
<1>4. ~(StartSeries \/ Send)
  BY <1>1, <1>2 DEF StartSeries, Send
<1>5. ~EndSeries
  BY DEF EndSeries
<1>6. CASE PickColumn
  BY <1>6 DEF PickColumn
<1>7. CASE StartCall
  BY <1>7 DEF StartCall
<1>8. CASE Decline
  BY <1>8 DEF Decline
<1>9. CASE UNCHANGED chaosVars
  BY <1>9 DEF chaosVars
<1> QED BY <1>3, <1>4, <1>5, <1>6, <1>7, <1>8, <1>9 DEF ChaosNext

-----------------------------------------------------------------------------
(* Savepoints for transactions.  Under the counter lie PostgreSQL's, and   *)
(* the two part ways: ROLLBACK TO keeps its savepoint while the counter    *)
(* goes down, so names above the counter stay behind and are later made    *)
(* again.  What holds is that names never fall from one savepoint to the   *)
(* next, that none is more than one above the counter, and that the last   *)
(* savepoint of every name up to the counter has the state the subject     *)
(* would go back to.                                                       *)
Save == [name : Nat, view : Contents]

\* The last savepoint of that name is the i-th.
LastOf(saves, k, i) ==
  /\ i \in 1..Len(saves) /\ saves[i].name = k
  /\ \A j \in 1..Len(saves) : saves[j].name = k => j <= i

\* Savepoints, the counter, and what the subject's open transactions go back to.
Counted(saves, d, views) ==
  /\ saves \in Seq(Save) /\ views \in Seq(Contents)
  /\ d \in Nat /\ d = Len(views)

Rising(saves) == \A i, j \in 1..Len(saves) : i < j => saves[i].name <= saves[j].name

NoneAbove(saves, d) == \A i \in 1..Len(saves) : saves[i].name <= d + 1

Restores(saves, views, k) ==
  \E i \in 1..Len(saves) : LastOf(saves, k, i) /\ saves[i].view = views[k]

Stacked(saves, d, views) ==
  /\ Counted(saves, d, views) /\ Rising(saves) /\ NoneAbove(saves, d)
  /\ \A k \in 1..d : Restores(saves, views, k)

\* A connection has these fields and no other, and without a transaction it has
\* nothing of its own.
IsLink(c) == c = [tx |-> c.tx, view |-> c.view, saves |-> c.saves, db |-> c.db]

Wired(c) ==
  /\ IsLink(c) /\ c.tx \in {"idle", "open", "aborted"}
  /\ c.view \in Contents /\ c.saves \in Seq(Save) /\ c.db \in Contents
  /\ c.tx = "idle" => c = Connected(c.db)

HarnessOwns ==
  /\ Wired(link) /\ depth \in Nat
  /\ running \in BOOLEAN /\ astray \in BOOLEAN /\ bypassed \in BOOLEAN
  /\ ~running => link.tx = "idle"
  /\ running /\ ~astray => link.tx # "idle"
  /\ ~bypassed => TransactionIsOurs

SubjectNests ==
  running /\ ~astray =>
    /\ Stacked(link.saves, depth, nested)
    /\ believed \in Contents
    /\ link.tx = "open" => link.view = believed
    /\ link.tx = "aborted" => depth > 0

RewritingInv == HarnessOwns /\ SubjectNests

\* A set of positions has a last one.
LEMMA GreatestExists ==
  ASSUME NEW n \in Nat, NEW S \in SUBSET (1..n), S # {}
  PROVE  \E i \in S : \A j \in S : j <= i
<1>. DEFINE Behind == {n - i : i \in S}
<1>1. Behind \in SUBSET Nat /\ Behind # {}
  <2>1. \A i \in S : n - i \in Nat
    OBVIOUS
  <2>2. PICK i \in S : TRUE
    OBVIOUS
  <2>3. n - i \in Behind
    BY <2>2
  <2>. QED
    BY <2>1, <2>3
<1>2. PICK m \in Behind : \A k \in Behind : m <= k
  BY <1>1, LeastExists
<1>3. PICK i \in S : m = n - i
  BY <1>2
<1>4. ASSUME NEW j \in S PROVE j <= i
  <2>1. m <= n - j
    BY <1>2
  <2>. QED
    BY <1>3, <2>1
<1>. QED
  BY <1>4

\* So the innermost savepoint of a name is one of them.
LEMMA InnermostIsNamed ==
  ASSUME NEW c, NEW k, c.saves \in Seq(Save), Named(c, k) # {}
  PROVE  /\ Innermost(c, k) \in 1..Len(c.saves)
         /\ c.saves[Innermost(c, k)] \in Save
<1>1. Named(c, k) \in SUBSET (1..Len(c.saves)) /\ Len(c.saves) \in Nat
  BY DEF Named
<1>2. \E i \in Named(c, k) : \A j \in Named(c, k) : j <= i
  BY <1>1, GreatestExists
<1>3. Innermost(c, k) \in Named(c, k)
  BY <1>2 DEF Innermost
<1>. QED
  BY <1>1, <1>3

\* The part of a sequence up to a position, or to just before it.
LEMMA SavesCut ==
  ASSUME NEW saves \in Seq(Save), NEW i \in 1..Len(saves), NEW n \in {i - 1, i}
  PROVE  SubSeq(saves, 1, n) \in Seq(Save)
OBVIOUS

\* Whatever PostgreSQL is told in a transaction, it answers with a connection.
LEMMA SavepointWired ==
  ASSUME NEW c, Wired(c), NEW k \in Nat,
         NEW a \in {PgSavepoint(c, k), PgRelease(c, k), PgRollbackTo(c, k)}
  PROVE  Wired(a.c) /\ a.c.db = c.db /\ (c.tx # "idle" => a.c.tx # "idle")
<1>1. IsLink(c) /\ c.view \in Contents /\ c.saves \in Seq(Save) /\ c.db \in Contents
  BY DEF Wired
<1>2. CASE a = PgSavepoint(c, k)
  <2>1. CASE c.tx = "open"
    <3>1. a.c = [tx |-> "open", view |-> c.view, db |-> c.db,
                 saves |-> Append(c.saves, [name |-> k, view |-> c.view])]
      BY <1>1, <1>2, <2>1 DEF PgSavepoint, Answers, IsLink
    <3>2. [name |-> k, view |-> c.view] \in Save
      BY <1>1 DEF Save
    <3>. QED
      BY <1>1, <2>1, <3>1, <3>2 DEF Wired, IsLink
  <2>2. CASE c.tx # "open"
    BY <1>1, <1>2, <2>2 DEF PgSavepoint, Answers, Refuse, Wired, IsLink
  <2>. QED
    BY <2>1, <2>2
<1>3. CASE a = PgRelease(c, k)
  <2>1. CASE c.tx = "open" /\ Named(c, k) # {}
    <3>1. a.c = [tx |-> "open", view |-> c.view, db |-> c.db,
                 saves |-> SubSeq(c.saves, 1, Innermost(c, k) - 1)]
      BY <1>1, <1>3, <2>1 DEF PgRelease, Answers, IsLink
    <3>2. SubSeq(c.saves, 1, Innermost(c, k) - 1) \in Seq(Save)
      BY <1>1, <2>1, InnermostIsNamed, SavesCut
    <3>. QED
      BY <1>1, <2>1, <3>1, <3>2 DEF Wired, IsLink
  <2>2. CASE ~(c.tx = "open" /\ Named(c, k) # {})
    BY <1>1, <1>3, <2>2 DEF PgRelease, Answers, Refuse, Wired, IsLink
  <2>. QED
    BY <2>1, <2>2
<1>4. CASE a = PgRollbackTo(c, k)
  <2>1. CASE c.tx # "idle" /\ Named(c, k) # {}
    <3>1. a.c = [tx |-> "open", view |-> c.saves[Innermost(c, k)].view, db |-> c.db,
                 saves |-> SubSeq(c.saves, 1, Innermost(c, k))]
      BY <1>1, <1>4, <2>1 DEF PgRollbackTo, Answers, IsLink
    <3>2. /\ SubSeq(c.saves, 1, Innermost(c, k)) \in Seq(Save)
          /\ c.saves[Innermost(c, k)].view \in Contents
      BY <1>1, <2>1, InnermostIsNamed, SavesCut DEF Save
    <3>. QED
      BY <1>1, <2>1, <3>1, <3>2 DEF Wired, IsLink
  <2>2. CASE ~(c.tx # "idle" /\ Named(c, k) # {})
    BY <1>1, <1>4, <2>2 DEF PgRollbackTo, Answers, Refuse, Wired, IsLink
  <2>. QED
    BY <2>1, <2>2
<1>. QED
  BY <1>2, <1>3, <1>4

\* What the rewriting sends neither opens the harness's transaction nor ends it.
LEMMA RewritingStays ==
  ASSUME NEW c, Wired(c), NEW d \in Nat,
         NEW reply \in {RewriteBegin(c, d), RewriteCommit(c, d), RewriteRollback(c, d)}
  PROVE  /\ Wired(reply.c) /\ reply.c.db = c.db /\ reply.depth \in Nat
         /\ c.tx # "idle" => reply.c.tx # "idle"
<1>1. CASE reply = RewriteBegin(c, d)
  <2>1. reply.c = PgSavepoint(c, d + 1).c /\ reply.depth = d + 1
    BY <1>1 DEF RewriteBegin, Through
  <2>2. d + 1 \in Nat
    OBVIOUS
  <2>3. Wired(PgSavepoint(c, d + 1).c) /\ PgSavepoint(c, d + 1).c.db = c.db
        /\ (c.tx # "idle" => PgSavepoint(c, d + 1).c.tx # "idle")
    BY <2>2, SavepointWired
  <2>. QED
    BY <2>1, <2>2, <2>3
<1>2. CASE d = 0 /\ reply # RewriteBegin(c, d)
  BY <1>2 DEF RewriteCommit, RewriteRollback, Outside
<1>3. CASE d # 0 /\ reply = RewriteCommit(c, d)
  <2>1. reply.c = PgRelease(c, d).c /\ reply.depth = d - 1
    BY <1>3 DEF RewriteCommit, Through
  <2>. QED
    <3>1. Wired(PgRelease(c, d).c) /\ PgRelease(c, d).c.db = c.db
          /\ (c.tx # "idle" => PgRelease(c, d).c.tx # "idle")
      BY SavepointWired
    <3>. QED
      BY <1>3, <2>1, <3>1
<1>4. CASE d # 0 /\ reply = RewriteRollback(c, d)
  <2>1. reply.c = PgRollbackTo(c, d).c /\ reply.depth = d - 1
    BY <1>4 DEF RewriteRollback, Through
  <2>. QED
    <3>1. Wired(PgRollbackTo(c, d).c) /\ PgRollbackTo(c, d).c.db = c.db
          /\ (c.tx # "idle" => PgRollbackTo(c, d).c.tx # "idle")
      BY SavepointWired
    <3>. QED
      BY <1>4, <2>1, <3>1
<1>. QED
  BY <1>1, <1>2, <1>3, <1>4

\* A statement of the three leaves the transaction whose it was.
LEMMA ReadStatement ==
  ASSUME HarnessOwns, UNCHANGED bypassed, astray' \in BOOLEAN, astray => astray',
         NEW reply \in {RewriteBegin(link, depth), RewriteCommit(link, depth),
                        RewriteRollback(link, depth)},
         Sends(reply)
  PROVE  HarnessOwns'
<1>1. /\ Wired(link') /\ link'.db = link.db /\ depth' \in Nat /\ running /\ running'
      /\ link.tx # "idle" => link'.tx # "idle"
  BY RewritingStays DEF HarnessOwns, Sends
<1>. QED
  BY <1>1 DEF HarnessOwns, TransactionIsOurs

\* Innermost is what LastOf says it is.
LEMMA InnermostIsLast ==
  ASSUME NEW c, NEW k, NEW i, c.saves \in Seq(Save), LastOf(c.saves, k, i)
  PROVE  Named(c, k) # {} /\ Innermost(c, k) = i
<1>1. i \in Named(c, k) /\ \A j \in Named(c, k) : j <= i
  BY DEF Named, LastOf
<1>2. Named(c, k) \subseteq Nat /\ i \in Nat
  BY DEF Named, LastOf
<1>3. \A n \in Named(c, k) : (\A j \in Named(c, k) : j <= n) => n = i
  BY <1>1, <1>2
<1>. QED
  BY <1>1, <1>3 DEF Innermost

\* Every savepoint has a name.
LEMMA SaveNames ==
  ASSUME NEW saves \in Seq(Save)
  PROVE  Len(saves) \in Nat /\ \A i \in 1..Len(saves) : saves[i] \in Save /\ saves[i].name \in Nat
<1>1. \A i \in 1..Len(saves) : saves[i] \in Save
  OBVIOUS
<1>. QED
  BY <1>1 DEF Save

\* A savepoint more is a level more.
LEMMA StackPushed ==
  ASSUME NEW saves, NEW d, NEW views, Stacked(saves, d, views), NEW v \in Contents
  PROVE  Stacked(Append(saves, [name |-> d + 1, view |-> v]), d + 1, Append(views, v))
<1>. DEFINE top == [name |-> d + 1, view |-> v]
            more == Append(saves, top)
            deeper == Append(views, v)
<1>1. /\ saves \in Seq(Save) /\ views \in Seq(Contents) /\ d \in Nat /\ d = Len(views)
      /\ top \in Save /\ top.name = d + 1 /\ top.view = v
  BY DEF Stacked, Counted, Save
<1>. HIDE DEF top
<1>2. /\ more \in Seq(Save) /\ Len(more) = Len(saves) + 1 /\ Len(saves) \in Nat
      /\ \A i \in 1..Len(saves) : more[i] = saves[i]
      /\ more[Len(saves) + 1] = top
  BY <1>1
<1>3. /\ deeper \in Seq(Contents) /\ Len(deeper) = d + 1
      /\ \A k \in 1..d : deeper[k] = views[k]
      /\ deeper[d + 1] = v
  BY <1>1
<1>4. \A i \in 1..Len(saves) : saves[i].name \in Nat /\ saves[i].name <= d + 1
  BY <1>1, SaveNames DEF Stacked, NoneAbove
<1>. HIDE DEF more, deeper
<1>5. Counted(more, d + 1, deeper)
  BY <1>1, <1>2, <1>3 DEF Counted
<1>6. NoneAbove(more, d + 1)
  BY <1>1, <1>2, <1>4 DEF NoneAbove
<1>7. Rising(more)
  <2>. SUFFICES ASSUME NEW i \in 1..Len(more), NEW j \in 1..Len(more), i < j
                PROVE  more[i].name <= more[j].name
    BY DEF Rising
  <2>1. i \in 1..Len(saves) /\ more[i] = saves[i]
    BY <1>2
  <2>2. CASE j \in 1..Len(saves)
    BY <1>2, <2>1, <2>2 DEF Stacked, Rising
  <2>3. CASE j = Len(saves) + 1
    BY <1>1, <1>2, <1>4, <2>1, <2>3
  <2>. QED
    BY <1>2, <2>2, <2>3
<1>8. ASSUME NEW k \in 1..d + 1 PROVE Restores(more, deeper, k)
  <2>1. CASE k = d + 1
    BY <1>1, <1>2, <1>3, <2>1 DEF Restores, LastOf
  <2>2. CASE k \in 1..d
    <3>1. PICK i \in 1..Len(saves) : LastOf(saves, k, i) /\ saves[i].view = views[k]
      BY <2>2 DEF Stacked, Restores
    <3>2. i \in 1..Len(more) /\ more[i].name = k /\ more[i].view = deeper[k]
      BY <1>2, <1>3, <2>2, <3>1 DEF LastOf
    <3>3. ASSUME NEW j \in 1..Len(more), more[j].name = k PROVE j <= i
      <4>1. j # Len(saves) + 1
        BY <1>1, <1>2, <2>2, <3>3
      <4>2. j \in 1..Len(saves) /\ saves[j].name = k
        BY <1>2, <3>3, <4>1
      <4>. QED
        BY <3>1, <4>2 DEF LastOf
    <3>. QED
      BY <3>2, <3>3 DEF Restores, LastOf
  <2>. QED
    BY <1>1, <2>1, <2>2
<1>9. Stacked(more, d + 1, deeper)
  BY <1>5, <1>6, <1>7, <1>8 DEF Stacked
<1>. QED
  BY <1>9 DEF more, deeper, top

\* Cut behind the last savepoint of the counter's name, or in front of it, and
\* one level less is stacked.
LEMMA StackCut ==
  ASSUME NEW saves, NEW d, NEW views, Stacked(saves, d, views), d > 0,
         NEW i, LastOf(saves, d, i), NEW n \in {i - 1, i}
  PROVE  Stacked(SubSeq(saves, 1, n), d - 1, SubSeq(views, 1, Len(views) - 1))
<1>. DEFINE fewer == SubSeq(saves, 1, n)
            upper == SubSeq(views, 1, Len(views) - 1)
<1>1. /\ saves \in Seq(Save) /\ views \in Seq(Contents) /\ d \in Nat /\ Len(views) = d
      /\ d - 1 \in Nat
  BY DEF Stacked, Counted
<1>2. /\ Len(saves) \in Nat /\ i \in 1..Len(saves) /\ n \in 0..Len(saves) /\ n <= i
      /\ saves[i].name = d
  BY <1>1, SaveNames DEF LastOf
<1>3. /\ fewer \in Seq(Save) /\ Len(fewer) = n
      /\ \A m \in 1..n : fewer[m] = saves[m]
  BY <1>1, <1>2
<1>4. /\ upper \in Seq(Contents) /\ Len(upper) = d - 1
      /\ \A k \in 1..d - 1 : upper[k] = views[k]
  BY <1>1
<1>5. \A m \in 1..Len(saves) : saves[m].name \in Nat
  BY <1>1, SaveNames
<1>6. \A l, m \in 1..Len(saves) : l < m => saves[l].name <= saves[m].name
  BY DEF Stacked, Rising
<1>7. \A m \in 1..n : m \in 1..Len(saves) /\ saves[m].name <= d
  BY <1>2, <1>5, <1>6
<1>. HIDE DEF fewer, upper
<1>8. Counted(fewer, d - 1, upper)
  BY <1>1, <1>3, <1>4 DEF Counted
<1>9. NoneAbove(fewer, d - 1)
  <2>1. d - 1 + 1 = d
    BY <1>1
  <2>. QED
    BY <1>3, <1>7, <2>1 DEF NoneAbove
<1>10. Rising(fewer)
  BY <1>3, <1>6, <1>7 DEF Rising
<1>11. ASSUME NEW k \in 1..d - 1 PROVE Restores(fewer, upper, k)
  <2>0. k \in 1..d
    BY <1>1
  <2>1. PICK m \in 1..Len(saves) : LastOf(saves, k, m) /\ saves[m].view = views[k]
    BY <2>0 DEF Stacked, Restores
  <2>2. saves[m].name = k /\ k < d
    BY <1>1, <2>1 DEF LastOf
  <2>3. m < i
    BY <1>1, <1>2, <1>6, <2>2
  <2>4. m \in 1..n
    BY <1>2, <2>3
  <2>5. \A j \in 1..n : fewer[j].name = k => j <= m
    BY <1>3, <1>7, <2>1 DEF LastOf
  <2>. QED
    BY <1>3, <1>4, <2>1, <2>2, <2>4, <2>5 DEF Restores, LastOf
<1>12. Stacked(fewer, d - 1, upper)
  BY <1>8, <1>9, <1>10, <1>11 DEF Stacked
<1>. QED
  BY <1>12 DEF fewer, upper

\* A connection without a transaction is where the first test finds it.
LEMMA RewriteInitInv == RewriteInit => RewritingInv
<1>. SUFFICES ASSUME RewriteInit PROVE RewritingInv
  OBVIOUS
<1>1. Wired(Connected(Seeded)) /\ Connected(Seeded).db = Seeded /\ Connected(Seeded).tx = "idle"
  BY SeededAssumption DEF Connected, Wired, IsLink
<1>. QED
  BY <1>1 DEF RewriteInit, RewritingInv, HarnessOwns, TransactionIsOurs, SubjectNests

\* One step for every kind of statement, and the ends of the test.
LEMMA RewriteNextInv == RewritingInv /\ [RewriteNext]_rewriteVars => RewritingInv'
<1>. SUFFICES ASSUME RewritingInv, [RewriteNext]_rewriteVars PROVE RewritingInv'
  OBVIOUS
<1>0. HarnessOwns /\ SubjectNests
  BY DEF RewritingInv
<1>1. CASE BeginWrapped
  <2>1. link = Connected(link.db) /\ link.db \in Contents /\ (~bypassed => link.db = Seeded)
    BY <1>0, <1>1 DEF BeginWrapped, HarnessOwns, Wired, TransactionIsOurs
  <2>2. link' = [tx |-> "open", view |-> link.db, saves |-> <<>>, db |-> link.db]
        /\ believed' = link.db
    BY <1>1, <2>1 DEF BeginWrapped, PgBegin, Connected, Answers
  <2>3. Wired(link') /\ link'.tx = "open" /\ link'.db = link.db
    BY <2>1, <2>2 DEF Wired, IsLink
  <2>4. HarnessOwns'
    BY <1>0, <1>1, <2>1, <2>3 DEF BeginWrapped, HarnessOwns, TransactionIsOurs
  <2>5. Stacked(<<>>, 0, <<>>)
    BY DEF Stacked, Counted, Rising, NoneAbove
  <2>. QED
    BY <1>1, <2>1, <2>2, <2>4, <2>5 DEF BeginWrapped, RewritingInv, SubjectNests
<1>9. ASSUME running, ~astray
      PROVE  /\ IsLink(link) /\ link.tx \in {"open", "aborted"}
             /\ Stacked(link.saves, depth, nested) /\ believed \in Contents
             /\ link.tx = "open" => link.view = believed
  BY <1>0, <1>9 DEF HarnessOwns, Wired, SubjectNests
<1>10. running \in BOOLEAN /\ astray \in BOOLEAN
  BY <1>0 DEF HarnessOwns
<1>2. CASE SendBegin
  <2>1. HarnessOwns'
    BY <1>0, <1>2, ReadStatement DEF SendBegin, Aborted, HarnessOwns
  <2>2. ASSUME ~astray' PROVE SubjectNests'
    <3>1. running /\ ~astray /\ link.tx = "open"
      BY <1>2, <1>9, <1>10, <2>2 DEF SendBegin, Sends, Aborted
    <3>2. /\ link'.tx = "open" /\ link'.view = link.view
          /\ link'.saves = Append(link.saves, [name |-> depth + 1, view |-> link.view])
          /\ depth' = depth + 1
      BY <1>2, <1>9, <3>1 DEF SendBegin, Sends, RewriteBegin, Through, PgSavepoint, Answers, IsLink
    <3>3. Stacked(link.saves, depth, nested) /\ link.view = believed /\ believed \in Contents
      BY <1>9, <3>1
    <3>. QED
      BY <1>2, <3>2, <3>3, StackPushed DEF SendBegin, SubjectNests
  <2>. QED
    BY <2>1, <2>2 DEF SubjectNests, RewritingInv
<1>3. CASE SendCommit
  <2>1. HarnessOwns'
    BY <1>0, <1>3, ReadStatement DEF SendCommit, Aborted, HarnessOwns
  <2>2. ASSUME ~astray' PROVE SubjectNests'
    <3>1. running /\ ~astray /\ link.tx = "open"
      BY <1>3, <1>9, <1>10, <2>2 DEF SendCommit, Sends, Aborted
    <3>2. Stacked(link.saves, depth, nested) /\ link.view = believed /\ believed \in Contents
      BY <1>9, <3>1
    <3>3. CASE depth = 0
      <4>1. link' = link /\ depth' = depth
        BY <1>3, <3>3 DEF SendCommit, Sends, RewriteCommit, Outside
      <4>2. nested = <<>> /\ nested' = <<>>
        <5>1. nested \in Seq(Contents) /\ Len(nested) = 0
          BY <3>2, <3>3 DEF Stacked, Counted
        <5>2. nested = <<>>
          BY <5>1
        <5>. QED
          BY <1>3, <5>2 DEF SendCommit
      <4>. QED
        BY <1>3, <3>1, <3>2, <4>1, <4>2 DEF SendCommit, SubjectNests
    <3>4. CASE depth # 0
      <4>1. PICK i : LastOf(link.saves, depth, i)
        BY <3>2, <3>4 DEF Stacked, Counted, Restores
      <4>2. Named(link, depth) # {} /\ Innermost(link, depth) = i
        BY <3>2, <4>1, InnermostIsLast DEF Stacked, Counted
      <4>3. /\ link'.tx = "open" /\ link'.view = link.view
            /\ link'.saves = SubSeq(link.saves, 1, i - 1) /\ depth' = depth - 1
        BY <1>3, <1>9, <3>1, <3>4, <4>2
           DEF SendCommit, Sends, RewriteCommit, Through, PgRelease, Answers, IsLink
      <4>4. nested' = SubSeq(nested, 1, Len(nested) - 1)
        BY <1>3, <3>2, <3>4 DEF SendCommit, Stacked, Counted
      <4>5. Stacked(link'.saves, depth', nested')
        <5>1. depth > 0
          BY <3>2, <3>4 DEF Stacked, Counted
        <5>. QED
          BY <3>2, <4>1, <4>3, <4>4, <5>1, StackCut
      <4>. QED
        BY <1>3, <3>2, <4>3, <4>5 DEF SendCommit, SubjectNests
    <3>. QED
      BY <3>3, <3>4
  <2>. QED
    BY <2>1, <2>2 DEF SubjectNests, RewritingInv
<1>4. CASE SendRollback
  <2>1. HarnessOwns'
    BY <1>0, <1>4, ReadStatement DEF SendRollback, HarnessOwns
  <2>2. ASSUME ~astray' PROVE SubjectNests'
    <3>1. running /\ ~astray
      BY <1>4, <1>10, <2>2 DEF SendRollback, Sends
    <3>2. Stacked(link.saves, depth, nested) /\ believed \in Contents
      BY <1>9, <3>1
    <3>3. CASE depth = 0
      <4>1. link' = link /\ depth' = depth
        BY <1>4, <3>3 DEF SendRollback, Sends, RewriteRollback, Outside
      <4>2. nested' = nested /\ believed' = believed
        <5>1. nested \in Seq(Contents) /\ Len(nested) = 0
          BY <3>2, <3>3 DEF Stacked, Counted
        <5>2. nested = <<>>
          BY <5>1
        <5>. QED
          BY <1>4, <5>2 DEF SendRollback
      <4>. QED
        BY <1>0, <3>1, <4>1, <4>2 DEF SubjectNests
    <3>4. CASE depth # 0
      <4>1. PICK i \in 1..Len(link.saves) :
              LastOf(link.saves, depth, i) /\ link.saves[i].view = nested[depth]
        BY <3>2, <3>4 DEF Stacked, Counted, Restores
      <4>2. Named(link, depth) # {} /\ Innermost(link, depth) = i
        BY <3>2, <4>1, InnermostIsLast DEF Stacked, Counted
      <4>3. /\ link'.tx = "open" /\ link'.view = nested[depth]
            /\ link'.saves = SubSeq(link.saves, 1, i) /\ depth' = depth - 1
        BY <1>4, <1>9, <3>1, <3>4, <4>1, <4>2
           DEF SendRollback, Sends, RewriteRollback, Through, PgRollbackTo, Answers, IsLink
      <4>4. /\ nested' = SubSeq(nested, 1, Len(nested) - 1)
            /\ believed' = nested[depth] /\ nested[depth] \in Contents
        BY <1>4, <3>2, <3>4 DEF SendRollback, Stacked, Counted
      <4>5. Stacked(link'.saves, depth', nested')
        <5>1. depth > 0
          BY <3>2, <3>4 DEF Stacked, Counted
        <5>. QED
          BY <3>2, <4>1, <4>3, <4>4, <5>1, StackCut
      <4>. QED
        BY <4>3, <4>4, <4>5 DEF SubjectNests
    <3>. QED
      BY <3>3, <3>4
  <2>. QED
    BY <2>1, <2>2 DEF SubjectNests, RewritingInv
<1>5. ASSUME NEW new \in Contents, NEW accepted \in BOOLEAN, SendWrite(new, accepted)
      PROVE  RewritingInv'
  <2>1. /\ Wired(link) /\ IsLink(link) /\ running
        /\ link' = PgWrite(link, new, accepted, TRUE).c /\ depth' = depth /\ running'
    BY <1>0, <1>5 DEF HarnessOwns, Wired, SendWrite, Sends, Through
  <2>2. CASE link.tx = "idle"
    <3>1. Wired(link') /\ link'.tx = "idle"
      BY <2>1, <2>2 DEF PgWrite, Answers, Refuse, Connected, Wired, IsLink
    <3>2. bypassed /\ astray
      BY <1>0, <2>1, <2>2 DEF HarnessOwns, TransactionIsOurs
    <3>. QED
      BY <1>0, <1>5, <2>1, <3>1, <3>2 DEF SendWrite, HarnessOwns, SubjectNests, RewritingInv, Aborted
  <2>3. CASE link.tx # "idle"
    <3>1. /\ IsLink(link') /\ link'.db = link.db /\ link'.saves = link.saves
          /\ link.tx = "open" /\ accepted => link'.tx = "open" /\ link'.view = new
          /\ ~(link.tx = "open" /\ accepted) => link'.tx = "aborted" /\ link'.view = link.view
      BY <2>1, <2>3 DEF PgWrite, Answers, Refuse, IsLink
    <3>2. Wired(link') /\ link'.tx # "idle"
      BY <2>1, <3>1 DEF Wired
    <3>3. HarnessOwns'
      BY <1>0, <1>5, <2>1, <3>1, <3>2 DEF HarnessOwns, TransactionIsOurs, SendWrite, Aborted
    <3>4. ASSUME ~astray' PROVE SubjectNests'
      <4>1. ~astray /\ link.tx = "open" /\ (accepted \/ nested # <<>>)
        BY <1>5, <2>1, <2>3, <3>4 DEF SendWrite, Aborted, Wired
      <4>2. /\ Stacked(link.saves, depth, nested) /\ link.view = believed
            /\ believed \in Contents /\ nested' = nested
        BY <1>0, <1>5, <2>1, <4>1 DEF SubjectNests, SendWrite
      <4>3. ~accepted => depth > 0
        BY <4>1, <4>2 DEF Stacked, Counted
      <4>. QED
        BY <1>5, <2>1, <3>1, <4>1, <4>2, <4>3 DEF SendWrite, SubjectNests
    <3>. QED
      BY <3>3, <3>4 DEF SubjectNests, RewritingInv
  <2>. QED
    BY <2>2, <2>3
<1>6. ASSUME NEW word \in Unread, SendUnread(word) PROVE RewritingInv'
  <2>1. /\ Wired(link) /\ IsLink(link) /\ running /\ running' /\ depth' = depth
        /\ link' = Forwarded(link, word).c /\ astray' /\ bypassed' = (bypassed \/ word # "start")
        /\ astray' = TRUE /\ bypassed' \in BOOLEAN /\ word \in {"end", "abort", "start"}
    BY <1>0, <1>6 DEF HarnessOwns, Wired, SendUnread, Sends, Through, Unread
  <2>2. CASE word = "start"
    <3>1. link' = PgBegin(link).c
      BY <2>1, <2>2 DEF Forwarded
    <3>2. Wired(link') /\ link'.db = link.db /\ (link.tx # "idle" => link'.tx # "idle")
      <4>1. CASE link.tx = "idle"
        <5>1. link' = [tx |-> "open", view |-> link.db, saves |-> <<>>, db |-> link.db]
          BY <2>1, <3>1, <4>1 DEF PgBegin, Answers, Connected, Wired
        <5>. QED
          BY <2>1, <4>1, <5>1 DEF Wired, IsLink
      <4>2. CASE link.tx = "open"
        BY <2>1, <3>1, <4>2 DEF PgBegin, Answers
      <4>3. CASE link.tx = "aborted"
        BY <2>1, <3>1, <4>3 DEF PgBegin, Answers, Refuse, Wired, IsLink
      <4>. QED
        BY <2>1, <4>1, <4>2, <4>3 DEF Wired
    <3>. QED
      BY <1>0, <2>1, <2>2, <3>2 DEF HarnessOwns, TransactionIsOurs, SubjectNests, RewritingInv
  <2>3. CASE word # "start"
    <3>1. Forwarded(link, word) = IF word = "end" THEN PgCommit(link, TRUE) ELSE PgRollback(link)
      BY <2>1, <2>3 DEF Forwarded
    <3>2. \E db \in Contents : link' = Connected(db)
      BY <2>1, <3>1 DEF PgCommit, PgRollback, Answers, Wired
    <3>3. Wired(link')
      BY <3>2 DEF Wired, IsLink, Connected
    <3>. QED
      BY <2>1, <2>3, <3>3 DEF HarnessOwns, SubjectNests, RewritingInv
  <2>. QED
    BY <2>2, <2>3
<1>7. CASE EndWrapped
  <2>1. link' = Connected(link.db) /\ running' = FALSE /\ UNCHANGED <<depth, astray, bypassed>>
    BY <1>0, <1>7 DEF EndWrapped, PgRollback, Answers
  <2>2. Wired(link') /\ link'.tx = "idle" /\ link'.db = link.db
    BY <1>0, <2>1 DEF HarnessOwns, Wired, IsLink, Connected
  <2>. QED
    <3>1. HarnessOwns'
      BY <1>0, <2>1, <2>2 DEF HarnessOwns, TransactionIsOurs
    <3>. QED
      BY <2>1, <3>1 DEF SubjectNests, RewritingInv
<1>8. CASE UNCHANGED rewriteVars
  BY <1>0, <1>8 DEF rewriteVars, RewritingInv, HarnessOwns, TransactionIsOurs, SubjectNests, Wired, IsLink
<1>. QED
  BY <1>1, <1>2, <1>3, <1>4, <1>5, <1>6, <1>7, <1>8 DEF RewriteNext

\* Both properties are parts of the invariant.
LEMMA RewritingInvMeans == RewritingInv => WrapperHolds /\ RewritingNests
BY DEF RewritingInv, HarnessOwns, SubjectNests, WrapperHolds, RewritingNests, Stacked, Counted

-----------------------------------------------------------------------------
(* The sets of ranges.                                                     *)
\* What membership in Seq says of the elements.
LEMMA ListLemma ==
  ASSUME NEW s \in Seq(Ranges)
  PROVE  /\ DOMAIN s = 1..Len(s) /\ Len(s) \in Nat
         /\ \A n \in DOMAIN s : s[n] \in Ranges
         /\ s # <<>> => /\ Len(s) \in DOMAIN s /\ 1 \in DOMAIN s /\ Head(s) = s[1]
                       /\ Head(s) \in Ranges /\ s[Len(s)] \in Ranges
OBVIOUS

LEMMA EmptyList ==
  /\ <<>> \in Seq(Ranges) /\ Canonical(<<>>)
  /\ \A t \in Times : ~Covers(<<>>, t)
BY DEF Canonical, Covers

\* Sorting keeps the points and drops the empty ranges.
LEMMA SortingLemma ==
  ASSUME NEW s \in Seq(Ranges), NEW q \in Sortings(s)
  PROVE  /\ q \in Seq(Ranges)
         /\ Sorted(q)
         /\ \A n \in DOMAIN q : ~IsEmpty(q[n])
         /\ \A t \in Times : Covers(q, t) <=> Covers(s, t)
<1> DEFINE N == NonEmpty(s)
<1>1. Cardinality(N) \in Nat
  <2>1. N \in SUBSET (1..Len(s)) BY DEF NonEmpty
  <2>2. IsFiniteSet(1..Len(s)) BY FS_Interval
  <2>3. IsFiniteSet(N) BY <2>1, <2>2, FS_Subset
  <2> QED BY <2>3, FS_CardinalityType
<1>2. PICK p \in Bijection(1..Cardinality(N), N) :
        /\ q = [n \in 1..Cardinality(N) |-> s[p[n]]]
        /\ Sorted(q)
  BY DEF Sortings
<1>3. /\ p \in [1..Cardinality(N) -> N]
      /\ \A x \in N : \E n \in 1..Cardinality(N) : p[n] = x
  BY <1>2 DEF Bijection, Injection, Surjection
<1>4. \A n \in 1..Cardinality(N) : p[n] \in DOMAIN s /\ ~IsEmpty(s[p[n]])
  BY <1>3 DEF NonEmpty
<1>5. q \in Seq(Ranges)
  <2>1. \A n \in 1..Cardinality(N) : s[p[n]] \in Ranges BY <1>4
  <2> QED BY <1>1, <1>2, <2>1
<1>6. DOMAIN q = 1..Cardinality(N) /\ \A n \in DOMAIN q : q[n] = s[p[n]]
  BY <1>2
<1>7. \A n \in DOMAIN q : ~IsEmpty(q[n])
  BY <1>4, <1>6
<1>8. \A t \in Times : Covers(q, t) <=> Covers(s, t)
  <2> SUFFICES ASSUME NEW t \in Times PROVE Covers(q, t) <=> Covers(s, t)
    OBVIOUS
  <2>1. Covers(q, t) => Covers(s, t)
    BY <1>4, <1>6 DEF Covers
  <2>2. ASSUME NEW x \in DOMAIN s, Inside(s[x], t) PROVE Covers(q, t)
    <3>1. s[x] \in Ranges OBVIOUS
    <3>2. x \in N
      BY <2>2, <3>1 DEF NonEmpty, IsEmpty, Inside, Ranges, Times
    <3>3. PICK n \in 1..Cardinality(N) : p[n] = x
      BY <1>3, <3>2
    <3> QED BY <1>6, <2>2, <3>3 DEF Covers
  <2> QED BY <2>1, <2>2 DEF Covers
<1> QED BY <1>2, <1>5, <1>7, <1>8

\* Concatenation covers what either part covers.
LEMMA ConcatLemma ==
  ASSUME NEW a \in Seq(Ranges), NEW b \in Seq(Ranges), NEW t \in Times
  PROVE  Covers(a \o b, t) <=> Covers(a, t) \/ Covers(b, t)
<1>1. /\ \A n \in DOMAIN a : n \in DOMAIN (a \o b) /\ (a \o b)[n] = a[n]
      /\ \A n \in DOMAIN b : n + Len(a) \in DOMAIN (a \o b) /\ (a \o b)[n + Len(a)] = b[n]
  OBVIOUS
<1>2. \A n \in DOMAIN (a \o b) :
        \/ n \in DOMAIN a /\ (a \o b)[n] = a[n]
        \/ n - Len(a) \in DOMAIN b /\ (a \o b)[n] = b[n - Len(a)]
  OBVIOUS
<1> QED BY <1>1, <1>2 DEF Covers

\* A range put behind a gap keeps the list canonical and adds its points.
LEMMA AppendLemma ==
  ASSUME NEW s \in Seq(Ranges), NEW r \in Ranges, Canonical(s), ~IsEmpty(r),
         s # <<>> => s[Len(s)].end < r.start
  PROVE  /\ Append(s, r) \in Seq(Ranges)
         /\ Canonical(Append(s, r))
         /\ \A t \in Times : Covers(Append(s, r), t) <=> Covers(s, t) \/ Inside(r, t)
<1> DEFINE u == Append(s, r)
<1>1. /\ u \in Seq(Ranges) /\ Len(u) = Len(s) + 1 /\ u[Len(u)] = r
      /\ \A n \in DOMAIN s : u[n] = s[n]
      /\ DOMAIN u = 1..Len(s) + 1 /\ DOMAIN s = 1..Len(s) /\ Len(s) \in Nat
  OBVIOUS
<1>2. \A n \in DOMAIN s : s[n] \in Ranges OBVIOUS
<1>3. \A n \in DOMAIN s : s[n].end < r.start
  <2> SUFFICES ASSUME NEW n \in DOMAIN s PROVE s[n].end < r.start OBVIOUS
  <2>1. CASE n = Len(s) BY <2>1, <1>1
  <2>2. CASE n # Len(s)
    <3>1. Len(s) \in DOMAIN s /\ n < Len(s) /\ s # <<>> BY <2>2, <1>1
    <3>2. s[n].end < s[Len(s)].start BY <3>1 DEF Canonical
    <3>3. s[Len(s)].start < s[Len(s)].end BY <1>2, <3>1 DEF Canonical, IsEmpty, Ranges, Times
    <3>4. s[Len(s)].end < r.start BY <3>1
    <3> QED BY <1>2, <3>1, <3>2, <3>3, <3>4 DEF Ranges, Times
  <2> QED BY <2>1, <2>2
<1>4. Canonical(u)
  <2>1. \A n \in DOMAIN u : ~IsEmpty(u[n])
    <3> SUFFICES ASSUME NEW n \in DOMAIN u PROVE ~IsEmpty(u[n]) OBVIOUS
    <3>1. n \in DOMAIN s \/ n = Len(u) BY <1>1
    <3> QED BY <1>1, <3>1 DEF Canonical
  <2>2. ASSUME NEW m \in DOMAIN u, NEW n \in DOMAIN u, m < n
        PROVE  u[m].end < u[n].start
    <3>1. m \in DOMAIN s BY <1>1, <2>2
    <3>2. n \in DOMAIN s \/ n = Len(u) BY <1>1
    <3> QED BY <1>1, <1>3, <2>2, <3>1, <3>2 DEF Canonical
  <2> QED BY <2>1, <2>2 DEF Canonical
<1>5. ASSUME NEW t \in Times PROVE Covers(u, t) <=> Covers(s, t) \/ Inside(r, t)
  BY <1>1 DEF Covers
<1> QED BY <1>1, <1>4, <1>5

\* Taking the head off takes its points off.
LEMMA TailLemma ==
  ASSUME NEW s \in Seq(Ranges), s # <<>>, Sorted(s), \A n \in DOMAIN s : ~IsEmpty(s[n])
  PROVE  /\ Tail(s) \in Seq(Ranges) /\ Sorted(Tail(s))
         /\ \A n \in DOMAIN Tail(s) : ~IsEmpty(Tail(s)[n])
         /\ Head(s) \in Ranges /\ ~IsEmpty(Head(s))
         /\ Tail(s) # <<>> => Head(s).start <= Head(Tail(s)).start
         /\ \A t \in Times : Covers(s, t) <=> Inside(Head(s), t) \/ Covers(Tail(s), t)
<1> DEFINE u == Tail(s)
<1>1. /\ u \in Seq(Ranges) /\ Head(s) = s[1] /\ Len(u) = Len(s) - 1
      /\ \A n \in DOMAIN u : n + 1 \in DOMAIN s /\ u[n] = s[n + 1]
      /\ \A n \in DOMAIN s : s[n] \in Ranges
      /\ 1 \in DOMAIN s
      /\ DOMAIN s = 1..Len(s) /\ DOMAIN u = 1..Len(s) - 1 /\ Len(s) \in Nat
  OBVIOUS
<1>2. Sorted(u)
  BY <1>1 DEF Sorted
<1>3. u # <<>> => Head(s).start <= Head(u).start
  <2> SUFFICES ASSUME u # <<>> PROVE Head(s).start <= Head(u).start OBVIOUS
  <2>1. 2 \in DOMAIN s /\ Head(u) = s[2] BY <1>1
  <2>2. Before(s[1], s[2]) BY <1>1, <2>1 DEF Sorted
  <2>3. s[1] \in Ranges /\ s[2] \in Ranges BY <1>1, <2>1
  <2> QED BY <1>1, <2>1, <2>2, <2>3 DEF Before, Ranges, Times
<1>4. ASSUME NEW t \in Times PROVE Covers(s, t) <=> Inside(Head(s), t) \/ Covers(u, t)
  <2>1. \A n \in DOMAIN s : n = 1 \/ (n - 1 \in DOMAIN u /\ s[n] = u[n - 1])
    BY <1>1
  <2> QED BY <1>1, <2>1 DEF Covers
<1>5. /\ \A n \in DOMAIN u : ~IsEmpty(u[n])
      /\ Head(s) \in Ranges /\ ~IsEmpty(Head(s))
  BY <1>1
<1> QED BY <1>1, <1>2, <1>3, <1>4, <1>5

\* Joining a range to the last one, which it touches, adds its points to it.
Joined(m, h) == [m EXCEPT ![Len(m)] = Interval(@.start, MaxOf(@.end, h.end))]

LEMMA JoinLemma ==
  ASSUME NEW m \in Seq(Ranges), m # <<>>, Canonical(m), NEW h \in Ranges, ~IsEmpty(h),
         m[Len(m)].start <= h.start, h.start <= m[Len(m)].end
  PROVE  /\ Joined(m, h) \in Seq(Ranges) /\ Joined(m, h) # <<>> /\ Len(Joined(m, h)) = Len(m)
         /\ Joined(m, h)[Len(m)].start = m[Len(m)].start
         /\ Canonical(Joined(m, h))
         /\ \A t \in Times : Covers(Joined(m, h), t) <=> Covers(m, t) \/ Inside(h, t)
<1> DEFINE u == Joined(m, h)
<1> DEFINE last == m[Len(m)]
<1> DEFINE joined == Interval(last.start, MaxOf(last.end, h.end))
<1>1. /\ DOMAIN m = 1..Len(m) /\ Len(m) \in Nat /\ Len(m) \in DOMAIN m
      /\ \A n \in DOMAIN m : m[n] \in Ranges
  OBVIOUS
<1>2. joined \in Ranges /\ ~IsEmpty(joined) /\ joined.start = last.start
  <2>1. ~IsEmpty(last) /\ last \in Ranges BY <1>1 DEF Canonical
  <2> QED BY <2>1 DEF Interval, MaxOf, IsEmpty, Ranges, Times
<1>3. /\ u \in Seq(Ranges) /\ Len(u) = Len(m) /\ DOMAIN u = DOMAIN m
      /\ u[Len(m)] = joined
      /\ \A n \in DOMAIN m : n # Len(m) => u[n] = m[n]
  BY <1>1, <1>2 DEF Joined
<1> HIDE DEF u
<1>4. Canonical(u)
  <2>1. \A n \in DOMAIN u : ~IsEmpty(u[n])
    BY <1>1, <1>2, <1>3 DEF Canonical
  <2>2. ASSUME NEW k \in DOMAIN u, NEW n \in DOMAIN u, k < n
        PROVE  u[k].end < u[n].start
    <3>1. u[k] = m[k] /\ u[n].start = m[n].start BY <1>1, <1>2, <1>3, <2>2
    <3> QED BY <1>3, <2>2, <3>1 DEF Canonical
  <2> QED BY <2>1, <2>2 DEF Canonical
<1>5. ASSUME NEW t \in Times PROVE Covers(u, t) <=> Covers(m, t) \/ Inside(h, t)
  <2>1. Inside(joined, t) <=> Inside(last, t) \/ Inside(h, t)
    <3>1. /\ last.start \in Int /\ last.end \in Int /\ h.start \in Int /\ h.end \in Int /\ t \in Int
          /\ last.start <= h.start /\ h.start <= last.end
          /\ joined.start = last.start
          /\ joined.end = IF last.end >= h.end THEN last.end ELSE h.end
      BY <1>1 DEF Interval, MaxOf, Ranges, Times
    <3> HIDE DEF joined, last
    <3> QED BY <3>1 DEF Inside
  <2> HIDE DEF joined
  <2> QED BY <1>1, <1>3, <2>1 DEF Covers
<1>6. u # <<>>
  BY <1>1, <1>3
<1>7. u[Len(m)].start = m[Len(m)].start
  BY <1>2, <1>3
<1> QED BY <1>3, <1>4, <1>5, <1>6, <1>7 DEF u

-----------------------------------------------------------------------------
MergeLoops == {"merging", "merging a", "merging b"}

\* What defaultNormalise is sorting and merging.
Unsorted == CASE doing = "merging" -> asked.a \o asked.b
              [] doing = "merging a" -> asked.a
              [] doing = "merging b" -> asked.b

\* s is the normal form of the operand it was computed from.
Normal(s, operand) == Canonical(s) /\ \A t \in Times : Covers(s, t) <=> Covers(operand, t)

AvailabilityTyped ==
  /\ asked \in Questions \union {NoCall}
  /\ doing \in {"idle", "done", "overlapping", "removing"} \union MergeLoops
  /\ unmerged \in Seq(Ranges) /\ merged \in Seq(Ranges) /\ result \in Seq(Ranges)
  /\ left \in Seq(Ranges) /\ right \in Seq(Ranges)
  /\ li \in Nat \ {0} /\ ri \in Nat \ {0} /\ cursor \in Times

\* Which loop an operation can be in, and what no loop before has touched.
InALoop ==
  /\ doing = "idle" <=> asked = NoCall
  /\ asked = NoCall => merged = <<>>
  /\ asked.op = "union" => doing \in {"merging", "done"}
  /\ doing = "merging" => asked.op = "union"
  /\ doing = "overlapping" => asked.op = "intersect"
  /\ doing = "removing" => asked.op = "subtract"
  /\ doing \in MergeLoops \union {"idle"} => result = <<>> /\ li = 1 /\ ri = 1

\* The merging loop: together, what is merged and what is left have the
\* points of the list, and what is left begins no earlier than the last range.
Merging ==
  doing \in MergeLoops =>
    /\ Sorted(unmerged) /\ \A n \in DOMAIN unmerged : ~IsEmpty(unmerged[n])
    /\ Canonical(merged)
    /\ merged # <<>> /\ unmerged # <<>> => merged[Len(merged)].start <= Head(unmerged).start
    /\ \A t \in Times : Covers(merged, t) \/ Covers(unmerged, t) <=> Covers(Unsorted, t)

Operands ==
  /\ doing \in {"merging b", "overlapping", "removing"} => Normal(left, asked.a)
  /\ doing \in {"overlapping", "removing"} => Normal(right, asked.b)

From(s, k, t) == \E n \in DOMAIN s : n >= k /\ Inside(s[n], t)
UpTo(s, k, t) == \E n \in DOMAIN s : n < k /\ Inside(s[n], t)

\* Two pointers: what is behind both is all that is missing, and begins after
\* a gap.
Overlapping ==
  doing = "overlapping" =>
    /\ Canonical(result)
    /\ result # <<>> /\ li <= Len(left) /\ ri <= Len(right) =>
         result[Len(result)].end < MaxOf(left[li].start, right[ri].start)
    /\ \A t \in Times : Covers(result, t) \/ (From(left, li, t) /\ From(right, ri, t))
                          <=> Covers(left, t) /\ Covers(right, t)

\* The cursor: what is before it is settled, and what was removed so far ends
\* at it or before.
Removing ==
  doing = "removing" =>
    /\ li <= Len(left) /\ left[li].start <= cursor
    /\ \A n \in DOMAIN right : n < ri => right[n].end <= cursor
    /\ Canonical(result)
    /\ result # <<>> => /\ result[Len(result)].end < cursor
                        /\ result[Len(result)].end <= left[li].end
    /\ \A t \in Times :
         Covers(result, t) <=> /\ ~Covers(right, t)
                               /\ UpTo(left, li, t) \/ (Inside(left[li], t) /\ t < cursor)

AvailabilityInv == AvailabilityTyped /\ InALoop /\ Merging /\ Operands /\ Overlapping /\ Removing /\ AnswersAreSets

-----------------------------------------------------------------------------
LEMMA AvailabilityInitInv == AvailabilityInit => AvailabilityInv
<1> SUFFICES ASSUME AvailabilityInit PROVE AvailabilityInv OBVIOUS
<1> USE DEF AvailabilityInit
<1>1. <<>> \in Seq(Ranges) OBVIOUS
<1>2. 0 \in Times BY HorizonAssumption DEF Times
<1>3. AvailabilityTyped BY <1>1, <1>2 DEF AvailabilityTyped
<1>4. InALoop BY DEF InALoop, NoCall, MergeLoops
<1>5. Merging /\ Operands /\ Overlapping /\ Removing /\ AnswersAreSets
  BY DEF Merging, Operands, Overlapping, Removing, AnswersAreSets, MergeLoops
<1> QED BY <1>3, <1>4, <1>5 DEF AvailabilityInv

\* A question that was asked has operands.
LEMMA AskedType ==
  ASSUME AvailabilityTyped, asked # NoCall
  PROVE  /\ asked.op \in Operations /\ asked.a \in Seq(Ranges) /\ asked.b \in Seq(Ranges)
         /\ asked.a \o asked.b \in Seq(Ranges)
<1>1. asked \in [op : Operations, a : Seq(Ranges), b : Seq(Ranges)]
  BY QuestionAssumption DEF AvailabilityTyped
<1>2. /\ asked.op \in Operations /\ asked.a \in Seq(Ranges) /\ asked.b \in Seq(Ranges)
  BY <1>1
<1> QED BY <1>2

LEMMA AskStep == ASSUME AvailabilityInv, Ask PROVE AvailabilityInv'
<1>0. asked = NoCall /\ doing = "idle" /\ asked' \in Questions /\ asked'.op \in Operations
  BY QuestionAssumption DEF AvailabilityInv, InALoop, AvailabilityIdle, Ask
<1>1. asked' # NoCall
  <2>1. NoCall.op = "none" /\ "none" \notin Operations BY DEF NoCall, Operations
  <2> QED BY <1>0, <2>1
<1> DEFINE operand == IF asked'.op = "union" THEN asked'.a \o asked'.b ELSE asked'.a
<1>2. operand \in Seq(Ranges)
  <2>1. asked' \in [op : Operations, a : Seq(Ranges), b : Seq(Ranges)]
    BY <1>0, QuestionAssumption
  <2>2. asked'.a \in Seq(Ranges) /\ asked'.b \in Seq(Ranges) BY <2>1
  <2>3. asked'.a \o asked'.b \in Seq(Ranges) BY <2>2
  <2> QED BY <2>2, <2>3
<1>3. unmerged' \in Sortings(operand) BY DEF Ask
<1>4. /\ unmerged' \in Seq(Ranges) /\ Sorted(unmerged')
      /\ \A n \in DOMAIN unmerged' : ~IsEmpty(unmerged'[n])
      /\ \A t \in Times : Covers(unmerged', t) <=> Covers(operand, t)
  BY <1>2, <1>3, SortingLemma
<1>5. operand = Unsorted' /\ doing' \in {"merging", "merging a"}
  BY DEF Unsorted, Ask
<1>6. merged' = <<>> /\ result' = <<>> /\ li' = 1 /\ ri' = 1
  BY <1>0 DEF AvailabilityInv, InALoop, MergeLoops, Ask
<1>7. AvailabilityTyped'
  BY <1>0, <1>4, <1>5 DEF AvailabilityInv, AvailabilityTyped, MergeLoops, Ask
<1>8. InALoop'
  BY <1>0, <1>1, <1>6 DEF InALoop, MergeLoops, Ask
<1> HIDE DEF operand
<1>9. Merging'
  <2>1. \A t \in Times : ~Covers(merged', t)
    BY <1>6, EmptyList
  <2>2. Canonical(merged')
    BY <1>6, EmptyList
  <2> QED BY <1>4, <1>5, <1>6, <2>1, <2>2 DEF Merging
<1>10. Operands' /\ Overlapping' /\ Removing' /\ AnswersAreSets'
  BY <1>5 DEF Operands, Overlapping, Removing, AnswersAreSets
<1> QED BY <1>7, <1>8, <1>9, <1>10 DEF AvailabilityInv

LEMMA MergeNextStep == ASSUME AvailabilityInv, MergeNext PROVE AvailabilityInv'
<1> DEFINE h == Head(unmerged)
<1>1. /\ unmerged \in Seq(Ranges) /\ unmerged # <<>> /\ Sorted(unmerged)
      /\ \A n \in DOMAIN unmerged : ~IsEmpty(unmerged[n])
      /\ merged \in Seq(Ranges) /\ Canonical(merged)
      /\ merged # <<>> => merged[Len(merged)].start <= h.start
      /\ \A t \in Times : Covers(merged, t) \/ Covers(unmerged, t) <=> Covers(Unsorted, t)
      /\ Unsorted' = Unsorted
  BY DEF AvailabilityInv, AvailabilityTyped, Merging, MergeLoops, Unsorted, MergeNext
<1>2. /\ Tail(unmerged) \in Seq(Ranges) /\ Sorted(Tail(unmerged))
      /\ \A n \in DOMAIN Tail(unmerged) : ~IsEmpty(Tail(unmerged)[n])
      /\ h \in Ranges /\ ~IsEmpty(h)
      /\ Tail(unmerged) # <<>> => h.start <= Head(Tail(unmerged)).start
      /\ \A t \in Times : Covers(unmerged, t) <=> Inside(h, t) \/ Covers(Tail(unmerged), t)
  BY <1>1, TailLemma
<1>3. merged # <<>> => merged[Len(merged)] \in Ranges
  BY <1>1, ListLemma
<1>4. /\ merged' \in Seq(Ranges) /\ merged' # <<>> /\ Canonical(merged')
      /\ \A t \in Times : Covers(merged', t) <=> Covers(merged, t) \/ Inside(h, t)
      /\ merged'[Len(merged')].start <= h.start
  <2>1. CASE merged # <<>> /\ Joins(merged[Len(merged)], h)
    <3>1. merged' = Joined(merged, h)
      BY <2>1 DEF MergeNext, Joined
    <3>2. h.start <= merged[Len(merged)].end
      BY <2>1 DEF Joins
    <3>0. merged # <<>> BY <2>1
    <3> HIDE DEF h
    <3>3. /\ merged' \in Seq(Ranges) /\ merged' # <<>> /\ Len(merged') = Len(merged)
          /\ merged'[Len(merged)].start = merged[Len(merged)].start
          /\ Canonical(merged')
          /\ \A t \in Times : Covers(merged', t) <=> Covers(merged, t) \/ Inside(h, t)
      BY <1>1, <1>2, <3>0, <3>1, <3>2, JoinLemma
    <3> QED BY <1>1, <3>0, <3>3
  <2>2. CASE ~(merged # <<>> /\ Joins(merged[Len(merged)], h))
    <3>1. merged' = Append(merged, h)
      BY <2>2 DEF MergeNext
    <3> HIDE DEF h
    <3>2. merged # <<>> => merged[Len(merged)].end < h.start
      BY <1>2, <1>3, <2>2 DEF Joins, Ranges, Times
    <3>3. /\ merged' \in Seq(Ranges) /\ Canonical(merged')
          /\ \A t \in Times : Covers(merged', t) <=> Covers(merged, t) \/ Inside(h, t)
      BY <1>1, <1>2, <3>1, <3>2, AppendLemma
    <3>4. merged' # <<>> /\ merged'[Len(merged')] = h
      BY <1>1, <3>1
    <3>5. h.start \in Int
      BY <1>2 DEF Ranges, Times
    <3>6. merged'[Len(merged')].start <= h.start
      BY ONLY <3>4, <3>5
    <3> QED BY ONLY <3>3, <3>4, <3>6
  <2> QED BY <2>1, <2>2
<1>5. doing' = doing /\ doing \in MergeLoops /\ unmerged' = Tail(unmerged)
  BY DEF MergeLoops, MergeNext
<1>6. AvailabilityTyped'
  BY <1>2, <1>4 DEF AvailabilityInv, AvailabilityTyped, MergeNext
<1>7. InALoop'
  <2>1. asked # NoCall BY <1>5 DEF AvailabilityInv, InALoop, MergeLoops
  <2> QED BY <2>1 DEF AvailabilityInv, InALoop, MergeNext
<1>8. Merging'
  <2>1. unmerged' # <<>> => merged'[Len(merged')].start <= Head(unmerged').start
    <3> SUFFICES ASSUME unmerged' # <<>>
                 PROVE  merged'[Len(merged')].start <= Head(unmerged').start
      OBVIOUS
    <3>1. Head(unmerged') \in Ranges /\ merged'[Len(merged')] \in Ranges
      BY <1>2, <1>4, <1>5, ListLemma
    <3>2. h.start <= Head(unmerged').start
      BY <1>2, <1>5
    <3> HIDE DEF h
    <3>3. \A r \in Ranges : r.start \in Int
      BY DEF Ranges, Times
    <3>4. h \in Ranges
      BY <1>2
    <3>5. h.start \in Int /\ Head(unmerged').start \in Int /\ merged'[Len(merged')].start \in Int
      BY ONLY <3>1, <3>3, <3>4, Zenon
    <3> QED BY <1>4, <3>2, <3>5
  <2> QED BY <1>1, <1>2, <1>4, <1>5, <2>1 DEF Merging
<1>9. Operands'
  BY <1>5 DEF AvailabilityInv, Operands, MergeLoops, MergeNext
<1>10. Overlapping' /\ Removing' /\ AnswersAreSets'
  BY <1>5 DEF Overlapping, Removing, AnswersAreSets, MergeLoops
<1> QED BY <1>6, <1>7, <1>8, <1>9, <1>10 DEF AvailabilityInv

\* When nothing is left to merge, what is merged is the normal form.
LEMMA Merged ==
  ASSUME AvailabilityInv, doing \in MergeLoops, unmerged = <<>>
  PROVE  merged \in Seq(Ranges) /\ Normal(merged, Unsorted)
<1>1. \A t \in Times : ~Covers(unmerged, t)
  BY DEF Covers
<1> QED BY <1>1 DEF AvailabilityInv, AvailabilityTyped, Merging, Normal

LEMMA MergedUnionStep == ASSUME AvailabilityInv, MergedUnion PROVE AvailabilityInv'
<1> USE DEF MergedUnion
<1>1. merged \in Seq(Ranges) /\ Normal(merged, Unsorted) /\ Unsorted = asked.a \o asked.b
  BY Merged DEF MergeLoops, Unsorted
<1>2. asked # NoCall /\ asked.op = "union" /\ asked' = asked
  BY DEF AvailabilityInv, InALoop
<1>3. asked.a \in Seq(Ranges) /\ asked.b \in Seq(Ranges)
  BY <1>2, AskedType DEF AvailabilityInv
<1>4. AvailabilityTyped' BY <1>1 DEF AvailabilityInv, AvailabilityTyped
<1>5. InALoop' BY <1>2 DEF AvailabilityInv, InALoop, MergeLoops
<1>6. Merging' /\ Operands' /\ Overlapping' /\ Removing'
  BY DEF Merging, Operands, Overlapping, Removing, MergeLoops
<1>7. AnswersAreSets'
  <2>1. Canonical(result') BY <1>1 DEF Normal
  <2>2. ASSUME NEW t \in Times PROVE Covers(result', t) <=> Wanted(t)'
    BY <1>1, <1>2, <1>3, ConcatLemma DEF Normal, Wanted
  <2> QED BY <2>1, <2>2 DEF AnswersAreSets
<1> QED BY <1>4, <1>5, <1>6, <1>7 DEF AvailabilityInv

LEMMA MergedLeftStep == ASSUME AvailabilityInv, MergedLeft PROVE AvailabilityInv'
<1> USE DEF MergedLeft
<1>1. merged \in Seq(Ranges) /\ Normal(merged, asked.a)
  BY Merged DEF MergeLoops, Unsorted
<1>2. asked # NoCall /\ asked.op # "union" /\ asked' = asked
  BY DEF AvailabilityInv, InALoop
<1>3. asked.b \in Seq(Ranges)
  BY <1>2, AskedType DEF AvailabilityInv
<1>4. /\ unmerged' \in Seq(Ranges) /\ Sorted(unmerged')
      /\ \A n \in DOMAIN unmerged' : ~IsEmpty(unmerged'[n])
      /\ \A t \in Times : Covers(unmerged', t) <=> Covers(asked.b, t)
  BY <1>3, SortingLemma
<1>5. AvailabilityTyped' BY <1>1, <1>4 DEF AvailabilityInv, AvailabilityTyped, MergeLoops
<1>6. InALoop' BY <1>2 DEF AvailabilityInv, InALoop, MergeLoops
<1>7. Merging'
  <2>1. merged' = <<>> /\ Canonical(merged') /\ \A t \in Times : ~Covers(merged', t)
    BY EmptyList
  <2> QED BY <1>2, <1>4, <2>1 DEF Merging, Unsorted
<1>8. Operands' BY <1>1, <1>2 DEF Operands, Normal
<1>9. Overlapping' /\ Removing' /\ AnswersAreSets'
  BY DEF Overlapping, Removing, AnswersAreSets
<1> QED BY <1>5, <1>6, <1>7, <1>8, <1>9 DEF AvailabilityInv

-----------------------------------------------------------------------------
\* The points from the k-th range on are those of that range and those after
\* it, which all lie behind its end; the points before the (k+1)-th likewise.
LEMMA FromLemma ==
  ASSUME NEW s \in Seq(Ranges), Canonical(s), NEW k \in DOMAIN s, NEW t \in Times
  PROVE  /\ From(s, k, t) <=> Inside(s[k], t) \/ From(s, k + 1, t)
         /\ From(s, k + 1, t) => s[k].end < t
         /\ UpTo(s, k + 1, t) <=> UpTo(s, k, t) \/ Inside(s[k], t)
         /\ UpTo(s, k, t) => t < s[k].start
         /\ Covers(s, t) <=> UpTo(s, k, t) \/ From(s, k, t)
<1>1. /\ DOMAIN s = 1..Len(s) /\ Len(s) \in Nat
      /\ \A n \in DOMAIN s : s[n] \in Ranges
  BY ListLemma
<1>2. From(s, k, t) <=> Inside(s[k], t) \/ From(s, k + 1, t)
  BY <1>1 DEF From
<1>3. UpTo(s, k + 1, t) <=> UpTo(s, k, t) \/ Inside(s[k], t)
  BY <1>1 DEF UpTo
<1>4. Covers(s, t) <=> UpTo(s, k, t) \/ From(s, k, t)
  BY <1>1 DEF UpTo, From, Covers
<1>5. ASSUME NEW n \in DOMAIN s, n >= k + 1, Inside(s[n], t) PROVE s[k].end < t
  <2>1. s[k].end < s[n].start BY <1>1, <1>5 DEF Canonical
  <2> QED BY <1>1, <1>5, <2>1 DEF Inside, Ranges, Times
<1>6. ASSUME NEW n \in DOMAIN s, n < k, Inside(s[n], t) PROVE t < s[k].start
  <2>1. s[n].end < s[k].start BY <1>1, <1>6 DEF Canonical
  <2> QED BY <1>1, <1>6, <2>1 DEF Inside, Ranges, Times
<1> QED BY <1>2, <1>3, <1>4, <1>5, <1>6 DEF From, UpTo

LEMMA MergedRightStep == ASSUME AvailabilityInv, MergedRight PROVE AvailabilityInv'
<1>1. /\ merged \in Seq(Ranges) /\ Normal(merged, asked.b)
      /\ left \in Seq(Ranges) /\ Normal(left, asked.a)
      /\ right' = merged /\ left' = left /\ asked' = asked
      /\ result' = <<>> /\ result = <<>> /\ li' = 1 /\ li = 1 /\ ri' = 1
      /\ asked # NoCall /\ asked.op # "union"
  BY Merged DEF MergeLoops, Unsorted, MergedRight, AvailabilityInv, AvailabilityTyped, Operands, InALoop
<1>2. asked.op \in {"intersect", "subtract"}
  BY <1>1, AskedType DEF AvailabilityInv, Operations
<1>3. left # <<>> => left[1] \in Ranges /\ Len(left) >= 1
  BY <1>1, ListLemma
<1>4. AvailabilityTyped'
  BY <1>1, <1>3 DEF AvailabilityInv, AvailabilityTyped, MergedRight, Ranges
<1>5. InALoop'
  BY <1>1, <1>2 DEF AvailabilityInv, InALoop, MergeLoops, MergedRight
<1>6. Merging' /\ Operands'
  BY <1>1 DEF Merging, Operands, Normal, MergeLoops, MergedRight
<1>7. Overlapping'
  <2> SUFFICES ASSUME doing' = "overlapping" PROVE Overlapping' BY DEF Overlapping
  <2>1. \A t \in Times : /\ From(left, 1, t) <=> Covers(left, t)
                         /\ From(merged, 1, t) <=> Covers(merged, t)
    BY <1>1 DEF From, Covers
  <2> QED BY <1>1, <2>1, EmptyList DEF Overlapping
<1>8. Removing'
  <2> SUFFICES ASSUME doing' = "removing" PROVE Removing' BY DEF Removing
  <2>1. left # <<>> /\ cursor' = left[1].start
    BY DEF MergedRight
  <2>2. left[1].start <= cursor'
    BY <1>3, <2>1 DEF Ranges, Times
  <2>3. \A t \in Times : ~UpTo(left, 1, t) /\ ~(Inside(left[1], t) /\ t < cursor')
    BY <1>1, <1>3, <2>1 DEF UpTo, Inside, Ranges, Times
  <2>4. \A n \in DOMAIN merged : ~(n < 1)
    BY <1>1, ListLemma
  <2> QED BY <1>1, <1>3, <2>1, <2>2, <2>3, <2>4, EmptyList DEF Removing
<1>9. AnswersAreSets'
  <2> SUFFICES ASSUME doing' = "done" PROVE AnswersAreSets' BY DEF AnswersAreSets
  <2>1. left = <<>> /\ asked.op = "subtract"
    BY <1>2 DEF MergedRight
  <2>2. \A t \in Times : ~Covers(asked.a, t)
    BY <1>1, <2>1, EmptyList DEF Normal
  <2> QED BY <1>1, <2>1, <2>2, EmptyList DEF AnswersAreSets, Wanted
<1> QED BY <1>4, <1>5, <1>6, <1>7, <1>8, <1>9 DEF AvailabilityInv

LEMMA OverlapStep == ASSUME AvailabilityInv, Overlap PROVE AvailabilityInv'
<1> DEFINE x == left[li]
           y == right[ri]
           lo == MaxOf(x.start, y.start)
           hi == MinOf(x.end, y.end)
<1>1. /\ doing = "overlapping" /\ doing' = doing /\ asked' = asked
      /\ left' = left /\ right' = right /\ cursor' = cursor
      /\ unmerged' = unmerged /\ merged' = merged
      /\ li \in DOMAIN left /\ ri \in DOMAIN right /\ li \in Nat \ {0} /\ ri \in Nat \ {0}
      /\ left \in Seq(Ranges) /\ right \in Seq(Ranges) /\ result \in Seq(Ranges)
      /\ Canonical(left) /\ Canonical(right) /\ Canonical(result)
      /\ result # <<>> => result[Len(result)].end < lo
      /\ \A t \in Times : Covers(result, t) \/ (From(left, li, t) /\ From(right, ri, t))
                            <=> Covers(left, t) /\ Covers(right, t)
  BY DEF Overlap, AvailabilityInv, AvailabilityTyped, Operands, Normal, Overlapping
<1>2. /\ result' = IF hi > lo THEN Append(result, Interval(lo, hi)) ELSE result
      /\ \/ x.end < y.end /\ li' = li + 1 /\ ri' = ri
         \/ ~(x.end < y.end) /\ ri' = ri + 1 /\ li' = li
  BY DEF Overlap
<1>3. x \in Ranges /\ y \in Ranges /\ ~IsEmpty(x) /\ ~IsEmpty(y)
  BY <1>1, ListLemma DEF Canonical
<1>4. /\ x.start \in Int /\ y.start \in Int /\ x.end \in Int /\ y.end \in Int
      /\ lo \in Times /\ hi \in Times /\ x.start < x.end /\ y.start < y.end
      /\ lo >= x.start /\ lo >= y.start /\ (lo = x.start \/ lo = y.start)
      /\ hi = IF x.end < y.end THEN x.end ELSE y.end
  BY <1>3 DEF Ranges, Times, IsEmpty, MaxOf, MinOf
<1>5. \A t \in Times : Inside(x, t) /\ Inside(y, t) <=> lo <= t /\ t < hi
  BY <1>4 DEF Inside, Times
<1> HIDE DEF x, y, lo, hi
<1>6. /\ result' \in Seq(Ranges) /\ Canonical(result')
      /\ \A t \in Times : Covers(result', t) <=> Covers(result, t) \/ (Inside(x, t) /\ Inside(y, t))
      /\ result' # <<>> => \/ hi > lo /\ result'[Len(result')].end = hi
                           \/ result'[Len(result')].end < lo /\ ~(hi > lo)
  <2>1. CASE hi > lo
    <3> DEFINE r == Interval(lo, hi)
    <3>1. r \in Ranges /\ ~IsEmpty(r) /\ r.start = lo /\ r.end = hi
      BY <1>4, <2>1 DEF Interval, Ranges, IsEmpty, Times
    <3>2. \A t \in Times : Inside(r, t) <=> Inside(x, t) /\ Inside(y, t)
      BY <1>5, <3>1 DEF Inside
    <3>3. result' = Append(result, r)
      BY <1>2, <2>1
    <3> HIDE DEF r
    <3>4. /\ result' \in Seq(Ranges) /\ Canonical(result')
          /\ \A t \in Times : Covers(result', t) <=> Covers(result, t) \/ Inside(r, t)
      BY <1>1, <3>1, <3>3, AppendLemma
    <3>5. result'[Len(result')] = r
      BY <1>1, <3>3
    <3> QED BY <2>1, <3>1, <3>2, <3>4, <3>5
  <2>2. CASE ~(hi > lo)
    <3>1. \A t \in Times : ~(lo <= t /\ t < hi)
      BY <1>4, <2>2 DEF Times
    <3> QED BY <1>1, <1>2, <1>5, <2>2, <3>1
  <2> QED BY <2>1, <2>2
<1>7. AvailabilityTyped'
  BY <1>1, <1>2, <1>6 DEF AvailabilityInv, AvailabilityTyped
<1>8. InALoop' /\ Merging' /\ Operands' /\ Removing' /\ AnswersAreSets'
  BY <1>1 DEF AvailabilityInv, InALoop, Merging, Operands, Removing, AnswersAreSets, MergeLoops
<1>9. Overlapping'
  <2>1. ASSUME NEW t \in Times
        PROVE  Covers(result', t) \/ (From(left, li', t) /\ From(right, ri', t))
                 <=> Covers(left, t) /\ Covers(right, t)
    <3>1. /\ From(left, li, t) <=> Inside(x, t) \/ From(left, li + 1, t)
          /\ From(left, li + 1, t) => x.end < t
          /\ From(right, ri, t) <=> Inside(y, t) \/ From(right, ri + 1, t)
          /\ From(right, ri + 1, t) => y.end < t
      BY <1>1, FromLemma DEF x, y
    <3>2. CASE x.end < y.end
      <4>1. ~(Inside(x, t) /\ From(right, ri + 1, t))
        BY <1>4, <3>1, <3>2 DEF Inside, Times
      <4>2. li' = li + 1 /\ ri' = ri
        BY <1>2, <3>2
      <4> QED BY <1>1, <1>6, <3>1, <4>1, <4>2
    <3>3. CASE ~(x.end < y.end)
      <4>1. ~(Inside(y, t) /\ From(left, li + 1, t))
        BY <1>4, <3>1, <3>3 DEF Inside, Times
      <4>2. ri' = ri + 1 /\ li' = li
        BY <1>2, <3>3
      <4> QED BY <1>1, <1>6, <3>1, <4>1, <4>2
    <3> QED BY <3>2, <3>3
  <2>2. ASSUME result' # <<>>, li' <= Len(left), ri' <= Len(right)
        PROVE  result'[Len(result')].end < MaxOf(left[li'].start, right[ri'].start)
    <3>1. /\ DOMAIN left = 1..Len(left) /\ DOMAIN right = 1..Len(right)
          /\ li' \in DOMAIN left /\ ri' \in DOMAIN right
      BY <1>1, <1>2, <2>2, ListLemma
    <3>2. left[li'] \in Ranges /\ right[ri'] \in Ranges /\ result'[Len(result')] \in Ranges
      BY <1>1, <1>6, <2>2, <3>1, ListLemma
    <3> DEFINE ended == result'[Len(result')].end
               ls == left[li'].start
               rs == right[ri'].start
    <3>3. /\ ended \in Int /\ ls \in Int /\ rs \in Int /\ lo \in Int /\ hi \in Int
          /\ (hi > lo /\ ended = hi) \/ (ended < lo /\ ~(hi > lo))
      <4>1. \A q \in Ranges : q.start \in Int /\ q.end \in Int
        BY DEF Ranges, Times
      <4>2. ended \in Int /\ ls \in Int /\ rs \in Int
        BY ONLY <3>2, <4>1, Zenon
      <4>3. lo \in Int /\ hi \in Int
        BY <1>4 DEF Times
      <4>4. (hi > lo /\ ended = hi) \/ (ended < lo /\ ~(hi > lo))
        BY ONLY <1>6, <2>2, Zenon
      <4> QED BY ONLY <4>2, <4>3, <4>4
    <3>0. /\ \A m, n \in DOMAIN left : m < n => left[m].end < left[n].start
          /\ \A m, n \in DOMAIN right : m < n => right[m].end < right[n].start
          /\ li \in DOMAIN left /\ ri \in DOMAIN right /\ li < li + 1 /\ ri < ri + 1
      BY <1>1 DEF Canonical
    <3>4. \/ x.end < y.end /\ rs = y.start /\ x.end < ls
          \/ ~(x.end < y.end) /\ ls = x.start /\ y.end < rs
      <4>1. CASE x.end < y.end
        <5>1. li' = li + 1 /\ right[ri'] = y BY <1>2, <4>1 DEF y
        <5>2. left[li].end < left[li'].start
          BY ONLY <3>0, <3>1, <5>1, Zenon
        <5>3. x.end < left[li'].start BY ONLY <5>2 DEF x
        <5> QED BY ONLY <4>1, <5>1, <5>3
      <4>2. CASE ~(x.end < y.end)
        <5>1. ri' = ri + 1 /\ left[li'] = x BY <1>2, <4>2 DEF x
        <5>2. right[ri].end < right[ri'].start
          BY ONLY <3>0, <3>1, <5>1, Zenon
        <5>3. y.end < right[ri'].start BY ONLY <5>2 DEF y
        <5> QED BY ONLY <4>2, <5>1, <5>3
      <4> QED BY <4>1, <4>2
    <3> HIDE DEF ended, ls, rs
    <3>5. ended < ls \/ ended < rs
      BY <1>4, <3>3, <3>4
    <3>6. ended < MaxOf(ls, rs)
      BY <3>3, <3>5 DEF MaxOf
    <3> QED BY <3>6 DEF ended, ls, rs
  <2> QED BY <1>1, <1>6, <2>1, <2>2 DEF Overlapping
<1> QED BY <1>7, <1>8, <1>9 DEF AvailabilityInv

LEMMA OverlappedStep == ASSUME AvailabilityInv, Overlapped PROVE AvailabilityInv'
<1>1. /\ left \in Seq(Ranges) /\ Normal(left, asked.a) /\ right \in Seq(Ranges) /\ Normal(right, asked.b)
      /\ result' = result /\ asked' = asked /\ asked.op = "intersect" /\ Canonical(result)
      /\ \A t \in Times : Covers(result, t) \/ (From(left, li, t) /\ From(right, ri, t))
                            <=> Covers(left, t) /\ Covers(right, t)
  BY DEF Overlapped, AvailabilityInv, AvailabilityTyped, Operands, Overlapping, InALoop
<1>2. \A t \in Times : ~(From(left, li, t) /\ From(right, ri, t))
  <2>1. /\ DOMAIN left = 1..Len(left) /\ DOMAIN right = 1..Len(right)
        /\ Len(left) \in Nat /\ Len(right) \in Nat /\ li \in Nat /\ ri \in Nat
    BY <1>1, ListLemma DEF AvailabilityInv, AvailabilityTyped
  <2>2. li > Len(left) \/ ri > Len(right) BY DEF Overlapped
  <2> QED BY <2>1, <2>2 DEF From
<1>3. AnswersAreSets'
  BY <1>1, <1>2 DEF AnswersAreSets, Wanted, Normal
<1>4. AvailabilityTyped' /\ InALoop' /\ Merging' /\ Operands' /\ Overlapping' /\ Removing'
  BY DEF Overlapped, AvailabilityInv, AvailabilityTyped, InALoop, Merging, Operands, Overlapping, Removing, MergeLoops
<1> QED BY <1>3, <1>4 DEF AvailabilityInv

-----------------------------------------------------------------------------
\* What the removing loop knows, with its range and the bounds as integers.
LEMMA RemovingFacts ==
  ASSUME AvailabilityInv, doing = "removing"
  PROVE  /\ asked # NoCall /\ asked.op = "subtract"
         /\ left \in Seq(Ranges) /\ right \in Seq(Ranges) /\ result \in Seq(Ranges)
         /\ Canonical(left) /\ Canonical(right) /\ Canonical(result)
         /\ li \in DOMAIN left /\ ri \in Nat \ {0}
         /\ left[li] \in Ranges /\ left[li].start <= cursor
         /\ cursor \in Times /\ left[li].start \in Int /\ left[li].end \in Int
         /\ \A n \in DOMAIN right : right[n] \in Ranges
         /\ DOMAIN right = 1..Len(right) /\ Len(right) \in Nat
         /\ DOMAIN left = 1..Len(left) /\ Len(left) \in Nat
<1>1. /\ asked # NoCall /\ asked.op = "subtract"
      /\ left \in Seq(Ranges) /\ right \in Seq(Ranges) /\ result \in Seq(Ranges)
      /\ Canonical(left) /\ Canonical(right) /\ Canonical(result)
      /\ li \in Nat \ {0} /\ li <= Len(left) /\ ri \in Nat \ {0}
      /\ left[li].start <= cursor /\ cursor \in Times
  BY DEF AvailabilityInv, AvailabilityTyped, InALoop, Operands, Normal, Removing
<1>2. /\ DOMAIN right = 1..Len(right) /\ Len(right) \in Nat
      /\ DOMAIN left = 1..Len(left) /\ Len(left) \in Nat
      /\ \A n \in DOMAIN right : right[n] \in Ranges
      /\ \A n \in DOMAIN left : left[n] \in Ranges
  BY <1>1, ListLemma
<1>3. li \in DOMAIN left /\ left[li] \in Ranges
  BY <1>1, <1>2
<1> QED BY <1>1, <1>2, <1>3 DEF Ranges, Times

LEMMA SkipRemovedStep == ASSUME AvailabilityInv, SkipRemoved PROVE AvailabilityInv'
<1>1. /\ doing = "removing" /\ doing' = doing /\ asked' = asked /\ ri' = ri + 1 /\ li' = li
      /\ left' = left /\ right' = right /\ cursor' = cursor /\ result' = result
      /\ unmerged' = unmerged /\ merged' = merged
      /\ right[ri].end <= cursor
  BY DEF SkipRemoved
<1>2. AvailabilityTyped' /\ InALoop' /\ Merging' /\ Operands' /\ Overlapping' /\ AnswersAreSets'
  BY <1>1 DEF AvailabilityInv, AvailabilityTyped, InALoop, Merging, Operands, Overlapping, AnswersAreSets, MergeLoops
<1>3. \A n \in DOMAIN right : n < ri + 1 => right[n].end <= cursor
  BY <1>1, RemovingFacts DEF AvailabilityInv, Removing
<1>4. Removing'
  BY <1>1, <1>3 DEF AvailabilityInv, Removing
<1> QED BY <1>2, <1>4 DEF AvailabilityInv

\* Putting what lies between the cursor and a later time behind the result.
LEMMA PushLemma ==
  ASSUME AvailabilityInv, doing = "removing", NEW to \in Times,
         NEW r, r = IF to > cursor THEN Append(result, Interval(cursor, to)) ELSE result
  PROVE  /\ r \in Seq(Ranges) /\ Canonical(r)
         /\ \A t \in Times : Covers(r, t) <=> Covers(result, t) \/ (cursor <= t /\ t < to)
         /\ r # <<>> => \/ r[Len(r)].end = to /\ to > cursor
                        \/ r = result
<1>1. result \in Seq(Ranges) /\ Canonical(result) /\ cursor \in Times
  BY RemovingFacts
<1>2. result # <<>> => result[Len(result)].end < cursor
  BY DEF AvailabilityInv, Removing
<1>3. CASE to > cursor
  <2> DEFINE rest == Interval(cursor, to)
  <2>1. rest \in Ranges /\ ~IsEmpty(rest) /\ rest.start = cursor /\ rest.end = to
    BY <1>1, <1>3 DEF Interval, Ranges, IsEmpty, Times
  <2>2. r = Append(result, rest)
    BY <1>3
  <2>3. \A t \in Times : Inside(rest, t) <=> cursor <= t /\ t < to
    BY <2>1 DEF Inside
  <2> HIDE DEF rest
  <2>4. /\ Append(result, rest) \in Seq(Ranges) /\ Canonical(Append(result, rest))
        /\ \A t \in Times : Covers(Append(result, rest), t) <=> Covers(result, t) \/ Inside(rest, t)
    BY <1>1, <1>2, <2>1, AppendLemma
  <2>5. r[Len(r)] = rest
    BY <1>1, <2>2
  <2> QED BY <1>3, <2>1, <2>2, <2>3, <2>4, <2>5
<1>4. CASE ~(to > cursor)
  <2>1. \A t \in Times : ~(cursor <= t /\ t < to)
    BY <1>1, <1>4 DEF Times
  <2> QED BY <1>1, <1>4, <2>1
<1> QED BY <1>3, <1>4

LEMMA RemoveStep == ASSUME AvailabilityInv, RemoveNext PROVE AvailabilityInv'
<1> DEFINE w == left[li]
           z == right[ri]
<1>1. /\ doing = "removing" /\ doing' = doing /\ asked' = asked /\ ri' = ri + 1 /\ li' = li
      /\ left' = left /\ right' = right /\ unmerged' = unmerged /\ merged' = merged
      /\ ri <= Len(right) /\ cursor < w.end /\ z.end > cursor /\ z.start < w.end
      /\ cursor' = z.end
      /\ result' = IF z.start > cursor THEN Append(result, Interval(cursor, z.start)) ELSE result
  BY DEF RemoveNext
<1>2. /\ ri \in DOMAIN right /\ z \in Ranges /\ z.start < z.end
      /\ z.start \in Times /\ z.end \in Times /\ cursor \in Times
      /\ w.start \in Int /\ w.end \in Int /\ w.start <= cursor
  <2>1. /\ ri \in DOMAIN right /\ z \in Ranges /\ w \in Ranges /\ cursor \in Times
        /\ w.start <= cursor /\ Canonical(right)
    BY <1>1, RemovingFacts
  <2>2. ~IsEmpty(z)
    BY ONLY <2>1 DEF Canonical, z
  <2> HIDE DEF w, z
  <2>3. z.start \in Times /\ z.end \in Times /\ w.start \in Int /\ w.end \in Int
    BY ONLY <2>1 DEF Ranges, Times
  <2>4. z.start < z.end
    BY ONLY <2>2, <2>3 DEF IsEmpty, Times
  <2> QED BY ONLY <2>1, <2>3, <2>4
<1>3. /\ result' \in Seq(Ranges) /\ Canonical(result')
      /\ \A t \in Times : Covers(result', t) <=> Covers(result, t) \/ (cursor <= t /\ t < z.start)
      /\ result' # <<>> => \/ result'[Len(result')].end = z.start /\ z.start > cursor
                           \/ result' = result
  BY <1>1, <1>2, PushLemma
<1> HIDE DEF w, z
<1>4. AvailabilityTyped'
  BY <1>1, <1>2, <1>3 DEF AvailabilityInv, AvailabilityTyped
<1>5. InALoop' /\ Merging' /\ Operands' /\ Overlapping' /\ AnswersAreSets'
  BY <1>1 DEF AvailabilityInv, InALoop, Merging, Operands, Overlapping, AnswersAreSets, MergeLoops
<1>6. Removing'
  <2>1. /\ li <= Len(left) /\ w.start <= cursor'
        /\ \A n \in DOMAIN right : n < ri => right[n].end <= cursor
        /\ result # <<>> => result[Len(result)].end < cursor /\ result[Len(result)].end <= w.end
        /\ \A t \in Times : Covers(result, t) <=> /\ ~Covers(right, t)
                                                  /\ UpTo(left, li, t) \/ (Inside(w, t) /\ t < cursor)
    BY <1>1, <1>2 DEF AvailabilityInv, Removing, w, Times
  <2>2. \A n \in DOMAIN right : n < ri + 1 => right[n].end <= cursor'
    <3> SUFFICES ASSUME NEW n \in DOMAIN right, n < ri + 1 PROVE right[n].end <= cursor'
      OBVIOUS
    <3>1. CASE n = ri BY <1>1, <1>2, <3>1 DEF z, Ranges, Times
    <3>2. CASE n # ri
      <4>1. right[n].end <= cursor /\ right[n] \in Ranges BY <1>1, <2>1, <3>2, RemovingFacts
      <4> QED BY <1>1, <1>2, <4>1 DEF Ranges, Times
    <3> QED BY <3>1, <3>2
  <2>3. result' # <<>> => result'[Len(result')].end < cursor' /\ result'[Len(result')].end <= w.end
    <3> SUFFICES ASSUME result' # <<>>
                 PROVE  result'[Len(result')].end < cursor' /\ result'[Len(result')].end <= w.end
      OBVIOUS
    <3> DEFINE ended == result'[Len(result')].end
    <3>0. result'[Len(result')] \in Ranges BY <1>3, ListLemma
    <3>1. ended \in Int /\ z.start \in Int /\ z.end \in Int /\ cursor \in Int /\ cursor' = z.end
          /\ z.start < w.end /\ z.start < z.end /\ cursor < z.end
      BY <1>1, <1>2, <3>0 DEF Ranges, Times
    <3>2. (ended = z.start /\ z.start > cursor) \/ (ended < cursor /\ ended <= w.end)
      BY <1>3, <2>1
    <3> HIDE DEF ended
    <3>3. ended < cursor' /\ ended <= w.end
      BY <1>2, <3>1, <3>2
    <3> QED BY <3>3 DEF ended
  <2>4. ASSUME NEW t \in Times
        PROVE  Covers(result', t) <=> /\ ~Covers(right, t)
                                      /\ UpTo(left, li, t) \/ (Inside(w, t) /\ t < cursor')
    <3>1. CASE cursor <= t /\ t < z.start
      <4>1. Inside(w, t) /\ t < cursor'
        BY <1>1, <1>2, <3>1 DEF Inside, Times
      <4>2. ~From(right, ri, t)
        <5>1. ~Inside(z, t) BY <1>2, <3>1 DEF Inside, Times
        <5>2. ~From(right, ri + 1, t)
          <6>1. From(right, ri + 1, t) => z.end < t
            BY <1>2, RemovingFacts, <1>1, FromLemma DEF z
          <6> QED BY <1>2, <3>1, <6>1 DEF Times
        <5> QED BY <1>1, <1>2, <5>1, <5>2, RemovingFacts, FromLemma DEF z
      <4>3. ~UpTo(right, ri, t)
        <5>1. ASSUME NEW n \in DOMAIN right, n < ri PROVE ~Inside(right[n], t)
          <6>1. right[n].end <= cursor /\ right[n] \in Ranges BY <1>1, <2>1, <5>1, RemovingFacts
          <6> QED BY <1>2, <3>1, <6>1 DEF Inside, Ranges, Times
        <5> QED BY <5>1 DEF UpTo
      <4>4. ~Covers(right, t)
        BY <1>1, <1>2, <4>2, <4>3, RemovingFacts, FromLemma
      <4> QED BY <1>3, <3>1, <4>1, <4>4
    <3>2. CASE ~(cursor <= t /\ t < z.start)
      <4>1. Covers(result', t) <=> Covers(result, t) BY <1>3, <3>2
      <4>2. CASE t < cursor
        <5>1. t < cursor' BY <1>1, <1>2, <4>2 DEF Times
        <5> QED BY <2>1, <4>1, <4>2, <5>1
      <4>3. CASE cursor <= t /\ t < cursor'
        <5>1. Inside(z, t) BY <1>1, <1>2, <3>2, <4>3 DEF Inside, Times
        <5>2. Covers(right, t) BY <1>2, <5>1 DEF Covers, z
        <5> QED BY <2>1, <4>1, <5>2
      <4>4. CASE cursor' <= t
        <5>1. ~(t < cursor') /\ ~(t < cursor) BY <1>1, <1>2, <4>4 DEF Times
        <5> QED BY <2>1, <4>1, <5>1
      <4> QED BY <1>1, <1>2, <4>2, <4>3, <4>4 DEF Times
    <3> QED BY <3>1, <3>2
  <2> QED BY <1>1, <1>3, <2>1, <2>2, <2>3, <2>4 DEF Removing, w
<1> QED BY <1>4, <1>5, <1>6 DEF AvailabilityInv

LEMMA KeepRestStep == ASSUME AvailabilityInv, KeepRest PROVE AvailabilityInv'
<1> DEFINE w == left[li]
<1>1. /\ doing = "removing" /\ asked' = asked
      /\ left' = left /\ right' = right /\ unmerged' = unmerged /\ merged' = merged
      /\ result' = IF w.end > cursor THEN Append(result, Interval(cursor, w.end)) ELSE result
  BY RemovingFacts DEF KeepRest, Times
<1>2. /\ w \in Ranges /\ w.start \in Int /\ w.end \in Times /\ cursor \in Times
      /\ w.start <= cursor /\ w.start < w.end
      /\ li \in DOMAIN left /\ DOMAIN left = 1..Len(left) /\ Len(left) \in Nat
      /\ asked # NoCall /\ asked.op = "subtract"
      /\ left \in Seq(Ranges) /\ Canonical(left)
  BY <1>1, RemovingFacts DEF Canonical, IsEmpty, Ranges, Times
<1>3. /\ result' \in Seq(Ranges) /\ Canonical(result')
      /\ \A t \in Times : Covers(result', t) <=> Covers(result, t) \/ (cursor <= t /\ t < w.end)
      /\ result' # <<>> => \/ result'[Len(result')].end = w.end /\ w.end > cursor
                           \/ result' = result
  BY <1>1, <1>2, PushLemma
<1>4. /\ \A n \in DOMAIN right : n < ri => right[n].end <= cursor
      /\ result # <<>> => result[Len(result)].end < cursor /\ result[Len(result)].end <= w.end
      /\ \A t \in Times : Covers(result, t) <=> /\ ~Covers(right, t)
                                                /\ UpTo(left, li, t) \/ (Inside(w, t) /\ t < cursor)
  BY <1>1 DEF AvailabilityInv, Removing
<1>5. \/ ri > Len(right) \/ cursor >= w.end
      \/ ri <= Len(right) /\ right[ri].start >= w.end
  BY DEF KeepRest
<1> HIDE DEF w
<1>7. ASSUME NEW t \in Times, cursor <= t, t < w.end PROVE ~Covers(right, t)
  <2>1. ASSUME NEW n \in DOMAIN right PROVE ~Inside(right[n], t)
    <3>1. /\ right[n] \in Ranges /\ n \in 1..Len(right) /\ Len(right) \in Nat /\ ri \in Nat \ {0}
          /\ ri <= Len(right) => right[ri] \in Ranges
      BY <1>1, RemovingFacts
    <3>2. CASE n < ri
      BY <1>2, <1>4, <1>7, <3>1, <3>2 DEF Inside, Ranges, Times
    <3>3. CASE n >= ri
      <4>1. ri \in DOMAIN right /\ right[ri].start >= w.end
        BY <1>1, <1>2, <1>5, <1>7, <3>1, <3>3, RemovingFacts DEF Times
      <4>2. right[n].start >= right[ri].start
        <5>1. CASE n = ri BY <3>1, <5>1 DEF Ranges, Times
        <5>2. CASE n # ri
          <6>1. ri < n BY <3>1, <3>3, <5>2
          <6>2. Canonical(right) /\ right[ri] \in Ranges BY <1>1, <4>1, RemovingFacts
          <6>3. right[ri].end < right[n].start /\ right[ri].start < right[ri].end
            BY <4>1, <6>1, <6>2 DEF Canonical, IsEmpty, Ranges, Times
          <6> QED BY <3>1, <6>2, <6>3 DEF Ranges, Times
        <5> QED BY <5>1, <5>2
      <4>3. right[n].start \in Int /\ right[ri].start \in Int
        BY <3>1, <4>1 DEF Ranges, Times
      <4>4. w.end \in Int /\ t \in Int
        BY <1>2, <1>7 DEF Times
      <4>5. ~(right[n].start <= t)
        BY ONLY <1>7, <4>1, <4>2, <4>3, <4>4
      <4> QED BY ONLY <4>5 DEF Inside
    <3> QED BY <3>1, <3>2, <3>3
  <2> QED BY <2>1 DEF Covers
<1>8. ASSUME NEW t \in Times
      PROVE  Covers(result', t) <=> ~Covers(right, t) /\ UpTo(left, li + 1, t)
  <2>1. UpTo(left, li + 1, t) <=> UpTo(left, li, t) \/ Inside(w, t)
    BY <1>2, FromLemma DEF w
  <2>2. CASE cursor <= t /\ t < w.end
    <3>1. Inside(w, t) BY <1>2, <2>2 DEF Inside, Times
    <3> QED BY <1>3, <1>7, <2>1, <2>2, <3>1
  <2>3. CASE ~(cursor <= t /\ t < w.end)
    <3>1. Inside(w, t) => t < cursor BY <1>2, <2>3 DEF Inside, Times
    <3> QED BY <1>3, <1>4, <2>1, <2>3, <3>1
  <2> QED BY <2>2, <2>3
<1>9. result' # <<>> => result'[Len(result')].end <= w.end /\ result'[Len(result')] \in Ranges
  <2> SUFFICES ASSUME result' # <<>>
               PROVE  result'[Len(result')].end <= w.end /\ result'[Len(result')] \in Ranges
    OBVIOUS
  <2>1. result'[Len(result')] \in Ranges BY <1>3, ListLemma
  <2> QED BY <1>2, <1>3, <1>4, <2>1 DEF Times
<1>10. Merging' /\ Operands' /\ Overlapping'
  BY <1>1 DEF KeepRest, AvailabilityInv, Merging, Operands, Overlapping, MergeLoops
<1>11. CASE li < Len(left)
  <2>1. li' = li + 1 /\ ri' = 1 /\ cursor' = left[li + 1].start /\ doing' = doing
    BY <1>11 DEF KeepRest
  <2>2. li + 1 \in DOMAIN left /\ left[li + 1] \in Ranges /\ w.end < left[li + 1].start
    <3>1. li + 1 \in DOMAIN left BY <1>2, <1>11
    <3>2. left[li + 1] \in Ranges BY <1>2, <3>1, ListLemma
    <3> QED BY <1>2, <3>1, <3>2 DEF Canonical, w
  <2>3. left[li + 1].start \in Times /\ left[li + 1].end \in Times
        /\ left[li + 1].start < left[li + 1].end
    BY <1>2, <2>2 DEF Ranges, Canonical, IsEmpty, Times
  <2>4. AvailabilityTyped'
    BY <1>1, <1>2, <1>3, <2>1, <2>2, <2>3 DEF AvailabilityInv, AvailabilityTyped
  <2>5. InALoop' /\ AnswersAreSets'
    BY <1>1, <2>1 DEF AvailabilityInv, InALoop, AnswersAreSets, MergeLoops
  <2>6. Removing'
    <3>1. left[li + 1].start <= cursor' BY <2>1, <2>3 DEF Times
    <3>2. \A n \in DOMAIN right : ~(n < 1) BY <1>1, RemovingFacts
    <3>3. result' # <<>> => /\ result'[Len(result')].end < cursor'
                            /\ result'[Len(result')].end <= left[li + 1].end
      <4> SUFFICES ASSUME result' # <<>>
                   PROVE  /\ result'[Len(result')].end < cursor'
                          /\ result'[Len(result')].end <= left[li + 1].end
        OBVIOUS
      <4> DEFINE ended == result'[Len(result')].end
      <4>1. ended \in Int /\ ended <= w.end BY <1>9 DEF Ranges, Times
      <4>2. w.end \in Int /\ left[li + 1].start \in Int /\ left[li + 1].end \in Int
        BY <1>2, <2>3 DEF Times
      <4> HIDE DEF ended
      <4>3. ended < left[li + 1].start /\ ended <= left[li + 1].end
        BY <2>2, <2>3, <4>1, <4>2
      <4> QED BY <2>1, <4>3 DEF ended
    <3>4. \A t \in Times : ~(Inside(left[li + 1], t) /\ t < cursor')
      BY <2>1, <2>3 DEF Inside, Times
    <3>5. li + 1 <= Len(left) BY <1>2, <2>2
    <3> QED BY <1>1, <1>3, <1>8, <2>1, <3>1, <3>2, <3>3, <3>4, <3>5 DEF Removing
  <2> QED BY <1>10, <2>4, <2>5, <2>6 DEF AvailabilityInv
<1>12. CASE ~(li < Len(left))
  <2>1. li' = li /\ ri' = ri /\ cursor' = cursor /\ doing' = "done"
    BY <1>12 DEF KeepRest
  <2>2. AvailabilityTyped' /\ InALoop' /\ Removing'
    BY <1>1, <1>2, <1>3, <2>1 DEF AvailabilityInv, AvailabilityTyped, InALoop, Removing, MergeLoops
  <2>3. ASSUME NEW t \in Times PROVE Covers(left, t) <=> UpTo(left, li + 1, t)
    BY <1>2, <1>12 DEF Covers, UpTo
  <2>4. \A t \in Times : /\ Covers(left, t) <=> Covers(asked.a, t)
                         /\ Covers(right, t) <=> Covers(asked.b, t)
    BY <1>1 DEF AvailabilityInv, Operands, Normal
  <2>5. AnswersAreSets'
    <3>1. ASSUME NEW t \in Times PROVE Covers(result', t) <=> Wanted(t)'
      BY <1>1, <1>2, <1>8, <2>3, <2>4 DEF Wanted
    <3> QED BY <1>3, <3>1 DEF AnswersAreSets
  <2> QED BY <1>10, <2>2, <2>5 DEF AvailabilityInv
<1> QED BY <1>11, <1>12

-----------------------------------------------------------------------------
LEMMA AvailabilityNextInv == AvailabilityInv /\ [AvailabilityNext]_availabilityVars => AvailabilityInv'
<1> SUFFICES ASSUME AvailabilityInv, [AvailabilityNext]_availabilityVars PROVE AvailabilityInv' OBVIOUS
<1>1. CASE Ask BY <1>1, AskStep
<1>2. CASE MergeNext BY <1>2, MergeNextStep
<1>3. CASE MergedUnion BY <1>3, MergedUnionStep
<1>4. CASE MergedLeft BY <1>4, MergedLeftStep
<1>5. CASE MergedRight BY <1>5, MergedRightStep
<1>6. CASE Overlap BY <1>6, OverlapStep
<1>7. CASE Overlapped BY <1>7, OverlappedStep
<1>8. CASE SkipRemoved BY <1>8, SkipRemovedStep
<1>9. CASE RemoveNext BY <1>9, RemoveStep
<1>10. CASE KeepRest BY <1>10, KeepRestStep
<1>11. CASE UNCHANGED availabilityVars
  BY <1>11 DEF availabilityVars, AvailabilityInv, AvailabilityTyped, InALoop, Merging, Operands, Overlapping, Removing,
     AnswersAreSets, Unsorted, Wanted
<1> QED BY <1>1, <1>2, <1>3, <1>4, <1>5, <1>6, <1>7, <1>8, <1>9, <1>10, <1>11 DEF AvailabilityNext

-----------------------------------------------------------------------------
(* A behaviour of all parts is one of each.                                *)
\* The parts that do not run stay as they are.
LEMMA OneAtATime ==
  ASSUME [Next]_vars
  PROVE  /\ [ImpactNext]_impactVars /\ [MinimiserNext]_minimiserVars
         /\ [FixtureNext]_fixtureVars /\ [ClockNext]_clockVars /\ [ChaosNext]_chaosVars
         /\ [RewriteNext]_rewriteVars /\ [AvailabilityNext]_availabilityVars
<1>1. CASE DatabasesNext /\ UNCHANGED <<serviceVars, containersVars, searchVars, timeVars>>
  BY <1>1 DEF DatabasesNext, serviceVars, containersVars, searchVars, timeVars
<1>2. CASE ServicesNext /\ UNCHANGED <<databaseVars, containersVars, searchVars, timeVars>>
  BY <1>2 DEF ServicesNext, databaseVars, containersVars, searchVars, timeVars
<1>3. CASE ContainersNext /\ UNCHANGED <<databaseVars, serviceVars, searchVars, timeVars>>
  BY <1>3 DEF ContainersNext, databaseVars, serviceVars, searchVars, timeVars
<1>4. CASE SearchesNext /\ UNCHANGED <<databaseVars, serviceVars, containersVars, timeVars>>
  BY <1>4 DEF SearchesNext, databaseVars, serviceVars, containersVars, timeVars
<1>5. CASE TimesNext /\ UNCHANGED <<databaseVars, serviceVars, containersVars, searchVars>>
  BY <1>5 DEF TimesNext, databaseVars, serviceVars, containersVars, searchVars
<1>6. CASE UNCHANGED vars
  BY <1>6 DEF vars, databaseVars, serviceVars, containersVars, searchVars, timeVars
<1> QED BY <1>1, <1>2, <1>3, <1>4, <1>5, <1>6 DEF Next

HarnessesInv ==
  /\ ImpactInv /\ ClockInv /\ FixtureInv /\ MinimiserInv
  /\ ChaosInv /\ RewritingInv /\ AvailabilityInv

LEMMA HarnessesInitInv == Init => HarnessesInv
BY ImpactInitInv, ClockInitInv, FixtureInitInv, MinimiserInitInv, ChaosInitInv, RewriteInitInv,
   AvailabilityInitInv
   DEF Init, HarnessesInv, DatabasesInit, ServicesInit, ContainersInit, SearchesInit, TimesInit

LEMMA HarnessesNextInv == HarnessesInv /\ [Next]_vars => HarnessesInv'
BY OneAtATime, ImpactNextInv, ClockNextInv, FixtureNextInv, MinimiserNextInv, ChaosNextInv,
   RewriteNextInv, AvailabilityNextInv
   DEF HarnessesInv

\* The invariants of the seven parts (impact/graph.ts:226-253, impact/select.ts:126-161,
\* containers/suite.ts, fuzz/minimise.ts, chaos/policies.ts, determinism/,
\* dbisolation/rewrite.ts, property/availability.ts): each is inductive on its own,
\* and no part disturbs another's.
THEOREM HarnessesInvariant == Spec => []HarnessesInv
<1> QED BY HarnessesInitInv, HarnessesNextInv, PTL DEF Spec

\* No strategy under-selects, as far as it promises (impact/select.ts:9-21).
THEOREM HarnessesSelectionIsSafe == Spec => []SelectionIsSafe
<1>1. HarnessesInv => SelectionIsSafe
  BY ImpactInvMeans DEF HarnessesInv
<1> QED BY <1>1, HarnessesInvariant, PTL

\* A session whose clocks nobody corrected is refreshed before its token expires,
\* whatever is drawn and however long the ticks are
\* (determinism/session.ts:91-101, determinism/environment.ts:183-213).
THEOREM HarnessesRefreshedInTime == Spec => []RefreshedInTime
<1>1. HarnessesInv => RefreshedInTime
  BY DEF HarnessesInv, ClockInv
<1> QED BY <1>1, HarnessesInvariant, PTL

\* A suite finds in its namespace what it wrote, and nothing of an earlier run or
\* of another suite (containers/suite.ts:21-25).
THEOREM HarnessesSuiteSeesOnlyItsOwn == Spec => []SuiteSeesOnlyItsOwn
<1>1. HarnessesInv => SuiteSeesOnlyItsOwn
  BY FixtureInvMeans DEF HarnessesInv
<1> QED BY <1>1, HarnessesInvariant, PTL

\* What the minimiser reports still fails and has no character to spare
\* (fuzz/minimise.ts:32-63), for inputs of any length and any predicate.
THEOREM HarnessesReportIsMinimal == Spec => []ReportIsMinimal
<1>1. HarnessesInv => ReportIsMinimal
  BY MinimiserInvMeans DEF HarnessesInv
<1> QED BY <1>1, HarnessesInvariant, PTL

\* Over a socket a call that passes a signal settles within a budget per attempt
\* (chaos/policies.ts:89), whatever faults its requests meet.
THEOREM HarnessesSignalBoundsTheCall == Spec => []SignalBoundsTheCall
<1>1. HarnessesInv => SignalBoundsTheCall
  BY ChaosInvMeans DEF HarnessesInv
<1> QED BY <1>1, HarnessesInvariant, PTL

\* After two failures in a row nothing more is sent (chaos/policies.ts:105).
THEOREM HarnessesOpenBreakerIsSilent == Spec => OpenBreakerIsSilent
<1>1. HarnessesInv /\ [Next]_vars =>
        [policy = "breaker" /\ policy' = policy /\ failures >= BreakerThreshold =>
           requests' = requests /\ outcome' \in {outcome, "breaker-open"}]_chaosVars
  BY OneAtATime, ChaosStepSilent DEF HarnessesInv
<1> QED BY <1>1, HarnessesInvariant, PTL DEF Spec, OpenBreakerIsSilent

\* No subject, whatever it sends and however often, ends the harness's
\* transaction or lets another session see anything of the test.
THEOREM HarnessesWrapperHolds == Spec => []WrapperHolds
<1>1. HarnessesInv => WrapperHolds
  BY RewritingInvMeans DEF HarnessesInv
<1> QED BY <1>1, HarnessesInvariant, PTL

\* The transactions of a subject that answers refusals with ROLLBACK nest, to
\* any depth.
THEOREM HarnessesTransactionsNest == Spec => []RewritingNests
<1>1. HarnessesInv => RewritingNests
  BY RewritingInvMeans DEF HarnessesInv
<1> QED BY <1>1, HarnessesInvariant, PTL

\* What union, intersect and subtract return (property/availability.ts:78-216) is
\* the canonical list of exactly the points asked for, for any operands.
THEOREM HarnessesAnswersAreSets == Spec => []AnswersAreSets
<1>1. HarnessesInv => AnswersAreSets
  BY DEF HarnessesInv, AvailabilityInv
<1> QED BY <1>1, HarnessesInvariant, PTL
=============================================================================
