------------------------------- MODULE Minimiser -------------------------------
(***************************************************************************)
(* fuzz/minimise.ts: ddmin, then a sweep of single characters.  One step   *)
(* is one candidate the predicate is asked about, or one change of         *)
(* granularity.                                                            *)
(*                                                                         *)
(* A candidate is the sequence of the input's positions that it keeps;     *)
(* the predicate is the set of candidates that fail, fixed for the search. *)
(***************************************************************************)
EXTENDS Integers, Sequences

CONSTANTS Searches   \* [length, failing]: an input and the candidates that fail

Input(length) == [i \in 1..length |-> i]

ASSUME SearchAssumption ==
  \A s \in Searches : s.length \in Nat /\ Input(s.length) \in s.failing

VARIABLES
  failing,     \* the predicate
  kept,        \* `current`
  granularity,
  start,       \* of the chunk or complement to try next, or the sweep's position
  searching    \* "idle", "chunks", "complements", "sweep", "done"

minimiserVars == <<failing, kept, granularity, start, searching>>

MinimiserInit ==
  /\ failing = {} /\ kept = <<>> /\ granularity = 2 /\ start = 0 /\ searching = "idle"

MinimiserIdle == searching = "idle"

Size == Len(kept) \div granularity

\* The outer loop's test, and its first break.
NextRoundOn(length, pieces) ==
  IF length > 1 /\ length \div pieces >= 1 THEN "chunks" ELSE "sweep"

PickSearch ==
  /\ MinimiserIdle
  /\ \E s \in Searches :
     /\ failing' = s.failing
     /\ kept' = Input(s.length)
     /\ searching' = NextRoundOn(s.length, 2)
  /\ UNCHANGED <<granularity, start>>

\* slice() takes what there is; both kinds of candidate must be shorter.
Chunk == SubSeq(kept, start + 1, IF start + Size < Len(kept) THEN start + Size ELSE Len(kept))
Without(from, count) == SubSeq(kept, 1, from) \o SubSeq(kept, from + count + 1, Len(kept))

Shorter(candidate) == Len(candidate) < Len(kept)

KeepCandidate(candidate, pieces) ==
  /\ kept' = candidate
  /\ granularity' = pieces
  /\ start' = 0
  /\ searching' = NextRoundOn(Len(candidate), pieces)
  /\ UNCHANGED failing

TryChunk ==
  /\ searching = "chunks" /\ start < Len(kept)
  /\ IF Len(Chunk) > 0 /\ Shorter(Chunk) /\ Chunk \in failing
     THEN KeepCandidate(Chunk, 2)
     ELSE start' = start + Size /\ UNCHANGED <<failing, kept, granularity, searching>>

ChunksTried ==
  /\ searching = "chunks" /\ start >= Len(kept)
  /\ start' = 0 /\ searching' = "complements"
  /\ UNCHANGED <<failing, kept, granularity>>

TryComplement ==
  /\ searching = "complements" /\ start < Len(kept)
  /\ LET complement == Without(start, Size) IN
     IF Shorter(complement) /\ complement \in failing
     THEN KeepCandidate(complement, IF granularity > 2 THEN granularity - 1 ELSE 2)
     ELSE start' = start + Size /\ UNCHANGED <<failing, kept, granularity, searching>>

\* Slip: the last doubling is never tried.
RefineShort ==
  /\ searching = "complements" /\ start >= Len(kept)
  /\ start' = 0
  /\ IF granularity * 2 >= Len(kept)
     THEN searching' = "sweep" /\ UNCHANGED granularity
     ELSE /\ granularity' = granularity * 2
          /\ searching' = NextRoundOn(Len(kept), granularity')
  /\ UNCHANGED <<failing, kept>>

\* Nothing was kept: finer pieces, or the sweep.
Refine ==
  /\ searching = "complements" /\ start >= Len(kept)
  /\ start' = 0
  /\ IF granularity >= Len(kept)
     THEN searching' = "sweep" /\ UNCHANGED granularity
     ELSE /\ granularity' = IF granularity * 2 < Len(kept) THEN granularity * 2 ELSE Len(kept)
          /\ searching' = NextRoundOn(Len(kept), granularity')
  /\ UNCHANGED <<failing, kept>>

Sweep ==
  /\ searching = "sweep" /\ start < Len(kept)
  /\ IF Without(start, 1) \in failing THEN kept' = Without(start, 1) /\ UNCHANGED start
     ELSE start' = start + 1 /\ UNCHANGED kept
  /\ UNCHANGED <<failing, granularity, searching>>

SweepEnds ==
  /\ searching = "sweep" /\ start >= Len(kept)
  /\ searching' = "done"
  /\ UNCHANGED <<failing, kept, granularity, start>>

MinimiserStep ==
  TryChunk \/ ChunksTried \/ TryComplement \/ Refine \/ Sweep \/ SweepEnds

MinimiserNext == PickSearch \/ MinimiserStep

MinimiserSpec == MinimiserInit /\ [][MinimiserNext]_minimiserVars

-----------------------------------------------------------------------------
\* What is reported still fails, whatever the predicate (minimise.ts:56-63),
\* and has no single character to spare.  The second half is what the sweep is
\* there for (minimise.ts:32-36), and holds before it starts of any result
\* longer than one character.
ReportIsMinimal ==
  /\ searching # "idle" => kept \in failing
  /\ searching = "done" \/ (searching = "sweep" /\ Len(kept) > 1) =>
       \A p \in 0..Len(kept) - 1 : Without(p, 1) \notin failing
=============================================================================
