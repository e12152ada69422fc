----------------------------- MODULE SessionClock -----------------------------
(***************************************************************************)
(* determinism/: sessions that are renewed before they expire (session.ts) *)
(* on the manual clock and scheduler that tests drive (environment.ts).    *)
(* The clock has two readings, and only the wall reading can be skewed; a  *)
(* tick runs what comes due within it, one callback per action.  A         *)
(* callback renews its session, and may schedule the next refresh.         *)
(***************************************************************************)
EXTENDS Integers

CONSTANTS
  Draws,       \* values of random(), in 640ths
  Windows,     \* milliseconds of a tick
  Drifts,      \* how far a correction may leave the wall clock off the other
  MaxSessions, \* bound on the sessions issued
  MaxElapsed   \* bound on the monotonic reading

VARIABLES
  wall, monotonic, \* the two readings
  until,   \* <<where the tick under way ends>>, or NoTick
  entries, \* the scheduler's queue, without the cancelled ones
  seq,     \* entries made
  fired    \* the callback that ran last: [at, due, expired, steady]

clockVars == <<wall, monotonic, until, entries, seq, fired>>

TTL == 512
JitterSpan == 640
MinRefreshDelay == 64
MaxRefreshDelay == TTL - (MinRefreshDelay \div 8)
NoTick == <<>>
NotFired == <<>>

ASSUME ClockAssumption ==
  /\ Draws \subseteq 0..JitterSpan - 1 /\ Windows \subseteq Nat /\ Drifts \subseteq Int
  /\ MaxSessions \in Nat /\ MaxElapsed \in Nat

-----------------------------------------------------------------------------
Clamp(delay) ==
  CASE delay < MinRefreshDelay -> MinRefreshDelay
    [] delay > MaxRefreshDelay -> MaxRefreshDelay
    [] OTHER -> delay

\* Half the lifetime, and up to half the span more or less.
RefreshDelay(draw) == Clamp((TTL \div 2) + draw - (JitterSpan \div 2))

\* issue and scheduleRefresh, when the readings are w and m; due is the
\* monotonic time a refresh is owed at, kept to compare.
Entry(w, m, draw) ==
  [dueAt |-> w + RefreshDelay(draw), seq |-> seq, expiresAt |-> w + TTL,
   due |-> m + RefreshDelay(draw), steady |-> TRUE]

ClockInit ==
  /\ wall = 0 /\ monotonic = 0 /\ until = NoTick /\ entries = {} /\ seq = 0 /\ fired = NotFired

ClockIdle == seq = 0 /\ monotonic = 0 /\ wall = 0 /\ until = NoTick

Issue ==
  /\ until = NoTick /\ seq < MaxSessions
  /\ \E draw \in Draws : entries' = entries \union {Entry(wall, monotonic, draw)}
  /\ seq' = seq + 1
  /\ UNCHANGED <<wall, monotonic, until, fired>>

CancelRefresh ==
  /\ until = NoTick
  /\ \E e \in entries : entries' = entries \ {e}
  /\ UNCHANGED <<wall, monotonic, until, seq, fired>>

\* An NTP step or the end of summer time: the wall clock alone moves.
Skew ==
  /\ until = NoTick /\ entries # {}
  /\ wall' \in {monotonic + drift : drift \in Drifts} \ {wall}
  /\ entries' = {[e EXCEPT !.steady = FALSE] : e \in entries}
  /\ UNCHANGED <<monotonic, until, seq, fired>>

Tick ==
  /\ until = NoTick /\ seq > 0
  /\ \E ms \in Windows : monotonic + ms <= MaxElapsed /\ until' = <<wall + ms>>
  /\ UNCHANGED <<wall, monotonic, entries, seq, fired>>

\* Slip: the queue is drained in the order it was filled.
FirstQueued(due) == CHOOSE e \in due : \A f \in due : e.seq <= f.seq

EarliestOf(due) ==
  CHOOSE e \in due : \A f \in due : e.dueAt < f.dueAt \/ (e.dueAt = f.dueAt /\ e.seq <= f.seq)

TickEnd == until[1]
DueEntries == {e \in entries : e.dueAt <= TickEnd}
Ahead(instant) == IF instant > wall THEN instant - wall ELSE 0

\* The clock is moved to the due time, then the callback runs.
Fire ==
  LET e == EarliestOf(DueEntries)
      w == wall + Ahead(e.dueAt)
      m == monotonic + Ahead(e.dueAt)
  IN  /\ until # NoTick /\ DueEntries # {}
      /\ wall' = w /\ monotonic' = m
      /\ fired' = [at |-> m, due |-> e.due, expired |-> w >= e.expiresAt, steady |-> e.steady]
      /\ \/ entries' = entries \ {e} /\ UNCHANGED seq
         \/ /\ seq < MaxSessions
            /\ \E draw \in Draws : entries' = (entries \ {e}) \union {Entry(w, m, draw)}
            /\ seq' = seq + 1
      /\ UNCHANGED until

EndTick ==
  /\ until # NoTick /\ DueEntries = {}
  /\ wall' = wall + Ahead(TickEnd) /\ monotonic' = monotonic + Ahead(TickEnd)
  /\ until' = NoTick
  /\ UNCHANGED <<entries, seq, fired>>

ClockNext == Issue \/ CancelRefresh \/ Skew \/ Tick \/ Fire \/ EndTick

-----------------------------------------------------------------------------
\* While nobody corrects the wall clock, a refresh fires exactly its delay after
\* it was scheduled, on the clock that no correction moves, and before the session
\* it is for has expired: however many are queued, whether it was queued from a
\* test or from another refresh within the same tick, and whatever was drawn
\* (session.ts:91-101, environment.ts:183-191).
RefreshedInTime ==
  fired # NotFired /\ fired.steady => fired.at = fired.due /\ ~fired.expired
=============================================================================
