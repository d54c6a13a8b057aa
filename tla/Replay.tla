------------------------------- MODULE Replay -------------------------------
(***************************************************************************)
(* The SMVU replay engine (replay_engine.py): a background task that runs  *)
(* a virtual clock inside the window of historical readings, Speed times   *)
(* faster than the wall clock, and at every tick inserts copies of the     *)
(* readings the virtual clock has passed.  The position is persisted in    *)
(* the replay_state singleton with the copies, in one transaction.         *)
(*                                                                         *)
(* Virtual times are offsets from window_start, so that the window is      *)
(* 0 .. Span.  The window and the historical readings do not change while  *)
(* the loop runs (the ETL ends before the loop starts), so the statements  *)
(* of a tick up to its commit are one step, at which the tick also reads   *)
(* the wall clock; the commit is another one.                              *)
(***************************************************************************)
EXTENDS Integers

CONSTANTS
  Span,         \* window_end - window_start
  Readings,     \* the virtual times of the historical readings
  Speed,        \* REPLAY_SPEED_MULTIPLIER
  TickTime,     \* REPLAY_TICK_SECONDS
  MaxTime,      \* bound: wall-clock time
  MaxSetbacks,  \* bound: how often the wall clock is set back
  None          \* no tick yet

\* window_start and window_end are the first and the last historical reading.
ASSUME ReplayAssumption ==
  /\ Span \in Nat \ {0}
  /\ Readings \subseteq 0 .. Span
  /\ {0, Span} \subseteq Readings
  /\ Speed \in Nat
  /\ TickTime \in Nat
  /\ MaxTime \in Nat
  /\ MaxSetbacks \in Nat
  /\ None \notin Int

VARIABLES
  now,       \* the wall clock
  setbacks,
  loop,      \* the task: down, ready for a tick, open (transaction), asleep, dead
  slept,     \* time since the task went to sleep (monotonic clock), up to TickTime
  cursor,    \* replay_state.virtual_cursor
  lastTick,  \* replay_state.last_tick_at
  copies,    \* per historical reading: committed rows with origin = 'replay'
  at,        \* the open tick: its now
  target,    \* the open tick: new_cursor
  ahead,     \* the open tick: rows, or first_segment
  again,     \* the open tick: second_segment
  firstTick, \* history: last_tick_at of the first tick
  smooth     \* history: no tick saw the clock behind the last one or covered Span

clock == <<now, setbacks>>
state == <<cursor, lastTick, copies, firstTick, smooth>>
tick == <<at, target, ahead, again>>
vars == <<clock, loop, slept, state, tick>>

TypeOK ==
  /\ now \in 0 .. MaxTime
  /\ setbacks \in 0 .. MaxSetbacks
  /\ loop \in {"down", "ready", "open", "asleep", "dead"}
  /\ slept \in 0 .. TickTime
  /\ cursor \in 0 .. Span
  /\ lastTick \in (0 .. MaxTime) \cup {None}
  /\ copies \in [Readings -> Nat]
  /\ at \in 0 .. MaxTime
  /\ target \in 0 .. Span
  /\ ahead \subseteq Readings
  /\ again \subseteq Readings
  /\ firstTick \in (0 .. MaxTime) \cup {None}
  /\ smooth \in BOOLEAN

Init ==
  /\ now = 0
  /\ setbacks = 0
  /\ loop = "down"
  /\ slept = 0
  /\ cursor = 0
  /\ lastTick = None
  /\ copies = [r \in Readings |-> 0]
  /\ at = 0
  /\ target = 0
  /\ ahead = {}
  /\ again = {}
  /\ firstTick = None
  /\ smooth = TRUE

-----------------------------------------------------------------------------
(* The wall clock.                                                          *)

\* Time passes for the clock and for a task that sleeps.
Pass ==
  /\ now < MaxTime
  /\ now' = now + 1
  /\ slept' = IF loop = "asleep" /\ slept < TickTime THEN slept + 1 ELSE slept
  /\ UNCHANGED <<setbacks, loop, state, tick>>

\* The host's clock is corrected; sleeping tasks do not notice.
SetBack ==
  /\ setbacks < MaxSetbacks
  /\ setbacks' = setbacks + 1
  /\ \E t \in 0 .. MaxTime : t < now /\ now' = t
  /\ UNCHANGED <<loop, slept, state, tick>>

-----------------------------------------------------------------------------
(* One tick: tick_once.                                                     *)

\* Mutated form: without max(..., 0.0).
SignedElapsed(t) == IF lastTick = None THEN TickTime ELSE t - lastTick

\* elapsed_wall_seconds of a tick at time t.
Elapsed(t) ==
  IF lastTick = None THEN TickTime
  ELSE IF t < lastTick THEN 0 ELSE t - lastTick

\* new_cursor_raw.
Raw(t) == cursor + Elapsed(t) * Speed

Fits(t) == Raw(t) <= Span

\* Mutated form: the overflow is not taken modulo the window.
OverflowOnly(t) == Raw(t) - Span

\* wrapped_cursor.
Wrapped(t) == (Raw(t) - Span) % Span

NewCursor(t) == IF Fits(t) THEN Raw(t) ELSE Wrapped(t)

Between(low, high) == {r \in Readings : low < r /\ r <= high}

\* The SELECTs of a tick at time t, the cursor it will store, and its now.
TickRead ==
  /\ loop = "ready"
  /\ loop' = "open"
  /\ at' = now
  /\ target' = NewCursor(now)
  /\ ahead' = Between(cursor, IF Fits(now) THEN Raw(now) ELSE Span)
  /\ again' = IF Fits(now) THEN {} ELSE {r \in Readings : r <= Wrapped(now)}
  /\ UNCHANGED <<clock, slept, state>>

\* The session of the tick is closed.
TickOver ==
  /\ at' = 0
  /\ target' = 0
  /\ ahead' = {}
  /\ again' = {}

Rows(r) == (IF r \in ahead THEN 1 ELSE 0) + (IF r \in again THEN 1 ELSE 0)

\* Mutated form: last_tick_at is the time of the commit.
CommitTime == now

\* last_tick_at = now, the tick's own.
TickAt == at

\* The copies, the cursor and last_tick_at are committed together.
TickCommit ==
  /\ loop = "open"
  /\ copies' = [r \in Readings |-> copies[r] + Rows(r)]
  /\ cursor' = target
  /\ lastTick' = TickAt
  /\ firstTick' = IF firstTick = None THEN at ELSE firstTick
  /\ smooth' = (smooth /\ (lastTick = None \/ at >= lastTick) /\ Raw(at) < cursor + Span)
  /\ loop' = "asleep"
  /\ slept' = 0
  /\ TickOver
  /\ UNCHANGED clock

\* A database error leaves tick_once and ends the task: the session rolls
\* back and nothing starts the loop again before the process does.
TickFail ==
  /\ loop \in {"ready", "open"}
  /\ loop' = "dead"
  /\ TickOver
  /\ UNCHANGED <<clock, slept, state>>

-----------------------------------------------------------------------------
(* The task: run_replay_loop and its start and end in main.lifespan.        *)

\* asyncio.sleep is over; a busy event loop may wake the task later.
Wake ==
  /\ loop = "asleep"
  /\ slept = TickTime
  /\ loop' = "ready"
  /\ slept' = 0
  /\ UNCHANGED <<clock, state, tick>>

StartLoop ==
  /\ loop = "down"
  /\ loop' = "ready"
  /\ UNCHANGED <<clock, slept, state, tick>>

\* Shutdown cancels the task, a crash kills it: an open tick rolls back.
StopLoop ==
  /\ loop # "down"
  /\ loop' = "down"
  /\ slept' = 0
  /\ TickOver
  /\ UNCHANGED <<clock, state>>

-----------------------------------------------------------------------------
Next ==
  \/ Pass
  \/ SetBack
  \/ TickRead
  \/ TickCommit
  \/ TickFail
  \/ Wake
  \/ StartLoop
  \/ StopLoop

Spec == Init /\ [][Next]_vars

-----------------------------------------------------------------------------
(* Properties.                                                              *)

\* Whatever stops, failures, late ticks and clock corrections happen, the
\* stream stays even: the readings at and before the cursor have one copy more
\* than the first reading of the window, which the first lap leaves out, and
\* those behind it as many.  No tick's slice is lost or committed twice.
EvenReplay ==
  \A r \in Readings :
    copies[r] = copies[0] + (IF 0 < r /\ r <= cursor THEN 1 ELSE 0)

\* The virtual clock loses no time: unless the wall clock was set back or a
\* tick covered the whole window (a long outage), the laps and the cursor are
\* exactly Speed times the time since the first tick, with TickTime for it.
VirtualClockKept ==
  smooth /\ lastTick # None =>
    cursor + Span * copies[0] = Speed * (TickTime + lastTick - firstTick)
=============================================================================
