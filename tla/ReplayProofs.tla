----------------------------- MODULE ReplayProofs -----------------------------
(***************************************************************************)
(* The replay engine for every window, set of readings, speed and cadence: *)
(* the stream it writes is even and its virtual clock loses no time; and   *)
(* the health of smvu next to it, for every number of operators and every  *)
(* setting: the engine goes on as if nobody watched it, its death is seen, *)
(* and a request that ran alone has the last word.                         *)
(***************************************************************************)
EXTENDS SourceHealth, TLAPS

-----------------------------------------------------------------------------
(* The arithmetic of a tick.                                                *)

LEMMA ModRange ==
  ASSUME NEW a \in Nat, NEW b \in Nat \ {0}
  PROVE  a % b \in 0 .. b - 1
OBVIOUS

LEMMA ModSmall ==
  ASSUME NEW a \in Nat, NEW b \in Nat \ {0}, a < b
  PROVE  a % b = a
OBVIOUS

LEMMA TimesSum ==
  ASSUME NEW a \in Int, NEW b \in Int, NEW c \in Int
  PROVE  a * (b + c) = a * b + a * c
OBVIOUS

LEMMA TimesNat ==
  ASSUME NEW a \in Nat, NEW b \in Nat
  PROVE  a * b \in Nat
OBVIOUS

\* The new cursor of a tick lies in the window, and a tick that wraps
\* around ends before the end of the window.
LEMMA TickRange ==
  ASSUME TypeOK, NEW t \in Nat
  PROVE  /\ Elapsed(t) \in Nat
         /\ Raw(t) \in Nat
         /\ cursor <= Raw(t)
         /\ ~Fits(t) => Wrapped(t) \in 0 .. Span - 1
         /\ NewCursor(t) \in 0 .. Span
<1> USE ReplayAssumption DEF TypeOK
<1>1. Elapsed(t) \in Nat
  BY DEF Elapsed
<1>2. Elapsed(t) * Speed \in Nat
  BY <1>1, TimesNat
<1>3. Raw(t) \in Nat /\ cursor <= Raw(t)
  BY <1>2 DEF Raw
<1>4. ASSUME ~Fits(t) PROVE Wrapped(t) \in 0 .. Span - 1
  <2>1. Raw(t) - Span \in Nat
    BY <1>3, <1>4 DEF Fits
  <2> QED  BY <2>1, ModRange DEF Wrapped
<1>5. NewCursor(t) \in 0 .. Span
  BY <1>3, <1>4 DEF NewCursor, Fits
<1> QED  BY <1>1, <1>3, <1>4, <1>5

-----------------------------------------------------------------------------
(* Type correctness.                                                        *)

LEMMA InitTypeOK == Init => TypeOK
BY ReplayAssumption DEF Init, TypeOK

LEMMA NextTypeOK == TypeOK /\ [Next]_vars => TypeOK'
<1> SUFFICES ASSUME TypeOK, [Next]_vars
             PROVE  TypeOK'
  OBVIOUS
<1> USE ReplayAssumption DEF TypeOK, clock, state, tick
<1>1. CASE Pass
  BY <1>1 DEF Pass
<1>2. CASE SetBack
  BY <1>2 DEF SetBack
<1>3. CASE TickRead
  <2>1. target' \in 0 .. Span
    BY <1>3, TickRange DEF TickRead
  <2>2. ahead' \subseteq Readings /\ again' \subseteq Readings
    BY <1>3 DEF TickRead, Between
  <2> QED  BY <1>3, <2>1, <2>2 DEF TickRead
<1>4. CASE TickCommit
  <2>1. smooth' \in BOOLEAN
    BY <1>4 DEF TickCommit
  <2>2. copies' \in [Readings -> Nat]
    <3>1. \A r \in Readings : copies[r] + Rows(r) \in Nat
      BY DEF Rows
    <3> QED  BY <1>4, <3>1 DEF TickCommit
  <2> QED  BY <1>4, <2>1, <2>2 DEF TickCommit, TickAt, TickOver
<1>5. CASE TickFail
  BY <1>5 DEF TickFail, TickOver
<1>6. CASE Wake
  BY <1>6 DEF Wake
<1>7. CASE StartLoop
  BY <1>7 DEF StartLoop
<1>8. CASE StopLoop
  BY <1>8 DEF StopLoop, TickOver
<1>9. CASE UNCHANGED vars
  BY <1>9 DEF vars
<1> QED  BY <1>1, <1>2, <1>3, <1>4, <1>5, <1>6, <1>7, <1>8, <1>9 DEF Next

\* Every variable keeps its type: in particular the virtual cursor never
\* leaves the window of historical readings (tick_once, the wrap-around).
THEOREM TypeCorrect == Spec => []TypeOK
BY InitTypeOK, NextTypeOK, PTL DEF Spec

-----------------------------------------------------------------------------
(* What an open tick is about to commit: the stored position has not moved  *)
(* since the tick read it, because nothing else writes replay_state.        *)

TickIsOpen ==
  loop = "open" =>
    /\ target = NewCursor(at)
    /\ ahead = Between(cursor, IF Fits(at) THEN Raw(at) ELSE Span)
    /\ again = IF Fits(at) THEN {} ELSE {r \in Readings : r <= Wrapped(at)}

LEMMA InitTickIsOpen == Init => TickIsOpen
BY DEF Init, TickIsOpen

LEMMA NextTickIsOpen == TickIsOpen /\ [Next]_vars => TickIsOpen'
<1> SUFFICES ASSUME TickIsOpen, [Next]_vars
             PROVE  TickIsOpen'
  OBVIOUS
<1> USE DEF TickIsOpen, NewCursor, Between, Fits, Wrapped, Raw, Elapsed, clock, state, tick
<1>1. CASE Pass
  BY <1>1 DEF Pass
<1>2. CASE SetBack
  BY <1>2 DEF SetBack
<1>3. CASE TickRead
  BY <1>3 DEF TickRead
<1>4. CASE TickCommit
  BY <1>4 DEF TickCommit
<1>5. CASE TickFail
  BY <1>5 DEF TickFail, TickOver
<1>6. CASE Wake
  BY <1>6 DEF Wake
<1>7. CASE StartLoop
  BY <1>7 DEF StartLoop
<1>8. CASE StopLoop
  BY <1>8 DEF StopLoop, TickOver
<1>9. CASE UNCHANGED vars
  BY <1>9 DEF vars
<1> QED  BY <1>1, <1>2, <1>3, <1>4, <1>5, <1>6, <1>7, <1>8, <1>9 DEF Next

\* Only a commit moves the stored position and the stream.
LEMMA OnlyCommitWrites == [Next]_vars => TickCommit \/ UNCHANGED state
BY DEF Next, vars, Pass, SetBack, TickRead, TickFail, Wake, StartLoop, StopLoop

-----------------------------------------------------------------------------
(* The even stream.                                                         *)

LEMMA InitEven == Init => EvenReplay
BY ReplayAssumption DEF Init, EvenReplay

LEMMA NextEven == TypeOK /\ TickIsOpen /\ EvenReplay /\ [Next]_vars => EvenReplay'
<1> SUFFICES ASSUME TypeOK, TickIsOpen, EvenReplay, TickCommit
             PROVE  EvenReplay'
  BY OnlyCommitWrites DEF EvenReplay, state
<1> SUFFICES ASSUME NEW r \in Readings
             PROVE  copies'[r] = copies'[0] + (IF 0 < r /\ r <= cursor' THEN 1 ELSE 0)
  BY DEF EvenReplay
<1> 0 \in Readings /\ r \in 0 .. Span /\ Span \in Nat \ {0}
  BY ReplayAssumption
<1> copies[r] \in Nat /\ copies[0] \in Nat /\ cursor \in 0 .. Span /\ at \in Nat
  BY DEF TypeOK
<1>1. copies[r] = copies[0] + (IF 0 < r /\ r <= cursor THEN 1 ELSE 0)
  BY DEF EvenReplay
<1>2. copies'[r] = copies[r] + Rows(r) /\ copies'[0] = copies[0] + Rows(0) /\ cursor' = target
  BY DEF TickCommit
<1>3. Raw(at) \in Nat /\ cursor <= Raw(at)
  BY TickRange
<1>4. CASE Fits(at)
  <2>1. target = Raw(at) /\ ahead = Between(cursor, Raw(at)) /\ again = {}
    BY <1>4 DEF TickIsOpen, TickCommit, NewCursor
  <2>2. Rows(0) = 0
    BY <2>1 DEF Rows, Between
  <2>3. Rows(r) = IF cursor < r /\ r <= Raw(at) THEN 1 ELSE 0
    BY <2>1 DEF Rows, Between
  <2> QED  BY <1>1, <1>2, <1>3, <2>1, <2>2, <2>3
<1>5. CASE ~Fits(at)
  <2>1. /\ target = Wrapped(at)
        /\ ahead = Between(cursor, Span)
        /\ again = {q \in Readings : q <= Wrapped(at)}
    BY <1>5 DEF TickIsOpen, TickCommit, NewCursor
  <2>2. Wrapped(at) \in 0 .. Span - 1
    BY <1>5, TickRange
  <2>3. Rows(0) = 1
    BY <2>1, <2>2 DEF Rows, Between
  <2>4. Rows(r) = (IF cursor < r THEN 1 ELSE 0) + (IF r <= Wrapped(at) THEN 1 ELSE 0)
    BY <2>1, <2>2 DEF Rows, Between
  <2> QED  BY <1>1, <1>2, <2>1, <2>2, <2>3, <2>4
<1> QED  BY <1>4, <1>5

\* The stream stays even over stops, failed ticks, late ticks and clock
\* corrections: tick_once commits copies and position together and cuts the
\* window into half-open slices.
THEOREM StreamIsEven == Spec => []EvenReplay
BY InitTypeOK, NextTypeOK, InitTickIsOpen, NextTickIsOpen, InitEven, NextEven, PTL DEF Spec

-----------------------------------------------------------------------------
(* The virtual clock.                                                       *)

\* VirtualClockKept, and what holds before the first tick.
ClockInv ==
  /\ VirtualClockKept
  /\ lastTick = None => firstTick = None /\ cursor = 0 /\ copies[0] = 0
  /\ lastTick # None => firstTick # None

LEMMA InitClock == Init => ClockInv
BY ReplayAssumption DEF Init, ClockInv, VirtualClockKept

\* A tick that covers less than the window passes its end at most once, and
\* the first reading of the window counts the passages.
LEMMA SmoothTick ==
  ASSUME TypeOK, TickIsOpen, TickCommit, Raw(at) < cursor + Span
  PROVE  cursor' + Span * copies'[0] = Raw(at) + Span * copies[0]
<1> DEFINE laps == copies[0]
<1>1. /\ Span \in Nat \ {0} /\ 0 \in Readings
      /\ laps \in Nat /\ cursor \in 0 .. Span /\ at \in Nat
  BY ReplayAssumption DEF TypeOK
<1>2. Raw(at) \in Nat
  BY <1>1, TickRange
<1>3. cursor' = target /\ copies'[0] = laps + Rows(0)
  BY <1>1 DEF TickCommit
<1>4. CASE Fits(at)
  <2>1. target = Raw(at) /\ Rows(0) = 0
    BY <1>1, <1>4 DEF TickIsOpen, TickCommit, NewCursor, Rows, Between
  <2>2. laps + 0 = laps
    BY <1>1
  <2> QED  BY <1>3, <2>1, <2>2
<1>5. CASE ~Fits(at)
  <2>1. Raw(at) - Span \in Nat /\ Raw(at) - Span < Span
    BY <1>1, <1>2, <1>5 DEF Fits
  <2>2. Wrapped(at) = Raw(at) - Span
    BY <1>1, <2>1, ModSmall DEF Wrapped
  <2>3. target = Raw(at) - Span
    BY <1>5, <2>2 DEF TickIsOpen, TickCommit, NewCursor
  <2>4. Rows(0) = 1
    BY <1>1, <1>5, <2>1, <2>2 DEF TickIsOpen, TickCommit, Rows, Between
  <2>5. Span * (laps + 1) = Span * laps + Span * 1
    BY <1>1, TimesSum
  <2>6. Span * laps \in Nat
    BY <1>1, TimesNat
  <2> HIDE DEF laps
  <2>7. cursor' + Span * copies'[0] = (Raw(at) - Span) + Span * (laps + 1)
    BY <1>3, <2>3, <2>4
  <2>8. Span * 1 = Span
    BY <1>1
  <2>9. (Raw(at) - Span) + (Span * laps + Span) = Raw(at) + Span * laps
    BY <1>1, <1>2, <2>6
  <2> QED  BY <2>5, <2>7, <2>8, <2>9 DEF laps
<1> QED  BY <1>4, <1>5

LEMMA NextClock == TypeOK /\ TickIsOpen /\ ClockInv /\ [Next]_vars => ClockInv'
<1> SUFFICES ASSUME TypeOK, TickIsOpen, ClockInv, TickCommit
             PROVE  ClockInv'
  BY OnlyCommitWrites DEF ClockInv, VirtualClockKept, state
<1>1. at \in Nat /\ None \notin Int /\ Speed \in Nat /\ TickTime \in Nat
  BY ReplayAssumption DEF TypeOK
<1>2. lastTick' = at /\ lastTick' # None /\ firstTick' # None
  BY <1>1 DEF TickCommit, TickAt, TypeOK
<1>3. ASSUME smooth'
      PROVE  cursor' + Span * copies'[0] = Speed * (TickTime + at - firstTick')
  <2>1. smooth /\ (lastTick = None \/ at >= lastTick) /\ Raw(at) < cursor + Span
    BY <1>3 DEF TickCommit
  <2>2. cursor' + Span * copies'[0] = Raw(at) + Span * copies[0]
    BY <2>1, SmoothTick
  <2>3. CASE lastTick = None
    <3>1. firstTick' = at /\ cursor = 0 /\ copies[0] = 0
      BY <2>3 DEF TickCommit, ClockInv
    <3>2. Raw(at) = 0 + TickTime * Speed
      BY <2>3, <3>1 DEF Raw, Elapsed
    <3>3. Span * 0 = 0 /\ TickTime * Speed = Speed * TickTime /\ Speed * TickTime \in Nat
      BY ReplayAssumption, <1>1, TimesNat
    <3>4. TickTime + at - at = TickTime
      BY <1>1
    <3> QED  BY <2>2, <3>1, <3>2, <3>3, <3>4
  <2>4. CASE lastTick # None
    <3> DEFINE before == TickTime + lastTick - firstTick
               step == at - lastTick
    <3>1. lastTick \in Nat /\ firstTick \in Nat /\ firstTick' = firstTick
      BY <2>4 DEF TypeOK, ClockInv, TickCommit
    <3>2. before \in Int /\ step \in Int /\ TickTime + at - firstTick = before + step
      BY <1>1, <3>1
    <3>3. cursor + Span * copies[0] = Speed * before
      BY <2>1, <2>4 DEF ClockInv, VirtualClockKept
    <3>4. Elapsed(at) = step
      BY <1>1, <2>1, <2>4, <3>1 DEF Elapsed
    <3> HIDE DEF before, step
    <3>5. Raw(at) = cursor + step * Speed
      BY <3>4 DEF Raw
    <3>6. Speed * (before + step) = Speed * before + Speed * step
      BY <1>1, <3>2, TimesSum
    <3>7. step * Speed = Speed * step /\ Speed * step \in Int
      BY <1>1, <3>2
    <3>8. cursor \in Nat /\ Span * copies[0] \in Nat
      BY ReplayAssumption, TimesNat DEF TypeOK
    <3>9. (cursor + Speed * step) + Span * copies[0] = (cursor + Span * copies[0]) + Speed * step
      BY <3>7, <3>8
    <3> QED  BY <2>2, <3>1, <3>2, <3>3, <3>5, <3>6, <3>7, <3>9
  <2> QED  BY <2>3, <2>4
<1> QED  BY <1>2, <1>3 DEF ClockInv, VirtualClockKept

\* As long as the wall clock is not set back and no outage lasts a whole
\* window, the engine's position is that of an ideal clock.
THEOREM ClockLosesNoTime == Spec => []VirtualClockKept
<1>1. ClockInv => VirtualClockKept
  BY DEF ClockInv
<1> QED
  BY <1>1, InitTypeOK, NextTypeOK, InitTickIsOpen, NextTickIsOpen, InitClock, NextClock, PTL DEF Spec

-----------------------------------------------------------------------------
(* The health of smvu: the engine does not notice it.                       *)

LEMMA HealthStep == [HealthNext]_allVars => [Next]_vars
BY DEF HealthNext, Next, allVars, Engine, ClockSetBack, Stop, Commit, DegradeRead, DegradeWrite,
       ClearRead, ClearWrite

\* The overrides and the requests for them never touch the engine: next to
\* them it takes the steps of run_replay_loop only.
THEOREM HealthImplementsReplay == HealthSpec => Spec
<1>1. HealthInit => Init
  BY DEF HealthInit
<1> QED  BY <1>1, HealthStep, PTL DEF HealthSpec, Spec

-----------------------------------------------------------------------------
(* Type correctness.                                                        *)

LEMMA InitHealthTypeOK == HealthInit => HealthTypeOK
<1> SUFFICES ASSUME HealthInit PROVE HealthTypeOK
  OBVIOUS
<1> USE HealthAssumption DEF HealthInit
<1>1. override \in Override
  BY DEF Override
<1>2. request \in [Operators -> Request \cup {Quiet}]
  OBVIOUS
<1> QED  BY <1>1, <1>2 DEF HealthTypeOK

\* A request that begins notes the row, and that it is not alone if it is not.
LEMMA BeginsTypes ==
  ASSUME HealthTypeOK, NEW o \in Operators, NEW kind \in {"degrade", "clear"},
         NEW asks \in Override, Begins(o, kind, asks)
  PROVE  /\ request' \in [Operators -> Request \cup {Quiet}]
         /\ requests' \in 0 .. MaxRequests
<1>1. [kind |-> kind, read |-> override, asks |-> asks, alone |-> InFlight = {}] \in Request
  BY DEF HealthTypeOK, Request
<1>2. ASSUME NEW p \in InFlight PROVE [request[p] EXCEPT !.alone = FALSE] \in Request
  <2>1. request[p] \in Request
    BY DEF InFlight, HealthTypeOK
  <2> QED  BY <2>1 DEF Request
<1>3. request' \in [Operators -> Request \cup {Quiet}]
  BY <1>1, <1>2 DEF Begins
<1>4. requests' \in 0 .. MaxRequests
  BY HealthAssumption DEF Begins, HealthTypeOK
<1> QED  BY <1>3, <1>4

\* The rows an override has.

\* A request in flight is known by its kind.
LEMMA InFlightKinds ==
  ASSUME HealthTypeOK, NEW o \in Operators
  PROVE  /\ o \in InFlight => request[o] \in Request
         /\ request[o].kind \in {"degrade", "clear"} => o \in InFlight
         /\ o \notin InFlight => request[o] = Quiet
BY DEF HealthTypeOK, InFlight, Quiet

\* What the UPDATE of a degrade request makes of a row.
LEMMA UpdatedRow ==
  ASSUME override \in Override, override # NoOverride,
         NEW read \in Override, read # NoOverride,
         NEW asks \in Override, asks # NoOverride
  PROVE  /\ Updated(read, asks) \in Override
         /\ Updated(read, asks) # NoOverride
         /\ Updated(read, asks).until \in {override.until, asks.until}
         /\ read = override => Updated(read, asks) = asks
<1>1. NoOverride.status = "none"
  BY DEF NoOverride
<1>2. /\ override \in [status : Forced, until : 0 .. MaxTime + Duration]
      /\ asks \in [status : Forced, until : 0 .. MaxTime + Duration]
  BY DEF Override
<1>3. Updated(read, asks).status \in {override.status, asks.status}
  BY DEF Updated
<1>4. Updated(read, asks).until \in {override.until, asks.until}
  BY DEF Updated
<1>5. Updated(read, asks) \in [status : Forced, until : 0 .. MaxTime + Duration]
  BY <1>2, <1>3, <1>4 DEF Updated
<1>6. Updated(read, asks) # NoOverride
  BY <1>1, <1>5 DEF Forced
<1>7. ASSUME read = override PROVE Updated(read, asks) = asks
  BY <1>2, <1>7 DEF Updated
<1> QED  BY <1>4, <1>5, <1>6, <1>7 DEF Override

\* A degrade request asks for a row, a clear request for none.
AsksFit == \A o \in InFlight : request[o].asks = NoOverride <=> request[o].kind = "clear"

HealthTypeInv == HealthTypeOK /\ AsksFit

LEMMA InitAsksFit == HealthInit => AsksFit
BY DEF HealthInit, AsksFit, InFlight

\* Who is in flight after a request has begun, and what the requests ask.
LEMMA BeginsStep ==
  ASSUME HealthTypeOK, NEW o \in Operators, NEW kind, NEW asks, Begins(o, kind, asks)
  PROVE  /\ o \notin InFlight /\ InFlight' \subseteq InFlight \cup {o} /\ o \in InFlight'
         /\ InFlight \subseteq InFlight'
         /\ /\ request'[o].kind = kind /\ request'[o].asks = asks
            /\ request'[o].read = override /\ (request'[o].alone => InFlight = {})
         /\ \A p \in InFlight : /\ request'[p].kind = request[p].kind
                                /\ request'[p].asks = request[p].asks
                                /\ ~request'[p].alone
<1> DEFINE new == [kind |-> kind, read |-> override, asks |-> asks, alone |-> InFlight = {}]
<1>1. request[o] = Quiet
  BY DEF Begins
<1>2. /\ request' = [p \in Operators |->
           IF p = o THEN new
           ELSE IF p \in InFlight THEN [request[p] EXCEPT !.alone = FALSE]
           ELSE Quiet]
  BY DEF Begins
<1>3. /\ new.kind = kind /\ new.asks = asks /\ new.read = override
      /\ new.alone => InFlight = {}
  OBVIOUS
<1>4. new # Quiet
  BY DEF Quiet
<1>5. ASSUME NEW p \in InFlight
      PROVE  /\ [request[p] EXCEPT !.alone = FALSE].kind = request[p].kind
             /\ [request[p] EXCEPT !.alone = FALSE].asks = request[p].asks
             /\ ~[request[p] EXCEPT !.alone = FALSE].alone
             /\ [request[p] EXCEPT !.alone = FALSE] # Quiet
  <2>1. request[p] \in Request
    BY InFlightKinds DEF InFlight
  <2> QED  BY <2>1 DEF Request, Quiet
<1> HIDE DEF new
<1>6. o \notin InFlight
  BY <1>1 DEF InFlight
<1> QED  BY <1>2, <1>3, <1>4, <1>5, <1>6 DEF InFlight

\* A request that is answered is not in flight any more; the others stay.
LEMMA AnswersStep ==
  ASSUME HealthTypeOK, NEW o \in Operators, Answers(o)
  PROVE  /\ request' \in [Operators -> Request \cup {Quiet}]
         /\ InFlight' = InFlight \ {o}
         /\ \A p \in InFlight' : request'[p] = request[p]
         /\ request[o] \in Request => word' \in Override \cup {None}
         /\ word' = IF request[o].alone THEN request[o].asks ELSE None
<1>1. request' = [request EXCEPT ![o] = Quiet]
      /\ word' = IF request[o].alone THEN request[o].asks ELSE None
  BY DEF Answers
<1>2. request' \in [Operators -> Request \cup {Quiet}]
  BY <1>1 DEF HealthTypeOK
<1>3. InFlight' = InFlight \ {o} /\ \A p \in InFlight' : request'[p] = request[p]
  BY <1>1 DEF InFlight, HealthTypeOK
<1>4. request[o] \in Request => word' \in Override \cup {None}
  BY <1>1 DEF Request
<1> QED  BY <1>1, <1>2, <1>3, <1>4

\* The row a degrade request leaves: as it was, or the request's.
LEMMA DegradeWriteStep ==
  ASSUME HealthTypeInv, NEW o \in Operators, DegradeWrite(o)
  PROVE  /\ o \in InFlight /\ request[o] \in Request /\ request[o].asks # NoOverride
         /\ override' \in Override
         /\ \/ override' = override
            \/ override' = request[o].asks
            \/ override # NoOverride /\ override'.until \in {override.until, request[o].asks.until}
         /\ request[o].read = override => override' = request[o].asks
<1> USE DEF HealthTypeInv
<1> DEFINE asks == request[o].asks
           read == request[o].read
<1>1. o \in InFlight /\ request[o] \in Request
  BY InFlightKinds DEF DegradeWrite
<1>2. asks \in Override /\ read \in Override /\ asks # NoOverride
  BY <1>1 DEF Request, AsksFit, DegradeWrite
<1>3. override \in Override
  BY DEF HealthTypeOK
<1> HIDE DEF asks, read
<1>4. override' =
       IF (override = NoOverride) # (read = NoOverride) THEN override
       ELSE IF override = NoOverride THEN asks
       ELSE Updated(read, asks)
  BY DEF DegradeWrite, asks, read
<1>5. CASE override = NoOverride
  BY <1>1, <1>2, <1>3, <1>4, <1>5 DEF asks, read
<1>6. CASE override # NoOverride /\ read = NoOverride
  BY <1>1, <1>2, <1>3, <1>4, <1>6 DEF asks, read
<1>7. CASE override # NoOverride /\ read # NoOverride
  <2>1. override' = Updated(read, asks)
    BY <1>4, <1>7
  <2>2. /\ Updated(read, asks) \in Override
        /\ Updated(read, asks).until \in {override.until, asks.until}
        /\ read = override => Updated(read, asks) = asks
    BY <1>2, <1>3, <1>7, UpdatedRow
  <2> QED  BY <1>1, <1>2, <1>7, <2>1, <2>2 DEF asks, read
<1> QED  BY <1>5, <1>6, <1>7

\* What a degrade request asks for is a row.
LEMMA DegradeAsks ==
  ASSUME TypeOK, NEW status \in Forced
  PROVE  /\ [status |-> status, until |-> Expiry] \in Override
         /\ [status |-> status, until |-> Expiry] # NoOverride
         /\ [status |-> status, until |-> Expiry].until = now + Duration
<1>1. now + Duration \in 0 .. MaxTime + Duration
  BY HealthAssumption, ReplayAssumption DEF TypeOK
<1>2. [status |-> status, until |-> Expiry] \in [status : Forced, until : 0 .. MaxTime + Duration]
  BY <1>1 DEF Expiry
<1>3. [status |-> status, until |-> Expiry] # NoOverride
  BY DEF Forced, NoOverride
<1> QED  BY <1>2, <1>3 DEF Override, Expiry

LEMMA NextHealthTypeInv ==
  TypeOK /\ HealthTypeInv /\ [HealthNext]_allVars => HealthTypeInv'
<1> SUFFICES ASSUME TypeOK, HealthTypeInv, [HealthNext]_allVars
             PROVE  HealthTypeInv'
  OBVIOUS
<1> USE DEF HealthTypeInv
<1>t. /\ now \in 0 .. MaxTime /\ override \in Override /\ word \in Override \cup {None}
      /\ request \in [Operators -> Request \cup {Quiet}]
      /\ requests \in 0 .. MaxRequests
      /\ {committedAt, askedAt} \subseteq (0 .. MaxTime) \cup {None}
  BY DEF TypeOK, HealthTypeOK
<1>1. ASSUME UNCHANGED <<override, request, requests, word>>,
             {committedAt', askedAt'} \subseteq {committedAt, askedAt, now, None}
      PROVE  HealthTypeInv'
  BY <1>1, <1>t DEF HealthTypeOK, AsksFit, InFlight
<1>2. CASE Engine \/ ClockSetBack \/ Commit \/ UNCHANGED allVars
  BY <1>1, <1>2 DEF Engine, ClockSetBack, Commit, healthVars, allVars
<1>3. CASE Stop
  <2>1. InFlight' = {}
    BY <1>3 DEF Stop, InFlight
  <2>2. request' \in [Operators -> Request \cup {Quiet}]
    BY <1>3 DEF Stop
  <2> QED  BY <1>3, <1>t, <2>1, <2>2 DEF Stop, HealthTypeOK, AsksFit
<1>4. ASSUME NEW o \in Operators, NEW kind \in {"degrade", "clear"}, NEW asks \in Override,
             asks = NoOverride <=> kind = "clear",
             Begins(o, kind, asks),
             UNCHANGED <<override, word>>,
             {committedAt', askedAt'} \subseteq {committedAt, askedAt, now, None}
      PROVE  HealthTypeInv'
  <2>1. HealthTypeOK'
    BY <1>4, <1>t, BeginsTypes DEF HealthTypeOK
  <2>2. AsksFit'
    BY <1>4, BeginsStep DEF AsksFit
  <2> QED  BY <2>1, <2>2
<1>5. ASSUME NEW o \in Operators, DegradeRead(o) PROVE HealthTypeInv'
  <2>1. PICK status \in Forced : Begins(o, "degrade", [status |-> status, until |-> Expiry])
    BY <1>5 DEF DegradeRead
  <2>2. /\ UNCHANGED <<override, word>>
        /\ {committedAt', askedAt'} \subseteq {committedAt, askedAt, now, None}
    BY <1>5 DEF DegradeRead
  <2> QED  BY <1>4, <2>1, <2>2, DegradeAsks
<1>6. ASSUME NEW o \in Operators, ClearRead(o) PROVE HealthTypeInv'
  <2>1. NoOverride \in Override
    BY DEF Override
  <2> QED  BY <1>4, <1>6, <2>1 DEF ClearRead
<1>7. ASSUME NEW o \in Operators, request[o] \in Request, Answers(o), override' \in Override,
             UNCHANGED <<requests, committedAt, askedAt>>
      PROVE  HealthTypeInv'
  <2>1. HealthTypeOK'
    BY <1>7, <1>t, AnswersStep DEF HealthTypeOK
  <2>2. AsksFit'
    BY <1>7, AnswersStep DEF AsksFit
  <2> QED  BY <2>1, <2>2
<1>8. ASSUME NEW o \in Operators, DegradeWrite(o) PROVE HealthTypeInv'
  BY <1>7, <1>8, DegradeWriteStep DEF DegradeWrite
<1>9. ASSUME NEW o \in Operators, ClearWrite(o) PROVE HealthTypeInv'
  <2>1. request[o] \in Request
    BY <1>9, InFlightKinds DEF ClearWrite
  <2>2. override' \in Override
    BY <1>9, <1>t DEF ClearWrite, Override
  <2> QED  BY <1>7, <1>9, <2>1, <2>2 DEF ClearWrite
<1> QED
  BY <1>2, <1>3, <1>5, <1>6, <1>8, <1>9 DEF HealthNext

\* The row, the requests and what the history variables note keep their types
\* next to the engine; a degrade request always asks for a row.
THEOREM HealthTypeCorrect == HealthSpec => [](TypeOK /\ HealthTypeOK)
<1>1. HealthSpec => []TypeOK
  BY HealthImplementsReplay, TypeCorrect, PTL
<1>2. HealthInit => HealthTypeInv
  BY InitHealthTypeOK, InitAsksFit DEF HealthTypeInv
<1>3. HealthTypeInv => HealthTypeOK
  BY DEF HealthTypeInv
<1> QED  BY <1>1, <1>2, <1>3, NextHealthTypeInv, PTL DEF HealthSpec

-----------------------------------------------------------------------------
(* The last word.                                                           *)

\* A request that runs alone is the only one in flight, and the row is still
\* the one it has read: only answers write it.
AloneReads ==
  \A o \in InFlight : request[o].alone => InFlight = {o} /\ request[o].read = override

WordInv == AloneReads /\ LastWord

LEMMA InitWordInv == HealthInit => WordInv
BY DEF HealthInit, WordInv, AloneReads, LastWord, InFlight

LEMMA NextWordInv == HealthTypeInv /\ WordInv /\ [HealthNext]_allVars => WordInv'
<1> SUFFICES ASSUME HealthTypeInv, WordInv, [HealthNext]_allVars
             PROVE  WordInv'
  OBVIOUS
<1> USE DEF WordInv
<1>h. HealthTypeOK
  BY DEF HealthTypeInv
<1>1. CASE UNCHANGED <<override, request, word>>
  BY <1>1 DEF AloneReads, LastWord, InFlight
<1>2. CASE Stop
  <2>1. InFlight' = {}
    BY <1>2 DEF Stop, InFlight
  <2> QED  BY <1>2, <2>1 DEF Stop, AloneReads, LastWord
<1>3. ASSUME NEW o \in Operators, NEW kind, NEW asks, Begins(o, kind, asks),
             UNCHANGED <<override, word>>
      PROVE  WordInv'
  <2>1. LastWord'
    BY <1>3 DEF LastWord
  <2>2. ASSUME NEW p \in InFlight', request'[p].alone
        PROVE  InFlight' = {p} /\ request'[p].read = override'
    <3>1. p = o /\ InFlight = {}
      BY <1>3, <1>h, <2>2, BeginsStep
    <3> QED  BY <1>3, <1>h, <3>1, BeginsStep
  <2> QED  BY <2>1, <2>2 DEF AloneReads
<1>4. ASSUME NEW o \in InFlight, request[o] \in Request, Answers(o),
             request[o].read = override => override' = request[o].asks
      PROVE  WordInv'
  <2>1. /\ InFlight' = InFlight \ {o}
        /\ \A p \in InFlight' : request'[p] = request[p]
        /\ word' = IF request[o].alone THEN request[o].asks ELSE None
    BY <1>4, <1>h, AnswersStep DEF InFlight
  <2>2. LastWord'
    BY <1>4, <2>1 DEF LastWord, AloneReads
  <2>3. ASSUME NEW p \in InFlight' PROVE ~request'[p].alone
    <3>1. p \in InFlight /\ p # o /\ request'[p] = request[p]
      BY <2>1
    <3>2. request[p].alone => InFlight = {p}
      BY <3>1 DEF AloneReads
    <3> QED  BY <1>4, <3>1, <3>2
  <2> QED  BY <2>2, <2>3 DEF AloneReads
<1>5. ASSUME NEW o \in Operators, DegradeWrite(o) PROVE WordInv'
  BY <1>4, <1>5, DegradeWriteStep DEF DegradeWrite
<1>6. ASSUME NEW o \in Operators, ClearWrite(o) PROVE WordInv'
  <2>1. o \in InFlight /\ request[o] \in Request
    BY <1>6, <1>h, InFlightKinds DEF ClearWrite
  <2>2. request[o].asks = NoOverride
    BY <1>6, <2>1 DEF ClearWrite, HealthTypeInv, AsksFit
  <2>3. request[o].read = override => override' = request[o].asks
    BY <1>6, <2>2 DEF ClearWrite
  <2> QED  BY <1>4, <1>6, <2>1, <2>3 DEF ClearWrite
<1> QED
  BY <1>1, <1>2, <1>3, <1>5, <1>6
     DEF HealthNext, Engine, ClockSetBack, Commit, DegradeRead, ClearRead, healthVars, allVars

\* An operator's request during which no other was on its way decides what the
\* row says until the next answer, although the row is read and written in two
\* statements.
THEOREM LastWordCounts == HealthSpec => []LastWord
<1>1. HealthSpec => []TypeOK
  BY HealthImplementsReplay, TypeCorrect, PTL
<1>2. HealthInit => HealthTypeInv
  BY InitHealthTypeOK, InitAsksFit DEF HealthTypeInv
<1>3. WordInv => LastWord
  BY DEF WordInv
<1> QED
  BY <1>1, <1>2, <1>3, NextHealthTypeInv, InitWordInv, NextWordInv, PTL DEF HealthSpec

-----------------------------------------------------------------------------
(* A dead engine is seen.                                                   *)

\* No row expires later than Duration after the last degrade request: neither
\* the override nor what a request in flight is going to write.
NotBeyond(row) == row # NoOverride => askedAt # None /\ row.until <= askedAt + Duration

\* While the clock has only gone forward, what has been noted lies in the past:
\* the ticks' own times are not after their commits.
AgeInv ==
  setbacks = 0 =>
    /\ lastTick # None => committedAt # None /\ lastTick <= committedAt
    /\ loop = "open" => at <= now
    /\ askedAt # None => askedAt <= now
    /\ NotBeyond(override)
    /\ \A o \in InFlight : NotBeyond(request[o].asks)

LEMMA InitAgeInv == HealthInit => AgeInv
BY DEF HealthInit, Init, AgeInv, InFlight, NotBeyond

\* The numbers among them.
LEMMA AgeTypes ==
  ASSUME TypeOK, HealthTypeOK
  PROVE  /\ now \in Nat /\ at \in Nat /\ setbacks \in Nat
         /\ Duration \in Nat /\ Fresh \in Nat /\ Delayed \in Nat /\ Fresh < Delayed
         /\ lastTick # None => lastTick \in Nat
         /\ committedAt # None => committedAt \in Nat
         /\ askedAt # None => askedAt \in Nat
         /\ None \notin Int
         /\ override.until \in Nat
         /\ \A o \in InFlight : request[o].asks.until \in Nat
<1> USE ReplayAssumption, HealthAssumption
<1>1. \A row \in Override : row.until \in Nat
  BY DEF Override, NoOverride
<1>2. override \in Override /\ \A o \in InFlight : request[o].asks \in Override
  <2>1. \A o \in InFlight : request[o] \in Request
    BY InFlightKinds DEF InFlight
  <2> QED  BY <2>1 DEF HealthTypeOK, Request
<1> QED  BY <1>1, <1>2 DEF TypeOK, HealthTypeOK

LEMMA NextAgeInv ==
  TypeOK /\ HealthTypeInv /\ AgeInv /\ [HealthNext]_allVars => AgeInv'
<1> SUFFICES ASSUME TypeOK, HealthTypeInv, AgeInv, [HealthNext]_allVars, setbacks' = 0
             PROVE  AgeInv'
  BY DEF AgeInv
<1>h. HealthTypeOK
  BY DEF HealthTypeInv
<1>0. setbacks = 0 /\ ~ClockSetBack
  <2>1. setbacks \in Nat
    BY <1>h, AgeTypes
  <2>2. ~ClockSetBack
    BY <2>1 DEF ClockSetBack, SetBack
  <2>3. setbacks' = setbacks \/ ClockSetBack
    BY DEF HealthNext, Engine, Stop, Commit, DegradeRead, DegradeWrite, ClearRead, ClearWrite,
           Pass, TickRead, TickCommit, TickFail, Wake, StartLoop, StopLoop, clock, vars, allVars
  <2> QED  BY <2>2, <2>3
<1>a. /\ lastTick # None => committedAt # None /\ lastTick <= committedAt
      /\ loop = "open" => at <= now
      /\ askedAt # None => askedAt <= now
      /\ NotBeyond(override)
      /\ \A o \in InFlight : NotBeyond(request[o].asks)
  BY <1>0 DEF AgeInv
<1>t. /\ now \in Nat /\ at \in Nat /\ None \notin Int /\ now <= now
      /\ Duration \in Nat
      /\ lastTick # None => lastTick \in Nat
      /\ committedAt # None => committedAt \in Nat
      /\ askedAt # None => askedAt \in Nat
      /\ override.until \in Nat
      /\ \A o \in InFlight : request[o].asks.until \in Nat
  BY <1>h, AgeTypes
<1>1. CASE Pass /\ UNCHANGED healthVars
  <2>1. UNCHANGED <<loop, at, lastTick, committedAt, askedAt, override, request>> /\ now' = now + 1
    BY <1>1 DEF Pass, state, tick, healthVars
  <2> QED  BY <1>a, <1>t, <2>1 DEF AgeInv, NotBeyond, InFlight
<1>2. CASE TickRead /\ UNCHANGED healthVars
  <2>1. UNCHANGED <<now, lastTick, committedAt, askedAt, override, request>> /\ at' = now
    BY <1>2 DEF TickRead, clock, state, healthVars
  <2> QED  BY <1>a, <1>t, <2>1 DEF AgeInv, NotBeyond, InFlight
<1>3. CASE (TickFail \/ Wake \/ StartLoop) /\ UNCHANGED healthVars
  <2>1. /\ UNCHANGED <<now, lastTick, committedAt, askedAt, override, request>>
        /\ loop' # "open"
    BY <1>3 DEF TickFail, Wake, StartLoop, clock, state, healthVars
  <2> QED  BY <1>a, <2>1 DEF AgeInv, NotBeyond, InFlight
<1>4. CASE Stop
  <2>1. /\ UNCHANGED <<now, lastTick, committedAt, askedAt, override>>
        /\ loop' # "open" /\ InFlight' = {}
    BY <1>4 DEF Stop, StopLoop, clock, state, InFlight
  <2> QED  BY <1>a, <2>1 DEF AgeInv, NotBeyond
<1>5. CASE Commit
  <2>1. /\ UNCHANGED <<now, askedAt, override, request>>
        /\ loop = "open" /\ loop' = "asleep" /\ lastTick' = at /\ committedAt' = now
    BY <1>0, <1>5 DEF Commit, TickCommit, TickAt, clock
  <2> QED  BY <1>a, <1>t, <2>1 DEF AgeInv, NotBeyond, InFlight
<1>6. ASSUME NEW o \in Operators, DegradeRead(o) PROVE AgeInv'
  <2>1. PICK status \in Forced : Begins(o, "degrade", [status |-> status, until |-> Expiry])
    BY <1>6 DEF DegradeRead
  <2>2. UNCHANGED <<now, loop, at, lastTick, committedAt, override>> /\ askedAt' = now
    BY <1>0, <1>6 DEF DegradeRead, vars, clock, state, tick
  <2>3. NotBeyond(override)'
    BY <1>a, <1>t, <2>2 DEF NotBeyond
  <2>4. \A p \in InFlight' : NotBeyond(request[p].asks)'
    <3> SUFFICES ASSUME NEW p \in InFlight', request'[p].asks # NoOverride
                 PROVE  request'[p].asks.until <= now + Duration
      BY <1>t, <2>2 DEF NotBeyond
    <3>1. CASE p = o
      BY <1>h, <1>t, <2>1, <3>1, BeginsStep, DegradeAsks
    <3>2. CASE p # o
      <4>1. p \in InFlight /\ request'[p].asks = request[p].asks
        BY <1>h, <2>1, <3>2, BeginsStep
      <4> QED  BY <1>a, <1>t, <4>1 DEF NotBeyond
    <3> QED  BY <3>1, <3>2
  <2> QED  BY <1>a, <1>t, <2>2, <2>3, <2>4 DEF AgeInv
<1>7. ASSUME NEW o \in Operators, ClearRead(o) PROVE AgeInv'
  <2>1. UNCHANGED <<now, loop, at, lastTick, committedAt, askedAt, override>>
    BY <1>7 DEF ClearRead, vars, clock, state, tick
  <2>2. \A p \in InFlight' : NotBeyond(request[p].asks)'
    <3> SUFFICES ASSUME NEW p \in InFlight', request'[p].asks # NoOverride
                 PROVE  p \in InFlight /\ request'[p].asks = request[p].asks
      BY <1>a, <2>1 DEF NotBeyond
    <3> QED  BY <1>7, <1>h, BeginsStep DEF ClearRead
  <2> QED  BY <1>a, <2>1, <2>2 DEF AgeInv, NotBeyond
<1>8. ASSUME NEW o \in InFlight, Answers(o), UNCHANGED <<vars, askedAt, committedAt>>,
             NotBeyond(override)'
      PROVE  AgeInv'
  <2>1. UNCHANGED <<now, loop, at, lastTick, committedAt, askedAt>>
    BY <1>8 DEF vars, clock, state, tick
  <2>2. \A p \in InFlight' : p \in InFlight /\ request'[p] = request[p]
    BY <1>8, <1>h, AnswersStep DEF InFlight
  <2>3. \A p \in InFlight' : NotBeyond(request[p].asks)'
    BY <1>a, <2>1, <2>2 DEF NotBeyond
  <2> QED  BY <1>8, <1>a, <2>1, <2>3 DEF AgeInv
<1>9. ASSUME NEW o \in Operators, DegradeWrite(o) PROVE AgeInv'
  <2>1. /\ o \in InFlight /\ request[o].asks # NoOverride
        /\ \/ override' = override
           \/ override' = request[o].asks
           \/ override # NoOverride /\ override'.until \in {override.until, request[o].asks.until}
    BY <1>9, DegradeWriteStep
  <2>2. UNCHANGED <<vars, askedAt, committedAt>> /\ Answers(o)
    BY <1>9 DEF DegradeWrite
  <2>3. NotBeyond(override)'
    BY <1>a, <2>1, <2>2 DEF NotBeyond
  <2> QED  BY <1>8, <2>1, <2>2, <2>3
<1>10. ASSUME NEW o \in Operators, ClearWrite(o) PROVE AgeInv'
  <2>1. o \in InFlight
    BY <1>10, <1>h, InFlightKinds DEF ClearWrite
  <2>2. UNCHANGED <<vars, askedAt, committedAt>> /\ Answers(o)
    BY <1>10 DEF ClearWrite
  <2>3. NotBeyond(override)'
    BY <1>10, <1>a DEF ClearWrite, NotBeyond
  <2> QED  BY <1>8, <2>1, <2>2, <2>3
<1>11. CASE UNCHANGED allVars
  BY <1>11, <1>a DEF allVars, vars, clock, state, tick, healthVars, AgeInv, NotBeyond, InFlight
<1> QED
  BY <1>0, <1>1, <1>2, <1>3, <1>4, <1>5, <1>6, <1>7, <1>9, <1>10, <1>11 DEF HealthNext, Engine

\* A replay engine that hangs, died or was stopped is reported unavailable once
\* its last commit is older than Delayed and the last degrade request older
\* than Duration, however the degrade and clear requests before raced.
THEOREM DeadEngineIsSeen == HealthSpec => []DeadIsSeen
<1>1. TypeOK /\ HealthTypeInv /\ AgeInv => DeadIsSeen
  <2> SUFFICES ASSUME TypeOK, HealthTypeOK, AgeInv, setbacks = 0,
                      committedAt # None => now - committedAt > Delayed,
                      askedAt # None => now - askedAt >= Duration
               PROVE  Reported = "unavailable"
    BY DEF HealthTypeInv, DeadIsSeen
  <2>1. ~InEffect(override)
    BY AgeTypes DEF InEffect, AgeInv, NotBeyond
  <2>2. ByAge(lastTick) = "unavailable"
    BY AgeTypes DEF ByAge, AgeInv
  <2> QED  BY <2>1, <2>2 DEF Reported
<1>2. HealthSpec => []TypeOK
  BY HealthImplementsReplay, TypeCorrect, PTL
<1>3. HealthInit => HealthTypeInv
  BY InitHealthTypeOK, InitAsksFit DEF HealthTypeInv
<1> QED
  BY <1>1, <1>2, <1>3, NextHealthTypeInv, InitAgeInv, NextAgeInv, PTL DEF HealthSpec
=============================================================================
