---------------------------- MODULE SourceHealth ----------------------------
(***************************************************************************)
(* The health of the emulated sources (source_health.py) next to the       *)
(* replay engine it watches: a source's status follows from the age of its *)
(* last success, unless an operator's override (api/system.py) forces it   *)
(* for a while.  smvu is modelled, whose last success is the replay's      *)
(* last_tick_at; the synthetic providers leave their one mark in Startup.  *)
(*                                                                         *)
(* An override request reads the row in one statement and writes it in     *)
(* another; the ORM writes the attributes that differ from what it read.   *)
(***************************************************************************)
EXTENDS Replay

CONSTANTS
  Fresh,        \* FRESHNESS_BOUNDARIES: "fresh", in ticks of the clock
  Delayed,      \* FRESHNESS_BOUNDARIES: "delayed"
  Duration,     \* duration_seconds of the degrade requests
  Operators,    \* requests that may be in flight at the same time
  MaxRequests   \* bound: override requests made

ASSUME HealthAssumption ==
  /\ Fresh \in Nat
  /\ Delayed \in Nat
  /\ Fresh < Delayed
  /\ Duration \in Nat \ {0}
  /\ MaxRequests \in Nat

HealthStatuses == {"online", "delayed", "unavailable"}

\* Statuses an operator asks for: the two that hide the truth.
Forced == {"online", "unavailable"}

NoOverride == [status |-> "none", until |-> 0]
Override == {NoOverride} \cup [status : Forced, until : 0 .. MaxTime + Duration]
Request == [kind : {"degrade", "clear"}, read : Override, asks : Override, alone : BOOLEAN]
Quiet == [kind |-> "none"]

VARIABLES
  override,    \* the smvu row of source_health_overrides
  request,     \* per operator: the override request in flight
  requests,    \* override requests made so far
  committedAt, \* history: when the last tick was committed
  askedAt,     \* history: when the last degrade request read the clock, likewise
  word         \* history: what the last answered request asked, if it ran alone

healthVars == <<override, request, requests, committedAt, askedAt, word>>
allVars == <<vars, healthVars>>

InFlight == {o \in Operators : request[o] # Quiet}

HealthTypeOK ==
  /\ override \in Override
  /\ request \in [Operators -> Request \cup {Quiet}]
  /\ requests \in 0 .. MaxRequests
  /\ {committedAt, askedAt} \subseteq (0 .. MaxTime) \cup {None}
  /\ word \in Override \cup {None}

HealthInit ==
  /\ Init
  /\ override = NoOverride
  /\ request = [o \in Operators |-> Quiet]
  /\ requests = 0
  /\ committedAt = None
  /\ askedAt = None
  /\ word = None

-----------------------------------------------------------------------------
(* GET /system/source-health.                                               *)

\* _status_for_age; a clock set back makes a negative age, which is fresh.
ByAge(last) ==
  IF last = None THEN "unavailable"
  ELSE IF now - last <= Fresh THEN "online"
  ELSE IF now - last <= Delayed THEN "delayed"
  ELSE "unavailable"

\* Mutated form: an override counts although it has expired.
Unexpired(row) == row # NoOverride

\* override.expires_at > now.
InEffect(row) == row # NoOverride /\ row.until > now

\* get_source_health: the status of smvu.
Reported == IF InEffect(override) THEN override.status ELSE ByAge(lastTick)

-----------------------------------------------------------------------------
(* POST and DELETE /system/source-health/{source}/degrade.                  *)

\* The request begins: whoever is in flight is not alone any more.
Begins(o, kind, asks) ==
  /\ request[o] = Quiet
  /\ requests < MaxRequests
  /\ requests' = requests + 1
  /\ request' = [p \in Operators |->
       IF p = o
       THEN [kind |-> kind, read |-> override, asks |-> asks, alone |-> InFlight = {}]
       ELSE IF p \in InFlight THEN [request[p] EXCEPT !.alone = FALSE]
       ELSE Quiet]

\* expires_at of a degrade request.
Expiry == now + Duration

\* session.get of the row, after now and expires_at.
DegradeRead(o) ==
  \E status \in Forced :
    /\ Begins(o, "degrade", [status |-> status, until |-> Expiry])
    /\ askedAt' = IF setbacks = 0 THEN now ELSE None
    /\ UNCHANGED <<vars, override, committedAt, word>>

\* Mutated form: the row keeps the status it had.
UntilOnly(read, asks) == [override EXCEPT !.until = asks.until]

\* The UPDATE of the changed attributes of the row that was read.
Updated(read, asks) ==
  [status |-> IF asks.status = read.status THEN override.status ELSE asks.status,
   until |-> IF asks.until = read.until THEN override.until ELSE asks.until]

\* The request is answered: word is what it asked if it ran alone.
Answers(o) ==
  /\ request' = [request EXCEPT ![o] = Quiet]
  /\ word' = IF request[o].alone THEN request[o].asks ELSE None

\* INSERT or UPDATE and commit.  A row that another request inserted breaks
\* the primary key, one it deleted matches no row: the request fails (500).
DegradeWrite(o) ==
  /\ request[o].kind = "degrade"
  /\ Answers(o)
  /\ override' =
       IF (override = NoOverride) # (request[o].read = NoOverride) THEN override
       ELSE IF override = NoOverride THEN request[o].asks
       ELSE Updated(request[o].read, request[o].asks)
  /\ UNCHANGED <<vars, requests, committedAt, askedAt>>

ClearRead(o) ==
  /\ Begins(o, "clear", NoOverride)
  /\ UNCHANGED <<vars, override, committedAt, askedAt, word>>

\* DELETE of the row if there was one; one that is gone already is no error.
ClearWrite(o) ==
  /\ request[o].kind = "clear"
  /\ Answers(o)
  /\ override' = IF request[o].read = NoOverride THEN override ELSE NoOverride
  /\ UNCHANGED <<vars, requests, committedAt, askedAt>>

-----------------------------------------------------------------------------
(* The replay engine and the service around it.                             *)

\* The requests in flight end with the process.
Stop ==
  /\ StopLoop
  /\ request' = [o \in Operators |-> Quiet]
  /\ UNCHANGED <<override, requests, committedAt, askedAt, word>>

Commit ==
  /\ TickCommit
  /\ committedAt' = IF setbacks = 0 THEN now ELSE None
  /\ UNCHANGED <<override, request, requests, askedAt, word>>

\* The ages are of no use any more.
ClockSetBack ==
  /\ SetBack
  /\ committedAt' = None
  /\ askedAt' = None
  /\ UNCHANGED <<override, request, requests, word>>

Engine ==
  /\ Pass \/ TickRead \/ TickFail \/ Wake \/ StartLoop
  /\ UNCHANGED healthVars

HealthNext ==
  \/ Engine
  \/ ClockSetBack
  \/ Stop
  \/ Commit
  \/ \E o \in Operators :
       /\ loop # "down"
       /\ \/ DegradeRead(o)
          \/ DegradeWrite(o)
          \/ ClearRead(o)
          \/ ClearWrite(o)

HealthSpec == HealthInit /\ [][HealthNext]_allVars

-----------------------------------------------------------------------------
(* Properties.                                                              *)

\* A replay task that died, stopped or hangs is seen: unless the clock was set
\* back, smvu is reported unavailable once the last commit is older than
\* Delayed and no degrade request is younger than Duration, however the
\* degrade and clear requests before raced with one another.
DeadIsSeen ==
  /\ setbacks = 0
  /\ committedAt # None => now - committedAt > Delayed
  /\ askedAt # None => now - askedAt >= Duration
  => Reported = "unavailable"

\* An operator's request that ran alone has the last word until the next one
\* is answered: its override, or none, is what the source's row says.
LastWord == word # None => override = word
=============================================================================
