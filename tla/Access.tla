------------------------------- MODULE Access -------------------------------
(***************************************************************************)
(* Sign-in, sessions, the lockout after failed sign-ins and the audit      *)
(* journal, on top of a service that has started (Startup).  Requests run  *)
(* concurrently; a request is a sequence of transactions of its own, and   *)
(* the middleware writes its journal entry in one more, after the answer   *)
(* is known.  The process may stop in between, which ends the requests and *)
(* leaves the tables.  All clients come from one address.                  *)
(***************************************************************************)
EXTENDS Startup, FiniteSetsExt

CONSTANTS
  Clients,      \* requests that may be in flight at the same time
  Ttl,          \* SESSION_TTL_MINUTES
  Backfill,     \* the 480 minutes of the migration that added expires_at
  Window,       \* LOGIN_FAILURE_WINDOW_SECONDS
  PerName,      \* LOGIN_MAX_FAILURES_PER_USERNAME
  PerIp,        \* LOGIN_MAX_FAILURES_PER_IP
  Needed        \* the permission that a write needs

Users == {"manager", "dispatcher"}
Nobody == "nobody"
Never == -1

\* _DISPATCHER_PERMISSIONS, as far as the writes here are concerned.
DispatcherPermissions == {}

ASSUME AccessAssumption ==
  /\ IsFiniteSet(Clients)
  /\ {Ttl, Window, PerName, PerIp} \subseteq Nat \ {0}
  /\ Backfill = Ttl

Idle == [stage |-> "idle"]

VARIABLES
  now,       \* the wall clock
  sessions,  \* sessions; a token is the index of its row
  failures,  \* login_failures: [name, at, nth]; nth tells rows of one name and
             \* moment apart
  entries,   \* audit_log: [kind, token, who, actor]
  call,      \* per client: the request in flight
  ended,     \* history: tokens whose logout was answered
  promise    \* history: per user, when retry_after_seconds of the last 429 is over

access == <<now, sessions, failures, entries, call, ended, promise>>
service == <<startup, access>>

Tokens == DOMAIN sessions

Stages == {"idle", "checked", "cleared", "resolved", "answered"}

AccessTypeOK ==
  /\ now \in Nat
  /\ \A t \in Tokens :
       /\ sessions[t].user \in Users
       /\ {sessions[t].created, sessions[t].expires} \subseteq Nat
       /\ sessions[t].revoked \in BOOLEAN
  /\ \A f \in failures : f.name \in Users /\ f.at \in 0 .. now /\ f.nth \in Nat
  /\ \A e \in entries : {e.who, e.actor} \subseteq Users \cup {Nobody}
  /\ \A c \in Clients :
       /\ call[c].stage \in Stages
       /\ call[c] # Idle => {call[c].who, call[c].named} \subseteq Users \cup {Nobody}
  /\ ended \subseteq Tokens
  /\ promise \in [Users -> Nat \cup {Never}]

AccessInit ==
  /\ now = 0
  /\ sessions = <<>>
  /\ failures = {}
  /\ entries = {}
  /\ call = [c \in Clients |-> Idle]
  /\ ended = {}
  /\ promise = [u \in Users |-> Never]

-----------------------------------------------------------------------------
(* Requests.  who is the user a request acts for, named the actor its       *)
(* handler has put into request.state.audit.                                *)

Begin(c, kind, token, stage, who, named) ==
  /\ call[c] = Idle
  /\ Spend("calls")
  /\ call' = [call EXCEPT ![c] =
       [stage |-> stage, kind |-> kind, token |-> token, who |-> who, named |-> named,
        begun |-> now, late |-> token \in ended]]
  /\ UNCHANGED <<revision, schema, phase, release, database, position, cuts, forgotten, seeded>>

Goes(c, stage) ==
  /\ call' = [call EXCEPT ![c].stage = stage]
  /\ UNCHANGED startup

At(c, kind, stage) == call[c].stage = stage /\ call[c].kind = kind

-----------------------------------------------------------------------------
(* The lockout: login_throttle.py.                                          *)

Recent(f) == f.at > now - Window
OfName(name) == {f \in failures : Recent(f) /\ f.name = name}
OfIp == {f \in failures : Recent(f)}

TimesOf(found) == {f.at : f \in found}
Since(found, t) == {f \in found : f.at >= t}

\* Mutated form: the lock ends when the oldest failure leaves the window.
UnlockOldest(found, limit) ==
  IF Cardinality(found) < limit THEN Never ELSE Min(TimesOf(found)) + Window

\* _unlock_at: when fewer than limit of the failures are left in the window,
\* which is when the limit-th newest leaves it.
UnlockAt(found, limit) ==
  IF Cardinality(found) < limit THEN Never
  ELSE Max({t \in TimesOf(found) : Cardinality(Since(found, t)) >= limit}) + Window

\* seconds_until_unlocked, as the moment the wait is over; Never if not locked.
UnlockedAt(name) ==
  LET byName == UnlockAt(OfName(name), PerName)
      byIp == UnlockAt(OfIp, PerIp)
      latest == IF byName > byIp THEN byName ELSE byIp
  IN  IF latest > now THEN latest ELSE Never

\* POST /auth/login: the lock is looked at before the password.
LoginCheck(c) ==
  \E name \in Users :
    /\ Begin(c, "login", 0, IF UnlockedAt(name) = Never THEN "checked" ELSE "answered", name, name)
    /\ promise' = IF UnlockedAt(name) = Never THEN promise
                  ELSE [promise EXCEPT ![name] = UnlockedAt(name)]
    /\ UNCHANGED <<now, sessions, failures, entries, ended>>

\* A wrong password: record_failure, which also purges what left the window.
LoginFail(c) ==
  /\ At(c, "login", "checked")
  /\ Goes(c, "answered")
  /\ LET same == {f \in failures : f.name = call[c].who /\ f.at = now}
     IN  failures' = {f \in failures : Recent(f)} \cup
                       {[name |-> call[c].who, at |-> now, nth |-> Cardinality(same) + 1]}
  /\ promise' = [u \in Users |-> Never]
  /\ UNCHANGED <<now, sessions, entries, ended>>

\* The right one: clear_username_failures ...
LoginClear(c) ==
  /\ At(c, "login", "checked")
  /\ Goes(c, "cleared")
  /\ failures' = {f \in failures : f.name # call[c].who}
  /\ UNCHANGED <<now, sessions, entries, ended, promise>>

\* ... and create_session, which has a COMMIT of its own.
LoginIssue(c) ==
  /\ At(c, "login", "cleared")
  /\ Goes(c, "answered")
  /\ sessions' = Append(sessions, [user |-> call[c].who, created |-> now, expires |-> now + Ttl,
                                   revoked |-> FALSE])
  /\ UNCHANGED <<now, failures, entries, ended, promise>>

-----------------------------------------------------------------------------
(* Sessions.                                                                *)

\* Mutated form: a session still counts in the moment it expires.
AliveToTheLast(t) == t \in Tokens /\ ~sessions[t].revoked /\ sessions[t].expires >= now

\* The checks of get_active_session_user.
Alive(t) == t \in Tokens /\ ~sessions[t].revoked /\ sessions[t].expires > now

\* get_active_session_user.
Resolved(t) == IF Alive(t) THEN sessions[t].user ELSE Nobody

\* _load_user_permissions.
Permissions(user) == IF user = "manager" THEN granted ELSE DispatcherPermissions

\* require_permission: 401 without a session, 403 without the permission.
WriteBegin(c) ==
  \E t \in Tokens :
    /\ Begin(c, "write", t,
         IF Alive(t) /\ Needed \in Permissions(sessions[t].user) THEN "resolved" ELSE "answered",
         Resolved(t), Nobody)
    /\ UNCHANGED <<now, sessions, failures, entries, ended, promise>>

\* The handler: what it writes belongs to other modules.
WriteHandle(c) ==
  /\ At(c, "write", "resolved")
  /\ Goes(c, "answered")
  /\ UNCHANGED <<now, sessions, failures, entries, ended, promise>>

\* Mutated form: the handler of logout leaves the actor to the middleware.
LogoutUnnamed(t) == Nobody

\* request.state.audit of a logout.
LogoutNamed(t) == Resolved(t)

\* POST /auth/logout: get_current_user, and the actor for the journal.
LogoutBegin(c) ==
  \E t \in Tokens :
    /\ Begin(c, "logout", t, IF Alive(t) THEN "resolved" ELSE "answered", Resolved(t), LogoutNamed(t))
    /\ UNCHANGED <<now, sessions, failures, entries, ended, promise>>

\* revoke_session and the answer.
LogoutRevoke(c) ==
  /\ At(c, "logout", "resolved")
  /\ Goes(c, "answered")
  /\ sessions' = [sessions EXCEPT ![call[c].token].revoked = TRUE]
  /\ ended' = ended \cup {call[c].token}
  /\ UNCHANGED <<now, failures, entries, promise>>

-----------------------------------------------------------------------------
(* The journal: AuditMiddleware.dispatch after the handler.                 *)

\* _resolve_actor: what the handler named, or whom the token still stands for.
Actor(c) == IF call[c].named # Nobody THEN call[c].named ELSE Resolved(call[c].token)

\* write_audit_entry, in a transaction of its own.
Journal(c) ==
  /\ call[c].stage = "answered"
  /\ call' = [call EXCEPT ![c] = Idle]
  /\ entries' = entries \cup
       {[kind |-> call[c].kind, token |-> call[c].token, who |-> call[c].who, actor |-> Actor(c)]}
  /\ UNCHANGED <<startup, now, sessions, failures, ended, promise>>

\* An entry that cannot be written is logged only, and a request whose handler
\* raises leaves the middleware without one.
Unjournaled(c) ==
  /\ call[c].stage \in {"answered", "resolved"}
  /\ call' = [call EXCEPT ![c] = Idle]
  /\ UNCHANGED <<startup, now, sessions, failures, entries, ended, promise>>

Serve(c) ==
  \/ LoginCheck(c)
  \/ LoginFail(c)
  \/ LoginClear(c)
  \/ LoginIssue(c)
  \/ WriteBegin(c)
  \/ WriteHandle(c)
  \/ LogoutBegin(c)
  \/ LogoutRevoke(c)
  \/ Journal(c)
  \/ Unjournaled(c)

Tick ==
  /\ Spend("ticks")
  /\ now' = now + 1
  /\ UNCHANGED <<revision, schema, phase, release, database, position, cuts, forgotten, seeded>>
  /\ UNCHANGED <<sessions, failures, entries, call, ended, promise>>

-----------------------------------------------------------------------------
(* Properties.                                                              *)

\* A request acts for a user only if the token had not been logged out, as far
\* as its client was told, and was younger than Ttl when the request began;
\* restarts and migrations do not bring a session back.
SessionHonoured ==
  \A c \in Clients :
    call[c] # Idle /\ call[c].kind # "login" /\ call[c].who # Nobody =>
      /\ ~call[c].late
      /\ call[c].begun < sessions[call[c].token].created + Ttl

\* Attempts in flight together are checked against the same count: there may
\* be as many failures above the limit as there are other requests, no more.
FailuresBounded ==
  /\ Cardinality(OfIp) <= PerIp - 1 + Cardinality(Clients)
  /\ \A u \in Users : Cardinality(OfName(u)) <= PerName - 1 + Cardinality(Clients)

\* The lock ends when the 429 said it would, if no failure was recorded since.
RetryIsHonest == \A u \in Users : promise[u] # Never /\ now >= promise[u] => UnlockedAt(u) = Never

\* Both halves of the lockout: it bounds the failures in a window however
\* requests interleave, and it ends predictably.
LockoutSound == FailuresBounded /\ RetryIsHonest

\* An entry names the user the request acted for, never another one; it names
\* nobody only if the session was over before the entry of a write was made.
ActorTrue ==
  \A e \in entries :
    \/ e.actor = e.who
    \/ e.actor = Nobody /\ e.kind = "write" /\ ~Alive(e.token)
=============================================================================
