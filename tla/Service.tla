------------------------------- MODULE Service ------------------------------
(***************************************************************************)
(* The service as a whole, from an empty database on: migrations, start,   *)
(* requests while it serves, stops, deployments and downgrades.            *)
(***************************************************************************)
EXTENDS Access

ServiceInit == StartupInit /\ AccessInit

\* The requests in flight end with the process.
Down ==
  /\ Stop
  /\ call' = [c \in Clients |-> Idle]
  /\ UNCHANGED <<now, sessions, failures, entries, ended, promise>>

\* The steps of a start, and an exception that ends one.
Lifespan ==
  /\ Boot \/ Seed \/ Raise \/ Deploy
  /\ UNCHANGED access

\* The way back takes sessions, failures and journal along with their tables;
\* a session that stays gets its expiry from the migration on the way up.
Migrate ==
  \E k \in 0 .. Newest :
    /\ Back(k)
    /\ sessions' = IF "sessions" \in Dropped(k) THEN <<>>
         ELSE IF "sessions.expires_at" \in Dropped(k)
         THEN [t \in Tokens |-> [sessions[t] EXCEPT !.expires = sessions[t].created + Backfill]]
         ELSE sessions
    /\ ended' = IF "sessions" \in Dropped(k) THEN {} ELSE ended
    /\ failures' = IF "login_failures" \in Dropped(k) THEN {} ELSE failures
    /\ promise' = IF "login_failures" \in Dropped(k) THEN [u \in Users |-> Never] ELSE promise
    /\ entries' = IF "audit_log" \in Dropped(k) THEN {} ELSE entries
    /\ UNCHANGED <<now, call>>

Requests ==
  /\ phase = "serving"
  /\ \E c \in Clients : Serve(c)

ServiceNext ==
  \/ Down
  \/ Lifespan
  \/ Migrate
  \/ Requests
  \/ Tick

ServiceSpec == ServiceInit /\ [][ServiceNext]_service
=============================================================================
