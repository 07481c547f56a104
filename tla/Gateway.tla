------------------------------ MODULE Gateway ------------------------------
(***************************************************************************)
(* The server process: run() from start to exit, and the requests that the *)
(* router's middleware chains carry meanwhile.                             *)
(* (cmd/server/main.go, internal/gateway/router.go, the middlewares,       *)
(* internal/audit, shared/logger, shared/httpx, shared/storage)            *)
(*                                                                         *)
(* Each middleware is one step with the outcomes its own module works out  *)
(* (Tokens, RateLimiter, Idempotency, PolicyEngine); here it matters in    *)
(* which order they run, what they leave behind in the logs, and what      *)
(* becomes of a request when the process is told to stop.                  *)
(*                                                                         *)
(* A definition whose name ends in a fault (ChainOpenKeys, ...) stands     *)
(* just before the one it is a wrong version of; no step uses it.          *)
(***************************************************************************)
EXTENDS Integers, Sequences, FiniteSets

CONSTANTS
    Requests,
    Routes,      \* the kinds of route the requests may take
    ClientIds,   \* X-Request-ID values sent by clients
    Header,      \* per request: the one it brings, or NoId
    NoId,        \* no such header; also: no id in a body
    OldId,       \* the id of a request served before
    LogLevels,   \* values of LOG_LEVEL
    MaxConns,    \* connections of the Postgres pool
    EvalGuards,  \* whether POLICY_EVAL_TIMEOUT_MS is positive: the cases to consider
    MayPanic     \* which code may panic: subset of {"rule", "handler"}

\* "redirect": the path of a route but for a slash at its end, which the router
\* takes for a slip (gin's RedirectTrailingSlash); "unknown": any other path.
AllRoutes == {"health", "auth", "order", "stub", "keys", "unknown", "redirect"}

ASSUME GatewayAssumption ==
    /\ Routes \subseteq AllRoutes
    /\ Header \in [Requests -> ClientIds \cup {NoId}]
    /\ NoId \notin ClientIds \cup Requests \cup {OldId}
    /\ LogLevels \subseteq STRING
    /\ MaxConns \in Nat \ {0}
    /\ EvalGuards \subseteq BOOLEAN
    /\ MayPanic \subseteq {"rule", "handler"}

Ids == ClientIds \cup Requests \cup {NoId, OldId}

\* The middlewares a route under /v1 adds to its group's.
OwnOpenKeys(route) ==
    CASE route = "order" -> <<"Idempotency", "Enforce">>
      [] route = "keys" -> <<>>
      [] OTHER -> <<"Enforce">>

Own(route) == IF route = "order" THEN <<"Idempotency", "Enforce">> ELSE <<"Enforce">>

\* What runs for a request, in order, inside gin.Recovery and around RequestLog.
\* A path the router does not know gets the global middlewares only, and one that
\* it redirects gets none.
Chain(route) ==
    CASE route = "redirect" -> <<>>
      [] route = "unknown" -> <<"RequestID", "notFound">>
      [] route \in {"health", "auth"} -> <<"RequestID", "handle">>
      [] OTHER -> <<"RequestID", "Authenticate", "RateLimit">> \o Own(route) \o <<"handle">>

\* slog levels, and what a level string stands for.
LevelInfo == 0
ParseLevel(s) ==
    CASE s \in {"debug", "DEBUG"} -> -4
      [] s \in {"warn", "WARN", "warning"} -> 4
      [] s \in {"error", "ERROR"} -> 8
      [] OTHER -> LevelInfo

VARIABLES
    main,      \* where run() is
    result,    \* what run() returns: "nil" or what failed
    exit,      \* "running", or how the process ended
    logLevel,  \* cfg.LogLevel
    redis,     \* the Redis client
    pool,      \* the Postgres pool
    server,    \* the goroutine in ListenAndServe
    serverErr, \* its channel holds an error
    quit,      \* the signal channel holds a signal
    req,       \* per request: what gin.Context and its connection hold
    served,    \* requests whose handler had its effect
    stdout     \* the structured log: set of lines

runVars == <<main, result, redis, pool>>
channels == <<server, serverErr, quit>>
requestVars == <<req, served, stdout>>
vars == <<runVars, channels, requestVars, exit, logLevel>>

NoResponse == [status |-> 0, id |-> NoId]
Statuses == {200, 301, 307, 400, 401, 403, 404, 409, 429, 500}
Verdicts == {"none", "allow", "deny"}
Contexts ==
    [phase : {"unsent", "running", "writing", "answered", "cut"},
     route : AllRoutes, rid : Ids,
     todo : Seq({"RequestID", "Authenticate", "RateLimit", "Idempotency", "Enforce",
                 "handle", "notFound"}),
     actor : BOOLEAN, counted : BOOLEAN, conn : BOOLEAN, decision : Verdicts,
     resp : [status : Statuses \cup {0}, id : Ids]]
Lines == [kind : {"audit"}, of : Requests, id : Ids, decision : Verdicts]
         \cup [kind : {"request"}, of : Requests, id : Ids, decision : Verdicts,
               status : Statuses]

\* A request on its way in, before any middleware.
Fresh(route) ==
    [phase |-> "running", route |-> route, rid |-> NoId, todo |-> Chain(route),
     actor |-> FALSE, counted |-> FALSE, conn |-> FALSE, decision |-> "none",
     resp |-> NoResponse]

TypeOK ==
    /\ main \in {"load", "redis", "postgres", "start", "select", "shutdown",
                 "closePool", "closeRedis", "return"}
    /\ result \in {"nil", "config", "postgres", "listen", "shutdown"}
    /\ exit \in {"running", "ok", "failed", "killed", "crashed"}
    /\ logLevel \in LogLevels
    /\ redis \in {"none", "open", "closed"}
    /\ pool \in {"none", "open", "closing", "closed"}
    /\ server \in {"none", "starting", "listening", "closed"}
    /\ serverErr \in BOOLEAN
    /\ quit \in BOOLEAN
    /\ DOMAIN req = Requests
    /\ \A r \in Requests : req[r] \in Contexts
    /\ served \subseteq Requests
    /\ \A line \in stdout : line \in Lines

Init ==
    /\ main = "load" /\ result = "nil" /\ exit = "running"
    /\ logLevel \in LogLevels
    /\ redis = "none" /\ pool = "none"
    /\ server = "none" /\ serverErr = FALSE /\ quit = FALSE
    /\ req = [r \in Requests |-> [Fresh("unknown") EXCEPT !.phase = "unsent"]]
    /\ served = {}
    /\ stdout = {}

InFlight == {r \in Requests : req[r].phase \in {"running", "writing"}}
Held == {r \in Requests : req[r].conn}

-----------------------------------------------------------------------------
(* run(), with its deferred calls                                          *)

ReturnLeaky(e) ==
    /\ result' = e
    /\ main' = IF pool = "open" THEN "closePool" ELSE "return"

\* run() returns with the given result: the deferred calls close what was
\* opened, last first.
Return(e) ==
    /\ result' = e
    /\ main' = IF pool = "open" THEN "closePool"
               ELSE IF redis = "open" THEN "closeRedis" ELSE "return"

Goto(label) == main' = label /\ UNCHANGED result

Load ==
    /\ main = "load"
    /\ Return("config") \/ Goto("redis")
    /\ UNCHANGED <<redis, pool, channels, exit>>

\* The client is constructed whether or not Redis answers.
NewRedis ==
    /\ main = "redis" /\ Goto("postgres")
    /\ redis' = "open"
    /\ UNCHANGED <<pool, channels, exit>>

\* NewPostgres gives up unless Postgres answers a ping.
NewPostgres ==
    /\ main = "postgres"
    /\ \/ Return("postgres") /\ UNCHANGED pool
       \/ Goto("start") /\ pool' = "open"
    /\ UNCHANGED <<redis, channels, exit>>

\* Wiring, signal.Notify and the goroutine of the server.
StartServer ==
    /\ main = "start" /\ Goto("select")
    /\ server' = "starting"
    /\ UNCHANGED <<redis, pool, serverErr, quit, exit>>

\* The two cases of the select; with both ready, either is taken.
SelectError ==
    /\ main = "select"
    /\ serverErr /\ serverErr' = FALSE
    /\ Return("listen")
    /\ UNCHANGED <<redis, pool, server, quit, exit>>

\* Shutdown closes the listener and returns at once if no connection is active.
SelectSignal ==
    /\ main = "select"
    /\ quit /\ quit' = FALSE
    /\ server' = IF server = "listening" THEN "closed" ELSE server
    /\ IF InFlight = {} THEN Return("nil") ELSE Goto("shutdown")
    /\ UNCHANGED <<redis, pool, serverErr, exit>>

TimedOutIgnored == Return("nil")
TimedOutNever == InFlight = {} /\ Return("shutdown")
TimedOut == Return("shutdown")

\* Shutdown sees that every connection has become idle, or its context ends
\* first, perhaps just after the last one has.
Shutdown ==
    /\ main = "shutdown"
    /\ (InFlight = {} /\ Return("nil")) \/ TimedOut
    /\ UNCHANGED <<redis, pool, channels, exit>>

\* pool.Close: no connection is handed out any more, and it returns when the last
\* one is back.
ClosePool ==
    /\ main = "closePool"
    /\ \/ pool = "open" /\ pool' = "closing" /\ UNCHANGED main
       \/ pool = "closing" /\ Held = {} /\ pool' = "closed" /\ main' = "closeRedis"
    /\ UNCHANGED <<result, redis, channels, exit>>

CloseRedis ==
    /\ main = "closeRedis" /\ Goto("return")
    /\ redis' = "closed"
    /\ UNCHANGED <<pool, channels, exit>>

\* main: log.Fatalf on an error.  Whatever still runs ends with the process.
Exit ==
    /\ main = "return"
    /\ exit' = IF result = "nil" THEN "ok" ELSE "failed"
    /\ UNCHANGED <<runVars, channels>>

Run ==
    /\ exit = "running"
    /\ \/ Load \/ NewRedis \/ NewPostgres \/ StartServer \/ SelectError \/ SelectSignal
       \/ Shutdown \/ ClosePool \/ CloseRedis \/ Exit
    /\ UNCHANGED <<requestVars, logLevel>>

-----------------------------------------------------------------------------
(* Signals and the listener                                                *)

\* SIGINT or SIGTERM.  Before signal.Notify it ends the process; afterwards the
\* channel keeps one and drops more, and once run() has left the select nobody
\* reads it.
Signal ==
    /\ \/ /\ main \in {"load", "redis", "postgres", "start"}
          /\ exit' = "killed" /\ UNCHANGED quit
       \/ main = "select" /\ quit' = TRUE /\ UNCHANGED exit
    /\ UNCHANGED <<server, serverErr>>

\* It listens, or fails; if Shutdown has been called it returns ErrServerClosed.
ListenAndServe ==
    /\ server = "starting"
    /\ \/ main = "select" /\ server' = "listening" /\ UNCHANGED serverErr
       \/ main = "select" /\ server' = "closed" /\ serverErr' = TRUE
       \/ main # "select" /\ server' = "closed" /\ UNCHANGED serverErr
    /\ UNCHANGED <<quit, exit>>

\* The listener fails later.
AcceptFails ==
    /\ server = "listening" /\ server' = "closed"
    /\ serverErr' = TRUE
    /\ UNCHANGED <<quit, exit>>

Environment ==
    /\ exit = "running"
    /\ Signal \/ ListenAndServe \/ AcceptFails
    /\ UNCHANGED <<runVars, requestVars, logLevel>>

-----------------------------------------------------------------------------
(* A request in its chain                                                  *)

At(r, stage) ==
    /\ req[r].phase = "running"
    /\ req[r].todo # <<>>
    /\ Head(req[r].todo) = stage

\* A line at INFO, dropped when LOG_LEVEL is above it.
Info(line) ==
    stdout' = IF ParseLevel(logLevel) <= LevelInfo THEN stdout \cup {line} ELSE stdout

\* c.Next(), with the context changed to c.
Pass(r, c) == req' = [req EXCEPT ![r] = [c EXCEPT !.todo = Tail(@)]]

\* A response that ends the chain; what middlewares do after c.Next() is left.
Respond(r, c, status, id) ==
    req' = [req EXCEPT ![r] = [c EXCEPT !.resp = [status |-> status, id |-> id],
                                        !.todo = <<>>, !.conn = FALSE]]

\* httpx.Abort: the error envelope carries the request id.
Abort(r, c, status) == Respond(r, c, status, c.rid)

\* A panic unwinds to gin.Recovery, past RequestLog: 500 without a body.
Recover(r) == Respond(r, [req[r] EXCEPT !.phase = "writing"], 500, NoId)

Accept(r) ==
    /\ server = "listening"
    /\ req[r].phase = "unsent"
    /\ \E x \in Routes \ {"redirect"} : req' = [req EXCEPT ![r] = Fresh(x)]
    /\ UNCHANGED <<served, stdout, exit>>

\* The router answers without a chain, so without RequestID and RequestLog: 301
\* to a GET, 307 to any other method.
RedirectStatuses == {301, 307}
Redirected(status) ==
    [Fresh("redirect") EXCEPT !.phase = "writing", !.resp = [status |-> status, id |-> NoId]]

Redirect(r) ==
    /\ server = "listening"
    /\ req[r].phase = "unsent"
    /\ "redirect" \in Routes
    /\ \E status \in RedirectStatuses : req' = [req EXCEPT ![r] = Redirected(status)]
    /\ UNCHANGED <<served, stdout, exit>>

RequestID(r) ==
    /\ At(r, "RequestID")
    /\ Pass(r, [req[r] EXCEPT !.rid = IF Header[r] # NoId THEN Header[r] ELSE r])
    /\ UNCHANGED <<served, stdout, exit>>

\* A query takes a connection of the pool: to resolve an API key, or for the key
\* management handlers.  It waits while all are taken.
Acquire(r) ==
    /\ At(r, "Authenticate") \/ (At(r, "handle") /\ req[r].route = "keys")
    /\ ~req[r].conn
    /\ pool = "open"
    /\ Cardinality(Held) < MaxConns
    /\ req' = [req EXCEPT ![r].conn = TRUE]
    /\ UNCHANGED <<served, stdout, exit>>

\* A valid credential, or 401: without one, for a bad one, and for any failure of
\* the key store, the closed pool included.
Authenticate(r) ==
    /\ At(r, "Authenticate")
    /\ \/ Pass(r, [req[r] EXCEPT !.actor = TRUE, !.conn = FALSE])
       \/ Abort(r, req[r], 401)
    /\ UNCHANGED <<served, stdout, exit>>

RateLimit(r) ==
    /\ At(r, "RateLimit")
    /\ \/ req[r].actor /\ Pass(r, [req[r] EXCEPT !.counted = TRUE])
       \/ Abort(r, req[r], IF req[r].actor THEN 429 ELSE 401)
    /\ UNCHANGED <<served, stdout, exit>>

\* 400 without a key, the rest of the chain, or a replay of what an earlier
\* request was answered, body and all, so with its id.
Idempotency(r) ==
    /\ At(r, "Idempotency")
    /\ \/ Abort(r, req[r], 400)
       \/ ~req[r].actor /\ Abort(r, req[r], 401)
       \/ req[r].actor /\ Pass(r, req[r])
       \/ /\ req[r].actor /\ redis = "open"
          /\ Respond(r, req[r], 200, NoId) \/ Respond(r, req[r], 403, OldId)
    /\ UNCHANGED <<served, stdout, exit>>

\* c.Set of the decision, for RequestLog.
ExposeAllowed(c, d) == IF d = "allow" THEN [c EXCEPT !.decision = d] ELSE c
Expose(c, d) == [c EXCEPT !.decision = d]

\* The decision, its audit record, its exposure, then 403 or the handler.
Enforce(r) ==
    /\ At(r, "Enforce")
    /\ \/ ~req[r].actor /\ Abort(r, req[r], 401) /\ UNCHANGED stdout
       \/ /\ req[r].actor
          /\ \E d \in {"allow", "deny"} :
               /\ Info([kind |-> "audit", of |-> r, id |-> req[r].rid, decision |-> d])
               /\ IF d = "allow" THEN Pass(r, Expose(req[r], d))
                  ELSE Abort(r, Expose(req[r], d), 403)
    /\ UNCHANGED <<served, exit>>

\* A rule panics: with the timeout guard in a goroutine nothing recovers, so the
\* process ends; without it in the request's own.
RulePanic(r) ==
    /\ At(r, "Enforce")
    /\ "rule" \in MayPanic
    /\ \/ TRUE \in EvalGuards /\ exit' = "crashed" /\ UNCHANGED req
       \/ FALSE \in EvalGuards /\ Recover(r) /\ UNCHANGED exit
    /\ UNCHANGED <<served, stdout>>

\* How the handlers refuse: the token endpoints a bad request or token, key
\* management a bad request, and after a statement or without the pool what
\* writeStoreError makes of the error.
Refusals(r) ==
    CASE req[r].route = "auth" -> {400, 401}
      [] req[r].route = "keys" /\ req[r].conn -> {400, 404, 409, 500}
      [] req[r].route = "keys" /\ pool # "open" -> {400, 500}
      [] req[r].route = "keys" -> {400}
      [] OTHER -> {}

\* The handlers: key management needs a connection to have an effect.
Handle(r) ==
    /\ At(r, "handle")
    /\ \/ /\ req[r].route = "keys" => req[r].conn
          /\ served' = served \cup {r}
          /\ Respond(r, req[r], 200, NoId)
       \/ /\ \E status \in Refusals(r) : Abort(r, req[r], status)
          /\ UNCHANGED served
    /\ UNCHANGED <<stdout, exit>>

HandlerPanic(r) ==
    /\ At(r, "handle")
    /\ "handler" \in MayPanic
    /\ ~req[r].conn
    /\ Recover(r)
    /\ served' \in {served, served \cup {r}}
    /\ UNCHANGED <<stdout, exit>>

NotFoundStatus0 == 0
NotFoundStatus == 404
NotFound(r) ==
    /\ At(r, "notFound")
    /\ Respond(r, req[r], NotFoundStatus, NoId)
    /\ UNCHANGED <<served, stdout, exit>>

\* RequestLog after c.Next().
RequestLog(r) ==
    /\ req[r].phase = "running" /\ req[r].todo = <<>>
    /\ Info([kind |-> "request", of |-> r, id |-> req[r].rid, decision |-> req[r].decision,
             status |-> req[r].resp.status])
    /\ req' = [req EXCEPT ![r].phase = "writing"]
    /\ UNCHANGED <<served, exit>>

\* net/http sends what the handler left in its buffer and the connection is idle;
\* or the WriteTimeout, counted from the end of the request's header, has passed
\* and the connection is closed without the answer.  Shutdown waits for neither
\* more than for the other.
Flush(r) ==
    /\ req[r].phase = "writing"
    /\ \E p \in {"answered", "cut"} : req' = [req EXCEPT ![r].phase = p]
    /\ UNCHANGED <<served, stdout, exit>>

Step(r) ==
    /\ exit = "running"
    /\ \/ Accept(r) \/ Redirect(r) \/ RequestID(r) \/ Acquire(r) \/ Authenticate(r) \/ RateLimit(r)
       \/ Idempotency(r) \/ Enforce(r) \/ RulePanic(r) \/ Handle(r) \/ HandlerPanic(r)
       \/ NotFound(r) \/ RequestLog(r) \/ Flush(r)
    /\ UNCHANGED <<runVars, channels, logLevel>>

\* The process is gone.
Ended == exit # "running" /\ UNCHANGED vars

Next == Run \/ Environment \/ (\E r \in Requests : Step(r)) \/ Ended

\* run() and its timer go on, and Postgres answers statements.  Nothing else is
\* assumed of requests: a handler may hang.
Fairness ==
    /\ WF_vars(Run)
    /\ \A r \in Requests : WF_vars(req[r].conn /\ Step(r))

Spec == Init /\ [][Next]_vars
FairSpec == Spec /\ Fairness

-----------------------------------------------------------------------------
(* Properties                                                              *)

LinesOf(r, kind) == {line \in stdout : line.of = r /\ line.kind = kind}
Logging == ParseLevel(logLevel) <= LevelInfo
\* gin.Recovery answered r.
Recovered(r) == req[r].resp = [status |-> 500, id |-> NoId]

\* A clean exit abandons nothing: when the process ends without an error, every
\* request whose connection was accepted has been worked on to its end, so that it
\* has its answer or has outlasted the WriteTimeout, and at INFO it has exactly
\* one access-log line, unless it panicked or the router redirected it
\* (main.go:79-117, logging.go:16-40).
CleanExit ==
    exit = "ok" =>
        \A r \in Requests :
            /\ req[r].phase \in {"unsent", "answered", "cut"}
            /\ /\ req[r].phase # "unsent" /\ req[r].route # "redirect"
               /\ Logging /\ ~Recovered(r)
               => Cardinality(LinesOf(r, "request")) = 1

\* However run() returns, the deferred calls have closed the pool and the Redis
\* client, and requests that are still under way never find Redis closed while a
\* statement of theirs runs: the pool goes first (main.go:46, 58, 99-117).
ReleasedAtExit ==
    /\ exit \in {"ok", "failed"} => redis # "open" /\ pool \notin {"open", "closing"}
    /\ redis = "closed" => pool \in {"none", "closed"} /\ Held = {}

\* Nothing behind the gateway happens without an identity, a place in the rate
\* limit and a decision to allow it that is already in the log at INFO, even if
\* a rule panics or the process ends half way (router.go:54-104).
GuardedEffect ==
    \A r \in served :
        req[r].route \in {"order", "stub", "keys"} =>
            /\ req[r].actor
            /\ req[r].counted
            /\ Logging => \E line \in LinesOf(r, "audit") : line.decision = "allow"

\* A request's traces tell one story: its audit record, its access-log line and
\* its answer carry one id, the client's if it sent one; the line has the status
\* of the answer, whether or not it was sent in time, and the decision that was audited (requestid.go:22-37,
\* logging.go:16-40, errors.go:41-53).  A replayed error has an older id.
TracesAgree ==
    \A r \in Requests :
        /\ \A line \in LinesOf(r, "request") :
             /\ line.id = (IF Header[r] # NoId THEN Header[r] ELSE r)
             /\ line.status = req[r].resp.status
             /\ {a.decision : a \in LinesOf(r, "audit")} =
                  (IF line.decision = "none" \/ ~Logging THEN {} ELSE {line.decision})
             /\ req[r].resp.id \in {line.id, NoId}
                  \/ (req[r].route = "order" /\ line.decision = "none")
        /\ \A a \in LinesOf(r, "audit") : a.id = req[r].rid

\* The process ends once it is told to, or once its listener has failed: hung
\* requests hold it up only until the shutdown timeout, and after that only SQL
\* statements that are still under way do (main.go:99-117).
Terminates == (quit \/ serverErr) ~> exit # "running"

\* audit.go:44-47: LogAuditor "guarantees an audit record exists for every
\* decision".
EveryDecisionRecorded ==
    \A r \in Requests : req[r].decision # "none" => LinesOf(r, "audit") # {}
=============================================================================
