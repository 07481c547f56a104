---------------------------- MODULE Idempotency ----------------------------
(***************************************************************************)
(* POST /v1/orders behind the Idempotency middleware: look the key up in   *)
(* Redis, replay a stored response or run the rest of the chain (policy    *)
(* enforcement, then the handler) with the response captured, and store    *)
(* what it answered.  (internal/gateway/middleware/idempotency.go,         *)
(* router.go:94, policy/middleware.go, stub.go)                            *)
(*                                                                         *)
(* The lookup, the execution and the store are three separate steps with   *)
(* nothing reserved in between, and each Redis call may fail on its own.   *)
(*                                                                         *)
(* Tenants and keys are free texts that are put together, unescaped, into  *)
(* one Redis key.  A text is the sequence of its pieces, and ":" is a      *)
(* piece, so that different pairs may make the same Redis key.             *)
(*                                                                         *)
(* A definition whose name ends in a fault (KeyBare, MissOnDenied,         *)
(* ...) stands just before the one it is a wrong version of; no step uses  *)
(* it.                                                                     *)
(***************************************************************************)
EXTENDS Integers, Sequences

CONSTANTS
    Requests,
    Tenants,        \* texts: tenant ids
    Keys,           \* texts: Idempotency-Key values
    HandlerStatus,  \* what the mounted handler may answer
    ErrorProne,     \* bound for TLC: requests whose Redis calls may fail
    MaxDrops,       \* bound for TLC: stored responses that expire or are evicted
    MaxCrashes      \* bound for TLC: requests whose process dies

\* c.GetHeader returns the empty text when the header is absent.
NoKey == <<>>

ASSUME TextAssumption ==
    /\ Tenants \cup Keys \subseteq Seq(STRING)
    /\ NoKey \notin Keys
ASSUME StatusAssumption == HandlerStatus \subseteq 200..599
ASSUME BoundAssumption ==
    /\ ErrorProne \subseteq Requests
    /\ MaxDrops \in Nat
    /\ MaxCrashes \in Nat

\* Redis.Key, without the "tenant:" that every key begins with.
KeyBare(tenant, suffix) == suffix
Key(tenant, suffix) == tenant \o <<":">> \o suffix

\* "idem:" + c.FullPath() + ":" + key.  One route mounts the middleware.
Suffix(key) == <<"idem", ":", "/v1/orders", ":">> \o key

\* The Redis keys in use.
Slots == {Key(t, Suffix(k)) : t \in Tenants, k \in Keys}

\* storedResponse: status and body.  A body names the request that produced it
\* (StubModule.handle puts its call_seq in it).
Responses == [status : 200..599, by : Requests]
Missing == [status |-> 0]

VARIABLES
    origin,   \* per request: tenant, key, and what DefaultRules say of its actor
    pc,       \* per request: where the middleware chain is
    captured, \* per request: c.Writer is the captureWriter
    reply,    \* per request: the response written to the client
    audit,    \* per request: the audit record Enforce wrote
    ran,      \* requests whose handler ran
    store,    \* Redis: the response under each Redis key
    late,     \* requests given up on whose Set Redis may still apply
    saved,    \* requests whose Set took effect
    before,   \* per request: those of its slot already saved when it came in
    dropped,  \* slots that expired, were evicted or lost in a restart
    drops, crashes

vars == <<origin, pc, captured, reply, audit, ran, store, late, saved, before,
          dropped, drops, crashes>>

Ended == {"done", "dead"}

TypeOK ==
    /\ origin \in [Requests -> [tenant : Tenants, key : Keys \cup {NoKey},
                                permitted : BOOLEAN]]
    /\ pc \in [Requests -> {"start", "get", "enforce", "handle", "save"} \cup Ended]
    /\ captured \in [Requests -> BOOLEAN]
    /\ reply \in [Requests -> Responses \cup {Missing}]
    /\ audit \in [Requests -> {"none", "allow", "deny"}]
    /\ ran \in SUBSET Requests
    /\ store \in [Slots -> Responses \cup {Missing}]
    /\ late \in SUBSET Requests
    /\ saved \in SUBSET Requests
    /\ before \in [Requests -> SUBSET Requests]
    /\ dropped \in SUBSET Slots
    /\ drops \in Nat
    /\ crashes \in Nat

\* The Redis key of r, for Get and for Set.
Slot(r) == Key(origin[r].tenant, Suffix(origin[r].key))

\* What c.JSON and httpx.Abort write.
ResponseUnset(s, r) == [status |-> 0, by |-> r]
Response(s, r) == [status |-> s, by |-> r]

Init ==
    /\ origin \in [Requests -> [tenant : Tenants, key : Keys \cup {NoKey},
                                permitted : BOOLEAN]]
    /\ pc = [r \in Requests |-> "start"]
    /\ captured = [r \in Requests |-> FALSE]
    /\ reply = [r \in Requests |-> Missing]
    /\ audit = [r \in Requests |-> "none"]
    /\ ran = {}
    /\ store = [s \in Slots |-> Missing]
    /\ late = {}
    /\ saved = {}
    /\ before = [r \in Requests |-> {}]
    /\ dropped = {}
    /\ drops = 0
    /\ crashes = 0

-----------------------------------------------------------------------------
(* The middleware, up to c.Next()                                          *)

\* The header check: 400 without a key, otherwise the lookup begins.
Start(r) ==
    /\ pc[r] = "start"
    /\ \/ /\ origin[r].key = NoKey
          /\ reply' = [reply EXCEPT ![r] = Response(400, r)]
          /\ pc' = [pc EXCEPT ![r] = "done"]
          /\ UNCHANGED before
       \/ /\ origin[r].key # NoKey
          /\ pc' = [pc EXCEPT ![r] = "get"]
          /\ before' = [before EXCEPT ![r] = {q \in saved : Slot(q) = Slot(r)}]
          /\ UNCHANGED reply
    /\ UNCHANGED <<origin, captured, audit, ran, store, late, saved, dropped, drops,
                   crashes>>

\* Get returns a stored response: replay it and abort the chain.
Replay(r) ==
    /\ pc[r] = "get"
    /\ store[Slot(r)] # Missing
    /\ reply' = [reply EXCEPT ![r] = store[Slot(r)]]
    /\ pc' = [pc EXCEPT ![r] = "done"]
    /\ UNCHANGED <<origin, captured, audit, ran, store, late, saved, before, dropped,
                   drops, crashes>>

MissOnDenied(r) ==
    /\ pc[r] = "get"
    /\ store[Slot(r)].status \notin 200..299
    /\ captured' = [captured EXCEPT ![r] = TRUE]
    /\ pc' = [pc EXCEPT ![r] = "enforce"]
    /\ UNCHANGED <<origin, reply, audit, ran, store, late, saved, before, dropped,
                   drops, crashes>>

\* Get returns ErrCacheMiss: capture the response of the rest of the chain.
Miss(r) ==
    /\ pc[r] = "get"
    /\ store[Slot(r)] = Missing
    /\ captured' = [captured EXCEPT ![r] = TRUE]
    /\ pc' = [pc EXCEPT ![r] = "enforce"]
    /\ UNCHANGED <<origin, reply, audit, ran, store, late, saved, before, dropped,
                   drops, crashes>>

GetErrorUnchecked(r) ==
    /\ pc[r] = "get"
    /\ r \in ErrorProne
    /\ pc' = [pc EXCEPT ![r] = "handle"]
    /\ UNCHANGED <<origin, captured, reply, audit, ran, store, late, saved, before,
                   dropped, drops, crashes>>

\* Get fails (Redis down, timeout, client gone): run without deduplication.
GetError(r) ==
    /\ pc[r] = "get"
    /\ r \in ErrorProne
    /\ pc' = [pc EXCEPT ![r] = "enforce"]
    /\ UNCHANGED <<origin, captured, reply, audit, ran, store, late, saved, before,
                   dropped, drops, crashes>>

-----------------------------------------------------------------------------
(* The rest of the chain, and what the middleware does after c.Next()      *)

\* Only a captured 2xx..4xx response is stored.
AfterNext(r, status) ==
    IF captured[r] /\ status >= 200 /\ status < 500 THEN "save" ELSE "done"

\* policy.Enforce: decide, write the audit record, then 403 or c.Next().  The
\* evaluation denies whatever the rules say when it times out.
Enforce(r) ==
    /\ pc[r] = "enforce"
    /\ \E timedOut \in BOOLEAN :
         \/ /\ origin[r].permitted /\ ~timedOut
            /\ audit' = [audit EXCEPT ![r] = "allow"]
            /\ pc' = [pc EXCEPT ![r] = "handle"]
            /\ UNCHANGED reply
         \/ /\ ~origin[r].permitted \/ timedOut
            /\ audit' = [audit EXCEPT ![r] = "deny"]
            /\ reply' = [reply EXCEPT ![r] = Response(403, r)]
            /\ pc' = [pc EXCEPT ![r] = AfterNext(r, 403)]
    /\ UNCHANGED <<origin, captured, ran, store, late, saved, before, dropped, drops,
                   crashes>>

\* The handler runs: the order is created and the response written.
Handle(r) ==
    /\ pc[r] = "handle"
    /\ ran' = ran \cup {r}
    /\ \E s \in HandlerStatus :
         /\ reply' = [reply EXCEPT ![r] = Response(s, r)]
         /\ pc' = [pc EXCEPT ![r] = AfterNext(r, s)]
    /\ UNCHANGED <<origin, captured, audit, store, late, saved, before, dropped,
                   drops, crashes>>

\* Set takes effect, and the middleware learns of it.
Save(r) ==
    /\ pc[r] = "save"
    /\ store' = [store EXCEPT ![Slot(r)] = reply[r]]
    /\ saved' = saved \cup {r}
    /\ pc' = [pc EXCEPT ![r] = "done"]
    /\ UNCHANGED <<origin, captured, reply, audit, ran, late, before, dropped, drops,
                   crashes>>

\* Set fails (Redis down, timeout, client gone) and is only logged: the command
\* may have been applied, may be applied later, or never.
SaveError(r) ==
    /\ pc[r] = "save"
    /\ r \in ErrorProne
    /\ pc' = [pc EXCEPT ![r] = "done"]
    /\ late' = late \cup {r}
    /\ UNCHANGED <<origin, captured, reply, audit, ran, store, saved, before,
                   dropped, drops, crashes>>

\* Redis applies a Set whose sender has given up or died.
LateSave(r) ==
    /\ r \in late
    /\ late' = late \ {r}
    /\ store' = [store EXCEPT ![Slot(r)] = reply[r]]
    /\ saved' = saved \cup {r}
    /\ UNCHANGED <<origin, pc, captured, reply, audit, ran, before, dropped, drops,
                   crashes>>

-----------------------------------------------------------------------------
(* The environment                                                         *)

\* The TTL ends, allkeys-lru evicts the key, or Redis restarts without it.
Drop(s) ==
    /\ drops < MaxDrops
    /\ store[s] # Missing
    /\ store' = [store EXCEPT ![s] = Missing]
    /\ dropped' = dropped \cup {s}
    /\ drops' = drops + 1
    /\ UNCHANGED <<origin, pc, captured, reply, audit, ran, late, saved, before,
                   crashes>>

\* The process serving r dies: r gets no further, at any point of the chain.
Crash(r) ==
    /\ crashes < MaxCrashes
    /\ pc[r] \notin Ended
    /\ pc' = [pc EXCEPT ![r] = "dead"]
    /\ crashes' = crashes + 1
    /\ late' = IF pc[r] = "save" THEN late \cup {r} ELSE late
    /\ UNCHANGED <<origin, captured, reply, audit, ran, store, saved, before,
                   dropped, drops>>

\* Every request has ended.
Quiescent ==
    /\ \A r \in Requests : pc[r] \in Ended
    /\ UNCHANGED vars

Step(r) == \/ Start(r) \/ Replay(r) \/ Miss(r) \/ GetError(r)
           \/ Enforce(r) \/ Handle(r) \/ Save(r) \/ SaveError(r)

Next ==
    \/ \E r \in Requests : Step(r) \/ LateSave(r) \/ Crash(r)
    \/ \E s \in Slots : Drop(s)
    \/ Quiescent

Spec == Init /\ [][Next]_vars

-----------------------------------------------------------------------------
(* Properties                                                              *)

\* A tenant id that can be told from what follows it in a Redis key.
Plain(t) == \A i \in DOMAIN t : t[i] # ":"

\* A request is answered with another request's response only by replay, and
\* then that request had the same Redis key, was decided by policy, got this very
\* response, and it was not a 5xx.  Where neither tenant id holds a colon it also
\* had the same tenant and the same Idempotency-Key, whatever is in the keys
\* (redis.go:52-56, idempotency.go:69-80, 94-108).
ReplayFaithful ==
    \A r \in Requests :
        LET q == reply[r].by
        IN  reply[r] # Missing /\ q # r =>
                /\ Slot(q) = Slot(r)
                /\ Plain(origin[q].tenant) /\ Plain(origin[r].tenant) =>
                     /\ origin[q].tenant = origin[r].tenant
                     /\ origin[q].key = origin[r].key
                /\ audit[q] # "none"
                /\ captured[q]
                /\ reply[q] = reply[r]
                /\ reply[r].status < 500

\* The deduplication that does hold (idempotency.go:73-92): a request that comes
\* in after a response of its slot was stored, and whose lookup Redis answers,
\* is not processed again unless Redis dropped the response.  Overlap, a failed
\* Get or Set, a 5xx and a lost entry are the only ways to a second execution.
StoredMeansServedOnce ==
    \A r \in Requests :
        audit[r] # "none" /\ captured[r] /\ before[r] # {} => Slot(r) \in dropped

\* Degrading without Redis never bypasses policy (idempotency.go:81-87): a
\* handler ran only for a permitted request whose allow was recorded, and a
\* request that came in and has an answer of its own has a recorded decision.
OutageKeepsPolicy ==
    /\ \A r \in ran : origin[r].permitted /\ audit[r] = "allow"
    /\ \A r \in Requests :
         reply[r] # Missing /\ reply[r].by = r /\ origin[r].key # NoKey =>
             audit[r] # "none"

\* idempotency.go:46-48: a duplicate replays "without re-executing the handler
\* -- so a retried POST never creates a second order".
NoSecondOrder ==
    \A q, r \in ran :
        origin[q].tenant = origin[r].tenant /\ origin[q].key = origin[r].key => q = r

\* redis.go:15-17: building every key in Key() "makes tenant isolation a
\* structural property of the cache layer".  No request is answered with the
\* response of another tenant's request.
TenantsIsolated ==
    \A r \in Requests :
        reply[r] # Missing => origin[reply[r].by].tenant = origin[r].tenant
=============================================================================
