---------------------------- MODULE RateLimiter ----------------------------
(***************************************************************************)
(* The gateway's rate limiter (internal/gateway/middleware/ratelimit.go).  *)
(*                                                                         *)
(* Every authenticated request asks the shared Redis limiter first, and    *)
(* the in-memory limiter of its own gateway instance when the Redis call   *)
(* returns an error.  Both keep a log of admissions per bucket, drop the   *)
(* ones that left the window, and admit while fewer than Limit remain.     *)
(*                                                                         *)
(* What makes it hard: the time a decision is based on is read BEFORE the  *)
(* Redis round trip (ratelimit.go:89) and before the mutex (line 115), on  *)
(* clocks that differ between instances; a call whose client gave up may   *)
(* still be counted; a key expires on Redis' own clock, is evicted, or is  *)
(* lost with a restart.                                                    *)
(*                                                                         *)
(* A definition whose name ends in a fault (PrunedNever, FullLate, ...)    *)
(* stands just before the one it is a wrong version of; no step uses it.   *)
(***************************************************************************)
EXTENDS Integers, FiniteSets

CONSTANTS
    Requests,   \* requests that pass Authenticate; also the uuid member of each
    Instances,  \* gateway processes
    Tenants,
    Endpoints,  \* method + path, as registered in router.go
    Paths,      \* path templates, what c.FullPath() returns
    Path,       \* [Endpoints -> Paths]
    Limit,      \* RATE_LIMIT_REQUESTS
    Window,     \* RATE_LIMIT_WINDOW, in clock ticks
    Delay,      \* longest time between reading the clock and the decision
    Skew,       \* how far apart two instances' clocks can be
    Offset,     \* [Instances -> 0..Skew], how far ahead each clock is
    ErrorProne, \* bound for TLC: the requests whose Redis call may fail
    MaxTime,    \* bound on the clock, for TLC
    MaxFaults   \* bound on evictions and restarts, for TLC

ASSUME RequestsFinite == IsFiniteSet(Requests)
ASSUME LimitAssumption == Limit \in Nat
ASSUME TimeAssumption ==
    /\ Window \in Nat \ {0}
    /\ Delay \in Nat
    /\ Skew \in Nat
    /\ Offset \in [Instances -> 0..Skew]
ASSUME PathAssumption == Path \in [Endpoints -> Paths]
ASSUME BoundAssumption ==
    /\ ErrorProne \subseteq Requests
    /\ MaxTime \in Nat
    /\ MaxFaults \in Nat

\* One bucket per key: "tenant:" + tenant + ":ratelimit:" + FullPath in Redis, and
\* tenant + "|ratelimit:" + FullPath in memory.  Tenant ids are free text, but no
\* path template of the router holds "ratelimit:", so distinct pairs are distinct
\* keys.
Buckets == Tenants \X Paths

VARIABLES
    clock,      \* true time, and Redis' clock
    origin,     \* per request: instance, tenant and endpoint
    pc,         \* per request: where RateLimit is
    readAt,     \* true time at which RedisLimiter.Allow read time.Now()
    script,     \* per request: what became of its Eval in Redis
    ranAt,      \* true time at which the script ran
    mreadAt,    \* true time at which MemoryLimiter.Allow read time.Now()
    memo,       \* per request: the in-memory limiter's answer
    mranAt,     \* true time at which the in-memory limiter answered
    zset,       \* Redis: members of the sorted set of each bucket
    expireAt,   \* Redis: when each sorted set expires
    windows,    \* MemoryLimiter.windows, per instance and bucket
    forgotten,  \* admissions Redis lost by eviction or restart
    mforgotten, \* admissions an instance lost by restarting
    faults

vars == <<clock, origin, pc, readAt, script, ranAt, mreadAt, memo, mranAt,
          zset, expireAt, windows, forgotten, mforgotten, faults>>

\* Everything about the in-memory limiters, and everything about Redis.
memVars == <<mreadAt, memo, mranAt, windows, mforgotten>>
redisVars == <<readAt, script, ranAt, zset, expireAt, forgotten>>

Answered == {"allowed", "limited", "dead"}

TypeOK ==
    /\ clock \in Nat
    /\ origin \in [Requests -> [inst : Instances, tenant : Tenants,
                                endpoint : Endpoints]]
    /\ pc \in [Requests -> {"idle", "eval", "fallback", "memory"} \cup Answered]
    /\ readAt \in [Requests -> Nat]
    /\ script \in [Requests -> {"none", "sent", "admitted", "refused", "lost"}]
    /\ ranAt \in [Requests -> Nat]
    /\ mreadAt \in [Requests -> Nat]
    /\ memo \in [Requests -> {"none", "admitted", "refused"}]
    /\ mranAt \in [Requests -> Nat]
    /\ zset \in [Buckets -> SUBSET Requests]
    /\ expireAt \in [Buckets -> Nat]
    /\ windows \in [Instances -> [Buckets -> SUBSET Requests]]
    /\ forgotten \in SUBSET Requests
    /\ mforgotten \in SUBSET Requests
    /\ faults \in Nat

Inst(r) == origin[r].inst

\* Key(tenant, "ratelimit:" + FullPath): the method is not part of it.
Bucket(r) == <<origin[r].tenant, Path[origin[r].endpoint]>>

\* The score of r's member, and the timestamp MemoryLimiter keeps for r: what
\* time.Now().UnixMilli() returned on r's instance.
Stamp(r) == readAt[r] + Offset[Inst(r)]
MStamp(r) == mreadAt[r] + Offset[Inst(r)]

\* The epoch is far in the past: no cutoff is negative.
StartTime == Window

Init ==
    /\ clock = StartTime
    /\ origin \in [Requests -> [inst : Instances, tenant : Tenants,
                                endpoint : Endpoints]]
    /\ pc = [r \in Requests |-> "idle"]
    /\ readAt = [r \in Requests |-> 0]
    /\ script = [r \in Requests |-> "none"]
    /\ ranAt = [r \in Requests |-> 0]
    /\ mreadAt = [r \in Requests |-> 0]
    /\ memo = [r \in Requests |-> "none"]
    /\ mranAt = [r \in Requests |-> 0]
    /\ zset = [b \in Buckets |-> {}]
    /\ expireAt = [b \in Buckets |-> 0]
    /\ windows = [i \in Instances |-> [b \in Buckets |-> {}]]
    /\ forgotten = {}
    /\ mforgotten = {}
    /\ faults = 0

-----------------------------------------------------------------------------
(* RedisLimiter.Allow and the sliding-window script                        *)

\* RateLimit calls primary.Allow, which reads the clock and sends the script.
Arrive(r) ==
    /\ pc[r] = "idle"
    /\ pc' = [pc EXCEPT ![r] = "eval"]
    /\ readAt' = [readAt EXCEPT ![r] = clock]
    /\ script' = [script EXCEPT ![r] = "sent"]
    /\ UNCHANGED <<clock, origin, ranAt, zset, expireAt, forgotten, memVars, faults>>

\* The members a command of Redis sees: none once the key has expired.
Members(b) == IF clock > expireAt[b] THEN {} ELSE zset[b]

\* ZREMRANGEBYSCORE key 0 now-window.
PrunedNever(b, now) == Members(b)
Pruned(b, now) == {q \in Members(b) : Stamp(q) > now - Window}

\* count < limit.
BelowLimitInclusive(kept) == Cardinality(kept) <= Limit
BelowLimit(kept) == Cardinality(kept) < Limit

\* PEXPIRE key window.
ExpiryAtOnce == clock
Expiry == clock + Window

\* The script runs, atomically, as one step of Redis: also when the client has
\* given up on the call, and then as late as Redis gets to it.
RunScript(r) ==
    LET b == Bucket(r)
        kept == Pruned(b, Stamp(r))
    IN  /\ script[r] = "sent"
        /\ ranAt' = [ranAt EXCEPT ![r] = clock]
        /\ \/ /\ BelowLimit(kept)
              /\ zset' = [zset EXCEPT ![b] = kept \cup {r}]
              /\ expireAt' = [expireAt EXCEPT ![b] = Expiry]
              /\ script' = [script EXCEPT ![r] = "admitted"]
           \/ /\ ~BelowLimit(kept)
              /\ zset' = [zset EXCEPT ![b] = kept]
              /\ script' = [script EXCEPT ![r] = "refused"]
              /\ UNCHANGED expireAt
        /\ UNCHANGED <<clock, origin, pc, readAt, forgotten, memVars, faults>>

ReplyRaw(r) ==
    /\ pc[r] = "eval"
    /\ script[r] \in {"admitted", "refused"}
    /\ pc' = [pc EXCEPT ![r] = script[r]]
    /\ UNCHANGED <<clock, origin, redisVars, memVars, faults>>

\* Eval returns the script's result: c.Next() on 1, 429 on 0.
Reply(r) ==
    /\ pc[r] = "eval"
    /\ script[r] \in {"admitted", "refused"}
    /\ pc' = [pc EXCEPT ![r] = IF script[r] = "admitted" THEN "allowed" ELSE "limited"]
    /\ UNCHANGED <<clock, origin, redisVars, memVars, faults>>

EvalErrorNoTimeout(r) ==
    /\ pc[r] = "eval"
    /\ script[r] = "lost"
    /\ pc' = [pc EXCEPT ![r] = "fallback"]
    /\ UNCHANGED <<clock, origin, redisVars, memVars, faults>>

\* Eval returns an error: refused connection, timeout or cancelled context.
\* The script may have run, may run later, or never.
EvalError(r) ==
    /\ pc[r] = "eval"
    /\ r \in ErrorProne \/ script[r] = "lost"
    /\ pc' = [pc EXCEPT ![r] = "fallback"]
    /\ UNCHANGED <<clock, origin, redisVars, memVars, faults>>

-----------------------------------------------------------------------------
(* MemoryLimiter.Allow                                                     *)

\* fallback.Allow reads the clock, then queues for the mutex.
MemRead(r) ==
    /\ pc[r] = "fallback"
    /\ pc' = [pc EXCEPT ![r] = "memory"]
    /\ mreadAt' = [mreadAt EXCEPT ![r] = clock]
    /\ UNCHANGED <<clock, origin, memo, mranAt, windows, mforgotten, redisVars, faults>>

\* The loop over stamps: ts > cutoff.
KeptInclusive(i, b, now) == {q \in windows[i][b] : MStamp(q) >= now - Window}
Kept(i, b, now) == {q \in windows[i][b] : MStamp(q) > now - Window}

\* len(kept) >= limit.
FullLate(kept) == Cardinality(kept) > Limit
Full(kept) == Cardinality(kept) >= Limit

\* The critical section, and RateLimit's answer.
MemAllow(r) ==
    LET i == Inst(r)
        b == Bucket(r)
        kept == Kept(i, b, MStamp(r))
    IN  /\ pc[r] = "memory"
        /\ mranAt' = [mranAt EXCEPT ![r] = clock]
        /\ \/ /\ Full(kept)
              /\ windows' = [windows EXCEPT ![i][b] = kept]
              /\ memo' = [memo EXCEPT ![r] = "refused"]
              /\ pc' = [pc EXCEPT ![r] = "limited"]
           \/ /\ ~Full(kept)
              /\ windows' = [windows EXCEPT ![i][b] = kept \cup {r}]
              /\ memo' = [memo EXCEPT ![r] = "admitted"]
              /\ pc' = [pc EXCEPT ![r] = "allowed"]
        /\ UNCHANGED <<clock, origin, mreadAt, mforgotten, redisVars, faults>>

-----------------------------------------------------------------------------
(* The environment                                                         *)

\* maxmemory-policy allkeys-lru: Redis may drop any key.
Evict(b) ==
    /\ faults < MaxFaults
    /\ zset[b] # {}
    /\ faults' = faults + 1
    /\ zset' = [zset EXCEPT ![b] = {}]
    /\ forgotten' = forgotten \cup zset[b]
    /\ UNCHANGED <<clock, origin, pc, readAt, script, ranAt, expireAt, memVars>>

\* Redis restarts with the members its last snapshot held; commands in flight
\* are gone.
RedisRestart(saved) ==
    /\ faults < MaxFaults
    /\ faults' = faults + 1
    /\ zset' = [b \in Buckets |-> zset[b] \cap saved]
    /\ forgotten' = forgotten \cup ((UNION {zset[b] : b \in Buckets}) \ saved)
    /\ script' = [r \in Requests |-> IF script[r] = "sent" THEN "lost" ELSE script[r]]
    /\ UNCHANGED <<clock, origin, pc, readAt, ranAt, expireAt, memVars>>

\* A gateway process restarts: its windows are empty and the requests it was
\* serving get no answer.  Commands they sent may still run.
InstanceRestart(i) ==
    /\ faults < MaxFaults
    /\ faults' = faults + 1
    /\ windows' = [windows EXCEPT ![i] = [b \in Buckets |-> {}]]
    /\ mforgotten' = mforgotten \cup UNION {windows[i][b] : b \in Buckets}
    /\ pc' = [r \in Requests |->
                IF Inst(r) = i /\ pc[r] \notin Answered \cup {"idle"}
                THEN "dead" ELSE pc[r]]
    /\ UNCHANGED <<clock, origin, mreadAt, memo, mranAt, redisVars>>

\* Time passes, but no call is left waiting for longer than Delay: the Redis
\* timeouts (redis.go:33-36) bound one, the critical section the other.
Tick ==
    /\ clock < MaxTime
    /\ \A r \in Requests :
         /\ pc[r] = "eval" => clock < readAt[r] + Delay
         /\ pc[r] = "memory" => clock < mreadAt[r] + Delay
    /\ clock' = clock + 1
    /\ UNCHANGED <<origin, pc, redisVars, memVars, faults>>

\* Every request has been answered; nothing more to do.
Quiescent ==
    /\ \A r \in Requests : pc[r] \in Answered
    /\ UNCHANGED vars

Next ==
    \/ \E r \in Requests : \/ Arrive(r) \/ RunScript(r) \/ Reply(r)
                           \/ EvalError(r) \/ MemRead(r) \/ MemAllow(r)
    \/ \E b \in Buckets : Evict(b)
    \/ \E saved \in SUBSET Requests : RedisRestart(saved)
    \/ \E i \in Instances : InstanceRestart(i)
    \/ Tick
    \/ Quiescent

\* The Redis client returns, with a reply or an error; the goroutine is
\* scheduled and gets the mutex.  Nothing makes Redis run a script.
Fairness ==
    \A r \in Requests : /\ WF_vars(Reply(r) \/ EvalError(r))
                        /\ WF_vars(MemRead(r))
                        /\ WF_vars(MemAllow(r))

Spec == Init /\ [][Next]_vars
FairSpec == Spec /\ Fairness
-----------------------------------------------------------------------------
(* Properties                                                              *)

\* Redis counted r, and r's client still takes that as its answer: r did not
\* fall back to memory.
ServedByRedis(r) ==
    /\ script[r] = "admitted"
    /\ memo[r] = "none"
    /\ pc[r] \in {"eval", "allowed"}

\* The sliding window the shared limiter really guarantees (script and
\* RedisLimiter.Allow, ratelimit.go:65-98).  The time is read before the round
\* trip and on unsynchronised clocks, so the window it enforces is shorter than
\* the configured one by Delay + Skew: within any period shorter than
\* Window - Delay - Skew a bucket gets at most Limit admissions from Redis,
\* whatever the interleaving of concurrent calls, the expiry of the key and
\* abandoned calls that run late; only data Redis lost is not counted.
WindowBound ==
    \A b \in Buckets :
        Cardinality({r \in Requests :
                        /\ Bucket(r) = b
                        /\ ServedByRedis(r)
                        /\ r \notin forgotten
                        /\ ranAt[r] > clock - (Window - Delay - Skew)}) <= Limit

\* The same for one instance's fallback limiter (MemoryLimiter.Allow): the
\* mutex makes prune, count and append one step, and the time was read before
\* the mutex on this instance's own clock, so only Delay is lost.
MemWindowBound ==
    \A i \in Instances, b \in Buckets :
        Cardinality({r \in Requests :
                        /\ Inst(r) = i
                        /\ Bucket(r) = b
                        /\ memo[r] = "admitted"
                        /\ r \notin mforgotten
                        /\ mranAt[r] > clock - (Window - Delay)}) <= Limit

\* A 429 is never spurious: when the script refuses a request, Limit admissions
\* of the same bucket were made before it that are younger than its stamp less
\* the window, and when the fallback refuses it, Limit such admissions of the same
\* instance and bucket were.  They may carry later stamps than the request's own:
\* calls overtake each other, and the script counts whatever it has not pruned.
\* Refused requests consume nothing (ratelimit.go:70-77, 121-131).
RefusalJustified ==
    \A r \in Requests :
        /\ script[r] = "refused" =>
             Cardinality({q \in Requests :
                            /\ Bucket(q) = Bucket(r)
                            /\ script[q] = "admitted"
                            /\ ranAt[q] <= ranAt[r]
                            /\ Stamp(q) > Stamp(r) - Window}) >= Limit
        /\ memo[r] = "refused" =>
             Cardinality({q \in Requests :
                            /\ Inst(q) = Inst(r)
                            /\ Bucket(q) = Bucket(r)
                            /\ memo[q] = "admitted"
                            /\ mranAt[q] <= mranAt[r]
                            /\ MStamp(q) > MStamp(r) - Window}) >= Limit

\* Redis trouble never hangs a request: once primary.Allow is called, the
\* request is allowed or limited, unless its process dies (ratelimit.go:40-54).
EveryRequestAnswered ==
    \A r \in Requests : pc[r] = "eval" ~> pc[r] \in Answered
=============================================================================
