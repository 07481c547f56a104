------------------------- MODULE RateLimiterProofs -------------------------
(***************************************************************************)
(* Proofs about RateLimiter, for every number of requests, instances,      *)
(* tenants and endpoints and every limit, window, delay and skew.          *)
(***************************************************************************)
EXTENDS RateLimiter, FiniteSetTheorems, TLAPS

\* Type correctness of every step of the limiter (ratelimit.go:29-134).
LEMMA TypeStep == TypeOK /\ [Next]_vars => TypeOK'
<1> SUFFICES ASSUME TypeOK, [Next]_vars PROVE TypeOK'
  OBVIOUS
<1> USE TimeAssumption, BoundAssumption DEF TypeOK, memVars, redisVars, Answered
<1>1. ASSUME NEW r \in Requests, Arrive(r) PROVE TypeOK'
  BY <1>1 DEF Arrive
<1>2. ASSUME NEW r \in Requests, RunScript(r) PROVE TypeOK'
  <2>1. Bucket(r) \in Buckets
    BY PathAssumption DEF Bucket, Buckets
  <2>2. Pruned(Bucket(r), Stamp(r)) \cup {r} \in SUBSET Requests
    BY <2>1 DEF Pruned, Members
  <2>3. zset' \in [Buckets -> SUBSET Requests]
    <3>1. PICK S \in SUBSET Requests : zset' = [zset EXCEPT ![Bucket(r)] = S]
      BY <1>2, <2>2 DEF RunScript
    <3> QED
      BY <2>1, <3>1
  <2>4. expireAt' \in [Buckets -> Nat]
    <3>1. \/ expireAt' = [expireAt EXCEPT ![Bucket(r)] = clock + Window]
          \/ expireAt' = expireAt
      BY <1>2 DEF RunScript, Expiry
    <3>2. clock + Window \in Nat
      OBVIOUS
    <3> QED
      BY <2>1, <3>1, <3>2
  <2>5. script' \in [Requests -> {"none", "sent", "admitted", "refused", "lost"}]
    BY <1>2 DEF RunScript
  <2> QED
    BY <1>2, <2>3, <2>4, <2>5 DEF RunScript
<1>3. ASSUME NEW r \in Requests, Reply(r) PROVE TypeOK'
  BY <1>3 DEF Reply
<1>4. ASSUME NEW r \in Requests, EvalError(r) PROVE TypeOK'
  BY <1>4 DEF EvalError
<1>5. ASSUME NEW r \in Requests, MemRead(r) PROVE TypeOK'
  BY <1>5 DEF MemRead
<1>6. ASSUME NEW r \in Requests, MemAllow(r) PROVE TypeOK'
  <2>1. Bucket(r) \in Buckets /\ Inst(r) \in Instances
    BY PathAssumption DEF Bucket, Buckets, Inst
  <2>2. Kept(Inst(r), Bucket(r), MStamp(r)) \cup {r} \in SUBSET Requests
    BY <2>1 DEF Kept
  <2>3. windows' \in [Instances -> [Buckets -> SUBSET Requests]]
    <3>1. PICK S \in SUBSET Requests :
            windows' = [windows EXCEPT ![Inst(r)][Bucket(r)] = S]
      BY <1>6, <2>2 DEF MemAllow
    <3> QED
      BY <2>1, <3>1
  <2>4. /\ memo' \in [Requests -> {"none", "admitted", "refused"}]
        /\ pc' \in [Requests -> {"idle", "eval", "fallback", "memory"} \cup Answered]
    <3>1. \/ /\ memo' = [memo EXCEPT ![r] = "refused"]
             /\ pc' = [pc EXCEPT ![r] = "limited"]
          \/ /\ memo' = [memo EXCEPT ![r] = "admitted"]
             /\ pc' = [pc EXCEPT ![r] = "allowed"]
      BY <1>6 DEF MemAllow
    <3>2. memo' \in [Requests -> {"none", "admitted", "refused"}]
      BY <3>1
    <3>3. pc' \in [Requests -> {"idle", "eval", "fallback", "memory"} \cup Answered]
      BY <3>1
    <3> QED
      BY <3>2, <3>3
  <2> QED
    BY <1>6, <2>3, <2>4 DEF MemAllow
<1>7. ASSUME NEW b \in Buckets, Evict(b) PROVE TypeOK'
  BY <1>7 DEF Evict
<1>8. ASSUME NEW saved \in SUBSET Requests, RedisRestart(saved) PROVE TypeOK'
  <2>1. zset' \in [Buckets -> SUBSET Requests]
    BY <1>8 DEF RedisRestart
  <2>2. forgotten' \in SUBSET Requests
    BY <1>8 DEF RedisRestart
  <2> QED
    BY <1>8, <2>1, <2>2 DEF RedisRestart
<1>9. ASSUME NEW i \in Instances, InstanceRestart(i) PROVE TypeOK'
  <2>1. mforgotten' \in SUBSET Requests
    BY <1>9 DEF InstanceRestart
  <2> QED
    BY <1>9, <2>1 DEF InstanceRestart
<1>10. CASE Tick
  BY <1>10 DEF Tick
<1>11. CASE Quiescent \/ UNCHANGED vars
  BY <1>11 DEF Quiescent, vars
<1> QED
  BY <1>1, <1>2, <1>3, <1>4, <1>5, <1>6, <1>7, <1>8, <1>9, <1>10, <1>11 DEF Next

\* The limiter's state keeps its type.
THEOREM TypeCorrect == Spec => []TypeOK
<1>1. Init => TypeOK
  BY TimeAssumption DEF Init, TypeOK, StartTime, Answered
<1> QED
  BY <1>1, TypeStep, PTL DEF Spec
-----------------------------------------------------------------------------
(* The shared window                                                       *)

\* When a request's time was read, when its script ran, and what its handler
\* knows of it.
CallTiming(r) ==
    /\ script[r] = "none" <=> pc[r] = "idle"
    /\ script[r] # "none" => readAt[r] <= clock
    /\ script[r] \in {"admitted", "refused"} =>
         /\ readAt[r] <= ranAt[r]
         /\ ranAt[r] <= clock
    /\ pc[r] = "eval" => clock <= readAt[r] + Delay
    /\ pc[r] = "allowed" /\ memo[r] = "none" => script[r] = "admitted"
    /\ ServedByRedis(r) => ranAt[r] <= readAt[r] + Delay

Timing == \A r \in Requests : CallTiming(r)

\* A sorted set holds admissions of its own bucket, and outlives each by Window.
MembersOK ==
    \A b \in Buckets : \A q \in zset[b] :
        /\ Bucket(q) = b
        /\ script[q] = "admitted"
        /\ ranAt[q] + Window <= expireAt[b]

\* No sorted set outgrows the limit.
SetsBounded == \A b \in Buckets : Cardinality(zset[b]) <= Limit

\* An admission leaves its sorted set only once it is out of the window of the
\* fastest clock.
Retained ==
    \A q \in Requests :
        script[q] = "admitted" =>
            \/ q \in zset[Bucket(q)]
            \/ q \in forgotten
            \/ Stamp(q) + Window <= clock + Skew

\* Every step of a call keeps Timing: a clock reading is never ahead of the clock,
\* nor more than Delay behind it while its call is pending (redis.go:33-41).
LEMMA TimingStep == TypeOK /\ Timing /\ [Next]_vars => Timing'
<1> SUFFICES ASSUME TypeOK, Timing, [Next]_vars, NEW q \in Requests
             PROVE CallTiming(q)'
  BY DEF Timing
<1>0. CallTiming(q)
  BY DEF Timing
<1> USE <1>0, TimeAssumption DEF TypeOK, CallTiming, ServedByRedis, memVars, redisVars, Answered
<1>1. ASSUME NEW r \in Requests, Arrive(r) PROVE CallTiming(q)'
  BY <1>1 DEF Arrive
<1>2. ASSUME NEW r \in Requests, RunScript(r) PROVE CallTiming(q)'
  <2>1. /\ script[r] = "sent"
        /\ ranAt' = [ranAt EXCEPT ![r] = clock]
        /\ \/ script' = [script EXCEPT ![r] = "admitted"]
           \/ script' = [script EXCEPT ![r] = "refused"]
        /\ UNCHANGED <<clock, pc, readAt, memo>>
    BY <1>2 DEF RunScript
  <2> QED
    BY <2>1
<1>3. ASSUME NEW r \in Requests, Reply(r) PROVE CallTiming(q)'
  BY <1>3 DEF Reply
<1>4. ASSUME NEW r \in Requests, EvalError(r) PROVE CallTiming(q)'
  BY <1>4 DEF EvalError
<1>5. ASSUME NEW r \in Requests, MemRead(r) PROVE CallTiming(q)'
  BY <1>5 DEF MemRead
<1>6. ASSUME NEW r \in Requests, MemAllow(r) PROVE CallTiming(q)'
  <2>1. /\ pc[r] = "memory"
        /\ \/ /\ memo' = [memo EXCEPT ![r] = "refused"]
              /\ pc' = [pc EXCEPT ![r] = "limited"]
           \/ /\ memo' = [memo EXCEPT ![r] = "admitted"]
              /\ pc' = [pc EXCEPT ![r] = "allowed"]
        /\ UNCHANGED <<clock, script, readAt, ranAt>>
    BY <1>6 DEF MemAllow
  <2> QED
    BY <2>1
<1>7. ASSUME NEW b \in Buckets, Evict(b) PROVE CallTiming(q)'
  BY <1>7 DEF Evict
<1>8. ASSUME NEW saved \in SUBSET Requests, RedisRestart(saved) PROVE CallTiming(q)'
  BY <1>8 DEF RedisRestart
<1>9. ASSUME NEW i \in Instances, InstanceRestart(i) PROVE CallTiming(q)'
  BY <1>9 DEF InstanceRestart
<1>10. CASE Tick
  BY <1>10 DEF Tick
<1>11. CASE Quiescent \/ UNCHANGED vars
  BY <1>11 DEF Quiescent, vars
<1> QED
  BY <1>1, <1>2, <1>3, <1>4, <1>5, <1>6, <1>7, <1>8, <1>9, <1>10, <1>11 DEF Next
\* Everything RedisLimiter keeps, as one inductive invariant.
LogInv == MembersOK /\ SetsBounded /\ Retained

\* A request's key (ratelimit.go:37-38) and instance are ones the state knows.
LEMMA BucketType == TypeOK => \A r \in Requests : Bucket(r) \in Buckets /\ Inst(r) \in Instances
BY PathAssumption DEF TypeOK, Bucket, Buckets, Inst

\* Two clock readings: on no instance is the time ahead of clock + Skew.
LEMMA StampRange ==
    TypeOK => \A r \in Requests : /\ Stamp(r) \in Nat
                                  /\ readAt[r] <= Stamp(r)
                                  /\ Stamp(r) <= readAt[r] + Skew
<1> SUFFICES ASSUME TypeOK, NEW r \in Requests
             PROVE /\ Stamp(r) \in Nat
                   /\ readAt[r] <= Stamp(r)
                   /\ Stamp(r) <= readAt[r] + Skew
  OBVIOUS
<1>1. Offset[Inst(r)] \in 0..Skew
  BY BucketType, TimeAssumption
<1>2. readAt[r] \in Nat
  BY DEF TypeOK
<1> QED
  BY <1>1, <1>2, TimeAssumption DEF Stamp

\* The script (ratelimit.go:65-78) keeps the log: what it drops has left the
\* window or expired, and it adds only below the limit.
LEMMA ScriptKeepsLog ==
    ASSUME TypeOK, Timing, LogInv, NEW r \in Requests, RunScript(r)
    PROVE LogInv'
<1> DEFINE b == Bucket(r)
           kept == Pruned(b, Stamp(r))
<1> USE TimeAssumption, LimitAssumption
<1>1. b \in Buckets
  BY BucketType
<1>2. /\ script[r] = "sent"
      /\ ranAt' = [ranAt EXCEPT ![r] = clock]
      /\ UNCHANGED <<clock, origin, readAt, forgotten>>
  BY DEF RunScript
<1>3. kept \subseteq zset[b] /\ zset[b] \subseteq Requests /\ r \notin zset[b]
  BY <1>1, <1>2 DEF Pruned, Members, LogInv, MembersOK, TypeOK
<1>4. IsFiniteSet(kept)
  BY <1>3, RequestsFinite, FS_Subset
<1>5. \A q \in Requests : Bucket(q)' = Bucket(q) /\ Stamp(q)' = Stamp(q)
  BY <1>2 DEF Bucket, Stamp, Inst
<1>6. ASSUME NEW q \in zset[b], q \notin kept
      PROVE Stamp(q) + Window <= clock + Skew
  <2>1. q \in Requests /\ script[q] = "admitted" /\ ranAt[q] + Window <= expireAt[b]
    BY <1>1, <1>3 DEF LogInv, MembersOK
  <2>2. /\ readAt[q] <= ranAt[q] /\ readAt[r] <= clock
        /\ readAt[q] \in Nat /\ ranAt[q] \in Nat /\ readAt[r] \in Nat
        /\ clock \in Nat /\ expireAt[b] \in Nat
    BY <1>1, <1>2, <2>1 DEF Timing, CallTiming, TypeOK
  <2>3. /\ Stamp(q) \in Nat /\ Stamp(q) <= readAt[q] + Skew
        /\ Stamp(r) \in Nat /\ Stamp(r) <= readAt[r] + Skew
    BY <2>1, StampRange
  <2>4. CASE clock > expireAt[b]
    BY <2>1, <2>2, <2>3, <2>4
  <2>5. CASE ~(clock > expireAt[b])
    <3>1. ~(Stamp(q) > Stamp(r) - Window)
      BY <1>6, <2>5 DEF Pruned, Members
    <3> QED
      BY <2>2, <2>3, <3>1
  <2> QED
    BY <2>4, <2>5
<1>7. CASE /\ Cardinality(kept) < Limit
           /\ zset' = [zset EXCEPT ![b] = kept \cup {r}]
           /\ expireAt' = [expireAt EXCEPT ![b] = clock + Window]
           /\ script' = [script EXCEPT ![r] = "admitted"]
  <2>1. zset'[b] = kept \cup {r} /\ expireAt'[b] = clock + Window
    BY <1>1, <1>7 DEF TypeOK
  <2>2. \A c \in Buckets : c # b => zset'[c] = zset[c] /\ expireAt'[c] = expireAt[c]
    BY <1>7 DEF TypeOK
  <2>3. \A q \in Requests : q # r => script'[q] = script[q] /\ ranAt'[q] = ranAt[q]
    BY <1>2, <1>7 DEF TypeOK
  <2>4. script'[r] = "admitted" /\ ranAt'[r] = clock /\ clock \in Nat
    BY <1>2, <1>7 DEF TypeOK
  <2>5. MembersOK'
    <3> SUFFICES ASSUME NEW c \in Buckets, NEW q \in zset'[c]
                 PROVE /\ Bucket(q)' = c
                       /\ script'[q] = "admitted"
                       /\ ranAt'[q] + Window <= expireAt'[c]
      BY DEF MembersOK
    <3>1. CASE c = b /\ q = r
      BY <3>1, <1>5, <2>1, <2>4
    <3>2. CASE c = b /\ q # r
      <4>1. q \in zset[b] /\ q \in Requests
        BY <3>2, <2>1, <1>3
      <4>2. Bucket(q) = b /\ script[q] = "admitted" /\ ranAt[q] <= clock /\ ranAt[q] \in Nat
        BY <4>1, <1>1 DEF LogInv, MembersOK, Timing, CallTiming, TypeOK
      <4> QED
        BY <3>2, <4>1, <4>2, <1>5, <2>1, <2>3, <2>4
    <3>3. CASE c # b
      <4>1. q \in zset[c] /\ q \in Requests
        BY <3>3, <2>2 DEF TypeOK
      <4>2. Bucket(q) = c /\ script[q] = "admitted" /\ ranAt[q] + Window <= expireAt[c]
        BY <4>1 DEF LogInv, MembersOK
      <4>3. q # r
        BY <4>2, <1>2
      <4> QED
        BY <3>3, <4>1, <4>2, <4>3, <1>5, <2>2, <2>3
    <3> QED
      BY <3>1, <3>2, <3>3
  <2>6. SetsBounded'
    <3>1. Cardinality(kept \cup {r}) = Cardinality(kept) + 1
      BY <1>3, <1>4, FS_AddElement
    <3>2. Cardinality(kept) \in Nat
      BY <1>4, FS_CardinalityType
    <3>3. Cardinality(kept \cup {r}) <= Limit
      BY <3>1, <3>2, <1>7
    <3> QED
      BY <3>3, <2>1, <2>2 DEF LogInv, SetsBounded
  <2>7. Retained'
    <3> SUFFICES ASSUME NEW q \in Requests, script'[q] = "admitted"
                 PROVE \/ q \in zset'[Bucket(q)]
                       \/ q \in forgotten
                       \/ Stamp(q) + Window <= clock + Skew
      BY <1>2, <1>5 DEF Retained
    <3>1. CASE q = r
      BY <3>1, <2>1
    <3>2. CASE q # r /\ Bucket(q) = b
      <4>1. script[q] = "admitted"
        BY <3>2, <2>3
      <4> QED
        BY <3>2, <4>1, <1>6, <2>1 DEF LogInv, Retained
    <3>3. CASE q # r /\ Bucket(q) # b
      <4>1. script[q] = "admitted" /\ zset'[Bucket(q)] = zset[Bucket(q)]
        BY <3>3, <2>2, <2>3, BucketType
      <4> QED
        BY <4>1 DEF LogInv, Retained
    <3> QED
      BY <3>1, <3>2, <3>3
  <2> QED
    BY <2>5, <2>6, <2>7 DEF LogInv
<1>8. CASE /\ zset' = [zset EXCEPT ![b] = kept]
           /\ script' = [script EXCEPT ![r] = "refused"]
           /\ expireAt' = expireAt
  <2>1. zset'[b] = kept
    BY <1>1, <1>8 DEF TypeOK
  <2>2. \A c \in Buckets : c # b => zset'[c] = zset[c]
    BY <1>8 DEF TypeOK
  <2>3. \A q \in Requests : q # r => script'[q] = script[q] /\ ranAt'[q] = ranAt[q]
    BY <1>2, <1>8 DEF TypeOK
  <2>4. script'[r] = "refused"
    BY <1>8 DEF TypeOK
  <2>5. MembersOK'
    <3> SUFFICES ASSUME NEW c \in Buckets, NEW q \in zset'[c]
                 PROVE /\ Bucket(q)' = c
                       /\ script'[q] = "admitted"
                       /\ ranAt'[q] + Window <= expireAt'[c]
      BY DEF MembersOK
    <3>1. q \in zset[c] /\ q \in Requests
      BY <1>3, <2>1, <2>2 DEF TypeOK
    <3>2. Bucket(q) = c /\ script[q] = "admitted" /\ ranAt[q] + Window <= expireAt[c]
      BY <3>1 DEF LogInv, MembersOK
    <3>3. q # r
      BY <3>2, <1>2
    <3> QED
      BY <3>1, <3>2, <3>3, <1>5, <1>8, <2>3
  <2>6. SetsBounded'
    <3>1. Cardinality(kept) <= Cardinality(zset[b]) /\ Cardinality(zset[b]) \in Nat
      BY <1>3, RequestsFinite, FS_Subset, FS_CardinalityType
    <3>2. Cardinality(kept) \in Nat
      BY <1>4, FS_CardinalityType
    <3>3. Cardinality(kept) <= Limit
      BY <3>1, <3>2, <1>1 DEF LogInv, SetsBounded
    <3> QED
      BY <3>3, <2>1, <2>2 DEF LogInv, SetsBounded
  <2>7. Retained'
    <3> SUFFICES ASSUME NEW q \in Requests, script'[q] = "admitted"
                 PROVE \/ q \in zset'[Bucket(q)]
                       \/ q \in forgotten
                       \/ Stamp(q) + Window <= clock + Skew
      BY <1>2, <1>5 DEF Retained
    <3>1. q # r /\ script[q] = "admitted"
      BY <2>3, <2>4
    <3>2. CASE Bucket(q) = b
      BY <3>1, <3>2, <1>6, <2>1 DEF LogInv, Retained
    <3>3. CASE Bucket(q) # b
      <4>1. zset'[Bucket(q)] = zset[Bucket(q)]
        BY <3>3, <2>2, BucketType
      <4> QED
        BY <3>1, <4>1 DEF LogInv, Retained
    <3> QED
      BY <3>2, <3>3
  <2> QED
    BY <2>5, <2>6, <2>7 DEF LogInv
<1> QED
  BY <1>7, <1>8 DEF RunScript, BelowLimit, Expiry

\* Every step of the limiter and of Redis keeps the log: only the script prunes
\* it, and what a fault takes from it is recorded in forgotten.
LEMMA LogStep == TypeOK /\ Timing /\ LogInv /\ [Next]_vars => LogInv'
<1> SUFFICES ASSUME TypeOK, Timing, LogInv, [Next]_vars PROVE LogInv'
  OBVIOUS
<1> USE TimeAssumption, LimitAssumption
<1>0. ASSUME UNCHANGED <<origin, readAt, script, ranAt, zset, expireAt, forgotten>>,
             clock' \in Nat, clock <= clock'
      PROVE LogInv'
  <2>1. \A q \in Requests : Stamp(q)' = Stamp(q) /\ Bucket(q)' = Bucket(q)
    BY <1>0 DEF Stamp, Bucket, Inst
  <2>2. MembersOK'
    BY <1>0, <2>1 DEF LogInv, MembersOK, TypeOK
  <2>3. SetsBounded'
    BY <1>0 DEF LogInv, SetsBounded
  <2>4. Retained'
    <3> SUFFICES ASSUME NEW q \in Requests, script[q] = "admitted"
                 PROVE \/ q \in zset[Bucket(q)]
                       \/ q \in forgotten
                       \/ Stamp(q) + Window <= clock' + Skew
      BY <1>0, <2>1 DEF Retained
    <3>1. Stamp(q) \in Nat /\ clock \in Nat
      BY StampRange DEF TypeOK
    <3> QED
      BY <1>0, <3>1 DEF LogInv, Retained
  <2> QED
    BY <2>2, <2>3, <2>4 DEF LogInv
<1>1. ASSUME NEW r \in Requests, Arrive(r) PROVE LogInv'
  <2>1. /\ script[r] = "none"
        /\ UNCHANGED <<clock, origin, ranAt, zset, expireAt, forgotten>>
    BY <1>1 DEF Arrive, Timing, CallTiming
  <2>2. \A q \in Requests : Bucket(q)' = Bucket(q)
    BY <2>1 DEF Bucket
  <2>3. \A q \in Requests : q # r => script'[q] = script[q] /\ Stamp(q)' = Stamp(q)
    BY <1>1, <2>1 DEF Arrive, TypeOK, Stamp, Inst
  <2>4. script'[r] = "sent"
    BY <1>1 DEF Arrive, TypeOK
  <2>5. MembersOK'
    BY <2>1, <2>2, <2>3 DEF LogInv, MembersOK, TypeOK
  <2>6. SetsBounded'
    BY <2>1 DEF LogInv, SetsBounded
  <2>7. Retained'
    BY <2>1, <2>2, <2>3, <2>4 DEF LogInv, Retained
  <2> QED
    BY <2>5, <2>6, <2>7 DEF LogInv
<1>2. ASSUME NEW r \in Requests, RunScript(r) PROVE LogInv'
  BY <1>2, ScriptKeepsLog
<1>3. ASSUME NEW r \in Requests, Reply(r) PROVE LogInv'
  BY <1>3, <1>0 DEF Reply, redisVars, TypeOK
<1>4. ASSUME NEW r \in Requests, EvalError(r) PROVE LogInv'
  BY <1>4, <1>0 DEF EvalError, redisVars, TypeOK
<1>5. ASSUME NEW r \in Requests, MemRead(r) PROVE LogInv'
  BY <1>5, <1>0 DEF MemRead, redisVars, TypeOK
<1>6. ASSUME NEW r \in Requests, MemAllow(r) PROVE LogInv'
  BY <1>6, <1>0 DEF MemAllow, redisVars, TypeOK
<1>7. ASSUME NEW b \in Buckets, Evict(b) PROVE LogInv'
  <2>1. UNCHANGED <<clock, origin, readAt, script, ranAt, expireAt>>
    BY <1>7 DEF Evict
  <2>2. \A q \in Requests : Stamp(q)' = Stamp(q) /\ Bucket(q)' = Bucket(q)
    BY <2>1 DEF Stamp, Bucket, Inst
  <2>3. /\ zset'[b] = {} /\ forgotten' = forgotten \cup zset[b]
        /\ \A c \in Buckets : c # b => zset'[c] = zset[c]
    BY <1>7 DEF Evict, TypeOK
  <2>4. MembersOK'
    BY <2>1, <2>2, <2>3 DEF LogInv, MembersOK, TypeOK
  <2>5. SetsBounded'
    BY <2>3, FS_EmptySet DEF LogInv, SetsBounded
  <2>6. Retained'
    BY <2>1, <2>2, <2>3, BucketType DEF LogInv, Retained
  <2> QED
    BY <2>4, <2>5, <2>6 DEF LogInv
<1>8. ASSUME NEW saved \in SUBSET Requests, RedisRestart(saved) PROVE LogInv'
  <2>1. UNCHANGED <<clock, origin, readAt, ranAt, expireAt>>
    BY <1>8 DEF RedisRestart
  <2>2. \A q \in Requests : Stamp(q)' = Stamp(q) /\ Bucket(q)' = Bucket(q)
    BY <2>1 DEF Stamp, Bucket, Inst
  <2>3. \A c \in Buckets : zset'[c] = zset[c] \cap saved
    BY <1>8 DEF RedisRestart
  <2>4. ASSUME NEW c \in Buckets, NEW q \in zset[c], q \notin saved
        PROVE  q \in forgotten'
    <3>1. zset[c] \in {zset[e] : e \in Buckets}
      BY Zenon
    <3>2. forgotten' = forgotten \cup ((UNION {zset[e] : e \in Buckets}) \ saved)
      BY <1>8 DEF RedisRestart
    <3>3. q \in UNION {zset[e] : e \in Buckets}
      BY <3>1, Zenon
    <3> QED
      BY <2>4, <3>2, <3>3, Zenon
  <2>5. forgotten \subseteq forgotten'
    BY <1>8 DEF RedisRestart
  <2>6. \A q \in Requests : script'[q] = "admitted" <=> script[q] = "admitted"
    BY <1>8 DEF RedisRestart, TypeOK
  <2>7. MembersOK'
    BY <2>1, <2>2, <2>3, <2>6 DEF LogInv, MembersOK, TypeOK
  <2>8. SetsBounded'
    <3> SUFFICES ASSUME NEW c \in Buckets PROVE Cardinality(zset'[c]) <= Limit
      BY DEF SetsBounded
    <3>1. zset'[c] \subseteq zset[c] /\ IsFiniteSet(zset[c])
      BY <2>3, RequestsFinite, FS_Subset DEF TypeOK
    <3>2. /\ Cardinality(zset'[c]) <= Cardinality(zset[c])
          /\ Cardinality(zset[c]) \in Nat /\ Cardinality(zset'[c]) \in Nat
      BY <3>1, FS_Subset, FS_CardinalityType
    <3> QED
      BY <3>2 DEF LogInv, SetsBounded
  <2>9. Retained'
    BY <2>1, <2>2, <2>3, <2>4, <2>5, <2>6, BucketType DEF LogInv, Retained
  <2> QED
    BY <2>7, <2>8, <2>9 DEF LogInv
<1>9. ASSUME NEW i \in Instances, InstanceRestart(i) PROVE LogInv'
  BY <1>9, <1>0 DEF InstanceRestart, redisVars, TypeOK
<1>10. CASE Tick
  BY <1>10, <1>0 DEF Tick, redisVars, TypeOK
<1>11. CASE Quiescent \/ UNCHANGED vars
  BY <1>11, <1>0 DEF Quiescent, vars, TypeOK
<1> QED
  BY <1>1, <1>2, <1>3, <1>4, <1>5, <1>6, <1>7, <1>8, <1>9, <1>10, <1>11 DEF Next

\* The bound follows: an admission that young is still in its sorted set.
LEMMA LogBound == TypeOK /\ Timing /\ LogInv => WindowBound
<1> SUFFICES ASSUME TypeOK, Timing, LogInv, NEW b \in Buckets
             PROVE Cardinality({r \in Requests :
                        /\ Bucket(r) = b
                        /\ ServedByRedis(r)
                        /\ r \notin forgotten
                        /\ ranAt[r] > clock - (Window - Delay - Skew)}) <= Limit
  BY DEF WindowBound
<1> DEFINE Recent == {r \in Requests :
                        /\ Bucket(r) = b
                        /\ ServedByRedis(r)
                        /\ r \notin forgotten
                        /\ ranAt[r] > clock - (Window - Delay - Skew)}
<1>1. ASSUME NEW r \in Recent PROVE r \in zset[b]
  <2>1. /\ r \in Requests /\ Bucket(r) = b /\ r \notin forgotten
        /\ script[r] = "admitted"
        /\ ranAt[r] > clock - (Window - Delay - Skew)
        /\ ranAt[r] <= readAt[r] + Delay
    BY <1>1 DEF Timing, CallTiming, ServedByRedis
  <2>2. /\ ranAt[r] \in Nat /\ readAt[r] \in Nat /\ clock \in Nat
        /\ Stamp(r) \in Nat /\ readAt[r] <= Stamp(r)
    BY <2>1, StampRange DEF TypeOK
  <2>3. ~(Stamp(r) + Window <= clock + Skew)
    BY <2>1, <2>2, TimeAssumption
  <2> QED
    BY <2>1, <2>3 DEF LogInv, Retained
<1>2. Recent \subseteq zset[b] /\ IsFiniteSet(zset[b])
  BY <1>1, RequestsFinite, FS_Subset DEF TypeOK
<1>3. /\ Cardinality(Recent) <= Cardinality(zset[b])
      /\ Cardinality(Recent) \in Nat /\ Cardinality(zset[b]) \in Nat
  BY <1>2, FS_Subset, FS_CardinalityType
<1>4. Cardinality(Recent) <= Limit
  BY <1>3, LimitAssumption DEF LogInv, SetsBounded
<1> QED
  BY <1>4

\* The shared limiter's guarantee (ratelimit.go:65-98), for every limit, window,
\* call delay and clock skew and any number of concurrent requests: fewer than
\* Window - Delay - Skew ticks see at most Limit admissions of a bucket.
THEOREM SharedWindow == Spec => []WindowBound
<1>1. Init => TypeOK /\ Timing /\ LogInv
  <2> SUFFICES ASSUME Init PROVE TypeOK /\ Timing /\ LogInv
    OBVIOUS
  <2>1. TypeOK
    BY TimeAssumption DEF Init, TypeOK, StartTime, Answered
  <2>2. Timing
    BY DEF Init, Timing, CallTiming, ServedByRedis
  <2>3. MembersOK /\ Retained
    BY DEF Init, MembersOK, Retained
  <2>4. SetsBounded
    BY FS_EmptySet, LimitAssumption DEF Init, SetsBounded
  <2> QED
    BY <2>1, <2>2, <2>3, <2>4 DEF LogInv
<1> QED
  BY <1>1, TypeStep, TimingStep, LogStep, LogBound, PTL DEF Spec

-----------------------------------------------------------------------------
(* The fallback window                                                     *)

\* When the fallback read the clock for a request and when it answered.
MemCallTiming(r) ==
    /\ memo[r] # "none" =>
         /\ pc[r] \in {"allowed", "limited"}
         /\ mreadAt[r] <= mranAt[r]
         /\ mranAt[r] <= clock
         /\ mranAt[r] <= mreadAt[r] + Delay
    /\ pc[r] = "memory" => mreadAt[r] <= clock /\ clock <= mreadAt[r] + Delay

MemTiming == \A r \in Requests : MemCallTiming(r)

\* An instance's window holds its own admissions of the bucket.
MemMembersOK ==
    \A i \in Instances, b \in Buckets : \A q \in windows[i][b] :
        Inst(q) = i /\ Bucket(q) = b /\ memo[q] = "admitted"

\* No window outgrows the limit.
WindowsBounded == \A i \in Instances, b \in Buckets : Cardinality(windows[i][b]) <= Limit

\* An admission leaves its window only with its instance or once it is Window old.
MemRetained ==
    \A q \in Requests :
        memo[q] = "admitted" =>
            \/ q \in windows[Inst(q)][Bucket(q)]
            \/ q \in mforgotten
            \/ mreadAt[q] + Window <= clock

MemInv == MemMembersOK /\ WindowsBounded /\ MemRetained

\* Every step keeps MemTiming: the mutex is got within Delay of the clock reading
\* (ratelimit.go:114-118).
LEMMA MemTimingStep == TypeOK /\ MemTiming /\ [Next]_vars => MemTiming'
<1> SUFFICES ASSUME TypeOK, MemTiming, [Next]_vars, NEW q \in Requests
             PROVE  MemCallTiming(q)'
  BY DEF MemTiming
<1>0. MemCallTiming(q)
  BY DEF MemTiming
<1> USE <1>0, TimeAssumption DEF TypeOK, MemCallTiming, memVars, redisVars, Answered
<1>1. ASSUME NEW r \in Requests, Arrive(r) PROVE MemCallTiming(q)'
  BY <1>1 DEF Arrive
<1>2. ASSUME NEW r \in Requests, RunScript(r) PROVE MemCallTiming(q)'
  <2>1. UNCHANGED <<clock, pc, mreadAt, memo, mranAt>>
    BY <1>2 DEF RunScript
  <2> QED
    BY <2>1
<1>3. ASSUME NEW r \in Requests, Reply(r) PROVE MemCallTiming(q)'
  BY <1>3 DEF Reply
<1>4. ASSUME NEW r \in Requests, EvalError(r) PROVE MemCallTiming(q)'
  BY <1>4 DEF EvalError
<1>5. ASSUME NEW r \in Requests, MemRead(r) PROVE MemCallTiming(q)'
  BY <1>5 DEF MemRead
<1>6. ASSUME NEW r \in Requests, MemAllow(r) PROVE MemCallTiming(q)'
  <2>1. /\ pc[r] = "memory"
        /\ mranAt' = [mranAt EXCEPT ![r] = clock]
        /\ \/ /\ memo' = [memo EXCEPT ![r] = "refused"]
              /\ pc' = [pc EXCEPT ![r] = "limited"]
           \/ /\ memo' = [memo EXCEPT ![r] = "admitted"]
              /\ pc' = [pc EXCEPT ![r] = "allowed"]
        /\ UNCHANGED <<clock, mreadAt>>
    BY <1>6 DEF MemAllow
  <2> QED
    BY <2>1
<1>7. ASSUME NEW b \in Buckets, Evict(b) PROVE MemCallTiming(q)'
  BY <1>7 DEF Evict
<1>8. ASSUME NEW saved \in SUBSET Requests, RedisRestart(saved) PROVE MemCallTiming(q)'
  BY <1>8 DEF RedisRestart
<1>9. ASSUME NEW i \in Instances, InstanceRestart(i) PROVE MemCallTiming(q)'
  BY <1>9 DEF InstanceRestart
<1>10. CASE Tick
  BY <1>10 DEF Tick
<1>11. CASE Quiescent \/ UNCHANGED vars
  BY <1>11 DEF Quiescent, vars
<1> QED
  BY <1>1, <1>2, <1>3, <1>4, <1>5, <1>6, <1>7, <1>8, <1>9, <1>10, <1>11 DEF Next

\* Two clock readings of one instance compare as true time does.
LEMMA SameClock ==
    ASSUME TypeOK, NEW q \in Requests, NEW r \in Requests, Inst(q) = Inst(r)
    PROVE  /\ mreadAt[q] \in Nat /\ mreadAt[r] \in Nat
           /\ ~(MStamp(q) > MStamp(r) - Window) => mreadAt[q] + Window <= mreadAt[r]
<1>1. Offset[Inst(r)] \in 0..Skew
  BY BucketType, TimeAssumption
<1>2. mreadAt[q] \in Nat /\ mreadAt[r] \in Nat
  BY DEF TypeOK
<1> QED
  BY <1>1, <1>2, TimeAssumption DEF MStamp

\* The critical section (ratelimit.go:117-134) drops what is out of the window and
\* adds only below the limit.
LEMMA AllowKeepsWindows ==
    ASSUME TypeOK, MemTiming, MemInv, NEW r \in Requests, MemAllow(r)
    PROVE  MemInv'
<1> DEFINE i == Inst(r)
           b == Bucket(r)
           kept == Kept(i, b, MStamp(r))
<1> USE TimeAssumption, LimitAssumption
<1>1. i \in Instances /\ b \in Buckets
  BY BucketType
<1>2. /\ pc[r] = "memory" /\ memo[r] = "none"
      /\ UNCHANGED <<clock, origin, mreadAt, mforgotten>>
      /\ \/ /\ windows' = [windows EXCEPT ![i][b] = kept]
            /\ memo' = [memo EXCEPT ![r] = "refused"]
         \/ /\ Cardinality(kept) < Limit
            /\ windows' = [windows EXCEPT ![i][b] = kept \cup {r}]
            /\ memo' = [memo EXCEPT ![r] = "admitted"]
  <2>1. pc[r] = "memory" /\ memo[r] = "none"
    BY DEF MemAllow, MemTiming, MemCallTiming, TypeOK
  <2>2. kept \in SUBSET Requests
    BY <1>1 DEF Kept, TypeOK
  <2>3. Cardinality(kept) \in Nat
    BY <2>2, RequestsFinite, FS_Subset, FS_CardinalityType
  <2>4. ~Full(kept) => Cardinality(kept) < Limit
    BY <2>3 DEF Full
  <2> QED
    BY <2>1, <2>4 DEF MemAllow
<1>3. kept \subseteq windows[i][b] /\ windows[i][b] \subseteq Requests /\ r \notin windows[i][b]
  BY <1>1, <1>2 DEF Kept, MemInv, MemMembersOK, TypeOK
<1>4. IsFiniteSet(kept) /\ IsFiniteSet(windows[i][b])
  BY <1>3, RequestsFinite, FS_Subset
<1>5. \A q \in Requests : Bucket(q)' = Bucket(q) /\ Inst(q)' = Inst(q)
  BY <1>2 DEF Bucket, Inst
<1>6. ASSUME NEW q \in windows[i][b], q \notin kept PROVE mreadAt[q] + Window <= clock
  <2>1. q \in Requests /\ Inst(q) = i
    BY <1>1, <1>3 DEF MemInv, MemMembersOK
  <2>2. ~(MStamp(q) > MStamp(r) - Window)
    BY <1>6 DEF Kept
  <2>3. mreadAt[q] + Window <= mreadAt[r] /\ mreadAt[q] \in Nat /\ mreadAt[r] \in Nat
    BY <2>1, <2>2, SameClock
  <2>4. mreadAt[r] <= clock /\ clock \in Nat
    BY <1>2 DEF MemTiming, MemCallTiming, TypeOK
  <2> QED
    BY <2>3, <2>4
<1>7. PICK S : /\ windows' = [windows EXCEPT ![i][b] = S]
               /\ \/ S = kept /\ memo' = [memo EXCEPT ![r] = "refused"]
                  \/ /\ S = kept \cup {r} /\ Cardinality(kept) < Limit
                     /\ memo' = [memo EXCEPT ![r] = "admitted"]
  BY <1>2
<1> HIDE DEF kept
<1>8. /\ windows'[i][b] = S
      /\ \A j \in Instances, c \in Buckets :
            j # i \/ c # b => windows'[j][c] = windows[j][c]
  BY <1>1, <1>7 DEF TypeOK
<1>9. /\ \A q \in Requests : q # r => memo'[q] = memo[q]
      /\ r \in S <=> memo'[r] = "admitted"
  BY <1>3, <1>7 DEF TypeOK
<1>10. MemMembersOK'
  <2> SUFFICES ASSUME NEW j \in Instances, NEW c \in Buckets, NEW q \in windows'[j][c]
               PROVE  Inst(q)' = j /\ Bucket(q)' = c /\ memo'[q] = "admitted"
    BY DEF MemMembersOK
  <2>1. CASE j = i /\ c = b /\ q = r
    BY <1>5, <1>8, <1>9, <2>1
  <2>2. CASE j = i /\ c = b /\ q # r
    <3>1. q \in windows[i][b] /\ q \in Requests
      BY <1>3, <1>7, <1>8, <2>2
    <3> QED
      BY <1>1, <1>5, <1>9, <2>2, <3>1 DEF MemInv, MemMembersOK
  <2>3. CASE j # i \/ c # b
    <3>1. q \in windows[j][c] /\ q \in Requests
      BY <1>8, <2>3 DEF TypeOK
    <3>2. q # r
      BY <1>2, <3>1 DEF MemInv, MemMembersOK
    <3> QED
      BY <1>5, <1>9, <3>1, <3>2 DEF MemInv, MemMembersOK
  <2> QED
    BY <2>1, <2>2, <2>3
<1>11. WindowsBounded'
  <2>1. /\ Cardinality(kept) <= Cardinality(windows[i][b])
        /\ Cardinality(kept) \in Nat /\ Cardinality(windows[i][b]) \in Nat
    BY <1>3, <1>4, FS_Subset, FS_CardinalityType
  <2>2. Cardinality(windows[i][b]) <= Limit
    BY <1>1 DEF MemInv, WindowsBounded
  <2>3. Cardinality(kept \cup {r}) = Cardinality(kept) + 1
    BY <1>3, <1>4, FS_AddElement
  <2>4. Cardinality(S) <= Limit
    <3>1. CASE S = kept
      <4>1. Cardinality(S) = Cardinality(kept)
        BY <3>1
      <4> QED
        BY <2>1, <2>2, <4>1
    <3>2. CASE S = kept \cup {r} /\ Cardinality(kept) < Limit
      <4>1. Cardinality(S) = Cardinality(kept) + 1
        BY <2>3, <3>2
      <4> QED
        BY <2>1, <3>2, <4>1
    <3> QED
      BY <1>7, <3>1, <3>2
  <2> QED
    BY <1>8, <2>4 DEF MemInv, WindowsBounded
<1>12. MemRetained'
  <2> SUFFICES ASSUME NEW q \in Requests, memo'[q] = "admitted"
               PROVE  \/ q \in windows'[Inst(q)][Bucket(q)]
                      \/ q \in mforgotten
                      \/ mreadAt[q] + Window <= clock
    BY <1>2, <1>5 DEF MemRetained
  <2>1. CASE q = r
    BY <1>8, <1>9, <2>1
  <2>2. CASE q # r /\ Inst(q) = i /\ Bucket(q) = b
    <3>1. memo[q] = "admitted" /\ kept \subseteq windows'[i][b]
      BY <1>7, <1>8, <1>9, <2>2
    <3> QED
      BY <1>6, <2>2, <3>1 DEF MemInv, MemRetained
  <2>3. CASE q # r /\ (Inst(q) # i \/ Bucket(q) # b)
    <3>1. memo[q] = "admitted" /\ windows'[Inst(q)][Bucket(q)] = windows[Inst(q)][Bucket(q)]
      BY <1>8, <1>9, <2>3, BucketType
    <3> QED
      BY <3>1 DEF MemInv, MemRetained
  <2> QED
    BY <2>1, <2>2, <2>3
<1> QED
  BY <1>10, <1>11, <1>12 DEF MemInv

\* Every step keeps the windows; what a restart takes is recorded in mforgotten.
LEMMA MemStep == TypeOK /\ MemTiming /\ MemInv /\ [Next]_vars => MemInv'
<1> SUFFICES ASSUME TypeOK, MemTiming, MemInv, [Next]_vars PROVE MemInv'
  OBVIOUS
<1> USE TimeAssumption, LimitAssumption
<1>0. ASSUME UNCHANGED <<origin, memo, windows, mforgotten>>,
             clock' \in Nat, clock <= clock',
             \A q \in Requests : memo[q] = "admitted" => mreadAt'[q] = mreadAt[q]
      PROVE  MemInv'
  <2>1. \A q \in Requests : Inst(q)' = Inst(q) /\ Bucket(q)' = Bucket(q)
    BY <1>0 DEF Bucket, Inst
  <2>2. MemMembersOK'
    BY <1>0, <2>1 DEF MemInv, MemMembersOK, TypeOK
  <2>3. WindowsBounded'
    BY <1>0 DEF MemInv, WindowsBounded
  <2>4. MemRetained'
    <3> SUFFICES ASSUME NEW q \in Requests, memo[q] = "admitted"
                 PROVE  \/ q \in windows[Inst(q)][Bucket(q)]
                        \/ q \in mforgotten
                        \/ mreadAt[q] + Window <= clock'
      BY <1>0, <2>1 DEF MemRetained
    <3>1. mreadAt[q] \in Nat /\ clock \in Nat
      BY DEF TypeOK
    <3> QED
      BY <1>0, <3>1 DEF MemInv, MemRetained
  <2> QED
    BY <2>2, <2>3, <2>4 DEF MemInv
<1>1. ASSUME NEW r \in Requests, Arrive(r) PROVE MemInv'
  BY <1>0, <1>1 DEF Arrive, memVars, TypeOK
<1>2. ASSUME NEW r \in Requests, RunScript(r) PROVE MemInv'
  BY <1>0, <1>2 DEF RunScript, memVars, TypeOK
<1>3. ASSUME NEW r \in Requests, Reply(r) PROVE MemInv'
  BY <1>0, <1>3 DEF Reply, memVars, TypeOK
<1>4. ASSUME NEW r \in Requests, EvalError(r) PROVE MemInv'
  BY <1>0, <1>4 DEF EvalError, memVars, TypeOK
<1>5. ASSUME NEW r \in Requests, MemRead(r) PROVE MemInv'
  <2>1. memo[r] # "admitted"
    BY <1>5 DEF MemRead, MemTiming, MemCallTiming
  <2> QED
    BY <1>0, <1>5, <2>1 DEF MemRead, TypeOK
<1>6. ASSUME NEW r \in Requests, MemAllow(r) PROVE MemInv'
  BY <1>6, AllowKeepsWindows
<1>7. ASSUME NEW b \in Buckets, Evict(b) PROVE MemInv'
  BY <1>0, <1>7 DEF Evict, memVars, TypeOK
<1>8. ASSUME NEW saved \in SUBSET Requests, RedisRestart(saved) PROVE MemInv'
  BY <1>0, <1>8 DEF RedisRestart, memVars, TypeOK
<1>9. ASSUME NEW i \in Instances, InstanceRestart(i) PROVE MemInv'
  <2>1. UNCHANGED <<clock, origin, memo, mreadAt>>
    BY <1>9 DEF InstanceRestart
  <2>2. \A q \in Requests : Inst(q)' = Inst(q) /\ Bucket(q)' = Bucket(q)
    BY <2>1 DEF Bucket, Inst
  <2>3. /\ \A b \in Buckets : windows'[i][b] = {}
        /\ \A j \in Instances, b \in Buckets : j # i => windows'[j][b] = windows[j][b]
    BY <1>9 DEF InstanceRestart, TypeOK
  <2>4. ASSUME NEW b \in Buckets, NEW q \in windows[i][b] PROVE q \in mforgotten'
    <3>1. windows[i][b] \in {windows[i][c] : c \in Buckets}
      BY Zenon
    <3>2. mforgotten' = mforgotten \cup UNION {windows[i][c] : c \in Buckets}
      BY <1>9 DEF InstanceRestart
    <3> QED
      BY <2>4, <3>1, <3>2, Zenon
  <2>5. mforgotten \subseteq mforgotten'
    BY <1>9 DEF InstanceRestart
  <2>6. MemMembersOK'
    <3> SUFFICES ASSUME NEW j \in Instances, NEW b \in Buckets, NEW q \in windows'[j][b]
                 PROVE  Inst(q)' = j /\ Bucket(q)' = b /\ memo'[q] = "admitted"
      BY DEF MemMembersOK
    <3>1. j # i
      BY <2>3
    <3>2. q \in windows[j][b] /\ q \in Requests
      BY <2>3, <3>1 DEF TypeOK
    <3> QED
      BY <2>1, <2>2, <3>2 DEF MemInv, MemMembersOK
  <2>7. WindowsBounded'
    <3> SUFFICES ASSUME NEW j \in Instances, NEW b \in Buckets
                 PROVE  Cardinality(windows'[j][b]) <= Limit
      BY DEF WindowsBounded
    <3>1. CASE j = i
      <4>1. windows'[j][b] = {}
        BY <2>3, <3>1
      <4> QED
        BY <4>1, FS_EmptySet
    <3>2. CASE j # i
      BY <2>3, <3>2 DEF MemInv, WindowsBounded
    <3> QED
      BY <3>1, <3>2
  <2>8. MemRetained'
    <3> SUFFICES ASSUME NEW q \in Requests, memo[q] = "admitted"
                 PROVE  \/ q \in windows'[Inst(q)][Bucket(q)]
                        \/ q \in mforgotten'
                        \/ mreadAt[q] + Window <= clock
      BY <2>1, <2>2 DEF MemRetained
    <3>1. CASE Inst(q) = i
      BY <2>4, <2>5, <3>1, BucketType DEF MemInv, MemRetained
    <3>2. CASE Inst(q) # i
      BY <2>3, <2>5, <3>2, BucketType DEF MemInv, MemRetained
    <3> QED
      BY <3>1, <3>2
  <2> QED
    BY <2>6, <2>7, <2>8 DEF MemInv
<1>10. CASE Tick
  BY <1>0, <1>10 DEF Tick, memVars, TypeOK
<1>11. CASE Quiescent \/ UNCHANGED vars
  BY <1>0, <1>11 DEF Quiescent, vars, TypeOK
<1> QED
  BY <1>1, <1>2, <1>3, <1>4, <1>5, <1>6, <1>7, <1>8, <1>9, <1>10, <1>11 DEF Next

\* The bound follows: an admission that young is still in its window.
LEMMA MemBound == TypeOK /\ MemTiming /\ MemInv => MemWindowBound
<1> SUFFICES ASSUME TypeOK, MemTiming, MemInv, NEW i \in Instances, NEW b \in Buckets
             PROVE Cardinality({r \in Requests :
                        /\ Inst(r) = i
                        /\ Bucket(r) = b
                        /\ memo[r] = "admitted"
                        /\ r \notin mforgotten
                        /\ mranAt[r] > clock - (Window - Delay)}) <= Limit
  BY DEF MemWindowBound
<1> DEFINE Recent == {r \in Requests :
                        /\ Inst(r) = i
                        /\ Bucket(r) = b
                        /\ memo[r] = "admitted"
                        /\ r \notin mforgotten
                        /\ mranAt[r] > clock - (Window - Delay)}
<1>1. ASSUME NEW r \in Recent PROVE r \in windows[i][b]
  <2>1. /\ r \in Requests /\ Inst(r) = i /\ Bucket(r) = b /\ r \notin mforgotten
        /\ memo[r] = "admitted"
        /\ mranAt[r] > clock - (Window - Delay)
        /\ mranAt[r] <= mreadAt[r] + Delay
    BY <1>1 DEF MemTiming, MemCallTiming
  <2>2. mranAt[r] \in Nat /\ mreadAt[r] \in Nat /\ clock \in Nat
    BY <2>1 DEF TypeOK
  <2>3. ~(mreadAt[r] + Window <= clock)
    BY <2>1, <2>2, TimeAssumption
  <2> QED
    BY <2>1, <2>3 DEF MemInv, MemRetained
<1>2. Recent \subseteq windows[i][b] /\ IsFiniteSet(windows[i][b])
  BY <1>1, RequestsFinite, FS_Subset DEF TypeOK
<1>3. /\ Cardinality(Recent) <= Cardinality(windows[i][b])
      /\ Cardinality(Recent) \in Nat /\ Cardinality(windows[i][b]) \in Nat
  BY <1>2, FS_Subset, FS_CardinalityType
<1>4. Cardinality(Recent) <= Limit
  BY <1>3, LimitAssumption DEF MemInv, WindowsBounded
<1> QED
  BY <1>4

\* The fallback limiter's guarantee (ratelimit.go:114-134), for every limit, window
\* and delay: fewer than Window - Delay ticks see at most Limit admissions of a
\* bucket by one instance.
THEOREM FallbackWindow == Spec => []MemWindowBound
<1>1. Init => TypeOK /\ MemTiming /\ MemInv
  <2> SUFFICES ASSUME Init PROVE TypeOK /\ MemTiming /\ MemInv
    OBVIOUS
  <2>1. TypeOK
    BY TimeAssumption DEF Init, TypeOK, StartTime, Answered
  <2>2. MemTiming
    BY DEF Init, MemTiming, MemCallTiming
  <2>3. MemMembersOK /\ MemRetained
    BY DEF Init, MemMembersOK, MemRetained
  <2>4. WindowsBounded
    BY FS_EmptySet, LimitAssumption DEF Init, WindowsBounded
  <2> QED
    BY <2>1, <2>2, <2>3, <2>4 DEF MemInv
<1> QED
  BY <1>1, TypeStep, MemTimingStep, MemStep, MemBound, PTL DEF Spec

-----------------------------------------------------------------------------
(* Refusals                                                                *)

\* The admissions that justify a refusal by Redis, and by the fallback.
Counted(r) == {q \in Requests : /\ Bucket(q) = Bucket(r)
                                /\ script[q] = "admitted"
                                /\ ranAt[q] <= ranAt[r]
                                /\ Stamp(q) > Stamp(r) - Window}
MemCounted(r) == {q \in Requests : /\ Inst(q) = Inst(r)
                                   /\ Bucket(q) = Bucket(r)
                                   /\ memo[q] = "admitted"
                                   /\ mranAt[q] <= mranAt[r]
                                   /\ MStamp(q) > MStamp(r) - Window}

\* A script that ran, and an answer the fallback gave, are never revised.
LEMMA Final ==
    ASSUME TypeOK, Timing, MemTiming, [Next]_vars, NEW q \in Requests
    PROVE  /\ origin' = origin
           /\ script[q] \in {"admitted", "refused"} =>
                script'[q] = script[q] /\ ranAt'[q] = ranAt[q] /\ readAt'[q] = readAt[q]
           /\ memo[q] # "none" =>
                memo'[q] = memo[q] /\ mranAt'[q] = mranAt[q] /\ mreadAt'[q] = mreadAt[q]
<1>0. CallTiming(q) /\ MemCallTiming(q)
  BY DEF Timing, MemTiming
<1>1. origin' = origin
  BY DEF Next, vars, Arrive, RunScript, Reply, EvalError, MemRead, MemAllow, Evict, RedisRestart,
         InstanceRestart, Tick, Quiescent
<1>2. ASSUME script[q] \in {"admitted", "refused"}
      PROVE  script'[q] = script[q] /\ ranAt'[q] = ranAt[q] /\ readAt'[q] = readAt[q]
  <2>1. pc[q] # "idle"
    BY <1>0, <1>2 DEF CallTiming
  <2>2. ASSUME NEW r \in Requests, Arrive(r) \/ RunScript(r)
        PROVE  script'[q] = script[q] /\ ranAt'[q] = ranAt[q] /\ readAt'[q] = readAt[q]
    <3>1. q # r
      BY <1>2, <2>1, <2>2 DEF Arrive, RunScript
    <3>2. CASE Arrive(r)
      BY <3>1, <3>2 DEF Arrive, TypeOK
    <3>3. CASE RunScript(r)
      BY <3>1, <3>3 DEF RunScript, TypeOK
    <3> QED
      BY <2>2, <3>2, <3>3
  <2>3. ASSUME NEW saved \in SUBSET Requests, RedisRestart(saved)
        PROVE  script'[q] = script[q] /\ ranAt'[q] = ranAt[q] /\ readAt'[q] = readAt[q]
    BY <1>2, <2>3 DEF RedisRestart, TypeOK
  <2> QED
    BY <2>2, <2>3 DEF Next, vars, redisVars, Reply, EvalError, MemRead, MemAllow, Evict,
                      InstanceRestart, Tick, Quiescent
<1>3. ASSUME memo[q] # "none"
      PROVE  memo'[q] = memo[q] /\ mranAt'[q] = mranAt[q] /\ mreadAt'[q] = mreadAt[q]
  <2>1. pc[q] \notin {"fallback", "memory"}
    BY <1>0, <1>3 DEF MemCallTiming
  <2>2. ASSUME NEW r \in Requests, MemRead(r) \/ MemAllow(r)
        PROVE  memo'[q] = memo[q] /\ mranAt'[q] = mranAt[q] /\ mreadAt'[q] = mreadAt[q]
    <3>1. q # r
      BY <2>1, <2>2 DEF MemRead, MemAllow
    <3>2. CASE MemRead(r)
      BY <3>1, <3>2 DEF MemRead, TypeOK
    <3>3. CASE MemAllow(r)
      BY <3>1, <3>3 DEF MemAllow, TypeOK
    <3> QED
      BY <2>2, <3>2, <3>3
  <2> QED
    BY <2>2 DEF Next, vars, memVars, Arrive, RunScript, Reply, EvalError, Evict, RedisRestart,
                InstanceRestart, Tick, Quiescent
<1> QED
  BY <1>1, <1>2, <1>3

\* A larger set of requests justifies what a smaller one does.
LEMMA Enough ==
    ASSUME NEW S, NEW T \in SUBSET Requests, S \subseteq T, Cardinality(S) >= Limit
    PROVE  Cardinality(T) >= Limit
<1>1. IsFiniteSet(T) /\ IsFiniteSet(S)
  BY RequestsFinite, FS_Subset
<1>2. Cardinality(S) <= Cardinality(T) /\ Cardinality(S) \in Nat /\ Cardinality(T) \in Nat
  BY <1>1, FS_Subset, FS_CardinalityType
<1> QED
  BY <1>2, LimitAssumption

\* A refusal is justified when it is given and stays so (ratelimit.go:72-77,
\* 128-131).
LEMMA RefusalStep ==
    TypeOK /\ Timing /\ LogInv /\ MemTiming /\ MemInv /\ RefusalJustified /\ [Next]_vars
        => RefusalJustified'
<1> SUFFICES ASSUME TypeOK, Timing, LogInv, MemTiming, MemInv, RefusalJustified, [Next]_vars,
                    NEW r \in Requests
             PROVE  /\ script'[r] = "refused" => Cardinality(Counted(r)') >= Limit
                    /\ memo'[r] = "refused" => Cardinality(MemCounted(r)') >= Limit
  BY DEF RefusalJustified, Counted, MemCounted
<1>1. \A q \in Requests : Bucket(q)' = Bucket(q) /\ Inst(q)' = Inst(q)
  BY Final DEF Bucket, Inst
<1>2. ASSUME script[r] = "refused" PROVE Cardinality(Counted(r)') >= Limit
  <2>1. Stamp(r)' = Stamp(r) /\ ranAt'[r] = ranAt[r]
    BY <1>1, <1>2, Final DEF Stamp
  <2>2. ASSUME NEW q \in Counted(r) PROVE q \in Counted(r)'
    <3>1. q \in Requests /\ script[q] = "admitted"
      BY DEF Counted
    <3>2. script'[q] = "admitted" /\ ranAt'[q] = ranAt[q] /\ Stamp(q)' = Stamp(q)
      BY <1>1, <3>1, Final DEF Stamp
    <3> QED
      BY <1>1, <2>1, <3>1, <3>2 DEF Counted
  <2>3. Cardinality(Counted(r)) >= Limit
    BY <1>2 DEF RefusalJustified, Counted
  <2>4. Counted(r)' \in SUBSET Requests
    BY DEF Counted
  <2> QED
    BY <2>2, <2>3, <2>4, Enough
<1>3. ASSUME memo[r] = "refused" PROVE Cardinality(MemCounted(r)') >= Limit
  <2>1. MStamp(r)' = MStamp(r) /\ mranAt'[r] = mranAt[r]
    BY <1>1, <1>3, Final DEF MStamp
  <2>2. ASSUME NEW q \in MemCounted(r) PROVE q \in MemCounted(r)'
    <3>1. q \in Requests /\ memo[q] = "admitted"
      BY DEF MemCounted
    <3>2. memo'[q] = "admitted" /\ mranAt'[q] = mranAt[q] /\ MStamp(q)' = MStamp(q)
      BY <1>1, <3>1, Final DEF MStamp
    <3> QED
      BY <1>1, <2>1, <3>1, <3>2 DEF MemCounted
  <2>3. Cardinality(MemCounted(r)) >= Limit
    BY <1>3 DEF RefusalJustified, MemCounted
  <2>4. MemCounted(r)' \in SUBSET Requests
    BY DEF MemCounted
  <2> QED
    BY <2>2, <2>3, <2>4, Enough
<1>4. ASSUME script[r] # "refused", script'[r] = "refused"
      PROVE  Cardinality(Counted(r)') >= Limit
  <2>1. RunScript(r)
    <3>1. ASSUME NEW p \in Requests, Arrive(p) \/ RunScript(p), p # r PROVE script'[r] = script[r]
      BY <3>1 DEF Arrive, RunScript, TypeOK
    <3>2. ASSUME Arrive(r) PROVE FALSE
      BY <1>4, <3>2 DEF Arrive, TypeOK
    <3>3. ASSUME NEW saved \in SUBSET Requests, RedisRestart(saved) PROVE FALSE
      BY <1>4, <3>3 DEF RedisRestart, TypeOK
    <3> QED
      BY <1>4, <3>1, <3>2, <3>3 DEF Next, vars, redisVars, Reply, EvalError, MemRead, MemAllow,
                                    Evict, InstanceRestart, Tick, Quiescent
  <2> DEFINE kept == Pruned(Bucket(r), Stamp(r))
  <2>2. /\ ~BelowLimit(kept) /\ ranAt' = [ranAt EXCEPT ![r] = clock]
        /\ script' = [script EXCEPT ![r] = "refused"] /\ script[r] = "sent"
        /\ UNCHANGED <<origin, readAt>>
    BY <1>4, <2>1 DEF RunScript, TypeOK
  <2>3. \A q \in Requests : Stamp(q)' = Stamp(q)
    BY <1>1, <2>2 DEF Stamp
  <2>4. ASSUME NEW q \in kept PROVE q \in Counted(r)'
    <3>1. Bucket(r) \in Buckets
      BY BucketType
    <3>2. q \in zset[Bucket(r)] /\ Stamp(q) > Stamp(r) - Window
      BY DEF Pruned, Members
    <3>3. q \in Requests /\ Bucket(q) = Bucket(r) /\ script[q] = "admitted"
      BY <3>1, <3>2 DEF TypeOK, LogInv, MembersOK
    <3>4. ranAt[q] <= clock /\ q # r
      BY <2>2, <3>3 DEF Timing, CallTiming
    <3>5. ranAt'[q] = ranAt[q] /\ ranAt'[r] = clock /\ script'[q] = "admitted"
      BY <2>2, <3>3, <3>4 DEF TypeOK
    <3> QED
      BY <1>1, <2>3, <3>2, <3>3, <3>4, <3>5 DEF Counted
  <2>5. kept \in SUBSET Requests /\ Counted(r)' \in SUBSET Requests
    BY BucketType DEF Pruned, Members, TypeOK, Counted
  <2>6. Cardinality(kept) \in Nat
    BY <2>5, RequestsFinite, FS_Subset, FS_CardinalityType
  <2>7. Cardinality(kept) >= Limit
    BY <2>2, <2>6, LimitAssumption DEF BelowLimit
  <2> HIDE DEF kept
  <2> QED
    BY <2>4, <2>5, <2>7, Enough
<1>5. ASSUME memo[r] # "refused", memo'[r] = "refused"
      PROVE  Cardinality(MemCounted(r)') >= Limit
  <2>1. MemAllow(r)
    <3>1. ASSUME NEW p \in Requests, MemAllow(p), p # r PROVE memo'[r] = memo[r]
      BY <3>1 DEF MemAllow, TypeOK
    <3> QED
      BY <1>5, <3>1 DEF Next, vars, memVars, Arrive, RunScript, Reply, EvalError, MemRead, Evict,
                        RedisRestart, InstanceRestart, Tick, Quiescent
  <2> DEFINE kept == Kept(Inst(r), Bucket(r), MStamp(r))
  <2>2. /\ Full(kept) /\ mranAt' = [mranAt EXCEPT ![r] = clock]
        /\ memo' = [memo EXCEPT ![r] = "refused"] /\ pc[r] = "memory"
        /\ UNCHANGED <<origin, mreadAt>>
    BY <1>5, <2>1 DEF MemAllow, TypeOK
  <2>3. \A q \in Requests : MStamp(q)' = MStamp(q)
    BY <1>1, <2>2 DEF MStamp
  <2>4. ASSUME NEW q \in kept PROVE q \in MemCounted(r)'
    <3>1. Bucket(r) \in Buckets /\ Inst(r) \in Instances
      BY BucketType
    <3>2. q \in windows[Inst(r)][Bucket(r)] /\ MStamp(q) > MStamp(r) - Window
      BY DEF Kept
    <3>3. q \in Requests /\ Inst(q) = Inst(r) /\ Bucket(q) = Bucket(r) /\ memo[q] = "admitted"
      BY <3>1, <3>2 DEF TypeOK, MemInv, MemMembersOK
    <3>4. mranAt[q] <= clock /\ q # r
      BY <2>2, <3>3 DEF MemTiming, MemCallTiming
    <3>5. mranAt'[q] = mranAt[q] /\ mranAt'[r] = clock /\ memo'[q] = "admitted"
      BY <2>2, <3>3, <3>4 DEF TypeOK
    <3> QED
      BY <1>1, <2>3, <3>2, <3>3, <3>4, <3>5 DEF MemCounted
  <2>5. kept \in SUBSET Requests /\ MemCounted(r)' \in SUBSET Requests
    BY BucketType DEF Kept, TypeOK, MemCounted
  <2>6. Cardinality(kept) >= Limit
    BY <2>2 DEF Full
  <2> HIDE DEF kept
  <2> QED
    BY <2>4, <2>5, <2>6, Enough
<1> QED
  BY <1>2, <1>3, <1>4, <1>5

\* No 429 is spurious: behind each stand Limit earlier admissions of the bucket that
\* are younger than the refused request's own clock reading less the window
\* (ratelimit.go:70-77, 121-131).
THEOREM AlwaysRefusalJustified == Spec => []RefusalJustified
<1>1. Init => TypeOK /\ Timing /\ LogInv /\ MemTiming /\ MemInv /\ RefusalJustified
  <2> SUFFICES ASSUME Init
               PROVE  TypeOK /\ Timing /\ LogInv /\ MemTiming /\ MemInv /\ RefusalJustified
    OBVIOUS
  <2>1. TypeOK
    BY TimeAssumption DEF Init, TypeOK, StartTime, Answered
  <2>2. Timing /\ MemTiming
    BY DEF Init, Timing, CallTiming, ServedByRedis, MemTiming, MemCallTiming
  <2>3. MembersOK /\ Retained /\ MemMembersOK /\ MemRetained
    BY DEF Init, MembersOK, Retained, MemMembersOK, MemRetained
  <2>4. SetsBounded /\ WindowsBounded
    BY FS_EmptySet, LimitAssumption DEF Init, SetsBounded, WindowsBounded
  <2>5. RefusalJustified
    BY DEF Init, RefusalJustified
  <2> QED
    BY <2>1, <2>2, <2>3, <2>4, <2>5 DEF LogInv, MemInv
<1> QED
  BY <1>1, TypeStep, TimingStep, LogStep, MemTimingStep, MemStep, RefusalStep, PTL DEF Spec
=============================================================================
