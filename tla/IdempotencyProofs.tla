------------------------- MODULE IdempotencyProofs -------------------------
(***************************************************************************)
(* Proofs about Idempotency, for every number of requests, tenants, keys   *)
(* and faults.                                                             *)
(***************************************************************************)
EXTENDS Idempotency, SequenceTheorems, TLAPS

\* A response is told apart from none, and says what was answered and by whom.
LEMMA ResponseParts ==
    /\ Missing \notin Responses
    /\ \A s \in 200..599, r \in Requests : /\ Response(s, r) \in Responses
                                           /\ Response(s, r).status = s
                                           /\ Response(s, r).by = r
<1>1. \A d \in Responses : "by" \in DOMAIN d
  BY DEF Responses
<1>2. DOMAIN Missing = {"status"}
  BY DEF Missing
<1>3. "by" \notin {"status"}
  OBVIOUS
<1>4. Missing \notin Responses
  BY <1>1, <1>2, <1>3
<1>5. ASSUME NEW s \in 200..599, NEW r \in Requests
      PROVE  /\ Response(s, r) \in Responses
             /\ Response(s, r).status = s
             /\ Response(s, r).by = r
  BY DEF Response, Responses
<1> QED
  BY <1>4, <1>5

\* A request with a key has one of the Redis keys (idempotency.go:69).
LEMMA SlotType ==
    TypeOK => \A r \in Requests : origin[r].key # NoKey => Slot(r) \in Slots
BY DEF TypeOK, Slot, Slots

\* A text, a mark and what follows it; a text without a mark.
Marked(t, m, x) == t \o <<m>> \o x
Free(t, m) == \A i \in DOMAIN t : t[i] # m

\* Up to its first mark, and from there on, a text can be told from the whole.
LEMMA FirstMark ==
    ASSUME NEW S, NEW m \in S,
           NEW t \in Seq(S), NEW u \in Seq(S), NEW x \in Seq(S), NEW y \in Seq(S),
           Free(t, m), Free(u, m), Marked(t, m, x) = Marked(u, m, y)
    PROVE  t = u /\ x = y
<1> USE DEF Free, Marked
<1> DEFINE whole == t \o <<m>> \o x
<1>1. /\ whole[Len(t) + 1] = m
      /\ \A i \in 1..Len(t) : whole[i] = t[i]
  OBVIOUS
<1>2. /\ whole[Len(u) + 1] = m
      /\ \A i \in 1..Len(u) : whole[i] = u[i]
  <2>1. /\ (u \o <<m>> \o y)[Len(u) + 1] = m
        /\ \A i \in 1..Len(u) : (u \o <<m>> \o y)[i] = u[i]
    OBVIOUS
  <2> QED
    BY <2>1
<1>3. Len(t) = Len(u)
  <2> HIDE DEF whole
  <2>1. Len(t) \in Nat /\ Len(u) \in Nat /\ DOMAIN t = 1..Len(t) /\ DOMAIN u = 1..Len(u)
    OBVIOUS
  <2>2. Len(t) + 1 \notin 1..Len(u)
    BY <1>1, <1>2, <2>1, Zenon
  <2>3. Len(u) + 1 \notin 1..Len(t)
    BY <1>1, <1>2, <2>1, Zenon
  <2>4. \A a, b \in Nat : a + 1 \notin 1..b /\ b + 1 \notin 1..a => a = b
    OBVIOUS
  <2> QED
    BY <2>1, <2>2, <2>3, <2>4, Zenon
<1>4. t = u
  BY <1>1, <1>2, <1>3, SeqEqual
<1>5. t \o <<m>> \in Seq(S)
  OBVIOUS
<1>6. x = y
  BY <1>4, <1>5, ConcatSimplifications
<1> QED
  BY <1>4, <1>6

\* Two requests whose tenant ids hold no colon have the same Redis key only if
\* they have the same tenant and the same Idempotency-Key (redis.go:52-56).
LEMMA PlainSlots ==
    ASSUME TypeOK, NEW q \in Requests, NEW r \in Requests, Slot(q) = Slot(r),
           Plain(origin[q].tenant), Plain(origin[r].tenant)
    PROVE  origin[q].tenant = origin[r].tenant /\ origin[q].key = origin[r].key
<1> DEFINE Pieces == STRING \cup {":", "idem", "/v1/orders"}
           Route == <<"idem", ":", "/v1/orders", ":">>
           colon == ":"
           t == origin[q].tenant
           u == origin[r].tenant
           x == Route \o origin[q].key
           y == Route \o origin[r].key
<1>1. Tenants \subseteq Seq(Pieces) /\ Keys \cup {NoKey} \subseteq Seq(Pieces)
  <2>1. Seq(STRING) \subseteq Seq(Pieces) /\ <<>> \in Seq(Pieces)
    BY SeqMonotonic
  <2> QED
    BY <2>1, TextAssumption DEF NoKey
<1>2. /\ t \in Seq(Pieces) /\ origin[q].key \in Seq(Pieces)
      /\ u \in Seq(Pieces) /\ origin[r].key \in Seq(Pieces)
  BY <1>1 DEF TypeOK
<1>3. colon \in Pieces /\ Route \in Seq(Pieces)
  OBVIOUS
<1>4. x \in Seq(Pieces) /\ y \in Seq(Pieces)
  <2> HIDE DEF Pieces, Route
  <2> QED
    BY <1>2, <1>3
<1>5. Marked(t, colon, x) = Marked(u, colon, y)
  BY Zenon DEF Slot, Key, Suffix, Marked
<1>6. Free(t, colon) /\ Free(u, colon)
  BY DEF Plain, Free
<1>7. t = u /\ x = y
  <2> HIDE DEF Pieces, Route, colon, t, u, x, y
  <2> QED
    BY <1>2, <1>3, <1>4, <1>5, <1>6, FirstMark, Zenon
<1>8. origin[q].key = origin[r].key
  <2> HIDE DEF Pieces, Route
  <2>1. Route \o origin[q].key = Route \o origin[r].key
    BY <1>7
  <2>2. \A a, b, c \in Seq(Pieces) : a \o b = a \o c => b = c
    BY ConcatSimplifications
  <2> QED
    BY <1>2, <1>3, <2>1, <2>2, Zenon
<1> QED
  BY <1>7, <1>8

-----------------------------------------------------------------------------
(* The inductive invariant                                                 *)

\* What a request that stores its response has: a response of its own that is no
\* 5xx, a recorded decision, and a slot.
Storing(r) ==
    /\ reply[r] \in Responses
    /\ reply[r].by = r
    /\ reply[r].status < 500
    /\ audit[r] # "none"
    /\ captured[r] = TRUE
    /\ origin[r].key # NoKey

\* What each request has done by the time it is where it is.
Progress(r) ==
    /\ pc[r] \in {"start", "get", "enforce", "handle"} => reply[r] = Missing
    /\ pc[r] \in {"start", "get"} => captured[r] = FALSE
    /\ pc[r] = "start" => before[r] = {}
    /\ pc[r] \in {"start", "get", "enforce"} => audit[r] = "none" /\ r \notin ran
    /\ pc[r] \in {"get", "enforce", "handle"} => origin[r].key # NoKey
    /\ pc[r] = "handle" => origin[r].permitted /\ audit[r] = "allow"
    /\ pc[r] = "save" => Storing(r)
    /\ r \in late \cup saved => pc[r] \in Ended /\ Storing(r)
    /\ r \in ran => origin[r].permitted /\ audit[r] = "allow"
    /\ reply[r] # Missing /\ reply[r].by = r /\ origin[r].key # NoKey => audit[r] # "none"

ProgressInv == \A r \in Requests : Progress(r)

\* What is stored was answered by a request of the slot whose Set took effect.
StoreInv ==
    \A s \in Slots :
        store[s] # Missing =>
            \E q \in saved : Slot(q) = s /\ store[s] = reply[q]

\* An answer that is not the request's own came out of such an entry.
ReplayInv ==
    \A r \in Requests :
        reply[r] # Missing /\ reply[r].by # r =>
            \E q \in saved : Slot(q) = Slot(r) /\ reply[r] = reply[q]

\* A Set that took effect is still there unless its slot was dropped, and so is
\* what a request may have found on its way in.
DedupInv ==
    /\ \A q \in saved : store[Slot(q)] # Missing \/ Slot(q) \in dropped
    /\ \A r \in Requests :
         /\ before[r] \subseteq {q \in saved : Slot(q) = Slot(r)}
         /\ captured[r] /\ before[r] # {} => Slot(r) \in dropped

\* Type correctness of every step (idempotency.go:54-110).
LEMMA IdemTypeStep == TypeOK /\ ProgressInv /\ [Next]_vars => TypeOK'
<1> SUFFICES ASSUME TypeOK, ProgressInv, [Next]_vars PROVE TypeOK'
  OBVIOUS
<1> USE BoundAssumption DEF TypeOK, Ended
<1>0. ASSUME NEW r \in Requests, NEW s PROVE AfterNext(r, s) \in {"save", "done"}
  BY DEF AfterNext
<1>1. ASSUME NEW r \in Requests, Start(r) PROVE TypeOK'
  <2>1. Response(400, r) \in Responses
    BY ResponseParts
  <2>2. reply' \in [Requests -> Responses \cup {Missing}]
    BY <1>1, <2>1 DEF Start
  <2>3. before' \in [Requests -> SUBSET Requests]
    BY <1>1 DEF Start
  <2> QED
    BY <1>1, <2>2, <2>3 DEF Start
<1>2. ASSUME NEW r \in Requests, Replay(r) PROVE TypeOK'
  <2>1. Slot(r) \in Slots
    BY <1>2, SlotType DEF Replay, ProgressInv, Progress
  <2> QED
    BY <1>2, <2>1 DEF Replay
<1>3. ASSUME NEW r \in Requests, Miss(r) PROVE TypeOK'
  BY <1>3 DEF Miss
<1>4. ASSUME NEW r \in Requests, GetError(r) PROVE TypeOK'
  BY <1>4 DEF GetError
<1>5. ASSUME NEW r \in Requests, Enforce(r) PROVE TypeOK'
  <2>1. Response(403, r) \in Responses
    BY ResponseParts
  <2>2. reply' \in [Requests -> Responses \cup {Missing}]
    BY <1>5, <2>1 DEF Enforce
  <2>3. pc' \in [Requests -> {"start", "get", "enforce", "handle", "save"} \cup Ended]
    BY <1>0, <1>5 DEF Enforce
  <2>4. audit' \in [Requests -> {"none", "allow", "deny"}]
    BY <1>5 DEF Enforce
  <2> QED
    BY <1>5, <2>2, <2>3, <2>4 DEF Enforce
<1>6. ASSUME NEW r \in Requests, Handle(r) PROVE TypeOK'
  <2>1. PICK s \in HandlerStatus :
          /\ reply' = [reply EXCEPT ![r] = Response(s, r)]
          /\ pc' = [pc EXCEPT ![r] = AfterNext(r, s)]
    BY <1>6 DEF Handle
  <2>2. Response(s, r) \in Responses
    BY StatusAssumption, ResponseParts
  <2> QED
    BY <1>0, <1>6, <2>1, <2>2 DEF Handle
<1>7. ASSUME NEW r \in Requests, Save(r) PROVE TypeOK'
  BY <1>7 DEF Save
<1>8. ASSUME NEW r \in Requests, SaveError(r) PROVE TypeOK'
  BY <1>8 DEF SaveError
<1>9. ASSUME NEW r \in Requests, LateSave(r) PROVE TypeOK'
  BY <1>9 DEF LateSave
<1>10. ASSUME NEW r \in Requests, Crash(r) PROVE TypeOK'
  BY <1>10 DEF Crash
<1>11. ASSUME NEW s \in Slots, Drop(s) PROVE TypeOK'
  BY <1>11 DEF Drop
<1>12. CASE Quiescent \/ UNCHANGED vars
  BY <1>12 DEF Quiescent, vars
<1> QED
  BY <1>1, <1>2, <1>3, <1>4, <1>5, <1>6, <1>7, <1>8, <1>9, <1>10, <1>11, <1>12
  DEF Next, Step

\* Every step of a request leaves it with what its place promises; an answer it did
\* not give itself comes from a request that has ended (idempotency.go:54-110).
LEMMA ProgressStep == TypeOK /\ ProgressInv /\ StoreInv /\ [Next]_vars => ProgressInv'
<1> SUFFICES ASSUME TypeOK, ProgressInv, StoreInv, [Next]_vars, NEW q \in Requests
             PROVE  Progress(q)'
  BY DEF ProgressInv
<1>0. Progress(q)
  BY DEF ProgressInv
<1> USE <1>0 DEF TypeOK, Progress, Storing, Ended
<1>1. ASSUME NEW r \in Requests, Start(r) PROVE Progress(q)'
  <2>1. CASE /\ origin[r].key = NoKey
             /\ reply' = [reply EXCEPT ![r] = Response(400, r)]
             /\ pc' = [pc EXCEPT ![r] = "done"]
             /\ UNCHANGED before
    <3>1. CASE q = r
      <4>1. pc'[r] = "done" /\ reply'[r] = Response(400, r) /\ origin'[r] = origin[r]
        BY <1>1, <2>1 DEF Start
      <4>2. r \notin ran /\ r \notin late /\ r \notin saved
        BY <1>1, <3>1 DEF Start
      <4>3. r \notin ran' /\ r \notin late' /\ r \notin saved'
        BY <1>1, <4>2 DEF Start
      <4> QED
        BY <2>1, <3>1, <4>1, <4>3
    <3>2. CASE q # r
      BY <1>1, <2>1, <3>2 DEF Start
    <3> QED
      BY <3>1, <3>2
  <2>2. CASE /\ origin[r].key # NoKey
             /\ pc' = [pc EXCEPT ![r] = "get"]
             /\ before' = [before EXCEPT ![r] = {p \in saved : Slot(p) = Slot(r)}]
             /\ UNCHANGED reply
    BY <1>1, <2>2 DEF Start
  <2> QED
    BY <1>1, <2>1, <2>2 DEF Start
<1>2. ASSUME NEW r \in Requests, Replay(r) PROVE Progress(q)'
  <2>1. Progress(r) /\ Slot(r) \in Slots
    BY <1>2, SlotType DEF Replay, ProgressInv
  <2>2. PICK p \in saved : store[Slot(r)] = reply[p]
    BY <1>2, <2>1 DEF Replay, StoreInv
  <2>3. /\ reply[p].by = p /\ p # r
    BY <1>2, <2>2 DEF Replay, ProgressInv
  <2> QED
    BY <1>2, <2>1, <2>2, <2>3 DEF Replay
<1>3. ASSUME NEW r \in Requests, Miss(r) PROVE Progress(q)'
  BY <1>3 DEF Miss
<1>4. ASSUME NEW r \in Requests, GetError(r) PROVE Progress(q)'
  BY <1>4 DEF GetError
<1>5. ASSUME NEW r \in Requests, Enforce(r) PROVE Progress(q)'
  <2>1. CASE /\ origin[r].permitted
             /\ audit' = [audit EXCEPT ![r] = "allow"]
             /\ pc' = [pc EXCEPT ![r] = "handle"]
             /\ UNCHANGED reply
    BY <1>5, <2>1 DEF Enforce
  <2>2. CASE /\ audit' = [audit EXCEPT ![r] = "deny"]
             /\ reply' = [reply EXCEPT ![r] = Response(403, r)]
             /\ pc' = [pc EXCEPT ![r] = AfterNext(r, 403)]
    <3>1. /\ AfterNext(r, 403) \in {"save", "done"}
          /\ AfterNext(r, 403) = "save" => captured[r] = TRUE
      BY DEF AfterNext
    <3>2. Response(403, r) \in Responses /\ Response(403, r).by = r /\ Response(403, r).status < 500
      <4>1. 403 \in 200..599 /\ 403 < 500
        OBVIOUS
      <4>2. Response(403, r) \in Responses /\ Response(403, r).by = r /\ Response(403, r).status = 403
        <5> HIDE <1>0 DEF TypeOK, Progress, Storing, Ended
        <5> QED
          BY <4>1, ResponseParts
      <4> QED
        BY <4>1, <4>2
    <3>3. CASE q = r
      <4>1. /\ pc'[r] = AfterNext(r, 403) /\ reply'[r] = Response(403, r)
            /\ audit'[r] = "deny" /\ captured'[r] = captured[r] /\ origin'[r] = origin[r]
        BY <1>5, <2>2 DEF Enforce
      <4>2. origin[r].key # NoKey /\ r \notin ran /\ r \notin late /\ r \notin saved
        BY <1>5, <3>3 DEF Enforce
      <4>3. r \notin ran' /\ r \notin late' /\ r \notin saved'
        BY <1>5, <4>2 DEF Enforce
      <4> QED
        BY <3>1, <3>2, <3>3, <4>1, <4>2, <4>3
    <3>4. CASE q # r
      BY <1>5, <2>2, <3>4 DEF Enforce
    <3> QED
      BY <3>3, <3>4
  <2> QED
    BY <1>5, <2>1, <2>2 DEF Enforce
<1>6. ASSUME NEW r \in Requests, Handle(r) PROVE Progress(q)'
  <2>1. PICK s \in HandlerStatus :
          /\ reply' = [reply EXCEPT ![r] = Response(s, r)]
          /\ pc' = [pc EXCEPT ![r] = AfterNext(r, s)]
    BY <1>6 DEF Handle
  <2>2. s \in 200..599
    BY StatusAssumption
  <2>3. /\ AfterNext(r, s) \in {"save", "done"}
        /\ AfterNext(r, s) = "save" => captured[r] = TRUE /\ s < 500
    BY DEF AfterNext
  <2>4. Response(s, r) \in Responses /\ Response(s, r).by = r /\ Response(s, r).status = s
    <3> HIDE <1>0 DEF TypeOK, Progress, Storing, Ended
    <3> QED
      BY <2>2, ResponseParts
  <2>5. CASE q = r
    BY <1>6, <2>1, <2>3, <2>4, <2>5 DEF Handle
  <2>6. CASE q # r
    BY <1>6, <2>1, <2>6 DEF Handle
  <2> QED
    BY <2>5, <2>6
<1>7. ASSUME NEW r \in Requests, Save(r) PROVE Progress(q)'
  BY <1>7 DEF Save
<1>8. ASSUME NEW r \in Requests, SaveError(r) PROVE Progress(q)'
  BY <1>8 DEF SaveError
<1>9. ASSUME NEW r \in Requests, LateSave(r) PROVE Progress(q)'
  BY <1>9 DEF LateSave
<1>10. ASSUME NEW r \in Requests, Crash(r) PROVE Progress(q)'
  BY <1>10 DEF Crash
<1>11. ASSUME NEW s \in Slots, Drop(s) PROVE Progress(q)'
  BY <1>11 DEF Drop
<1>12. CASE Quiescent \/ UNCHANGED vars
  BY <1>12 DEF Quiescent, vars
<1> QED
  BY <1>1, <1>2, <1>3, <1>4, <1>5, <1>6, <1>7, <1>8, <1>9, <1>10, <1>11, <1>12
  DEF Next, Step

\* A request that is given up on, or whose Set took effect, keeps its answer, and
\* every request keeps its origin (idempotency.go:94-108).
LEMMA Settled ==
    TypeOK /\ ProgressInv /\ [Next]_vars =>
        /\ origin' = origin
        /\ saved \subseteq saved'
        /\ dropped \subseteq dropped'
        /\ \A q \in saved : reply'[q] = reply[q]
<1> SUFFICES ASSUME TypeOK, ProgressInv, [Next]_vars
             PROVE  /\ origin' = origin
                    /\ saved \subseteq saved'
                    /\ dropped \subseteq dropped'
                    /\ \A q \in saved : reply'[q] = reply[q]
  OBVIOUS
<1>1. origin' = origin /\ saved \subseteq saved' /\ dropped \subseteq dropped'
  BY DEF Next, Step, vars, Start, Replay, Miss, GetError, Enforce, Handle, Save, SaveError,
         LateSave, Crash, Drop, Quiescent
<1>2. ASSUME NEW q \in saved PROVE reply'[q] = reply[q]
  <2>1. q \in Requests /\ pc[q] \in Ended
    BY DEF TypeOK, ProgressInv, Progress
  <2>2. CASE UNCHANGED reply
    BY <2>2
  <2>3. ASSUME NEW r \in Requests, Start(r) \/ Replay(r) \/ Enforce(r) \/ Handle(r)
        PROVE  reply'[q] = reply[q]
    <3>1. pc[r] \notin Ended
      BY <2>3 DEF Start, Replay, Enforce, Handle, Ended
    <3>2. q # r
      BY <2>1, <3>1
    <3> QED
      BY <2>1, <2>3, <3>2 DEF TypeOK, Start, Replay, Enforce, Handle
  <2> QED
    BY <2>2, <2>3 DEF Next, Step, vars, Miss, GetError, Save, SaveError, LateSave, Crash, Drop,
                      Quiescent
<1> QED
  BY <1>1, <1>2

\* Only Save and LateSave put something into the store, and only Drop takes
\* something out (idempotency.go:94-108).
LEMMA StoreStep == TypeOK /\ ProgressInv /\ StoreInv /\ [Next]_vars => StoreInv'
<1> SUFFICES ASSUME TypeOK, ProgressInv, StoreInv, [Next]_vars,
                    NEW s \in Slots, store'[s] # Missing
             PROVE  \E q \in saved' : Slot(q)' = s /\ store'[s] = reply'[q]
  BY DEF StoreInv
<1>1. /\ origin' = origin
      /\ saved \subseteq saved'
      /\ \A q \in saved : reply'[q] = reply[q]
  BY Settled
<1>2. CASE store'[s] = store[s]
  <2>1. PICK q \in saved : Slot(q) = s /\ store[s] = reply[q]
    BY <1>2 DEF StoreInv
  <2> QED
    BY <1>1, <1>2, <2>1 DEF Slot
<1>3. ASSUME NEW r \in Requests, Save(r) \/ LateSave(r), store'[s] # store[s]
      PROVE  \E q \in saved' : Slot(q)' = s /\ store'[s] = reply'[q]
  <2>1. r \in saved' /\ reply' = reply /\ store' = [store EXCEPT ![Slot(r)] = reply[r]]
    BY <1>3 DEF Save, LateSave
  <2>2. s = Slot(r) /\ store'[s] = reply[r]
    BY <1>3, <2>1 DEF TypeOK
  <2> QED
    BY <1>1, <2>1, <2>2 DEF Slot
<1>4. ASSUME NEW t \in Slots, Drop(t) PROVE store'[s] = store[s]
  BY <1>4 DEF Drop, TypeOK
<1> QED
  BY <1>2, <1>3, <1>4 DEF Next, Step, vars, Start, Replay, Miss, GetError, Enforce, Handle,
                          SaveError, Crash, Quiescent

\* Only Replay gives a request an answer that is not its own, out of the store
\* (idempotency.go:73-80).
LEMMA ReplayStep ==
    TypeOK /\ ProgressInv /\ StoreInv /\ ReplayInv /\ [Next]_vars => ReplayInv'
<1> SUFFICES ASSUME TypeOK, ProgressInv, StoreInv, ReplayInv, [Next]_vars,
                    NEW r \in Requests, reply'[r] # Missing, reply'[r].by # r
             PROVE  \E q \in saved' : Slot(q)' = Slot(r)' /\ reply'[r] = reply'[q]
  BY DEF ReplayInv
<1>1. /\ origin' = origin
      /\ saved \subseteq saved'
      /\ \A q \in saved : reply'[q] = reply[q]
  BY Settled
<1>2. CASE reply'[r] = reply[r]
  <2>1. PICK q \in saved : Slot(q) = Slot(r) /\ reply[r] = reply[q]
    BY <1>2 DEF ReplayInv
  <2> QED
    BY <1>1, <1>2, <2>1 DEF Slot
<1>3. ASSUME NEW p \in Requests, Replay(p), reply'[r] # reply[r]
      PROVE  \E q \in saved' : Slot(q)' = Slot(r)' /\ reply'[r] = reply'[q]
  <2>1. p = r
    BY <1>3 DEF Replay, TypeOK
  <2>2. reply'[r] = store[Slot(r)] /\ Slot(r) \in Slots /\ store[Slot(r)] # Missing
    BY <1>3, <2>1, SlotType DEF Replay, TypeOK, ProgressInv, Progress
  <2>3. PICK q \in saved : Slot(q) = Slot(r) /\ store[Slot(r)] = reply[q]
    BY <2>2 DEF StoreInv
  <2> QED
    BY <1>1, <2>2, <2>3 DEF Slot
<1>4. ASSUME NEW p \in Requests, Start(p) \/ Enforce(p) \/ Handle(p) PROVE reply'[r] = reply[r]
  <2>1. CASE p = r
    <3>1. ASSUME NEW s \in 200..599, reply' = [reply EXCEPT ![p] = Response(s, p)]
          PROVE  FALSE
      <4>1. reply'[r] = Response(s, r)
        BY <2>1, <3>1 DEF TypeOK
      <4>2. Response(s, r).by = r
        BY ResponseParts, Zenon
      <4> QED
        BY <4>1, <4>2
    <3>2. 400 \in 200..599 /\ 403 \in 200..599 /\ HandlerStatus \subseteq 200..599
      BY StatusAssumption
    <3>3. UNCHANGED reply
      BY <1>4, <3>1, <3>2 DEF Start, Enforce, Handle
    <3> QED
      BY <3>3
  <2>2. CASE p # r
    BY <1>4, <2>2 DEF Start, Enforce, Handle, TypeOK
  <2> QED
    BY <2>1, <2>2
<1> QED
  BY <1>2, <1>3, <1>4 DEF Next, Step, vars, Miss, GetError, Save, SaveError, LateSave, Crash,
                          Drop, Quiescent

\* A stored response leaves the store only by Drop, so who misses it on the way
\* in looks into a slot that was dropped (idempotency.go:73-92).
LEMMA DedupStep ==
    TypeOK /\ ProgressInv /\ DedupInv /\ [Next]_vars => DedupInv'
<1> SUFFICES ASSUME TypeOK, ProgressInv, DedupInv, [Next]_vars PROVE DedupInv'
  OBVIOUS
<1>1. origin' = origin /\ saved \subseteq saved' /\ dropped \subseteq dropped'
  BY Settled
<1>2. \A r : Slot(r)' = Slot(r)
  BY <1>1 DEF Slot
<1>3. ASSUME NEW q \in saved' PROVE store'[Slot(q)'] # Missing \/ Slot(q)' \in dropped'
  <2>1. CASE UNCHANGED <<store, saved>>
    BY <1>1, <1>2, <2>1 DEF DedupInv
  <2>2. ASSUME NEW r \in Requests, Save(r) \/ LateSave(r)
        PROVE  store'[Slot(q)] # Missing \/ Slot(q) \in dropped
    <3>1. reply[r] \in Responses /\ Slot(r) \in Slots
      BY <2>2, SlotType DEF Save, LateSave, ProgressInv, Progress, Storing
    <3>2. reply[r] # Missing
      BY <3>1, ResponseParts
    <3>3. store' = [store EXCEPT ![Slot(r)] = reply[r]] /\ saved' = saved \cup {r}
      BY <2>2 DEF Save, LateSave
    <3>4. q \in Requests /\ Slot(q) \in Slots
      BY <2>2, <3>1, <3>3, SlotType DEF ProgressInv, Progress, Storing, TypeOK
    <3> QED
      BY <3>1, <3>2, <3>3, <3>4 DEF DedupInv, TypeOK
  <2>3. ASSUME NEW s \in Slots, Drop(s)
        PROVE  store'[Slot(q)] # Missing \/ Slot(q) \in dropped'
    <3>1. q \in saved /\ q \in Requests /\ Slot(q) \in Slots
      BY <2>3, SlotType DEF Drop, ProgressInv, Progress, Storing, TypeOK
    <3> QED
      BY <2>3, <3>1 DEF Drop, DedupInv, TypeOK
  <2> QED
    BY <1>1, <1>2, <2>1, <2>2, <2>3
    DEF Next, Step, vars, Start, Replay, Miss, GetError, Enforce, Handle, SaveError, Crash,
        Quiescent
<1>4. ASSUME NEW r \in Requests
      PROVE  /\ before'[r] \subseteq {q \in saved' : Slot(q)' = Slot(r)'}
             /\ captured'[r] /\ before'[r] # {} => Slot(r)' \in dropped'
  <2>1. CASE UNCHANGED <<before, captured>>
    BY <1>1, <1>2, <2>1 DEF DedupInv
  <2>2. ASSUME NEW p \in Requests, Start(p)
        PROVE  /\ before'[r] \subseteq {q \in saved : Slot(q) = Slot(r)}
               /\ captured'[r] /\ before'[r] # {} => Slot(r) \in dropped
    <3>1. captured' = captured /\ captured[p] = FALSE
      BY <2>2 DEF Start, ProgressInv, Progress
    <3>2. CASE p = r
      BY <2>2, <3>1, <3>2 DEF Start, DedupInv, TypeOK
    <3>3. CASE p # r
      BY <2>2, <3>1, <3>3 DEF Start, DedupInv, TypeOK
    <3> QED
      BY <3>2, <3>3
  <2>3. ASSUME NEW p \in Requests, Miss(p)
        PROVE  /\ before'[r] \subseteq {q \in saved : Slot(q) = Slot(r)}
               /\ captured'[r] /\ before'[r] # {} => Slot(r) \in dropped
    <3>1. before' = before /\ store[Slot(p)] = Missing
      BY <2>3 DEF Miss
    <3>2. CASE p = r
      BY <3>1, <3>2 DEF DedupInv
    <3>3. CASE p # r
      BY <2>3, <3>1, <3>3 DEF Miss, DedupInv, TypeOK
    <3> QED
      BY <3>2, <3>3
  <2> QED
    BY <1>1, <1>2, <2>1, <2>2, <2>3
    DEF Next, Step, vars, Replay, GetError, Enforce, Handle, Save, SaveError, LateSave, Crash,
        Drop, Quiescent
<1> QED
  BY <1>3, <1>4 DEF DedupInv

\* All of it holds at the start and in every reachable state.
LEMMA IdemAlways ==
    Spec => [](TypeOK /\ ProgressInv /\ StoreInv /\ ReplayInv /\ DedupInv)
<1>1. Init => TypeOK /\ ProgressInv /\ StoreInv /\ ReplayInv /\ DedupInv
  BY DEF Init, TypeOK, Ended, ProgressInv, Progress, StoreInv, ReplayInv, DedupInv
<1>2. TypeOK /\ ProgressInv /\ StoreInv /\ ReplayInv /\ DedupInv /\ [Next]_vars
        => (TypeOK /\ ProgressInv /\ StoreInv /\ ReplayInv /\ DedupInv)'
  BY IdemTypeStep, ProgressStep, StoreStep, ReplayStep, DedupStep
<1> QED
  BY <1>1, <1>2, PTL DEF Spec

-----------------------------------------------------------------------------
(* The theorems                                                            *)

\* The middleware's state keeps its types (idempotency.go:54-110).
THEOREM IdempotencyTypeCorrect == Spec => []TypeOK
<1> QED
  BY IdemAlways, PTL

\* A replay gives what an earlier request with the same Redis key was answered
\* after a policy decision, and no 5xx; the two have the same tenant and the same
\* Idempotency-Key if neither tenant id holds a colon (redis.go:52-56,
\* idempotency.go:69-80, 94-108).
THEOREM AlwaysReplayFaithful == Spec => []ReplayFaithful
<1>1. TypeOK /\ ProgressInv /\ ReplayInv => ReplayFaithful
  <2> SUFFICES ASSUME TypeOK, ProgressInv, ReplayInv,
                      NEW r \in Requests, reply[r] # Missing, reply[r].by # r
               PROVE  LET q == reply[r].by
                      IN  /\ Slot(q) = Slot(r)
                          /\ Plain(origin[q].tenant) /\ Plain(origin[r].tenant) =>
                               /\ origin[q].tenant = origin[r].tenant
                               /\ origin[q].key = origin[r].key
                          /\ audit[q] # "none"
                          /\ captured[q]
                          /\ reply[q] = reply[r]
                          /\ reply[r].status < 500
    BY DEF ReplayFaithful
  <2>1. PICK q \in saved : Slot(q) = Slot(r) /\ reply[r] = reply[q]
    BY DEF ReplayInv
  <2>2. Storing(q)
    BY DEF TypeOK, ProgressInv, Progress
  <2>3. Plain(origin[q].tenant) /\ Plain(origin[r].tenant) =>
          origin[q].tenant = origin[r].tenant /\ origin[q].key = origin[r].key
    BY <2>1, PlainSlots DEF TypeOK
  <2> QED
    BY <2>1, <2>2, <2>3 DEF Storing
<1> QED
  BY <1>1, IdemAlways, PTL

\* A request that comes in after a response of its slot was stored, and whose
\* lookup is answered, is processed only if the entry was lost
\* (idempotency.go:73-92).
THEOREM AlwaysServedOnce == Spec => []StoredMeansServedOnce
<1>1. DedupInv => StoredMeansServedOnce
  BY DEF DedupInv, StoredMeansServedOnce
<1> QED
  BY <1>1, IdemAlways, PTL

\* Without Redis policy still decides before the handler and before any answer
\* (idempotency.go:81-87).
THEOREM AlwaysOutageKeepsPolicy == Spec => []OutageKeepsPolicy
<1>1. TypeOK /\ ProgressInv => OutageKeepsPolicy
  BY DEF TypeOK, ProgressInv, Progress, OutageKeepsPolicy
<1> QED
  BY <1>1, IdemAlways, PTL
=============================================================================
