--------------------------- MODULE GatewayProofs ---------------------------
(***************************************************************************)
(* Proofs about Gateway, for every number of requests, client ids,         *)
(* connections and whatever code may panic.                                *)
(***************************************************************************)
EXTENDS Gateway, SequenceTheorems, FiniteSetTheorems, TLAPS

-----------------------------------------------------------------------------
(* What is left of a chain                                                 *)

Stages == {"RequestID", "Authenticate", "RateLimit", "Idempotency", "Enforce",
           "handle", "notFound"}
Guarded == {"order", "stub", "keys"}

\* The order in which every chain runs its stages.
Rank(stage) ==
    CASE stage = "RequestID" -> 1
      [] stage = "Authenticate" -> 2
      [] stage = "RateLimit" -> 3
      [] stage = "Idempotency" -> 4
      [] stage = "Enforce" -> 5
      [] OTHER -> 6

Due(todo, stage) == \E i \in 1..Len(todo) : todo[i] = stage

\* A chain, or its rest: in order, and ending in what answers the request.
WellFormed(todo) ==
    /\ todo \in Seq(Stages)
    /\ \A i, j \in 1..Len(todo) : i < j => Rank(todo[i]) < Rank(todo[j])
    /\ todo # <<>> => todo[Len(todo)] \in {"handle", "notFound"}

\* The routes that have a chain.
Mounted == AllRoutes \ {"redirect"}

\* Every chain begins with the request id, and a guarded one has all its guards.
LEMMA ChainShape ==
    ASSUME NEW x \in Mounted
    PROVE  /\ WellFormed(Chain(x))
           /\ Chain(x) # <<>>
           /\ Due(Chain(x), "RequestID")
           /\ Due(Chain(x), "Idempotency") => x = "order"
           /\ x \in Guarded => /\ Due(Chain(x), "Authenticate")
                               /\ Due(Chain(x), "RateLimit")
                               /\ Due(Chain(x), "Enforce")
<1>1. CASE x = "unknown"
  <2> DEFINE t == Chain(x)
  <2>1. t = <<"RequestID", "notFound">>
    BY <1>1 DEF Chain
  <2>2. /\ t \in Seq(Stages) /\ Len(t) = 2 /\ t # <<>>
        /\ t[1] = "RequestID" /\ t[2] = "notFound"
    BY <2>1 DEF Stages
  <2> HIDE DEF t
  <2>3. \A i \in 1..2 : Rank(t[i]) = IF i = 1 THEN 1 ELSE 6
    BY <2>2 DEF Rank
  <2>4. WellFormed(t)
    BY <2>2, <2>3 DEF WellFormed
  <2>5. Due(t, "RequestID")
    BY <2>2 DEF Due
  <2>6. ~Due(t, "Idempotency")
    BY <1>1, <2>2 DEF Due
  <2> QED
    BY <1>1, <2>2, <2>4, <2>5, <2>6 DEF t, Guarded
<1>2. CASE x \in {"health", "auth"}
  <2> DEFINE t == Chain(x)
  <2>1. t = <<"RequestID", "handle">>
    BY <1>2 DEF Chain
  <2>2. /\ t \in Seq(Stages) /\ Len(t) = 2 /\ t # <<>>
        /\ t[1] = "RequestID" /\ t[2] = "handle"
    BY <2>1 DEF Stages
  <2> HIDE DEF t
  <2>3. \A i \in 1..2 : Rank(t[i]) = IF i = 1 THEN 1 ELSE 6
    BY <2>2 DEF Rank
  <2>4. WellFormed(t)
    BY <2>2, <2>3 DEF WellFormed
  <2>5. Due(t, "RequestID")
    BY <2>2 DEF Due
  <2>6. ~Due(t, "Idempotency")
    BY <1>2, <2>2 DEF Due
  <2> QED
    BY <1>2, <2>2, <2>4, <2>5, <2>6 DEF t, Guarded
<1>3. CASE x = "order"
  <2> DEFINE t == Chain(x)
  <2>2. /\ t \in Seq(Stages) /\ Len(t) = 6 /\ t # <<>>
        /\ t[1] = "RequestID" /\ t[2] = "Authenticate" /\ t[3] = "RateLimit"
        /\ t[4] = "Idempotency" /\ t[5] = "Enforce" /\ t[6] = "handle"
    <3> DEFINE g == <<"RequestID", "Authenticate", "RateLimit">>
               o == <<"Idempotency", "Enforce">>
               h == <<"handle">>
               ao == g \o o
    <3>1. t = ao \o h
      BY <1>3 DEF Chain, Own
    <3>2. /\ g \in Seq(Stages) /\ Len(g) = 3
          /\ g[1] = "RequestID" /\ g[2] = "Authenticate" /\ g[3] = "RateLimit"
      BY DEF Stages
    <3>3. o \in Seq(Stages) /\ Len(o) = 2 /\ o[1] = "Idempotency" /\ o[2] = "Enforce"
      BY DEF Stages
    <3>4. h \in Seq(Stages) /\ Len(h) = 1 /\ h[1] = "handle"
      BY DEF Stages
    <3> HIDE DEF g, o, h, t
    <3>5. /\ ao \in Seq(Stages) /\ Len(ao) = 5
          /\ ao[1] = "RequestID" /\ ao[2] = "Authenticate" /\ ao[3] = "RateLimit"
          /\ ao[4] = "Idempotency" /\ ao[5] = "Enforce"
      <4>1. /\ ao \in Seq(Stages) /\ Len(ao) = Len(g) + Len(o)
            /\ \A i \in 1..Len(g) + Len(o) : ao[i] = IF i <= Len(g) THEN g[i] ELSE o[i - Len(g)]
        BY <3>2, <3>3, ConcatProperties, Zenon
      <4>2. \A i \in 1..5 : ao[i] = IF i <= 3 THEN g[i] ELSE o[i - 3]
        BY <3>2, <3>3, <4>1
      <4> HIDE DEF ao
      <4> QED
        BY <3>2, <3>3, <4>1, <4>2
    <3> HIDE DEF ao
    <3>6. /\ t \in Seq(Stages) /\ Len(t) = 6
          /\ t[1] = "RequestID" /\ t[2] = "Authenticate" /\ t[3] = "RateLimit"
          /\ t[4] = "Idempotency" /\ t[5] = "Enforce" /\ t[6] = "handle"
      <4>1. /\ t \in Seq(Stages) /\ Len(t) = Len(ao) + Len(h)
            /\ \A i \in 1..Len(ao) + Len(h) : t[i] = IF i <= Len(ao) THEN ao[i] ELSE h[i - Len(ao)]
        BY <3>1, <3>4, <3>5, ConcatProperties, Zenon
      <4>2. \A i \in 1..6 : t[i] = IF i <= 5 THEN ao[i] ELSE h[i - 5]
        BY <3>4, <3>5, <4>1
      <4> QED
        BY <3>4, <3>5, <4>1, <4>2
    <3> QED
      BY <3>6
  <2> HIDE DEF t
  <2>3. \A i \in 1..6 : Rank(t[i]) = i
    BY <2>2 DEF Rank
  <2>4. WellFormed(t)
    BY <2>2, <2>3 DEF WellFormed
  <2>5. Due(t, "RequestID") /\ Due(t, "Authenticate") /\ Due(t, "RateLimit") /\ Due(t, "Enforce")
    BY <2>2 DEF Due
  <2>6. x = "order"
    BY <1>3, <2>2 DEF Due
  <2> QED
    BY <1>3, <2>2, <2>4, <2>5, <2>6 DEF t, Guarded
<1>4. CASE x \in {"stub", "keys"}
  <2> DEFINE t == Chain(x)
  <2>2. /\ t \in Seq(Stages) /\ Len(t) = 5 /\ t # <<>>
        /\ t[1] = "RequestID" /\ t[2] = "Authenticate" /\ t[3] = "RateLimit"
        /\ t[4] = "Enforce" /\ t[5] = "handle"
    <3> DEFINE g == <<"RequestID", "Authenticate", "RateLimit">>
               o == <<"Enforce">>
               h == <<"handle">>
               ao == g \o o
    <3>1. t = ao \o h
      BY <1>4 DEF Chain, Own
    <3>2. /\ g \in Seq(Stages) /\ Len(g) = 3
          /\ g[1] = "RequestID" /\ g[2] = "Authenticate" /\ g[3] = "RateLimit"
      BY DEF Stages
    <3>3. o \in Seq(Stages) /\ Len(o) = 1 /\ o[1] = "Enforce"
      BY DEF Stages
    <3>4. h \in Seq(Stages) /\ Len(h) = 1 /\ h[1] = "handle"
      BY DEF Stages
    <3> HIDE DEF g, o, h, t
    <3>5. /\ ao \in Seq(Stages) /\ Len(ao) = 4
          /\ ao[1] = "RequestID" /\ ao[2] = "Authenticate" /\ ao[3] = "RateLimit"
          /\ ao[4] = "Enforce"
      <4>1. /\ ao \in Seq(Stages) /\ Len(ao) = Len(g) + Len(o)
            /\ \A i \in 1..Len(g) + Len(o) : ao[i] = IF i <= Len(g) THEN g[i] ELSE o[i - Len(g)]
        BY <3>2, <3>3, ConcatProperties, Zenon
      <4>2. \A i \in 1..4 : ao[i] = IF i <= 3 THEN g[i] ELSE o[i - 3]
        BY <3>2, <3>3, <4>1
      <4> HIDE DEF ao
      <4> QED
        BY <3>2, <3>3, <4>1, <4>2
    <3> HIDE DEF ao
    <3>6. /\ t \in Seq(Stages) /\ Len(t) = 5
          /\ t[1] = "RequestID" /\ t[2] = "Authenticate" /\ t[3] = "RateLimit"
          /\ t[4] = "Enforce" /\ t[5] = "handle"
      <4>1. /\ t \in Seq(Stages) /\ Len(t) = Len(ao) + Len(h)
            /\ \A i \in 1..Len(ao) + Len(h) : t[i] = IF i <= Len(ao) THEN ao[i] ELSE h[i - Len(ao)]
        BY <3>1, <3>4, <3>5, ConcatProperties, Zenon
      <4>2. \A i \in 1..5 : t[i] = IF i <= 4 THEN ao[i] ELSE h[i - 4]
        BY <3>4, <3>5, <4>1
      <4> QED
        BY <3>4, <3>5, <4>1, <4>2
    <3> QED
      BY <3>6
  <2> HIDE DEF t
  <2>3. \A i \in 1..5 : Rank(t[i]) = IF i < 4 THEN i ELSE i + 1
    BY <2>2 DEF Rank
  <2>4. WellFormed(t)
    BY <2>2, <2>3 DEF WellFormed
  <2>5. Due(t, "RequestID") /\ Due(t, "Authenticate") /\ Due(t, "RateLimit") /\ Due(t, "Enforce")
    BY <2>2 DEF Due
  <2>6. ~Due(t, "Idempotency")
    BY <1>4, <2>2 DEF Due
  <2> QED
    BY <1>4, <2>2, <2>4, <2>5, <2>6 DEF t, Guarded
<1> QED
  BY <1>1, <1>2, <1>3, <1>4 DEF AllRoutes, Mounted

\* The stage that runs is the lowest one due; what follows it comes later.
LEMMA HeadFirst ==
    ASSUME NEW t, WellFormed(t), t # <<>>
    PROVE  /\ Head(t) \in Stages
           /\ Due(t, Head(t))
           /\ \A s : Due(t, s) => s = Head(t) \/ Rank(Head(t)) < Rank(s)
<1>1. Len(t) \in Nat /\ Len(t) > 0 /\ Head(t) = t[1] /\ t[1] \in Stages
  BY DEF WellFormed
<1> QED
  BY <1>1 DEF WellFormed, Due

\* c.Next() leaves the other stages due, and the chain never runs dry.
LEMMA TailDue ==
    ASSUME NEW t, WellFormed(t), t # <<>>, Head(t) \notin {"handle", "notFound"}
    PROVE  /\ WellFormed(Tail(t))
           /\ Tail(t) # <<>>
           /\ \A s : Due(Tail(t), s) <=> Due(t, s) /\ s # Head(t)
<1>1. t \in Seq(Stages) /\ Len(t) \in Nat /\ Len(t) > 0 /\ Head(t) = t[1]
  BY DEF WellFormed
<1>2. Len(t) > 1
  BY <1>1 DEF WellFormed
<1>3. /\ Tail(t) \in Seq(Stages) /\ Len(Tail(t)) = Len(t) - 1
      /\ \A i \in 1..Len(t) - 1 : Tail(t)[i] = t[i + 1]
  BY <1>1, HeadTailProperties
<1>4. Tail(t) # <<>>
  <2>1. Len(Tail(t)) # 0 /\ Len(<<>>) = 0
    BY <1>2, <1>3
  <2> QED
    BY <2>1
<1>5. WellFormed(Tail(t))
  BY <1>1, <1>2, <1>3 DEF WellFormed
<1>6. ASSUME NEW s PROVE Due(Tail(t), s) <=> Due(t, s) /\ s # Head(t)
  <2>1. ASSUME Due(Tail(t), s) PROVE Due(t, s) /\ s # Head(t)
    <3>1. PICK i \in 1..Len(t) - 1 : Tail(t)[i] = s
      BY <1>1, <1>3, <2>1 DEF Due
    <3>2. i + 1 \in 1..Len(t) /\ t[i + 1] = s
      BY <1>1, <1>3, <3>1
    <3>3. 1 \in 1..Len(t) /\ 1 < i + 1
      BY <1>1
    <3>4. Rank(t[1]) < Rank(t[i + 1])
      BY <3>2, <3>3 DEF WellFormed
    <3>5. Rank(t[1]) \in Nat
      BY DEF Rank
    <3> QED
      BY <1>1, <3>2, <3>4, <3>5 DEF Due
  <2>2. ASSUME Due(t, s), s # Head(t) PROVE Due(Tail(t), s)
    <3>1. PICK i \in 1..Len(t) : t[i] = s
      BY <2>2 DEF Due
    <3>2. i - 1 \in 1..Len(t) - 1 /\ Tail(t)[i - 1] = s
      BY <1>1, <1>3, <2>2, <3>1
    <3> QED
      BY <1>3, <3>2 DEF Due
  <2> QED
    BY <2>1, <2>2
<1> QED
  BY <1>4, <1>5, <1>6

-----------------------------------------------------------------------------
(* The inductive invariant                                                 *)

\* The id RequestID gives to r.
OwnId(r) == IF Header[r] # NoId THEN Header[r] ELSE r

NoBody500 == [status |-> 500, id |-> NoId]

\* The phases after the chain.
Sent == {"writing", "answered", "cut"}

\* What gin.Context and the connection may hold for r: what each stage leaves is
\* there unless the stage is still due, and the router redirects without a chain.
Chained(r, c) ==
    /\ c \in Contexts
    /\ WellFormed(c.todo)
    /\ c.phase = "unsent" => c.decision = "none"
    /\ c.phase \in Sent => c.todo = <<>>
    /\ c.route = "redirect" => c.phase \in Sent /\ c.decision = "none"
    /\ c.todo = <<>> => c.phase # "unsent" /\ c.resp.status \in Statuses
    /\ c.todo # <<>> => c.resp = NoResponse
    /\ Due(c.todo, "RequestID") \/ c.rid = OwnId(r) \/ c.route = "redirect"
    /\ \A s \in {"RequestID", "Idempotency", "Enforce"} : Due(c.todo, s) => c.decision = "none"
    /\ Due(c.todo, "Idempotency") => c.route = "order"
    /\ c.route \in Guarded /\ c.todo # <<>> =>
         /\ Due(c.todo, "Authenticate") \/ c.actor = TRUE
         /\ Due(c.todo, "RateLimit") \/ c.counted = TRUE
         /\ Due(c.todo, "Enforce") \/ c.decision = "allow"
    /\ c.resp.id \in {c.rid, NoId} \/ (c.route = "order" /\ c.decision = "none")
    /\ c.phase = "running" => c.resp # NoBody500

ChainInv == DOMAIN req = Requests /\ \A r \in Requests : Chained(r, req[r])

\* The audit record and the access-log line of r, as the context has them.
AuditLine(r, c) == [kind |-> "audit", of |-> r, id |-> c.rid, decision |-> c.decision]
RequestLine(r, c) == [kind |-> "request", of |-> r, id |-> c.rid, decision |-> c.decision,
                      status |-> c.resp.status]

\* Exactly what the log holds of r, given its context and whether INFO is logged.
AuditLines(r, c, logging) ==
    IF c.decision = "none" \/ ~logging THEN {} ELSE {AuditLine(r, c)}
RequestLines(r, c, logging) ==
    IF c.phase \in Sent /\ logging /\ c.resp # NoBody500 /\ c.route # "redirect"
    THEN {RequestLine(r, c)} ELSE {}

LogInv ==
    /\ \A line \in stdout : line \in Lines
    /\ \A r \in Requests : /\ LinesOf(r, "audit") = AuditLines(r, req[r], Logging)
                           /\ LinesOf(r, "request") = RequestLines(r, req[r], Logging)

\* What a served request keeps.
ServedInv ==
    /\ served \subseteq Requests
    /\ \A r \in served :
         /\ req[r].todo = <<>>
         /\ req[r].route \in Guarded =>
              req[r].actor = TRUE /\ req[r].counted = TRUE /\ req[r].decision = "allow"

Before == {"load", "redis", "postgres", "start"}
Returning == {"closePool", "closeRedis", "return"}

\* run() between its labels: what is open, who may listen, and that a result of
\* nil was returned with no request under way.
RunInv ==
    /\ main \in {"load", "redis"} => redis = "none" /\ pool = "none"
    /\ main = "postgres" => redis = "open" /\ pool = "none"
    /\ main \in {"start", "select", "shutdown"} => redis = "open" /\ pool = "open"
    /\ main = "closePool" => redis = "open" /\ pool \in {"open", "closing"}
    /\ main = "closeRedis" => redis = "open" /\ pool \in {"none", "closed"}
    /\ main = "return" => redis # "open" /\ pool \in {"none", "closed"}
    /\ main \in Before => serverErr = FALSE
    /\ serverErr = TRUE => server = "closed"
    /\ server = "listening" => main = "select"
    /\ pool \in {"none", "closed"} => Held = {}
    /\ main \in Returning /\ result = "nil" => InFlight = {}
    /\ exit \in {"ok", "failed"} => main = "return"
    /\ exit = "ok" => result = "nil"

\* A context on its way in has every guard of its route before it.
LEMMA FreshChained ==
    ASSUME NEW r \in Requests, NEW x \in Mounted,
           NEW c \in {Fresh(x), [Fresh(x) EXCEPT !.phase = "unsent"]}
    PROVE  Chained(r, c)
<1>1. /\ c.phase \in {"unsent", "running"} /\ c.route = x /\ c.rid = NoId /\ c.todo = Chain(x)
      /\ c.actor = FALSE /\ c.counted = FALSE /\ c.conn = FALSE /\ c.decision = "none"
      /\ c.resp = NoResponse
  BY DEF Fresh
<1>2. c \in Contexts
  <2>1. Chain(x) \in Seq(Stages)
    BY ChainShape DEF WellFormed
  <2>2. NoResponse \in [status : Statuses \cup {0}, id : Ids]
    BY DEF NoResponse, Ids
  <2>3. Fresh(x) \in Contexts
    BY <2>1, <2>2 DEF Fresh, Contexts, Stages, Ids, Verdicts, Mounted
  <2>4. [Fresh(x) EXCEPT !.phase = "unsent"] \in Contexts
    BY <2>3 DEF Contexts
  <2> QED
    BY <2>3, <2>4
<1>3. NoResponse # NoBody500 /\ NoResponse.id = NoId
  BY DEF NoResponse, NoBody500
<1> QED
  BY <1>1, <1>2, <1>3, ChainShape DEF Chained, Mounted, Sent

\* The router's own answer to a path it redirects.
LEMMA RedirectChained ==
    ASSUME NEW r \in Requests, NEW status \in RedirectStatuses
    PROVE  /\ Chained(r, Redirected(status))
           /\ Redirected(status).decision = "none" /\ Redirected(status).route = "redirect"
           /\ Redirected(status).conn = FALSE
<1>1. PICK c : c = Redirected(status)
  OBVIOUS
<1> DEFINE e == Chain("redirect")
           b == [status |-> status, id |-> NoId]
<1>2. e = <<>> /\ e \in Seq(Stages) /\ WellFormed(e) /\ \A s : ~Due(e, s)
  BY DEF Chain, WellFormed, Due
<1>3. /\ b \in [status : Statuses \cup {0}, id : Ids] /\ b.status \in Statuses /\ b.id = NoId
  BY DEF RedirectStatuses, Statuses, Ids
<1> HIDE DEF b, e
<1>4. c = [phase |-> "writing", route |-> "redirect", rid |-> NoId, todo |-> e, actor |-> FALSE,
           counted |-> FALSE, conn |-> FALSE, decision |-> "none", resp |-> b]
  BY <1>1 DEF Redirected, Fresh, b, e
<1>5. /\ c.phase = "writing" /\ c.route = "redirect" /\ c.rid = NoId /\ c.todo = e
      /\ c.conn = FALSE /\ c.decision = "none" /\ c.resp = b
  BY <1>4
<1>6. c \in Contexts
  BY <1>2, <1>3, <1>4 DEF Contexts, Stages, Ids, Verdicts, AllRoutes
<1> QED
  <2>1. Chained(r, c)
    BY <1>2, <1>3, <1>5, <1>6 DEF Chained, Sent, Guarded
  <2> QED
    BY <1>5, <1>1, <2>1

\* c.Next() after a stage that did its work.
LEMMA Passed ==
    ASSUME NEW r \in Requests, NEW c, Chained(r, c), c.todo # <<>>, c.phase = "running",
           Head(c.todo) \notin {"handle", "notFound"},
           NEW d \in Contexts,
           d.phase = "running", d.route = c.route, d.resp = c.resp, d.todo = Tail(c.todo),
           d.rid = (IF Head(c.todo) = "RequestID" THEN OwnId(r) ELSE c.rid),
           d.actor = (IF Head(c.todo) = "Authenticate" THEN TRUE ELSE c.actor),
           d.counted = (IF Head(c.todo) = "RateLimit" THEN TRUE ELSE c.counted),
           d.decision = (IF Head(c.todo) = "Enforce" THEN "allow" ELSE c.decision)
    PROVE  Chained(r, d)
<1>1. /\ WellFormed(d.todo) /\ d.todo # <<>>
      /\ \A s : Due(d.todo, s) <=> Due(c.todo, s) /\ s # Head(c.todo)
  BY TailDue DEF Chained
<1>2. /\ Due(c.todo, Head(c.todo))
      /\ \A s : Due(c.todo, s) => s = Head(c.todo) \/ Rank(Head(c.todo)) < Rank(s)
  BY HeadFirst DEF Chained
<1>3. d.resp = NoResponse /\ d.resp.id = NoId /\ d.resp # NoBody500
  BY DEF Chained, NoResponse, NoBody500
<1>4. ASSUME NEW s \in {"RequestID", "Idempotency", "Enforce"}, Due(d.todo, s)
      PROVE  d.decision = "none"
  <2>1. Due(c.todo, s) /\ s # Head(c.todo) /\ c.decision = "none"
    BY <1>1, <1>4 DEF Chained
  <2>2. Head(c.todo) # "Enforce"
    BY <1>2, <2>1 DEF Rank
  <2> QED
    BY <2>1, <2>2
<1>5. c.route # "redirect" /\ (Due(d.todo, "RequestID") \/ d.rid = OwnId(r))
  BY <1>1 DEF Chained, Sent
<1>6. d.route \in Guarded =>
        /\ Due(d.todo, "Authenticate") \/ d.actor = TRUE
        /\ Due(d.todo, "RateLimit") \/ d.counted = TRUE
        /\ Due(d.todo, "Enforce") \/ d.decision = "allow"
  BY <1>1 DEF Chained
<1>7. Due(d.todo, "Idempotency") => d.route = "order"
  BY <1>1 DEF Chained
<1> QED
  BY <1>1, <1>3, <1>4, <1>5, <1>6, <1>7 DEF Chained, Sent

\* A response that ends the chain, from any stage but the first.
LEMMA Responded ==
    ASSUME NEW r \in Requests, NEW c, Chained(r, c), c.todo # <<>>, c.phase = "running",
           Head(c.todo) # "RequestID",
           NEW d \in Contexts,
           d.phase \in {"running", "writing"}, d.route = c.route, d.todo = <<>>, d.rid = c.rid,
           d.resp.status \in Statuses,
           d.resp.id \in {c.rid, NoId} \/ (d.route = "order" /\ d.decision = "none"),
           d.phase = "running" => d.resp # NoBody500
    PROVE  Chained(r, d)
<1>1. \A s : Due(c.todo, s) => s = Head(c.todo) \/ Rank(Head(c.todo)) < Rank(s)
  BY HeadFirst DEF Chained
<1>2. Head(c.todo) \in Stages
  BY HeadFirst DEF Chained
<1>3. ~Due(c.todo, "RequestID")
  BY <1>1, <1>2 DEF Rank, Stages
<1>4. d.rid = OwnId(r) /\ c.route # "redirect"
  BY <1>3 DEF Chained, Sent
<1>5. WellFormed(<<>>) /\ \A s : ~Due(<<>>, s)
  BY DEF WellFormed, Due
<1> QED
  BY <1>4, <1>5 DEF Chained, Sent

-----------------------------------------------------------------------------
(* A request's steps keep its context in order                             *)

\* A step that writes nothing to the log, and needs nothing written.
Moved(r, c, d) ==
    /\ Chained(r, d)
    /\ d.decision = c.decision
    /\ c.decision # "none" => d.rid = c.rid
    /\ c.phase \notin Sent
    /\ d.phase \in Sent => d.resp = NoBody500 \/ d.route = "redirect"

\* The ids a request may be given.
LEMMA OwnIds == \A r \in Requests : OwnId(r) \in Ids /\ OwnId(r) # NoId
BY GatewayAssumption DEF OwnId, Ids

\* Stage s of r has done its work: b is the context before it and c after it.
Worked(r, s, b, c) ==
    /\ s \in Stages \ {"handle", "notFound"} /\ c \in Contexts
    /\ c.phase = b.phase /\ c.route = b.route /\ c.resp = b.resp /\ c.todo = b.todo
    /\ c.rid = (IF s = "RequestID" THEN OwnId(r) ELSE b.rid)
    /\ c.actor = (IF s = "Authenticate" THEN TRUE ELSE b.actor)
    /\ c.counted = (IF s = "RateLimit" THEN TRUE ELSE b.counted)
    /\ c.decision = (IF s = "Enforce" THEN "allow" ELSE b.decision)

\* What c becomes with c.Next().
Followed(c, d) ==
    d.decision = c.decision /\ d.rid = c.rid /\ d.phase = "running" /\ d.conn = c.conn

\* c.Next() as Pass writes it.
LEMMA PassMoves ==
    ASSUME ChainInv, NEW r \in Requests, NEW s, At(r, s), NEW c, Worked(r, s, req[r], c), Pass(r, c)
    PROVE  Chained(r, req'[r]) /\ Followed(c, req'[r])
<1> USE DEF Worked
<1> DEFINE d == [c EXCEPT !.todo = Tail(@)]
<1>1. req'[r] = d
  BY DEF Pass, ChainInv
<1>2. Chained(r, req[r]) /\ req[r].todo # <<>> /\ Head(req[r].todo) = s
      /\ req[r].phase = "running"
  BY DEF ChainInv, At
<1>3. Tail(c.todo) \in Seq(Stages)
  BY <1>2, TailDue DEF Chained, WellFormed
<1>4. /\ d \in Contexts
      /\ d.phase = c.phase /\ d.route = c.route /\ d.resp = c.resp /\ d.todo = Tail(c.todo)
      /\ d.rid = c.rid /\ d.actor = c.actor /\ d.counted = c.counted
      /\ d.decision = c.decision /\ d.conn = c.conn
  BY <1>3 DEF Contexts, Stages
<1> HIDE DEF d
<1>5. Chained(r, d)
  BY <1>2, <1>4, Passed
<1> QED
  BY <1>1, <1>2, <1>4, <1>5 DEF Followed

\* A response that may be given with context b, when c is the context it leaves.
Answerable(b, c, status, id) ==
    /\ c \in Contexts /\ status \in Statuses /\ id \in Ids
    /\ c.route = b.route /\ c.rid = b.rid
    /\ id \in {c.rid, NoId} \/ (c.route = "order" /\ c.decision = "none")
    /\ \/ c.phase = "running" /\ (status # 500 \/ id # NoId)
       \/ c.phase = "writing" /\ status = 500 /\ id = NoId

\* What c becomes once the response is written.
Answered(c, d) ==
    /\ d.decision = c.decision /\ d.rid = c.rid
    /\ d.actor = c.actor /\ d.counted = c.counted
    /\ d.route = c.route /\ d.todo = <<>>
    /\ d.phase = c.phase /\ d.conn = FALSE
    /\ c.phase = "writing" => d.resp = NoBody500

\* A response as Respond writes it.
LEMMA RespondMoves ==
    ASSUME ChainInv, NEW r \in Requests, NEW s \in Stages \ {"RequestID"}, At(r, s),
           NEW c, NEW status, NEW id, Answerable(req[r], c, status, id),
           Respond(r, c, status, id)
    PROVE  Chained(r, req'[r]) /\ Answered(c, req'[r])
<1> USE DEF Answerable
<1> DEFINE b == [status |-> status, id |-> id]
           d == [c EXCEPT !.resp = b, !.todo = <<>>, !.conn = FALSE]
<1>1. req'[r] = d
  BY DEF Respond, ChainInv
<1>2. Chained(r, req[r]) /\ req[r].todo # <<>> /\ Head(req[r].todo) = s
      /\ req[r].phase = "running"
  BY DEF ChainInv, At
<1>3. b \in [status : Statuses \cup {0}, id : Ids] /\ b.status = status /\ b.id = id
  OBVIOUS
<1>5. b = NoBody500 <=> status = 500 /\ id = NoId
  BY DEF NoBody500
<1> HIDE DEF b
<1>4. /\ d \in Contexts
      /\ d.phase = c.phase /\ d.route = c.route /\ d.todo = <<>> /\ d.rid = c.rid
      /\ d.actor = c.actor /\ d.counted = c.counted /\ d.decision = c.decision
      /\ d.conn = FALSE /\ d.resp = b
  <2>1. <<>> \in Seq(Stages)
    OBVIOUS
  <2> DEFINE e == <<>>
             f == [c EXCEPT !.resp = b, !.todo = e, !.conn = FALSE]
  <2>2. e \in Seq(Stages)
    BY <2>1
  <2> HIDE DEF e
  <2>3. f \in Contexts
    BY <1>3, <2>2 DEF Contexts, Stages
  <2>4. /\ f.phase = c.phase /\ f.route = c.route /\ f.todo = e /\ f.rid = c.rid
        /\ f.actor = c.actor /\ f.counted = c.counted /\ f.decision = c.decision
        /\ f.conn = FALSE /\ f.resp = b
    BY DEF Contexts
  <2> QED
    BY <2>3, <2>4 DEF e
<1> HIDE DEF d
<1>6. Chained(r, d)
  BY <1>2, <1>3, <1>4, <1>5, Responded
<1> QED
  BY <1>1, <1>4, <1>5, <1>6 DEF Answered

\* A refusal with context b, when c is the context it leaves.
Refusable(s, b, c, status) ==
    /\ s \in Stages \ {"RequestID"} /\ c \in Contexts /\ status \in Statuses
    /\ c.phase = "running" /\ c.route = b.route /\ c.rid = b.rid

\* httpx.Abort from a stage behind RequestID: the id is the request's own.
LEMMA AbortMoves ==
    ASSUME ChainInv, NEW r \in Requests, NEW s, At(r, s), NEW c, NEW status,
           Refusable(s, req[r], c, status), Abort(r, c, status)
    PROVE  Chained(r, req'[r]) /\ Answered(c, req'[r])
<1> USE DEF Refusable
<1>1. Chained(r, req[r]) /\ req[r].todo # <<>> /\ Head(req[r].todo) = s
  BY DEF ChainInv, At
<1>2. ~Due(req[r].todo, "RequestID")
  BY <1>1, HeadFirst DEF Chained, Rank, Stages
<1>3. c.rid = OwnId(r) /\ c.rid \in Ids /\ c.rid # NoId
  BY <1>1, <1>2, OwnIds DEF Chained, At, Sent
<1>4. Answerable(req[r], c, status, c.rid)
  BY <1>3 DEF Answerable
<1> QED
  BY <1>4, RespondMoves DEF Abort

\* gin.Recovery.
LEMMA RecoverMoves ==
    ASSUME ChainInv, NEW r \in Requests, NEW s \in Stages \ {"RequestID"}, At(r, s), Recover(r)
    PROVE  /\ Moved(r, req[r], req'[r])
           /\ req'[r].actor = req[r].actor /\ req'[r].counted = req[r].counted
           /\ req'[r].route = req[r].route /\ req'[r].todo = <<>>
           /\ req'[r].conn = FALSE
<1> DEFINE c == [req[r] EXCEPT !.phase = "writing"]
<1>1. req[r] \in Contexts /\ req[r].phase = "running"
  BY DEF ChainInv, Chained, At
<1>2. /\ c \in Contexts /\ c.phase = "writing" /\ c.route = req[r].route /\ c.rid = req[r].rid
      /\ c.actor = req[r].actor /\ c.counted = req[r].counted /\ c.decision = req[r].decision
  BY <1>1 DEF Contexts
<1>3. Respond(r, c, 500, NoId)
  BY DEF Recover
<1> HIDE DEF c
<1>4. Answerable(req[r], c, 500, NoId)
  BY <1>2 DEF Answerable, Statuses, Ids
<1>5. Chained(r, req'[r]) /\ Answered(c, req'[r])
  BY <1>3, <1>4, RespondMoves
<1> QED
  BY <1>1, <1>2, <1>5 DEF Moved, Sent, Answered

\* The steps that write nothing to the log.
Silent(r) ==
    \/ Accept(r) \/ Redirect(r) \/ RequestID(r) \/ Acquire(r) \/ Authenticate(r) \/ RateLimit(r)
    \/ Idempotency(r) \/ NotFound(r) \/ Handle(r) \/ HandlerPanic(r)
    \/ At(r, "Enforce") /\ Recover(r)
    \/ At(r, "Enforce") /\ Abort(r, req[r], 401)

\* They are moves (router.go:54-104 and the middlewares it mounts).
LEMMA SilentMoves ==
    ASSUME ChainInv, NEW r \in Requests, Silent(r) PROVE Moved(r, req[r], req'[r])
<1> DEFINE c == req[r]
<1>1. Chained(r, c) /\ c \in Contexts /\ DOMAIN req = Requests
  BY DEF ChainInv, Chained
<1>2. NoId \in Ids /\ OldId \in Ids
  BY DEF Ids
<1>3. ASSUME NEW s \in Stages, At(r, s) PROVE c.phase = "running" /\ c.phase \notin Sent
  BY <1>3 DEF At, Sent
<1>4. ASSUME NEW s \in Stages \ {"RequestID"}, At(r, s), NEW status \in Statuses,
             Abort(r, c, status)
      PROVE  Moved(r, c, req'[r])
  <2>1. Refusable(s, c, c, status)
    BY <1>1, <1>3, <1>4 DEF Refusable
  <2>2. Chained(r, req'[r]) /\ Answered(c, req'[r])
    BY <1>4, <2>1, AbortMoves, Zenon
  <2> QED
    BY <1>3, <1>4, <2>2 DEF Moved, Sent, Answered
<1>5. ASSUME NEW s \in Stages \ {"RequestID"}, At(r, s), NEW status \in Statuses \ {500},
             NEW id \in Ids, Respond(r, c, status, id),
             id = NoId \/ (c.route = "order" /\ c.decision = "none")
      PROVE  Moved(r, c, req'[r])
  <2>1. c.phase = "running" /\ c.phase # "writing" /\ ~(status = 500 /\ id = NoId)
    BY <1>3, <1>5
  <2>2. /\ Chained(r, req'[r]) /\ req'[r].decision = c.decision /\ req'[r].rid = c.rid
        /\ req'[r].phase = c.phase
    <3>1. Answerable(req[r], c, status, id)
      BY <1>1, <1>5, <2>1 DEF Answerable
    <3>2. At(r, s) /\ Respond(r, c, status, id)
      BY <1>5
    <3>3. Chained(r, req'[r]) /\ Answered(c, req'[r])
      BY <3>1, <3>2, RespondMoves, Zenon
    <3> QED
      BY <3>3 DEF Answered
  <2> QED
    BY <2>1, <2>2 DEF Moved, Sent
<1>6. CASE Accept(r)
  <2>1. PICK x \in Routes \ {"redirect"} : req' = [req EXCEPT ![r] = Fresh(x)]
    BY <1>6 DEF Accept
  <2>2. x \in Mounted
    BY GatewayAssumption DEF Mounted
  <2>4. Chained(r, Fresh(x))
    BY <2>2, FreshChained
  <2>5. Fresh(x).decision = "none" /\ Fresh(x).phase = "running"
    BY DEF Fresh
  <2>6. c.phase = "unsent" /\ c.decision = "none"
    BY <1>1, <1>6 DEF Accept, Chained
  <2> QED
    BY <1>1, <2>1, <2>4, <2>5, <2>6 DEF Moved, Sent
<1>7. CASE RequestID(r)
  <2> DEFINE e == [c EXCEPT !.rid = OwnId(r)]
  <2>1. Pass(r, e) /\ At(r, "RequestID")
    BY <1>7 DEF RequestID, OwnId
  <2>2. /\ e \in Contexts /\ e.phase = c.phase /\ e.route = c.route /\ e.resp = c.resp
        /\ e.todo = c.todo /\ e.rid = OwnId(r) /\ e.actor = c.actor /\ e.counted = c.counted
        /\ e.decision = c.decision
    BY <1>1, OwnIds DEF Contexts
  <2> HIDE DEF e
  <2>3. Due(c.todo, "RequestID")
    BY <1>1, <2>1, HeadFirst DEF At, Chained
  <2>4. c.decision = "none"
    BY <1>1, <2>3 DEF Chained
  <2>5. Worked(r, "RequestID", c, e) /\ "RequestID" \in Stages
    BY <2>2 DEF Worked, Stages
  <2>6. Chained(r, req'[r]) /\ Followed(e, req'[r])
    BY <2>1, <2>5, PassMoves
  <2> QED
    BY <1>3, <2>1, <2>2, <2>4, <2>5, <2>6 DEF Moved, Sent, Followed
<1>8. CASE Acquire(r)
  <2> DEFINE d == [c EXCEPT !.conn = TRUE]
  <2>1. req'[r] = d /\ c.phase = "running"
    BY <1>1, <1>8 DEF Acquire, At
  <2>2. /\ d \in Contexts /\ d.phase = c.phase /\ d.route = c.route /\ d.resp = c.resp
        /\ d.todo = c.todo /\ d.rid = c.rid /\ d.actor = c.actor /\ d.counted = c.counted
        /\ d.decision = c.decision
    BY <1>1 DEF Contexts
  <2> HIDE DEF d
  <2>3. Chained(r, d)
    BY <1>1, <2>2 DEF Chained
  <2> QED
    BY <2>1, <2>2, <2>3 DEF Moved, Sent
<1>9. CASE Authenticate(r)
  <2> DEFINE e == [c EXCEPT !.actor = TRUE, !.conn = FALSE]
  <2>1. /\ e \in Contexts /\ e.phase = c.phase /\ e.route = c.route /\ e.resp = c.resp
        /\ e.todo = c.todo /\ e.rid = c.rid /\ e.actor = TRUE /\ e.counted = c.counted
        /\ e.decision = c.decision
    BY <1>1 DEF Contexts
  <2>2. At(r, "Authenticate") /\ (Pass(r, e) \/ Abort(r, c, 401))
    BY <1>9 DEF Authenticate
  <2> HIDE DEF e
  <2>3. "Authenticate" \in Stages \ {"RequestID", "handle", "notFound"} /\ 401 \in Statuses
    BY DEF Stages, Statuses
  <2>4. CASE Pass(r, e)
    <3>1. Worked(r, "Authenticate", c, e)
      BY <2>1, <2>3 DEF Worked
    <3>2. Chained(r, req'[r]) /\ Followed(e, req'[r])
      BY <2>2, <2>4, <3>1, PassMoves
    <3> QED
      BY <1>3, <2>1, <2>2, <2>3, <3>2 DEF Moved, Sent, Followed
  <2> QED
    BY <1>4, <2>2, <2>3, <2>4
<1>10. CASE RateLimit(r)
  <2> DEFINE e == [c EXCEPT !.counted = TRUE]
  <2>1. /\ e \in Contexts /\ e.phase = c.phase /\ e.route = c.route /\ e.resp = c.resp
        /\ e.todo = c.todo /\ e.rid = c.rid /\ e.actor = c.actor /\ e.counted = TRUE
        /\ e.decision = c.decision
    BY <1>1 DEF Contexts
  <2>2. At(r, "RateLimit") /\ (Pass(r, e) \/ Abort(r, c, 401) \/ Abort(r, c, 429))
    BY <1>10 DEF RateLimit
  <2> HIDE DEF e
  <2>3. /\ "RateLimit" \in Stages \ {"RequestID", "handle", "notFound"}
        /\ 401 \in Statuses /\ 429 \in Statuses
    BY DEF Stages, Statuses
  <2>4. CASE Pass(r, e)
    <3>1. Worked(r, "RateLimit", c, e)
      BY <2>1, <2>3 DEF Worked
    <3>2. Chained(r, req'[r]) /\ Followed(e, req'[r])
      BY <2>2, <2>4, <3>1, PassMoves
    <3> QED
      BY <1>3, <2>1, <2>2, <2>3, <3>2 DEF Moved, Sent, Followed
  <2> QED
    BY <1>4, <2>2, <2>3, <2>4
<1>11. CASE Idempotency(r)
  <2>1. /\ At(r, "Idempotency")
        /\ \/ Pass(r, c) \/ Abort(r, c, 401) \/ Abort(r, c, 400)
           \/ Respond(r, c, 200, NoId) \/ Respond(r, c, 403, OldId)
    BY <1>11 DEF Idempotency
  <2>2. /\ "Idempotency" \in Stages \ {"RequestID", "handle", "notFound"}
        /\ 400 \in Statuses /\ 401 \in Statuses
        /\ 200 \in Statuses \ {500} /\ 403 \in Statuses \ {500}
    BY DEF Stages, Statuses
  <2>3. Due(c.todo, "Idempotency")
    BY <1>1, <2>1, HeadFirst DEF At, Chained
  <2>4. c.route = "order" /\ c.decision = "none"
    BY <1>1, <2>3 DEF Chained
  <2>5. CASE Pass(r, c)
    <3>1. Worked(r, "Idempotency", c, c)
      BY <1>1, <2>2 DEF Worked
    <3>2. Chained(r, req'[r]) /\ Followed(c, req'[r])
      BY <2>1, <2>5, <3>1, PassMoves, Zenon
    <3> QED
      BY <1>3, <2>1, <2>2, <3>2 DEF Moved, Sent, Followed
  <2> QED
    BY <1>2, <1>4, <1>5, <2>1, <2>2, <2>4, <2>5
<1>12. CASE NotFound(r)
  <2>1. At(r, "notFound") /\ Respond(r, c, 404, NoId)
    BY <1>12 DEF NotFound, NotFoundStatus
  <2>2. "notFound" \in Stages \ {"RequestID"} /\ 404 \in Statuses \ {500}
    BY DEF Stages, Statuses
  <2> QED
    BY <1>2, <1>5, <2>1, <2>2
<1>13. CASE Handle(r)
  <2>1. At(r, "handle") /\ (Respond(r, c, 200, NoId) \/ \E status \in Refusals(r) : Abort(r, c, status))
    BY <1>13 DEF Handle
  <2>2. "handle" \in Stages \ {"RequestID"} /\ 200 \in Statuses \ {500}
    BY DEF Stages, Statuses
  <2>3. Refusals(r) \subseteq Statuses
    BY DEF Refusals, Statuses
  <2> QED
    BY <1>2, <1>4, <1>5, <2>1, <2>2, <2>3
<1>14. CASE HandlerPanic(r)
  <2>1. At(r, "handle") /\ Recover(r) /\ "handle" \in Stages \ {"RequestID"}
    BY <1>14 DEF HandlerPanic, Stages
  <2> QED
    BY <2>1, RecoverMoves
<1>15. CASE At(r, "Enforce") /\ (Recover(r) \/ Abort(r, req[r], 401))
  <2>1. "Enforce" \in Stages \ {"RequestID"} /\ 401 \in Statuses
    BY DEF Stages, Statuses
  <2> QED
    BY <1>4, <1>15, <2>1, RecoverMoves
<1>16. CASE Redirect(r)
  <2>1. PICK status \in RedirectStatuses : req' = [req EXCEPT ![r] = Redirected(status)]
    BY <1>16 DEF Redirect
  <2>2. req'[r] = Redirected(status)
    BY <1>1, <2>1
  <2>3. /\ Chained(r, Redirected(status)) /\ Redirected(status).decision = "none"
        /\ Redirected(status).route = "redirect"
    BY RedirectChained
  <2>4. Chained(r, req'[r]) /\ req'[r].decision = "none" /\ req'[r].route = "redirect"
    BY <2>2, <2>3
  <2>5. c.phase = "unsent" /\ c.decision = "none"
    BY <1>1, <1>16 DEF Redirect, Chained
  <2> QED
    BY <2>4, <2>5 DEF Moved, Sent
<1> QED
  BY <1>6, <1>7, <1>8, <1>9, <1>10, <1>11, <1>12, <1>13, <1>14, <1>15, <1>16 DEF Silent

\* What Enforce makes of a context with decision d.
Ruled(d, b, c) ==
    /\ b.decision = "none" /\ c.decision = d /\ c.rid = b.rid
    /\ b.phase = "running" /\ c.phase = "running"
    /\ c.conn \in {b.conn, FALSE}

\* Enforce with an actor: the decision was not there before and is now.
LEMMA EnforceMoves ==
    ASSUME ChainInv, NEW r \in Requests, At(r, "Enforce"), NEW d \in {"allow", "deny"},
           IF d = "allow" THEN Pass(r, Expose(req[r], d)) ELSE Abort(r, Expose(req[r], d), 403)
    PROVE  Chained(r, req'[r]) /\ Ruled(d, req[r], req'[r])
<1> DEFINE c == req[r]
           e == Expose(c, d)
<1>1. Chained(r, c) /\ c \in Contexts /\ c.phase = "running"
  BY DEF ChainInv, Chained, At
<1>2. Due(c.todo, "Enforce")
  BY <1>1, HeadFirst DEF At, Chained
<1>3. c.decision = "none"
  BY <1>1, <1>2 DEF Chained
<1>4. /\ e \in Contexts /\ e.phase = c.phase /\ e.route = c.route /\ e.resp = c.resp
      /\ e.todo = c.todo /\ e.rid = c.rid /\ e.actor = c.actor /\ e.counted = c.counted
      /\ e.decision = d /\ e.conn = c.conn
  BY <1>1 DEF Contexts, Expose, Verdicts
<1> HIDE DEF e
<1>5. "Enforce" \in Stages \ {"RequestID", "handle", "notFound"} /\ 403 \in Statuses
  BY DEF Stages, Statuses
<1>6. CASE d = "allow"
  <2>1. Pass(r, e)
    BY <1>6 DEF e
  <2>2. Worked(r, "Enforce", c, e)
    BY <1>4, <1>5, <1>6 DEF Worked
  <2>3. Chained(r, req'[r]) /\ Followed(e, req'[r])
    BY <2>1, <2>2, PassMoves, Zenon
  <2> QED
    BY <1>1, <1>3, <1>4, <1>6, <2>3 DEF Followed, Ruled
<1>7. CASE d = "deny"
  <2>1. Abort(r, e, 403)
    BY <1>7 DEF e
  <2>2. Refusable("Enforce", c, e, 403)
    BY <1>1, <1>4, <1>5 DEF Refusable
  <2>3. Chained(r, req'[r]) /\ Answered(e, req'[r])
    BY <2>1, <2>2, AbortMoves, Zenon
  <2> QED
    BY <1>1, <1>3, <1>4, <1>7, <2>3 DEF Answered, Ruled
<1> QED
  BY <1>6, <1>7

\* The phases after the chain.
LEMMA PhaseMoves ==
    ASSUME ChainInv, NEW r \in Requests, NEW p \in Sent,
           req[r].todo = <<>>, req' = [req EXCEPT ![r].phase = p]
    PROVE  /\ Chained(r, req'[r])
           /\ req'[r].decision = req[r].decision /\ req'[r].rid = req[r].rid
           /\ req'[r].resp = req[r].resp /\ req'[r].phase = p /\ req'[r].todo = <<>>
           /\ req'[r].route = req[r].route /\ req'[r].actor = req[r].actor
           /\ req'[r].counted = req[r].counted /\ req'[r].conn = req[r].conn
<1> DEFINE c == req[r]
           d == [c EXCEPT !.phase = p]
<1>1. Chained(r, c) /\ c \in Contexts /\ req'[r] = d
  BY DEF ChainInv, Chained
<1>2. /\ d \in Contexts /\ d.phase = p /\ d.route = c.route /\ d.resp = c.resp
      /\ d.todo = c.todo /\ d.rid = c.rid /\ d.actor = c.actor /\ d.counted = c.counted
      /\ d.decision = c.decision /\ d.conn = c.conn
  BY <1>1 DEF Contexts, Sent
<1> HIDE DEF d
<1>3. Chained(r, d)
  BY <1>1, <1>2 DEF Chained, Sent
<1> QED
  BY <1>1, <1>2, <1>3

\* The steps that the log is about: r's decision and r's access-log line.
Decide(r, d) ==
    /\ At(r, "Enforce") /\ req[r].actor
    /\ Info([kind |-> "audit", of |-> r, id |-> req[r].rid, decision |-> d])
    /\ IF d = "allow" THEN Pass(r, Expose(req[r], d)) ELSE Abort(r, Expose(req[r], d), 403)
    /\ UNCHANGED <<served, exit>>

\* What a step of a request may be.
LEMMA StepKinds ==
    ASSUME NEW r \in Requests, Step(r)
    PROVE  /\ UNCHANGED <<main, result, redis, pool, server, serverErr, quit, logLevel>>
           /\ \/ Silent(r) /\ UNCHANGED stdout
              \/ UNCHANGED <<req, served, stdout>>
              \/ \E d \in {"allow", "deny"} : Decide(r, d)
              \/ RequestLog(r)
              \/ Flush(r)
<1>1. UNCHANGED <<main, result, redis, pool, server, serverErr, quit, logLevel>>
  BY DEF Step, runVars, channels
<1>2. Enforce(r) => \/ Silent(r) /\ UNCHANGED stdout
                    \/ \E d \in {"allow", "deny"} : Decide(r, d)
  BY DEF Enforce, Silent, Decide
<1>3. RulePanic(r) => \/ Silent(r) /\ UNCHANGED stdout
                      \/ UNCHANGED <<req, served, stdout>>
  BY DEF RulePanic, Silent
<1>4. Silent(r) /\ ~Enforce(r) /\ ~RulePanic(r) /\ Step(r) => UNCHANGED stdout \/ RequestLog(r) \/ Flush(r)
  BY DEF Step, Accept, Redirect, RequestID, Acquire, Authenticate, RateLimit, Idempotency, NotFound,
         Handle, HandlerPanic
<1>5. Step(r) => Silent(r) \/ Enforce(r) \/ RulePanic(r) \/ RequestLog(r) \/ Flush(r)
  BY DEF Step, Silent
<1> QED
  BY <1>1, <1>2, <1>3, <1>4, <1>5

\* A step of one request leaves the others' contexts alone.
LEMMA Elsewhere ==
    ASSUME ChainInv, NEW r \in Requests, Step(r)
    PROVE  DOMAIN req' = Requests /\ \A q \in Requests \ {r} : req'[q] = req[q]
<1>1. UNCHANGED req \/ \E c : req' = [req EXCEPT ![r] = c]
  <2>1. Accept(r) => UNCHANGED req \/ \E c : req' = [req EXCEPT ![r] = c]
    BY DEF Accept, Pass, Abort, Respond, Recover
  <2>2. RequestID(r) => UNCHANGED req \/ \E c : req' = [req EXCEPT ![r] = c]
    BY DEF RequestID, Pass, Abort, Respond, Recover
  <2>3. Acquire(r) => UNCHANGED req \/ \E c : req' = [req EXCEPT ![r] = c]
    BY DEF Acquire, Pass, Abort, Respond, Recover
  <2>4. Authenticate(r) => UNCHANGED req \/ \E c : req' = [req EXCEPT ![r] = c]
    BY DEF Authenticate, Pass, Abort, Respond, Recover
  <2>5. RateLimit(r) => UNCHANGED req \/ \E c : req' = [req EXCEPT ![r] = c]
    BY DEF RateLimit, Pass, Abort, Respond, Recover
  <2>6. Idempotency(r) => UNCHANGED req \/ \E c : req' = [req EXCEPT ![r] = c]
    BY DEF Idempotency, Pass, Abort, Respond, Recover
  <2>7. Enforce(r) => UNCHANGED req \/ \E c : req' = [req EXCEPT ![r] = c]
    BY DEF Enforce, Pass, Abort, Respond, Recover
  <2>8. RulePanic(r) => UNCHANGED req \/ \E c : req' = [req EXCEPT ![r] = c]
    BY DEF RulePanic, Pass, Abort, Respond, Recover
  <2>9. Handle(r) => UNCHANGED req \/ \E c : req' = [req EXCEPT ![r] = c]
    BY DEF Handle, Pass, Abort, Respond, Recover
  <2>10. HandlerPanic(r) => UNCHANGED req \/ \E c : req' = [req EXCEPT ![r] = c]
    BY DEF HandlerPanic, Pass, Abort, Respond, Recover
  <2>11. NotFound(r) => UNCHANGED req \/ \E c : req' = [req EXCEPT ![r] = c]
    BY DEF NotFound, Pass, Abort, Respond, Recover
  <2>12. RequestLog(r) => UNCHANGED req \/ \E c : req' = [req EXCEPT ![r] = c]
    BY DEF RequestLog, Pass, Abort, Respond, Recover
  <2>13. Redirect(r) => UNCHANGED req \/ \E c : req' = [req EXCEPT ![r] = c]
    BY DEF Redirect
  <2>14. Flush(r) => UNCHANGED req \/ \E c : req' = [req EXCEPT ![r] = c]
    BY DEF Flush, Pass, Abort, Respond, Recover
  <2> QED
    BY <2>1, <2>2, <2>3, <2>4, <2>5, <2>6, <2>7, <2>8, <2>9, <2>10, <2>11, <2>12, <2>13,
       <2>14 DEF Step
<1> QED
  BY <1>1 DEF ChainInv

\* Every context stays in order (router.go:54-104).
LEMMA ChainStep ==
    ASSUME ChainInv, NEW r \in Requests, Step(r) PROVE ChainInv'
<1>1. DOMAIN req' = Requests /\ \A q \in Requests \ {r} : req'[q] = req[q]
  BY Elsewhere
<1>2. Chained(r, req'[r])
  <2>1. CASE Silent(r)
    BY <2>1, SilentMoves DEF Moved
  <2>2. CASE UNCHANGED req
    BY <2>2 DEF ChainInv
  <2>3. ASSUME NEW d \in {"allow", "deny"}, Decide(r, d) PROVE Chained(r, req'[r])
    BY <2>3, EnforceMoves DEF Decide
  <2>4. CASE RequestLog(r)
    BY <2>4, PhaseMoves DEF RequestLog, Sent
  <2>5. CASE Flush(r)
    <3>1. req[r].todo = <<>>
      BY <2>5 DEF Flush, ChainInv, Chained, Sent
    <3> QED
      BY <2>5, <3>1, PhaseMoves DEF Flush, Sent
  <2> QED
    BY <2>1, <2>2, <2>3, <2>4, <2>5, StepKinds
<1> QED
  BY <1>1, <1>2 DEF ChainInv

\* At the handler every guard of the route has been passed.
LEMMA AtHandler ==
    ASSUME ChainInv, NEW r \in Requests, At(r, "handle"), req[r].route \in Guarded
    PROVE  req[r].actor = TRUE /\ req[r].counted = TRUE /\ req[r].decision = "allow"
<1>1. Chained(r, req[r]) /\ req[r].todo # <<>> /\ Head(req[r].todo) = "handle"
  BY DEF ChainInv, At
<1>2. \A s \in {"Authenticate", "RateLimit", "Enforce"} : ~Due(req[r].todo, s)
  BY <1>1, HeadFirst DEF Chained, Rank
<1> QED
  BY <1>1, <1>2 DEF Chained

\* Once served, a request keeps what it was let through with (router.go:54-104).
LEMMA ServedStep ==
    ASSUME ChainInv, ServedInv, NEW r \in Requests, Step(r) PROVE ServedInv'
<1> DEFINE Kept(c) == /\ c.todo = <<>>
                      /\ c.route \in Guarded =>
                           c.actor = TRUE /\ c.counted = TRUE /\ c.decision = "allow"
<1>1. \A q \in Requests \ {r} : req'[q] = req[q]
  BY Elsewhere
<1>2. served' \subseteq served \cup {r}
  BY DEF Step, Accept, Redirect, RequestID, Acquire, Authenticate, RateLimit, Idempotency, Enforce,
         RulePanic, Handle, HandlerPanic, NotFound, RequestLog, Flush
<1>3. ASSUME r \in served PROVE Kept(req'[r])
  <2>1. Kept(req[r]) /\ Chained(r, req[r]) /\ req[r].phase # "unsent"
    BY <1>3 DEF ServedInv, ChainInv, Chained
  <2>2. \A s : ~At(r, s)
    BY <2>1 DEF At
  <2>3. ~Silent(r) /\ \A d \in {"allow", "deny"} : ~Decide(r, d)
    BY <2>1, <2>2 DEF Silent, Decide, Accept, Redirect, RequestID, Acquire, Authenticate, RateLimit,
                      Idempotency, NotFound, Handle, HandlerPanic
  <2>4. CASE UNCHANGED req
    BY <2>1, <2>4
  <2>5. CASE RequestLog(r) \/ Flush(r)
    <3>1. PICK p \in Sent : req' = [req EXCEPT ![r].phase = p]
      BY <2>5 DEF RequestLog, Flush, Sent
    <3>2. /\ req'[r].route = req[r].route /\ req'[r].actor = req[r].actor
          /\ req'[r].counted = req[r].counted /\ req'[r].decision = req[r].decision
          /\ req'[r].todo = <<>>
      BY <2>1, <3>1, PhaseMoves
    <3> QED
      BY <2>1, <3>2
  <2> QED
    BY <2>3, <2>4, <2>5, StepKinds
<1>4. ASSUME r \notin served, r \in served' PROVE Kept(req'[r])
  <2>1. \/ Handle(r) /\ Respond(r, req[r], 200, NoId)
        \/ HandlerPanic(r)
    BY <1>4 DEF Step, Accept, Redirect, RequestID, Acquire, Authenticate, RateLimit, Idempotency, Enforce,
                RulePanic, Handle, HandlerPanic, NotFound, RequestLog, Flush
  <2>2. At(r, "handle") /\ "handle" \in Stages \ {"RequestID"}
    BY <2>1 DEF Handle, HandlerPanic, Stages
  <2>3. req[r].route \in Guarded =>
          req[r].actor = TRUE /\ req[r].counted = TRUE /\ req[r].decision = "allow"
    BY <2>2, AtHandler
  <2>4. CASE Respond(r, req[r], 200, NoId)
    <3>1. Answerable(req[r], req[r], 200, NoId)
      BY <2>2 DEF Answerable, ChainInv, Chained, At, Statuses, Ids
    <3>2. Answered(req[r], req'[r])
      BY <2>2, <2>4, <3>1, RespondMoves, Zenon
    <3> QED
      BY <2>3, <3>2 DEF Answered
  <2>5. CASE HandlerPanic(r)
    <3>1. Recover(r)
      BY <2>5 DEF HandlerPanic
    <3>2. /\ req'[r].actor = req[r].actor /\ req'[r].counted = req[r].counted
          /\ req'[r].route = req[r].route /\ req'[r].todo = <<>>
          /\ Moved(r, req[r], req'[r])
      BY <2>2, <3>1, RecoverMoves
    <3> QED
      BY <2>3, <3>2 DEF Moved
  <2> QED
    BY <2>1, <2>4, <2>5
<1> QED
  BY <1>1, <1>2, <1>3, <1>4 DEF ServedInv

\* The lines of r are told apart by whose they are and by their kind.
LEMMA LineParts ==
    ASSUME NEW r \in Requests, NEW c, Chained(r, c)
    PROVE  /\ AuditLine(r, c) \in Lines
           /\ AuditLine(r, c).of = r /\ AuditLine(r, c).kind = "audit"
           /\ c.todo = <<>> => RequestLine(r, c) \in Lines
           /\ RequestLine(r, c).of = r /\ RequestLine(r, c).kind = "request"
<1>1. c.rid \in Ids /\ c.decision \in Verdicts /\ (c.todo = <<>> => c.resp.status \in Statuses)
  BY DEF Chained, Contexts
<1> QED
  BY <1>1 DEF AuditLine, RequestLine, Lines

\* The log holds exactly what the contexts say it does (audit.go:44-62,
\* logging.go:16-40).
LEMMA LogStep ==
    ASSUME ChainInv, LogInv, NEW r \in Requests, Step(r) PROVE LogInv'
<1>1. \A q \in Requests \ {r} : req'[q] = req[q]
  BY Elsewhere
<1>2. Logging' = Logging
  BY StepKinds DEF Logging
<1>3. ChainInv'
  BY ChainStep
<1>4. Chained(r, req[r]) /\ Chained(r, req'[r])
  BY <1>3 DEF ChainInv
<1> DEFINE c == req[r]
           d == req'[r]
           AuditsOK == AuditLines(r, d, Logging) = LinesOf(r, "audit")'
           RequestsOK == RequestLines(r, d, Logging) = LinesOf(r, "request")'
<1>5. /\ LinesOf(r, "audit") = AuditLines(r, c, Logging)
      /\ LinesOf(r, "request") = RequestLines(r, c, Logging)
  BY DEF LogInv
<1>6. ASSUME stdout' = stdout,
             AuditLines(r, d, Logging) = AuditLines(r, c, Logging),
             RequestLines(r, d, Logging) = RequestLines(r, c, Logging)
      PROVE  LogInv'
  <2>1. ASSUME NEW q \in Requests
        PROVE  /\ LinesOf(q, "audit")' = AuditLines(q, req'[q], Logging')
               /\ LinesOf(q, "request")' = RequestLines(q, req'[q], Logging')
    <3>1. LinesOf(q, "audit")' = LinesOf(q, "audit") /\ LinesOf(q, "request")' = LinesOf(q, "request")
      BY <1>6 DEF LinesOf
    <3>2. CASE q = r
      BY <1>2, <1>5, <1>6, <3>1, <3>2
    <3>3. CASE q # r
      BY <1>1, <1>2, <3>1, <3>3 DEF LogInv
    <3> QED
      BY <3>2, <3>3
  <2>2. \A line \in stdout' : line \in Lines
    BY <1>6 DEF LogInv
  <2> QED
    BY <2>1, <2>2 DEF LogInv
<1>7. ASSUME NEW line \in Lines, line.of = r, Info(line), AuditsOK, RequestsOK PROVE LogInv'
  <2>1. ASSUME NEW q \in Requests
        PROVE  /\ LinesOf(q, "audit")' = AuditLines(q, req'[q], Logging')
               /\ LinesOf(q, "request")' = RequestLines(q, req'[q], Logging')
    <3>1. CASE q = r
      BY <1>2, <1>7, <3>1
    <3>2. CASE q # r
      <4>1. LinesOf(q, "audit")' = LinesOf(q, "audit") /\ LinesOf(q, "request")' = LinesOf(q, "request")
        BY <1>7, <3>2 DEF LinesOf, Info
      <4> QED
        BY <1>1, <1>2, <3>2, <4>1 DEF LogInv
    <3> QED
      BY <3>1, <3>2
  <2>2. \A l \in stdout' : l \in Lines
    BY <1>7 DEF LogInv, Info
  <2> QED
    BY <2>1, <2>2 DEF LogInv
<1>8. CASE Silent(r) /\ UNCHANGED stdout
  <2>1. Moved(r, c, d)
    BY <1>8, SilentMoves
  <2>2. AuditLines(r, d, Logging) = AuditLines(r, c, Logging)
    BY <2>1 DEF Moved, AuditLines, AuditLine
  <2>3. RequestLines(r, d, Logging) = RequestLines(r, c, Logging)
    BY <2>1 DEF Moved, RequestLines, Sent
  <2> QED
    BY <1>6, <1>8, <2>2, <2>3
<1>9. CASE UNCHANGED <<req, stdout>>
  BY <1>6, <1>9
<1>10. ASSUME NEW v \in {"allow", "deny"}, Decide(r, v) PROVE LogInv'
  <2> DEFINE line == AuditLine(r, d)
  <2>1. /\ c.decision = "none" /\ d.decision = v /\ d.rid = c.rid
        /\ c.phase = "running" /\ d.phase = "running"
    <3>1. Ruled(v, c, d)
      BY <1>10, EnforceMoves, Zenon DEF Decide
    <3> QED
      BY <3>1 DEF Ruled
  <2>2. Info(line)
    BY <1>10, <2>1 DEF Decide, AuditLine
  <2>3. line \in Lines /\ line.of = r /\ line.kind = "audit"
    BY <1>4, LineParts
  <2>4. AuditLines(r, c, Logging) = {} /\ AuditLines(r, d, Logging) = IF Logging THEN {line} ELSE {}
    BY <2>1 DEF AuditLines
  <2> HIDE DEF line
  <2>5. AuditsOK
    BY <1>5, <2>2, <2>3, <2>4 DEF LinesOf, Info, Logging
  <2>6. RequestLines(r, c, Logging) = {} /\ RequestLines(r, d, Logging) = {}
    BY <2>1 DEF RequestLines, Sent
  <2>7. RequestsOK
    BY <1>5, <2>2, <2>3, <2>6 DEF LinesOf, Info
  <2> QED
    BY <1>7, <2>2, <2>3, <2>5, <2>7
<1>11. CASE RequestLog(r)
  <2> DEFINE line == RequestLine(r, d)
  <2>1. c.phase = "running" /\ c.todo = <<>> /\ req' = [req EXCEPT ![r].phase = "writing"]
    BY <1>11 DEF RequestLog
  <2>2. /\ d.decision = c.decision /\ d.rid = c.rid /\ d.resp = c.resp
        /\ d.phase = "writing" /\ d.todo = <<>> /\ d.route = c.route
    BY <2>1, PhaseMoves DEF Sent
  <2>3. Info(line)
    BY <1>11, <2>2 DEF RequestLog, RequestLine
  <2>4. line \in Lines /\ line.of = r /\ line.kind = "request"
    BY <1>4, <2>2, LineParts
  <2>5. d.resp # NoBody500 /\ d.route # "redirect"
    BY <1>4, <2>1, <2>2 DEF Chained, Sent
  <2>6. /\ RequestLines(r, c, Logging) = {}
        /\ RequestLines(r, d, Logging) = IF Logging THEN {line} ELSE {}
    BY <2>1, <2>2, <2>5 DEF RequestLines, Sent
  <2> HIDE DEF line
  <2>7. RequestsOK
    BY <1>5, <2>3, <2>4, <2>6 DEF LinesOf, Info, Logging
  <2>8. AuditLines(r, d, Logging) = AuditLines(r, c, Logging)
    BY <2>2 DEF AuditLines, AuditLine
  <2>9. AuditsOK
    BY <1>5, <2>3, <2>4, <2>8 DEF LinesOf, Info
  <2> QED
    BY <1>7, <2>3, <2>4, <2>7, <2>9
<1>12. CASE Flush(r)
  <2>1. PICK p \in {"answered", "cut"} : req' = [req EXCEPT ![r].phase = p]
    BY <1>12 DEF Flush
  <2>2. c.phase = "writing" /\ c.todo = <<>> /\ p \in Sent
    BY <1>4, <1>12 DEF Flush, Chained, Sent
  <2>3. /\ d.decision = c.decision /\ d.rid = c.rid /\ d.resp = c.resp /\ d.phase \in Sent
        /\ d.route = c.route
    BY <2>1, <2>2, PhaseMoves
  <2>4. AuditLines(r, d, Logging) = AuditLines(r, c, Logging)
    BY <2>3 DEF AuditLines, AuditLine
  <2>5. RequestLines(r, d, Logging) = RequestLines(r, c, Logging)
    BY <2>3, <2>2 DEF RequestLines, RequestLine, Sent
  <2> QED
    BY <1>6, <1>12, <2>4, <2>5 DEF Flush
<1> QED
  BY <1>8, <1>9, <1>10, <1>11, <1>12, StepKinds

-----------------------------------------------------------------------------
(* run() and its environment                                               *)

\* Only Acquire takes a connection, and only from an open pool.
LEMMA ConnStep ==
    ASSUME ChainInv, NEW r \in Requests, Step(r), req'[r].conn
    PROVE  req[r].conn \/ pool = "open"
<1> DEFINE c == req[r]
<1>1. c \in Contexts /\ DOMAIN req = Requests
  BY DEF ChainInv, Chained
<1>2. ASSUME NEW e \in Contexts, Pass(r, e) PROVE req'[r].conn = e.conn
  BY <1>1, <1>2 DEF Pass, Contexts
<1>3. ASSUME NEW e \in Contexts, NEW status, NEW id, Respond(r, e, status, id) PROVE req'[r].conn = FALSE
  BY <1>1, <1>3 DEF Respond, Contexts
<1>4. CASE Accept(r)
  BY <1>1, <1>4 DEF Accept, Fresh
<1>5. CASE Redirect(r)
  <2>1. PICK status \in RedirectStatuses : req'[r] = Redirected(status)
    BY <1>1, <1>5 DEF Redirect
  <2>2. Redirected(status).conn = FALSE
    BY RedirectChained
  <2> QED
    BY <2>1, <2>2
<1>6. CASE RequestID(r)
  <2> DEFINE e == [c EXCEPT !.rid = IF Header[r] # NoId THEN Header[r] ELSE r]
  <2>1. Pass(r, e)
    BY <1>6 DEF RequestID
  <2>2. e \in Contexts /\ e.conn = c.conn
    BY <1>1, OwnIds DEF Contexts, OwnId
  <2> QED
    BY <1>2, <2>1, <2>2
<1>7. CASE Acquire(r)
  BY <1>7 DEF Acquire
<1>8. CASE Authenticate(r)
  <2> DEFINE e == [c EXCEPT !.actor = TRUE, !.conn = FALSE]
  <2>1. Pass(r, e) \/ Respond(r, c, 401, c.rid)
    BY <1>8 DEF Authenticate, Abort
  <2>2. e \in Contexts /\ e.conn = FALSE
    BY <1>1 DEF Contexts
  <2> QED
    BY <1>1, <1>2, <1>3, <2>1, <2>2
<1>9. CASE RateLimit(r)
  <2> DEFINE e == [c EXCEPT !.counted = TRUE]
  <2>1. Pass(r, e) \/ Respond(r, c, 429, c.rid) \/ Respond(r, c, 401, c.rid)
    BY <1>9 DEF RateLimit, Abort
  <2>2. e \in Contexts /\ e.conn = c.conn
    BY <1>1 DEF Contexts
  <2> QED
    BY <1>1, <1>2, <1>3, <2>1, <2>2
<1>10. CASE Idempotency(r)
  BY <1>1, <1>2, <1>3, <1>10 DEF Idempotency, Abort
<1>11. CASE Enforce(r)
  <2>1. ASSUME NEW d \in {"allow", "deny"} PROVE Expose(c, d) \in Contexts /\ Expose(c, d).conn = c.conn
    BY <1>1 DEF Expose, Contexts, Verdicts
  <2> QED
    BY <1>1, <1>2, <1>3, <1>11, <2>1 DEF Enforce, Abort
<1>12. CASE RulePanic(r) \/ HandlerPanic(r)
  <2> DEFINE e == [c EXCEPT !.phase = "writing"]
  <2>1. UNCHANGED req \/ Respond(r, e, 500, NoId)
    BY <1>12 DEF RulePanic, HandlerPanic, Recover
  <2>2. e \in Contexts
    BY <1>1 DEF Contexts
  <2> QED
    BY <1>3, <2>1, <2>2
<1>13. CASE Handle(r) \/ NotFound(r)
  BY <1>1, <1>3, <1>13 DEF Handle, NotFound, Abort
<1>14. CASE RequestLog(r) \/ Flush(r)
  BY <1>1, <1>14 DEF RequestLog, Flush, Contexts
<1> QED
  BY <1>4, <1>6, <1>7, <1>8, <1>9, <1>10, <1>11, <1>12, <1>13, <1>14, <1>5 DEF Step

\* With the listener closed and nothing under way, no request makes a step.
LEMMA NothingUnderWay ==
    ASSUME NEW r \in Requests, InFlight = {}, server # "listening" PROVE ~Step(r)
<1>1. req[r].phase \notin {"running", "writing"}
  BY DEF InFlight
<1> QED
  BY <1>1 DEF Step, At, Accept, Redirect, RequestID, Acquire, Authenticate, RateLimit, Idempotency, Enforce,
              RulePanic, Handle, HandlerPanic, NotFound, RequestLog, Flush

\* A request's steps leave run() where it is.
LEMMA RunInvStep ==
    ASSUME ChainInv, RunInv, NEW r \in Requests, Step(r) PROVE RunInv'
<1>1. UNCHANGED <<main, result, redis, pool, server, serverErr>>
  BY StepKinds
<1>2. exit = "running" /\ exit' \in {exit, "crashed"}
  BY DEF Step, Accept, Redirect, RequestID, Acquire, Authenticate, RateLimit, Idempotency, Enforce,
         RulePanic, Handle, HandlerPanic, NotFound, RequestLog, Flush
<1>3. ASSUME pool \in {"none", "closed"} PROVE Held' = {}
  <2>1. \A q \in Requests : ~req[q].conn
    BY <1>3 DEF RunInv, Held
  <2>2. ~req'[r].conn
    BY <1>3, <2>1, ConnStep
  <2>3. \A q \in Requests : ~req'[q].conn
    BY <2>1, <2>2, Elsewhere
  <2> QED
    BY <2>3 DEF Held
<1>4. ~(main \in Returning /\ result = "nil")
  <2>1. ASSUME main \in Returning, result = "nil" PROVE FALSE
    <3>1. InFlight = {} /\ server # "listening"
      BY <2>1 DEF RunInv, Returning
    <3> QED
      BY <3>1, NothingUnderWay
  <2> QED
    BY <2>1
<1> QED
  BY <1>1, <1>2, <1>3, <1>4 DEF RunInv

\* run() itself: the deferred calls close what was opened, in reverse order, and
\* nil is returned only with no request under way (main.go:34-120).
LEMMA RunStep ==
    ASSUME TypeOK, RunInv, Run PROVE RunInv'
<1> USE DEF RunInv, Before, Returning
<1>1. exit = "running" /\ UNCHANGED <<req, served, stdout, logLevel>>
  BY DEF Run, requestVars
<1>2. Held' = Held /\ InFlight' = InFlight
  BY <1>1 DEF Held, InFlight
<1>3. CASE Load
  BY <1>1, <1>2, <1>3 DEF Load, Return, Goto, channels
<1>4. CASE NewRedis
  BY <1>1, <1>2, <1>4 DEF NewRedis, Goto, channels
<1>5. CASE NewPostgres
  BY <1>1, <1>2, <1>5 DEF NewPostgres, Return, Goto, channels
<1>6. CASE StartServer
  BY <1>1, <1>2, <1>6 DEF StartServer, Goto
<1>7. CASE SelectError
  BY <1>1, <1>2, <1>7 DEF SelectError, Return
<1>8. CASE SelectSignal
  BY <1>1, <1>2, <1>8 DEF SelectSignal, Return, Goto
<1>9. CASE Shutdown
  BY <1>1, <1>2, <1>9 DEF Shutdown, TimedOut, Return, channels
<1>10. CASE ClosePool
  BY <1>1, <1>2, <1>10 DEF ClosePool, channels
<1>11. CASE CloseRedis
  BY <1>1, <1>2, <1>11 DEF CloseRedis, Goto, channels
<1>12. CASE Exit
  BY <1>1, <1>2, <1>12 DEF Exit, runVars, channels
<1> QED
  BY <1>3, <1>4, <1>5, <1>6, <1>7, <1>8, <1>9, <1>10, <1>11, <1>12 DEF Run

\* Signals and the listener.
LEMMA EnvironmentStep ==
    ASSUME TypeOK, RunInv, Environment PROVE RunInv'
<1> USE DEF RunInv, Before, Returning
<1>1. exit = "running" /\ UNCHANGED <<req, main, result, redis, pool>>
  BY DEF Environment, requestVars, runVars
<1>2. Held' = Held /\ InFlight' = InFlight
  BY <1>1 DEF Held, InFlight
<1>3. CASE Signal
  BY <1>1, <1>2, <1>3 DEF Signal
<1>4. CASE ListenAndServe
  BY <1>1, <1>2, <1>4 DEF ListenAndServe, TypeOK
<1>5. CASE AcceptFails
  BY <1>1, <1>2, <1>5 DEF AcceptFails
<1> QED
  BY <1>3, <1>4, <1>5 DEF Environment

-----------------------------------------------------------------------------
(* The theorems                                                            *)

\* The variables of run() keep their types.
RunType ==
    /\ main \in {"load", "redis", "postgres", "start", "select", "shutdown",
                 "closePool", "closeRedis", "return"}
    /\ result \in {"nil", "config", "postgres", "listen", "shutdown"}
    /\ exit \in {"running", "ok", "failed", "killed", "crashed"}
    /\ logLevel \in LogLevels
    /\ redis \in {"none", "open", "closed"}
    /\ pool \in {"none", "open", "closing", "closed"}
    /\ server \in {"none", "starting", "listening", "closed"}
    /\ serverErr \in BOOLEAN
    /\ quit \in BOOLEAN

GatewayInv == RunType /\ RunInv /\ ChainInv /\ ServedInv /\ LogInv

\* The inductive invariant has the type invariant in it.
LEMMA GatewayTypes == GatewayInv => TypeOK
BY DEF GatewayInv, RunType, ChainInv, Chained, ServedInv, LogInv, TypeOK

\* Type correctness of the variables of run().
LEMMA RunTypeStep == RunType /\ [Next]_vars => RunType'
<1> SUFFICES ASSUME RunType, [Next]_vars PROVE RunType'
  OBVIOUS
<1> USE DEF RunType
<1>1. CASE Run
  BY <1>1 DEF Run, Load, NewRedis, NewPostgres, StartServer, SelectError, SelectSignal, Shutdown,
              TimedOut, ClosePool, CloseRedis, Exit, Return, Goto, runVars, channels, requestVars
<1>2. CASE Environment
  BY <1>2 DEF Environment, Signal, ListenAndServe, AcceptFails, runVars, requestVars
<1>3. ASSUME NEW r \in Requests, Step(r) PROVE RunType'
  <2>1. UNCHANGED <<main, result, redis, pool, server, serverErr, quit, logLevel>>
    BY <1>3, StepKinds
  <2>2. exit' \in {exit, "crashed"}
    BY <1>3 DEF Step, Accept, Redirect, RequestID, Acquire, Authenticate, RateLimit, Idempotency, Enforce,
                RulePanic, Handle, HandlerPanic, NotFound, RequestLog, Flush
  <2> QED
    BY <2>1, <2>2
<1>4. CASE Ended \/ UNCHANGED vars
  BY <1>4 DEF Ended, vars, runVars, channels, requestVars
<1> QED
  BY <1>1, <1>2, <1>3, <1>4 DEF Next

\* It holds at the start and in every reachable state.
LEMMA GatewayAlways == Spec => []GatewayInv
<1>1. Init => GatewayInv
  <2> SUFFICES ASSUME Init PROVE GatewayInv
    OBVIOUS
  <2> USE DEF Init
  <2>1. RunType
    BY DEF RunType
  <2>2. \A r \in Requests : Chained(r, req[r]) /\ ~req[r].conn /\ req[r].phase = "unsent"
    <3> SUFFICES ASSUME NEW r \in Requests
                 PROVE  Chained(r, req[r]) /\ ~req[r].conn /\ req[r].phase = "unsent"
      OBVIOUS
    <3>1. req[r] = [Fresh("unknown") EXCEPT !.phase = "unsent"]
      OBVIOUS
    <3>2. ~req[r].conn /\ req[r].phase = "unsent"
      BY <3>1 DEF Fresh
    <3>3. "unknown" \in Mounted
      BY DEF AllRoutes, Mounted
    <3> QED
      BY <3>1, <3>2, <3>3, FreshChained
  <2>3. ChainInv
    BY <2>2 DEF ChainInv
  <2>4. Held = {} /\ InFlight = {}
    BY <2>2 DEF Held, InFlight
  <2>5. RunInv
    BY <2>4 DEF RunInv, Before, Returning
  <2>6. ServedInv
    BY DEF ServedInv
  <2>7. LogInv
    <3>1. ASSUME NEW r \in Requests
          PROVE  /\ LinesOf(r, "audit") = AuditLines(r, req[r], Logging)
                 /\ LinesOf(r, "request") = RequestLines(r, req[r], Logging)
      <4>1. req[r].decision = "none" /\ req[r].phase = "unsent"
        BY <2>2 DEF Chained
      <4> QED
        BY <4>1 DEF LinesOf, AuditLines, RequestLines, Sent
    <3> QED
      BY <3>1 DEF LogInv
  <2> QED
    BY <2>1, <2>3, <2>5, <2>6, <2>7 DEF GatewayInv
<1>2. GatewayInv /\ [Next]_vars => GatewayInv'
  <2> SUFFICES ASSUME GatewayInv, [Next]_vars PROVE GatewayInv'
    OBVIOUS
  <2>1. TypeOK /\ RunInv /\ ChainInv /\ ServedInv /\ LogInv
    BY GatewayTypes DEF GatewayInv
  <2>2. RunType'
    BY RunTypeStep DEF GatewayInv
  <2>3. ASSUME UNCHANGED <<req, served, stdout, logLevel>>
        PROVE  ChainInv' /\ ServedInv' /\ LogInv'
    BY <2>1, <2>3 DEF ChainInv, ServedInv, LogInv, LinesOf, Logging
  <2>4. CASE Run
    BY <2>1, <2>2, <2>3, <2>4, RunStep DEF GatewayInv, Run, requestVars
  <2>5. CASE Environment
    BY <2>1, <2>2, <2>3, <2>5, EnvironmentStep DEF GatewayInv, Environment, requestVars
  <2>6. ASSUME NEW r \in Requests, Step(r) PROVE GatewayInv'
    BY <2>1, <2>2, <2>6, RunInvStep, ChainStep, ServedStep, LogStep DEF GatewayInv
  <2>7. CASE Ended \/ UNCHANGED vars
    <3>1. UNCHANGED <<main, result, redis, pool, server, serverErr, exit, req, served, stdout, logLevel>>
      BY <2>7 DEF Ended, vars, runVars, channels, requestVars
    <3>2. RunInv'
      BY <2>1, <3>1 DEF RunInv, Held, InFlight
    <3> QED
      BY <2>2, <2>3, <3>1, <3>2 DEF GatewayInv
  <2> QED
    BY <2>4, <2>5, <2>6, <2>7 DEF Next
<1> QED
  BY <1>1, <1>2, PTL DEF Spec

\* The state of the process and of its requests keeps its types; in particular no
\* chain runs dry without an answer (main.go:34-120, router.go:54-104).
THEOREM GatewayTypeCorrect == Spec => []TypeOK
<1> QED
  BY GatewayAlways, GatewayTypes, PTL

\* A process that ends without an error has worked on every request it accepted to
\* the end, answered it unless the WriteTimeout had passed, and logged it once
\* unless it panicked or was redirected (main.go:79-117, logging.go:16-40).
THEOREM AlwaysCleanExit == Spec => []CleanExit
<1>1. GatewayInv => CleanExit
  <2> SUFFICES ASSUME GatewayInv, exit = "ok", NEW r \in Requests
               PROVE  /\ req[r].phase \in {"unsent", "answered", "cut"}
                      /\ /\ req[r].phase # "unsent" /\ req[r].route # "redirect"
                         /\ Logging /\ ~Recovered(r)
                         => Cardinality(LinesOf(r, "request")) = 1
    BY DEF CleanExit
  <2>1. InFlight = {}
    BY DEF GatewayInv, RunInv, Returning
  <2>2. req[r].phase \in {"unsent", "answered", "cut"}
    BY <2>1 DEF GatewayInv, ChainInv, Chained, Contexts, InFlight
  <2>3. ASSUME req[r].phase # "unsent", req[r].route # "redirect", Logging, ~Recovered(r)
        PROVE  Cardinality(LinesOf(r, "request")) = 1
    <3>1. LinesOf(r, "request") = {RequestLine(r, req[r])}
      BY <2>2, <2>3 DEF GatewayInv, LogInv, RequestLines, Recovered, NoBody500, Sent
    <3> QED
      BY <3>1, FS_Singleton
  <2> QED
    BY <2>2, <2>3
<1> QED
  BY <1>1, GatewayAlways, PTL

\* However run() returns, it has closed what it opened, the pool before Redis
\* (main.go:46, 58, 99-117).
THEOREM AlwaysReleasedAtExit == Spec => []ReleasedAtExit
<1>1. GatewayInv => ReleasedAtExit
  <2> SUFFICES ASSUME GatewayInv PROVE ReleasedAtExit
    OBVIOUS
  <2>1. RunType /\ RunInv
    BY DEF GatewayInv
  <2>2. redis = "closed" => main = "return"
    BY <2>1 DEF RunType, RunInv
  <2> QED
    BY <2>1, <2>2 DEF RunInv, ReleasedAtExit
<1> QED
  BY <1>1, GatewayAlways, PTL

\* What happened behind the gateway had an identity, a place in the rate limit and
\* a recorded decision to allow it (router.go:54-104).
THEOREM AlwaysGuardedEffect == Spec => []GuardedEffect
<1>1. GatewayInv => GuardedEffect
  <2> SUFFICES ASSUME GatewayInv, NEW r \in served, req[r].route \in {"order", "stub", "keys"}
               PROVE  /\ req[r].actor
                      /\ req[r].counted
                      /\ Logging => \E line \in LinesOf(r, "audit") : line.decision = "allow"
    BY DEF GuardedEffect
  <2>1. r \in Requests /\ req[r].actor = TRUE /\ req[r].counted = TRUE /\ req[r].decision = "allow"
    BY DEF GatewayInv, ServedInv, Guarded
  <2>2. ASSUME Logging PROVE \E line \in LinesOf(r, "audit") : line.decision = "allow"
    <3>1. LinesOf(r, "audit") = {AuditLine(r, req[r])}
      BY <2>1, <2>2 DEF GatewayInv, LogInv, AuditLines
    <3>2. AuditLine(r, req[r]).decision = "allow"
      BY <2>1 DEF AuditLine
    <3> QED
      BY <3>1, <3>2
  <2> QED
    BY <2>1, <2>2
<1> QED
  BY <1>1, GatewayAlways, PTL

\* The audit record, the access-log line and the answer of a request tell one
\* story (requestid.go:22-37, logging.go:16-40, errors.go:41-53).
THEOREM AlwaysTracesAgree == Spec => []TracesAgree
<1>1. GatewayInv => TracesAgree
  <2> SUFFICES ASSUME GatewayInv, NEW r \in Requests
               PROVE  /\ \A line \in LinesOf(r, "request") :
                           /\ line.id = (IF Header[r] # NoId THEN Header[r] ELSE r)
                           /\ line.status = req[r].resp.status
                           /\ {a.decision : a \in LinesOf(r, "audit")} =
                                (IF line.decision = "none" \/ ~Logging THEN {} ELSE {line.decision})
                           /\ req[r].resp.id \in {line.id, NoId}
                                \/ (req[r].route = "order" /\ line.decision = "none")
                      /\ \A a \in LinesOf(r, "audit") : a.id = req[r].rid
    BY DEF TracesAgree
  <2> DEFINE c == req[r]
  <2>1. Chained(r, c)
    BY DEF GatewayInv, ChainInv
  <2>2. /\ LinesOf(r, "audit") = AuditLines(r, c, Logging)
        /\ LinesOf(r, "request") = RequestLines(r, c, Logging)
    BY DEF GatewayInv, LogInv
  <2>3. AuditLine(r, c).id = c.rid /\ AuditLine(r, c).decision = c.decision
    BY DEF AuditLine
  <2>4. \A a \in LinesOf(r, "audit") : a.id = c.rid
    BY <2>2, <2>3 DEF AuditLines
  <2>5. {a.decision : a \in LinesOf(r, "audit")} =
          (IF c.decision = "none" \/ ~Logging THEN {} ELSE {c.decision})
    BY <2>2, <2>3 DEF AuditLines
  <2>6. ASSUME NEW line \in LinesOf(r, "request")
        PROVE  /\ line.id = (IF Header[r] # NoId THEN Header[r] ELSE r)
               /\ line.status = c.resp.status
               /\ line.decision = c.decision
               /\ c.resp.id \in {line.id, NoId} \/ (c.route = "order" /\ line.decision = "none")
    <3>1. line = RequestLine(r, c) /\ c.phase \in Sent /\ c.route # "redirect"
      BY <2>2 DEF RequestLines, Sent
    <3>2. line.id = c.rid /\ line.status = c.resp.status /\ line.decision = c.decision
      BY <3>1 DEF RequestLine
    <3>3. c.todo = <<>>
      BY <2>1, <3>1 DEF Chained, Sent
    <3>4. c.rid = OwnId(r)
      BY <2>1, <3>1, <3>3 DEF Chained, Due
    <3> QED
      BY <2>1, <3>2, <3>4 DEF Chained, OwnId
  <2> QED
    BY <2>4, <2>5, <2>6
<1> QED
  BY <1>1, GatewayAlways, PTL
=============================================================================
