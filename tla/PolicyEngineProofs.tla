------------------------- MODULE PolicyEngineProofs -------------------------
(***************************************************************************)
(* Proofs about PolicyEngine, for every number of requests, every rule set *)
(* and every input.                                                        *)
(***************************************************************************)
EXTENDS PolicyEngine, WellFoundedInduction, TLAPS

-----------------------------------------------------------------------------
(* What the rules decide                                                   *)

\* A set of positions that is not empty has a first one.
LEMMA FirstPosition ==
    ASSUME NEW S \in SUBSET Nat, S # {}
    PROVE  \E x \in S : \A y \in S : x <= y
<1>1. PICK x \in S : \A y \in S : ~(<<y, x>> \in OpToRel(<, Nat))
  BY NatLessThanWellFounded, WFMin
<1>2. ASSUME NEW y \in S PROVE x <= y
  <2>1. ~(y < x)
    BY <1>1 DEF OpToRel
  <2> QED
    BY <2>1
<1> QED
  BY <1>2

\* The rule that is named is one of the matching ones (engine.go:118-131).
LEMMA FirstMatches ==
    ASSUME NEW in, NEW effect, Matching(in, effect) # {}
    PROVE  First(in, effect) \in Matching(in, effect)
<1>1. Matching(in, effect) \in SUBSET Nat
  BY DEF Matching
<1>2. \E x \in Matching(in, effect) : \A y \in Matching(in, effect) : x <= y
  BY <1>1, FirstPosition
<1> QED
  BY <1>2 DEF First

\* A decision is told apart from none.
LEMMA DecisionSet == NoDecision \notin Decisions
<1>1. \A d \in Decisions : "allow" \in DOMAIN d
  BY DEF Decisions
<1>2. DOMAIN NoDecision = {"rule"}
  BY DEF NoDecision
<1>3. "allow" \notin {"rule"}
  OBVIOUS
<1> QED
  BY <1>1, <1>2, <1>3

\* A record of a verdict and a known name is a decision, with these parts.
LEMMA DecisionParts ==
    ASSUME NEW a \in BOOLEAN,
           NEW id \in Reserved \cup {Rules[i].id : i \in 1..Len(Rules)}
    PROVE  /\ [allow |-> a, rule |-> id] \in Decisions
           /\ [allow |-> a, rule |-> id].allow = a
           /\ [allow |-> a, rule |-> id].rule = id
BY DEF Decisions

\* evaluateRules always decides: it allows exactly what an allow rule and no deny
\* rule matches, and names a rule of the set or the default.
LEMMA RulesDecide ==
    ASSUME NEW in
    PROVE  /\ evaluateRules(in) \in Decisions
           /\ evaluateRules(in).allow <=>
                 Matching(in, "allow") # {} /\ Matching(in, "deny") = {}
           /\ evaluateRules(in).rule \notin {"cross_tenant_deny", "eval_timeout"}
<1> DEFINE Names == Reserved \cup {Rules[i].id : i \in 1..Len(Rules)}
<1>1. ASSUME NEW effect, Matching(in, effect) # {}
      PROVE  /\ Rules[First(in, effect)].id \in Names
             /\ Rules[First(in, effect)].id \notin {"cross_tenant_deny", "eval_timeout"}
  <2>1. First(in, effect) \in 1..Len(Rules)
    BY <1>1, FirstMatches DEF Matching
  <2>2. Rules[First(in, effect)].id \notin Reserved
    BY <2>1, ReservedAssumption
  <2> QED
    BY <2>1, <2>2, Zenon DEF Reserved
<1>2. /\ "default_deny" \in Names
      /\ "default_deny" \notin {"cross_tenant_deny", "eval_timeout"}
  BY DEF Reserved
<1> HIDE DEF Names
<1>3. ASSUME NEW a \in BOOLEAN, NEW id \in Names
      PROVE  /\ [allow |-> a, rule |-> id] \in Decisions
             /\ [allow |-> a, rule |-> id].allow = a
             /\ [allow |-> a, rule |-> id].rule = id
  BY DecisionParts DEF Names
<1>4. CASE Matching(in, "deny") # {}
  <2> DEFINE id == Rules[First(in, "deny")].id
  <2>1. evaluateRules(in) = [allow |-> FALSE, rule |-> id]
    BY <1>4, Zenon DEF evaluateRules
  <2>2. id \in Names /\ id \notin {"cross_tenant_deny", "eval_timeout"}
    BY <1>1, <1>4
  <2> HIDE DEF id
  <2> QED
    BY <1>3, <1>4, <2>1, <2>2
<1>5. CASE Matching(in, "deny") = {} /\ Matching(in, "allow") # {}
  <2> DEFINE id == Rules[First(in, "allow")].id
  <2>1. evaluateRules(in) = [allow |-> TRUE, rule |-> id]
    BY <1>5, Zenon DEF evaluateRules
  <2>2. id \in Names /\ id \notin {"cross_tenant_deny", "eval_timeout"}
    BY <1>1, <1>5
  <2> HIDE DEF id
  <2> QED
    BY <1>3, <1>5, <2>1, <2>2
<1>6. CASE Matching(in, "deny") = {} /\ Matching(in, "allow") = {}
  <2>1. evaluateRules(in) = [allow |-> FALSE, rule |-> "default_deny"]
    BY <1>6, Zenon DEF evaluateRules
  <2> QED
    BY <1>2, <1>3, <1>6, <2>1
<1> QED
  BY <1>4, <1>5, <1>6, Zenon

\* The engine's own decisions deny, and say why.
LEMMA OwnDecisions ==
    /\ CrossTenantDeny \in Decisions
    /\ ~CrossTenantDeny.allow
    /\ CrossTenantDeny.rule = "cross_tenant_deny"
    /\ EvalTimeout \in Decisions
    /\ ~EvalTimeout.allow
    /\ EvalTimeout.rule = "eval_timeout"
<1>1. CrossTenantDeny \in Decisions /\ EvalTimeout \in Decisions
  BY DEF CrossTenantDeny, EvalTimeout, Decisions, Reserved
<1>2. ~CrossTenantDeny.allow /\ ~EvalTimeout.allow
  BY DEF CrossTenantDeny, EvalTimeout
<1>3. CrossTenantDeny.rule = "cross_tenant_deny" /\ EvalTimeout.rule = "eval_timeout"
  BY DEF CrossTenantDeny, EvalTimeout
<1> QED
  BY <1>1, <1>2, <1>3

-----------------------------------------------------------------------------
(* The engine's steps                                                      *)

\* Type correctness of every step of Evaluate and Enforce (engine.go:81-116,
\* middleware.go:31-85).
LEMMA EngineTypeStep == TypeOK /\ [Next]_vars => TypeOK'
<1> SUFFICES ASSUME TypeOK, [Next]_vars PROVE TypeOK'
  OBVIOUS
<1> USE DEF TypeOK
<1>0. ASSUME NEW r \in Requests, NEW d \in Decisions, Decide(r, d)
      PROVE  /\ decision' \in [Requests -> Decisions \cup {NoDecision}]
             /\ pc' \in [Requests -> {"start", "select", "audit", "respond", "handler",
                                      "forbidden"}]
  BY <1>0 DEF Decide
<1>1. ASSUME NEW r \in Requests, Evaluate(r) PROVE TypeOK'
  <2>1. CASE Decide(r, CrossTenantDeny) /\ UNCHANGED worker
    BY <1>0, <1>1, <2>1, OwnDecisions DEF Evaluate
  <2>2. CASE Decide(r, evaluateRules(input[r])) /\ UNCHANGED worker
    BY <1>0, <1>1, <2>2, RulesDecide DEF Evaluate
  <2>3. CASE /\ worker' = [worker EXCEPT ![r] = "matching"]
             /\ pc' = [pc EXCEPT ![r] = "select"]
             /\ UNCHANGED decision
    BY <1>1, <2>3 DEF Evaluate
  <2> QED
    BY <1>1, <2>1, <2>2, <2>3 DEF Evaluate
<1>2. ASSUME NEW r \in Requests, WorkerMatch(r) PROVE TypeOK'
  BY <1>2 DEF WorkerMatch
<1>3. ASSUME NEW r \in Requests, WorkerSend(r) PROVE TypeOK'
  BY <1>3, RulesDecide DEF WorkerSend
<1>4. ASSUME NEW r \in Requests, EndContext(r) PROVE TypeOK'
  BY <1>4 DEF EndContext
<1>5. ASSUME NEW r \in Requests, Receive(r) PROVE TypeOK'
  <2>1. resultCh[r] \in Decisions
    BY <1>5 DEF Receive
  <2> QED
    BY <1>0, <1>5, <2>1 DEF Receive
<1>6. ASSUME NEW r \in Requests, Expire(r) PROVE TypeOK'
  BY <1>0, <1>6, OwnDecisions DEF Expire
<1>7. ASSUME NEW r \in Requests, Audit(r) PROVE TypeOK'
  BY <1>7 DEF Audit
<1>8. ASSUME NEW r \in Requests, Respond(r) PROVE TypeOK'
  BY <1>8 DEF Respond
<1>9. CASE Quiescent \/ UNCHANGED vars
  BY <1>9 DEF Quiescent, vars
<1> QED
  BY <1>1, <1>2, <1>3, <1>4, <1>5, <1>6, <1>7, <1>8, <1>9 DEF Next

\* The engine's state keeps its type, whatever rules are configured.
THEOREM EngineTypeCorrect == Spec => []TypeOK
<1>1. Init => TypeOK
  BY DEF Init, TypeOK
<1> QED
  BY <1>1, EngineTypeStep, PTL DEF Spec

\* Where a decision can come from: another tenant's resource, a context that
\* ended with the guard on, or the rules.
Founded(r, d) ==
    \/ d = CrossTenantDeny /\ ~SameTenant(input[r])
    \/ d = EvalTimeout /\ r \in ctxDone /\ timed
    \/ d = evaluateRules(input[r]) /\ SameTenant(input[r])

\* What the race may rely on: only a request of the actor's own tenant waits, and
\* only with the guard on, its channel holds what the rules say, a decision that was taken has a foundation,
\* and what follows it acts on the recorded one.
EvalInv ==
    \A r \in Requests :
        /\ pc[r] = "start" => worker[r] = "none"
        /\ worker[r] # "none" => SameTenant(input[r])
        /\ pc[r] = "select" => SameTenant(input[r]) /\ timed
        /\ resultCh[r] # NoDecision => resultCh[r] = evaluateRules(input[r])
        /\ pc[r] \in {"audit", "respond", "handler", "forbidden"} =>
               decision[r] \in Decisions /\ Founded(r, decision[r])
        /\ pc[r] \in {"respond", "handler", "forbidden"} => audit[r] = decision[r]
        /\ pc[r] = "handler" => decision[r].allow
        /\ pc[r] = "forbidden" => ~decision[r].allow

\* Whichever side of the select wins, the decision is founded; Enforce neither
\* changes it nor acts before it is recorded.
LEMMA EvalStep == TypeOK /\ EvalInv /\ [Next]_vars => EvalInv'
<1> SUFFICES ASSUME TypeOK, EvalInv, [Next]_vars PROVE EvalInv'
  OBVIOUS
<1> USE DEF TypeOK, EvalInv, Founded
<1>1. ASSUME NEW r \in Requests, Evaluate(r) PROVE EvalInv'
  <2>0. UNCHANGED <<timed, input, resultCh, ctxDone, audit>> /\ pc[r] = "start"
    BY <1>1 DEF Evaluate
  <2>1. CASE ~SameTenant(input[r]) /\ Decide(r, CrossTenantDeny) /\ UNCHANGED worker
    BY <2>0, <2>1, OwnDecisions DEF Decide
  <2>2. CASE SameTenant(input[r]) /\ Decide(r, evaluateRules(input[r])) /\ UNCHANGED worker
    BY <2>0, <2>2, RulesDecide DEF Decide
  <2>3. CASE /\ SameTenant(input[r]) /\ timed
             /\ worker' = [worker EXCEPT ![r] = "matching"]
             /\ pc' = [pc EXCEPT ![r] = "select"]
             /\ UNCHANGED decision
    BY <2>0, <2>3
  <2> QED
    BY <1>1, <2>1, <2>2, <2>3 DEF Evaluate
<1>2. ASSUME NEW r \in Requests, WorkerMatch(r) PROVE EvalInv'
  BY <1>2 DEF WorkerMatch
<1>3. ASSUME NEW r \in Requests, WorkerSend(r) PROVE EvalInv'
  BY <1>3 DEF WorkerSend
<1>4. ASSUME NEW r \in Requests, EndContext(r) PROVE EvalInv'
  BY <1>4 DEF EndContext
<1>5. ASSUME NEW r \in Requests, Receive(r) PROVE EvalInv'
  BY <1>5, RulesDecide DEF Receive, Decide
<1>6. ASSUME NEW r \in Requests, Expire(r) PROVE EvalInv'
  BY <1>6, OwnDecisions DEF Expire, Decide
<1>7. ASSUME NEW r \in Requests, Audit(r) PROVE EvalInv'
  BY <1>7 DEF Audit
<1>8. ASSUME NEW r \in Requests, Respond(r) PROVE EvalInv'
  BY <1>8 DEF Respond
<1>9. CASE Quiescent \/ UNCHANGED vars
  BY <1>9 DEF Quiescent, vars
<1> QED
  BY <1>1, <1>2, <1>3, <1>4, <1>5, <1>6, <1>7, <1>8, <1>9 DEF Next

\* EvalInv holds throughout.
LEMMA EvalAlways == Spec => [](TypeOK /\ EvalInv)
<1>1. Init => TypeOK /\ EvalInv
  BY DEF Init, TypeOK, EvalInv
<1> QED
  BY <1>1, EngineTypeStep, EvalStep, PTL DEF Spec

\* The engine's three invariants (engine.go:4-11) for every rule set, in whatever
\* order its rules are listed, and whichever side of the select wins.
THEOREM AlwaysFailsClosed == Spec => []FailsClosed
<1>1. TypeOK /\ EvalInv => FailsClosed
  <2> SUFFICES ASSUME TypeOK, EvalInv, NEW r \in Requests, pc[r] = "handler"
               PROVE  /\ SameTenant(input[r])
                      /\ \E i \in 1..Len(Rules) :
                           Rules[i].effect = "allow" /\ Match(Rules[i].id, input[r])
                      /\ \A i \in 1..Len(Rules) :
                           Match(Rules[i].id, input[r]) => Rules[i].effect # "deny"
    BY DEF FailsClosed
  <2>1. SameTenant(input[r]) /\ evaluateRules(input[r]).allow
    BY OwnDecisions DEF EvalInv, Founded
  <2>2. Matching(input[r], "allow") # {} /\ Matching(input[r], "deny") = {}
    BY <2>1, RulesDecide
  <2> QED
    BY <2>1, <2>2 DEF Matching
<1> QED
  BY <1>1, EvalAlways, PTL

\* No spurious 403, with the guard on or off (engine.go:96-115), for every rule set.
THEOREM AlwaysRefusalExplained == Spec => []RefusalExplained
<1>1. TypeOK /\ EvalInv => RefusalExplained
  BY DEF EvalInv, Founded, RefusalExplained
<1> QED
  BY <1>1, EvalAlways, PTL

\* "Every decision is audited before responding" (middleware.go:58-82), for every
\* rule set that leaves the engine's own names alone.
THEOREM AlwaysAuditedBeforeEffect == Spec => []AuditedBeforeEffect
<1>1. TypeOK /\ EvalInv => AuditedBeforeEffect
  <2> SUFFICES ASSUME TypeOK, EvalInv, NEW r \in Requests, pc[r] \in {"handler", "forbidden"}
               PROVE  /\ audit[r] # NoDecision
                      /\ audit[r].allow = (pc[r] = "handler")
                      /\ audit[r].rule = "eval_timeout" => r \in ctxDone
                      /\ audit[r].rule = "cross_tenant_deny" => ~SameTenant(input[r])
    BY DEF AuditedBeforeEffect
  <2>1. /\ audit[r] = decision[r] /\ decision[r] \in Decisions
        /\ Founded(r, decision[r])
        /\ decision[r].allow <=> pc[r] = "handler"
    BY DEF EvalInv
  <2>2. audit[r] # NoDecision
    BY <2>1, DecisionSet
  <2>3. decision[r].allow \in BOOLEAN
    BY <2>1 DEF Decisions
  <2>4. audit[r].allow = (pc[r] = "handler")
    BY <2>1, <2>3
  <2>5. /\ audit[r].rule = "eval_timeout" => r \in ctxDone
        /\ audit[r].rule = "cross_tenant_deny" => ~SameTenant(input[r])
    BY <2>1, OwnDecisions, RulesDecide DEF Founded
  <2> QED
    BY <2>2, <2>4, <2>5
<1> QED
  BY <1>1, EvalAlways, PTL
=============================================================================
