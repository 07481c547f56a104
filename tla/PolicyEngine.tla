---------------------------- MODULE PolicyEngine ----------------------------
(***************************************************************************)
(* The policy engine and its middleware, for any rule set: Evaluate races  *)
(* a goroutine that applies the rules against the evaluation timeout and   *)
(* the request's context; Enforce audits the decision and only then lets   *)
(* the handler run or answers 403.                                         *)
(* (internal/policy/engine.go, internal/policy/middleware.go)              *)
(*                                                                         *)
(* A definition whose name ends in a fault (EvalTimeoutOpen, ...) stands   *)
(* just before the one it is a wrong version of; no step uses it.          *)
(***************************************************************************)
EXTENDS Integers, Sequences

CONSTANTS
    Requests,
    Inputs,        \* what Enforce hands to Evaluate: actor, action, resource
    Rules,         \* sequence of [id, effect]
    Match(_, _),   \* does a rule match an input
    SameTenant(_)  \* is an input's resource the actor's tenant's

ASSUME RulesAssumption ==
    /\ Rules \in Seq([id : STRING, effect : {"allow", "deny"}])
    /\ \A i \in 1..Len(Rules), in \in Inputs : Match(Rules[i].id, in) \in BOOLEAN
    /\ \A in \in Inputs : SameTenant(in) \in BOOLEAN

\* "Reserved rule identifiers for the engine's built-in decisions": no rule of the
\* set carries one.
Reserved == {"cross_tenant_deny", "eval_timeout", "default_deny"}
ASSUME ReservedAssumption == \A i \in 1..Len(Rules) : Rules[i].id \notin Reserved

Decisions == [allow : BOOLEAN, rule : Reserved \cup {Rules[i].id : i \in 1..Len(Rules)}]
NoDecision == [rule |-> ""]

Matching(in, effect) ==
    {i \in 1..Len(Rules) : Rules[i].effect = effect /\ Match(Rules[i].id, in)}

\* The first matching rule of an effect, in the order of the slice.
First(in, effect) ==
    CHOOSE i \in Matching(in, effect) : \A j \in Matching(in, effect) : i <= j

\* Denies first, then allows, then deny by default.
evaluateRules(in) ==
    IF Matching(in, "deny") # {}
    THEN [allow |-> FALSE, rule |-> Rules[First(in, "deny")].id]
    ELSE IF Matching(in, "allow") # {}
    THEN [allow |-> TRUE, rule |-> Rules[First(in, "allow")].id]
    ELSE [allow |-> FALSE, rule |-> "default_deny"]

\* The engine's built-in decisions.
CrossTenantDenyUnset == [rule |-> "cross_tenant_deny"]
CrossTenantDeny == [allow |-> FALSE, rule |-> "cross_tenant_deny"]
EvalTimeoutOpen == [allow |-> TRUE, rule |-> "eval_timeout"]
EvalTimeout == [allow |-> FALSE, rule |-> "eval_timeout"]

VARIABLES
    timed,    \* the engine's evalTimeout is positive
    input,    \* per request: what is being asked
    pc,       \* per request: where Enforce is
    worker,   \* per request: the goroutine that applies the rules
    resultCh, \* per request: the channel between them, with room for one
    ctxDone,  \* requests whose evaluation context has ended
    decision, \* per request: what Evaluate returned
    audit     \* per request: the audit record

vars == <<timed, input, pc, worker, resultCh, ctxDone, decision, audit>>

TypeOK ==
    /\ timed \in BOOLEAN
    /\ input \in [Requests -> Inputs]
    /\ pc \in [Requests -> {"start", "select", "audit", "respond", "handler",
                            "forbidden"}]
    /\ worker \in [Requests -> {"none", "matching", "sending", "gone"}]
    /\ resultCh \in [Requests -> Decisions \cup {NoDecision}]
    /\ ctxDone \in SUBSET Requests
    /\ decision \in [Requests -> Decisions \cup {NoDecision}]
    /\ audit \in [Requests -> Decisions \cup {NoDecision}]

Init ==
    /\ timed \in BOOLEAN
    /\ input \in [Requests -> Inputs]
    /\ pc = [r \in Requests |-> "start"]
    /\ worker = [r \in Requests |-> "none"]
    /\ resultCh = [r \in Requests |-> NoDecision]
    /\ ctxDone = {}
    /\ decision = [r \in Requests |-> NoDecision]
    /\ audit = [r \in Requests |-> NoDecision]

DecideUnaudited(r, d) ==
    /\ decision' = [decision EXCEPT ![r] = d]
    /\ pc' = [pc EXCEPT ![r] = IF d.allow THEN "audit" ELSE "respond"]

\* Evaluate returns, and Enforce goes on to the audit record.
Decide(r, d) ==
    /\ decision' = [decision EXCEPT ![r] = d]
    /\ pc' = [pc EXCEPT ![r] = "audit"]

\* Evaluate up to the select: the tenant check, the untimed evaluation, or the
\* goroutine.
Evaluate(r) ==
    /\ pc[r] = "start"
    /\ \/ /\ ~SameTenant(input[r])
          /\ Decide(r, CrossTenantDeny)
          /\ UNCHANGED worker
       \/ /\ SameTenant(input[r]) /\ ~timed
          /\ Decide(r, evaluateRules(input[r]))
          /\ UNCHANGED worker
       \/ /\ SameTenant(input[r]) /\ timed
          /\ worker' = [worker EXCEPT ![r] = "matching"]
          /\ pc' = [pc EXCEPT ![r] = "select"]
          /\ UNCHANGED decision
    /\ UNCHANGED <<timed, input, resultCh, ctxDone, audit>>

\* The goroutine has applied the rules.
WorkerMatch(r) ==
    /\ worker[r] = "matching"
    /\ worker' = [worker EXCEPT ![r] = "sending"]
    /\ UNCHANGED <<timed, input, pc, resultCh, ctxDone, decision, audit>>

WorkerSendUnbuffered(r) ==
    /\ worker[r] = "sending"
    /\ pc[r] = "select"
    /\ resultCh' = [resultCh EXCEPT ![r] = evaluateRules(input[r])]
    /\ worker' = [worker EXCEPT ![r] = "gone"]
    /\ UNCHANGED <<timed, input, pc, ctxDone, decision, audit>>

\* resultCh <- ...: the buffer takes it, whether or not anyone still listens.
WorkerSend(r) ==
    /\ worker[r] = "sending"
    /\ resultCh[r] = NoDecision
    /\ resultCh' = [resultCh EXCEPT ![r] = evaluateRules(input[r])]
    /\ worker' = [worker EXCEPT ![r] = "gone"]
    /\ UNCHANGED <<timed, input, pc, ctxDone, decision, audit>>

\* The timeout expires or the client goes away.
EndContext(r) ==
    /\ pc[r] = "select"
    /\ r \notin ctxDone
    /\ ctxDone' = ctxDone \cup {r}
    /\ UNCHANGED <<timed, input, pc, worker, resultCh, decision, audit>>

\* The two cases of the select; with both ready, either is taken.
Receive(r) ==
    /\ pc[r] = "select"
    /\ resultCh[r] # NoDecision
    /\ Decide(r, resultCh[r])
    /\ resultCh' = [resultCh EXCEPT ![r] = NoDecision]
    /\ UNCHANGED <<timed, input, worker, ctxDone, audit>>

ExpireEarly(r) ==
    /\ pc[r] = "select"
    /\ Decide(r, EvalTimeout)
    /\ UNCHANGED <<timed, input, worker, resultCh, ctxDone, audit>>

ExpireBetweenRules(r) ==
    /\ pc[r] = "select"
    /\ r \in ctxDone
    /\ worker[r] # "matching"
    /\ Decide(r, EvalTimeout)
    /\ UNCHANGED <<timed, input, worker, resultCh, ctxDone, audit>>

Expire(r) ==
    /\ pc[r] = "select"
    /\ r \in ctxDone
    /\ Decide(r, EvalTimeout)
    /\ UNCHANGED <<timed, input, worker, resultCh, ctxDone, audit>>

\* Enforce writes the audit record ...
Audit(r) ==
    /\ pc[r] = "audit"
    /\ audit' = [audit EXCEPT ![r] = decision[r]]
    /\ pc' = [pc EXCEPT ![r] = "respond"]
    /\ UNCHANGED <<timed, input, worker, resultCh, ctxDone, decision>>

\* ... and then answers 403 or calls c.Next().
Respond(r) ==
    /\ pc[r] = "respond"
    /\ pc' = [pc EXCEPT ![r] = IF decision[r].allow THEN "handler" ELSE "forbidden"]
    /\ UNCHANGED <<timed, input, worker, resultCh, ctxDone, decision, audit>>

\* Enforce is through with every request, and no goroutine is left.
Quiescent ==
    /\ \A r \in Requests : /\ pc[r] \in {"handler", "forbidden"}
                           /\ worker[r] \in {"none", "gone"}
    /\ UNCHANGED vars

Next ==
    \/ \E r \in Requests : \/ Evaluate(r) \/ WorkerMatch(r) \/ WorkerSend(r)
                           \/ EndContext(r) \/ Receive(r) \/ Expire(r)
                           \/ Audit(r) \/ Respond(r)
    \/ Quiescent

\* The request's goroutine and the timer run.  Nothing is assumed of how long
\* the rules take; a goroutine that has its result goes on to send it.
Fairness ==
    \A r \in Requests :
        /\ WF_vars(Evaluate(r) \/ Receive(r) \/ Expire(r) \/ Audit(r) \/ Respond(r))
        /\ WF_vars(EndContext(r))
        /\ WF_vars(WorkerSend(r))

Spec == Init /\ [][Next]_vars
FairSpec == Spec /\ Fairness

-----------------------------------------------------------------------------
(* Properties                                                              *)

\* The engine's three invariants (engine.go:4-11), through the race: the handler
\* is reached only for a resource of the actor's tenant that some allow rule and
\* no deny rule matches, whichever side of the select wins and in whatever order
\* the rules are listed.
FailsClosed ==
    \A r \in Requests :
        pc[r] = "handler" =>
            /\ SameTenant(input[r])
            /\ \E i \in 1..Len(Rules) : Rules[i].effect = "allow" /\ Match(Rules[i].id, input[r])
            /\ \A i \in 1..Len(Rules) : Match(Rules[i].id, input[r]) => Rules[i].effect # "deny"

\* No spurious 403: a request the rules allow is refused only if the guard is on
\* and its evaluation context ended; a timeout of zero switches the guard off and
\* is no context that ends at once (engine.go:96-115).
RefusalExplained ==
    \A r \in Requests :
        pc[r] = "forbidden" /\ ~(timed /\ r \in ctxDone) =>
            ~(SameTenant(input[r]) /\ evaluateRules(input[r]).allow)

\* "Every decision is audited before responding" (middleware.go:58-82): when the
\* handler runs or 403 is written the record is there, says the same, and names
\* a rule that explains it.
AuditedBeforeEffect ==
    \A r \in Requests :
        pc[r] \in {"handler", "forbidden"} =>
            /\ audit[r] # NoDecision
            /\ audit[r].allow = (pc[r] = "handler")
            /\ audit[r].rule = "eval_timeout" => r \in ctxDone
            /\ audit[r].rule = "cross_tenant_deny" => ~SameTenant(input[r])

\* "A pathological rule cannot hang the request path" (engine.go:93-95): with a
\* timeout, Enforce gets through even if the rules never return.
BoundedEvaluation ==
    \A r \in Requests : pc[r] = "select" ~> pc[r] \in {"handler", "forbidden"}

\* No goroutine leaks: a result that nobody waits for any more is sent into the
\* buffer and the goroutine ends (engine.go:103-104).
NoGoroutineLeak ==
    \A r \in Requests : worker[r] = "sending" ~> worker[r] = "gone"
=============================================================================
