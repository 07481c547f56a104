--------------------------- MODULE DefaultPolicy ---------------------------
(***************************************************************************)
(* The engine running the default rules, as cmd/server/main.go wires it:   *)
(* Rules, Match and SameTenant of PolicyEngine are DefaultRuleSeq,         *)
(* DefaultMatch and InTenant.                                              *)
(***************************************************************************)
EXTENDS PolicyEngine, DefaultRules

\* Every input up to renaming: regions and suppliers are only compared, so the
\* actor's own ones have fixed names.
Everything ==
    {in \in AllInputs : in.region \in {Unset, "east"} /\ in.supplier \in {Unset, "s1"}}

\* The wiring: the engine is asked about inputs of this kind and holds these rules.
ASSUME Wiring ==
    /\ Inputs \subseteq AllInputs
    /\ Rules = DefaultRuleSeq
    /\ \A i \in 1..Len(Rules), in \in Inputs :
         Match(Rules[i].id, in) <=> DefaultMatch(Rules[i].id, in)
    /\ \A in \in Inputs : SameTenant(in) <=> InTenant(in)

\* A request decided by the rules, without its evaluation being cut short.
Decided(r) == pc[r] \in {"handler", "forbidden"} /\ r \notin ctxDone

\* The rules implement the permission table of README.md:126-131, to which
\* rules.go:94-104 adds that warehouse managers read and create orders: nothing
\* more is allowed and nothing less, for every combination of role, attributes,
\* action and resource.  README.md:38 says in prose that "a warehouse manager cannot
\* see another region's inventory"; the table (line 129, "read cross-region") and
\* rules.go:72-82 say that they do, and this property sides with them.
ReadmePermissions ==
    \A r \in Requests :
        LET in == input[r]
            wmOrders == /\ in.role = "warehouse_manager"
                        /\ in.type = "order"
                        /\ in.action \in {"read", "create"}
        IN  Decided(r) =>
              (pc[r] = "handler" <=> InTenant(in) /\ (ReadmeTable(in) \/ wmOrders))
=============================================================================
