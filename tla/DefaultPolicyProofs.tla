------------------------ MODULE DefaultPolicyProofs ------------------------
(***************************************************************************)
(* The default rules grant what the permission table says, for all inputs: *)
(* any regions, suppliers and values, not only the ones TLC enumerates.    *)
(***************************************************************************)
EXTENDS DefaultPolicy, PolicyEngineProofs

\* The rule set, position by position (rules.go:34-130).
LEMMA DefaultRuleTable ==
    /\ Len(Rules) = 8
    /\ Rules[1].effect = "deny"
    /\ \A i \in 2..8 : Rules[i].effect = "allow"
    /\ Rules[1].id = "deny_high_value_order_mutation_non_admin"
    /\ Rules[2].id = "allow_admin_within_tenant"
    /\ Rules[3].id = "allow_analyst_read"
    /\ Rules[4].id = "allow_wm_read_inventory"
    /\ Rules[5].id = "allow_wm_write_own_region_inventory"
    /\ Rules[6].id = "allow_wm_orders"
    /\ Rules[7].id = "allow_supplier_own_shipments"
    /\ Rules[8].id = "allow_supplier_read_own_inventory"
<1>1. Rules = DefaultRuleSeq
  BY Wiring, Zenon
<1> QED
  BY <1>1 DEF DefaultRuleSeq

\* What each rule matches (rules.go:41-128).
LEMMA DefaultMatches ==
    ASSUME NEW in
    PROVE  /\ DefaultMatch("deny_high_value_order_mutation_non_admin", in) <=>
                /\ in.type = "order" /\ in.action \in {"update", "cancel"}
                /\ in.value >= HighValueThresholdUSD /\ in.role # "admin"
           /\ DefaultMatch("allow_admin_within_tenant", in) <=> in.role = "admin"
           /\ DefaultMatch("allow_analyst_read", in) <=>
                in.role = "analyst" /\ in.action = "read"
           /\ DefaultMatch("allow_wm_read_inventory", in) <=>
                /\ in.role = "warehouse_manager" /\ in.type = "inventory"
                /\ in.action = "read"
           /\ DefaultMatch("allow_wm_write_own_region_inventory", in) <=>
                /\ in.role = "warehouse_manager" /\ in.type = "inventory"
                /\ in.action \in {"create", "update"} /\ OwnRegion(in)
           /\ DefaultMatch("allow_wm_orders", in) <=>
                /\ in.role = "warehouse_manager" /\ in.type = "order"
                /\ in.action \in {"read", "create"}
           /\ DefaultMatch("allow_supplier_own_shipments", in) <=>
                in.role = "supplier" /\ in.type = "shipment" /\ OwnSupplier(in)
           /\ DefaultMatch("allow_supplier_read_own_inventory", in) <=>
                /\ in.role = "supplier" /\ in.type = "inventory"
                /\ in.action = "read" /\ OwnSupplier(in)
BY DEF DefaultMatch

\* The rules allow what the table does, and orders to warehouse managers.
Granted(in) ==
    \/ ReadmeTable(in)
    \/ /\ in.role = "warehouse_manager"
       /\ in.type = "order"
       /\ in.action \in {"read", "create"}

\* The rules, applied with denies first, amount to the table.
LEMMA RulesAreTable ==
    ASSUME NEW in \in Inputs
    PROVE  evaluateRules(in).allow <=> Granted(in)
<1>1. \A i \in 1..8 : Match(Rules[i].id, in) <=> DefaultMatch(Rules[i].id, in)
  BY Wiring, DefaultRuleTable
<1>2. Matching(in, "deny") = {} <=> ~DefaultMatch(Rules[1].id, in)
  BY <1>1, DefaultRuleTable DEF Matching
<1>3. Matching(in, "allow") # {} <=> \E i \in 2..8 : DefaultMatch(Rules[i].id, in)
  BY <1>1, DefaultRuleTable DEF Matching
<1>4. (\E i \in 2..8 : DefaultMatch(Rules[i].id, in)) <=>
        \/ DefaultMatch(Rules[2].id, in) \/ DefaultMatch(Rules[3].id, in)
        \/ DefaultMatch(Rules[4].id, in) \/ DefaultMatch(Rules[5].id, in)
        \/ DefaultMatch(Rules[6].id, in) \/ DefaultMatch(Rules[7].id, in)
        \/ DefaultMatch(Rules[8].id, in)
  <2>1. 2..8 = {2, 3, 4, 5, 6, 7, 8}
    OBVIOUS
  <2> QED
    BY <2>1
<1>5. in.role \in Roles
  BY Wiring DEF AllInputs
<1>6. evaluateRules(in).allow <=>
        Matching(in, "allow") # {} /\ Matching(in, "deny") = {}
  BY RulesDecide
<1>7. ReadmeTable(in) <=>
        \/ in.role = "admin"
        \/ in.role = "analyst" /\ in.action = "read"
        \/ /\ in.role = "supplier" /\ OwnSupplier(in)
           /\ in.type = "shipment" \/ (in.type = "inventory" /\ in.action = "read")
        \/ /\ in.role = "warehouse_manager" /\ in.type = "inventory"
           /\ in.action = "read" \/ (in.action \in {"create", "update"} /\ OwnRegion(in))
  BY <1>5 DEF ReadmeTable, Roles, OwnSupplier, OwnRegion
<1> QED
  BY <1>2, <1>3, <1>4, <1>6, <1>7, DefaultRuleTable, DefaultMatches DEF Granted

\* The permission table of README.md:126-131, cross-region reads of managers against
\* README.md:38 included, with what rules.go:94-104 adds to it
\* is what the running engine grants: nothing more and nothing less, for every
\* actor and resource, unless the evaluation was cut short.
THEOREM AlwaysReadmePermissions == Spec => []ReadmePermissions
<1>1. TypeOK /\ EvalInv => ReadmePermissions
  <2> SUFFICES ASSUME TypeOK, EvalInv, NEW r \in Requests, Decided(r)
               PROVE  pc[r] = "handler" <=> InTenant(input[r]) /\ Granted(input[r])
    BY Zenon DEF ReadmePermissions, Granted
  <2>1. input[r] \in Inputs
    BY DEF TypeOK
  <2>2. SameTenant(input[r]) <=> InTenant(input[r])
    BY <2>1, Wiring
  <2>3. evaluateRules(input[r]).allow <=> Granted(input[r])
    BY <2>1, RulesAreTable
  <2>4. pc[r] = "handler" <=> SameTenant(input[r]) /\ evaluateRules(input[r]).allow
    BY OwnDecisions DEF EvalInv, Founded, Decided
  <2> QED
    BY <2>2, <2>3, <2>4
<1> QED
  BY <1>1, EvalAlways, PTL
=============================================================================
