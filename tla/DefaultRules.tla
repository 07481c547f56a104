---------------------------- MODULE DefaultRules ----------------------------
(***************************************************************************)
(* The static rule set (internal/policy/rules.go) and the inputs it is     *)
(* asked about (policy/middleware.go:41-56, gateway/stub.go:47-60).        *)
(* OwnRegionUnchecked is a wrong version of OwnRegion; no rule uses it.    *)
(***************************************************************************)
EXTENDS Integers, Sequences

CONSTANTS
    Regions,       \* regions and suppliers that actors and resources name
    Suppliers,
    Values         \* ValueUSD of a resource

Roles == {"admin", "supplier", "warehouse_manager", "analyst"}
Actions == {"create", "read", "update", "delete", "cancel"}
Types == {"order", "inventory", "shipment", "api_key"}
Unset == ""

HighValueThresholdUSD == 50000

\* The actor's claims, the route's action and resource type, and the attributes
\* the query names.  Tenants are told apart from the actor's point of view.
AllInputs ==
    [role : Roles, region : Regions \cup {Unset}, supplier : Suppliers \cup {Unset},
     action : Actions, type : Types,
     tenant : {Unset, "own", "other"}, resRegion : Regions \cup {Unset},
     owner : Suppliers \cup {Unset}, value : Values]

\* Enforce: a resource without a tenant is the actor's.
ResourceTenant(in) == IF in.tenant = Unset THEN "own" ELSE in.tenant

\* Evaluate's tenant comparison.
InTenant(in) == ResourceTenant(in) = "own"

OwnSupplier(in) == in.owner # Unset /\ in.owner = in.supplier
OwnRegionUnchecked(in) == in.resRegion = in.region
OwnRegion(in) == in.resRegion # Unset /\ in.resRegion = in.region

DefaultRuleSeq == <<
    [id |-> "deny_high_value_order_mutation_non_admin", effect |-> "deny"],
    [id |-> "allow_admin_within_tenant", effect |-> "allow"],
    [id |-> "allow_analyst_read", effect |-> "allow"],
    [id |-> "allow_wm_read_inventory", effect |-> "allow"],
    [id |-> "allow_wm_write_own_region_inventory", effect |-> "allow"],
    [id |-> "allow_wm_orders", effect |-> "allow"],
    [id |-> "allow_supplier_own_shipments", effect |-> "allow"],
    [id |-> "allow_supplier_read_own_inventory", effect |-> "allow"] >>

\* The Match function of each rule.
DefaultMatch(id, in) ==
    CASE id = "deny_high_value_order_mutation_non_admin" ->
            /\ in.type = "order"
            /\ in.action \in {"update", "cancel"}
            /\ in.value >= HighValueThresholdUSD
            /\ in.role # "admin"
      [] id = "allow_admin_within_tenant" -> in.role = "admin"
      [] id = "allow_analyst_read" -> in.role = "analyst" /\ in.action = "read"
      [] id = "allow_wm_read_inventory" ->
            /\ in.role = "warehouse_manager"
            /\ in.type = "inventory"
            /\ in.action = "read"
      [] id = "allow_wm_write_own_region_inventory" ->
            /\ in.role = "warehouse_manager"
            /\ in.type = "inventory"
            /\ in.action \in {"create", "update"}
            /\ OwnRegion(in)
      [] id = "allow_wm_orders" ->
            /\ in.role = "warehouse_manager"
            /\ in.type = "order"
            /\ in.action \in {"read", "create"}
      [] id = "allow_supplier_own_shipments" ->
            /\ in.role = "supplier"
            /\ in.type = "shipment"
            /\ OwnSupplier(in)
      [] id = "allow_supplier_read_own_inventory" ->
            /\ in.role = "supplier"
            /\ in.type = "inventory"
            /\ in.action = "read"
            /\ OwnSupplier(in)

-----------------------------------------------------------------------------
(* Reference: who may do what                                              *)

\* The permission table of README.md:126-131, role by role, with create and
\* update as the writes of inventory.
ReadmeTable(in) ==
    CASE in.role = "admin" -> TRUE
      [] in.role = "analyst" -> in.action = "read"
      [] in.role = "supplier" ->
            /\ in.supplier # Unset /\ in.supplier = in.owner
            /\ in.type = "shipment" \/ (in.type = "inventory" /\ in.action = "read")
      [] in.role = "warehouse_manager" ->
            /\ in.type = "inventory"
            /\ \/ in.action = "read"
               \/ /\ in.action \in {"create", "update"}
                  /\ in.region # Unset /\ in.region = in.resRegion
=============================================================================
