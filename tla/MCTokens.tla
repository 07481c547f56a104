------------------------------ MODULE MCTokens ------------------------------
(***************************************************************************)
(* Tokens on two instances, one of them a tick ahead.                      *)
(***************************************************************************)
EXTENDS Tokens, TLC

CONSTANTS i1, i2, s1, s2

MCInstances == {i1, i2}
MCSecrets == {s1, s2}
MCBodies == {[tenant |-> "acme", user |-> "ann", role |-> "supplier", scope |-> "ontario"],
             [tenant |-> "acme", user |-> "", role |-> "admin", scope |-> "none"],
             [tenant |-> "acme", user |-> "ann", role |-> "unknown", scope |-> "none"],
             [tenant |-> "", user |-> "ann", role |-> "admin", scope |-> "none"]}
SecretSymmetry == Permutations(MCSecrets)
MCOffset == [i \in MCInstances |-> IF i = i1 THEN 0 ELSE 1]
=============================================================================
