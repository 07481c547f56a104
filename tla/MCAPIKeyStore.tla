--------------------------- MODULE MCAPIKeyStore ---------------------------
(* Constants for model checking APIKeyStore.                               *)
EXTENDS APIKeyStore, TLC

Symmetry == Permutations(Clients) \cup Permutations(Ids) \cup Permutations(Tenants)
=============================================================================
