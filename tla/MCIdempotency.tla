--------------------------- MODULE MCIdempotency ---------------------------
(* Constants for model checking Idempotency.                               *)
EXTENDS Idempotency, TLC

\* Tenant "a:idem:/v1/orders" with key "k" and tenant "a" with key
\* "idem:/v1/orders:k" have the same Redis key.
MCTenants == {<<"a">>, <<"b">>, <<"a", ":", "idem", ":", "/v1/orders">>}
MCKeys == {<<"k">>, <<"idem", ":", "/v1/orders", ":", "k">>}

Symmetry == Permutations(Requests)
=============================================================================
