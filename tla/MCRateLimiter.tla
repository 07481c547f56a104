--------------------------- MODULE MCRateLimiter ---------------------------
(* Constants for model checking RateLimiter.                               *)
EXTENDS RateLimiter, TLC

CONSTANTS i1, i2, getInventory, putInventory, getOrder, inventory, orderId

\* i2's clock is one tick ahead of i1's.
MCOffset == [i \in Instances |-> IF i = i2 THEN Skew ELSE 0]

\* GET and PUT /v1/inventory share a path template, GET /v1/orders/:id does not.
MCPath == [e \in Endpoints |-> IF e = getOrder THEN orderId ELSE inventory]

Symmetry == Permutations(ErrorProne) \cup Permutations(Requests \ ErrorProne)
=============================================================================
