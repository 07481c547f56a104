----------------------------- MODULE MCGateway -----------------------------
(* Constants for model checking Gateway.                                   *)
EXTENDS Gateway

CONSTANTS r1, r2, c1

\* One request brings an id of its own, the other gets one.
MCHeader == [r \in Requests |-> IF r = r1 THEN c1 ELSE NoId]
=============================================================================
