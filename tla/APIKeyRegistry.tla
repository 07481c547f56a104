--------------------------- MODULE APIKeyRegistry ---------------------------
(***************************************************************************)
(* What the API key store promises (the APIKeyStore interface, apikey.go): *)
(* keys are minted, replaced by a key of the same scope, or withdrawn, and *)
(* each of these is one indivisible step.  APIKeyStore implements it with  *)
(* SQL statements and row locks.                                           *)
(***************************************************************************)
CONSTANTS
    Ids,    \* key ids; each key has one secret
    Attrs,  \* tenant, scope and expiry of a key
    None

VARIABLES
    live,   \* keys that may authenticate
    root,   \* the key each lineage of rotations started with
    attr,   \* what each key grants
    ended   \* lineages withdrawn by Revoke

regVars == <<live, root, attr, ended>>

RegInit ==
    /\ live = {}
    /\ root = [k \in Ids |-> None]
    /\ attr = [k \in Ids |-> None]
    /\ ended = {}

\* Create: a new key starts a lineage.
Mint(k, a) ==
    /\ root[k] = None
    /\ live' = live \cup {k}
    /\ root' = [root EXCEPT ![k] = k]
    /\ attr' = [attr EXCEPT ![k] = a]
    /\ UNCHANGED ended

\* Rotate: a new key takes the place of a live one, with what it granted.
Replace(k, new) ==
    /\ k \in live
    /\ root[new] = None
    /\ live' = (live \ {k}) \cup {new}
    /\ root' = [root EXCEPT ![new] = root[k]]
    /\ attr' = [attr EXCEPT ![new] = attr[k]]
    /\ UNCHANGED ended

\* Revoke: the lineage of a live key ends.
Withdraw(k) ==
    /\ k \in live
    /\ live' = live \ {k}
    /\ ended' = ended \cup {root[k]}
    /\ UNCHANGED <<root, attr>>

RegNext ==
    \/ \E k \in Ids, a \in Attrs : Mint(k, a)
    \/ \E k, new \in Ids : Replace(k, new)
    \/ \E k \in Ids : Withdraw(k)

RegSpec == RegInit /\ [][RegNext]_regVars

-----------------------------------------------------------------------------
(* Properties                                                              *)

\* Rotate's promise (apikey_postgres.go:124-125), "there is never a window with
\* zero or two live keys": a lineage has one live key until Revoke withdraws
\* it, and none from then on.
OneLiveKey ==
    \A k \in Ids :
        root[k] = k =>
            /\ k \in ended => \A j \in live : root[j] # k
            /\ k \notin ended => \E j \in live : \A i \in live : root[i] = k <=> i = j

\* Rotation carries the scope (apikey.go:82-83): every key of a lineage grants
\* what its first key did.
ScopeCarried ==
    \A k \in Ids : root[k] # None => attr[k] # None /\ attr[k] = attr[root[k]]

\* A key that stopped being live, and a withdrawn lineage, never come back
\* (apikey.go:85: "A revoked key never resolves again").
NeverRevived ==
    [][/\ \A k \in Ids : root[k] # None /\ k \notin live => k \notin live'
       /\ ended \subseteq ended'
       /\ \A k \in Ids : root[k] # None => root'[k] = root[k] /\ attr'[k] = attr[k]]_regVars
=============================================================================
