---------------------------- MODULE APIKeyStore ----------------------------
(***************************************************************************)
(* PostgresAPIKeyStore (internal/auth/apikey_postgres.go), statement by    *)
(* statement, with concurrent callers on a READ COMMITTED database: a      *)
(* statement sees committed rows, an UPDATE or SELECT ... FOR UPDATE waits *)
(* for the row lock and then sees the latest committed version, and the    *)
(* writes of a transaction appear together at COMMIT.  Any statement may   *)
(* fail, and the answer to one that took effect may be lost.               *)
(*                                                                         *)
(* A definition whose name ends in a fault (RotateSelectUnlocked, ...)     *)
(* stands just before the one it is a wrong version of; no step uses it.   *)
(***************************************************************************)
EXTENDS Integers, FiniteSets

CONSTANTS
    Clients,    \* concurrent calls into the store
    Ids,        \* key ids; a key's secret and its hash are as unique as its id
    Tenants,
    Scopes,     \* role, region and supplier of a key
    Deadlines,  \* values of expires_at
    Never,      \* expires_at IS NULL
    None

Attrs == [tenant : Tenants, scope : Scopes, expires : Deadlines \cup {Never}]

ASSUME NoneAssumption == None \notin Ids \cup Attrs \cup Clients \cup Tenants
ASSUME NeverAssumption == Never \notin Deadlines

VARIABLES
    attr,     \* per id: tenant and scope columns, None when there is no row
    root,     \* per id: the key its chain of rotations began with
    revoked,  \* ids whose committed revoked_at is set
    ended,    \* chains a Revoke ended
    lock,     \* per id: the transaction that holds the row lock
    passed,   \* deadlines that have passed
    pc,       \* per client: the statement it is about to run
    call,     \* per client: the caller's tenant, the key named, the new key
    answer    \* per client: what the last call returned

vars == <<attr, root, revoked, ended, lock, passed, pc, call, answer>>

Calls == [tenant : Tenants \cup {None}, id : Ids \cup {None},
          new : Ids \cup {None}, dead : BOOLEAN]
NoCall == [tenant |-> None, id |-> None, new |-> None, dead |-> FALSE]
Answers == {"none", "ok", "not found", "revoked", "expired", "error"}

TypeOK ==
    /\ attr \in [Ids -> Attrs \cup {None}]
    /\ root \in [Ids -> Ids \cup {None}]
    /\ revoked \in SUBSET Ids
    /\ ended \in SUBSET Ids
    /\ lock \in [Ids -> Clients \cup {None}]
    /\ passed \in SUBSET Deadlines
    /\ pc \in [Clients -> {"idle", "resolve", "touch", "create", "select",
                           "update", "insert", "commit", "revoke"}]
    /\ call \in [Clients -> Calls]
    /\ answer \in [Clients -> Answers]

\* Ids whose committed row may still authenticate.
Live == {k \in Ids : attr[k] # None /\ k \notin revoked}

Init ==
    /\ attr = [k \in Ids |-> None]
    /\ root = [k \in Ids |-> None]
    /\ revoked = {}
    /\ ended = {}
    /\ lock = [k \in Ids |-> None]
    /\ passed = {}
    /\ pc = [c \in Clients |-> "idle"]
    /\ call = [c \in Clients |-> NoCall]
    /\ answer = [c \in Clients |-> "none"]

table == <<attr, root, revoked, ended>>

\* A call of the store begins.  Whether the named key is revoked at this moment
\* is remembered for the properties.
Begin(c, at, t, k) ==
    /\ pc[c] = "idle"
    /\ pc' = [pc EXCEPT ![c] = at]
    /\ call' = [call EXCEPT ![c] = [tenant |-> t, id |-> k, new |-> None,
                                    dead |-> k \in revoked]]
    /\ answer' = [answer EXCEPT ![c] = "none"]
    /\ UNCHANGED <<table, lock, passed>>

\* A call returns, and with it its transaction and row locks are gone.
Return(c, a) ==
    /\ pc' = [pc EXCEPT ![c] = "idle"]
    /\ call' = [call EXCEPT ![c] = NoCall]
    /\ answer' = [answer EXCEPT ![c] = a]
    /\ lock' = [k \in Ids |-> IF lock[k] = c THEN None ELSE lock[k]]

StatementErrorRestore(c) ==
    /\ pc[c] \notin {"idle", "touch"}
    /\ Return(c, "error")
    /\ revoked' = revoked \ {call[c].id}
    /\ UNCHANGED <<attr, root, ended, passed>>

StatementErrorRaw(c) ==
    /\ pc[c] \notin {"idle", "touch"}
    /\ Return(c, pc[c])
    /\ UNCHANGED <<table, passed>>

StatementErrorNoRollback(c) ==
    /\ pc[c] \notin {"idle", "touch"}
    /\ pc' = [pc EXCEPT ![c] = "idle"]
    /\ call' = [call EXCEPT ![c] = NoCall]
    /\ answer' = [answer EXCEPT ![c] = "error"]
    /\ UNCHANGED <<table, lock, passed>>

\* An error of any statement but a best-effort one; a transaction rolls back.
StatementError(c) ==
    /\ pc[c] \notin {"idle", "touch"}
    /\ Return(c, "error")
    /\ UNCHANGED <<table, passed>>

-----------------------------------------------------------------------------
(* Resolve                                                                 *)

\* SELECT ... WHERE key_hash, then the checks on the row, in their order.
ResolveSelect(c) ==
    LET k == call[c].id
    IN  /\ pc[c] = "resolve"
        /\ \/ /\ attr[k] = None
              /\ Return(c, "not found")
           \/ /\ k \in revoked
              /\ Return(c, "revoked")
           \/ /\ k \in Live
              /\ attr[k].expires \in passed
              /\ Return(c, "expired")
           \/ /\ k \in Live
              /\ attr[k].expires \notin passed
              /\ pc' = [pc EXCEPT ![c] = "touch"]
              /\ UNCHANGED <<lock, call, answer>>
        /\ UNCHANGED <<table, passed>>

\* UPDATE last_used_at: waits for the row lock, or fails and is ignored; the
\* identity is returned either way.
ResolveTouch(c) ==
    /\ pc[c] = "touch"
    /\ Return(c, "ok")
    /\ UNCHANGED <<table, passed>>

-----------------------------------------------------------------------------
(* Create                                                                  *)

\* A row's id and a key's secret are random: no row, and no uncommitted row of a
\* transaction, has them already.
Fresh(k) == attr[k] = None /\ \A d \in Clients : call[d].new # k

\* INSERT of a row with a fresh id and secret; the answer may get lost.
CreateInsert(c) ==
    /\ pc[c] = "create"
    /\ \E k \in Ids, s \in Scopes, e \in Deadlines \cup {Never}, a \in {"ok", "error"} :
         /\ Fresh(k)
         /\ attr' = [attr EXCEPT ![k] = [tenant |-> call[c].tenant, scope |-> s,
                                         expires |-> e]]
         /\ root' = [root EXCEPT ![k] = k]
         /\ Return(c, a)
    /\ UNCHANGED <<revoked, ended, passed>>

-----------------------------------------------------------------------------
(* Rotate                                                                  *)

\* id = $1 AND tenant_id = $2.
Owned(c, k) == attr[k] # None /\ attr[k].tenant = call[c].tenant

RotateSelectUnlocked(c) ==
    LET k == call[c].id
    IN  /\ pc[c] = "select"
        /\ Owned(c, k) /\ k \notin revoked
        /\ pc' = [pc EXCEPT ![c] = "update"]
        /\ UNCHANGED <<table, lock, passed, call, answer>>

\* SELECT ... WHERE id AND tenant_id FOR UPDATE, and the check on revoked_at.
RotateSelect(c) ==
    LET k == call[c].id
    IN  /\ pc[c] = "select"
        /\ \/ /\ ~Owned(c, k)
              /\ Return(c, "not found")
           \/ /\ Owned(c, k)
              /\ lock[k] = None
              /\ k \in revoked
              /\ Return(c, "revoked")
           \/ /\ Owned(c, k)
              /\ lock[k] = None
              /\ k \notin revoked
              /\ lock' = [lock EXCEPT ![k] = c]
              /\ pc' = [pc EXCEPT ![c] = "update"]
              /\ UNCHANGED <<call, answer>>
        /\ UNCHANGED <<table, passed>>

\* UPDATE revoked_at inside the transaction: not visible yet.  The row is ours
\* or nobody's.
RotateUpdate(c) ==
    /\ pc[c] = "update"
    /\ lock[call[c].id] \in {None, c}
    /\ lock' = [lock EXCEPT ![call[c].id] = c]
    /\ pc' = [pc EXCEPT ![c] = "insert"]
    /\ UNCHANGED <<table, passed, call, answer>>

\* generateAPIKey and INSERT inside the transaction: a fresh id is taken.
RotateInsert(c) ==
    /\ pc[c] = "insert"
    /\ \E k \in Ids :
         /\ Fresh(k)
         /\ call' = [call EXCEPT ![c].new = k]
    /\ pc' = [pc EXCEPT ![c] = "commit"]
    /\ UNCHANGED <<table, lock, passed, answer>>

RotateCommitUnexpiring(c) ==
    LET k == call[c].id
        new == call[c].new
    IN  /\ pc[c] = "commit"
        /\ attr' = [attr EXCEPT ![new] = [attr[k] EXCEPT !.expires = Never]]
        /\ root' = [root EXCEPT ![new] = root[k]]
        /\ revoked' = revoked \cup {k}
        /\ \E a \in {"ok", "error"} : Return(c, a)
        /\ UNCHANGED <<ended, passed>>

\* COMMIT: both rows change at once; the answer may get lost.
RotateCommit(c) ==
    LET k == call[c].id
        new == call[c].new
    IN  /\ pc[c] = "commit"
        /\ attr' = [attr EXCEPT ![new] = attr[k]]
        /\ root' = [root EXCEPT ![new] = root[k]]
        /\ revoked' = revoked \cup {k}
        /\ \E a \in {"ok", "error"} : Return(c, a)
        /\ UNCHANGED <<ended, passed>>

-----------------------------------------------------------------------------
(* Revoke                                                                  *)

RevokeUpdateAnyTenant(c) ==
    LET k == call[c].id
    IN  /\ pc[c] = "revoke"
        /\ k \in Live
        /\ lock[k] = None
        /\ revoked' = revoked \cup {k}
        /\ ended' = ended \cup {root[k]}
        /\ Return(c, "ok")
        /\ UNCHANGED <<attr, root, passed>>

RevokeUpdateUnlocked(c) ==
    LET k == call[c].id
    IN  /\ pc[c] = "revoke"
        /\ Owned(c, k) /\ k \notin revoked
        /\ revoked' = revoked \cup {k}
        /\ ended' = ended \cup {root[k]}
        /\ Return(c, "ok")
        /\ UNCHANGED <<attr, root, passed>>

\* UPDATE ... WHERE id AND tenant_id AND revoked_at IS NULL: waits for the row
\* lock and re-checks the row; no row affected is ErrKeyNotFound.
RevokeUpdate(c) ==
    LET k == call[c].id
    IN  /\ pc[c] = "revoke"
        /\ \/ /\ Owned(c, k) /\ k \notin revoked
              /\ lock[k] = None
              /\ revoked' = revoked \cup {k}
              /\ ended' = ended \cup {root[k]}
              /\ \E a \in {"ok", "error"} : Return(c, a)
           \/ /\ ~Owned(c, k) \/ k \in revoked
              /\ Return(c, "not found")
              /\ UNCHANGED <<revoked, ended>>
        /\ UNCHANGED <<attr, root, passed>>

-----------------------------------------------------------------------------

\* Time reaches a deadline.
Pass(d) ==
    /\ d \notin passed
    /\ passed' = passed \cup {d}
    /\ UNCHANGED <<table, lock, pc, call, answer>>

\* The four operations: Resolve is given a secret, Create a tenant, Rotate and
\* Revoke a tenant and an id.
Call(c) ==
    \/ \E k \in Ids : Begin(c, "resolve", None, k)
    \/ \E t \in Tenants : Begin(c, "create", t, None)
    \/ \E t \in Tenants, k \in Ids : Begin(c, "select", t, k)
    \/ \E t \in Tenants, k \in Ids : Begin(c, "revoke", t, k)

Statement(c) == \/ ResolveSelect(c) \/ ResolveTouch(c) \/ CreateInsert(c)
                \/ RotateSelect(c) \/ RotateUpdate(c) \/ RotateInsert(c)
                \/ RotateCommit(c) \/ RevokeUpdate(c)

Next ==
    \/ \E c \in Clients : Call(c) \/ Statement(c) \/ StatementError(c)
    \/ \E d \in Deadlines : Pass(d)

\* A statement that can run does, and Postgres queues the waiters for a row, so
\* none of them is overtaken for ever.  No error is needed to make progress,
\* except that an insert may find the finite Ids used up.
Fairness ==
    \A c \in Clients :
        /\ WF_vars(Statement(c))
        /\ SF_vars(RotateSelect(c))
        /\ SF_vars(RevokeUpdate(c))
        /\ WF_vars(pc[c] \in {"create", "insert"} /\ StatementError(c))

Spec == Init /\ [][Next]_vars
FairSpec == Spec /\ Fairness

-----------------------------------------------------------------------------
(* Properties                                                              *)

\* The statements implement the registry of APIKeyRegistry: every step is one
\* of its indivisible Mint, Replace and Withdraw steps, or changes nothing there.
Registry == INSTANCE APIKeyRegistry WITH live <- Live

ImplementsRegistry == Registry!RegSpec

\* apikey_postgres.go:124-125, "never a window with zero or two live keys": a key
\* that was created and rotated any number of times has one live key until it is
\* revoked and none from then on, whatever rotations and revocations overlap.
OneLiveKey == Registry!OneLiveKey

\* A replacement grants what the key it replaces did: tenant, role, region,
\* supplier and deadline (apikey_postgres.go:167-172).
ScopeCarried == Registry!ScopeCarried

\* A revoked or rotated key is never live again, also not after a transaction
\* that failed half way (apikey.go:85, apikey_postgres.go:131).
NeverRevived == Registry!NeverRevived

\* A definite answer is true of the table (apikey_postgres.go:33-207): "ok" from
\* Rotate or Revoke means the key named was the caller's own and is revoked,
\* "not found" that no live key of that tenant has the id, and Resolve accepts
\* no key that was already revoked when it was called.
AnswersTruthful ==
    [][\A c \in Clients :
         LET k == call[c].id
         IN  /\ pc[c] \in {"commit", "revoke"} /\ answer'[c] = "ok" =>
                  /\ Owned(c, k)
                  /\ k \in Live
                  /\ k \in revoked'
             /\ pc[c] \in {"select", "revoke"} /\ answer'[c] = "not found" =>
                  ~(Owned(c, k) /\ k \in Live)
             /\ pc[c] = "touch" /\ answer'[c] = "ok" => ~call[c].dead]_vars

\* Row locks are released and every call returns, also when rotations and
\* revocations wait for the same row and some of them fail half way
\* (apikey_postgres.go:131, the deferred Rollback).
EveryCallReturns == \A c \in Clients : pc[c] # "idle" ~> pc[c] = "idle"
=============================================================================
