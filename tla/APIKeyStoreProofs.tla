------------------------- MODULE APIKeyStoreProofs -------------------------
(***************************************************************************)
(* Proofs about APIKeyStore, for every number of clients, keys, tenants,   *)
(* scopes and deadlines.                                                   *)
(***************************************************************************)
EXTENDS APIKeyStore, TLAPS

-----------------------------------------------------------------------------
(* The inductive invariant                                                 *)

\* What a call knows of the table: from the locking SELECT to COMMIT, the row of
\* the key being rotated is the caller's, locked by its transaction and live, and
\* the new id taken by the INSERT has no committed row.  A Resolve called with a
\* revoked key does not get past its SELECT, and a call has no answer before it
\* returns.
CallOK(c) ==
    /\ pc[c] = "create" => call[c].tenant \in Tenants
    /\ pc[c] \in {"resolve", "select", "update", "insert", "commit", "revoke"} =>
         call[c].id \in Ids
    /\ pc[c] \in {"update", "insert", "commit"} =>
         /\ lock[call[c].id] = c
         /\ Owned(c, call[c].id)
         /\ call[c].id \notin revoked
    /\ pc[c] = "resolve" /\ call[c].dead => call[c].id \in revoked
    /\ pc[c] = "touch" => ~call[c].dead
    /\ pc[c] = "commit" => call[c].new \in Ids /\ attr[call[c].new] = None
    /\ pc[c] # "commit" => call[c].new = None
    /\ pc[c] # "idle" => answer[c] = "none"

\* Two transactions never hold the same new id.
NewDistinct ==
    \A c, d \in Clients :
        pc[c] = "commit" /\ pc[d] = "commit" /\ c # d => call[c].new # call[d].new

\* A row has a root, and only rows are revoked.
RowsOK ==
    \A k \in Ids : /\ root[k] = None <=> attr[k] = None
                   /\ k \in revoked => attr[k] # None

TxInv == TypeOK /\ (\A c \in Clients : CallOK(c)) /\ NewDistinct /\ RowsOK

\* None is no client, id, tenant or attribute.
LEMMA NoneApart ==
    /\ None \notin Ids /\ None \notin Clients
    /\ None \notin Tenants /\ None \notin Attrs
BY NoneAssumption

\* Before any call the table is empty and nobody is in a transaction.
LEMMA InitTx == Init => TxInv
BY NoneApart DEF Init, TxInv, TypeOK, CallOK, Owned, NewDistinct, RowsOK, Calls, NoCall, Answers

\* What Return assigns has its type.
LEMMA ReturnTypes ==
    ASSUME TypeOK, NEW c \in Clients, NEW a \in Answers, Return(c, a)
    PROVE  /\ lock' \in [Ids -> Clients \cup {None}]
           /\ pc' \in [Clients -> {"idle", "resolve", "touch", "create", "select",
                                  "update", "insert", "commit", "revoke"}]
           /\ call' \in [Clients -> Calls]
           /\ answer' \in [Clients -> Answers]
BY NoneApart DEF TypeOK, Return, Calls, NoCall

\* A call that returns without changing a row drops its locks and its new id, and
\* disturbs no other call.
LEMMA ReturnKeeps ==
    ASSUME TxInv, NEW c \in Clients, NEW a \in Answers, Return(c, a),
           UNCHANGED <<attr, root, revoked, ended, passed>>
    PROVE  TxInv'
<1> USE NoneApart
<1>1. TypeOK'
  BY ReturnTypes DEF TxInv, TypeOK
<1>2. NewDistinct' /\ RowsOK'
  BY DEF TxInv, TypeOK, Return, NewDistinct, RowsOK
<1>3. ASSUME NEW d \in Clients PROVE CallOK(d)'
  <2>1. CASE d = c
    BY <2>1 DEF TxInv, TypeOK, Return, CallOK, Owned, NoCall
  <2>2. CASE d # c
    BY <2>2 DEF TxInv, TypeOK, Return, CallOK, Owned
  <2> QED
    BY <2>1, <2>2
<1> QED
  BY <1>1, <1>2, <1>3 DEF TxInv

\* Every step of a client and every deadline keeps the invariant.
LEMMA TxStep == TxInv /\ [Next]_vars => TxInv'
<1> SUFFICES ASSUME TxInv, [Next]_vars PROVE TxInv'
  OBVIOUS
<1> USE NoneApart
<1>1. ASSUME NEW c \in Clients, Call(c) PROVE TxInv'
  <2>1. PICK at \in {"resolve", "create", "select", "revoke"},
             t \in Tenants \cup {None}, k \in Ids \cup {None} :
          /\ Begin(c, at, t, k)
          /\ at = "create" => t \in Tenants
          /\ at # "create" => k \in Ids
    BY <1>1, Zenon DEF Call
  <2>2. TypeOK'
    <3> DEFINE new == [tenant |-> t, id |-> k, new |-> None, dead |-> k \in revoked]
    <3>1. (k \in revoked) \in BOOLEAN
      OBVIOUS
    <3>2. new \in Calls
      BY <3>1, Zenon DEF Calls
    <3>3. call' = [call EXCEPT ![c] = new]
      BY <2>1 DEF Begin
    <3> HIDE DEF new
    <3>4. call' \in [Clients -> Calls]
      BY <3>2, <3>3 DEF TxInv, TypeOK
    <3> QED
      BY <2>1, <3>4 DEF Begin, TxInv, TypeOK, Answers, table
  <2>3. ASSUME NEW d \in Clients PROVE CallOK(d)'
    <3>1. CASE d = c
      <4>1. /\ pc'[c] = at /\ answer'[c] = "none"
            /\ call'[c] = [tenant |-> t, id |-> k, new |-> None, dead |-> k \in revoked]
        BY <2>1 DEF Begin, TxInv, TypeOK
      <4>2. revoked' = revoked
        BY <2>1 DEF Begin, table
      <4>3. call'[c].tenant = t /\ call'[c].id = k /\ call'[c].new = None
        BY <4>1
      <4>4. call'[c].dead => k \in revoked
        <5>1. [tenant |-> t, id |-> k, new |-> None, dead |-> k \in revoked].dead
                = (k \in revoked)
          BY Zenon
        <5>2. call'[c].dead = (k \in revoked)
          BY <4>1, <5>1, Zenon
        <5> QED
          BY <5>2
      <4>5. pc'[c] = at /\ answer'[c] = "none"
        BY <4>1
      <4> QED
        BY <2>1, <3>1, <4>2, <4>3, <4>4, <4>5 DEF CallOK
    <3>2. CASE d # c
      <4>1. pc'[d] = pc[d] /\ call'[d] = call[d] /\ answer'[d] = answer[d]
        BY <2>1, <3>2 DEF Begin, TxInv, TypeOK
      <4> QED
        BY <2>1, <4>1 DEF Begin, TxInv, CallOK, Owned, table
    <3> QED
      BY <3>1, <3>2
  <2>4. NewDistinct' /\ RowsOK'
    BY <2>1 DEF Begin, TxInv, TypeOK, NewDistinct, RowsOK, table
  <2> QED
    BY <2>2, <2>3, <2>4 DEF TxInv
<1>2. ASSUME NEW c \in Clients, ResolveSelect(c) PROVE TxInv'
  <2>1. CASE \E a \in Answers : Return(c, a)
    BY <1>2, <2>1, ReturnKeeps DEF ResolveSelect, TxInv, TypeOK, table
  <2>2. CASE /\ call[c].id \in Live
             /\ pc' = [pc EXCEPT ![c] = "touch"] /\ UNCHANGED <<lock, call, answer>>
    <3>1. pc[c] = "resolve" /\ UNCHANGED <<attr, root, revoked, ended, passed>>
      BY <1>2 DEF ResolveSelect, table
    <3>2. TypeOK'
      BY <2>2, <3>1 DEF TxInv, TypeOK
    <3>3. ASSUME NEW d \in Clients PROVE CallOK(d)'
      <4>1. CallOK(c) /\ ~call[c].dead
        BY <2>2, <3>1 DEF TxInv, CallOK, Live
      <4> QED
        BY <2>2, <3>1, <4>1 DEF TxInv, TypeOK, CallOK, Owned
    <3>4. NewDistinct' /\ RowsOK'
      BY <2>2, <3>1 DEF TxInv, TypeOK, NewDistinct, RowsOK
    <3> QED
      BY <3>2, <3>3, <3>4 DEF TxInv
  <2> QED
    BY <1>2, <2>1, <2>2 DEF ResolveSelect, Answers
<1>3. ASSUME NEW c \in Clients, ResolveTouch(c) PROVE TxInv'
  BY <1>3, ReturnKeeps DEF ResolveTouch, TxInv, TypeOK, table, Answers
<1>4. ASSUME NEW c \in Clients, StatementError(c) PROVE TxInv'
  BY <1>4, ReturnKeeps DEF StatementError, TxInv, TypeOK, table, Answers
<1>5. ASSUME NEW c \in Clients, CreateInsert(c) PROVE TxInv'
  <2>1. PICK k \in Ids, s \in Scopes, e \in Deadlines \cup {Never}, a \in Answers :
          /\ Fresh(k)
          /\ attr' = [attr EXCEPT ![k] = [tenant |-> call[c].tenant, scope |-> s,
                                          expires |-> e]]
          /\ root' = [root EXCEPT ![k] = k]
          /\ Return(c, a)
    BY <1>5 DEF CreateInsert, Answers
  <2>2. call[c].tenant \in Tenants
    BY <1>5 DEF CreateInsert, TxInv, CallOK, Owned
  <2>3. [tenant |-> call[c].tenant, scope |-> s, expires |-> e] \in Attrs
    BY <2>2 DEF Attrs
  <2>4. TypeOK'
    BY <1>5, <2>1, <2>3, ReturnTypes DEF CreateInsert, TxInv, TypeOK
  <2>5. ASSUME NEW d \in Clients PROVE CallOK(d)'
    <3>1. CASE d = c
      BY <2>1, <3>1 DEF Return, CallOK, Owned, NoCall, TxInv, TypeOK
    <3>2. CASE d # c
      BY <1>5, <2>1, <2>3, <3>2 DEF CreateInsert, Return, Fresh, CallOK, Owned, TxInv, TypeOK
    <3> QED
      BY <3>1, <3>2
  <2>6. NewDistinct'
    BY <2>1 DEF Return, NewDistinct, TxInv, TypeOK
  <2>7. RowsOK'
    BY <1>5, <2>1, <2>3 DEF CreateInsert, RowsOK, TxInv, TypeOK
  <2> QED
    BY <2>4, <2>5, <2>6, <2>7 DEF TxInv
<1>6. ASSUME NEW c \in Clients, RotateSelect(c) PROVE TxInv'
  <2>1. CASE \E a \in Answers : Return(c, a)
    BY <1>6, <2>1, ReturnKeeps DEF RotateSelect, TxInv, TypeOK, table
  <2>2. CASE /\ Owned(c, call[c].id) /\ lock[call[c].id] = None
             /\ call[c].id \notin revoked
             /\ lock' = [lock EXCEPT ![call[c].id] = c]
             /\ pc' = [pc EXCEPT ![c] = "update"]
             /\ UNCHANGED <<call, answer>>
    <3>1. pc[c] = "select" /\ UNCHANGED <<attr, root, revoked, ended, passed>>
      BY <1>6 DEF RotateSelect, table
    <3>2. call[c].id \in Ids /\ attr[call[c].id] # None
      BY <2>2, <3>1 DEF TxInv, CallOK, Owned, Owned
    <3>3. TypeOK'
      BY <2>2, <3>1, <3>2 DEF TxInv, TypeOK
    <3>4. ASSUME NEW d \in Clients PROVE CallOK(d)'
      BY <2>2, <3>1, <3>2 DEF TxInv, TypeOK, CallOK, Owned
    <3>5. NewDistinct' /\ RowsOK'
      BY <2>2, <3>1 DEF TxInv, TypeOK, NewDistinct, RowsOK
    <3> QED
      BY <3>3, <3>4, <3>5 DEF TxInv
  <2> QED
    BY <1>6, <2>1, <2>2 DEF RotateSelect, Answers
<1>7. ASSUME NEW c \in Clients, RotateUpdate(c) PROVE TxInv'
  BY <1>7 DEF RotateUpdate, TxInv, TypeOK, CallOK, Owned, NewDistinct, RowsOK, table
<1>8. ASSUME NEW c \in Clients, RotateInsert(c) PROVE TxInv'
  <2>1. PICK k \in Ids : Fresh(k) /\ call' = [call EXCEPT ![c].new = k]
    BY <1>8 DEF RotateInsert
  <2>2. call' = [call EXCEPT ![c] = [call[c] EXCEPT !.new = k]]
    BY <2>1
  <2>3. call[c] \in Calls /\ [call[c] EXCEPT !.new = k] \in Calls
    BY DEF TxInv, TypeOK, Calls
  <2>4. TypeOK'
    BY <1>8, <2>2, <2>3 DEF RotateInsert, TxInv, TypeOK, table
  <2>5. /\ call'[c].new = k /\ call'[c].id = call[c].id /\ call'[c].tenant = call[c].tenant
        /\ \A d \in Clients : d # c => call'[d] = call[d]
    BY <2>2, <2>3 DEF TxInv, TypeOK, Calls
  <2>6. ASSUME NEW d \in Clients PROVE CallOK(d)'
    BY <1>8, <2>1, <2>5 DEF RotateInsert, Fresh, CallOK, Owned, TxInv, TypeOK, table
  <2>7. NewDistinct'
    BY <1>8, <2>1, <2>5 DEF RotateInsert, Fresh, NewDistinct, TxInv, TypeOK
  <2>8. RowsOK'
    BY <1>8 DEF RotateInsert, RowsOK, TxInv, table
  <2> QED
    BY <2>4, <2>6, <2>7, <2>8 DEF TxInv
<1>9. ASSUME NEW c \in Clients, RotateCommit(c) PROVE TxInv'
  <2> DEFINE k == call[c].id
             new == call[c].new
  <2>1. /\ pc[c] = "commit" /\ k \in Ids /\ new \in Ids /\ attr[new] = None
        /\ attr[k] # None /\ k \notin revoked /\ lock[k] = c /\ k # new
    BY <1>9 DEF RotateCommit, TxInv, CallOK, Owned
  <2>2. /\ attr' = [attr EXCEPT ![new] = attr[k]]
        /\ root' = [root EXCEPT ![new] = root[k]]
        /\ revoked' = revoked \cup {k}
        /\ UNCHANGED <<ended, passed>>
    BY <1>9 DEF RotateCommit
  <2>3. PICK a \in Answers : Return(c, a)
    BY <1>9 DEF RotateCommit, Answers
  <2> HIDE DEF k, new
  <2>4. TypeOK'
    BY <2>1, <2>2, <2>3, ReturnTypes DEF TxInv, TypeOK
  <2>5. ASSUME NEW d \in Clients PROVE CallOK(d)'
    <3>1. CASE d = c
      BY <2>3, <3>1 DEF Return, CallOK, Owned, NoCall, TxInv, TypeOK
    <3>2. CASE d # c
      <4>1. pc'[d] = pc[d] /\ call'[d] = call[d] /\ answer'[d] = answer[d]
        BY <2>3, <3>2 DEF Return, TxInv, TypeOK
      <4>2. pc[d] = "commit" => call[d].new # new
        BY <2>1, <3>2 DEF TxInv, NewDistinct, new
      <4>3. pc[d] \in {"update", "insert", "commit"} =>
              call[d].id # k /\ lock'[call[d].id] = d
        BY <2>1, <2>3, <3>2 DEF TxInv, TypeOK, CallOK, Owned, Return
      <4>4. CallOK(d)
        BY DEF TxInv
      <4> QED
        BY <2>1, <2>2, <4>1, <4>2, <4>3, <4>4 DEF CallOK, Owned, TxInv, TypeOK
    <3> QED
      BY <3>1, <3>2
  <2>6. NewDistinct'
    BY <2>3 DEF Return, NewDistinct, TxInv, TypeOK
  <2>7. RowsOK'
    BY <2>1, <2>2 DEF RowsOK, TxInv, TypeOK
  <2> QED
    BY <2>4, <2>5, <2>6, <2>7 DEF TxInv
<1>10. ASSUME NEW c \in Clients, RevokeUpdate(c) PROVE TxInv'
  <2> DEFINE k == call[c].id
  <2>1. CASE UNCHANGED <<revoked, ended>> /\ \E a \in Answers : Return(c, a)
    BY <1>10, <2>1, ReturnKeeps DEF RevokeUpdate, TxInv, TypeOK
  <2>2. CASE /\ Owned(c, k) /\ k \notin revoked /\ lock[k] = None
             /\ revoked' = revoked \cup {k}
             /\ ended' = ended \cup {root[k]}
             /\ \E a \in Answers : Return(c, a)
    <3>0. pc[c] = "revoke" /\ k \in Ids /\ attr[k] # None
      BY <1>10, <2>2 DEF RevokeUpdate, Owned, TxInv, CallOK
    <3>1. k \in Ids /\ attr[k] # None /\ root[k] \in Ids
      BY <3>0 DEF TxInv, TypeOK, RowsOK
    <3>2. UNCHANGED <<attr, root, passed>>
      BY <1>10 DEF RevokeUpdate
    <3>3. PICK a \in Answers : Return(c, a)
      BY <2>2
    <3> HIDE DEF k
    <3>4. TypeOK'
      BY <2>2, <3>1, <3>2, <3>3, ReturnTypes DEF TxInv, TypeOK
    <3>5. ASSUME NEW d \in Clients PROVE CallOK(d)'
      <4>1. CASE d = c
        BY <3>3, <4>1 DEF Return, CallOK, Owned, NoCall, TxInv, TypeOK
      <4>2. CASE d # c
        BY <2>2, <3>1, <3>2, <3>3, <4>2 DEF Return, CallOK, Owned, TxInv, TypeOK
      <4> QED
        BY <4>1, <4>2
    <3>6. NewDistinct'
      BY <3>3 DEF Return, NewDistinct, TxInv, TypeOK
    <3>7. RowsOK'
      BY <2>2, <3>1, <3>2 DEF RowsOK, TxInv, TypeOK
    <3> QED
      BY <3>4, <3>5, <3>6, <3>7 DEF TxInv
  <2> QED
    BY <1>10, <2>1, <2>2 DEF RevokeUpdate, Answers
<1>11. ASSUME NEW d \in Deadlines, Pass(d) PROVE TxInv'
  BY <1>11 DEF Pass, TxInv, TypeOK, CallOK, Owned, NewDistinct, RowsOK, table
<1>12. CASE UNCHANGED vars
  BY <1>12 DEF vars, TxInv, TypeOK, CallOK, Owned, NewDistinct, RowsOK
<1> QED
  BY <1>1, <1>2, <1>3, <1>4, <1>5, <1>6, <1>7, <1>8, <1>9, <1>10, <1>11, <1>12
     DEF Next, Statement

\* The table, the locks and the answers keep their types.
THEOREM StoreTypeCorrect == Spec => []TypeOK
<1>1. TxInv => TypeOK
  BY DEF TxInv
<1> QED
  BY <1>1, InitTx, TxStep, PTL DEF Spec

-----------------------------------------------------------------------------
(* The refinement                                                          *)

\* Every step of the store is one indivisible step of the registry, or none: the
\* row that CREATE inserts, the two rows a rotation commits and the row a
\* revocation updates are a Mint, a Replace and a Withdraw.
LEMMA StoreStep == TxInv /\ [Next]_vars => [Registry!RegNext]_(Registry!regVars)
<1> SUFFICES ASSUME TxInv, [Next]_vars
             PROVE  Registry!RegNext \/ UNCHANGED <<Live, root, attr, ended>>
  BY DEF Registry!regVars
<1> USE NoneApart
<1>0. ASSUME UNCHANGED table PROVE UNCHANGED <<Live, root, attr, ended>>
  BY <1>0 DEF table, Live
<1>1. ASSUME NEW c \in Clients, CreateInsert(c) PROVE Registry!RegNext
  <2>1. PICK k \in Ids, s \in Scopes, e \in Deadlines \cup {Never} :
          /\ Fresh(k)
          /\ attr' = [attr EXCEPT ![k] = [tenant |-> call[c].tenant, scope |-> s,
                                          expires |-> e]]
          /\ root' = [root EXCEPT ![k] = k]
          /\ UNCHANGED <<revoked, ended>>
    BY <1>1 DEF CreateInsert
  <2> DEFINE a == [tenant |-> call[c].tenant, scope |-> s, expires |-> e]
  <2>2. a \in Attrs
    BY <1>1 DEF CreateInsert, TxInv, CallOK, Owned, Attrs
  <2>3. attr' = [attr EXCEPT ![k] = a]
    BY <2>1
  <2> HIDE DEF a
  <2>4. root[k] = None /\ attr[k] = None /\ k \notin revoked
    BY <2>1 DEF Fresh, TxInv, RowsOK
  <2>5. Live' = Live \cup {k}
    BY <2>1, <2>2, <2>3, <2>4 DEF Live, TxInv, TypeOK
  <2>6. Registry!Mint(k, a)
    BY <2>1, <2>3, <2>4, <2>5 DEF Registry!Mint
  <2> QED
    BY <2>2, <2>6 DEF Registry!RegNext
<1>2. ASSUME NEW c \in Clients, RotateCommit(c) PROVE Registry!RegNext
  <2> DEFINE k == call[c].id
             new == call[c].new
  <2>1. /\ k \in Ids /\ new \in Ids /\ attr[new] = None
        /\ attr[k] # None /\ k \notin revoked /\ k # new
    BY <1>2 DEF RotateCommit, TxInv, CallOK, Owned
  <2>2. /\ attr' = [attr EXCEPT ![new] = attr[k]]
        /\ root' = [root EXCEPT ![new] = root[k]]
        /\ revoked' = revoked \cup {k}
        /\ UNCHANGED ended
    BY <1>2 DEF RotateCommit
  <2> HIDE DEF k, new
  <2>3. root[new] = None /\ new \notin revoked /\ k \in Live
    BY <2>1 DEF TxInv, RowsOK, Live
  <2>4. Live' = (Live \ {k}) \cup {new}
    BY <2>1, <2>2, <2>3 DEF Live, TxInv, TypeOK
  <2>5. Registry!Replace(k, new)
    BY <2>2, <2>3, <2>4 DEF Registry!Replace
  <2> QED
    BY <2>1, <2>5 DEF Registry!RegNext
<1>3. ASSUME NEW c \in Clients, RevokeUpdate(c)
      PROVE  Registry!RegNext \/ UNCHANGED <<Live, root, attr, ended>>
  <2> DEFINE k == call[c].id
  <2>1. CASE /\ Owned(c, k) /\ k \notin revoked
             /\ revoked' = revoked \cup {k}
             /\ ended' = ended \cup {root[k]}
    <3>1. k \in Ids /\ k \in Live
      BY <1>3, <2>1 DEF RevokeUpdate, Owned, TxInv, CallOK, Live
    <3>2. UNCHANGED <<attr, root>>
      BY <1>3 DEF RevokeUpdate
    <3> HIDE DEF k
    <3>3. Live' = Live \ {k}
      BY <2>1, <3>2 DEF Live
    <3>4. Registry!Withdraw(k)
      BY <2>1, <3>1, <3>2, <3>3 DEF Registry!Withdraw
    <3> QED
      BY <3>1, <3>4 DEF Registry!RegNext
  <2>2. CASE UNCHANGED <<revoked, ended>>
    BY <1>0, <1>3, <2>2 DEF RevokeUpdate, table
  <2> QED
    BY <1>3, <2>1, <2>2 DEF RevokeUpdate
<1>4. ASSUME NEW c \in Clients, Call(c) PROVE UNCHANGED table
  BY <1>4 DEF Call, Begin
<1>5. ASSUME NEW c \in Clients,
             \/ ResolveSelect(c) \/ ResolveTouch(c) \/ RotateSelect(c)
             \/ RotateUpdate(c) \/ RotateInsert(c) \/ StatementError(c)
      PROVE  UNCHANGED table
  BY <1>5 DEF ResolveSelect, ResolveTouch, RotateSelect, RotateUpdate, RotateInsert,
              StatementError
<1>6. ASSUME NEW d \in Deadlines, Pass(d) PROVE UNCHANGED table
  BY <1>6 DEF Pass
<1>7. CASE UNCHANGED vars
  BY <1>0, <1>7 DEF vars, table
<1> QED
  BY <1>0, <1>1, <1>2, <1>3, <1>4, <1>5, <1>6, <1>7 DEF Next, Statement

\* The SQL statements implement the registry (apikey_postgres.go:33-207): every
\* behaviour of concurrent callers, failures and lost answers included, is one of
\* indivisible Mint, Replace and Withdraw steps.
THEOREM StoreImplementsRegistry == Spec => ImplementsRegistry
<1>1. Init => Registry!RegInit
  BY NoneApart DEF Init, Live, Registry!RegInit
<1> QED
  BY <1>1, InitTx, TxStep, StoreStep, PTL DEF Spec, ImplementsRegistry, Registry!RegSpec

-----------------------------------------------------------------------------
(* What callers are told                                                   *)

\* AnswersTruthful for one client and one step.
Truthful(c) ==
    LET k == call[c].id
    IN  /\ pc[c] \in {"commit", "revoke"} /\ answer'[c] = "ok" =>
             /\ Owned(c, k)
             /\ k \in Live
             /\ k \in revoked'
        /\ pc[c] \in {"select", "revoke"} /\ answer'[c] = "not found" =>
             ~(Owned(c, k) /\ k \in Live)
        /\ pc[c] = "touch" /\ answer'[c] = "ok" => ~call[c].dead

\* A step that leaves a client's answer alone tells it nothing.
LEMMA NoNews ==
    ASSUME TxInv, NEW c \in Clients, answer'[c] = answer[c]
    PROVE  Truthful(c)
BY DEF TxInv, CallOK, Truthful

\* A definite answer of Rotate, Revoke or Resolve is true of the table
\* (apikey_postgres.go:33-207), however many callers overlap: the locked row cannot
\* change between the SELECT and the COMMIT that answers "ok".
THEOREM AnswersAlwaysTruthful == Spec => AnswersTruthful
<1>1. TxInv /\ [Next]_vars => [\A c \in Clients : Truthful(c)]_vars
  <2> SUFFICES ASSUME TxInv, Next, NEW c \in Clients PROVE Truthful(c)
    OBVIOUS
  <2> USE NoneApart
  <2>0. CallOK(c) /\ TypeOK
    BY DEF TxInv
  <2>1. ASSUME NEW d \in Clients, Call(d) PROVE Truthful(c)
    <3>1. answer' = [answer EXCEPT ![d] = "none"]
      BY <2>1 DEF Call, Begin
    <3> QED
      BY <2>0, <3>1, NoNews DEF TypeOK, Truthful
  <2>2. ASSUME NEW d \in Clients, d # c, Statement(d) \/ StatementError(d)
        PROVE  Truthful(c)
    <3>1. (\E a \in Answers : answer' = [answer EXCEPT ![d] = a]) \/ answer' = answer
      BY <2>2 DEF Statement, StatementError, ResolveSelect, ResolveTouch, CreateInsert,
         RotateSelect, RotateUpdate, RotateInsert, RotateCommit, RevokeUpdate, Return,
         Answers
    <3> QED
      BY <2>0, <2>2, <3>1, NoNews DEF TypeOK
  <2>3. CASE StatementError(c)
    BY <2>0, <2>3 DEF StatementError, Return, TypeOK, Truthful
  <2>4. CASE ResolveSelect(c)
    BY <2>4 DEF ResolveSelect, Truthful
  <2>5. CASE ResolveTouch(c)
    BY <2>0, <2>5 DEF ResolveTouch, CallOK, Truthful
  <2>6. CASE CreateInsert(c)
    BY <2>6 DEF CreateInsert, Truthful
  <2>7. CASE RotateSelect(c)
    <3>1. CASE ~Owned(c, call[c].id)
      BY <2>7, <3>1 DEF RotateSelect, Truthful
    <3>2. CASE Owned(c, call[c].id)
      BY <2>0, <2>7, <3>2 DEF RotateSelect, Return, TypeOK, CallOK, Truthful
    <3> QED
      BY <3>1, <3>2
  <2>8. CASE RotateUpdate(c) \/ RotateInsert(c)
    BY <2>8, NoNews DEF RotateUpdate, RotateInsert
  <2>9. CASE RotateCommit(c)
    BY <2>0, <2>9 DEF RotateCommit, CallOK, Owned, Live, Truthful
  <2>10. CASE RevokeUpdate(c)
    <3>1. CASE Owned(c, call[c].id) /\ call[c].id \notin revoked
      BY <2>0, <2>10, <3>1 DEF RevokeUpdate, Return, TypeOK, CallOK, Owned, Live, Truthful
    <3>2. CASE ~Owned(c, call[c].id) \/ call[c].id \in revoked
      BY <2>0, <2>10, <3>2 DEF RevokeUpdate, Return, TypeOK, Live, Truthful
    <3> QED
      BY <3>1, <3>2
  <2>11. ASSUME NEW e \in Deadlines, Pass(e) PROVE Truthful(c)
    BY <2>11, NoNews DEF Pass
  <2> QED
    BY <2>1, <2>2, <2>3, <2>4, <2>5, <2>6, <2>7, <2>8, <2>9, <2>10, <2>11
    DEF Next, Statement
<1> QED
  BY <1>1, InitTx, TxStep, PTL DEF Spec, AnswersTruthful, Truthful

-----------------------------------------------------------------------------
(* What the registry promises                                              *)

\* Lineages: a root is its own root, ended lineages are roots, live keys have
\* rows, and every key grants what its root does.
LineageInv ==
    /\ \A k \in Ids : root[k] # None => root[k] \in Ids /\ root[root[k]] = root[k]
    /\ \A k \in ended : root[k] = k
    /\ \A k \in Live : root[k] # None
    /\ OneLiveKey
    /\ ScopeCarried

\* Mint, Replace and Withdraw keep it.
LEMMA LineageStep ==
    TxInv /\ TxInv' /\ LineageInv /\ [Registry!RegNext]_(Registry!regVars) => LineageInv'
<1> SUFFICES ASSUME TxInv, TxInv', LineageInv, [Registry!RegNext]_(Registry!regVars)
             PROVE LineageInv'
  OBVIOUS
<1> USE NoneApart
<1> DEFINE Types == /\ Live \subseteq Ids
                    /\ root \in [Ids -> Ids \cup {None}]
                    /\ attr \in [Ids -> Attrs \cup {None}]
                    /\ ended \subseteq Ids
<1>0. Types
  BY DEF TxInv, TypeOK, Live
<1> USE DEF LineageInv, OneLiveKey, ScopeCarried, Registry!OneLiveKey, Registry!ScopeCarried
<1>1. ASSUME NEW k \in Ids, NEW a \in Attrs, Registry!Mint(k, a) PROVE LineageInv'
  BY <1>0, <1>1 DEF Registry!Mint
<1>2. ASSUME NEW k \in Ids, NEW new \in Ids, Registry!Replace(k, new) PROVE LineageInv'
  BY <1>0, <1>2 DEF Registry!Replace
<1>3. ASSUME NEW k \in Ids, Registry!Withdraw(k) PROVE LineageInv'
  BY <1>0, <1>3 DEF Registry!Withdraw
<1>4. CASE UNCHANGED <<Live, root, attr, ended>>
  BY <1>4
<1> QED
  BY <1>1, <1>2, <1>3, <1>4 DEF Registry!RegNext, Registry!regVars

\* "Never a window with zero or two live keys" (apikey_postgres.go:124-125): for
\* any number of callers and keys a lineage has one live key until it is revoked,
\* and none afterwards.
THEOREM AlwaysOneLiveKey == Spec => []OneLiveKey
<1>1. Init => LineageInv
  BY NoneApart DEF Init, LineageInv, Live, OneLiveKey, ScopeCarried,
                   Registry!OneLiveKey, Registry!ScopeCarried
<1>2. LineageInv => OneLiveKey
  BY DEF LineageInv
<1> QED
  BY <1>1, <1>2, InitTx, TxStep, StoreStep, LineageStep, PTL DEF Spec

\* A replacement grants what the first key of its lineage did, deadline included
\* (apikey_postgres.go:167-172).
THEOREM ScopeAlwaysCarried == Spec => []ScopeCarried
<1>1. Init => LineageInv
  BY NoneApart DEF Init, LineageInv, Live, OneLiveKey, ScopeCarried,
                   Registry!OneLiveKey, Registry!ScopeCarried
<1>2. LineageInv => ScopeCarried
  BY DEF LineageInv
<1> QED
  BY <1>1, <1>2, InitTx, TxStep, StoreStep, LineageStep, PTL DEF Spec

\* One step of the registry revives no key and no lineage, and changes no row.
NoRevival ==
    /\ \A k \in Ids : root[k] # None /\ k \notin Live => k \notin Live'
    /\ ended \subseteq ended'
    /\ \A k \in Ids : root[k] # None => root'[k] = root[k] /\ attr'[k] = attr[k]

\* A revoked key never resolves again (apikey.go:85), and a failed rotation brings
\* nothing back.
THEOREM RevokedForGood == Spec => NeverRevived
<1>1. TxInv /\ [Registry!RegNext]_(Registry!regVars) => [NoRevival]_(Registry!regVars)
  <2> SUFFICES ASSUME TxInv, Registry!RegNext PROVE NoRevival
    OBVIOUS
  <2>0. /\ root \in [Ids -> Ids \cup {None}]
        /\ attr \in [Ids -> Attrs \cup {None}]
    BY DEF TxInv, TypeOK
  <2>1. ASSUME NEW k \in Ids, NEW a \in Attrs, Registry!Mint(k, a) PROVE NoRevival
    BY <2>0, <2>1 DEF Registry!Mint, NoRevival
  <2>2. ASSUME NEW k \in Ids, NEW new \in Ids, Registry!Replace(k, new) PROVE NoRevival
    BY <2>0, <2>2 DEF Registry!Replace, NoRevival
  <2>3. ASSUME NEW k \in Ids, Registry!Withdraw(k) PROVE NoRevival
    BY <2>0, <2>3 DEF Registry!Withdraw, NoRevival
  <2> QED
    BY <2>1, <2>2, <2>3 DEF Registry!RegNext
<1> QED
  BY <1>1, InitTx, TxStep, StoreStep, PTL DEF Spec, NeverRevived, Registry!NeverRevived, NoRevival
=============================================================================
