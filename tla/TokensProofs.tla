---------------------------- MODULE TokensProofs ----------------------------
(***************************************************************************)
(* Proofs about Tokens, for every number of instances, secrets and logins, *)
(* every lifetime, precision and skew.                                     *)
(***************************************************************************)
EXTENDS Tokens, TLAPS

\* Every token says what its session was granted, under the session's secret, and
\* its exp is its lifetime after the minting instance's clock, cut to the second.
TokenOK(t) ==
    /\ t.who = t.session.who
    /\ t.secret = t.session.secret
    /\ t.session.login < mints
    /\ t.exp <= t.at + TTL(t.use) + Skew
    /\ t.exp + Precision > t.at + TTL(t.use)

TokenInv == TypeOK /\ \A t \in minted : TokenOK(t)

\* Lifetimes are natural numbers.
LEMMA TTLType == ASSUME NEW use PROVE TTL(use) \in Nat
BY ClockAssumption DEF TTL

\* Cutting a time to the second loses less than a second.
LEMMA NumericDateBounds ==
    ASSUME NEW x \in Nat
    PROVE  /\ NumericDate(x) \in Nat
           /\ NumericDate(x) <= x
           /\ NumericDate(x) + Precision > x
<1> DEFINE q == x \div Precision
           m == x % Precision
<1>1. Precision \in Nat \ {0} /\ m \in 0..(Precision - 1)
  BY ClockAssumption
<1>2. q \in Nat /\ x = Precision * q + m
  BY ClockAssumption
<1>3. Precision * q \in Nat
  BY <1>1, <1>2
<1>4. NumericDate(x) = x - m
  BY DEF NumericDate
<1> HIDE DEF q, m
<1> QED
  BY <1>1, <1>2, <1>3, <1>4

\* What a token of an allowed body says of its holder is an identity.
LEMMA CallerType ==
    ASSUME NEW b \in Bodies, b.tenant # "", b.role \in Roles
    PROVE  Caller(b) \in Identities
BY BodyAssumption DEF Caller, Identities

\* Signing keeps the invariant.
LEMMA SignOK ==
    ASSUME TypeOK, NEW i \in Instances, NEW who \in Identities,
           NEW use \in {"access", "refresh"}, NEW session \in Sessions,
           who = session.who, secret[i] = session.secret
    PROVE  LET t == sign(i, who, use, session)
           IN  /\ t \in TokenSet
               /\ t.who = session.who /\ t.secret = session.secret
               /\ t.session = session /\ t.use = use /\ t.at = now
               /\ t.exp <= t.at + TTL(t.use) + Skew
               /\ t.exp + Precision > t.at + TTL(t.use)
<1> DEFINE x == Clock(i) + TTL(use)
<1>1. /\ Offset[i] \in Nat /\ Offset[i] <= Skew /\ now \in Nat /\ TTL(use) \in Nat
      /\ Skew \in Nat /\ Precision \in Nat
  BY ClockAssumption, TTLType DEF TypeOK
<1>2. x \in Nat /\ x <= now + TTL(use) + Skew /\ x >= now + TTL(use)
  BY <1>1 DEF Clock
<1> HIDE DEF x
<1>3. /\ NumericDate(x) \in Nat /\ NumericDate(x) <= x /\ NumericDate(x) + Precision > x
  BY <1>2, NumericDateBounds
<1>4. sign(i, who, use, session) =
        [use |-> use, who |-> who, secret |-> secret[i], exp |-> NumericDate(x),
         at |-> now, session |-> session]
  BY DEF sign, x
<1>5. secret[i] \in Secrets
  BY DEF TypeOK
<1> QED
  BY <1>1, <1>2, <1>3, <1>4, <1>5 DEF TokenSet

\* Handing out a pair for a session keeps the invariant.
LEMMA IssueOK ==
    ASSUME TokenInv, NEW i \in Instances, NEW who \in Identities,
           NEW session \in Sessions, who = session.who, secret[i] = session.secret,
           session.login <= mints, Issue(i, who, session),
           UNCHANGED <<now, secret, restarts>>
    PROVE  TokenInv'
<1>1. /\ TypeOK /\ mints \in Nat /\ mints' = mints + 1
      /\ minted' = minted \cup {sign(i, who, use, session) : use \in {"access", "refresh"}}
  BY DEF TokenInv, TypeOK, Issue
<1>2. ASSUME NEW t \in minted' PROVE t \in TokenSet /\ TokenOK(t)'
  <2>1. CASE t \in minted
    <3>1. t \in TokenSet /\ TokenOK(t) /\ t.session.login \in Nat
      BY <2>1 DEF TokenInv, TypeOK, TokenSet, Sessions
    <3> QED
      BY <1>1, <3>1 DEF TokenOK
  <2>2. CASE t \notin minted
    <3>1. PICK use \in {"access", "refresh"} : t = sign(i, who, use, session)
      BY <1>1, <2>2
    <3>2. session.login \in Nat
      BY DEF Sessions
    <3> QED
      BY <1>1, <3>1, <3>2, SignOK DEF TokenOK
  <2> QED
    BY <2>1, <2>2
<1>3. TypeOK'
  BY <1>1, <1>2 DEF TypeOK
<1> QED
  BY <1>2, <1>3 DEF TokenInv

\* A refreshed token is unexpired here, of the right kind and of this secret.
LEMMA RefreshChecks ==
    ASSUME NEW i, NEW t, Refresh(i, t) = "ok"
    PROVE  t.secret = secret[i] /\ ~(t.exp <= Clock(i)) /\ t.use = "refresh"
BY DEF Refresh, parse

\* The same of a token that opens a request.
LEMMA RequestChecks ==
    ASSUME NEW i, NEW t, NEW k, t # None, Authenticate(i, t, k)
    PROVE  /\ t.secret = secret[i] /\ ~(t.exp <= Clock(i)) /\ t.use = "access"
           /\ resolveIdentity(i, t, k).who = t.who
BY DEF Authenticate, resolveIdentity, Validate, parse, toIdentity

\* Every step keeps the invariant.
LEMMA TokenStep == TokenInv /\ [Next]_vars => TokenInv'
<1> SUFFICES ASSUME TokenInv, [Next]_vars PROVE TokenInv'
  OBVIOUS
<1>0. ASSUME UNCHANGED <<minted, mints>>, now' \in Nat, restarts' \in Nat,
             secret' \in [Instances -> Secrets]
      PROVE  TokenInv'
  BY <1>0 DEF TokenInv, TypeOK, TokenOK
<1>1. ASSUME NEW i \in Instances, NEW b \in Bodies, issueToken(i, b) PROVE TokenInv'
  <2>1. CASE UNCHANGED <<minted, mints>>
    BY <1>0, <1>1, <2>1 DEF issueToken, TokenInv, TypeOK
  <2>2. CASE b.tenant # "" /\ b.role \in Roles /\ ~UNCHANGED <<minted, mints>>
    <3> DEFINE s == [who |-> Caller(b), secret |-> secret[i], login |-> mints]
    <3>1. Caller(b) \in Identities
      BY <2>2, CallerType
    <3>2. s \in Sessions /\ s.who = Caller(b) /\ s.secret = secret[i] /\ s.login = mints
      BY <3>1 DEF Sessions, TokenInv, TypeOK
    <3>3. Issue(i, Caller(b), s) /\ UNCHANGED <<now, secret, restarts>>
      BY <1>1, <2>2 DEF issueToken
    <3>4. s.login <= mints
      BY <3>2 DEF TokenInv, TypeOK
    <3> HIDE DEF s
    <3> QED
      BY <3>1, <3>2, <3>3, <3>4, IssueOK
  <2> QED
    BY <1>1, <2>1, <2>2 DEF issueToken
<1>2. ASSUME NEW i \in Instances, NEW t \in minted, refresh(i, t) PROVE TokenInv'
  <2>1. CASE UNCHANGED <<minted, mints>>
    BY <1>0, <1>2, <2>1 DEF refresh, TokenInv, TypeOK
  <2>2. CASE Refresh(i, t) = "ok" /\ Issue(i, toIdentity(t), t.session)
    <3>1. t \in TokenSet /\ TokenOK(t) /\ t.secret = secret[i]
      BY <2>2, RefreshChecks DEF TokenInv, TypeOK
    <3>2. /\ t.session \in Sessions /\ t.who \in Identities
          /\ t.session.login <= mints
      BY <3>1 DEF TokenSet, TokenOK, Sessions, TokenInv, TypeOK
    <3> QED
      BY <1>2, <2>2, <3>1, <3>2, IssueOK DEF refresh, TokenOK, toIdentity
  <2> QED
    BY <1>2, <2>1, <2>2 DEF refresh
<1>3. ASSUME NEW i \in Instances, NEW s \in Secrets, Restart(i, s) PROVE TokenInv'
  BY <1>0, <1>3 DEF Restart, TokenInv, TypeOK
<1>4. CASE Tick
  BY <1>0, <1>4 DEF Tick, TokenInv, TypeOK
<1>5. CASE UNCHANGED vars
  BY <1>0, <1>5 DEF vars, TokenInv, TypeOK
<1> QED
  BY <1>1, <1>2, <1>3, <1>4, <1>5 DEF Next

\* At first nobody holds a token.
LEMMA TokenInit == Init => TokenInv
BY DEF Init, TokenInv, TypeOK

\* Only valid roles and tenants are ever signed into a token, and the state stays
\* well typed (jwt.go:81-107, identity.go:27-28).
THEOREM TokensTypeCorrect == Spec => []TypeOK
<1>1. TokenInv => TypeOK
  BY DEF TokenInv
<1> QED
  BY <1>1, TokenInit, TokenStep, PTL DEF Spec

\* A Bearer token always stands for the identity of its login (jwt.go:184-196).
THEOREM IdentityAlwaysCarried == Spec => []IdentityCarried
<1>1. TokenInv => IdentityCarried
  <2> SUFFICES ASSUME TokenInv, NEW i \in Instances, NEW t \in minted, NEW k \in KeyAnswers,
                      Authenticate(i, t, k)
               PROVE  resolveIdentity(i, t, k).who = t.session.who
    BY DEF IdentityCarried
  <2>1. t # None /\ TokenOK(t)
    BY NoneAssumption DEF TokenInv, TypeOK
  <2> QED
    BY <2>1, RequestChecks DEF TokenOK
<1> QED
  BY <1>1, TokenInit, TokenStep, PTL DEF Spec

\* Only access tokens open requests, and none does AccessTTL after it was minted,
\* beyond the clocks' skew (jwt.go:134-143).
THEOREM AccessAlwaysBounded == Spec => []AccessBounded
<1>1. TokenInv => AccessBounded
  <2> SUFFICES ASSUME TokenInv, NEW i \in Instances, NEW t \in minted,
                      Authenticate(i, t, "missing")
               PROVE  t.use = "access" /\ now < t.at + AccessTTL + Skew
    BY DEF AccessBounded
  <2>1. t # None /\ TokenOK(t) /\ t \in TokenSet
    BY NoneAssumption DEF TokenInv, TypeOK
  <2>2. ~(t.exp <= Clock(i)) /\ t.use = "access"
    BY <2>1, RequestChecks
  <2>3. /\ t.exp \in Nat /\ t.at \in Nat /\ now \in Nat /\ Offset[i] \in Nat
        /\ AccessTTL \in Nat /\ Skew \in Nat
    BY <2>1, ClockAssumption DEF TokenSet, TokenInv, TypeOK
  <2> QED
    BY <2>1, <2>2, <2>3 DEF TokenOK, TTL, Clock
<1> QED
  BY <1>1, TokenInit, TokenStep, PTL DEF Spec

\* An access token of the instance's secret is refused at most a second and the skew
\* before its time is up (jwt.go:164-182).
THEOREM AlwaysRefusedOnlyWhenDue == Spec => []RefusedOnlyWhenDue
<1>1. TokenInv => RefusedOnlyWhenDue
  <2> SUFFICES ASSUME TokenInv, NEW i \in Instances, NEW t \in minted,
                      t.use = "access", t.secret = secret[i],
                      ~Authenticate(i, t, "missing")
               PROVE  now + Precision + Skew > t.at + AccessTTL
    BY DEF RefusedOnlyWhenDue
  <2>1. t # None /\ TokenOK(t) /\ t \in TokenSet
    BY NoneAssumption DEF TokenInv, TypeOK
  <2>2. t.exp <= Clock(i)
    BY <2>1 DEF Authenticate, resolveIdentity, Validate, parse
  <2>3. /\ t.exp \in Nat /\ t.at \in Nat /\ now \in Nat
        /\ Offset[i] \in Nat /\ Offset[i] <= Skew
        /\ AccessTTL \in Nat /\ Skew \in Nat /\ Precision \in Nat
    BY <2>1, ClockAssumption DEF TokenSet, TokenInv, TypeOK
  <2> QED
    BY <2>1, <2>2, <2>3 DEF TokenOK, TTL, Clock
<1> QED
  BY <1>1, TokenInit, TokenStep, PTL DEF Spec

\* No session outlives the secret it began under (jwt.go:164-182).
THEOREM SecretAlwaysRetired == Spec => []SecretRetired
<1>1. TokenInv => SecretRetired
  <2> SUFFICES ASSUME TokenInv, NEW i \in Instances, NEW t \in minted,
                      Authenticate(i, t, "missing")
               PROVE  t.session.secret = secret[i]
    BY DEF SecretRetired
  <2>1. t # None /\ TokenOK(t)
    BY NoneAssumption DEF TokenInv, TypeOK
  <2> QED
    BY <2>1, RequestChecks DEF TokenOK
<1> QED
  BY <1>1, TokenInit, TokenStep, PTL DEF Spec

\* A lapsed session is never refreshed (jwt.go:147-160): a token that could be
\* refreshed has not lapsed, and a login begins a session of its own.
THEOREM LapsedForGood == Spec => StaysLapsed
<1> DEFINE Stays == \A t \in minted : Lapsed(t.session) =>
                      \A u \in minted' \ minted : u.session # t.session
<1>1. TokenInv /\ [Next]_vars => [Stays]_vars
  <2> SUFFICES ASSUME TokenInv, Next, NEW t \in minted, Lapsed(t.session),
                      NEW u \in minted' \ minted
               PROVE  u.session # t.session
    OBVIOUS
  <2>1. ASSUME NEW i \in Instances, NEW b \in Bodies, issueToken(i, b)
        PROVE  u.session # t.session
    <3>1. PICK use \in {"access", "refresh"} :
            u = sign(i, Caller(b), use,
                     [who |-> Caller(b), secret |-> secret[i], login |-> mints])
      BY <2>1 DEF issueToken, Issue
    <3>2. u.session.login = mints
      BY <3>1 DEF sign
    <3>3. t.session.login < mints /\ mints \in Nat /\ t.session.login \in Nat
      BY DEF TokenInv, TokenOK, TypeOK, TokenSet, Sessions
    <3> QED
      BY <3>2, <3>3
  <2>2. ASSUME NEW i \in Instances, NEW p \in minted, refresh(i, p)
        PROVE  u.session # t.session
    <3>1. PICK use \in {"access", "refresh"} : u = sign(i, toIdentity(p), use, p.session)
      BY <2>2 DEF refresh, Issue
    <3>2. u.session = p.session
      BY <3>1 DEF sign
    <3>3. Refresh(i, p) = "ok"
      BY <2>2 DEF refresh
    <3>4. ~(p.exp <= Clock(i)) /\ TokenOK(p) /\ p \in TokenSet
      BY <3>3, RefreshChecks DEF TokenInv, TypeOK
    <3>5. /\ p.exp \in Nat /\ p.at \in Nat /\ now \in Nat /\ Offset[i] \in Nat
          /\ Skew \in Nat /\ TTL(p.use) \in Nat
      BY <3>4, ClockAssumption, TTLType DEF TokenSet, TokenInv, TypeOK
    <3>6. ~(now >= p.at + TTL(p.use) + Skew)
      BY <3>4, <3>5 DEF TokenOK, Clock
    <3> QED
      BY <3>2, <3>6 DEF Lapsed
  <2>3. ASSUME minted' = minted PROVE FALSE
    BY <2>3
  <2> QED
    BY <2>1, <2>2, <2>3 DEF Next, Restart, Tick
<1> QED
  BY <1>1, TokenInit, TokenStep, PTL DEF Spec, StaysLapsed
=============================================================================
