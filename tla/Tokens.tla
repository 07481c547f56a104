------------------------------- MODULE Tokens -------------------------------
(***************************************************************************)
(* Tokens and who a request is taken for: the token and refresh endpoints, *)
(* the Issuer, and the Authenticate middleware, in several instances whose *)
(* clocks differ and which may be restarted with another JWT_SECRET.       *)
(* (internal/auth/jwt.go, handler.go, gateway/middleware/auth.go)          *)
(*                                                                         *)
(* The gateway keeps no token: minted is what clients hold.  Authenticate  *)
(* changes nothing either; it is an operator, and the properties ask what  *)
(* it would answer at every moment.  Time counts in ticks, of which        *)
(* Precision make the second that token times are cut to.                  *)
(*                                                                         *)
(* A definition whose name ends in a fault (ValidateAnyUse, ...) stands    *)
(* just before the one it is a wrong version of; no step uses it.          *)
(***************************************************************************)
EXTENDS Integers, FiniteSets

CONSTANTS
    Instances,
    Offset,      \* per instance: how far its clock is ahead of the slowest
    Skew,        \* bound of Offset
    Secrets,     \* values of JWT_SECRET
    Tenants, Users,
    Scopes,      \* region and supplier, each of which may be empty
    Generated,   \* a user id made by uuid.NewString
    Bodies,      \* what clients post to the token endpoint
    Partner,     \* the identity of an API key
    AccessTTL, RefreshTTL, Precision,
    MaxTime, MaxMints, MaxRestarts,   \* bounds of the model
    None

Roles == {"admin", "supplier", "warehouse_manager", "analyst"}
Identities == [tenant : Tenants, user : Users \cup {Generated}, role : Roles,
               scope : Scopes]

ASSUME ClockAssumption ==
    /\ Skew \in Nat
    /\ Offset \in [Instances -> 0..Skew]
    /\ Precision \in Nat \ {0}
    /\ AccessTTL \in Nat /\ RefreshTTL \in Nat
    /\ MaxTime \in Nat /\ MaxMints \in Nat /\ MaxRestarts \in Nat
ASSUME BodyAssumption ==
    Bodies \subseteq [tenant : Tenants \cup {""}, user : Users \cup {""},
                      role : Roles \cup {"unknown"}, scope : Scopes]

TTL(use) == IF use = "access" THEN AccessTTL ELSE RefreshTTL

\* A session is what a login began: who was granted what, under which secret, and
\* the number of the login.  at, the time of minting, and session are history; the
\* rest is signed into the token.
Sessions == [who : Identities, secret : Secrets, login : Nat]
TokenSet == [use : {"access", "refresh"}, who : Identities, secret : Secrets,
             exp : Nat, at : Nat, session : Sessions]

ASSUME NoneAssumption == None \notin TokenSet

VARIABLES
    now,       \* time on the slowest clock
    secret,    \* per instance: the secret it was started with
    restarts,  \* restarts so far
    minted,    \* tokens handed out
    mints      \* pairs handed out so far

vars == <<now, secret, restarts, minted, mints>>

TypeOK ==
    /\ now \in Nat
    /\ secret \in [Instances -> Secrets]
    /\ restarts \in Nat
    /\ minted \subseteq TokenSet
    /\ mints \in Nat

Init ==
    /\ now = 0
    /\ secret \in {[i \in Instances |-> s] : s \in Secrets}
    /\ restarts = 0
    /\ minted = {}
    /\ mints = 0

Clock(i) == now + Offset[i]

\* NewNumericDate cuts a time to the second.
NumericDate(t) == t - (t % Precision)

-----------------------------------------------------------------------------
(* Issuer                                                                  *)

sign(i, who, use, session) ==
    [use |-> use, who |-> who, secret |-> secret[i],
     exp |-> NumericDate(Clock(i) + TTL(use)), at |-> now, session |-> session]

\* The pair is handed out; an unknown role or an empty name never gets here.
Issue(i, who, session) ==
    /\ mints < MaxMints
    /\ mints' = mints + 1
    /\ minted' = minted \cup {sign(i, who, use, session) : use \in {"access", "refresh"}}

parseIssuedAt(i, t) ==
    IF t.secret # secret[i] THEN "invalid"
    ELSE IF t.exp <= Clock(i) THEN "expired"
    ELSE IF Clock(i) < t.exp - TTL(t.use) THEN "invalid"
    ELSE "ok"

parseUnsigned(i, t) == IF t.exp <= Clock(i) THEN "expired" ELSE "ok"

\* The signature first, then exp; iat is not looked at.  A text that is no token at
\* all fails as one of another secret does.
parse(i, t) ==
    IF t.secret # secret[i] THEN "invalid"
    ELSE IF t.exp <= Clock(i) THEN "expired"
    ELSE "ok"

\* The role in a signed token is valid: only issueToken brings new ones in.
toIdentity(t) == t.who

ValidateAnyUse(i, t) == parse(i, t)

Validate(i, t) ==
    IF parse(i, t) = "ok" /\ t.use # "access" THEN "wrong use" ELSE parse(i, t)

RefreshLate(i, t) ==
    IF t.use # "refresh" THEN "wrong use"
    ELSE IF t.secret # secret[i] THEN "invalid"
    ELSE "ok"

Refresh(i, t) ==
    IF parse(i, t) = "ok" /\ t.use # "refresh" THEN "wrong use" ELSE parse(i, t)

-----------------------------------------------------------------------------
(* Endpoints                                                               *)

\* The identity a body asks for; a missing user id is made up.
Caller(b) == [b EXCEPT !.user = IF b.user = "" THEN Generated ELSE b.user]

issueTokenAnyRole(i, b) ==
    /\ b.tenant # ""
    /\ Issue(i, Caller(b), [who |-> Caller(b), secret |-> secret[i], login |-> mints])
    /\ UNCHANGED <<now, secret, restarts>>

\* POST /v1/auth/token.
issueToken(i, b) ==
    /\ \/ /\ b.tenant = "" \/ b.role \notin Roles
          /\ UNCHANGED <<minted, mints>>
       \/ /\ b.tenant # "" /\ b.role \in Roles
          /\ Issue(i, Caller(b), [who |-> Caller(b), secret |-> secret[i], login |-> mints])
    /\ UNCHANGED <<now, secret, restarts>>

\* POST /v1/auth/refresh with a token some instance minted.  It is not used up.
refresh(i, t) ==
    /\ \/ /\ Refresh(i, t) # "ok"
          /\ UNCHANGED <<minted, mints>>
       \/ /\ Refresh(i, t) = "ok"
          /\ Issue(i, toIdentity(t), t.session)
    /\ UNCHANGED <<now, secret, restarts>>

-----------------------------------------------------------------------------
(* Authenticate                                                            *)

\* What the key store makes of the X-API-Key header, absent is "missing"; with no
\* store every key is "invalid".
KeyAnswers == {"ok", "expired", "invalid", "missing"}

resolveIdentityFallback(i, t, k) ==
    IF t # None /\ Validate(i, t) = "ok"
    THEN [answer |-> "ok", who |-> toIdentity(t)]
    ELSE [answer |-> k, who |-> IF k = "ok" THEN Partner ELSE None]

\* A Bearer token takes precedence, also when it is no good.
resolveIdentity(i, t, k) ==
    IF t # None
    THEN [answer |-> Validate(i, t),
          who |-> IF Validate(i, t) = "ok" THEN toIdentity(t) ELSE None]
    ELSE [answer |-> k, who |-> IF k = "ok" THEN Partner ELSE None]

\* The chain goes on with the identity, or the request is answered 401.
Authenticate(i, t, k) == resolveIdentity(i, t, k).answer = "ok"

-----------------------------------------------------------------------------

\* An instance is restarted, perhaps with another secret.
Restart(i, s) ==
    /\ restarts < MaxRestarts
    /\ restarts' = restarts + 1
    /\ secret' = [secret EXCEPT ![i] = s]
    /\ UNCHANGED <<now, minted, mints>>

Tick ==
    /\ now < MaxTime
    /\ now' = now + 1
    /\ UNCHANGED <<secret, restarts, minted, mints>>

Next ==
    \/ \E i \in Instances, b \in Bodies : issueToken(i, b)
    \/ \E i \in Instances, t \in minted : refresh(i, t)
    \/ \E i \in Instances, s \in Secrets : Restart(i, s)
    \/ Tick

Spec == Init /\ [][Next]_vars

-----------------------------------------------------------------------------
(* Properties                                                              *)

\* A request that passes on a Bearer token has exactly the identity its login was
\* granted, after any number of refreshes, on any instance and whatever X-API-Key
\* it also carries (jwt.go:184-196, auth.go:61-74).
IdentityCarried ==
    \A i \in Instances, t \in minted, k \in KeyAnswers :
        Authenticate(i, t, k) =>
            resolveIdentity(i, t, k).who = t.session.who

\* "Short-lived access tokens" (README.md:107, jwt.go:20-21): what opens a request is
\* an access token, minted less than AccessTTL ago, give or take the clocks; the
\* refresh token of the pair never does (jwt.go:134-143).
AccessBounded ==
    \A i \in Instances, t \in minted :
        Authenticate(i, t, "missing") =>
            t.use = "access" /\ now < t.at + AccessTTL + Skew

\* An access token works wherever its secret is known until its time is up, give or
\* take the clocks and the second lost to rounding (jwt.go:119-120): at once, too,
\* on an instance whose clock is behind that of the one that minted it.
RefusedOnlyWhenDue ==
    \A i \in Instances, t \in minted :
        t.use = "access" /\ t.secret = secret[i]
            /\ ~Authenticate(i, t, "missing") =>
                now + Precision + Skew > t.at + AccessTTL

\* A session stays under the secret it began with, through refreshes and restarts
\* one instance at a time: replacing JWT_SECRET ends it (jwt.go:164-182).
SecretRetired ==
    \A i \in Instances, t \in minted :
        Authenticate(i, t, "missing") => t.session.secret = secret[i]

\* Every token of the session is past its time on every clock.
Lapsed(s) == \A t \in minted : t.session = s => now >= t.at + TTL(t.use) + Skew

\* A session that lapsed is over: it is never refreshed again (jwt.go:147-160).
StaysLapsed ==
    [][\A t \in minted : Lapsed(t.session) =>
         \A u \in minted' \ minted : u.session # t.session]_vars
=============================================================================
