------------------------------ MODULE Sessions ------------------------------
(***************************************************************************)
(* Login, refresh and the check of access tokens (internal/user,           *)
(* internal/auth/jwt.go, internal/middleware/jwt.go), next to the          *)
(* registrations of Accounts.                                              *)
(*                                                                         *)
(* Nothing is stored of a token: it is what it says, and it is valid until *)
(* its own expiry.  A tick is a second, in which exp is counted; tokens of *)
(* one user, kind and second are one and the same token.  `left' is the    *)
(* number of ticks a token is still valid.                                 *)
(***************************************************************************)
EXTENDS Accounts

CONSTANTS
    PasswordOf,   \* PasswordOf[r] is the password in the body of request r
    AccessTTL,    \* fifteen minutes, in ticks
    RefreshTTL    \* seven days, in ticks

ASSUME SessionsAssumption ==
    /\ AccessTTL \in Nat \ {0}
    /\ RefreshTTL \in Nat /\ RefreshTTL >= AccessTTL

VARIABLES
    tokens,   \* the tokens that were issued, the expired ones among them
    used,     \* the refresh tokens that were used (history)
    shown,    \* shown[n]: the request whose password the last login of n showed (history)
    idle      \* idle[n]: ticks since the last login or refresh of n (history)

sessionVars == <<tokens, used, shown, idle>>
allVars     == <<accountVars, sessionVars>>

TTLOf(kind) == IF kind = "access" THEN AccessTTL ELSE RefreshTTL
Tokens == [user : Names, kind : {"access", "refresh"}, left : 0 .. RefreshTTL]

-----------------------------------------------------------------------------
GenerateTokenPair(n) ==
    {[user |-> n, kind |-> k, left |-> TTLOf(k)] : k \in {"access", "refresh"}}

\* The signature holds for tokens that were issued.
ValidateToken(t) == t \in tokens /\ t.left > 0

\* Mutant: the Type claim is not looked at.
AuthMiddlewareAnyType(t) == ValidateToken(t)

\* The request goes on as t.user.
AuthMiddleware(t) == ValidateToken(t) /\ t.kind = "access"

\* Mutant: the Type claim is not looked at.
RefreshableAnyType(t) == ValidateToken(t)

\* RefreshTokenPair accepts t.
Refreshable(t) == ValidateToken(t) /\ t.kind = "refresh"

Issue(n) ==
    /\ tokens' = tokens \cup GenerateTokenPair(n)
    /\ idle' = [idle EXCEPT ![n] = 0]

-----------------------------------------------------------------------------
\* With the password of r.  A name that is not there, a wrong password and a
\* failing query are a 401.
LoginUser(n, r) ==
    /\ Taken(n) /\ FreeConn
    /\ PasswordOf[accounts[n]] = PasswordOf[r]
    /\ Issue(n)
    /\ shown' = [shown EXCEPT ![n] = r]
    /\ UNCHANGED used

RefreshTokenPair(t) ==
    /\ Refreshable(t)
    /\ Issue(t.user)
    /\ used' = used \cup {t}
    /\ UNCHANGED shown

Older(ts) == {[t EXCEPT !.left = IF @ = 0 THEN 0 ELSE @ - 1] : t \in ts}

\* idle is counted as far as the properties can tell.
Tick ==
    /\ tokens' = Older(tokens)
    /\ used' = Older(used)
    /\ idle' = [n \in Names |-> IF idle[n] = RefreshTTL THEN RefreshTTL ELSE idle[n] + 1]
    /\ UNCHANGED shown

-----------------------------------------------------------------------------
SessionsInit ==
    /\ AccountsInit
    /\ tokens = {} /\ used = {}
    /\ shown = [n \in Names |-> None]
    /\ idle = [n \in Names |-> RefreshTTL]

SessionStep == \/ \E n \in Names, r \in Requests : LoginUser(n, r)
               \/ \E t \in tokens : RefreshTokenPair(t)
               \/ Tick

SessionsNext == \/ AccountsNext /\ UNCHANGED sessionVars
                \/ SessionStep /\ UNCHANGED accountVars

SessionsSpec     == SessionsInit /\ [][SessionsNext]_allVars
SessionsFairSpec == SessionsSpec /\ RegistrationsFair

-----------------------------------------------------------------------------
\* The types of the variables; a used token is a refresh token that was issued.
SessionsTypeOK ==
    /\ tokens \subseteq Tokens
    /\ used \subseteq {t \in tokens : t.kind = "refresh"}
    /\ shown \in [Names -> Requests \cup {None}]
    /\ idle \in [Names -> 0 .. RefreshTTL]

\* A session that is not renewed ends (jwt.go:41-62, middleware/jwt.go:34-50):
\* AccessTTL after a user's last login or refresh no token of hers opens the
\* API, RefreshTTL after it none renews the session, whichever of her tokens
\* are around and whatever they are presented as.
SessionsEnd ==
    \A t \in tokens :
       /\ AuthMiddleware(t) => idle[t.user] < AccessTTL
       /\ Refreshable(t)    => idle[t.user] < RefreshTTL

\* A session is its account's (service.go:33-35, 79-86): whoever holds a token
\* of a user showed the password that the user's row still has, however
\* registrations of the name race with the login.
SessionsOfOwner ==
    \A t \in tokens :
       /\ Taken(t.user) /\ shown[t.user] # None
       /\ PasswordOf[shown[t.user]] = PasswordOf[accounts[t.user]]
=============================================================================
