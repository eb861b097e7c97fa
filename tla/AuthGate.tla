------------------------------ MODULE AuthGate ------------------------------
(***************************************************************************)
(* The gate every /api request passes (backend/app/utils/auth.py and       *)
(* api/oidc_hooks.py), for a request of the browser's: its auth cookies,   *)
(* what the identity provider makes of them, and the cookies the answer    *)
(* sets.  An access token is the epoch it was issued in, good until the    *)
(* next one begins; a refresh token is a number, good while it is the one  *)
(* of the session there is: the sign-in's, or, of a provider that rotates  *)
(* them, the last refresh's.                                               *)
(***************************************************************************)
EXTENDS Integers

VARIABLES
    jar,            \* the browser's auth cookies
    idp             \* the provider: the epoch, the session's token, the user's role

authVars == <<jar, idp>>

Cookies(access, refresh) == [access |-> access, refresh |-> refresh]
NoCookies == Cookies(0, 0)

\* What an answer does to the cookies: sets these, clears them, or neither.
Keep == Cookies(-1, -1)
Applied(set) == IF set = Keep THEN jar ELSE set

\* Mutant: the refresh token the browser has is kept.
IssuedAccessOnly(token) == Cookies(idp.epoch, idp.session)

\* after_request_set_cookies: a refresh's tokens, the refresh token among them the
\* one it was given, as callback's at a sign-in.
Issued(token) == Cookies(idp.epoch, token)

\* A browser that is signed in, its access token's cookie expired or not.
AuthInit ==
    /\ idp = [epoch |-> 1, session |-> 1, last |-> 1, member |-> TRUE]
    /\ jar \in {Cookies(1, 1), Cookies(0, 1)}

----------------------------------------------------------------------------
GateAnswer(who, set) == [who |-> who, set |-> set]

\* check_authorization, for a GET, of a caller whose token is good.
Checked(set) == GateAnswer(IF idp.member THEN "served" ELSE "forbidden", set)

\* resolve_auth_identity: the access token validates.
Identified(with) == with.access = idp.epoch

\* authenticate_request: a good access token; none or an expired one, and the
\* refresh, which gives this refresh token; a refresh that fails, as one with a
\* token that is good no more, clears the cookies.
Refreshed(with) == ~Identified(with) /\ with.refresh # 0 /\ with.refresh = idp.session
Gate(with, token) ==
    IF Identified(with) THEN Checked(Keep)
    ELSE IF with.refresh = 0 THEN GateAnswer("refused", Keep)
    ELSE IF Refreshed(with) THEN Checked(Issued(token))
    ELSE GateAnswer("refused", NoCookies)

\* One that goes wrong: the access token cannot be validated, which no refresh
\* follows; the refresh's call fails; or the token it gave cannot be validated,
\* which answers 401 on any route, the public ones included.
FailingGate(with) ==
    IF Identified(with) THEN {GateAnswer("refused", Keep)}
    ELSE IF with.refresh = 0 THEN {}
    ELSE {GateAnswer("refused", NoCookies), GateAnswer("failed", Keep)}

----------------------------------------------------------------------------
\* callback: the sign-in, of a new session if there is none.
SignIn ==
    LET last == IF idp.session = 0 THEN idp.last + 1 ELSE idp.last IN
    /\ idp' = [idp EXCEPT !.session = last, !.last = last]
    /\ jar' = Cookies(idp.epoch, last)

\* External: a refresh gives a token, from then on the only one that is good.
Gives(token) ==
    idp' = [idp EXCEPT !.session = token, !.last = IF token > @ THEN token ELSE @]

\* External: the access tokens out expire, the session ends, or the role goes.
Expire == idp' = [idp EXCEPT !.epoch = @ + 1] /\ UNCHANGED jar
EndSession == idp.session # 0 /\ idp' = [idp EXCEPT !.session = 0] /\ UNCHANGED jar
LoseRole == idp.member /\ idp' = [idp EXCEPT !.member = FALSE] /\ UNCHANGED jar

AuthTypeOK ==
    /\ jar \in [access : Nat, refresh : Nat]
    /\ idp \in [epoch : Nat, session : Nat, last : Nat, member : BOOLEAN]
=============================================================================
