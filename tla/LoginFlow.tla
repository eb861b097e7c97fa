----------------------------- MODULE LoginFlow -----------------------------
(***************************************************************************)
(* The browser's sign-ins and sign-outs (backend/app/api/auth.py), among   *)
(* its other requests, through the gate each passes (AuthGate) and the     *)
(* hooks around it (api/oidc_hooks.py): the login that sends the user to   *)
(* the provider with an encrypted state, the code the provider grants, the *)
(* callback that exchanges it, and the logout.  Requests are sent with the *)
(* cookies the browser has then, and answered in any order.  The provider, *)
(* here, gives the same refresh token as long as a session lasts.          *)
(***************************************************************************)
EXTENDS AuthGate

CONSTANTS
    Requests,       \* bound: the requests under way, by name
    Logins,         \* bound: the logins, by number
    MaxDoings       \* bound: the user's requests, what the provider does, what fails

ASSUME LoginAssumption == Logins \subseteq Nat \ {0} /\ MaxDoings \in Nat

VARIABLES
    req,            \* the requests
    login,          \* each login: its state and its code
    doings,         \* what MaxDoings bounds
    stands,         \* history: the session of the last sign-in answered, 0 for a sign-out
    disturbed,      \* history: an answer since of another session's refresh
    broken          \* history: a call of the provider's failed

loginVars == <<authVars, req, login, doings, stands, disturbed, broken>>

NoRequest ==
    [at |-> "none", route |-> "none", login |-> 0, with |-> NoCookies, hook |-> Keep,
     own |-> Keep, signed |-> 0]

\* The state of a login, which the provider brings back with its code.
NoLogin == [at |-> "none", aged |-> FALSE, session |-> 0]
Asked == [NoLogin EXCEPT !.at = "asked"]

LoginInit ==
    /\ AuthInit
    /\ req = [r \in Requests |-> NoRequest]
    /\ login = [l \in Logins |-> NoLogin]
    /\ doings = 0 /\ stands = 1 /\ disturbed = FALSE /\ broken = FALSE

Does == doings < MaxDoings /\ doings' = doings + 1

----------------------------------------------------------------------------
(* The browser.                                                            *)

Sends(r, route, l) ==
    /\ req[r] = NoRequest
    /\ req' = [req EXCEPT ![r] = [NoRequest EXCEPT !.at = "sent", !.route = route,
                                                   !.login = l, !.with = jar]]
    /\ UNCHANGED <<authVars, login, stands, disturbed, broken>>

\* An API call of a page's, and the user's sign-in and sign-out.
AsksApi(r) == Does /\ \E route \in {"api", "logout"} : Sends(r, route, 0)
AsksLogin(r) == Does /\ \E l \in Logins : login[l] = NoLogin /\ Sends(r, "login", l)

\* The provider sends the user back with a code; the page may be loaded again.
FollowsBack(r) ==
    \E l \in Logins :
        /\ IF login[l].at = "granted" /\ \A q \in Requests : req[q].login # l
           THEN UNCHANGED doings ELSE login[l].at \in {"granted", "used"} /\ Does
        /\ Sends(r, "callback", l)

----------------------------------------------------------------------------
(* The backend.                                                            *)

\* before_request: the auth routes are public and check no role, and an answer of
\* the gate's own is the request's.
Admitted(r, gate) ==
    \/ gate.who = "served"
    \/ req[r].route # "api" /\ gate.who \in {"refused", "forbidden"}
Hooked(r, gate) ==
    /\ req[r].at = "sent"
    /\ req' = [req EXCEPT ![r].at = IF Admitted(r, gate) THEN "view" ELSE "answered",
                          ![r].hook = gate.set]
    /\ UNCHANGED <<authVars, login, stands, disturbed>>
BeforeRequest(r) == Hooked(r, Gate(req[r].with, idp.session)) /\ UNCHANGED <<doings, broken>>
BeforeRequestFails(r) ==
    (\E gate \in FailingGate(req[r].with) : Hooked(r, gate)) /\ Does /\ broken' = TRUE

Responds(r, own, signed) ==
    req' = [req EXCEPT ![r].at = "answered", ![r].own = own, ![r].signed = signed]

CallsView(r) ==
    /\ req[r].at = "view" /\ req[r].route = "api"
    /\ Responds(r, Keep, 0)
    /\ UNCHANGED <<authVars, login, doings, stands, disturbed, broken>>

\* login: its state, with the code's verifier, is made now.
Begins(r) ==
    /\ req[r].at = "view" /\ req[r].route = "login"
    /\ Responds(r, Keep, 0)
    /\ login' = [login EXCEPT ![req[r].login] = Asked]
    /\ UNCHANGED <<authVars, doings, stands, disturbed, broken>>

\* The provider takes a code once, while its session lasts.
Good(l) == login[l].at = "granted" /\ login[l].session = idp.session

\* callback: a state that is too old is refused.
Exchanges(r) ==
    LET l == req[r].login IN
    /\ req[r].at = "view" /\ req[r].route = "callback"
    /\ IF login[l].aged \/ ~Good(l) THEN Responds(r, Keep, 0)
       ELSE Responds(r, Cookies(idp.epoch, idp.session), idp.session)
    /\ login' = IF login[l].aged THEN login ELSE [login EXCEPT ![l].at = "used"]
    /\ UNCHANGED <<authVars, doings, stands, disturbed, broken>>

\* The exchange's call fails, its code taken or not, or its token is refused.
ExchangeFails(r) ==
    /\ req[r].at = "view" /\ req[r].route = "callback" /\ ~login[req[r].login].aged
    /\ Responds(r, Keep, 0)
    /\ \E at \in {login[req[r].login].at, "used"} : login' = [login EXCEPT ![req[r].login].at = at]
    /\ Does /\ broken' = TRUE
    /\ UNCHANGED <<authVars, stands, disturbed>>

LogsOut(r) ==
    /\ req[r].at = "view" /\ req[r].route = "logout"
    /\ Responds(r, NoCookies, 0)
    /\ UNCHANGED <<authVars, login, doings, stands, disturbed, broken>>

\* Mutant: logout does not keep a refresh's cookies from being set.
CookiesOfRefresh(x) ==
    IF x.hook = NoCookies THEN NoCookies ELSE IF x.hook # Keep THEN x.hook ELSE x.own

\* after_request, over what the view has set: a refresh that failed or a logout
\* clears the cookies, and a refresh's are set.
CookiesOf(x) ==
    IF NoCookies \in {x.hook, x.own} THEN NoCookies
    ELSE IF x.hook # Keep THEN x.hook ELSE x.own

\* The browser has the answer.
AnswerArrives(r) ==
    LET x == req[r]
        out == x.own = NoCookies
        since == IF x.signed # 0 THEN x.signed ELSE IF out THEN 0 ELSE stands IN
    /\ x.at = "answered"
    /\ jar' = Applied(CookiesOf(x))
    /\ stands' = since
    /\ disturbed' = IF out THEN FALSE
                    ELSE \/ disturbed /\ x.signed = 0
                         \/ x.hook # Keep /\ x.with.refresh # since
    /\ req' = [req EXCEPT ![r] = NoRequest]
    /\ UNCHANGED <<idp, login, doings, broken>>

----------------------------------------------------------------------------
(* The provider (external).                                                *)

\* The user signs in there: the session it has, or a new one.
Grants(l) ==
    /\ login[l].at = "asked"
    /\ LET s == IF idp.session = 0 THEN idp.last + 1 ELSE idp.session IN
       /\ idp' = [idp EXCEPT !.session = s, !.last = IF s > @ THEN s ELSE @]
       /\ login' = [login EXCEPT ![l].at = "granted", ![l].session = s]
    /\ UNCHANGED <<jar, req, doings, stands, disturbed, broken>>

\* Ten minutes pass over a state.
Ages(l) ==
    /\ login[l].at \notin {"none", "used"} /\ ~login[l].aged
    /\ login' = [login EXCEPT ![l].aged = TRUE]
    /\ Does
    /\ UNCHANGED <<authVars, req, stands, disturbed, broken>>

ProviderActs ==
    /\ Expire \/ EndSession \/ LoseRole
    /\ Does
    /\ UNCHANGED <<req, login, stands, disturbed, broken>>

LoginNext ==
    \/ \E r \in Requests :
         \/ AsksApi(r) \/ AsksLogin(r) \/ FollowsBack(r)
         \/ BeforeRequest(r) \/ BeforeRequestFails(r)
         \/ CallsView(r) \/ Begins(r) \/ Exchanges(r) \/ ExchangeFails(r) \/ LogsOut(r)
         \/ AnswerArrives(r)
    \/ \E l \in Logins : Grants(l) \/ Ages(l)
    \/ ProviderActs

LoginSpec == LoginInit /\ [][LoginNext]_loginVars

----------------------------------------------------------------------------
\* No cookie is of a session the provider has not had.
LoginTypeOK ==
    /\ AuthTypeOK /\ {jar.refresh, idp.session} \subseteq 0..idp.last
    /\ \A r \in Requests :
         /\ req[r].at \in {"none", "sent", "view", "answered"}
         /\ req[r].with \in [access : Nat, refresh : 0..idp.last]
         /\ req[r].login \in Logins \cup {0} /\ req[r].signed \in 0..idp.last
    /\ \A l \in Logins : login[l].at \in {"none", "asked", "granted", "used"}
    /\ doings \in 0..MaxDoings /\ stands \in 0..idp.last
    /\ disturbed \in BOOLEAN /\ broken \in BOOLEAN

\* The browser is signed in as its last sign-in or sign-out left it
\* ("302: Redirect to original redirect URL with access token cookie set", callback;
\* "a token refresh the request hook just made cannot put fresh cookies back",
\* logout), whatever requests of it race: until that session is over, a call of the
\* provider's fails, or a request is answered that was sent with another session's
\* refresh token.  The callback's own may be that one: the hook's refresh of it
\* then takes the place of what the callback set.
CookiesStand ==
    ~disturbed =>
        \/ jar.refresh = stands
        \/ jar.refresh = 0 /\ (stands # idp.session \/ broken)
=============================================================================
