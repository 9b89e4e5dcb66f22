------------------------------- MODULE Session -------------------------------
(***************************************************************************)
(* An administrator's session in one browser: the cookie that all tabs     *)
(* share and whose value is the backend's token, the dashboard server that *)
(* reads, sets and clears it, and the tabs' calls and navigations.         *)
(*                                                                         *)
(* A call carries the cookie of the moment it is sent; what its answer     *)
(* does to the cookie, it does to the cookie of the moment it arrives.     *)
(***************************************************************************)
EXTENDS Naturals

CONSTANTS
  Tab,    \* tabs of the browser
  Token,  \* access tokens that logins may issue; each is issued once
  None    \* no cookie, no call

VARIABLES
  jar,      \* the cookie eg_session
  issued,   \* tokens the backend has issued
  alive,    \* those it accepts: not expired, their administrator active
  at,       \* at[t]: the page of tab t, or where it is on its way
  get,      \* get[t]: a data call of t, or None
  sign,     \* sign[t]: the login call of t: asked, or the token in its answer
  out,      \* out[t]: a logout call of t is under way
  refused,  \* refused[t]: the token whose refusal sent t to the login page
  used      \* history: tokens that have been in the jar

vars == <<jar, issued, alive, at, get, sign, out, refused, used>>

Place == {"app", "login", "leaving", "entering"}
Asked == "asked"

ASSUME SessionAssumption == None \notin Token /\ Asked \notin Token

Call == [token : Token \cup {None}, phase : {"asked", "ok", "refused"}]

TypeOK ==
  /\ jar \in Token \cup {None}
  /\ issued \subseteq Token
  /\ alive \subseteq issued
  /\ at \in [Tab -> Place]
  /\ get \in [Tab -> Call \cup {None}]
  /\ sign \in [Tab -> Token \cup {None, Asked}]
  /\ out \in [Tab -> BOOLEAN]
  /\ refused \in [Tab -> Token \cup {None}]
  /\ used \subseteq issued

\* Nobody is signed in, and the tabs show the login page.
Init ==
  /\ jar = None
  /\ issued = {}
  /\ alive = {}
  /\ at = [t \in Tab |-> "login"]
  /\ get = [t \in Tab |-> None]
  /\ sign = [t \in Tab |-> None]
  /\ out = [t \in Tab |-> FALSE]
  /\ refused = [t \in Tab |-> None]
  /\ used = {}

-----------------------------------------------------------------------------
(* Signing in. *)

\* handleSubmit; a second submission is ignored while one is under way.
Submit(t) ==
  /\ at[t] = "login"
  /\ sign[t] = None
  /\ sign' = [sign EXCEPT ![t] = Asked]
  /\ UNCHANGED <<jar, issued, alive, at, get, out, refused, used>>

\* The backend accepts the password and issues a token.
Issue(t, k) ==
  /\ sign[t] = Asked
  /\ k \in Token \ issued
  /\ issued' = issued \cup {k}
  /\ alive' = alive \cup {k}
  /\ sign' = [sign EXCEPT ![t] = k]
  /\ UNCHANGED <<jar, at, get, out, refused, used>>

\* The password is wrong, or the call or its answer is lost: the form says so.
Reject(t) ==
  /\ sign[t] # None
  /\ sign' = [sign EXCEPT ![t] = None]
  /\ UNCHANGED <<jar, issued, alive, at, get, out, refused, used>>

\* The answer sets the cookie; the form goes on to the page that was wanted,
\* without a reload.
SignedIn(t) ==
  /\ sign[t] \in Token
  /\ jar' = sign[t]
  /\ used' = used \cup {sign[t]}
  /\ sign' = [sign EXCEPT ![t] = None]
  /\ at' = [at EXCEPT ![t] = "entering"]
  /\ UNCHANGED <<issued, alive, get, out, refused>>

-----------------------------------------------------------------------------
(* The dashboard server's proxy looks for a cookie, and no more. *)

Admitted == IF jar = None THEN "login" ELSE "app"

\* A soft navigation: what the tab holds in memory stays, calls go on.
Enter(t) ==
  /\ at[t] = "entering"
  /\ at' = [at EXCEPT ![t] = Admitted]
  /\ UNCHANGED <<jar, issued, alive, get, sign, out, refused, used>>

Follow(t) ==
  /\ at[t] = "app"
  /\ at' = [at EXCEPT ![t] = Admitted]
  /\ UNCHANGED <<jar, issued, alive, get, sign, out, refused, used>>

\* A page is loaded anew: the calls of the old one are given up.
Load(t) ==
  /\ at' = [at EXCEPT ![t] = Admitted]
  /\ get' = [get EXCEPT ![t] = None]
  /\ sign' = [sign EXCEPT ![t] = None]
  /\ out' = [out EXCEPT ![t] = FALSE]
  /\ refused' = [refused EXCEPT ![t] = None]
  /\ UNCHANGED <<jar, issued, alive, used>>

\* ... by window.location, or by the administrator.
Arrive(t) == at[t] = "leaving" /\ Load(t)
Reload(t) == at[t] \in {"app", "login"} /\ Load(t)

-----------------------------------------------------------------------------
(* Data calls; the notifier's poll is always among them. *)

Send(t) ==
  /\ at[t] = "app"
  /\ get[t] = None
  /\ get' = [get EXCEPT ![t] = [token |-> jar, phase |-> "asked"]]
  /\ UNCHANGED <<jar, issued, alive, at, sign, out, refused, used>>

\* The route refuses a call without a cookie itself, the backend one whose
\* token has expired or whose administrator is gone or inactive.
Decide(t) ==
  /\ get[t] # None
  /\ get[t].phase = "asked"
  /\ get' = [get EXCEPT ![t].phase = IF get[t].token \in alive THEN "ok" ELSE "refused"]
  /\ UNCHANGED <<jar, issued, alive, at, sign, out, refused, used>>

\* A plausible slip: each answer sets the cookie anew, to prolong the session.
ReceiveRenews(t) ==
  /\ get[t] # None
  /\ get[t].phase = "ok"
  /\ get' = [get EXCEPT ![t] = None]
  /\ jar' = get[t].token
  /\ UNCHANGED <<issued, alive, at, sign, out, refused, used>>

Receive(t) ==
  /\ get[t] # None
  /\ get[t].phase = "ok"
  /\ get' = [get EXCEPT ![t] = None]
  /\ UNCHANGED <<jar, issued, alive, at, sign, out, refused, used>>

\* A plausible slip: the 401 is relayed, and the cookie stays.
RefusedKeepsCookie(t) ==
  /\ get[t] # None
  /\ get[t].phase = "refused"
  /\ get' = [get EXCEPT ![t] = None]
  /\ at' = [at EXCEPT ![t] = "leaving"]
  /\ refused' = [refused EXCEPT ![t] = get[t].token]
  /\ UNCHANGED <<jar, issued, alive, sign, out, used>>

\* A plausible slip: only the backend's 401 leads to the login page, not the route's own.
RefusedByBackendOnly(t) ==
  /\ get[t] # None
  /\ get[t].phase = "refused"
  /\ get' = [get EXCEPT ![t] = None]
  /\ jar' = IF get[t].token = None THEN jar ELSE None
  /\ at' = [at EXCEPT ![t] = IF get[t].token = None THEN @ ELSE "leaving"]
  /\ refused' = [refused EXCEPT ![t] = IF get[t].token = None THEN @ ELSE get[t].token]
  /\ UNCHANGED <<issued, alive, sign, out, used>>

\* A 401 arrives. If it was the backend's, the answer clears the cookie too,
\* whichever it is by now; handleAuthError leaves for the login page.
Refused(t) ==
  /\ get[t] # None
  /\ get[t].phase = "refused"
  /\ get' = [get EXCEPT ![t] = None]
  /\ jar' = IF get[t].token = None THEN jar ELSE None
  /\ at' = [at EXCEPT ![t] = "leaving"]
  /\ refused' = [refused EXCEPT ![t] = get[t].token]
  /\ UNCHANGED <<issued, alive, sign, out, used>>

\* The call or its answer is lost, or the backend cannot be reached.
Lose(t) ==
  /\ get[t] # None
  /\ get' = [get EXCEPT ![t] = None]
  /\ UNCHANGED <<jar, issued, alive, at, sign, out, refused, used>>

-----------------------------------------------------------------------------
(* Signing out, and the end of tokens. *)

Logout(t) ==
  /\ at[t] = "app"
  /\ ~out[t]
  /\ out' = [out EXCEPT ![t] = TRUE]
  /\ UNCHANGED <<jar, issued, alive, at, get, sign, refused, used>>

\* The answer clears the cookie; the token itself stays good.
LoggedOut(t) ==
  /\ out[t]
  /\ out' = [out EXCEPT ![t] = FALSE]
  /\ jar' = None
  /\ at' = [at EXCEPT ![t] = "leaving"]
  /\ UNCHANGED <<issued, alive, get, sign, refused, used>>

\* It is lost: logout() throws and nothing happens.
LogoutFails(t) ==
  /\ out[t]
  /\ out' = [out EXCEPT ![t] = FALSE]
  /\ UNCHANGED <<jar, issued, alive, at, get, sign, refused, used>>

\* A token expires or its administrator is made inactive.
End(k) ==
  /\ k \in alive
  /\ alive' = alive \ {k}
  /\ UNCHANGED <<jar, issued, at, get, sign, out, refused, used>>

\* maxAge: the cookie ends with the token. (Not when it ends earlier, though.)
Lapse ==
  /\ jar # None
  /\ jar \notin alive
  /\ jar' = None
  /\ UNCHANGED <<issued, alive, at, get, sign, out, refused, used>>

Next ==
  \/ \E t \in Tab : Submit(t)
  \/ \E t \in Tab, k \in Token : Issue(t, k)
  \/ \E t \in Tab : Reject(t)
  \/ \E t \in Tab : SignedIn(t)
  \/ \E t \in Tab : Enter(t)
  \/ \E t \in Tab : Follow(t)
  \/ \E t \in Tab : Arrive(t)
  \/ \E t \in Tab : Reload(t)
  \/ \E t \in Tab : Send(t)
  \/ \E t \in Tab : Decide(t)
  \/ \E t \in Tab : Receive(t)
  \/ \E t \in Tab : Refused(t)
  \/ \E t \in Tab : Lose(t)
  \/ \E t \in Tab : Logout(t)
  \/ \E t \in Tab : LoggedOut(t)
  \/ \E t \in Tab : LogoutFails(t)
  \/ \E k \in Token : End(k)
  \/ Lapse

Spec == Init /\ [][Next]_vars

\* Navigations end, the poll goes on, and some of its answers arrive. Neither
\* the administrator nor the end of a token is promised.
Fairness ==
  \A t \in Tab :
    /\ WF_vars(Enter(t)) /\ WF_vars(Arrive(t))
    /\ WF_vars(Send(t)) /\ SF_vars(Decide(t))
    /\ WF_vars(Receive(t)) /\ SF_vars(Refused(t))

FairSpec == Spec /\ Fairness

-----------------------------------------------------------------------------
(* Properties. *)

\* A tab on its way to the login page because its token was refused does not
\* find that token in the jar again. (If it did, the proxy would send it back
\* to a page whose calls are refused, and so on.)
RefusedIsGone ==
  \A t \in Tab : refused[t] # None => jar # refused[t]

\* Signing out is final, as is a cookie that was cleared or replaced: no call
\* of any tab that was under way then brings the old session back.
SignOutIsFinal == [][jar' # jar => jar' \notin used]_vars

\* A tab that shows the dashboard while the jar holds nothing that the backend
\* accepts ends at the login page, unless somebody signs in meanwhile.
DeadSessionEndsAtLogin ==
  \A t \in Tab :
    (at[t] = "app" /\ jar \notin alive) ~> (at[t] = "login" \/ jar \in alive)

=============================================================================
