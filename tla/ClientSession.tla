---------------------------- MODULE ClientSession ----------------------------
(***************************************************************************)
(* The session of the web client: the login page (app/page.tsx), the       *)
(* interceptors of lib/api.ts, and the layout every other page is wrapped  *)
(* in (components/layout/DashboardLayout.tsx), all under frontend/src.     *)
(*                                                                         *)
(* Tabs share the storage that holds the token, and nothing tells a page   *)
(* that it has changed.  A tab keeps its calls and timers when the router  *)
(* changes the page, and loses them when the browser loads it anew.        *)
(***************************************************************************)
EXTENDS Naturals, FiniteSets

CONSTANTS
    Tabs,
    Users,
    Roles,       \* user |-> names of the roles, in lower case
    NoUser,
    MaxLogins,   \* bound: tokens issued; token n is that of the n-th login
    MaxMounts,   \* bound: pages mounted, the first one of every tab counted once
    MaxCalls     \* bound: calls of a tab in flight

ASSUME SessionAssumption ==
    /\ NoUser \notin Users
    /\ DOMAIN Roles = Users
    /\ MaxLogins \in Nat /\ MaxMounts \in Nat \ {0} /\ MaxCalls \in Nat

Tokens == 1 .. MaxLogins
NoToken == 0

VARIABLES
    stored,    \* access_token in the storage of the browser
    owner,     \* token |-> user it was issued to, NoUser if not issued
    expired,   \* tokens the server refuses
    tab,       \* tab |-> page it shows
    calls,     \* calls in flight
    mounts     \* number of the last mount

vars == <<stored, owner, expired, tab, calls, mounts>>

\* mount: number of the mount; opened: the token stored at the mount; user: the
\* user of the layout; loading: of the login page; redirects: its timers.
TabState == [page : {"login", "app"}, mount : 1 .. MaxMounts,
             opened : Tokens \cup {NoToken}, user : Users \cup {NoUser},
             loading : BOOLEAN, redirects : Nat]

\* A call carries the token stored when it was sent; by: the user a login is for.
Call == [tab : Tabs, mount : 1 .. MaxMounts, kind : {"login", "me"},
         token : Tokens \cup {NoToken}, by : Users \cup {NoUser}]

Init ==
    /\ stored = NoToken
    /\ owner = [t \in Tokens |-> NoUser]
    /\ expired = {}
    /\ tab = [b \in Tabs |-> [page |-> "login", mount |-> 1, opened |-> NoToken,
                              user |-> NoUser, loading |-> FALSE, redirects |-> 0]]
    /\ calls = {}
    /\ mounts = 1

CallsOf(b) == {c \in calls : c.tab = b}
Live(t) == t # NoToken /\ t \notin expired
OfMount(c) == c.mount = tab[c.tab].mount

-----------------------------------------------------------------------------
\* The sidebar.

NavItems == {"/dashboard", "/tasks", "/requests", "/workflows", "/notifications"}

\* filteredNavItems: admins see everything and the console, managers the tasks
\* as well, everybody the dashboard and the alerts.
FilteredNavItems(roles) ==
    IF "admin" \in roles THEN NavItems \cup {"/admin"}
    ELSE IF roles \cap {"manager", "strategic_node"} # {}
         THEN {"/dashboard", "/tasks", "/notifications"}
         ELSE {"/dashboard", "/notifications"}

RolesOf(u) == IF u = NoUser THEN {} ELSE Roles[u]

Navigation(b) ==
    IF tab[b].page = "app" THEN FilteredNavItems(RolesOf(tab[b].user)) ELSE {}

-----------------------------------------------------------------------------
\* Mounting a page.

\* The request interceptor.
Sent(b, kind, by) ==
    [tab |-> b, mount |-> tab'[b].mount, kind |-> kind, token |-> stored, by |-> by]

NewMount == mounts < MaxMounts /\ mounts' = mounts + 1

\* The router shows another page of the tab; timers and calls survive.
Routed(b, page, token) ==
    [tab[b] EXCEPT !.page = page, !.mount = mounts + 1, !.opened = token,
                   !.user = NoUser, !.loading = FALSE]

\* A page with the layout is mounted: fetchUser sends users/me.
MountApp(b, redirects) ==
    /\ NewMount
    /\ Cardinality(CallsOf(b)) < MaxCalls
    /\ tab' = [tab EXCEPT ![b] =
          [Routed(b, "app", stored) EXCEPT !.redirects = redirects]]
    /\ calls' = calls \cup {Sent(b, "me", NoUser)}
    /\ UNCHANGED <<stored, owner, expired>>

\* A link of the sidebar, or the history of the browser.
OpenApp(b) == MountApp(b, tab[b].redirects)

\* The history of the browser leads back to the login page.
OpenLogin(b) ==
    /\ tab[b].page = "app"
    /\ NewMount
    /\ tab' = [tab EXCEPT ![b] = Routed(b, "login", stored)]
    /\ UNCHANGED <<stored, owner, expired, calls>>

-----------------------------------------------------------------------------
\* The login page.

SubmitEnabled(b) == tab[b].page = "login" /\ ~tab[b].loading

\* handleLogin up to its await.
SubmitLogin(b, u) ==
    /\ SubmitEnabled(b)
    /\ Cardinality(CallsOf(b)) < MaxCalls
    /\ tab' = [tab EXCEPT ![b] = [@ EXCEPT !.loading = TRUE]]
    /\ calls' = calls \cup {Sent(b, "login", u)}
    /\ UNCHANGED <<stored, owner, expired, mounts>>

\* finally: the button of the page that sent the call.
Unblocked(c) ==
    [tab[c.tab] EXCEPT !.loading = IF OfMount(c) THEN FALSE ELSE @]

\* Faulty form: the answer is stored before it is looked at.
LoginOkUnissued(c, t) ==
    /\ c \in calls /\ c.kind = "login"
    /\ stored' = t
    /\ tab' = [tab EXCEPT ![c.tab] = [Unblocked(c) EXCEPT !.redirects = @ + 1]]
    /\ calls' = calls \ {c}
    /\ UNCHANGED <<owner, expired, mounts>>

\* The server issues a token; the handler stores it and starts the timer, even
\* if its page has been left meanwhile.
LoginOk(c, t) ==
    /\ c \in calls /\ c.kind = "login"
    /\ owner[t] = NoUser /\ \A s \in Tokens : s < t => owner[s] # NoUser
    /\ owner' = [owner EXCEPT ![t] = c.by]
    /\ stored' = t
    /\ tab' = [tab EXCEPT ![c.tab] = [Unblocked(c) EXCEPT !.redirects = @ + 1]]
    /\ calls' = calls \ {c}
    /\ UNCHANGED <<expired, mounts>>

\* Wrong password (400) or no answer: an error is shown.
LoginFailed(c) ==
    /\ c \in calls /\ c.kind = "login"
    /\ tab' = [tab EXCEPT ![c.tab] = Unblocked(c)]
    /\ calls' = calls \ {c}
    /\ UNCHANGED <<stored, owner, expired, mounts>>

\* The timer of 500 ms ends: router.push("/dashboard").
Redirect(b) ==
    /\ tab[b].redirects > 0
    /\ MountApp(b, tab[b].redirects - 1)

-----------------------------------------------------------------------------
\* The layout and the response interceptor.

\* Faulty form: the user is kept for the next page (a layout above the router).
MeOkAnyMount(c) ==
    /\ c \in calls /\ c.kind = "me" /\ Live(c.token)
    /\ tab' = [tab EXCEPT ![c.tab] =
          [@ EXCEPT !.user = IF @ = NoUser /\ tab[c.tab].page = "app" THEN owner[c.token] ELSE @]]
    /\ calls' = calls \ {c}
    /\ UNCHANGED <<stored, owner, expired, mounts>>

\* fetchUser gets its answer; one for a page that was left changes nothing.
MeOk(c) ==
    /\ c \in calls /\ c.kind = "me" /\ Live(c.token)
    /\ tab' = [tab EXCEPT ![c.tab] =
          [tab[c.tab] EXCEPT !.user = IF OfMount(c) THEN owner[c.token] ELSE @]]
    /\ calls' = calls \ {c}
    /\ UNCHANGED <<stored, owner, expired, mounts>>

\* window.location.href = "/": the tab is loaded anew.
LoadedAnew(b) ==
    tab' = [tab EXCEPT ![b] = [Routed(b, "login", NoToken) EXCEPT !.redirects = 0]]

\* 401, whichever token the call was sent with, and whatever page sent it.
Unauthorised(c) ==
    /\ c \in calls /\ c.kind = "me" /\ ~Live(c.token)
    /\ NewMount
    /\ stored' = NoToken
    /\ LoadedAnew(c.tab)
    /\ calls' = calls \ CallsOf(c.tab)
    /\ UNCHANGED <<owner, expired>>

\* The network fails: only logged.
MeFailed(c) ==
    /\ c \in calls /\ c.kind = "me"
    /\ calls' = calls \ {c}
    /\ UNCHANGED <<stored, owner, expired, tab, mounts>>

\* handleLogout: the token is removed, the router shows the login page.
Logout(b) ==
    /\ tab[b].page = "app"
    /\ NewMount
    /\ stored' = NoToken
    /\ tab' = [tab EXCEPT ![b] = Routed(b, "login", NoToken)]
    /\ UNCHANGED <<owner, expired, calls>>

Expire(t) ==
    /\ owner[t] # NoUser /\ t \notin expired
    /\ expired' = expired \cup {t}
    /\ UNCHANGED <<stored, owner, tab, calls, mounts>>

Answer ==
    \E c \in calls : \/ \E t \in Tokens : LoginOk(c, t)
                     \/ LoginFailed(c) \/ MeOk(c) \/ Unauthorised(c) \/ MeFailed(c)

Next ==
    \/ \E b \in Tabs : \/ OpenApp(b) \/ OpenLogin(b) \/ Redirect(b) \/ Logout(b)
                       \/ \E u \in Users : SubmitLogin(b, u)
    \/ Answer
    \/ \E t \in Tokens : Expire(t)

Spec == Init /\ [][Next]_vars

-----------------------------------------------------------------------------

\* A login page has at most one login under way, and its button is blocked
\* exactly that long.
OneLoginAtATime ==
    \A b \in Tabs :
        LET own == {c \in CallsOf(b) : c.kind = "login" /\ OfMount(c)}
        IN  /\ Cardinality(own) <= 1
            /\ tab[b].loading <=> own # {}

\* Storage, tabs and calls have their types, only issued tokens are stored,
\* and no login page logs in twice at a time.
TypeOK ==
    /\ stored \in Tokens \cup {NoToken}
    /\ stored # NoToken => owner[stored] # NoUser
    /\ owner \in [Tokens -> Users \cup {NoUser}]
    /\ expired \subseteq Tokens
    /\ tab \in [Tabs -> TabState]
    /\ calls \subseteq Call
    /\ mounts \in 1 .. MaxMounts
    /\ OneLoginAtATime

\* The layout shows the user whose token the calls of the page carry, and never
\* offers the navigation of another one, unless the stored token was changed
\* since the page was mounted (by another tab, or by a login whose page was
\* left): no answer for an earlier page or user gets into it.
ShownIsSigned ==
    \A b \in Tabs : (tab[b].page = "app" /\ stored = tab[b].opened) =>
        /\ tab[b].user # NoUser => stored # NoToken /\ tab[b].user = owner[stored]
        /\ stored # NoToken =>
              Navigation(b) \subseteq FilteredNavItems(RolesOf(owner[stored]))

=============================================================================
