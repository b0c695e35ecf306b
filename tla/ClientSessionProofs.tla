------------------------- MODULE ClientSessionProofs -------------------------
(***************************************************************************)
(* What the session of the web client guarantees for any number of tabs,   *)
(* users, logins and calls in flight.                                      *)
(***************************************************************************)
EXTENDS ClientSession, FiniteSetTheorems, TLAPS

Types ==
    /\ stored \in Tokens \cup {NoToken}
    /\ owner \in [Tokens -> Users \cup {NoUser}]
    /\ expired \subseteq Tokens
    /\ tab \in [Tabs -> TabState]
    /\ calls \subseteq Call
    /\ \A c \in calls : c.kind = "login" => c.by \in Users
    /\ mounts \in 1 .. MaxMounts

\* Nothing belongs to a mount that is still to come.
MountsSound ==
    /\ \A b \in Tabs : tab[b].mount <= mounts
    /\ \A c \in calls : c.mount <= mounts

StoredIssued == stored # NoToken => owner[stored] # NoUser

\* The user of a page is the owner of the token stored when it was mounted, and
\* so will be the answer under way.
UserOfMount ==
    /\ \A b \in Tabs : tab[b].user # NoUser =>
          tab[b].opened # NoToken /\ tab[b].user = owner[tab[b].opened]
    /\ \A c \in calls : c.kind = "me" /\ OfMount(c) => c.token = tab[c.tab].opened

LoginsOf(b) == {c \in calls : c.tab = b /\ c.kind = "login" /\ OfMount(c)}

\* OneLoginAtATime without counting.
LoginsSound ==
    \A b \in Tabs : /\ \A c, d \in LoginsOf(b) : c = d
                    /\ tab[b].loading <=> LoginsOf(b) # {}

Inv == Types /\ MountsSound /\ StoredIssued /\ UserOfMount /\ LoginsSound

-----------------------------------------------------------------------------

\* What the router leaves of a tab.
LEMMA RoutedFields ==
  ASSUME NEW b, tab[b] \in TabState, mounts + 1 \in 1 .. MaxMounts,
         NEW page \in {"login", "app"}, NEW token \in Tokens \cup {NoToken}
  PROVE  /\ Routed(b, page, token) \in TabState
         /\ Routed(b, page, token).mount = mounts + 1
         /\ Routed(b, page, token).opened = token
         /\ Routed(b, page, token).user = NoUser
         /\ Routed(b, page, token).loading = FALSE
BY DEF Routed, TabState

\* A tab that is routed to a new mount starts without a user and without a call
\* of that mount, except the one sent by the mount itself.
LEMMA MountedSound ==
  ASSUME Inv, NewMount, NEW b \in Tabs, NEW new \in TabState,
         new.mount = mounts + 1, new.user = NoUser, new.loading = FALSE,
         tab' = [tab EXCEPT ![b] = new],
         UNCHANGED <<owner, expired>>,
         stored' = stored \/ stored' = NoToken,
         calls' \subseteq Call,
         \A c \in calls' : \/ c \in calls
                           \/ /\ c.tab = b /\ c.kind = "me" /\ c.mount = mounts + 1
                              /\ c.token = new.opened,
         \A c \in calls : c.tab # b => c \in calls'
  PROVE  Inv'
<1> USE DEF Inv
<1>1. mounts \in Nat /\ mounts' = mounts + 1 /\ mounts' \in 1 .. MaxMounts
  BY SessionAssumption DEF Types, NewMount
<1>2. tab'[b] = new /\ \A e \in Tabs : e # b => tab'[e] = tab[e]
  BY DEF Types
<1>3. Types'
  BY <1>1 DEF Types
<1>4. MountsSound'
  <2>1. \A e \in Tabs : tab'[e].mount <= mounts'
    BY <1>1, <1>2 DEF MountsSound, Types, TabState
  <2>2. \A c \in calls' : c.mount <= mounts'
    BY <1>1 DEF MountsSound, Types, Call
  <2> QED
    BY <2>1, <2>2 DEF MountsSound
<1>5. StoredIssued'
  BY DEF StoredIssued
<1>6. \A c \in calls : c.mount # new.mount /\ c.tab \in Tabs
  BY <1>1 DEF MountsSound, Types, Call
<1>7. UserOfMount'
  <2>1. \A e \in Tabs : tab'[e].user # NoUser =>
            tab'[e].opened # NoToken /\ tab'[e].user = owner'[tab'[e].opened]
    BY <1>2 DEF UserOfMount
  <2>2. \A c \in calls' : c.kind = "me" /\ c.mount = tab'[c.tab].mount =>
            c.token = tab'[c.tab].opened
    BY <1>2, <1>6 DEF UserOfMount, OfMount
  <2> QED
    BY <2>1, <2>2 DEF UserOfMount, OfMount
<1>8. LoginsSound'
  <2>1. LoginsOf(b)' = {}
    BY <1>2, <1>6 DEF LoginsOf, OfMount
  <2>2. \A e \in Tabs : e # b => LoginsOf(e)' = LoginsOf(e)
    BY <1>2, <1>6 DEF LoginsOf, OfMount
  <2> QED
    BY <1>2, <2>1, <2>2 DEF LoginsSound
<1> QED
  BY <1>3, <1>4, <1>5, <1>7, <1>8

\* Every mount of a page with the layout.
LEMMA MountAppStep ==
  ASSUME Inv, NEW b \in Tabs, NEW redirects \in Nat, MountApp(b, redirects)
  PROVE  Inv'
<1> DEFINE new == [Routed(b, "app", stored) EXCEPT !.redirects = redirects]
           me == Sent(b, "me", NoUser)
<1>1. NewMount /\ tab' = [tab EXCEPT ![b] = new] /\ calls' = calls \cup {me}
        /\ UNCHANGED <<stored, owner, expired>>
  BY DEF MountApp
<1>2. stored \in Tokens \cup {NoToken} /\ tab \in [Tabs -> TabState] /\ calls \subseteq Call
  BY DEF Inv, Types
<1>3. /\ new \in TabState /\ new.mount = mounts + 1 /\ new.opened = stored
      /\ new.user = NoUser /\ new.loading = FALSE
  <2> DEFINE routed == Routed(b, "app", stored)
  <2>1. tab[b] \in TabState /\ mounts + 1 \in 1 .. MaxMounts
    BY <1>1, <1>2, SessionAssumption DEF Inv, Types, NewMount
  <2>2. /\ routed \in TabState /\ routed.mount = mounts + 1 /\ routed.opened = stored
        /\ routed.user = NoUser /\ routed.loading = FALSE
    BY <1>2, <2>1, RoutedFields
  <2> HIDE DEF routed
  <2>3. new = [routed EXCEPT !.redirects = redirects]
    BY DEF routed
  <2> QED
    BY <2>2, <2>3 DEF TabState
<1> HIDE DEF new
<1>4. tab'[b] = new
  BY <1>1, <1>2
<1>5. me = [tab |-> b, mount |-> mounts + 1, kind |-> "me", token |-> stored, by |-> NoUser]
  BY <1>3, <1>4 DEF Sent
<1>6. mounts + 1 \in 1 .. MaxMounts
  BY <1>1, SessionAssumption DEF Inv, Types, NewMount
<1>7. me \in Call /\ me.tab = b /\ me.kind = "me" /\ me.mount = mounts + 1 /\ me.token = stored
  BY <1>2, <1>5, <1>6 DEF Call
<1> HIDE DEF me
<1> QED
  BY <1>1, <1>2, <1>3, <1>7, MountedSound

\* Back to the login page, by the history or by handleLogout.
LEMMA LoginPageStep ==
  ASSUME Inv, NEW b \in Tabs, OpenLogin(b) \/ Logout(b)
  PROVE  Inv'
<1> DEFINE token == IF Logout(b) THEN NoToken ELSE stored
           new == Routed(b, "login", token)
<1>1. stored \in Tokens \cup {NoToken} /\ tab \in [Tabs -> TabState] /\ calls \subseteq Call
  BY DEF Inv, Types
<1>2. NewMount /\ tab' = [tab EXCEPT ![b] = new] /\ calls' = calls
        /\ UNCHANGED <<owner, expired>> /\ (stored' = stored \/ stored' = NoToken)
  BY DEF OpenLogin, Logout
<1>3. token \in Tokens \cup {NoToken} /\ tab[b] \in TabState /\ mounts + 1 \in 1 .. MaxMounts
  BY <1>1, <1>2, SessionAssumption DEF Inv, Types, NewMount
<1> HIDE DEF token
<1>4. /\ new \in TabState /\ new.mount = mounts + 1
      /\ new.user = NoUser /\ new.loading = FALSE
  BY <1>3, RoutedFields
<1> HIDE DEF new
<1> QED
  BY <1>1, <1>2, <1>4, MountedSound

\* A 401 loads the tab anew; its calls are gone with it.
LEMMA UnauthorisedStep ==
  ASSUME Inv, NEW c \in calls, Unauthorised(c)
  PROVE  Inv'
<1> DEFINE b == c.tab
           new == [Routed(b, "login", NoToken) EXCEPT !.redirects = 0]
<1>1. tab \in [Tabs -> TabState] /\ calls \subseteq Call /\ b \in Tabs
  BY DEF Inv, Types, Call
<1>2. NewMount /\ tab' = [tab EXCEPT ![b] = new] /\ calls' = calls \ CallsOf(b)
        /\ UNCHANGED <<owner, expired>> /\ stored' = NoToken
  BY DEF Unauthorised, LoadedAnew
<1>3. /\ new \in TabState /\ new.mount = mounts + 1
      /\ new.user = NoUser /\ new.loading = FALSE
  <2> DEFINE routed == Routed(b, "login", NoToken)
  <2>1. tab[b] \in TabState /\ mounts + 1 \in 1 .. MaxMounts
    BY <1>1, <1>2, SessionAssumption DEF Inv, Types, NewMount
  <2>3. "login" \in {"login", "app"} /\ NoToken \in Tokens \cup {NoToken}
    OBVIOUS
  <2>2. /\ routed \in TabState /\ routed.mount = mounts + 1
        /\ routed.user = NoUser /\ routed.loading = FALSE
    BY <2>1, <2>3, RoutedFields, Zenon
  <2> HIDE DEF routed
  <2>4. new = [routed EXCEPT !.redirects = 0]
    BY DEF routed
  <2> QED
    BY <2>2, <2>4 DEF TabState
<1>4. calls' \subseteq calls /\ \A d \in calls : d.tab # b => d \in calls'
  BY <1>2 DEF CallsOf
<1> HIDE DEF new, b
<1> QED
  BY <1>1, <1>2, <1>3, <1>4, MountedSound

\* The button of the login page is free only if no login of it is under way.
LEMMA SubmitLoginStep ==
  ASSUME Inv, NEW b \in Tabs, NEW u \in Users, SubmitLogin(b, u)
  PROVE  Inv'
<1> USE DEF Inv
<1> DEFINE new == [tab[b] EXCEPT !.loading = TRUE]
           login == Sent(b, "login", u)
<1>1. /\ tab' = [tab EXCEPT ![b] = new] /\ calls' = calls \cup {login}
      /\ UNCHANGED <<stored, owner, expired, mounts>> /\ ~tab[b].loading
  BY DEF SubmitLogin, SubmitEnabled
<1>2. tab[b] \in TabState /\ tab \in [Tabs -> TabState]
  BY DEF Types
<1>3. /\ new \in TabState /\ new.mount = tab[b].mount /\ new.opened = tab[b].opened
      /\ new.user = tab[b].user /\ new.loading = TRUE
  BY <1>2 DEF TabState
<1> HIDE DEF new
<1>4. tab'[b] = new /\ \A e \in Tabs : e # b => tab'[e] = tab[e]
  BY <1>1, <1>2
<1>5. login = [tab |-> b, mount |-> tab[b].mount, kind |-> "login", token |-> stored,
               by |-> u]
  BY <1>3, <1>4 DEF Sent
<1>6. /\ login \in Call /\ login.tab = b /\ login.kind = "login" /\ login.by = u
      /\ login.mount = tab[b].mount
  BY <1>2, <1>5 DEF Types, Call, TabState
<1> HIDE DEF login
<1>7. Types'
  BY <1>1, <1>2, <1>3, <1>6 DEF Types
<1>8. \A e \in Tabs : tab'[e].mount = tab[e].mount /\ tab'[e].opened = tab[e].opened
                      /\ tab'[e].user = tab[e].user
  BY <1>3, <1>4
<1>9. \A c \in calls : c.tab \in Tabs
  BY DEF Types, Call
<1>10. MountsSound' /\ StoredIssued' /\ UserOfMount'
  BY <1>1, <1>6, <1>8, <1>9 DEF MountsSound, StoredIssued, UserOfMount, OfMount
<1>11. LoginsSound'
  <2>1. LoginsOf(b)' = {login}
    BY <1>1, <1>6, <1>8, <1>9 DEF LoginsSound, LoginsOf, OfMount
  <2>2. \A e \in Tabs : e # b => LoginsOf(e)' = LoginsOf(e)
    BY <1>1, <1>6, <1>8, <1>9 DEF LoginsOf, OfMount
  <2> QED
    BY <1>3, <1>4, <2>1, <2>2 DEF LoginsSound
<1> QED
  BY <1>7, <1>10, <1>11

\* The answer to a login frees the button of its page; a token is issued once.
LEMMA LoginAnsweredStep ==
  ASSUME Inv, NEW c \in calls, (\E t \in Tokens : LoginOk(c, t)) \/ LoginFailed(c)
  PROVE  Inv'
<1> USE DEF Inv
<1> DEFINE b == c.tab
<1>1. b \in Tabs /\ tab[b] \in TabState /\ tab \in [Tabs -> TabState] /\ c \in Call
  BY DEF Types, Call
<1>2. PICK new \in TabState :
        /\ tab' = [tab EXCEPT ![b] = new]
        /\ new.mount = tab[b].mount /\ new.opened = tab[b].opened /\ new.user = tab[b].user
        /\ new.loading = IF OfMount(c) THEN FALSE ELSE tab[b].loading
  <2> DEFINE free == Unblocked(c)
             later == [free EXCEPT !.redirects = free.redirects + 1]
  <2>1. /\ free \in TabState /\ free.mount = tab[b].mount /\ free.opened = tab[b].opened
        /\ free.user = tab[b].user
        /\ free.loading = IF OfMount(c) THEN FALSE ELSE tab[b].loading
    BY <1>1 DEF Unblocked, TabState
  <2>2. tab' = [tab EXCEPT ![b] = free] \/ tab' = [tab EXCEPT ![b] = later]
    BY DEF LoginOk, LoginFailed
  <2> HIDE DEF free
  <2>3. /\ later \in TabState /\ later.mount = free.mount /\ later.opened = free.opened
        /\ later.user = free.user /\ later.loading = free.loading
    <3>1. free \in TabState /\ free.redirects + 1 \in Nat
      BY <2>1 DEF TabState
    <3> QED
      BY <3>1 DEF TabState
  <2> HIDE DEF later
  <2> QED
    BY <2>1, <2>2, <2>3
<1>3. /\ calls' = calls \ {c} /\ c.kind = "login"
      /\ UNCHANGED <<expired, mounts>>
  BY DEF LoginOk, LoginFailed
<1>4. /\ owner' \in [Tokens -> Users \cup {NoUser}]
      /\ \A t \in Tokens : owner[t] # NoUser => owner'[t] = owner[t]
      /\ stored' \in Tokens \cup {NoToken}
      /\ stored' # NoToken => owner'[stored'] # NoUser
  <2>1. CASE \E t \in Tokens : LoginOk(c, t)
    <3>1. PICK t \in Tokens : /\ owner[t] = NoUser
                              /\ owner' = [owner EXCEPT ![t] = c.by] /\ stored' = t
      BY <2>1 DEF LoginOk
    <3>2. c.by \in Users /\ owner \in [Tokens -> Users \cup {NoUser}]
      BY <1>3 DEF Types
    <3> QED
      BY <3>1, <3>2, SessionAssumption
  <2>2. CASE LoginFailed(c)
    BY <2>2 DEF LoginFailed, Types, StoredIssued
  <2> QED
    BY <2>1, <2>2
<1>5. \A e \in Tabs : /\ tab'[e].mount = tab[e].mount /\ tab'[e].opened = tab[e].opened
                      /\ tab'[e].user = tab[e].user
                      /\ e # b => tab'[e].loading = tab[e].loading
  BY <1>1, <1>2
<1>6. tab'[b].loading = IF OfMount(c) THEN FALSE ELSE tab[b].loading
  BY <1>1, <1>2
<1>7. \A d \in calls : d.tab \in Tabs
  BY DEF Types, Call
<1>8. Types'
  BY <1>1, <1>2, <1>3, <1>4 DEF Types
<1>9. MountsSound' /\ StoredIssued'
  BY <1>3, <1>4, <1>5 DEF MountsSound, StoredIssued
<1>10. UserOfMount'
  <2>1. \A e \in Tabs : tab[e].opened \in Tokens \cup {NoToken}
    BY <1>1 DEF Types, TabState
  <2>2. \A e \in Tabs : tab[e].user # NoUser =>
            tab[e].opened # NoToken /\ tab[e].user = owner'[tab[e].opened]
    BY <1>4, <2>1 DEF UserOfMount
  <2> QED
    BY <1>3, <1>5, <1>7, <2>2 DEF UserOfMount, OfMount
<1>11. LoginsSound'
  <2>1. \A e \in Tabs : LoginsOf(e)' = LoginsOf(e) \ {c}
    BY <1>3, <1>5, <1>7 DEF LoginsOf, OfMount
  <2>2. \A e \in Tabs : e # b => LoginsOf(e)' = LoginsOf(e)
    BY <2>1 DEF LoginsOf
  <2>3. CASE OfMount(c)
    <3>1. c \in LoginsOf(b)
      BY <1>3, <2>3 DEF LoginsOf
    <3>2. LoginsOf(b)' = {} /\ tab'[b].loading = FALSE
      BY <1>1, <1>6, <2>1, <2>3, <3>1 DEF LoginsSound
    <3> QED
      BY <1>5, <2>2, <3>2 DEF LoginsSound
  <2>4. CASE ~OfMount(c)
    <3>1. LoginsOf(b)' = LoginsOf(b) /\ tab'[b].loading = tab[b].loading
      BY <1>1, <1>6, <2>1, <2>4 DEF LoginsOf
    <3> QED
      BY <1>5, <2>2, <3>1 DEF LoginsSound
  <2> QED
    BY <2>3, <2>4
<1> QED
  BY <1>8, <1>9, <1>10, <1>11

\* An answer to users/me reaches only the mount that asked for it.
LEMMA MeAnsweredStep ==
  ASSUME Inv, NEW c \in calls, MeOk(c) \/ MeFailed(c)
  PROVE  Inv'
<1> USE DEF Inv
<1>1. c.tab \in Tabs /\ tab[c.tab] \in TabState /\ tab \in [Tabs -> TabState] /\ c \in Call
  BY DEF Types, Call
<1>2. PICK new \in TabState :
        /\ tab' = [tab EXCEPT ![c.tab] = new]
        /\ new.mount = tab[c.tab].mount /\ new.opened = tab[c.tab].opened
        /\ new.loading = tab[c.tab].loading
        /\ \/ new.user = tab[c.tab].user
           \/ OfMount(c) /\ c.token # NoToken /\ new.user = owner[c.token]
  <2>1. CASE MeOk(c) /\ OfMount(c)
    <3> DEFINE new == [tab[c.tab] EXCEPT !.user = owner[c.token]]
    <3>1. c.token \in Tokens /\ tab' = [tab EXCEPT ![c.tab] = new]
      BY <1>1, <2>1 DEF MeOk, Live, Call
    <3>2. owner[c.token] \in Users \cup {NoUser} /\ c.token # NoToken
      BY <3>1, SessionAssumption DEF Types, Tokens, NoToken
    <3>3. /\ new \in TabState /\ new.mount = tab[c.tab].mount
          /\ new.opened = tab[c.tab].opened /\ new.loading = tab[c.tab].loading
          /\ new.user = owner[c.token]
      BY <1>1, <3>2 DEF TabState
    <3> HIDE DEF new
    <3> QED
      BY <2>1, <3>1, <3>2, <3>3
  <2>2. CASE MeOk(c) /\ ~OfMount(c)
    <3> DEFINE u == IF OfMount(c) THEN owner[c.token] ELSE tab[c.tab].user
               new == [tab[c.tab] EXCEPT !.user = u]
    <3>1. tab' = [tab EXCEPT ![c.tab] = new]
      BY <2>2 DEF MeOk
    <3>3. u = tab[c.tab].user
      BY <2>2
    <3> HIDE DEF u
    <3>2. new = tab[c.tab]
      BY <1>1, <3>3 DEF TabState
    <3> HIDE DEF new
    <3> QED
      BY <1>1, <3>1, <3>2
  <2>3. CASE MeFailed(c)
    BY <1>1, <2>3 DEF MeFailed
  <2> QED
    BY <2>1, <2>2, <2>3
<1>3. calls' = calls \ {c} /\ c.kind = "me" /\ UNCHANGED <<stored, owner, expired, mounts>>
  BY DEF MeOk, MeFailed
<1>4. \A e \in Tabs : /\ tab'[e].mount = tab[e].mount /\ tab'[e].opened = tab[e].opened
                      /\ tab'[e].loading = tab[e].loading
                      /\ e # c.tab => tab'[e].user = tab[e].user
  BY <1>1, <1>2
<1>5. \A d \in calls : d.tab \in Tabs
  BY DEF Types, Call
<1>6. Types' /\ MountsSound' /\ StoredIssued'
  BY <1>1, <1>2, <1>3, <1>4 DEF Types, MountsSound, StoredIssued
<1>7. UserOfMount'
  <2>1. \/ tab'[c.tab].user = NoUser
        \/ tab[c.tab].opened # NoToken /\ tab'[c.tab].user = owner[tab[c.tab].opened]
    BY <1>1, <1>2, <1>3 DEF UserOfMount
  <2> QED
    BY <1>1, <1>3, <1>4, <1>5, <2>1 DEF UserOfMount, OfMount
<1>8. LoginsSound'
  <2>1. \A e \in Tabs : LoginsOf(e)' = LoginsOf(e)
    BY <1>3, <1>4, <1>5 DEF LoginsOf, OfMount
  <2> QED
    BY <1>4, <2>1 DEF LoginsSound
<1> QED
  BY <1>6, <1>7, <1>8

-----------------------------------------------------------------------------
\* Init establishes the invariant and every step preserves it.
LEMMA Invariance == Spec => []Inv
<1>1. Init => Inv
  <2> SUFFICES ASSUME Init PROVE Inv
    OBVIOUS
  <2>1. \A b \in Tabs : tab[b] \in TabState /\ tab[b].mount = 1 /\ tab[b].user = NoUser
                        /\ tab[b].loading = FALSE
    BY SessionAssumption DEF Init, TabState
  <2>2. Types
    <3>1. tab \in [Tabs -> TabState]
      BY <2>1 DEF Init
    <3>2. owner \in [Tokens -> Users \cup {NoUser}] /\ mounts \in 1 .. MaxMounts
      BY SessionAssumption DEF Init
    <3> QED
      BY <3>1, <3>2 DEF Init, Types
  <2> QED
    BY <2>1, <2>2 DEF Init, Inv, MountsSound, StoredIssued, UserOfMount, LoginsSound, LoginsOf
<1>2. Inv /\ [Next]_vars => Inv'
  <2> SUFFICES ASSUME Inv, [Next]_vars PROVE Inv'
    OBVIOUS
  <2>1. \A b \in Tabs : tab[b].redirects \in Nat
    BY DEF Inv, Types, TabState
  <2>2. ASSUME NEW b \in Tabs, OpenApp(b) PROVE Inv'
    BY <2>1, <2>2, MountAppStep DEF OpenApp
  <2>3. ASSUME NEW b \in Tabs, OpenLogin(b) \/ Logout(b) PROVE Inv'
    BY <2>3, LoginPageStep
  <2>4. ASSUME NEW b \in Tabs, Redirect(b) PROVE Inv'
    <3>1. tab[b].redirects - 1 \in Nat
      BY <2>1, <2>4 DEF Redirect
    <3> QED
      BY <2>4, <3>1, MountAppStep DEF Redirect
  <2>5. ASSUME NEW b \in Tabs, NEW u \in Users, SubmitLogin(b, u) PROVE Inv'
    BY <2>5, SubmitLoginStep
  <2>6. ASSUME NEW c \in calls, (\E t \in Tokens : LoginOk(c, t)) \/ LoginFailed(c) PROVE Inv'
    BY <2>6, LoginAnsweredStep
  <2>7. ASSUME NEW c \in calls, MeOk(c) \/ MeFailed(c) PROVE Inv'
    BY <2>7, MeAnsweredStep
  <2>8. ASSUME NEW c \in calls, Unauthorised(c) PROVE Inv'
    BY <2>8, UnauthorisedStep
  <2>9. ASSUME NEW t \in Tokens, Expire(t) PROVE Inv'
    BY <2>9 DEF Expire, Inv, Types, MountsSound, StoredIssued, UserOfMount, LoginsSound,
       LoginsOf, OfMount
  <2>10. CASE UNCHANGED vars
    BY <2>10 DEF vars, Inv, Types, MountsSound, StoredIssued, UserOfMount, LoginsSound,
       LoginsOf, OfMount
  <2> QED
    BY <2>2, <2>3, <2>4, <2>5, <2>6, <2>7, <2>8, <2>9, <2>10 DEF Next, Answer
<1> QED
  BY <1>1, <1>2, PTL DEF Spec

\* TypeOK: storage, tabs and calls have their types, and no login page has two
\* logins under way (handleLogin and the loading flag of its button).
THEOREM SessionConsistent == Spec => []TypeOK
<1>1. Inv => TypeOK
  <2> SUFFICES ASSUME Inv PROVE TypeOK
    OBVIOUS
  <2>1. \A b \in Tabs :
          LET own == {c \in CallsOf(b) : c.kind = "login" /\ OfMount(c)}
          IN  Cardinality(own) <= 1 /\ (tab[b].loading <=> own # {})
    <3> SUFFICES ASSUME NEW b \in Tabs
                 PROVE  LET own == {c \in CallsOf(b) : c.kind = "login" /\ OfMount(c)}
                        IN  Cardinality(own) <= 1 /\ (tab[b].loading <=> own # {})
      OBVIOUS
    <3>1. {c \in CallsOf(b) : c.kind = "login" /\ OfMount(c)} = LoginsOf(b)
      BY DEF CallsOf, LoginsOf
    <3>2. LoginsOf(b) = {} \/ \E c : LoginsOf(b) = {c}
      BY DEF Inv, LoginsSound
    <3>3. Cardinality(LoginsOf(b)) <= 1
      <4>1. CASE LoginsOf(b) = {}
        BY <4>1, FS_EmptySet
      <4>2. ASSUME NEW c, LoginsOf(b) = {c} PROVE Cardinality(LoginsOf(b)) <= 1
        <5>1. Cardinality({c}) = 1
          BY FS_Singleton
        <5> QED
          BY <4>2, <5>1
      <4> QED
        BY <3>2, <4>1, <4>2
    <3>4. tab[b].loading <=> LoginsOf(b) # {}
      BY DEF Inv, LoginsSound
    <3> QED
      BY <3>1, <3>3, <3>4
  <2> QED
    BY <2>1 DEF Inv, Types, StoredIssued, TypeOK, OneLoginAtATime
<1> QED
  BY <1>1, Invariance, PTL

\* No answer for an earlier page or user gets into the layout (fetchUser and
\* filteredNavItems of DashboardLayout).
THEOREM LayoutShowsSigned == Spec => []ShownIsSigned
<1>1. Inv => ShownIsSigned
  <2> SUFFICES ASSUME Inv, NEW b \in Tabs, tab[b].page = "app", stored = tab[b].opened
               PROVE  /\ tab[b].user # NoUser =>
                            stored # NoToken /\ tab[b].user = owner[stored]
                      /\ stored # NoToken =>
                            Navigation(b) \subseteq FilteredNavItems(RolesOf(owner[stored]))
    BY DEF ShownIsSigned
  <2>1. tab[b].user # NoUser => stored # NoToken /\ tab[b].user = owner[stored]
    BY DEF Inv, UserOfMount
  <2>2. \A r : FilteredNavItems({}) \subseteq FilteredNavItems(r)
    BY DEF FilteredNavItems, NavItems
  <2>3. Navigation(b) = FilteredNavItems(RolesOf(tab[b].user))
    BY DEF Navigation
  <2>4. tab[b].user = NoUser => RolesOf(tab[b].user) = {}
    BY DEF RolesOf
  <2> QED
    BY <2>1, <2>2, <2>3, <2>4
<1> QED
  BY <1>1, Invariance, PTL

=============================================================================
