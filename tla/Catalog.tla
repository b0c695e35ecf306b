------------------------------- MODULE Catalog -------------------------------
(***************************************************************************)
(* Starting and deleting workflows: the inventory (frontend/src/app/       *)
(* workflows/page.tsx), the dashboard (dashboard/page.tsx) and the list of *)
(* the administrator (admin/workflows/page.tsx), one of them mounted at a  *)
(* time, over create_request and delete_workflow of the server.            *)
(*                                                                         *)
(* delete_workflow reads the requests of the workflow and deletes it in    *)
(* two statements.  A request it has read makes it fail: SQLAlchemy wants  *)
(* to clear its workflow_id, which is NOT NULL.  One that is committed in  *)
(* between is removed by the cascade of the foreign key; a start that has  *)
(* inserted its request and not committed yet makes the DELETE wait, so a  *)
(* start is one step here.                                                 *)
(***************************************************************************)
EXTENDS Naturals, FiniteSets

CONSTANTS
    Workflows,
    Popular,      \* bound: those another user starts a request of
    None,         \* no workflow, no rows
    MaxStarts,    \* bound: clicks that start a request
    MaxDeletes,   \* bound: clicks that delete a workflow
    MaxMounts     \* bound: pages opened

ASSUME CatalogAssumption ==
    /\ None \notin Workflows /\ Popular \subseteq Workflows
    /\ MaxStarts \in Nat /\ MaxDeletes \in Nat /\ MaxMounts \in Nat \ {0}

VARIABLES
    live,         \* workflows in the database
    requests,     \* committed requests; id 0: of another user
    lost,         \* requests the cascade has removed
    starts,       \* POST requests/ in flight
    deletes,      \* DELETE workflows/{id} in flight
    place,        \* the page mounted, or "request": a page of another module
    mounts,       \* pages mounted so far, the number of the one mounted
    rows,         \* answer to the GETs of the page on its way, None if not served
    loading,
    shown,        \* workflows: the list in the page's state
    modal,        \* the start form is open
    choice,       \* workflow chosen in it
    submitting,   \* starting, isStartingRequest
    clicks,       \* clicks that started a call so far
    taken,        \* started requests whose page the client has opened
    unheard,      \* calls whose answer the client never got
    gone          \* workflows the mounted page was told are deleted

serverVars == <<live, requests, lost>>
formVars == <<modal, choice, submitting>>
pageVars == <<place, mounts, rows, loading, shown, formVars, gone>>
vars == <<serverVars, starts, deletes, pageVars, clicks, taken, unheard>>

Pages == {"inventory", "dashboard", "protocols"}
RequestsOf(w) == {r \in requests : r.workflow = w}

\* The page that made a call is still mounted.  Mount 0: nobody waits.
Listening(c) == place \in Pages /\ c.mount = mounts

\* A page as it is mounted: nothing loaded, its GETs sent.
Fresh ==
    /\ rows' = None
    /\ loading' = TRUE
    /\ shown' = {}
    /\ modal' = FALSE
    /\ choice' = None
    /\ submitting' = FALSE
    /\ gone' = {}

Init ==
    /\ live \in SUBSET Workflows
    /\ requests = {}
    /\ lost = {}
    /\ starts = {}
    /\ deletes = {}
    /\ place \in Pages
    /\ mounts = 1
    /\ rows = None
    /\ loading = TRUE
    /\ shown = {}
    /\ modal = FALSE
    /\ choice = None
    /\ submitting = FALSE
    /\ clicks = [start |-> 0, delete |-> 0]
    /\ taken = {}
    /\ unheard = {}
    /\ gone = {}

\* Answers to the GETs of a page that is left are lost with it; its other
\* handlers go on.
Navigate(p) ==
    /\ p # place
    /\ mounts < MaxMounts
    /\ place' = p
    /\ mounts' = mounts + 1
    /\ Fresh
    /\ UNCHANGED <<serverVars, starts, deletes, clicks, taken, unheard>>

-----------------------------------------------------------------------------
\* Lists.  The inventory and the dashboard wait for several GETs at once and
\* show nothing if one of them fails.

View ==
    IF place \notin Pages THEN "other"
    ELSE IF loading THEN "loading"
    ELSE IF shown = {} THEN "empty" ELSE "list"

ServeRows ==
    /\ place \in Pages /\ loading /\ rows = None
    /\ rows' = live
    /\ UNCHANGED <<serverVars, starts, deletes, place, mounts, loading, shown, formVars,
                   gone, clicks, taken, unheard>>

RowsArrive ==
    /\ place \in Pages /\ loading
    /\ \/ rows # None /\ shown' = rows
       \/ UNCHANGED shown
    /\ loading' = FALSE
    /\ rows' = None
    /\ UNCHANGED <<serverVars, starts, deletes, place, mounts, formVars, gone, clicks,
                   taken, unheard>>

-----------------------------------------------------------------------------
\* Starting a request.

\* The inventory opens the form for a workflow of its list; the dashboard
\* always, with the workflow chosen before.
OpenForm(w) ==
    /\ ~modal
    /\ \/ place = "inventory" /\ View = "list" /\ w \in shown /\ choice' = w
       \/ place = "dashboard" /\ View # "loading" /\ w = choice /\ UNCHANGED choice
    /\ modal' = TRUE
    /\ UNCHANGED <<place, mounts, rows, loading, shown, submitting, gone>>

\* The select element of the dashboard.
Choose(w) ==
    /\ place = "dashboard" /\ modal
    /\ w \in (shown \cup {None}) \ {choice}
    /\ choice' = w
    /\ UNCHANGED <<place, mounts, rows, loading, shown, modal, submitting, gone>>

\* The inventory keeps its form open while a start is under way.
CloseForm ==
    /\ modal
    /\ \/ place = "inventory" /\ ~submitting /\ choice' = None
       \/ place = "dashboard" /\ UNCHANGED choice
    /\ modal' = FALSE
    /\ UNCHANGED <<place, mounts, rows, loading, shown, submitting, gone>>

\* Faulty form: the button is not disabled.
StartEnabledAlways == modal /\ choice # None

\* Without a workflow or a title there is only an alert.
StartEnabled == modal /\ choice # None /\ ~submitting

Start ==
    /\ StartEnabled
    /\ clicks.start < MaxStarts
    /\ clicks' = [clicks EXCEPT !.start = @ + 1]
    /\ starts' = starts \cup
          {[id |-> clicks.start + 1, workflow |-> choice, mount |-> mounts, state |-> "sent"]}
    /\ submitting' = TRUE
    /\ UNCHANGED <<serverVars, deletes, place, mounts, rows, loading, shown, modal, choice,
                   gone, taken, unheard>>

\* create_request and its commit.  A call nobody waits for ends here.
StartCommits(s) ==
    /\ s \in starts /\ s.state = "sent"
    /\ s.workflow \in live
    /\ requests' = requests \cup {[id |-> s.id, workflow |-> s.workflow]}
    /\ starts' = (starts \ {s}) \cup
          (IF s.mount = 0 THEN {} ELSE {[s EXCEPT !.state = "made"]})
    /\ UNCHANGED <<live, lost, deletes, pageVars, clicks, taken, unheard>>

\* The workflow is gone, or the transaction fails.
StartRefused(s) ==
    /\ s \in starts /\ s.state = "sent"
    /\ starts' = (starts \ {s}) \cup
          (IF s.mount = 0 THEN {} ELSE {[s EXCEPT !.state = "refused"]})
    /\ UNCHANGED <<serverVars, deletes, pageVars, clicks, taken, unheard>>

\* Faulty form: only the page that is still mounted goes on.
StartOkIfMounted(s) ==
    /\ s \in starts /\ s.state = "made"
    /\ starts' = starts \ {s}
    /\ IF Listening(s) THEN place' = "request" /\ taken' = taken \cup {s.id} /\ Fresh
       ELSE UNCHANGED <<place, taken, rows, loading, shown, formVars, gone>>
    /\ UNCHANGED <<serverVars, deletes, mounts, clicks, unheard>>

\* router.push, wherever the user is by now.
StartOk(s) ==
    /\ s \in starts /\ s.state = "made"
    /\ starts' = starts \ {s}
    /\ place' = "request"
    /\ taken' = taken \cup {s.id}
    /\ Fresh
    /\ UNCHANGED <<serverVars, deletes, mounts, clicks, unheard>>

\* The client gives up a call: refused, or the call or its answer got lost.  The
\* server may still serve what was sent.
GivenUp(s) ==
    /\ s \in starts /\ s.mount # 0
    /\ starts' = (starts \ {s}) \cup
          (IF s.state = "sent" THEN {[s EXCEPT !.mount = 0]} ELSE {})
    /\ unheard' = IF s.state = "refused" THEN unheard ELSE unheard \cup {s.id}

\* Faulty form: the page of the dashboard has no reset in its catch.
StartFailedStuck(s) ==
    /\ GivenUp(s)
    /\ IF Listening(s) /\ place = "inventory"
       THEN modal' = FALSE /\ choice' = None /\ submitting' = FALSE
       ELSE UNCHANGED formVars
    /\ UNCHANGED <<serverVars, deletes, place, mounts, rows, loading, shown, gone, clicks,
                   taken>>

\* The inventory closes its form and says nothing; the dashboard keeps its
\* form, after an alert.
StartFailed(s) ==
    /\ GivenUp(s)
    /\ IF Listening(s)
       THEN /\ submitting' = FALSE
            /\ modal' = (modal /\ place # "inventory")
            /\ choice' = IF place = "inventory" THEN None ELSE choice
       ELSE UNCHANGED formVars
    /\ UNCHANGED <<serverVars, deletes, place, mounts, rows, loading, shown, gone, clicks,
                   taken>>

-----------------------------------------------------------------------------
\* Another user starts a request.

OtherStarts(w) ==
    /\ w \in live \cap Popular
    /\ requests' = requests \cup {[id |-> 0, workflow |-> w]}
    /\ UNCHANGED <<live, lost>>

-----------------------------------------------------------------------------
\* Deleting a workflow.

\* handleDelete, confirmed.  The handler keeps the list of the render it was
\* made in.  Nothing keeps the user from the next click.
Delete(w) ==
    /\ place = "protocols" /\ View = "list"
    /\ w \in shown
    /\ clicks.delete < MaxDeletes
    /\ clicks' = [clicks EXCEPT !.delete = @ + 1]
    /\ deletes' = deletes \cup
          {[id |-> clicks.delete + 1, workflow |-> w, mount |-> mounts, workflows |-> shown,
            had |-> RequestsOf(w), state |-> "sent"]}
    /\ UNCHANGED <<serverVars, starts, pageVars, taken, unheard>>

Served(d, state) ==
    deletes' = (deletes \ {d}) \cup
       (IF d.mount = 0 /\ state # "loaded" THEN {} ELSE {[d EXCEPT !.state = state]})

\* Faulty form: the database is left to refuse.
LoadRequestsUnchecked(d) ==
    /\ d \in deletes /\ d.state = "sent"
    /\ d.workflow \in live
    /\ Served(d, "loaded")
    /\ UNCHANGED <<serverVars, starts, pageVars, clicks, taken, unheard>>

\* get_workflow and the SELECTs of the flush.
LoadRequests(d) ==
    /\ d \in deletes /\ d.state = "sent"
    /\ d.workflow \in live
    /\ RequestsOf(d.workflow) = {}
    /\ Served(d, "loaded")
    /\ UNCHANGED <<serverVars, starts, pageVars, clicks, taken, unheard>>

\* The DELETE and the commit; no row to delete is only a warning.
ExecuteDelete(d) ==
    /\ d \in deletes /\ d.state = "loaded"
    /\ live' = live \ {d.workflow}
    /\ requests' = requests \ RequestsOf(d.workflow)
    /\ lost' = lost \cup RequestsOf(d.workflow)
    /\ Served(d, "done")
    /\ UNCHANGED <<starts, pageVars, clicks, taken, unheard>>

\* There is no such workflow, it has requests, or the transaction fails, for one
\* in a deadlock with a start.
DeleteRefused(d) ==
    /\ d \in deletes /\ d.state \in {"sent", "loaded"}
    /\ Served(d, "refused")
    /\ UNCHANGED <<serverVars, starts, pageVars, clicks, taken, unheard>>

\* Faulty form: the list is left alone.
DeleteOkUnfiltered(d) ==
    /\ d \in deletes /\ d.state = "done"
    /\ deletes' = deletes \ {d}
    /\ gone' = IF Listening(d) THEN gone \cup {d.workflow} ELSE gone
    /\ UNCHANGED <<serverVars, starts, place, mounts, rows, loading, shown, formVars,
                   clicks, taken, unheard>>

\* The list becomes the handler's list without the workflow.
DeleteOk(d) ==
    /\ d \in deletes /\ d.state = "done"
    /\ deletes' = deletes \ {d}
    /\ IF Listening(d)
       THEN shown' = d.workflows \ {d.workflow} /\ gone' = gone \cup {d.workflow}
       ELSE UNCHANGED <<shown, gone>>
    /\ UNCHANGED <<serverVars, starts, place, mounts, rows, loading, formVars, clicks,
                   taken, unheard>>

\* The alert; the server may still delete.
DeleteFailed(d) ==
    /\ d \in deletes /\ d.mount # 0
    /\ deletes' = (deletes \ {d}) \cup
          (IF d.state \in {"sent", "loaded"} THEN {[d EXCEPT !.mount = 0]} ELSE {})
    /\ UNCHANGED <<serverVars, starts, pageVars, clicks, taken, unheard>>

-----------------------------------------------------------------------------

StartServed == \E s \in starts : StartCommits(s) \/ StartRefused(s)
StartAnswered == \E s \in starts : StartOk(s) \/ StartFailed(s)

Next ==
    \/ \E p \in Pages : Navigate(p)
    \/ ServeRows \/ RowsArrive
    \/ /\ \/ \E w \in Workflows \cup {None} : OpenForm(w) \/ Choose(w)
          \/ CloseForm
       /\ UNCHANGED <<serverVars, starts, deletes, clicks, taken, unheard>>
    \/ Start \/ StartServed \/ StartAnswered
    \/ /\ \E w \in Workflows : OtherStarts(w)
       /\ UNCHANGED <<starts, deletes, pageVars, clicks, taken, unheard>>
    \/ \E w \in Workflows : Delete(w)
    \/ \E d \in deletes : LoadRequests(d) \/ ExecuteDelete(d) \/ DeleteRefused(d)
                          \/ DeleteOk(d) \/ DeleteFailed(d)

\* A call ends: answered, or given up when its connection breaks.
Spec == Init /\ [][Next]_vars
FairSpec == Spec /\ WF_vars(StartAnswered)

-----------------------------------------------------------------------------

Request == [id : 0 .. MaxStarts, workflow : Workflows]

\* A page never has two starts under way, also when the form of the dashboard is
\* cancelled and opened again before the answer.
OneStartPerPage ==
    \A s, t \in starts : Listening(s) /\ Listening(t) => s = t /\ submitting

\* Every variable has its type; no page starts twice at a time; a page that is
\* not the dashboard has a workflow chosen exactly while its form is open, and a
\* list is only shown once loaded.
TypeOK ==
    /\ live \subseteq Workflows
    /\ requests \subseteq Request /\ lost \subseteq Request
    /\ \A r \in requests : r.workflow \in live
    /\ \A s \in starts :
          /\ s.id \in 1 .. clicks.start /\ s.workflow \in Workflows
          /\ s.mount \in 0 .. mounts /\ s.state \in {"sent", "made", "refused"}
    /\ \A d \in deletes :
          /\ d.id \in 1 .. clicks.delete /\ d.workflow \in d.workflows
          /\ d.workflows \subseteq Workflows /\ d.mount \in 0 .. mounts
          /\ d.state \in {"sent", "loaded", "done", "refused"}
    /\ place \in Pages \cup {"request"}
    /\ mounts \in 1 .. MaxMounts
    /\ rows \in {None} \cup SUBSET Workflows
    /\ loading \in BOOLEAN /\ modal \in BOOLEAN /\ submitting \in BOOLEAN
    /\ shown \subseteq Workflows /\ (loading => shown = {})
    /\ choice \in Workflows \cup {None}
    /\ place # "dashboard" => (modal <=> choice # None)
    /\ gone \subseteq Workflows \ live
    /\ OneStartPerPage
    /\ taken \subseteq 1 .. clicks.start /\ unheard \subseteq 1 .. clicks.start

\* The user is taken to every request started, from whatever page is open by
\* then, unless the answer was lost.
StartedIsShown ==
    \A r \in requests \cup lost :
        \/ r.id = 0 \/ r.id \in taken \cup unheard
        \/ \E s \in starts : s.id = r.id /\ s.state = "made"

\* A workflow deleted on the list of the administrator is not listed again, if
\* it is the only one deleted there: a second deletion clicked before the answer
\* to the first brings it back.
OneDeletionSticks == shown \cap gone # {} => Cardinality(gone) > 1

\* Deleting a workflow takes away only requests that were started after the
\* administrator's click.
OnlyRacingRequestsLost ==
    [][\A r \in lost' \ lost :
          \E d \in deletes : d.workflow = r.workflow /\ r \notin d.had]_vars

\* A start that is under way ends: the form can be used again, or the request's
\* page is opened.
StartingEnds == submitting ~> ~submitting

\* No request is lost with its workflow (docs/DATABASE_SCHEMA.md:51).
ActiveRequestsSurvive == lost = {}

=============================================================================
