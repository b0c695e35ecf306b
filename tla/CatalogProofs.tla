---------------------------- MODULE CatalogProofs ----------------------------
(***************************************************************************)
(* What starting and deleting workflows guarantees for any number of       *)
(* workflows, clicks, pages and lost calls.                                *)
(***************************************************************************)
EXTENDS Catalog, FiniteSetTheorems, TLAPS

\* Records of the calls in flight.
StartCall == [id : 1 .. MaxStarts, workflow : Workflows, mount : 0 .. MaxMounts,
              state : {"sent", "made", "refused"}]
DeleteCall == [id : 1 .. MaxDeletes, workflow : Workflows, mount : 0 .. MaxMounts,
               workflows : SUBSET Workflows, had : SUBSET Request,
               state : {"sent", "loaded", "done", "refused"}]

ServerSound ==
    /\ live \subseteq Workflows
    /\ requests \subseteq Request /\ lost \subseteq Request
    /\ \A r \in requests : r.workflow \in live

CountersSound ==
    /\ clicks \in [start : 0 .. MaxStarts, delete : 0 .. MaxDeletes]
    /\ taken \subseteq 1 .. clicks.start /\ unheard \subseteq 1 .. clicks.start
    /\ mounts \in 1 .. MaxMounts

\* A call the client has given up is marked as unheard.
StartsSound ==
    /\ starts \subseteq StartCall
    /\ \A s \in starts : /\ s.id <= clicks.start /\ s.mount <= mounts
                         /\ s.mount = 0 => s.id \in unheard

\* As long as a workflow exists so do the requests it had at the click, so a
\* deletion gets past them only if there were none.
DeletesSound ==
    /\ deletes \subseteq DeleteCall
    /\ \A d \in deletes :
          /\ d.id <= clicks.delete /\ d.mount <= mounts
          /\ d.workflow \in d.workflows
          /\ d.workflow \in live => d.had \subseteq RequestsOf(d.workflow)
          /\ d.state = "loaded" => d.had = {}
          /\ d.state = "done" => d.workflow \notin live

PageSound ==
    /\ place \in Pages \cup {"request"}
    /\ rows \in {None} \cup SUBSET Workflows
    /\ loading \in BOOLEAN /\ modal \in BOOLEAN /\ submitting \in BOOLEAN
    /\ shown \subseteq Workflows
    /\ choice \in Workflows \cup {None}
    /\ place # "dashboard" => (modal <=> choice # None)

\* Nothing is shown, deleted or known to be gone on a page that still loads.
LoadingSound ==
    loading => /\ shown = {} /\ gone = {}
               /\ \A d \in deletes : ~Listening(d)

GoneSound ==
    /\ gone \subseteq Workflows \ live
    /\ IsFiniteSet(gone)
    /\ \A w : gone = {w} => w \notin shown

Inv == /\ ServerSound /\ CountersSound /\ StartsSound /\ DeletesSound /\ PageSound
       /\ LoadingSound /\ GoneSound /\ OneStartPerPage /\ StartedIsShown

-----------------------------------------------------------------------------
\* One lemma per kind of step.

\* A page that is mounted listens to no call made before.
LEMMA NavigateStep ==
  ASSUME Inv, NEW p \in Pages, Navigate(p)
  PROVE  Inv'
<1> USE DEF Inv
<1>1. ServerSound' /\ StartedIsShown'
  BY DEF Navigate, serverVars, ServerSound, StartedIsShown
<1>2. mounts \in Nat /\ MaxMounts \in Nat /\ mounts' = mounts + 1 /\ mounts' \in 1 .. MaxMounts
  BY CatalogAssumption DEF Navigate, CountersSound
<1>3. CountersSound'
  BY <1>2 DEF Navigate, CountersSound
<1>4. StartsSound' /\ \A s \in starts' : s.mount # mounts'
  BY <1>2 DEF Navigate, StartsSound, StartCall
<1>5. DeletesSound' /\ \A d \in deletes' : d.mount # mounts'
  BY <1>2 DEF Navigate, DeletesSound, DeleteCall, serverVars, RequestsOf
<1>6. PageSound'
  BY DEF Navigate, Fresh, PageSound
<1>7. LoadingSound' /\ OneStartPerPage'
  BY <1>4, <1>5 DEF Navigate, Fresh, LoadingSound, OneStartPerPage, Listening
<1>8. GoneSound'
  BY FS_EmptySet DEF Navigate, Fresh, GoneSound
<1> QED
  BY <1>1, <1>3, <1>4, <1>5, <1>6, <1>7, <1>8

\* Lists arrive only at a page that still loads; forms leave calls alone.
LEMMA PageStep ==
  ASSUME Inv,
         \/ ServeRows \/ RowsArrive
         \/ /\ \/ \E w \in Workflows \cup {None} : OpenForm(w) \/ Choose(w)
               \/ CloseForm
            /\ UNCHANGED <<serverVars, starts, deletes, clicks, taken, unheard>>
  PROVE  Inv'
<1> USE DEF Inv
<1>1. /\ UNCHANGED <<live, requests, lost, starts, deletes, clicks, taken, unheard>>
      /\ UNCHANGED <<place, mounts, submitting, gone>>
  BY DEF ServeRows, RowsArrive, OpenForm, Choose, CloseForm, serverVars, formVars
<1>2. ServerSound' /\ CountersSound' /\ StartsSound' /\ DeletesSound' /\ OneStartPerPage'
        /\ StartedIsShown'
  BY <1>1 DEF ServerSound, CountersSound, StartsSound, DeletesSound, OneStartPerPage,
     StartedIsShown, Listening, RequestsOf
<1>3. CASE ServeRows
  BY <1>1, <1>2, <1>3 DEF ServeRows, formVars, PageSound, LoadingSound, GoneSound, ServerSound,
     Listening
<1>4. CASE RowsArrive
  BY <1>1, <1>2, <1>4 DEF RowsArrive, formVars, PageSound, LoadingSound, GoneSound, Listening
<1>5. ASSUME NEW w \in Workflows \cup {None}, OpenForm(w) PROVE Inv'
  BY <1>1, <1>2, <1>5, CatalogAssumption
     DEF OpenForm, PageSound, LoadingSound, GoneSound, Listening
<1>6. ASSUME NEW w \in Workflows \cup {None}, Choose(w) PROVE Inv'
  BY <1>1, <1>2, <1>6 DEF Choose, PageSound, LoadingSound, GoneSound, Listening
<1>7. CASE CloseForm
  BY <1>1, <1>2, <1>7 DEF CloseForm, PageSound, LoadingSound, GoneSound, Listening
<1> QED
  BY <1>3, <1>4, <1>5, <1>6, <1>7

\* A start is the only one its page listens to.
LEMMA StartStep ==
  ASSUME Inv, Start
  PROVE  Inv'
<1> USE DEF Inv
<1> DEFINE new == [id |-> clicks.start + 1, workflow |-> choice, mount |-> mounts,
                   state |-> "sent"]
<1>1. /\ UNCHANGED <<live, requests, lost, deletes, taken, unheard>>
      /\ UNCHANGED <<place, mounts, rows, loading, shown, modal, choice, gone>>
      /\ starts' = starts \cup {new} /\ submitting' = TRUE /\ ~submitting
      /\ clicks' = [clicks EXCEPT !.start = @ + 1]
      /\ clicks.start < MaxStarts /\ choice # None
  BY DEF Start, StartEnabled, serverVars
<1>2. /\ clicks'.start = clicks.start + 1 /\ clicks'.delete = clicks.delete
      /\ clicks'.start \in 1 .. MaxStarts /\ clicks.start \in Nat
      /\ clicks' \in [start : 0 .. MaxStarts, delete : 0 .. MaxDeletes]
  BY <1>1, CatalogAssumption DEF CountersSound
<1>3. mounts \in 1 .. MaxMounts
  BY DEF CountersSound
<1>4. new \in StartCall /\ new.id = clicks'.start /\ new.mount = mounts /\ mounts # 0
        /\ new.state = "sent"
  BY <1>1, <1>2, <1>3, CatalogAssumption DEF StartCall, PageSound
<1> HIDE DEF new
<1>5. ServerSound' /\ PageSound' /\ LoadingSound' /\ GoneSound'
  BY <1>1 DEF ServerSound, PageSound, LoadingSound, GoneSound, Listening
<1>6. CountersSound'
  BY <1>1, <1>2, <1>3 DEF CountersSound
<1>7. StartsSound'
  <2>1. \A s \in starts : s.id \in Nat /\ s.id <= clicks.start
    BY DEF StartsSound, StartCall
  <2>2. \A s \in starts : s.id <= clicks'.start
    BY <1>2, <2>1
  <2> QED
    BY <1>1, <1>2, <1>3, <1>4, <2>2 DEF StartsSound
<1>8. DeletesSound'
  BY <1>1, <1>2 DEF DeletesSound, RequestsOf
<1>9. OneStartPerPage'
  BY <1>1 DEF OneStartPerPage, Listening
<1>10. StartedIsShown'
  BY <1>1 DEF StartedIsShown
<1> QED
  BY <1>5, <1>6, <1>7, <1>8, <1>9, <1>10

\* A call that is served stays the one its page waits for.
LEMMA ServedStep ==
  ASSUME Inv, NEW s \in starts, StartCommits(s) \/ StartRefused(s)
  PROVE  Inv'
<1> USE DEF Inv
<1> DEFINE made == [s EXCEPT !.state = "made"]
           refused == [s EXCEPT !.state = "refused"]
<1>1. s \in StartCall
  BY DEF StartsSound
<1>2. /\ made \in StartCall /\ made.id = s.id /\ made.mount = s.mount /\ made.state = "made"
      /\ refused \in StartCall /\ refused.id = s.id /\ refused.mount = s.mount
  BY <1>1 DEF StartCall
<1>3. /\ UNCHANGED <<live, lost, deletes, clicks, taken, unheard>>
      /\ UNCHANGED <<place, mounts, rows, loading, shown, modal, choice, submitting, gone>>
      /\ s.state = "sent"
  BY DEF StartCommits, StartRefused, serverVars, pageVars, formVars
<1>4. PageSound' /\ LoadingSound' /\ GoneSound' /\ CountersSound'
  BY <1>3 DEF PageSound, LoadingSound, GoneSound, CountersSound, Listening
<1>5. CASE StartCommits(s)
  <2>1. /\ s.workflow \in live
        /\ requests' = requests \cup {[id |-> s.id, workflow |-> s.workflow]}
        /\ starts' = (starts \ {s}) \cup (IF s.mount = 0 THEN {} ELSE {made})
    BY <1>5 DEF StartCommits
  <2> HIDE DEF made, refused
  <2>2. [id |-> s.id, workflow |-> s.workflow] \in Request
    BY <1>1, CatalogAssumption DEF StartCall, Request
  <2>3. ServerSound'
    BY <1>3, <2>1, <2>2 DEF ServerSound
  <2>4. StartsSound'
    BY <1>2, <1>3, <2>1 DEF StartsSound
  <2>5. DeletesSound'
    BY <1>3, <2>1 DEF DeletesSound, RequestsOf
  <2>6. OneStartPerPage'
    BY <1>2, <1>3, <2>1 DEF OneStartPerPage, Listening
  <2>7. \A r \in requests \cup lost : r.id = 0 \/ r.id \in taken' \cup unheard'
            \/ \E t \in starts' : t.id = r.id /\ t.state = "made"
    BY <1>3, <2>1 DEF StartedIsShown
  <2>8. s.id \in unheard' \/ \E t \in starts' : t.id = s.id /\ t.state = "made"
    BY <1>2, <1>3, <2>1 DEF StartsSound
  <2>9. StartedIsShown'
    BY <1>3, <2>1, <2>7, <2>8 DEF StartedIsShown
  <2> QED
    BY <1>4, <2>3, <2>4, <2>5, <2>6, <2>9
<1>6. CASE StartRefused(s)
  <2>1. /\ UNCHANGED requests
        /\ starts' = (starts \ {s}) \cup (IF s.mount = 0 THEN {} ELSE {refused})
    BY <1>6 DEF StartRefused, serverVars
  <2> HIDE DEF made, refused
  <2>2. ServerSound' /\ DeletesSound'
    BY <1>3, <2>1 DEF ServerSound, DeletesSound, RequestsOf
  <2>3. StartsSound'
    BY <1>2, <1>3, <2>1 DEF StartsSound
  <2>4. OneStartPerPage'
    BY <1>2, <1>3, <2>1 DEF OneStartPerPage, Listening
  <2>5. StartedIsShown'
    BY <1>3, <2>1 DEF StartedIsShown
  <2> QED
    BY <1>4, <2>2, <2>3, <2>4, <2>5
<1> QED
  BY <1>5, <1>6

\* The answer leads to the page of the request, which listens to nothing here.
LEMMA StartOkStep ==
  ASSUME Inv, NEW s \in starts, StartOk(s)
  PROVE  Inv'
<1> USE DEF Inv
<1>1. /\ UNCHANGED <<live, requests, lost, deletes, mounts, clicks, unheard>>
      /\ starts' = starts \ {s} /\ taken' = taken \cup {s.id} /\ place' = "request"
      /\ Fresh
  BY DEF StartOk, serverVars
<1>2. s.id \in 1 .. clicks.start
  BY DEF StartsSound, StartCall, CountersSound
<1>3. ServerSound' /\ CountersSound' /\ StartsSound' /\ DeletesSound' /\ StartedIsShown'
  BY <1>1, <1>2 DEF ServerSound, CountersSound, StartsSound, DeletesSound, StartedIsShown,
     RequestsOf
<1>4. PageSound' /\ LoadingSound' /\ OneStartPerPage'
  BY <1>1 DEF Fresh, PageSound, LoadingSound, OneStartPerPage, Listening, Pages
<1>5. GoneSound'
  BY <1>1, FS_EmptySet DEF Fresh, GoneSound
<1> QED
  BY <1>3, <1>4, <1>5

\* A call that is given up is not listened to any more and marked as unheard.
LEMMA StartFailedStep ==
  ASSUME Inv, NEW s \in starts, StartFailed(s)
  PROVE  Inv'
<1> USE DEF Inv
<1> DEFINE left == [s EXCEPT !.mount = 0]
<1>1. s \in StartCall
  BY DEF StartsSound
<1>2. left \in StartCall /\ left.id = s.id /\ left.mount = 0 /\ left.state = s.state
  BY <1>1, CatalogAssumption DEF StartCall
<1>3. /\ UNCHANGED <<live, requests, lost, deletes, place, mounts, rows, loading, shown>>
      /\ UNCHANGED <<gone, clicks, taken>>
  BY DEF StartFailed, serverVars
<1>4. /\ starts' = (starts \ {s}) \cup (IF s.state = "sent" THEN {left} ELSE {})
      /\ unheard' = IF s.state = "refused" THEN unheard ELSE unheard \cup {s.id}
  BY DEF StartFailed, GivenUp
<1>5. s.id \in 1 .. clicks.start /\ mounts \in 1 .. MaxMounts
  BY <1>1 DEF StartsSound, StartCall, CountersSound
<1> HIDE DEF left
<1>6. ServerSound' /\ DeletesSound' /\ LoadingSound' /\ GoneSound'
  BY <1>3 DEF ServerSound, DeletesSound, LoadingSound, GoneSound, RequestsOf, Listening
<1>7. CountersSound'
  BY <1>3, <1>4, <1>5 DEF CountersSound
<1>8. StartsSound'
  BY <1>2, <1>3, <1>4, <1>5 DEF StartsSound
<1>9. StartedIsShown'
  BY <1>3, <1>4 DEF StartedIsShown
<1>10. PageSound' /\ OneStartPerPage'
  <2>1. CASE Listening(s)
    <3>1. /\ submitting' = FALSE
          /\ modal' = (modal /\ place # "inventory")
          /\ choice' = IF place = "inventory" THEN None ELSE choice
      BY <2>1 DEF StartFailed
    <3>2. \A t \in starts' : ~Listening(t)'
      BY <1>2, <1>3, <1>4, <1>5, <2>1 DEF OneStartPerPage, Listening
    <3>3. PageSound'
      BY <1>3, <3>1 DEF PageSound
    <3> QED
      BY <3>2, <3>3 DEF OneStartPerPage
  <2>2. CASE ~Listening(s)
    <3>1. UNCHANGED <<modal, choice, submitting>>
      BY <2>2 DEF StartFailed, formVars
    <3> QED
      BY <1>2, <1>3, <1>4, <1>5, <3>1 DEF PageSound, OneStartPerPage, Listening
  <2> QED
    BY <2>1, <2>2
<1> QED
  BY <1>6, <1>7, <1>8, <1>9, <1>10

\* Another user's request belongs to a workflow that is there.
LEMMA OtherStep ==
  ASSUME Inv, NEW w \in Workflows, OtherStarts(w),
         UNCHANGED <<starts, deletes, pageVars, clicks, taken, unheard>>
  PROVE  Inv'
<1> USE DEF Inv
<1>1. [id |-> 0, workflow |-> w] \in Request
  BY CatalogAssumption DEF Request
<1>2. ServerSound' /\ DeletesSound' /\ StartedIsShown'
  BY <1>1 DEF OtherStarts, ServerSound, DeletesSound, StartedIsShown, RequestsOf, pageVars
<1>3. CountersSound' /\ StartsSound' /\ PageSound' /\ LoadingSound' /\ GoneSound'
        /\ OneStartPerPage'
  BY DEF OtherStarts, CountersSound, StartsSound, PageSound, LoadingSound, GoneSound,
     OneStartPerPage, Listening, pageVars, formVars
<1> QED
  BY <1>2, <1>3

\* A click on a list that has arrived.
LEMMA DeleteStep ==
  ASSUME Inv, NEW w \in Workflows, Delete(w)
  PROVE  Inv'
<1> USE DEF Inv
<1> DEFINE new == [id |-> clicks.delete + 1, workflow |-> w, mount |-> mounts,
                   workflows |-> shown, had |-> RequestsOf(w), state |-> "sent"]
<1>1. /\ UNCHANGED <<live, requests, lost, starts, taken, unheard>>
      /\ UNCHANGED <<place, mounts, rows, loading, shown, modal, choice, submitting, gone>>
      /\ deletes' = deletes \cup {new} /\ w \in shown /\ ~loading
      /\ clicks' = [clicks EXCEPT !.delete = @ + 1]
      /\ clicks.delete < MaxDeletes
  BY DEF Delete, View, serverVars, pageVars, formVars
<1>2. /\ clicks'.delete = clicks.delete + 1 /\ clicks'.start = clicks.start
      /\ clicks'.delete \in 1 .. MaxDeletes /\ clicks.delete \in Nat
      /\ clicks' \in [start : 0 .. MaxStarts, delete : 0 .. MaxDeletes]
  BY <1>1, CatalogAssumption DEF CountersSound
<1>3. mounts \in 1 .. MaxMounts /\ mounts \in 0 .. MaxMounts
  BY CatalogAssumption DEF CountersSound
<1>4. shown \subseteq Workflows /\ RequestsOf(w) \subseteq Request
  BY DEF PageSound, ServerSound, RequestsOf
<1>5. /\ new \in DeleteCall /\ new.id = clicks'.delete /\ new.mount = mounts
      /\ new.workflow = w /\ new.workflows = shown /\ new.had = RequestsOf(w)
      /\ new.state = "sent"
  BY <1>2, <1>3, <1>4 DEF DeleteCall
<1> HIDE DEF new
<1>6. DeletesSound'
  <2>1. \A d \in deletes : d.id <= clicks'.delete
    BY <1>2 DEF DeletesSound, DeleteCall
  <2> QED
    BY <1>1, <1>2, <1>3, <1>5, <2>1 DEF DeletesSound, RequestsOf
<1>7. ServerSound' /\ PageSound' /\ LoadingSound' /\ GoneSound' /\ OneStartPerPage'
        /\ StartedIsShown'
  BY <1>1 DEF ServerSound, PageSound, LoadingSound, GoneSound, OneStartPerPage,
     StartedIsShown, Listening
<1>8. CountersSound' /\ StartsSound'
  BY <1>1, <1>2 DEF CountersSound, StartsSound
<1> QED
  BY <1>6, <1>7, <1>8

\* The server gets past the requests it has read, deletes, or refuses.
LEMMA DeleteServedStep ==
  ASSUME Inv, NEW d \in deletes, LoadRequests(d) \/ ExecuteDelete(d) \/ DeleteRefused(d)
  PROVE  Inv'
<1> USE DEF Inv
<1> DEFINE to(st) == [d EXCEPT !.state = st]
<1>1. d \in DeleteCall
  BY DEF DeletesSound
<1>2. \A st \in {"loaded", "done", "refused"} :
        /\ to(st) \in DeleteCall /\ to(st).id = d.id /\ to(st).mount = d.mount
        /\ to(st).workflow = d.workflow /\ to(st).workflows = d.workflows
        /\ to(st).had = d.had /\ to(st).state = st
  BY <1>1 DEF DeleteCall
<1>3. /\ UNCHANGED <<starts, clicks, taken, unheard, place, mounts, rows, loading, shown>>
      /\ UNCHANGED <<modal, choice, submitting, gone>>
  BY DEF LoadRequests, ExecuteDelete, DeleteRefused, pageVars, formVars
<1>4. CountersSound' /\ StartsSound' /\ PageSound' /\ OneStartPerPage'
  BY <1>3 DEF CountersSound, StartsSound, PageSound, OneStartPerPage, Listening
<1>5. PICK st \in {"loaded", "done", "refused"} :
        /\ deletes' = (deletes \ {d}) \cup
              (IF d.mount = 0 /\ st # "loaded" THEN {} ELSE {to(st)})
        /\ st = "loaded" => LoadRequests(d)
        /\ st = "done" <=> ExecuteDelete(d)
  <2>1. CASE LoadRequests(d)
    <3>1. ~ExecuteDelete(d)
      BY <2>1 DEF LoadRequests, ExecuteDelete
    <3> QED
      BY <2>1, <3>1 DEF LoadRequests, Served
  <2>2. CASE ExecuteDelete(d)
    BY <2>2 DEF ExecuteDelete, Served
  <2>3. CASE DeleteRefused(d) /\ ~ExecuteDelete(d)
    BY <2>3 DEF DeleteRefused, Served
  <2> QED
    BY <2>1, <2>2, <2>3
<1> HIDE DEF to
<1>6. /\ live' \subseteq live /\ requests' \subseteq requests
      /\ requests' \cup lost' = requests \cup lost
      /\ \A r \in requests : r.workflow \in live' => r \in requests'
      /\ \A r \in requests' : r.workflow \in live'
      /\ st = "done" => d.workflow \notin live'
  <2>1. CASE ExecuteDelete(d)
    BY <2>1 DEF ExecuteDelete, RequestsOf, ServerSound
  <2>2. CASE LoadRequests(d) \/ DeleteRefused(d)
    <3>1. UNCHANGED <<live, requests, lost>>
      BY <2>2 DEF LoadRequests, DeleteRefused, serverVars
    <3>2. st # "done" \/ ExecuteDelete(d)
      BY <1>5
    <3> QED
      BY <2>1, <3>1, <3>2 DEF ServerSound
  <2> QED
    BY <2>1, <2>2
<1>7. ServerSound' /\ StartedIsShown'
  BY <1>3, <1>6 DEF ServerSound, StartedIsShown
<1>8. GoneSound'
  BY <1>3, <1>6 DEF GoneSound
<1>9. LoadingSound'
  BY <1>2, <1>3, <1>5 DEF LoadingSound, Listening
<1>10. DeletesSound'
  <2>1. \A e \in deletes' : e \in deletes \/ e = to(st)
    BY <1>5
  <2>2. \A e \in deletes :
          e.workflow \in live' => e.had \subseteq {r \in requests' : r.workflow = e.workflow}
    BY <1>6 DEF DeletesSound, RequestsOf
  <2>3. st = "loaded" => d.had = {}
    BY <1>5 DEF LoadRequests, DeletesSound
  <2> QED
    BY <1>2, <1>3, <1>6, <2>1, <2>2, <2>3 DEF DeletesSound, RequestsOf
<1> QED
  BY <1>4, <1>7, <1>8, <1>9, <1>10

\* Only a deletion that was carried out changes the list.
LEMMA DeleteAnsweredStep ==
  ASSUME Inv, NEW d \in deletes, DeleteOk(d) \/ DeleteFailed(d)
  PROVE  Inv'
<1> USE DEF Inv
<1>1. d \in DeleteCall
  BY DEF DeletesSound
<1>2. /\ UNCHANGED <<live, requests, lost, starts, place, mounts, rows, loading>>
      /\ UNCHANGED <<modal, choice, submitting, clicks, taken, unheard>>
  BY DEF DeleteOk, DeleteFailed, serverVars, pageVars, formVars
<1>3. ServerSound' /\ CountersSound' /\ StartsSound' /\ OneStartPerPage' /\ StartedIsShown'
  BY <1>2 DEF ServerSound, CountersSound, StartsSound, OneStartPerPage, StartedIsShown,
     Listening
<1>4. CASE DeleteOk(d)
  <2>1. deletes' = deletes \ {d} /\ d.state = "done"
    BY <1>4 DEF DeleteOk
  <2>2. DeletesSound'
    BY <1>2, <2>1 DEF DeletesSound, RequestsOf
  <2>3. CASE Listening(d)
    <3>1. shown' = d.workflows \ {d.workflow} /\ gone' = gone \cup {d.workflow}
      BY <1>4, <2>3 DEF DeleteOk
    <3>2. ~loading
      BY <2>3 DEF LoadingSound
    <3>3. d.workflows \subseteq Workflows /\ d.workflow \in Workflows \ live
      BY <1>1, <2>1 DEF DeleteCall, DeletesSound
    <3>4. IsFiniteSet(gone')
      BY <3>1, FS_AddElement DEF GoneSound
    <3>5. GoneSound'
      BY <1>2, <3>1, <3>3, <3>4 DEF GoneSound
    <3>6. PageSound' /\ LoadingSound'
      BY <1>2, <3>1, <3>2, <3>3 DEF PageSound, LoadingSound
    <3> QED
      BY <1>3, <2>2, <3>5, <3>6
  <2>4. CASE ~Listening(d)
    <3>1. UNCHANGED <<shown, gone>>
      BY <1>4, <2>4 DEF DeleteOk
    <3> QED
      BY <1>2, <1>3, <2>1, <2>2, <3>1 DEF PageSound, LoadingSound, GoneSound, Listening
  <2> QED
    BY <2>3, <2>4
<1>5. CASE DeleteFailed(d)
  <2> DEFINE left == [d EXCEPT !.mount = 0]
  <2>1. /\ left \in DeleteCall /\ left.id = d.id /\ left.mount = 0
        /\ left.workflow = d.workflow /\ left.workflows = d.workflows
        /\ left.had = d.had /\ left.state = d.state
    BY <1>1, CatalogAssumption DEF DeleteCall
  <2>2. deletes' = (deletes \ {d}) \cup
              (IF d.state \in {"sent", "loaded"} THEN {left} ELSE {})
        /\ UNCHANGED <<shown, gone>>
    BY <1>5 DEF DeleteFailed, pageVars
  <2> HIDE DEF left
  <2>3. mounts \in 1 .. MaxMounts
    BY DEF CountersSound
  <2>4. DeletesSound'
    BY <1>2, <2>1, <2>2, <2>3 DEF DeletesSound, RequestsOf
  <2>5. PageSound' /\ LoadingSound' /\ GoneSound'
    BY <1>2, <2>1, <2>2, <2>3 DEF PageSound, LoadingSound, GoneSound, Listening
  <2> QED
    BY <1>3, <2>4, <2>5
<1> QED
  BY <1>4, <1>5

-----------------------------------------------------------------------------
\* Init establishes the invariant and every step preserves it.
LEMMA Invariance == Spec => []Inv
<1>1. Init => Inv
  <2> SUFFICES ASSUME Init PROVE Inv
    OBVIOUS
  <2> USE DEF Init
  <2>1. ServerSound /\ StartsSound /\ DeletesSound /\ OneStartPerPage /\ StartedIsShown
    BY DEF ServerSound, StartsSound, DeletesSound, OneStartPerPage, StartedIsShown
  <2>2. PageSound /\ LoadingSound
    BY DEF PageSound, LoadingSound
  <2>3. GoneSound
    BY FS_EmptySet DEF GoneSound
  <2>4. CountersSound
    BY CatalogAssumption DEF CountersSound
  <2> QED
    BY <2>1, <2>2, <2>3, <2>4 DEF Inv
<1>2. Inv /\ [Next]_vars => Inv'
  <2> SUFFICES ASSUME Inv, [Next]_vars PROVE Inv'
    OBVIOUS
  <2>1. ASSUME NEW p \in Pages, Navigate(p) PROVE Inv'
    BY <2>1, NavigateStep
  <2>2. CASE ServeRows
    BY <2>2, PageStep
  <2>3. CASE RowsArrive
    BY <2>3, PageStep
  <2>4. CASE /\ \/ \E w \in Workflows \cup {None} : OpenForm(w) \/ Choose(w)
                \/ CloseForm
             /\ UNCHANGED <<serverVars, starts, deletes, clicks, taken, unheard>>
    BY <2>4, PageStep
  <2>5. CASE Start
    BY <2>5, StartStep
  <2>6. CASE StartServed
    BY <2>6, ServedStep DEF StartServed
  <2>7. CASE StartAnswered
    BY <2>7, StartOkStep, StartFailedStep DEF StartAnswered
  <2>8. CASE /\ \E w \in Workflows : OtherStarts(w)
             /\ UNCHANGED <<starts, deletes, pageVars, clicks, taken, unheard>>
    BY <2>8, OtherStep
  <2>9. ASSUME NEW w \in Workflows, Delete(w) PROVE Inv'
    BY <2>9, DeleteStep
  <2>10. ASSUME NEW d \in deletes,
                LoadRequests(d) \/ ExecuteDelete(d) \/ DeleteRefused(d)
         PROVE  Inv'
    BY <2>10, DeleteServedStep
  <2>11. ASSUME NEW d \in deletes, DeleteOk(d) \/ DeleteFailed(d) PROVE Inv'
    BY <2>11, DeleteAnsweredStep
  <2>12. CASE UNCHANGED vars
    BY <2>12 DEF vars, serverVars, pageVars, formVars, Inv, ServerSound, CountersSound,
       StartsSound, DeletesSound, PageSound, LoadingSound, GoneSound, OneStartPerPage,
       StartedIsShown, Listening, RequestsOf
  <2> QED
    BY <2>1, <2>2, <2>3, <2>4, <2>5, <2>6, <2>7, <2>8, <2>9, <2>10, <2>11, <2>12 DEF Next
<1> QED
  BY <1>1, <1>2, PTL DEF Spec

\* TypeOK: whatever is clicked, answered late or lost, no page has two starts
\* under way, and what a page shows and knows is consistent (the submitting and
\* loading flags of the three pages).
THEOREM PagesConsistent == Spec => []TypeOK
<1>1. Inv => TypeOK
  <2> SUFFICES ASSUME Inv PROVE TypeOK
    OBVIOUS
  <2> USE DEF Inv
  <2>1. \A s \in starts : /\ s.id \in 1 .. clicks.start /\ s.workflow \in Workflows
                          /\ s.mount \in 0 .. mounts
                          /\ s.state \in {"sent", "made", "refused"}
    BY DEF StartsSound, StartCall, CountersSound
  <2>2. \A d \in deletes : /\ d.id \in 1 .. clicks.delete /\ d.workflow \in d.workflows
                           /\ d.workflows \subseteq Workflows /\ d.mount \in 0 .. mounts
                           /\ d.state \in {"sent", "loaded", "done", "refused"}
    BY DEF DeletesSound, DeleteCall, CountersSound
  <2> QED
    BY <2>1, <2>2 DEF TypeOK, ServerSound, CountersSound, PageSound, LoadingSound, GoneSound
<1> QED
  BY <1>1, Invariance, PTL

\* Every request started leads to its page, or its answer was lost
\* (router.push in handleStartRequest and handleInitialize).
THEOREM StartsAreShown == Spec => []StartedIsShown
<1>1. Inv => StartedIsShown
  BY DEF Inv
<1> QED
  BY <1>1, Invariance, PTL

\* A single deletion on the administrator's list sticks (handleDelete).
THEOREM DeletionSticks == Spec => []OneDeletionSticks
<1>1. Inv => OneDeletionSticks
  <2> SUFFICES ASSUME Inv, shown \cap gone # {} PROVE Cardinality(gone) > 1
    BY DEF OneDeletionSticks
  <2>1. IsFiniteSet(gone) /\ gone # {} /\ \A w : gone # {w}
    BY DEF Inv, GoneSound
  <2>2. Cardinality(gone) \in Nat /\ Cardinality(gone) # 0 /\ Cardinality(gone) # 1
    BY <2>1, FS_CardinalityType, FS_EmptySet, FS_Singleton
  <2> QED
    BY <2>2
<1> QED
  BY <1>1, Invariance, PTL

\* A deletion takes away only requests started after the administrator's click
\* (delete_workflow: the flush refuses to delete requests it has read).
THEOREM LostRequestsRaced == Spec => OnlyRacingRequestsLost
<1> DEFINE Raced == \A r \in lost' \ lost :
                        \E d \in deletes : d.workflow = r.workflow /\ r \notin d.had
<1>1. Inv /\ [Next]_vars => [Raced]_vars
  <2> SUFFICES ASSUME Inv, Next, NEW r \in lost' \ lost
               PROVE  \E d \in deletes : d.workflow = r.workflow /\ r \notin d.had
    OBVIOUS
  <2>1. \E d \in deletes : ExecuteDelete(d)
    <3> SUFFICES ASSUME \A d \in deletes : ~ExecuteDelete(d)
                 PROVE  UNCHANGED lost
      OBVIOUS
    <3>1. ASSUME NEW p \in Pages, Navigate(p) PROVE UNCHANGED lost
      BY <3>1 DEF Navigate, serverVars
    <3>2. CASE ServeRows \/ RowsArrive \/ Start
      BY <3>2 DEF ServeRows, RowsArrive, Start, serverVars
    <3>3. CASE StartServed \/ StartAnswered
      BY <3>3 DEF StartServed, StartCommits, StartRefused, StartAnswered, StartOk, StartFailed,
         serverVars
    <3>4. CASE \E w \in Workflows : OtherStarts(w)
      BY <3>4 DEF OtherStarts
    <3>5. CASE \E w \in Workflows : Delete(w)
      BY <3>5 DEF Delete, serverVars
    <3>6. CASE \E d \in deletes : \/ LoadRequests(d) \/ DeleteRefused(d) \/ DeleteOk(d)
                                  \/ DeleteFailed(d)
      BY <3>6 DEF LoadRequests, DeleteRefused, DeleteOk, DeleteFailed, serverVars
    <3>7. CASE UNCHANGED serverVars
      BY <3>7 DEF serverVars
    <3> QED
      BY <3>1, <3>2, <3>3, <3>4, <3>5, <3>6, <3>7 DEF Next
  <2>2. PICK d \in deletes : ExecuteDelete(d)
    BY <2>1
  <2>3. d.had = {} /\ r \in RequestsOf(d.workflow)
    BY <2>2 DEF Inv, DeletesSound, ExecuteDelete
  <2> QED
    BY <2>3 DEF RequestsOf
<1> QED
  BY <1>1, Invariance, PTL DEF Spec, OnlyRacingRequestsLost

=============================================================================
