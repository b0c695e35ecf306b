----------------------------- MODULE RequestPage -----------------------------
(***************************************************************************)
(* The page of one request (frontend/src/app/requests/[id]/page.tsx, also  *)
(* reached as /instances/{id}): a snapshot of the request, and a form that *)
(* decides its open execution, then reads the request again.               *)
(*                                                                         *)
(* The server's schema has a field steps, which the page looks into for    *)
(* the open execution.  StepsServed says whether the server fills it: the  *)
(* column the schema reads does not exist, so today it does not.           *)
(***************************************************************************)
EXTENDS DecisionService

CONSTANTS
    Viewed,       \* the request of the page
    StepsServed

ASSUME RequestPageAssumption == Viewed \in Requests /\ StepsServed \in BOOLEAN

VARIABLES
    request,         \* stage of the snapshot shown, 0 if there is none
    requestLoading,
    processing,
    note,            \* text of the note field, 0 if empty
    reads            \* GET requests/{id} in flight: <<decision it follows (0 for the
                     \* mount), stage the server answered with (0 if not yet)>>

requestVars == <<request, requestLoading, processing, note, reads>>

RequestInit ==
    /\ request = 0
    /\ requestLoading = TRUE
    /\ processing = FALSE
    /\ note = 0
    /\ reads = {<<0, 0>>}

-----------------------------------------------------------------------------
\* What the page shows.

\* The first step with status PENDING, 0 if none.
CurrentStep == IF StepsServed /\ request \in Stages THEN request ELSE 0

\* The timeline: the stages of the snapshot, each done or pending.
ExecutionTimeline ==
    [s \in IF StepsServed THEN {k \in Stages : k <= request} ELSE {} |->
        IF s = CurrentStep THEN "pending" ELSE "completed"]

\* Spinner, not found, or the decision console: a form for the current step,
\* the lock if there is none.
RequestView ==
    IF requestLoading THEN "spinner"
    ELSE IF request = 0 THEN "not found"
    ELSE IF CurrentStep # 0 THEN "form" ELSE "lock"

\* Faulty form: the button is not disabled.
SubmitEnabledAlways == RequestView = "form"

SubmitEnabled == RequestView = "form" /\ ~processing

-----------------------------------------------------------------------------

\* The server answers a read.
ServeRead(g) ==
    /\ g \in reads /\ g[2] = 0
    /\ reads' = (reads \ {g}) \cup {<<g[1], stage[Viewed]>>}
    /\ UNCHANGED <<request, requestLoading, processing, note>>

\* fetchRequest, the read of the mount.
FetchOk(g) ==
    /\ g \in reads /\ g[1] = 0 /\ g[2] # 0
    /\ reads' = reads \ {g}
    /\ request' = g[2]
    /\ requestLoading' = FALSE
    /\ UNCHANGED <<processing, note>>

FetchFailed(g) ==
    /\ g \in reads /\ g[1] = 0
    /\ reads' = reads \ {g}
    /\ requestLoading' = FALSE
    /\ UNCHANGED <<request, processing, note>>

WriteNote ==
    /\ RequestView = "form"
    /\ Len(decisions) < MaxDecisions
    /\ note' = Len(decisions) + 1
    /\ UNCHANGED <<request, requestLoading, processing, reads>>

\* handleProcess up to its first await, with the outcome chosen by the buttons
\* Approve and Reject.
Submit ==
    /\ SubmitEnabled
    /\ processing' = TRUE
    /\ Send("request", <<Viewed, CurrentStep>>, note)
    /\ UNCHANGED <<stage, others, request, requestLoading, note, reads>>

\* The decision was accepted: handleProcess reads the request again.
SubmitOk(i) ==
    /\ AnswerOk(i, "request")
    /\ reads' = reads \cup {<<i, 0>>}
    /\ UNCHANGED <<request, requestLoading, processing, note>>

\* A failure is only logged.
SubmitFailed(i) ==
    /\ AnswerFailed(i, "request")
    /\ processing' = FALSE
    /\ UNCHANGED <<request, requestLoading, note, reads>>

\* Faulty form: the page keeps its snapshot.
RefreshOkStale(g) ==
    /\ g \in reads /\ g[1] # 0 /\ g[2] # 0
    /\ reads' = reads \ {g}
    /\ note' = 0
    /\ processing' = FALSE
    /\ UNCHANGED <<request, requestLoading>>

RefreshOk(g) ==
    /\ g \in reads /\ g[1] # 0 /\ g[2] # 0
    /\ reads' = reads \ {g}
    /\ request' = g[2]
    /\ note' = 0
    /\ processing' = FALSE
    /\ UNCHANGED <<requestLoading>>

\* The second read fails: the decision stands, and the page goes on showing
\* the execution it closed, with the note still in the form.
RefreshFailed(g) ==
    /\ g \in reads /\ g[1] # 0
    /\ reads' = reads \ {g}
    /\ Answered(g[1], "unread")
    /\ processing' = FALSE
    /\ UNCHANGED <<stage, others, request, requestLoading, note>>

RequestNext ==
    \/ /\ \/ \E g \in reads : \/ ServeRead(g) \/ FetchOk(g) \/ FetchFailed(g)
                              \/ RefreshOk(g)
          \/ WriteNote
       /\ UNCHANGED serviceVars
    \/ Submit
    \/ \E i \in DOMAIN decisions : SubmitOk(i) \/ SubmitFailed(i)
    \/ \E g \in reads : RefreshFailed(g)

RequestTypeOK ==
    /\ request \in 0 .. Finalized
    /\ requestLoading \in BOOLEAN /\ processing \in BOOLEAN
    /\ note \in 0 .. MaxDecisions
    /\ reads \subseteq (0 .. MaxDecisions) \X (0 .. Finalized)

-----------------------------------------------------------------------------

\* handleProcess is never under way twice, from the click to the end of the
\* second read, and the button is blocked exactly that long.
OneSubmissionAtATime ==
    LET refreshing == {g \in reads : g[1] # 0}
        posting == PendingOf("request")
    IN  /\ processing <=> posting \cup refreshing # {}
        /\ posting = {} \/ refreshing = {}
        /\ \A i, j \in posting : i = j
        /\ \A f, g \in refreshing : f = g

\* A decision of this page closes the execution shown, or a later one of the
\* request.  The latter needs another user, the other page, or two submissions
\* of this one of which one failed, in its call or in its second read.
StaleSubmissionExplained ==
    \A i \in DOMAIN decisions :
        LET d == decisions[i]
        IN  (d.page = "request" /\ d.server = "applied" /\ d.closed # d.shown) =>
            /\ d.closed[2] > d.shown[2]
            /\ \/ d.shown \in others
               \/ \E j \in DOMAIN decisions \ {i} :
                     /\ decisions[j].server = "applied"
                     /\ decisions[j].closed = d.shown
                     /\ decisions[j].page = "request" =>
                           {"failed", "unread"} \cap {d.client, decisions[j].client} # {}

\* The lock stands for a request that is finalized or at a stage the user is
\* not cleared for (page.tsx:272).
LockMeansFinalized ==
    RequestView = "lock" => request = Finalized \/ request \notin Cleared

=============================================================================
