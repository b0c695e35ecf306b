------------------------------ MODULE TaskPage ------------------------------
(***************************************************************************)
(* The tasks page of the web client (frontend/src/app/tasks/page.tsx).     *)
(*                                                                         *)
(* A handler runs without interruption up to its await; what it does after *)
(* the await is a step of its own, on whatever the page shows by then and  *)
(* with the values its closure has captured.  The modal covers the page:   *)
(* while a task is selected the list cannot be reached.                    *)
(***************************************************************************)
EXTENDS DecisionService

CONSTANTS
    MaxCalls,   \* bound: calls for the details of one request in flight
    NoDetails

ASSUME TaskPageAssumption == MaxCalls \in Nat /\ NoDetails \notin Requests

VARIABLES
    tasks,         \* executions listed
    tasksLoading,
    selected,      \* selectedTask
    details,       \* request whose details are loaded
    detailCalls,   \* request |-> number of GET requests/{id} in flight
    comment,       \* text of the comment field, 0 if empty
    deciding       \* processing

taskVars == <<tasks, tasksLoading, selected, details, detailCalls,
              comment, deciding>>

TaskInit ==
    /\ tasks = {}
    /\ tasksLoading = TRUE
    /\ selected = NoTask
    /\ details = NoDetails
    /\ detailCalls = [r \in Requests |-> 0]
    /\ comment = 0
    /\ deciding = FALSE

-----------------------------------------------------------------------------
\* What the page shows.

TaskView == IF tasksLoading THEN "spinner"
            ELSE IF tasks = {} THEN "clear" ELSE "list"

\* Task cards and their buttons respond while no modal covers them.
Reviewable == IF TaskView = "list" /\ selected = NoTask THEN tasks ELSE {}

ModalShown == ~tasksLoading /\ selected # NoTask

\* The timeline is a spinner until some details are loaded.
Timeline == IF ModalShown THEN details ELSE NoDetails

\* Faulty form: the buttons are not disabled.
DecisionEnabledAlways == ModalShown

DecisionEnabled == ModalShown /\ ~deciding

-----------------------------------------------------------------------------
\* The endpoint my-tasks: open executions of stages the user is cleared for.
MyTasks == {t \in Executions : stage[t[1]] = t[2] /\ t[2] \in Cleared}

\* fetchTasks: the answer to the call made when the page is mounted.
FetchTasks ==
    /\ tasksLoading
    /\ tasksLoading' = FALSE
    /\ tasks' \in {MyTasks, {}}     \* {}: the call failed, which is only logged
    /\ UNCHANGED <<selected, details, detailCalls, comment, deciding>>

\* setSelectedTask(task), and the effect that fetches its details.
Select(t) ==
    /\ t \in Reviewable
    /\ detailCalls[t[1]] < MaxCalls
    /\ selected' = t
    /\ detailCalls' = [detailCalls EXCEPT ![t[1]] = @ + 1]
    /\ UNCHANGED <<tasks, tasksLoading, details, comment, deciding>>

\* An answer is taken whatever is selected when it arrives; a failure is only
\* logged.
DetailsArrive(r) ==
    /\ detailCalls[r] > 0
    /\ detailCalls' = [detailCalls EXCEPT ![r] = @ - 1]
    /\ details' \in {r, details}
    /\ UNCHANGED <<tasks, tasksLoading, selected, comment, deciding>>

\* Backdrop and close button: details and comment stay.
CloseModal ==
    /\ ModalShown
    /\ selected' = NoTask
    /\ UNCHANGED <<tasks, tasksLoading, details, detailCalls, comment, deciding>>

\* The user writes a new comment.  Comments are numbered so that each one
\* written after a click differs from those written before.
WriteComment ==
    /\ ModalShown
    /\ Len(decisions) < MaxDecisions
    /\ comment' = Len(decisions) + 1
    /\ UNCHANGED <<tasks, tasksLoading, selected, details, detailCalls, deciding>>

\* handleDecision, from either button, up to its await.
Decide ==
    /\ DecisionEnabled
    /\ deciding' = TRUE
    /\ Send("tasks", selected, comment)
    /\ UNCHANGED <<stage, others, tasks, tasksLoading, selected, details,
                   detailCalls, comment>>

\* Faulty forms: the task selected now is removed; the list is left alone; the
\* comment stays.
DecidedSelected(i) ==
    /\ tasks' = tasks \ {selected}
    /\ selected' = NoTask
    /\ details' = NoDetails
    /\ comment' = 0

DecidedKept(i) ==
    /\ selected' = NoTask
    /\ details' = NoDetails
    /\ comment' = 0
    /\ UNCHANGED tasks

DecidedCommentKept(i) ==
    /\ tasks' = tasks \ {decisions[i].shown}
    /\ selected' = NoTask
    /\ details' = NoDetails
    /\ UNCHANGED comment

\* The handler after a success.  The task is the one its closure has captured;
\* the modal is closed and the comment cleared whatever is selected by now.
Decided(i) ==
    /\ tasks' = tasks \ {decisions[i].shown}
    /\ selected' = NoTask
    /\ details' = NoDetails
    /\ comment' = 0

DecisionOk(i) ==
    /\ AnswerOk(i, "tasks")
    /\ Decided(i)
    /\ deciding' = FALSE
    /\ UNCHANGED <<tasksLoading, detailCalls>>

\* The alert, after which the modal is as before and the user may try again.
DecisionFailed(i) ==
    /\ AnswerFailed(i, "tasks")
    /\ deciding' = FALSE
    /\ UNCHANGED <<tasks, tasksLoading, selected, details, detailCalls, comment>>

TaskNext ==
    \/ /\ \/ FetchTasks
          \/ \E t \in Executions : Select(t)
          \/ \E r \in Requests : DetailsArrive(r)
          \/ CloseModal
          \/ WriteComment
       /\ UNCHANGED serviceVars
    \/ Decide
    \/ \E i \in DOMAIN decisions : DecisionOk(i) \/ DecisionFailed(i)

TaskTypeOK ==
    /\ tasks \subseteq Executions
    /\ tasksLoading \in BOOLEAN /\ deciding \in BOOLEAN
    /\ selected \in Executions \cup {NoTask}
    /\ details \in Requests \cup {NoDetails}
    /\ detailCalls \in [Requests -> 0 .. MaxCalls]
    /\ comment \in 0 .. MaxDecisions

-----------------------------------------------------------------------------

\* The buttons are blocked exactly while a decision of this page is unanswered,
\* and there is never a second one: neither closing the modal nor opening
\* another task lets a second decision out, and no answer leaves the page
\* blocked.
OneDecisionAtATime ==
    /\ deciding <=> PendingOf("tasks") # {}
    /\ \A i, j \in PendingOf("tasks") : i = j

\* handleDecision: a task leaves the list only if its execution is closed, also
\* when the user has opened another task before the answer came (a page that is
\* mounted anew loads its list again).
OnlyClosedTasksLeave ==
    [][tasksLoading' \/ \A t \in tasks \ tasks' : IsClosed(t)]_<<tasks>>

\* A comment that went with an acknowledged decision is not sent again with
\* another one, whatever was open when the acknowledgement came.
CommentSentOnce ==
    \A i, j \in DOMAIN decisions :
        (i < j /\ decisions[i].page = "tasks" /\ decisions[j].page = "tasks"
            /\ decisions[i].client = "ok" /\ decisions[i].note # 0)
        => decisions[j].note # decisions[i].note

\* A decision closes the execution the user saw, or, if that one was closed by
\* then, a later one of the same request.  The latter needs another user, the
\* other page, or two tries of which one was reported as failed and applied
\* all the same: what the page knows to be closed it does not offer again.
SurpriseExplained ==
    \A i \in DOMAIN decisions :
        LET d == decisions[i]
        IN  (d.page = "tasks" /\ d.server = "applied" /\ d.closed # d.shown) =>
            /\ d.closed[1] = d.shown[1] /\ d.closed[2] > d.shown[2]
            /\ \/ d.shown \in others
               \/ \E j \in DOMAIN decisions \ {i} :
                     /\ decisions[j].server = "applied"
                     /\ decisions[j].closed = d.shown
                     /\ decisions[j].page = "tasks" => "failed" \in {d.client, decisions[j].client}

\* A details answer shows the request of the task that is open (the comment at
\* page.tsx:49 says what the effect is for).
TimelineMatches ==
    Timeline # NoDetails => Timeline = selected[1]

=============================================================================
