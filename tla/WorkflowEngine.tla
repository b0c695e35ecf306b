--------------------------- MODULE WorkflowEngine ---------------------------
(***************************************************************************)
(* The workflow engine (app/services/workflow_engine.py) as its API        *)
(* handlers run it: start_workflow, process_request_step and make_decision *)
(* (app/api/v1/endpoints).                                                 *)
(*                                                                         *)
(* Every handler runs in a thread of its own with a database session of    *)
(* its own.  PostgreSQL runs at READ COMMITTED and no query takes a lock   *)
(* (no SELECT ... FOR UPDATE, no version column), so a handler is a        *)
(* sequence of steps with other handlers in between: it reads the request, *)
(* reads the pending execution, decides, and writes.  The flush and the    *)
(* commit are one step: the rows a flush changes stay locked and invisible *)
(* until the commit, and all handlers flush the tables in the same order.  *)
(*                                                                         *)
(* An UPDATE of SQLAlchemy is blind (WHERE id = ...) and lists only the    *)
(* attributes whose value differs from the one the session loaded.         *)
(***************************************************************************)
EXTENDS Naturals, Sequences, StateMachine

CONSTANTS
    Sessions,        \* concurrent API handlers
    Requests,        \* identities of workflow requests
    Users, Roles, Permissions,
    RolesOf,         \* user |-> set of roles
    PermissionsOf,   \* role |-> set of permissions
    AdminRoles,      \* the roles whose name, in lower case, is "admin"
    Workflows,       \* workflow ids clients use
    ActiveWorkflows, \* those that exist with is_active
    Steps,           \* WorkflowStep rows
    WorkflowOf,      \* step |-> workflow
    StepOrder,       \* step |-> step_order
    RequiredRole, RequiredPermission,   \* step |-> role / permission or None
    Transitions,     \* StepTransition rows: [from, to, outcome, cond]
    Data,            \* request_data and decision_data, as conditions tell them apart
    Outcomes,        \* outcome strings clients post to /requests/{id}/process
    Actions,         \* action strings clients post to /workflow-instances/{id}
    Upper,           \* action |-> action.upper()
    None,            \* NULL
    MaxExecutions    \* bound: rows of request_steps

\* A condition_config is the set of evaluation contexts it is true in; a
\* missing one is true in all of them.
EvalContext == [request_data : Data, decision_data : Data]

Outcome == Outcomes \cup {Upper[a] : a \in Actions}

Transition == [from : Steps, to : Steps \cup {None},
               outcome : STRING, cond : SUBSET EvalContext]

ASSUME ConstantsAssumption ==
    /\ RolesOf \in [Users -> SUBSET Roles]
    /\ PermissionsOf \in [Roles -> SUBSET Permissions]
    /\ AdminRoles \subseteq Roles
    /\ ActiveWorkflows \subseteq Workflows
    /\ WorkflowOf \in [Steps -> Workflows]
    /\ StepOrder \in [Steps -> Nat \ {0}]
    /\ RequiredRole \in [Steps -> Roles \cup {None}]
    /\ RequiredPermission \in [Steps -> Permissions \cup {None}]
    /\ Transitions \subseteq Transition
    /\ MaxExecutions \in Nat

ASSUME NoneAssumption ==
    /\ None \notin Steps /\ None \notin Users /\ None \notin Requests
    /\ None \notin Roles /\ None \notin Permissions
    /\ None \notin RequestStatus

\* create_workflow links steps of one workflow only.
ASSUME TransitionsAssumption ==
    \A t \in Transitions : t.to # None => WorkflowOf[t.to] = WorkflowOf[t.from]

VARIABLES
    request,        \* table workflow_requests: id |-> row; status None: no such row
    request_steps,  \* table request_steps, in insertion order
    history,        \* table request_state_history: request |-> rows
    audit_logs,     \* table audit_logs: request |-> rows
    queue,          \* notify_new_assignment messages the broker accepted, ever
    refused,        \* ... and those whose .delay() raised inside process_step
    session         \* handler |-> local state

tables == <<request, request_steps, history, audit_logs>>
vars == <<tables, queue, refused, session>>

-----------------------------------------------------------------------------
\* Rows and local states.

RequestRow == [status : RequestStatus \cup {None}, current_step_id : Steps \cup {None},
               workflow_id : Workflows \cup {None}, data : Data \cup {None},
               completed : BOOLEAN]

NoRequest == [status |-> None, current_step_id |-> None, workflow_id |-> None,
              data |-> None, completed |-> FALSE]

\* completed stands for completed_at IS NOT NULL.
ExecutionRow == [request : Requests, step : Steps, status : StepStatus,
                 assigned_to : Users \cup {None}, completed : BOOLEAN]

HistoryRow == [from : RequestStatus, to : RequestStatus, by : Users]

\* exec is 0 for the actions that concern the whole request.
AuditRow == [action : {"WORKFLOW_STARTED", "STEP_COMPLETED", "WORKFLOW_COMPLETED"},
             actor : Users, exec : Nat, outcome : Outcome \cup {None}]

Message == Requests \X Steps

\* pc: where the handler is.  status and current_step_id are the values it
\* loaded; exec and next are what it is about to write.
SessionState == [pc : {"idle", "start", "start_commit", "process", "loaded", "commit"},
                 user : Users \cup {None}, workflow : Workflows \cup {None},
                 request : Requests \cup {None}, outcome : Outcome \cup {None},
                 data : Data \cup {None}, status : RequestStatus \cup {None},
                 current_step_id : Steps \cup {None}, exec : Nat,
                 next : Steps \cup {None}]

Idle == [pc |-> "idle", user |-> None, workflow |-> None, request |-> None,
         outcome |-> None, data |-> None, status |-> None,
         current_step_id |-> None, exec |-> 0, next |-> None]

\* Faulty form: the status of a request instead of one of an execution.
CreatedExecution(r, s) == [request |-> r, step |-> s, status |-> "CREATED",
                           assigned_to |-> None, completed |-> FALSE]

PendingExecution(r, s) == [request |-> r, step |-> s, status |-> "PENDING",
                           assigned_to |-> None, completed |-> FALSE]

Init ==
    /\ request = [r \in Requests |-> NoRequest]
    /\ request_steps = <<>>
    /\ history = [r \in Requests |-> <<>>]
    /\ audit_logs = [r \in Requests |-> <<>>]
    /\ queue = {}
    /\ refused = {}
    /\ session = [s \in Sessions |-> Idle]

\* The handler ends and its session is closed.
Return(s) == session' = [session EXCEPT ![s] = Idle]

-----------------------------------------------------------------------------
\* start_workflow: POST /requests/.

\* The engine takes any step with step_order 1: the query has no ORDER BY.
FirstSteps(w) == {st \in Steps : WorkflowOf[st] = w /\ StepOrder[st] = 1}

\* The id of a request is a new UUID at every attempt, also of one whose
\* transaction was rolled back after its message had been queued.
FreshRequest(r) ==
    /\ request[r].status = None
    /\ \A st \in Steps : <<r, st>> \notin queue

ReceiveStart(s, u, w, d) ==
    /\ session[s].pc = "idle"
    /\ session' = [session EXCEPT ![s] =
                     [Idle EXCEPT !.pc = "start", !.user = u, !.workflow = w, !.data = d]]
    /\ UNCHANGED <<tables, queue, refused>>

\* Faulty form: a broker that refuses the message is only logged, as in
\* process_step.
StartWorkflowUnannounced(s, r, st) ==
    /\ session[s].pc = "start"
    /\ session[s].workflow \in ActiveWorkflows
    /\ FreshRequest(r)
    /\ st \in FirstSteps(session[s].workflow)
    /\ refused' = refused \cup {<<r, st>>}
    /\ session' = [session EXCEPT ![s] =
                     [@ EXCEPT !.pc = "start_commit", !.request = r, !.next = st]]
    /\ UNCHANGED <<tables, queue>>

\* The rows are written in the open transaction; the notification is queued
\* before the commit.
StartWorkflow(s, r, st) ==
    /\ session[s].pc = "start"
    /\ session[s].workflow \in ActiveWorkflows
    /\ FreshRequest(r)
    /\ validate_transition("CREATED", "IN_PROGRESS")
    /\ st \in FirstSteps(session[s].workflow)
    /\ queue' = queue \cup {<<r, st>>}
    /\ session' = [session EXCEPT ![s] =
                     [@ EXCEPT !.pc = "start_commit", !.request = r, !.next = st]]
    /\ UNCHANGED <<tables, refused>>

\* Unknown or inactive workflow, or one without a step of order 1.
StartFails(s) ==
    /\ session[s].pc = "start"
    /\ \/ session[s].workflow \notin ActiveWorkflows
       \/ FirstSteps(session[s].workflow) = {}
    /\ Return(s)
    /\ UNCHANGED <<tables, queue, refused>>

CommitStart(s) ==
    LET me == session[s]
        r  == me.request
    IN  /\ me.pc = "start_commit"
        /\ Len(request_steps) < MaxExecutions
        /\ request' = [request EXCEPT ![r] =
              [status |-> "IN_PROGRESS", current_step_id |-> me.next,
               workflow_id |-> me.workflow, data |-> me.data, completed |-> FALSE]]
        /\ request_steps' = Append(request_steps, PendingExecution(r, me.next))
        /\ history' = [history EXCEPT ![r] =
              Append(@, [from |-> "CREATED", to |-> "IN_PROGRESS", by |-> me.user])]
        /\ audit_logs' = [audit_logs EXCEPT ![r] =
              Append(@, [action |-> "WORKFLOW_STARTED", actor |-> me.user,
                         exec |-> 0, outcome |-> None])]
        /\ Return(s)
        /\ UNCHANGED <<queue, refused>>

-----------------------------------------------------------------------------
\* process_step: POST /requests/{id}/process and /workflow-instances/{id}.

ReceiveCall(s, u, r, o, d) ==
    /\ session[s].pc = "idle"
    /\ session' = [session EXCEPT ![s] =
                     [Idle EXCEPT !.pc = "process", !.user = u, !.request = r,
                                  !.outcome = o, !.data = d]]
    /\ UNCHANGED <<tables, queue, refused>>

\* process_request_step takes the outcome as it is.
ReceiveProcess(s, u, r, o, d) == ReceiveCall(s, u, r, o, d)

\* make_decision turns the action into an outcome.
ReceiveDecision(s, u, r, a, d) == a # "" /\ ReceiveCall(s, u, r, Upper[a], d)

\* Faulty form: the check that the request exists is missing.
LoadRequestUnchecked(s) ==
    /\ session[s].pc = "process"
    /\ session' = [session EXCEPT ![s] = [@ EXCEPT !.pc = "loaded"]]
    /\ UNCHANGED <<tables, queue, refused>>

LoadRequest(s) ==
    LET me == session[s]
    IN  /\ me.pc = "process"
        /\ request[me.request].status # None
        /\ session' = [session EXCEPT ![s] =
              [@ EXCEPT !.pc = "loaded", !.status = request[me.request].status,
                        !.current_step_id = request[me.request].current_step_id]]
        /\ UNCHANGED <<tables, queue, refused>>

RequestNotFound(s) ==
    /\ session[s].pc = "process"
    /\ request[session[s].request].status = None
    /\ Return(s)
    /\ UNCHANGED <<tables, queue, refused>>

\* Faulty form: executions that are already closed are not filtered out.
AllExecutions(r, st) ==
    {e \in 1 .. Len(request_steps) :
        request_steps[e].request = r /\ request_steps[e].step = st}

\* The executions process_step may take for the current one.
CurrentExecutions(r, st) ==
    {e \in 1 .. Len(request_steps) :
        /\ request_steps[e].request = r
        /\ request_steps[e].step = st
        /\ ~request_steps[e].completed}

\* The role and permission check of the engine, with its bypass for admins.
Authorised(u, st) ==
    \/ RolesOf[u] \cap AdminRoles # {}
    \/ /\ RequiredRole[st] # None => RequiredRole[st] \in RolesOf[u]
       /\ RequiredPermission[st] # None =>
             \E ro \in RolesOf[u] : RequiredPermission[st] \in PermissionsOf[ro]

\* Where a transition leads: the first matching one in the order of the rows,
\* which the query leaves open.  No match ends the workflow, like a
\* transition without a target.
ResolveNext(st, o, ctx) ==
    LET matching == {t \in Transitions : t.from = st /\ t.outcome = o /\ ctx \in t.cond}
    IN  IF matching = {} THEN {None} ELSE {t.to : t \in matching}

FinalStatus(o) == IF o = "APPROVED" THEN "APPROVED" ELSE "REJECTED"

\* request_data never changes after the request is created.
ContextOf(me) == [request_data |-> request[me.request].data, decision_data |-> me.data]

\* Faulty form: without the check of role and permission.
MayCloseUnauthorised(s, e) ==
    /\ session[s].pc = "loaded"
    /\ e \in CurrentExecutions(session[s].request, session[s].current_step_id)

\* The checks of process_step up to the resolution of the next step.
MayClose(s, e) ==
    /\ session[s].pc = "loaded"
    /\ e \in CurrentExecutions(session[s].request, session[s].current_step_id)
    /\ Authorised(session[s].user, request_steps[e].step)

\* There is a next step: its assignees are notified before the commit, and a
\* broker that refuses the message is only logged.
DecideNext(s, e, st) ==
    LET me == session[s]
    IN  /\ MayClose(s, e)
        /\ st \in ResolveNext(me.current_step_id, me.outcome, ContextOf(me)) \ {None}
        /\ \/ queue' = queue \cup {<<me.request, st>>} /\ UNCHANGED refused
           \/ refused' = refused \cup {<<me.request, st>>} /\ UNCHANGED queue
        /\ session' = [session EXCEPT ![s] =
              [@ EXCEPT !.pc = "commit", !.exec = e, !.next = st]]
        /\ UNCHANGED tables

\* There is none: _finalize checks both hops to the terminal status.
DecideEnd(s, e) ==
    LET me == session[s]
    IN  /\ MayClose(s, e)
        /\ None \in ResolveNext(me.current_step_id, me.outcome, ContextOf(me))
        /\ validate_transition(me.status, FinalStatus(me.outcome))
        /\ validate_transition(FinalStatus(me.outcome), "COMPLETED")
        /\ session' = [session EXCEPT ![s] = [@ EXCEPT !.pc = "commit", !.exec = e]]
        /\ UNCHANGED <<tables, queue, refused>>

\* No pending execution, a user without clearance, or an illegal transition.
DecisionRefused(s) ==
    LET me == session[s]
        pending == CurrentExecutions(me.request, me.current_step_id)
    IN  /\ me.pc = "loaded"
        /\ \/ pending = {}
           \/ \E e \in pending :
                 \/ ~Authorised(me.user, request_steps[e].step)
                 \/ /\ None \in ResolveNext(me.current_step_id, me.outcome, ContextOf(me))
                    /\ ~validate_transition(me.status, FinalStatus(me.outcome))
        /\ Return(s)
        /\ UNCHANGED <<tables, queue, refused>>

\* Faulty form: completed_at is not set.
ClosedStepsLeftOpen(me) ==
    [request_steps EXCEPT ![me.exec].assigned_to = me.user, ![me.exec].status = me.outcome]

\* The execution is closed.  It was loaded open, that is PENDING and without
\* assignee, so an outcome "PENDING" leaves the status column out of the UPDATE.
ClosedSteps(me) ==
    [request_steps EXCEPT
        ![me.exec].assigned_to = me.user,
        ![me.exec].status = IF me.outcome = "PENDING" THEN @ ELSE me.outcome,
        ![me.exec].completed = TRUE]

StepCompletedRow(me) == [action |-> "STEP_COMPLETED", actor |-> me.user,
                         exec |-> me.exec, outcome |-> me.outcome]

\* Faulty forms: current_step_id is not assigned; the loaded status is written
\* back with it.
MovedNowhere(me) == request

MovedWithStatus(me) ==
    [request EXCEPT ![me.request].current_step_id = me.next,
                    ![me.request].status = me.status]

\* current_step_id is in the UPDATE only if it differs from the loaded one.
MovedRequest(me) ==
    [request EXCEPT ![me.request].current_step_id =
        IF me.next # me.current_step_id THEN me.next ELSE @]

CommitNext(s) ==
    LET me == session[s]
        r  == me.request
    IN  /\ me.pc = "commit"
        /\ me.next # None
        /\ me.outcome \in StepStatus
        /\ Len(request_steps) < MaxExecutions
        /\ request_steps' = Append(ClosedSteps(me), PendingExecution(r, me.next))
        /\ request' = MovedRequest(me)
        /\ audit_logs' = [audit_logs EXCEPT ![r] = Append(@, StepCompletedRow(me))]
        /\ Return(s)
        /\ UNCHANGED <<history, queue, refused>>

Hop(me, from, to) == [from |-> from, to |-> to, by |-> me.user]

\* Faulty forms: the second hop is not recorded; the hops are swapped.
OneHop(me) == <<Hop(me, me.status, FinalStatus(me.outcome))>>

SwappedHops(me) == <<Hop(me, FinalStatus(me.outcome), "COMPLETED"),
                     Hop(me, me.status, FinalStatus(me.outcome))>>

FinalHops(me) == <<Hop(me, me.status, FinalStatus(me.outcome)),
                   Hop(me, FinalStatus(me.outcome), "COMPLETED")>>

CompletedRow(me) == [action |-> "WORKFLOW_COMPLETED", actor |-> me.user,
                     exec |-> 0, outcome |-> me.outcome]

\* Faulty form: process_step returns after _finalize.
CompletionOnly(me) == <<CompletedRow(me)>>

FinalRows(me) == <<CompletedRow(me), StepCompletedRow(me)>>

CommitEnd(s) ==
    LET me == session[s]
        r  == me.request
    IN  /\ me.pc = "commit"
        /\ me.next = None
        /\ me.outcome \in StepStatus
        /\ request_steps' = ClosedSteps(me)
        /\ request' = [request EXCEPT ![r].status = "COMPLETED",
                                      ![r].current_step_id = None,
                                      ![r].completed = TRUE]
        /\ history' = [history EXCEPT ![r] = @ \o FinalHops(me)]
        /\ audit_logs' = [audit_logs EXCEPT ![r] = @ \o FinalRows(me)]
        /\ Return(s)
        /\ UNCHANGED <<queue, refused>>

\* The outcome is written to an enumeration column without validation: an
\* unknown string makes the flush fail, and log_action rolls back.
FlushFails(s) ==
    /\ session[s].pc = "commit"
    /\ session[s].outcome \notin StepStatus
    /\ Return(s)
    /\ UNCHANGED <<tables, queue, refused>>

\* The database fails, the broker refuses the message of start_workflow (not
\* guarded there), or the process dies: the transaction is rolled back, the
\* messages already queued stay.
Abort(s) ==
    /\ session[s].pc # "idle"
    /\ Return(s)
    /\ UNCHANGED <<tables, queue, refused>>

-----------------------------------------------------------------------------

Receive(s) ==
    \/ \E u \in Users, w \in Workflows, d \in Data : ReceiveStart(s, u, w, d)
    \/ \E u \in Users, r \in Requests, o \in Outcomes, d \in Data :
          ReceiveProcess(s, u, r, o, d)
    \/ \E u \in Users, r \in Requests, a \in Actions, d \in Data :
          ReceiveDecision(s, u, r, a, d)

Handle(s) ==
    \/ \E r \in Requests, st \in Steps : StartWorkflow(s, r, st)
    \/ StartFails(s)
    \/ CommitStart(s)
    \/ RequestNotFound(s)
    \/ \E e \in 1 .. Len(request_steps), st \in Steps : DecideNext(s, e, st)
    \/ \E e \in 1 .. Len(request_steps) : DecideEnd(s, e)
    \/ DecisionRefused(s)
    \/ CommitNext(s)
    \/ CommitEnd(s)
    \/ FlushFails(s)

Next == \E s \in Sessions : Receive(s) \/ LoadRequest(s) \/ Handle(s) \/ Abort(s)

Spec == Init /\ [][Next]_vars

\* The discipline under which the engine keeps the promise of Lifecycle: a
\* handler loads a request only if no other one is between loading and
\* committing it, as if the first query of process_step locked the row.
\* Nothing in the code enforces it.
LoadAlone(s) ==
    /\ \A t \in Sessions : session[t].pc \in {"loaded", "commit"} =>
          session[t].request # session[s].request
    /\ LoadRequest(s)

SerialNext == \E s \in Sessions : Receive(s) \/ LoadAlone(s) \/ Handle(s) \/ Abort(s)

SerialSpec == Init /\ [][SerialNext]_vars

-----------------------------------------------------------------------------
\* Properties of every behaviour, whatever the handlers interleave.

\* Every table and every session holds rows of its type.
TypeOK ==
    /\ request \in [Requests -> RequestRow]
    /\ request_steps \in Seq(ExecutionRow)
    /\ history \in [Requests -> Seq(HistoryRow)]
    /\ audit_logs \in [Requests -> Seq(AuditRow)]
    /\ queue \subseteq Message
    /\ refused \subseteq Message
    /\ session \in [Sessions -> SessionState]

\* What a handler in flight can rely on although others run between its
\* steps: the request it loaded still exists, the execution it is about to
\* close is one of that request at the step it loaded, its user is cleared for
\* that step, and a request it is about to insert is not there yet.
HandlerConsistent(s) ==
    LET me == session[s] IN
        /\ me.pc # "idle" => me.user \in Users /\ me.data \in Data
        /\ me.pc \in {"start", "start_commit"} => me.workflow \in Workflows
        /\ me.pc = "start_commit" =>
              /\ me.request \in Requests
              /\ me.next \in FirstSteps(me.workflow)
              /\ request[me.request].status = None
              /\ <<me.request, me.next>> \in queue
        /\ me.pc \in {"process", "loaded", "commit"} =>
              me.request \in Requests /\ me.outcome \in Outcome
        /\ me.pc \in {"loaded", "commit"} =>
              /\ request[me.request].status # None
              /\ me.status \in {"IN_PROGRESS", "COMPLETED"}
        /\ me.pc \in {"process", "loaded"} => me.next = None
        /\ me.pc = "commit" =>
              /\ me.exec \in 1 .. Len(request_steps)
              /\ request_steps[me.exec].request = me.request
              /\ request_steps[me.exec].step = me.current_step_id
              /\ Authorised(me.user, me.current_step_id)
              /\ me.next = None => me.status = "IN_PROGRESS"
              /\ me.next # None =>
                    /\ <<me.request, me.next>> \in queue \cup refused
                    /\ WorkflowOf[me.next] = WorkflowOf[me.current_step_id]

HandlersConsistent == \A s \in Sessions : HandlerConsistent(s)

\* An active request always has an open execution at its current step, so
\* process_step never answers "Logical Conflict: Request is active but has no
\* pending execution step" of a request it reads in one piece.  Handlers that
\* race on the request may overwrite current_step_id in any order: the last
\* writer must have opened the execution its value points to.
ActiveHasPendingStep ==
    \A r \in Requests : request[r].status = "IN_PROGRESS" =>
        CurrentExecutions(r, request[r].current_step_id) # {}

\* The history of a request accounts for its status, even when two handlers
\* finalized it: it starts with the initiation, every row is a change the
\* state machine allows, and the last one leads to the status stored in
\* workflow_requests.
HistoryAccountsForStatus ==
    \A r \in Requests : LET h == history[r] IN
        /\ h = <<>> <=> request[r].status = None
        /\ h # <<>> => /\ h[1].from = "CREATED"
                       /\ h[Len(h)].to = request[r].status
        /\ \A i \in 1 .. Len(h) : h[i].from # h[i].to /\ is_valid_transition(h[i].from, h[i].to)

\* No decision escapes the audit log: the assignee of a closed execution has
\* a STEP_COMPLETED row for it, also when a second handler has overwritten the
\* decision of a first one, and a request is COMPLETED exactly when the log
\* says so.
AuditCoversDecisions ==
    /\ \A e \in 1 .. Len(request_steps) : request_steps[e].completed =>
          \E i \in 1 .. Len(audit_logs[request_steps[e].request]) :
             LET a == audit_logs[request_steps[e].request][i]
             IN  /\ a.action = "STEP_COMPLETED" /\ a.exec = e
                 /\ a.actor = request_steps[e].assigned_to
    /\ \A r \in Requests :
          (\E i \in 1 .. Len(audit_logs[r]) : audit_logs[r][i].action = "WORKFLOW_COMPLETED")
             <=> request[r].status = "COMPLETED"

\* Whoever closed an execution had the role and the permission its step
\* requires, or is an admin; and the execution is one of the request's own
\* workflow.
DecidedByAuthorised ==
    \A e \in 1 .. Len(request_steps) : LET row == request_steps[e] IN
        /\ row.completed => Authorised(row.assigned_to, row.step)
        /\ WorkflowOf[row.step] = request[row.request].workflow_id

\* An execution exists only if its notification was handed to the broker
\* before the commit, or refused inside process_step; the first execution of
\* a request was never refused, because start_workflow does not survive that.
AssignmentsAnnounced ==
    \A e \in 1 .. Len(request_steps) :
        LET m == <<request_steps[e].request, request_steps[e].step>>
        IN  /\ m \in queue \cup refused
            /\ (\A f \in 1 .. e - 1 : request_steps[f].request # request_steps[e].request)
                  => m \in queue

\* A terminal request stays terminal and keeps its completion time, whatever
\* stale handlers write to it afterwards.
TerminalForever ==
    [][\A r \in Requests :
          request[r].status # None /\ is_terminal_state(request[r].status) =>
             request'[r].status = request[r].status /\ request'[r].completed]_vars

-----------------------------------------------------------------------------
\* Properties the documentation and the tests state and the code does not have.

\* A decision that passed every check of process_step can be stored: its
\* outcome is a value of the status column.
DecisionsCanBeStored ==
    \A s \in Sessions : session[s].pc = "commit" => session[s].outcome \in StepStatus

\* Whoever closed an execution has the role its step requires, admins
\* included.
RoleRequired ==
    \A e \in 1 .. Len(request_steps) : LET row == request_steps[e] IN
        row.completed /\ RequiredRole[row.step] # None =>
            RequiredRole[row.step] \in RolesOf[row.assigned_to]

-----------------------------------------------------------------------------
\* Properties that need the discipline of SerialSpec.

\* An active request has exactly one open execution, at its current step; a
\* request that is not active has none.
OnePendingStep ==
    \A r \in Requests :
        \A e, f \in 1 .. Len(request_steps) :
            /\ request_steps[e].request = r /\ ~request_steps[e].completed =>
                  /\ request[r].status = "IN_PROGRESS"
                  /\ request_steps[e].step = request[r].current_step_id
            /\ /\ request_steps[e].request = r /\ ~request_steps[e].completed
               /\ request_steps[f].request = r /\ ~request_steps[f].completed
               => e = f

\* The history is one unbroken path: each row starts where the one before it
\* ended.
HistoryIsPath ==
    \A r \in Requests : \A i \in 1 .. Len(history[r]) - 1 :
        history[r][i].to = history[r][i + 1].from

\* A decision is never changed once it is taken.
DecisionFinal ==
    [][\A e \in 1 .. Len(request_steps) :
          request_steps[e].completed => request_steps'[e] = request_steps[e]]_vars

\* A COMPLETED request leaves nobody a task.
CompletedHasNoTask ==
    \A e \in 1 .. Len(request_steps) :
        ~request_steps[e].completed => request[request_steps[e].request].status # "COMPLETED"

\* The decision of every handler is still there: what the audit log says of
\* who closed an execution and how is what its row says.
DecisionsKept ==
    \A r \in Requests : \A i \in 1 .. Len(audit_logs[r]) : LET a == audit_logs[r][i] IN
        a.action = "STEP_COMPLETED" =>
            /\ request_steps[a.exec].assigned_to = a.actor
            /\ request_steps[a.exec].status = a.outcome

\* The engine implements Lifecycle: the phase of a request is its status, its
\* tickets are the rows of request_steps.
PhaseOf(status) == CASE status = None -> "absent"
                     [] status = "COMPLETED" -> "done"
                     [] OTHER -> "active"

EntrySteps == UNION {FirstSteps(w) : w \in ActiveWorkflows}

Cleared == {us \in Users \X Steps : Authorised(us[1], us[2])}

Follows == {f \in Steps \X StepStatus \X (Steps \cup {None}) :
               \E ctx \in EvalContext : f[3] \in ResolveNext(f[1], f[2], ctx)}

L == INSTANCE Lifecycle WITH
        Outcomes <- StepStatus,
        phase    <- [r \in Requests |-> PhaseOf(request[r].status)],
        tickets  <- request_steps

\* Every behaviour of the handlers, seen through the database, is one of
\* atomic decisions.
ImplementsLifecycle == L!Spec

=============================================================================
