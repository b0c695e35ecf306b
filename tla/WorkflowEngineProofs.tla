------------------------ MODULE WorkflowEngineProofs ------------------------
(***************************************************************************)
(* Safety of the workflow engine for every set of handlers, users and      *)
(* requests and every workflow definition.                                 *)
(***************************************************************************)
EXTENDS WorkflowEngine, TLAPS

\* Statuses that are ever committed: the hops through CREATED, APPROVED and
\* REJECTED stay inside a transaction.
CommittedStatus ==
    \A r \in Requests : request[r].status \in {None, "IN_PROGRESS", "COMPLETED"}

\* Two handlers never insert the same request.
StartsDisjoint ==
    \A s1, s2 \in Sessions :
        /\ session[s1].pc = "start_commit" /\ session[s2].pc = "start_commit"
        /\ session[s1].request = session[s2].request
        => s1 = s2

\* The part of the invariant every other proof uses.
BaseInv == TypeOK /\ CommittedStatus /\ HandlersConsistent /\ StartsDisjoint

-----------------------------------------------------------------------------

\* NULL is not a status.
LEMMA StatusNotNone == None # "IN_PROGRESS" /\ None # "COMPLETED"
BY NoneAssumption DEF RequestStatus

\* An idle session has the type of a session.
LEMMA IdleType == Idle \in SessionState
BY DEF Idle, SessionState

\* The initial state satisfies the base invariant: empty tables, idle handlers.
LEMMA BaseInit == Init => BaseInv
<1> SUFFICES ASSUME Init PROVE BaseInv
  OBVIOUS
<1>1. TypeOK
  <2>1. request \in [Requests -> RequestRow]
    BY DEF Init, NoRequest, RequestRow
  <2>2. request_steps \in Seq(ExecutionRow)
    BY DEF Init
  <2>3. history \in [Requests -> Seq(HistoryRow)]
    BY DEF Init
  <2>4. audit_logs \in [Requests -> Seq(AuditRow)]
    BY DEF Init
  <2>5. session \in [Sessions -> SessionState]
    BY IdleType DEF Init
  <2> QED
    BY <2>1, <2>2, <2>3, <2>4, <2>5 DEF Init, TypeOK
<1>2. CommittedStatus
  BY DEF Init, CommittedStatus, NoRequest
<1>3. HandlersConsistent
  BY DEF Init, HandlersConsistent, HandlerConsistent, Idle
<1>4. StartsDisjoint
  BY DEF Init, StartsDisjoint, Idle
<1> QED
  BY <1>1, <1>2, <1>3, <1>4 DEF BaseInv

\* Returning from a handler keeps the type of the sessions.
LEMMA ReturnType ==
  ASSUME NEW s \in Sessions, session \in [Sessions -> SessionState], Return(s)
  PROVE  session' \in [Sessions -> SessionState]
BY IdleType DEF Return

\* CommitStart keeps every table well typed.
LEMMA CommitStartType ==
  ASSUME NEW s \in Sessions, BaseInv, CommitStart(s)
  PROVE  TypeOK'
<1> DEFINE me == session[s]
<1>1. /\ me \in SessionState /\ me.pc = "start_commit"
      /\ me.request \in Requests /\ me.user \in Users
      /\ me.data \in Data /\ me.workflow \in Workflows /\ me.next \in Steps
  BY DEF BaseInv, TypeOK, HandlersConsistent, HandlerConsistent, CommitStart, FirstSteps
<1>2. request' \in [Requests -> RequestRow]
  BY <1>1 DEF BaseInv, TypeOK, CommitStart, RequestRow, RequestStatus
<1>3. request_steps' \in Seq(ExecutionRow)
  BY <1>1 DEF BaseInv, TypeOK, CommitStart, ExecutionRow, PendingExecution, StepStatus
<1>4. history' \in [Requests -> Seq(HistoryRow)]
  <2>1. [from |-> "CREATED", to |-> "IN_PROGRESS", by |-> me.user] \in HistoryRow
    BY <1>1 DEF HistoryRow, RequestStatus
  <2> QED
    BY <1>1, <2>1 DEF BaseInv, TypeOK, CommitStart
<1>5. audit_logs' \in [Requests -> Seq(AuditRow)]
  <2>1. [action |-> "WORKFLOW_STARTED", actor |-> me.user,
         exec |-> 0, outcome |-> None] \in AuditRow
    BY <1>1 DEF AuditRow
  <2> QED
    BY <1>1, <2>1 DEF BaseInv, TypeOK, CommitStart
<1>6. session' \in [Sessions -> SessionState]
  BY ReturnType DEF BaseInv, TypeOK, CommitStart
<1> QED
  BY <1>2, <1>3, <1>4, <1>5, <1>6 DEF BaseInv, TypeOK, CommitStart

\* Closing an execution keeps request_steps well typed and as long as it was.
LEMMA ClosedStepsType ==
  ASSUME NEW s \in Sessions, BaseInv, session[s].pc = "commit",
         session[s].outcome \in StepStatus
  PROVE  /\ ClosedSteps(session[s]) \in Seq(ExecutionRow)
         /\ Len(ClosedSteps(session[s])) = Len(request_steps)
         /\ \A e \in 1 .. Len(request_steps) :
               /\ ClosedSteps(session[s])[e].request = request_steps[e].request
               /\ ClosedSteps(session[s])[e].step = request_steps[e].step
               /\ e # session[s].exec => ClosedSteps(session[s])[e] = request_steps[e]
         /\ ClosedSteps(session[s])[session[s].exec].completed
         /\ ClosedSteps(session[s])[session[s].exec].assigned_to = session[s].user
<1> DEFINE me == session[s]
           C == ClosedSteps(me)
<1>1. /\ me.exec \in 1 .. Len(request_steps) /\ me.user \in Users
      /\ request_steps \in Seq(ExecutionRow)
  BY DEF BaseInv, TypeOK, HandlersConsistent, HandlerConsistent
<1>2. C = [request_steps EXCEPT ![me.exec] =
             [request_steps[me.exec] EXCEPT !.assigned_to = me.user,
                !.status = IF me.outcome = "PENDING" THEN @ ELSE me.outcome,
                !.completed = TRUE]]
  BY <1>1 DEF ClosedSteps, ExecutionRow
<1>3. [request_steps[me.exec] EXCEPT !.assigned_to = me.user,
                !.status = IF me.outcome = "PENDING" THEN @ ELSE me.outcome,
                !.completed = TRUE] \in ExecutionRow
  <2>1. request_steps[me.exec] \in ExecutionRow
    BY <1>1
  <2> QED
    BY <1>1, <2>1 DEF ExecutionRow
<1>4. C \in Seq(ExecutionRow) /\ Len(C) = Len(request_steps)
  BY <1>1, <1>2, <1>3
<1> QED
  BY <1>1, <1>2, <1>3, <1>4 DEF ExecutionRow

\* CommitNext keeps every table well typed.
LEMMA CommitNextType ==
  ASSUME NEW s \in Sessions, BaseInv, CommitNext(s)
  PROVE  TypeOK'
<1> DEFINE me == session[s]
<1>1. /\ me \in SessionState /\ me.pc = "commit" /\ me.next # None
      /\ me.request \in Requests /\ me.user \in Users /\ me.next \in Steps
      /\ me.outcome \in Outcome /\ me.outcome \in StepStatus /\ me.exec \in Nat
  BY DEF BaseInv, TypeOK, HandlersConsistent, HandlerConsistent, CommitNext, MovedRequest, SessionState
<1>2. request' \in [Requests -> RequestRow]
  BY <1>1 DEF BaseInv, TypeOK, CommitNext, MovedRequest, RequestRow
<1>3. request_steps' \in Seq(ExecutionRow)
  <2>1. ClosedSteps(me) \in Seq(ExecutionRow)
    BY <1>1, ClosedStepsType
  <2>2. PendingExecution(me.request, me.next) \in ExecutionRow
    BY <1>1 DEF PendingExecution, ExecutionRow, StepStatus
  <2> QED
    BY <2>1, <2>2 DEF CommitNext, MovedRequest
<1>4. audit_logs' \in [Requests -> Seq(AuditRow)]
  <2>1. StepCompletedRow(me) \in AuditRow
    BY <1>1 DEF StepCompletedRow, AuditRow
  <2> QED
    BY <1>1, <2>1 DEF BaseInv, TypeOK, CommitNext, MovedRequest
<1>5. session' \in [Sessions -> SessionState]
  BY ReturnType DEF BaseInv, TypeOK, CommitNext, MovedRequest
<1> QED
  BY <1>2, <1>3, <1>4, <1>5 DEF BaseInv, TypeOK, CommitNext, MovedRequest

\* CommitEnd keeps every table well typed.
LEMMA CommitEndType ==
  ASSUME NEW s \in Sessions, BaseInv, CommitEnd(s)
  PROVE  TypeOK'
<1> DEFINE me == session[s]
           target == FinalStatus(me.outcome)
<1>1. /\ me \in SessionState /\ me.pc = "commit" /\ me.next = None
      /\ me.request \in Requests /\ me.user \in Users /\ me.status = "IN_PROGRESS"
      /\ me.outcome \in Outcome /\ me.outcome \in StepStatus /\ me.exec \in Nat
  BY DEF BaseInv, TypeOK, HandlersConsistent, HandlerConsistent, CommitEnd, SessionState
<1>2. request' \in [Requests -> RequestRow]
  BY <1>1 DEF BaseInv, TypeOK, CommitEnd, RequestRow, RequestStatus
<1>3. request_steps' \in Seq(ExecutionRow)
  BY <1>1, ClosedStepsType DEF CommitEnd
<1>4. history' \in [Requests -> Seq(HistoryRow)]
  <2>1. /\ [from |-> me.status, to |-> target, by |-> me.user] \in HistoryRow
        /\ [from |-> target, to |-> "COMPLETED", by |-> me.user] \in HistoryRow
    BY <1>1 DEF HistoryRow, RequestStatus, FinalStatus
  <2> QED
    BY <1>1, <2>1 DEF BaseInv, TypeOK, CommitEnd, FinalHops, Hop
<1>5. audit_logs' \in [Requests -> Seq(AuditRow)]
  <2>1. /\ StepCompletedRow(me) \in AuditRow
        /\ [action |-> "WORKFLOW_COMPLETED", actor |-> me.user,
            exec |-> 0, outcome |-> me.outcome] \in AuditRow
    BY <1>1 DEF StepCompletedRow, AuditRow
  <2> QED
    BY <1>1, <2>1 DEF BaseInv, TypeOK, CommitEnd, FinalRows, CompletedRow
<1>6. session' \in [Sessions -> SessionState]
  BY ReturnType DEF BaseInv, TypeOK, CommitEnd
<1> QED
  BY <1>2, <1>3, <1>4, <1>5, <1>6 DEF BaseInv, TypeOK, CommitEnd

-----------------------------------------------------------------------------

\* A handler that does not move keeps its facts as long as the others only add
\* rows and messages, never remove a request and never insert the one it is
\* about to insert.
LEMMA OthersKeep ==
  ASSUME NEW t \in Sessions, HandlerConsistent(t), session'[t] = session[t],
         queue \subseteq queue', refused \subseteq refused',
         \A r \in Requests : request[r].status # None => request'[r].status # None,
         session[t].pc = "start_commit" => request'[session[t].request].status = None,
         Len(request_steps) \in Nat, Len(request_steps') \in Nat,
         Len(request_steps) <= Len(request_steps'),
         \A e \in 1 .. Len(request_steps) :
            /\ request_steps'[e].request = request_steps[e].request
            /\ request_steps'[e].step = request_steps[e].step
  PROVE  HandlerConsistent(t)'
BY DEF HandlerConsistent, FirstSteps, Authorised

\* A step of handler s that leaves the tables alone preserves the invariant if
\* it preserves the facts of s.
LEMMA LocalStep ==
  ASSUME NEW s \in Sessions, BaseInv, UNCHANGED tables,
         session' \in [Sessions -> SessionState],
         \A t \in Sessions \ {s} : session'[t] = session[t],
         queue \subseteq queue', queue' \subseteq Message,
         refused \subseteq refused', refused' \subseteq Message,
         HandlerConsistent(s)',
         session'[s].pc = "start_commit" =>
            \A t \in Sessions \ {s} : session[t].pc = "start_commit" =>
               session[t].request # session'[s].request
  PROVE  BaseInv'
<1>1. TypeOK' /\ CommittedStatus'
  BY DEF BaseInv, TypeOK, CommittedStatus, tables
<1>2. HandlersConsistent'
  <2> SUFFICES ASSUME NEW t \in Sessions, t # s PROVE HandlerConsistent(t)'
    BY DEF HandlersConsistent
  <2>1. HandlerConsistent(t)
    BY DEF BaseInv, HandlersConsistent
  <2>2. Len(request_steps) \in Nat
    BY DEF BaseInv, TypeOK
  <2>3. session[t].pc = "start_commit" => request[session[t].request].status = None
    BY <2>1 DEF HandlerConsistent
  <2> QED
    BY <2>1, <2>2, <2>3, OthersKeep DEF tables
<1>3. StartsDisjoint'
  BY DEF BaseInv, StartsDisjoint
<1> QED
  BY <1>1, <1>2, <1>3 DEF BaseInv

\* So does a step that ends the handler without writing.
LEMMA ReturnStep ==
  ASSUME NEW s \in Sessions, BaseInv, Return(s), UNCHANGED <<tables, queue, refused>>
  PROVE  BaseInv'
<1>1. session' \in [Sessions -> SessionState]
  BY ReturnType DEF BaseInv, TypeOK
<1>2. session'[s] = Idle /\ \A t \in Sessions \ {s} : session'[t] = session[t]
  BY DEF BaseInv, TypeOK, Return
<1>3. HandlerConsistent(s)'
  BY <1>2 DEF HandlerConsistent, Idle
<1>4. session'[s].pc # "start_commit"
  BY <1>2 DEF Idle
<1> QED
  BY <1>1, <1>2, <1>3, <1>4, LocalStep DEF BaseInv, TypeOK

\* Accepting a call of any kind.
LEMMA ReceiveStep ==
  ASSUME NEW s \in Sessions, BaseInv, Receive(s)
  PROVE  BaseInv'
<1>1. ASSUME NEW u \in Users, NEW w \in Workflows, NEW d \in Data, ReceiveStart(s, u, w, d)
      PROVE  BaseInv'
  <2> DEFINE X == [Idle EXCEPT !.pc = "start", !.user = u, !.workflow = w, !.data = d]
  <2>1. X \in SessionState /\ X.pc = "start" /\ X.user = u /\ X.workflow = w /\ X.data = d
    BY DEF Idle, SessionState
  <2>2. session' = [session EXCEPT ![s] = X]
    BY <1>1 DEF ReceiveStart
  <2> HIDE DEF X
  <2>3. /\ session' \in [Sessions -> SessionState] /\ session'[s] = X
        /\ \A t \in Sessions \ {s} : session'[t] = session[t]
    BY <2>1, <2>2 DEF BaseInv, TypeOK
  <2>4. HandlerConsistent(s)'
    BY <2>1, <2>3 DEF HandlerConsistent
  <2> QED
    BY <1>1, <2>1, <2>3, <2>4, LocalStep DEF BaseInv, TypeOK, ReceiveStart
<1>2. ASSUME NEW u \in Users, NEW r \in Requests, NEW o \in Outcome, NEW d \in Data,
             ReceiveCall(s, u, r, o, d)
      PROVE  BaseInv'
  <2> DEFINE X == [Idle EXCEPT !.pc = "process", !.user = u, !.request = r,
                               !.outcome = o, !.data = d]
  <2>1. /\ X \in SessionState /\ X.pc = "process" /\ X.user = u /\ X.request = r
        /\ X.outcome = o /\ X.data = d /\ X.next = None
    BY DEF Idle, SessionState
  <2>2. session' = [session EXCEPT ![s] = X]
    BY <1>2 DEF ReceiveCall
  <2> HIDE DEF X
  <2>3. /\ session' \in [Sessions -> SessionState] /\ session'[s] = X
        /\ \A t \in Sessions \ {s} : session'[t] = session[t]
    BY <2>1, <2>2 DEF BaseInv, TypeOK
  <2>4. HandlerConsistent(s)'
    BY <2>1, <2>3 DEF HandlerConsistent
  <2> QED
    BY <1>2, <2>1, <2>3, <2>4, LocalStep DEF BaseInv, TypeOK, ReceiveCall
<1> QED
  BY <1>1, <1>2 DEF Receive, ReceiveProcess, ReceiveDecision, Outcome

\* start_workflow up to the notification.
LEMMA StartWorkflowStep ==
  ASSUME NEW s \in Sessions, NEW r \in Requests, NEW st \in Steps, BaseInv,
         StartWorkflow(s, r, st)
  PROVE  BaseInv'
<1> DEFINE me == session[s]
<1>1. me \in SessionState /\ me.pc = "start"
  BY DEF BaseInv, TypeOK, StartWorkflow
<1>2. /\ session' \in [Sessions -> SessionState]
      /\ \A t \in Sessions \ {s} : session'[t] = session[t]
      /\ session'[s] = [me EXCEPT !.pc = "start_commit", !.request = r, !.next = st]
  BY <1>1 DEF BaseInv, TypeOK, StartWorkflow, SessionState
<1>3. queue' = queue \cup {<<r, st>>} /\ queue' \subseteq Message /\ UNCHANGED <<tables, refused>>
  BY DEF BaseInv, TypeOK, StartWorkflow, Message
<1>4. HandlerConsistent(s)'
  <2>1. /\ me.user \in Users /\ me.data \in Data /\ me.workflow \in Workflows
    BY <1>1 DEF BaseInv, HandlersConsistent, HandlerConsistent
  <2>2. st \in FirstSteps(me.workflow) /\ request[r].status = None
    BY DEF StartWorkflow, FreshRequest
  <2>3. /\ session'[s].pc = "start_commit" /\ session'[s].request = r
        /\ session'[s].next = st /\ session'[s].workflow = me.workflow
        /\ session'[s].user = me.user /\ session'[s].data = me.data
    BY <1>1, <1>2 DEF SessionState
  <2> QED
    BY <2>1, <2>2, <2>3, <1>3 DEF HandlerConsistent, FirstSteps, tables
<1>5. \A t \in Sessions \ {s} : session[t].pc = "start_commit" =>
               session[t].request # session'[s].request
  <2> SUFFICES ASSUME NEW t \in Sessions \ {s}, session[t].pc = "start_commit"
               PROVE  session[t].request # r
    BY <1>1, <1>2 DEF SessionState
  <2>1. <<session[t].request, session[t].next>> \in queue /\ session[t].next \in Steps
    BY DEF BaseInv, HandlersConsistent, HandlerConsistent, FirstSteps
  <2> QED
    BY <2>1 DEF StartWorkflow, FreshRequest
<1> QED
  BY <1>2, <1>3, <1>4, <1>5, LocalStep DEF BaseInv, TypeOK

\* Reading the request.
LEMMA LoadRequestStep ==
  ASSUME NEW s \in Sessions, BaseInv, LoadRequest(s)
  PROVE  BaseInv'
<1> DEFINE me == session[s]
           row == request[me.request]
<1>1. /\ me \in SessionState /\ me.pc = "process" /\ me.request \in Requests
      /\ me.user \in Users /\ me.data \in Data /\ me.outcome \in Outcome
      /\ row \in RequestRow /\ row.status \in {"IN_PROGRESS", "COMPLETED"}
  BY DEF BaseInv, TypeOK, HandlersConsistent, HandlerConsistent, CommittedStatus, LoadRequest
<1>2. /\ session' \in [Sessions -> SessionState]
      /\ \A t \in Sessions \ {s} : session'[t] = session[t]
      /\ session'[s] = [me EXCEPT !.pc = "loaded", !.status = row.status,
                                  !.current_step_id = row.current_step_id]
  BY <1>1 DEF BaseInv, TypeOK, LoadRequest, SessionState, RequestRow
<1>3. /\ session'[s].pc = "loaded" /\ session'[s].request = me.request
      /\ session'[s].status = row.status /\ session'[s].outcome = me.outcome
      /\ session'[s].user = me.user /\ session'[s].data = me.data
      /\ session'[s].next = me.next
  BY <1>1, <1>2 DEF SessionState
<1>4. HandlerConsistent(s)'
  <2>1. me.next = None
    BY <1>1 DEF BaseInv, HandlersConsistent, HandlerConsistent
  <2> QED
    BY <1>1, <1>3, <2>1 DEF HandlerConsistent, LoadRequest, tables
<1> QED
  BY <1>2, <1>3, <1>4, LocalStep DEF BaseInv, TypeOK, LoadRequest

\* What process_step has established when it closes an execution.
LEMMA MayCloseFacts ==
  ASSUME NEW s \in Sessions, NEW e \in 1 .. Len(request_steps), BaseInv, MayClose(s, e)
  PROVE  /\ session[s] \in SessionState /\ session[s].pc = "loaded"
         /\ session[s].request \in Requests /\ session[s].outcome \in Outcome
         /\ session[s].user \in Users /\ session[s].data \in Data
         /\ session[s].status \in {"IN_PROGRESS", "COMPLETED"}
         /\ session[s].next = None
         /\ request[session[s].request].status # None
         /\ request_steps[e].request = session[s].request
         /\ request_steps[e].step = session[s].current_step_id
         /\ session[s].current_step_id \in Steps
         /\ Authorised(session[s].user, session[s].current_step_id)
         /\ e \in Nat
<1>1. request_steps[e] \in ExecutionRow
  BY DEF BaseInv, TypeOK
<1>2. e \in CurrentExecutions(session[s].request, session[s].current_step_id)
  BY DEF MayClose
<1>3. /\ request_steps[e].request = session[s].request
      /\ request_steps[e].step = session[s].current_step_id
  BY <1>2 DEF CurrentExecutions
<1>4. session[s].current_step_id \in Steps
  BY <1>1, <1>3 DEF ExecutionRow
<1>5. Authorised(session[s].user, session[s].current_step_id)
  BY <1>3 DEF MayClose
<1>6. e \in Nat
  BY DEF BaseInv, TypeOK
<1>7. session[s] \in SessionState /\ session[s].pc = "loaded"
  BY DEF BaseInv, TypeOK, MayClose
<1> QED
  BY <1>3, <1>4, <1>5, <1>6, <1>7 DEF BaseInv, HandlersConsistent, HandlerConsistent

\* A step that follows another one belongs to the same workflow.
LEMMA NextInWorkflow ==
  ASSUME NEW st \in Steps, NEW o, NEW ctx, NEW n \in ResolveNext(st, o, ctx) \ {None}
  PROVE  n \in Steps /\ WorkflowOf[n] = WorkflowOf[st]
<1>1. PICK t \in Transitions : t.from = st /\ t.to = n
  BY DEF ResolveNext
<1>2. t.to \in Steps \cup {None}
  BY ConstantsAssumption DEF Transition
<1> QED
  BY <1>1, <1>2, TransitionsAssumption

\* Deciding for a next step, up to the notification.
LEMMA DecideNextStep ==
  ASSUME NEW s \in Sessions, NEW e \in 1 .. Len(request_steps), NEW st \in Steps,
         BaseInv, DecideNext(s, e, st)
  PROVE  BaseInv'
<1> DEFINE me == session[s]
<1>1. MayClose(s, e)
  BY DEF DecideNext
<1>2. /\ me \in SessionState /\ me.pc = "loaded" /\ me.request \in Requests
      /\ me.outcome \in Outcome /\ me.user \in Users /\ me.data \in Data
      /\ me.status \in {"IN_PROGRESS", "COMPLETED"} /\ me.next = None
      /\ request[me.request].status # None
      /\ request_steps[e].request = me.request
      /\ request_steps[e].step = me.current_step_id
      /\ me.current_step_id \in Steps /\ Authorised(me.user, me.current_step_id)
      /\ e \in Nat
  BY <1>1, MayCloseFacts
<1>3. /\ session' \in [Sessions -> SessionState]
      /\ \A t \in Sessions \ {s} : session'[t] = session[t]
      /\ session'[s] = [me EXCEPT !.pc = "commit", !.exec = e, !.next = st]
  <2>1. session' = [session EXCEPT ![s] = [me EXCEPT !.pc = "commit", !.exec = e, !.next = st]]
    BY DEF DecideNext
  <2>2. session \in [Sessions -> SessionState]
    BY DEF BaseInv, TypeOK
  <2>3. [me EXCEPT !.pc = "commit", !.exec = e, !.next = st] \in SessionState
    BY <1>2 DEF SessionState
  <2> QED
    BY <2>1, <2>2, <2>3
<1>4. /\ session'[s].pc = "commit" /\ session'[s].request = me.request
      /\ session'[s].status = me.status /\ session'[s].outcome = me.outcome
      /\ session'[s].user = me.user /\ session'[s].data = me.data
      /\ session'[s].current_step_id = me.current_step_id
      /\ session'[s].exec = e /\ session'[s].next = st
  BY <1>2, <1>3 DEF SessionState
<1>5. /\ queue \subseteq queue' /\ refused \subseteq refused' /\ UNCHANGED tables
      /\ queue' \subseteq Message /\ refused' \subseteq Message
      /\ <<me.request, st>> \in queue' \cup refused'
  BY <1>2 DEF BaseInv, TypeOK, DecideNext, Message
<1>6. WorkflowOf[st] = WorkflowOf[me.current_step_id]
  BY <1>2, NextInWorkflow DEF DecideNext
<1>7. HandlerConsistent(s)'
  BY <1>2, <1>4, <1>5, <1>6, NoneAssumption
     DEF HandlerConsistent, tables, Authorised
<1> QED
  BY <1>3, <1>4, <1>5, <1>7, LocalStep

\* Deciding for the end of the workflow: only an active request gets there.
LEMMA DecideEndStep ==
  ASSUME NEW s \in Sessions, NEW e \in 1 .. Len(request_steps),
         BaseInv, DecideEnd(s, e)
  PROVE  BaseInv'
<1> DEFINE me == session[s]
<1>1. MayClose(s, e)
  BY DEF DecideEnd
<1>2. /\ me \in SessionState /\ me.pc = "loaded" /\ me.request \in Requests
      /\ me.outcome \in Outcome /\ me.user \in Users /\ me.data \in Data
      /\ me.status \in {"IN_PROGRESS", "COMPLETED"} /\ me.next = None
      /\ request[me.request].status # None
      /\ request_steps[e].request = me.request
      /\ request_steps[e].step = me.current_step_id
      /\ me.current_step_id \in Steps /\ Authorised(me.user, me.current_step_id)
      /\ e \in Nat
  BY <1>1, MayCloseFacts
<1>3. /\ session' \in [Sessions -> SessionState]
      /\ \A t \in Sessions \ {s} : session'[t] = session[t]
      /\ session'[s] = [me EXCEPT !.pc = "commit", !.exec = e]
  <2>1. session' = [session EXCEPT ![s] = [me EXCEPT !.pc = "commit", !.exec = e]]
    BY DEF DecideEnd
  <2>2. session \in [Sessions -> SessionState]
    BY DEF BaseInv, TypeOK
  <2>3. [me EXCEPT !.pc = "commit", !.exec = e] \in SessionState
    BY <1>2 DEF SessionState
  <2> QED
    BY <2>1, <2>2, <2>3
<1>4. /\ session'[s].pc = "commit" /\ session'[s].request = me.request
      /\ session'[s].status = me.status /\ session'[s].outcome = me.outcome
      /\ session'[s].user = me.user /\ session'[s].data = me.data
      /\ session'[s].current_step_id = me.current_step_id
      /\ session'[s].exec = e /\ session'[s].next = None
  BY <1>2, <1>3 DEF SessionState
<1>5. me.status = "IN_PROGRESS"
  <2>1. ~ is_valid_transition("COMPLETED", FinalStatus(me.outcome))
    BY DEF is_valid_transition, get_allowed_next_states, STATE_TRANSITIONS, FinalStatus
  <2> QED
    BY <2>1, <1>2 DEF DecideEnd, validate_transition
<1>6. HandlerConsistent(s)'
  BY <1>2, <1>4, <1>5 DEF HandlerConsistent, DecideEnd, tables, Authorised
<1> QED
  BY <1>3, <1>4, <1>6, LocalStep DEF BaseInv, TypeOK, DecideEnd

-----------------------------------------------------------------------------

\* After a commit handler s is idle and the others keep their facts, provided
\* the tables only grew and s did not insert a request another is inserting.
LEMMA CommitStep ==
  ASSUME NEW s \in Sessions, BaseInv, Return(s), UNCHANGED <<queue, refused>>,
         TypeOK', CommittedStatus',
         \A r \in Requests : request[r].status # None => request'[r].status # None,
         \A t \in Sessions \ {s} : session[t].pc = "start_commit" =>
            request'[session[t].request].status = None,
         Len(request_steps) <= Len(request_steps'),
         \A e \in 1 .. Len(request_steps) :
            /\ request_steps'[e].request = request_steps[e].request
            /\ request_steps'[e].step = request_steps[e].step
  PROVE  BaseInv'
<1>1. session'[s] = Idle /\ \A t \in Sessions \ {s} : session'[t] = session[t]
  BY DEF BaseInv, TypeOK, Return
<1>2. HandlersConsistent'
  <2> SUFFICES ASSUME NEW t \in Sessions PROVE HandlerConsistent(t)'
    BY DEF HandlersConsistent
  <2>1. CASE t = s
    BY <1>1, <2>1 DEF HandlerConsistent, Idle
  <2>2. CASE t # s
    <3>1. HandlerConsistent(t)
      BY DEF BaseInv, HandlersConsistent
    <3>2. Len(request_steps) \in Nat /\ Len(request_steps') \in Nat
      BY DEF BaseInv, TypeOK
    <3> QED
      BY <1>1, <2>2, <3>1, <3>2, OthersKeep
  <2> QED
    BY <2>1, <2>2
<1>3. StartsDisjoint'
  BY <1>1 DEF BaseInv, StartsDisjoint, Idle
<1> QED
  BY <1>2, <1>3 DEF BaseInv

\* Inserting a request with its first execution.
LEMMA CommitStartStep ==
  ASSUME NEW s \in Sessions, BaseInv, CommitStart(s)
  PROVE  BaseInv'
<1> DEFINE me == session[s]
<1>1. TypeOK'
  BY CommitStartType
<1>2. /\ me.pc = "start_commit" /\ me.request \in Requests
      /\ request \in [Requests -> RequestRow] /\ request_steps \in Seq(ExecutionRow)
  BY DEF BaseInv, TypeOK, HandlersConsistent, HandlerConsistent, CommitStart
<1>3. /\ request'[me.request].status = "IN_PROGRESS"
      /\ \A r \in Requests \ {me.request} : request'[r] = request[r]
  BY <1>2 DEF CommitStart
<1>4. CommittedStatus'
  BY <1>3 DEF BaseInv, CommittedStatus
<1>5. \A r \in Requests : request[r].status # None => request'[r].status # None
  BY <1>3, StatusNotNone
<1>6. \A t \in Sessions \ {s} : session[t].pc = "start_commit" =>
            request'[session[t].request].status = None
  BY <1>2, <1>3 DEF BaseInv, HandlersConsistent, HandlerConsistent, StartsDisjoint
<1>7. /\ Len(request_steps) <= Len(request_steps')
      /\ \A e \in 1 .. Len(request_steps) : request_steps'[e] = request_steps[e]
  BY <1>2 DEF CommitStart
<1>8. Return(s) /\ UNCHANGED <<queue, refused>>
  BY DEF CommitStart
<1> QED
  BY <1>1, <1>4, <1>5, <1>6, <1>7, <1>8, CommitStep

\* Moving a request to its next step.
LEMMA CommitNextStep ==
  ASSUME NEW s \in Sessions, BaseInv, CommitNext(s)
  PROVE  BaseInv'
<1> DEFINE me == session[s]
<1>1. TypeOK'
  BY CommitNextType
<1>2. /\ me.pc = "commit" /\ me.request \in Requests /\ me.outcome \in StepStatus
      /\ request \in [Requests -> RequestRow] /\ request_steps \in Seq(ExecutionRow)
  BY DEF BaseInv, TypeOK, HandlersConsistent, HandlerConsistent, CommitNext, MovedRequest
<1>3. \A r \in Requests : request'[r].status = request[r].status
  BY <1>2 DEF CommitNext, MovedRequest, RequestRow
<1>4. CommittedStatus'
  BY <1>3 DEF BaseInv, CommittedStatus
<1>5. \A t \in Sessions \ {s} : session[t].pc = "start_commit" =>
            request'[session[t].request].status = None
  <2>1. \A t \in Sessions : session[t].pc = "start_commit" =>
           session[t].request \in Requests /\ request[session[t].request].status = None
    BY DEF BaseInv, HandlersConsistent, HandlerConsistent
  <2> QED
    BY <1>3, <2>1
<1>6. /\ Len(request_steps) <= Len(request_steps')
      /\ \A e \in 1 .. Len(request_steps) : request_steps'[e] = ClosedSteps(me)[e]
  BY <1>2, ClosedStepsType DEF CommitNext, MovedRequest
<1>7. \A e \in 1 .. Len(request_steps) :
            /\ request_steps'[e].request = request_steps[e].request
            /\ request_steps'[e].step = request_steps[e].step
  BY <1>2, <1>6, ClosedStepsType
<1>8. Return(s) /\ UNCHANGED <<queue, refused>>
  BY DEF CommitNext, MovedRequest
<1> QED
  BY <1>1, <1>3, <1>4, <1>5, <1>6, <1>7, <1>8, CommitStep

\* Finalizing a request.
LEMMA CommitEndStep ==
  ASSUME NEW s \in Sessions, BaseInv, CommitEnd(s)
  PROVE  BaseInv'
<1> DEFINE me == session[s]
<1>1. TypeOK'
  BY CommitEndType
<1>2. /\ me.pc = "commit" /\ me.request \in Requests /\ me.outcome \in StepStatus
      /\ request \in [Requests -> RequestRow] /\ request_steps \in Seq(ExecutionRow)
      /\ request[me.request].status # None
  BY DEF BaseInv, TypeOK, HandlersConsistent, HandlerConsistent, CommitEnd
<1>3. /\ request'[me.request].status = "COMPLETED"
      /\ \A r \in Requests \ {me.request} : request'[r] = request[r]
  BY <1>2 DEF CommitEnd, RequestRow
<1>4. CommittedStatus'
  BY <1>3 DEF BaseInv, CommittedStatus
<1>5. \A r \in Requests : request[r].status # None => request'[r].status # None
  BY <1>3, StatusNotNone
<1>6. \A t \in Sessions \ {s} : session[t].pc = "start_commit" =>
            request'[session[t].request].status = None
  BY <1>2, <1>3 DEF BaseInv, HandlersConsistent, HandlerConsistent
<1>7. /\ Len(request_steps) <= Len(request_steps')
      /\ \A e \in 1 .. Len(request_steps) : request_steps'[e] = ClosedSteps(me)[e]
  BY <1>2, ClosedStepsType DEF CommitEnd
<1>8. \A e \in 1 .. Len(request_steps) :
            /\ request_steps'[e].request = request_steps[e].request
            /\ request_steps'[e].step = request_steps[e].step
  BY <1>2, <1>7, ClosedStepsType
<1>9. Return(s) /\ UNCHANGED <<queue, refused>>
  BY DEF CommitEnd
<1> QED
  BY <1>1, <1>4, <1>5, <1>6, <1>7, <1>8, <1>9, CommitStep

\* Every step preserves the base invariant.
LEMMA BaseNext == BaseInv /\ [Next]_vars => BaseInv'
<1> SUFFICES ASSUME BaseInv, [Next]_vars PROVE BaseInv'
  OBVIOUS
<1>1. CASE UNCHANGED vars
  BY <1>1 DEF vars, tables, BaseInv, TypeOK, CommittedStatus, HandlersConsistent,
              HandlerConsistent, StartsDisjoint, FirstSteps, Authorised
<1>2. ASSUME NEW s \in Sessions, Receive(s) PROVE BaseInv'
  BY <1>2, ReceiveStep
<1>3. ASSUME NEW s \in Sessions, Handle(s) PROVE BaseInv'
  <2>1. ASSUME NEW r \in Requests, NEW st \in Steps, StartWorkflow(s, r, st) PROVE BaseInv'
    BY <2>1, StartWorkflowStep
  <2>2. CASE StartFails(s)
    BY <2>2, ReturnStep DEF StartFails
  <2>3. CASE CommitStart(s)
    BY <2>3, CommitStartStep
  <2>5. CASE RequestNotFound(s)
    BY <2>5, ReturnStep DEF RequestNotFound
  <2>6. ASSUME NEW e \in 1 .. Len(request_steps), NEW st \in Steps, DecideNext(s, e, st)
        PROVE  BaseInv'
    BY <2>6, DecideNextStep
  <2>7. ASSUME NEW e \in 1 .. Len(request_steps), DecideEnd(s, e) PROVE BaseInv'
    BY <2>7, DecideEndStep
  <2>8. CASE DecisionRefused(s)
    BY <2>8, ReturnStep DEF DecisionRefused
  <2>9. CASE CommitNext(s)
    BY <2>9, CommitNextStep
  <2>10. CASE CommitEnd(s)
    BY <2>10, CommitEndStep
  <2>11. CASE FlushFails(s)
    BY <2>11, ReturnStep DEF FlushFails
  <2> QED
    BY <1>3, <2>1, <2>2, <2>3, <2>5, <2>6, <2>7, <2>8, <2>9, <2>10, <2>11 DEF Handle
<1>4. ASSUME NEW s \in Sessions, Abort(s) PROVE BaseInv'
  BY <1>4, ReturnStep DEF Abort
<1>5. ASSUME NEW s \in Sessions, LoadRequest(s) PROVE BaseInv'
  BY <1>5, LoadRequestStep
<1> QED
  BY <1>1, <1>2, <1>3, <1>4, <1>5 DEF Next

LEMMA BaseHolds == Spec => []BaseInv
BY BaseInit, BaseNext, PTL DEF Spec

\* The tables and the handlers are well typed in every reachable state, for
\* any number of handlers, requests and steps.
THEOREM TypeCorrect == Spec => []TypeOK
BY BaseHolds, PTL DEF BaseInv

\* A handler's picture of its request stays consistent while others run
\* between its reads and its commit.
THEOREM HandlersStayConsistent == Spec => []HandlersConsistent
BY BaseHolds, PTL DEF BaseInv

\* No two handlers are about to insert the same request, and the only statuses
\* ever committed are IN_PROGRESS and COMPLETED.
THEOREM StartsStayDisjoint == Spec => [](StartsDisjoint /\ CommittedStatus)
BY BaseHolds, PTL DEF BaseInv

-----------------------------------------------------------------------------
\* The pending step of an active request.

\* The facts of a handler that is about to commit a decision.
LEMMA CommitFacts ==
  ASSUME NEW s \in Sessions, BaseInv, session[s].pc = "commit"
  PROVE  /\ session[s].request \in Requests /\ session[s].user \in Users
         /\ session[s].exec \in 1 .. Len(request_steps)
         /\ request_steps[session[s].exec].request = session[s].request
         /\ request_steps[session[s].exec].step = session[s].current_step_id
         /\ request[session[s].request].status # None
         /\ Authorised(session[s].user, session[s].current_step_id)
         /\ session[s].next = None => session[s].status = "IN_PROGRESS"
BY DEF BaseInv, HandlersConsistent, HandlerConsistent

\* The tables that hold rows of requests, with their types.
LEMMA TableTypes ==
  ASSUME BaseInv
  PROVE  /\ request \in [Requests -> RequestRow]
         /\ request_steps \in Seq(ExecutionRow) /\ Len(request_steps) \in Nat
BY DEF BaseInv, TypeOK

\* start_workflow opens the execution its current_step_id points to.
LEMMA PendingCommitStart ==
  ASSUME NEW s \in Sessions, BaseInv, ActiveHasPendingStep, CommitStart(s)
  PROVE  ActiveHasPendingStep'
<1> DEFINE me == session[s]
           n == Len(request_steps)
<1>1. /\ me.request \in Requests /\ n \in Nat
      /\ request \in [Requests -> RequestRow] /\ request_steps \in Seq(ExecutionRow)
  BY TableTypes DEF BaseInv, HandlersConsistent, HandlerConsistent, CommitStart
<1>2. /\ request'[me.request].current_step_id = me.next
      /\ \A r \in Requests \ {me.request} : request'[r] = request[r]
  BY <1>1 DEF CommitStart
<1>3. /\ Len(request_steps') = n + 1
      /\ \A e \in 1 .. n : request_steps'[e] = request_steps[e]
      /\ request_steps'[n + 1] = PendingExecution(me.request, me.next)
  BY <1>1 DEF CommitStart
<1> SUFFICES ASSUME NEW r \in Requests, request'[r].status = "IN_PROGRESS"
             PROVE  CurrentExecutions(r, request[r].current_step_id)' # {}
  BY DEF ActiveHasPendingStep
<1>4. CASE r = me.request
  <2>1. request_steps'[n + 1] = PendingExecution(r, request'[r].current_step_id)
    BY <1>2, <1>3, <1>4
  <2> QED
    BY <1>1, <1>3, <2>1 DEF CurrentExecutions, PendingExecution
<1>5. CASE r # me.request
  <2>1. PICK e \in CurrentExecutions(r, request[r].current_step_id) : TRUE
    BY <1>2, <1>5 DEF ActiveHasPendingStep
  <2>2. e \in 1 .. n
    BY <2>1 DEF CurrentExecutions
  <2> QED
    BY <1>1, <1>2, <1>3, <1>5, <2>1, <2>2 DEF CurrentExecutions
<1> QED
  BY <1>4, <1>5

\* A move to the next step opens the execution it points to.  If it writes no
\* current_step_id, because the step follows itself, the row it closes is
\* either at the stored step, where it opens another, or somewhere else.
LEMMA PendingCommitNext ==
  ASSUME NEW s \in Sessions, BaseInv, ActiveHasPendingStep, CommitNext(s)
  PROVE  ActiveHasPendingStep'
<1> DEFINE me == session[s]
           n == Len(request_steps)
<1>1. /\ me.pc = "commit" /\ me.request \in Requests /\ n \in Nat
      /\ me.exec \in 1 .. n /\ me.outcome \in StepStatus
      /\ request_steps[me.exec].request = me.request
      /\ request_steps[me.exec].step = me.current_step_id
      /\ request \in [Requests -> RequestRow] /\ request_steps \in Seq(ExecutionRow)
  BY TableTypes, CommitFacts DEF CommitNext, MovedRequest
<1>2. /\ \A r \in Requests : request'[r].status = request[r].status
      /\ \A r \in Requests \ {me.request} : request'[r] = request[r]
      /\ request'[me.request].current_step_id =
            IF me.next # me.current_step_id THEN me.next
            ELSE request[me.request].current_step_id
  BY <1>1 DEF CommitNext, MovedRequest, RequestRow
<1>3. /\ Len(request_steps') = n + 1
      /\ \A e \in 1 .. n : e # me.exec => request_steps'[e] = request_steps[e]
      /\ request_steps'[n + 1] = PendingExecution(me.request, me.next)
  <2>1. /\ ClosedSteps(me) \in Seq(ExecutionRow) /\ Len(ClosedSteps(me)) = n
        /\ \A e \in 1 .. n : e # me.exec => ClosedSteps(me)[e] = request_steps[e]
    BY <1>1, ClosedStepsType
  <2>2. request_steps' = Append(ClosedSteps(me), PendingExecution(me.request, me.next))
    BY DEF CommitNext, MovedRequest
  <2> QED
    BY <1>1, <2>1, <2>2
<1> SUFFICES ASSUME NEW r \in Requests, request'[r].status = "IN_PROGRESS"
             PROVE  CurrentExecutions(r, request[r].current_step_id)' # {}
  BY DEF ActiveHasPendingStep
<1>5. CASE r = me.request /\ request'[r].current_step_id = me.next
  <2>1. request_steps'[n + 1] = PendingExecution(r, request'[r].current_step_id)
    BY <1>3, <1>5
  <2> QED
    BY <1>1, <1>3, <2>1 DEF CurrentExecutions, PendingExecution
<1>6. CASE ~(r = me.request /\ request'[r].current_step_id = me.next)
  <2>1. request'[r].current_step_id = request[r].current_step_id
    BY <1>2, <1>6
  <2>2. PICK e \in CurrentExecutions(r, request[r].current_step_id) : TRUE
    BY <1>2 DEF ActiveHasPendingStep
  <2>3. e \in 1 .. n /\ e # me.exec
    BY <1>1, <1>2, <1>6, <2>1, <2>2 DEF CurrentExecutions
  <2> QED
    BY <1>1, <1>3, <2>1, <2>2, <2>3 DEF CurrentExecutions
<1> QED
  BY <1>5, <1>6

\* A finalized request is no longer active; the others keep their rows.
LEMMA PendingCommitEnd ==
  ASSUME NEW s \in Sessions, BaseInv, ActiveHasPendingStep, CommitEnd(s)
  PROVE  ActiveHasPendingStep'
<1> DEFINE me == session[s]
           n == Len(request_steps)
<1>1. /\ me.pc = "commit" /\ me.request \in Requests /\ n \in Nat
      /\ me.exec \in 1 .. n /\ me.outcome \in StepStatus
      /\ request_steps[me.exec].request = me.request
      /\ request \in [Requests -> RequestRow]
  BY TableTypes, CommitFacts DEF CommitEnd
<1>2. /\ \A r \in Requests \ {me.request} : request'[r] = request[r]
      /\ request'[me.request].status = "COMPLETED"
  BY <1>1 DEF CommitEnd, RequestRow
<1>3. /\ Len(request_steps') = n
      /\ \A e \in 1 .. n : e # me.exec => request_steps'[e] = request_steps[e]
  BY <1>1, ClosedStepsType DEF CommitEnd
<1> SUFFICES ASSUME NEW r \in Requests, request'[r].status = "IN_PROGRESS"
             PROVE  CurrentExecutions(r, request[r].current_step_id)' # {}
  BY DEF ActiveHasPendingStep
<1>4. r # me.request /\ request'[r] = request[r]
  BY <1>2
<1>5. PICK e \in CurrentExecutions(r, request[r].current_step_id) : TRUE
  BY <1>4 DEF ActiveHasPendingStep
<1>6. e \in 1 .. n /\ e # me.exec
  BY <1>1, <1>4, <1>5 DEF CurrentExecutions
<1> QED
  BY <1>1, <1>3, <1>4, <1>5, <1>6 DEF CurrentExecutions

\* Only the three commits write tables; messages are never taken back.
LEMMA NextCases ==
  ASSUME [Next]_vars
  PROVE  /\ queue \subseteq queue' /\ refused \subseteq refused'
         /\ \/ UNCHANGED tables
            \/ \E s \in Sessions : CommitStart(s) \/ CommitNext(s) \/ CommitEnd(s)
<1>1. CASE UNCHANGED vars
  BY <1>1 DEF vars
<1>2. ASSUME NEW s \in Sessions, Receive(s)
      PROVE  UNCHANGED <<tables, queue, refused>>
  BY <1>2 DEF Receive, ReceiveStart, ReceiveProcess, ReceiveDecision, ReceiveCall
<1>3. ASSUME NEW s \in Sessions, Handle(s)
      PROVE  /\ queue \subseteq queue' /\ refused \subseteq refused'
             /\ UNCHANGED tables \/ CommitStart(s) \/ CommitNext(s) \/ CommitEnd(s)
  <2>1. ASSUME NEW r \in Requests, NEW st \in Steps, StartWorkflow(s, r, st)
        PROVE  UNCHANGED tables /\ queue \subseteq queue' /\ refused \subseteq refused'
    BY <2>1 DEF StartWorkflow
  <2>2. ASSUME NEW e \in 1 .. Len(request_steps), NEW st \in Steps, DecideNext(s, e, st)
        PROVE  UNCHANGED tables /\ queue \subseteq queue' /\ refused \subseteq refused'
    BY <2>2 DEF DecideNext
  <2>3. ASSUME NEW e \in 1 .. Len(request_steps), DecideEnd(s, e)
        PROVE  UNCHANGED <<tables, queue, refused>>
    BY <2>3 DEF DecideEnd
  <2>4. StartFails(s) \/ RequestNotFound(s) \/ DecisionRefused(s)
           \/ FlushFails(s) => UNCHANGED <<tables, queue, refused>>
    BY DEF StartFails, RequestNotFound, DecisionRefused, FlushFails
  <2>5. CommitStart(s) \/ CommitNext(s) \/ CommitEnd(s) => UNCHANGED <<queue, refused>>
    BY DEF CommitStart, CommitNext, MovedRequest, CommitEnd
  <2> QED
    BY <1>3, <2>1, <2>2, <2>3, <2>4, <2>5 DEF Handle
<1>4. ASSUME NEW s \in Sessions, Abort(s) \/ LoadRequest(s)
      PROVE  UNCHANGED <<tables, queue, refused>>
  BY <1>4 DEF Abort, LoadRequest
<1> QED
  BY <1>1, <1>2, <1>3, <1>4 DEF Next

\* An active request always has an open execution at its current step, however
\* many handlers race on it and whatever workflow it follows.
THEOREM ActiveRequestsCanProceed == Spec => []ActiveHasPendingStep
<1>1. Init => BaseInv /\ ActiveHasPendingStep
  BY BaseInit, StatusNotNone DEF Init, ActiveHasPendingStep, NoRequest
<1>2. BaseInv /\ ActiveHasPendingStep /\ [Next]_vars => BaseInv' /\ ActiveHasPendingStep'
  <2> SUFFICES ASSUME BaseInv, ActiveHasPendingStep, [Next]_vars
               PROVE  ActiveHasPendingStep'
    BY BaseNext
  <2>1. CASE UNCHANGED tables
    BY <2>1 DEF tables, ActiveHasPendingStep, CurrentExecutions
  <2>2. ASSUME NEW s \in Sessions, CommitStart(s) \/ CommitNext(s) \/ CommitEnd(s)
        PROVE  ActiveHasPendingStep'
    BY <2>2, PendingCommitStart, PendingCommitNext, PendingCommitEnd
  <2> QED
    BY <2>1, <2>2, NextCases
<1> QED
  BY <1>1, <1>2, PTL DEF Spec

-----------------------------------------------------------------------------
\* Terminal requests and the history.

\* A committed terminal status is never left and its completion time never
\* cleared, although stale handlers still write to the request.
THEOREM TerminalStays == Spec => TerminalForever
<1> DEFINE CompletedSet == \A r \in Requests :
              request[r].status = "COMPLETED" => request[r].completed
           Inv == BaseInv /\ CompletedSet
           Keep == \A r \in Requests :
              request[r].status # None /\ is_terminal_state(request[r].status) =>
                 request'[r].status = request[r].status /\ request'[r].completed
<1>1. Init => Inv
  BY BaseInit, StatusNotNone DEF Init, NoRequest
<1>2. ASSUME Inv, [Next]_vars PROVE CompletedSet' /\ Keep
  <2>1. \A r \in Requests :
           request[r].status # None /\ is_terminal_state(request[r].status) =>
              request[r].status = "COMPLETED" /\ request[r].completed
    BY <1>2 DEF BaseInv, CommittedStatus, is_terminal_state, get_allowed_next_states,
                STATE_TRANSITIONS
  <2>2. CASE UNCHANGED tables
    BY <1>2, <2>1, <2>2 DEF tables
  <2>3. ASSUME NEW s \in Sessions, CommitStart(s) PROVE CompletedSet' /\ Keep
    <3> DEFINE q == session[s].request
    <3>1. /\ q \in Requests /\ request[q].status = None
          /\ request \in [Requests -> RequestRow]
      BY <1>2, <2>3, TableTypes DEF BaseInv, HandlersConsistent, HandlerConsistent, CommitStart
    <3>2. /\ request'[q].status = "IN_PROGRESS"
          /\ \A r \in Requests \ {q} : request'[r] = request[r]
      BY <2>3, <3>1 DEF CommitStart
    <3> QED
      BY <1>2, <2>1, <3>1, <3>2
  <2>4. ASSUME NEW s \in Sessions, CommitNext(s) PROVE CompletedSet' /\ Keep
    <3>1. /\ session[s].request \in Requests /\ request \in [Requests -> RequestRow]
      BY <1>2, <2>4, TableTypes, CommitFacts DEF CommitNext, MovedRequest
    <3>2. \A r \in Requests : /\ request'[r].status = request[r].status
                              /\ request'[r].completed = request[r].completed
      BY <2>4, <3>1 DEF CommitNext, MovedRequest, RequestRow
    <3> QED
      BY <1>2, <2>1, <3>2
  <2>5. ASSUME NEW s \in Sessions, CommitEnd(s) PROVE CompletedSet' /\ Keep
    <3> DEFINE q == session[s].request
    <3>1. q \in Requests /\ request \in [Requests -> RequestRow]
      BY <1>2, <2>5, TableTypes, CommitFacts DEF CommitEnd
    <3>2. /\ request'[q].status = "COMPLETED" /\ request'[q].completed
          /\ \A r \in Requests \ {q} : request'[r] = request[r]
      BY <2>5, <3>1 DEF CommitEnd, RequestRow
    <3> QED
      BY <1>2, <2>1, <3>2
  <2> QED
    BY <1>2, <2>2, <2>3, <2>4, <2>5, NextCases
<1>3. Inv /\ [Next]_vars => Inv' /\ [Keep]_vars
  BY <1>2, BaseNext
<1> QED
  BY <1>1, <1>3, PTL DEF Spec, TerminalForever

\* The history of a request, one request at a time.
HistoryOf(r) == LET h == history[r] IN
    /\ h = <<>> <=> request[r].status = None
    /\ h # <<>> => /\ h[1].from = "CREATED"
                   /\ h[Len(h)].to = request[r].status
    /\ \A i \in 1 .. Len(h) : h[i].from # h[i].to /\ is_valid_transition(h[i].from, h[i].to)

\* The history of a request starts with its initiation, contains only changes
\* the state machine allows and ends in the stored status.
THEOREM HistoryExplainsStatus == Spec => []HistoryAccountsForStatus
<1>1. Init => BaseInv /\ HistoryAccountsForStatus
  BY BaseInit DEF Init, HistoryAccountsForStatus, NoRequest
<1>2. BaseInv /\ HistoryAccountsForStatus /\ [Next]_vars =>
         BaseInv' /\ HistoryAccountsForStatus'
  <2> SUFFICES ASSUME BaseInv, HistoryAccountsForStatus, [Next]_vars,
                      NEW r \in Requests
               PROVE  HistoryOf(r)'
    BY BaseNext DEF HistoryAccountsForStatus, HistoryOf
  <2>1. HistoryOf(r) /\ history \in [Requests -> Seq(HistoryRow)]
    BY DEF BaseInv, TypeOK, HistoryAccountsForStatus, HistoryOf
  <2>2. CASE request'[r].status = request[r].status /\ history'[r] = history[r]
    BY <2>1, <2>2 DEF HistoryOf
  <2>3. ASSUME NEW s \in Sessions, CommitStart(s), r = session[s].request
        PROVE  HistoryOf(r)'
    <3>1. history[r] = <<>> /\ request \in [Requests -> RequestRow]
      BY <2>1, <2>3, TableTypes DEF BaseInv, HandlersConsistent, HandlerConsistent,
                                   CommitStart, HistoryOf
    <3>2. /\ request'[r].status = "IN_PROGRESS"
          /\ history'[r] = <<[from |-> "CREATED", to |-> "IN_PROGRESS",
                              by |-> session[s].user]>>
      BY <2>1, <2>3, <3>1 DEF CommitStart
    <3>3. is_valid_transition("CREATED", "IN_PROGRESS")
      BY DEF is_valid_transition, get_allowed_next_states, STATE_TRANSITIONS
    <3> QED
      BY <3>2, <3>3, StatusNotNone DEF HistoryOf
  <2>4. ASSUME NEW s \in Sessions, CommitEnd(s), r = session[s].request
        PROVE  HistoryOf(r)'
    <3> DEFINE me == session[s]
               target == FinalStatus(me.outcome)
               a == [from |-> me.status, to |-> target, by |-> me.user]
               b == [from |-> target, to |-> "COMPLETED", by |-> me.user]
               h == history[r]
    <3>1. /\ me.status = "IN_PROGRESS" /\ request[r].status # None
          /\ request \in [Requests -> RequestRow]
      BY <2>4, TableTypes, CommitFacts DEF CommitEnd
    <3>2. h \in Seq(HistoryRow) /\ h # <<>> /\ Len(h) \in Nat \ {0}
      BY <2>1, <3>1 DEF HistoryOf
    <3>3. request'[r].status = "COMPLETED" /\ history'[r] = h \o <<a, b>>
      BY <2>1, <2>4, <3>1 DEF CommitEnd, RequestRow, FinalHops, Hop
    <3>4. /\ a.from # a.to /\ is_valid_transition(a.from, a.to)
          /\ b.from # b.to /\ is_valid_transition(b.from, b.to)
      BY <3>1 DEF FinalStatus, is_valid_transition, get_allowed_next_states, STATE_TRANSITIONS
    <3> HIDE DEF a, b
    <3>5. /\ Len(h \o <<a, b>>) = Len(h) + 2
          /\ \A i \in 1 .. Len(h) : (h \o <<a, b>>)[i] = h[i]
          /\ (h \o <<a, b>>)[Len(h) + 1] = a /\ (h \o <<a, b>>)[Len(h) + 2] = b
      BY <3>2
    <3>6. b.to = "COMPLETED"
      BY DEF b
    <3> QED
      BY <2>1, <3>2, <3>3, <3>4, <3>5, <3>6, StatusNotNone DEF HistoryOf
  <2>5. ASSUME NEW s \in Sessions, CommitStart(s) \/ CommitNext(s) \/ CommitEnd(s)
        PROVE  HistoryOf(r)'
    <3>1. request \in [Requests -> RequestRow] /\ history \in [Requests -> Seq(HistoryRow)]
      BY <2>1, TableTypes
    <3>2. CASE CommitNext(s)
      BY <2>2, <3>1, <3>2 DEF CommitNext, MovedRequest, RequestRow
    <3>3. CASE CommitStart(s)
      BY <2>2, <2>3, <3>1, <3>3 DEF CommitStart
    <3>4. CASE CommitEnd(s)
      BY <2>2, <2>4, <3>1, <3>4 DEF CommitEnd
    <3> QED
      BY <2>5, <3>2, <3>3, <3>4
  <2> QED
    BY <2>2, <2>5, NextCases DEF tables
<1> QED
  BY <1>1, <1>2, PTL DEF Spec

-----------------------------------------------------------------------------
\* Who closed an execution.

\* An execution belongs to a stored request and its workflow, and whoever
\* closed it was cleared for its step.  The request must be stored: otherwise
\* start_workflow could give it another workflow.
RowSound(row, req) ==
    /\ row.completed => Authorised(row.assigned_to, row.step)
    /\ req[row.request].status # None
    /\ WorkflowOf[row.step] = req[row.request].workflow_id

RowsSound == \A e \in 1 .. Len(request_steps) : RowSound(request_steps[e], request)

\* A row names a request.
LEMMA RowFacts ==
  ASSUME BaseInv, RowsSound, NEW e \in 1 .. Len(request_steps)
  PROVE  request_steps[e].request \in Requests /\ RowSound(request_steps[e], request)
<1>1. request_steps[e] \in ExecutionRow
  BY TableTypes
<1>2. request_steps[e].request \in Requests
  BY <1>1 DEF ExecutionRow
<1>3. RowSound(request_steps[e], request)
  BY DEF RowsSound
<1> QED
  BY <1>2, <1>3

\* The rows after a decision: the closed one keeps its request and step, and
\* is signed by the user that was checked.
LEMMA ClosedRowsSound ==
  ASSUME NEW s \in Sessions, BaseInv, RowsSound, session[s].pc = "commit",
         session[s].outcome \in StepStatus,
         NEW req, \A r \in Requests : /\ req[r].status = None <=> request[r].status = None
                                      /\ req[r].workflow_id = request[r].workflow_id
  PROVE  \A e \in 1 .. Len(request_steps) : RowSound(ClosedSteps(session[s])[e], req)
<1> DEFINE me == session[s]
           C == ClosedSteps(me)
<1>1. /\ Authorised(me.user, me.current_step_id)
      /\ me.exec \in 1 .. Len(request_steps)
      /\ request_steps[me.exec].step = me.current_step_id
      /\ request_steps \in Seq(ExecutionRow)
  BY CommitFacts, TableTypes
<1>2. \A e \in 1 .. Len(request_steps) :
         /\ C[e].request = request_steps[e].request /\ C[e].step = request_steps[e].step
         /\ e # me.exec => C[e] = request_steps[e]
         /\ e = me.exec => C[e].assigned_to = me.user
  BY ClosedStepsType
<1> HIDE DEF C, me
<1> SUFFICES ASSUME NEW e \in 1 .. Len(request_steps) PROVE RowSound(C[e], req)
  BY DEF C, me
<1>3. request_steps[e].request \in Requests /\ RowSound(request_steps[e], request)
  BY RowFacts
<1>4. C[e].completed => Authorised(C[e].assigned_to, C[e].step)
  <2>1. CASE e = me.exec
    BY <1>1, <1>2, <2>1
  <2>2. CASE e # me.exec
    BY <1>2, <1>3, <2>2 DEF RowSound
  <2> QED
    BY <2>1, <2>2
<1>5. /\ req[C[e].request].status # None
      /\ WorkflowOf[C[e].step] = req[C[e].request].workflow_id
  BY <1>2, <1>3 DEF RowSound
<1> QED
  BY <1>4, <1>5 DEF RowSound

\* start_workflow adds a row of a request that had none.
LEMMA CommitStartSound ==
  ASSUME NEW s \in Sessions, BaseInv, RowsSound, CommitStart(s)
  PROVE  RowsSound'
<1> DEFINE me == session[s]
           n == Len(request_steps)
<1>1. /\ me.request \in Requests /\ n \in Nat /\ WorkflowOf[me.next] = me.workflow
      /\ request[me.request].status = None
      /\ request \in [Requests -> RequestRow] /\ request_steps \in Seq(ExecutionRow)
  BY TableTypes DEF BaseInv, HandlersConsistent, HandlerConsistent, CommitStart, FirstSteps
<1>2. /\ request'[me.request].status = "IN_PROGRESS"
      /\ request'[me.request].workflow_id = me.workflow
      /\ \A r \in Requests \ {me.request} : request'[r] = request[r]
  BY <1>1 DEF CommitStart
<1>3. /\ Len(request_steps') = n + 1
      /\ \A e \in 1 .. n : request_steps'[e] = request_steps[e]
      /\ request_steps'[n + 1] = PendingExecution(me.request, me.next)
  BY <1>1 DEF CommitStart
<1>4. RowSound(PendingExecution(me.request, me.next), request')
  BY <1>1, <1>2, StatusNotNone DEF RowSound, PendingExecution
<1>5. ASSUME NEW e \in 1 .. n PROVE RowSound(request_steps[e], request')
  <2>1. RowSound(request_steps[e], request) /\ request_steps[e].request \in Requests
    BY RowFacts
  <2>2. request'[request_steps[e].request] = request[request_steps[e].request]
    BY <1>1, <1>2, <2>1 DEF RowSound
  <2> QED
    BY <2>1, <2>2 DEF RowSound
<1>6. \A e \in 1 .. n + 1 : RowSound(request_steps'[e], request')
  BY <1>1, <1>3, <1>4, <1>5
<1> QED
  BY <1>3, <1>6 DEF RowsSound

\* A move opens a row of the same request and the same workflow.
LEMMA CommitNextSound ==
  ASSUME NEW s \in Sessions, BaseInv, RowsSound, CommitNext(s)
  PROVE  RowsSound'
<1> DEFINE me == session[s]
           n == Len(request_steps)
<1>1. /\ me.pc = "commit" /\ me.outcome \in StepStatus /\ me.next # None
      /\ me.request \in Requests /\ n \in Nat /\ me.exec \in 1 .. n
      /\ request_steps[me.exec].request = me.request
      /\ request_steps[me.exec].step = me.current_step_id
      /\ request[me.request].status # None
      /\ request \in [Requests -> RequestRow]
  BY TableTypes, CommitFacts DEF CommitNext
<1>2. \A r \in Requests : /\ request'[r].status = request[r].status
                          /\ request'[r].workflow_id = request[r].workflow_id
  BY <1>1 DEF CommitNext, MovedRequest, RequestRow
<1>3. \A e \in 1 .. n : RowSound(ClosedSteps(me)[e], request')
  BY <1>1, <1>2, ClosedRowsSound
<1>4. RowSound(PendingExecution(me.request, me.next), request')
  <2>1. WorkflowOf[me.next] = WorkflowOf[me.current_step_id]
    BY <1>1 DEF BaseInv, HandlersConsistent, HandlerConsistent
  <2>2. WorkflowOf[me.current_step_id] = request[me.request].workflow_id
    BY <1>1 DEF RowsSound, RowSound
  <2> QED
    BY <1>1, <1>2, <2>1, <2>2 DEF RowSound, PendingExecution
<1>5. ClosedSteps(me) \in Seq(ExecutionRow) /\ Len(ClosedSteps(me)) = n
  BY <1>1, ClosedStepsType
<1>6. request_steps' = Append(ClosedSteps(me), PendingExecution(me.request, me.next))
  BY DEF CommitNext
<1>7. /\ Len(request_steps') = n + 1
      /\ \A e \in 1 .. n : request_steps'[e] = ClosedSteps(me)[e]
      /\ request_steps'[n + 1] = PendingExecution(me.request, me.next)
  BY <1>1, <1>5, <1>6
<1>8. \A e \in 1 .. n + 1 : RowSound(request_steps'[e], request')
  BY <1>1, <1>3, <1>4, <1>7
<1> QED
  BY <1>7, <1>8 DEF RowsSound

\* A finalization opens no row and keeps the workflow of the request.
LEMMA CommitEndSound ==
  ASSUME NEW s \in Sessions, BaseInv, RowsSound, CommitEnd(s)
  PROVE  RowsSound'
<1> DEFINE me == session[s]
           n == Len(request_steps)
<1>1. /\ me.pc = "commit" /\ me.outcome \in StepStatus
      /\ me.request \in Requests /\ request[me.request].status # None
      /\ request \in [Requests -> RequestRow]
  BY TableTypes, CommitFacts DEF CommitEnd
<1>2. \A r \in Requests : /\ request'[r].status = None <=> request[r].status = None
                          /\ request'[r].workflow_id = request[r].workflow_id
  BY <1>1, StatusNotNone DEF CommitEnd, RequestRow
<1>3. \A e \in 1 .. n : RowSound(ClosedSteps(me)[e], request')
  BY <1>1, <1>2, ClosedRowsSound
<1>4. request_steps' = ClosedSteps(me) /\ Len(ClosedSteps(me)) = n
  BY <1>1, ClosedStepsType DEF CommitEnd
<1> QED
  BY <1>3, <1>4 DEF RowsSound

\* Whoever closed an execution was cleared for its step or is an admin, also
\* when handlers race and one overwrites the decision of another: the check and
\* the signature belong to the same handler and the same step.
THEOREM DecisionsAreAuthorised == Spec => []DecidedByAuthorised
<1>1. Init => BaseInv /\ RowsSound
  BY BaseInit DEF Init, RowsSound
<1>2. BaseInv /\ RowsSound /\ [Next]_vars => BaseInv' /\ RowsSound'
  <2> SUFFICES ASSUME BaseInv, RowsSound, [Next]_vars PROVE RowsSound'
    BY BaseNext
  <2>1. CASE UNCHANGED tables
    BY <2>1 DEF tables, RowsSound
  <2>2. ASSUME NEW s \in Sessions, CommitStart(s) \/ CommitNext(s) \/ CommitEnd(s)
        PROVE  RowsSound'
    BY <2>2, CommitStartSound, CommitNextSound, CommitEndSound
  <2> QED
    BY <2>1, <2>2, NextCases
<1>3. RowsSound => DecidedByAuthorised
  BY DEF RowsSound, RowSound, DecidedByAuthorised
<1> QED
  BY <1>1, <1>2, <1>3, PTL DEF Spec

-----------------------------------------------------------------------------
\* What the engine leaves behind of every execution: its announcement at the
\* broker and its rows in the audit log.

\* What the three commits do to request_steps: no row changes its request or
\* its step, and rows are only added at the end.
LEMMA RowsKept ==
  ASSUME NEW s \in Sessions, BaseInv, CommitStart(s) \/ CommitNext(s) \/ CommitEnd(s)
  PROVE  /\ Len(request_steps') \in {Len(request_steps), Len(request_steps) + 1}
         /\ CommitEnd(s) => Len(request_steps') = Len(request_steps)
         /\ \A e \in 1 .. Len(request_steps) :
               /\ request_steps'[e].request = request_steps[e].request
               /\ request_steps'[e].step = request_steps[e].step
               /\ e # session[s].exec \/ CommitStart(s) => request_steps'[e] = request_steps[e]
         /\ ~CommitStart(s) => request_steps'[session[s].exec].assigned_to = session[s].user
         /\ ~CommitEnd(s) =>
               /\ Len(request_steps') = Len(request_steps) + 1
               /\ request_steps'[Len(request_steps) + 1] =
                     PendingExecution(session[s].request, session[s].next)
<1> DEFINE me == session[s]
           n == Len(request_steps)
           new == PendingExecution(me.request, me.next)
<1>1. n \in Nat /\ request_steps \in Seq(ExecutionRow)
  BY TableTypes
<1>2. CASE CommitStart(s)
  <2>1. request_steps' = Append(request_steps, new) /\ me.pc = "start_commit"
    BY <1>2 DEF CommitStart
  <2>2. ~CommitEnd(s)
    BY <2>1 DEF CommitEnd
  <2> HIDE DEF new
  <2>3. /\ Len(request_steps') = n + 1 /\ request_steps'[n + 1] = new
        /\ \A e \in 1 .. n : request_steps'[e] = request_steps[e]
    BY <1>1, <2>1
  <2> QED
    BY <1>2, <2>2, <2>3 DEF new
<1>3. ASSUME me.pc = "commit", me.outcome \in StepStatus
      PROVE  /\ ClosedSteps(me) \in Seq(ExecutionRow) /\ Len(ClosedSteps(me)) = n
             /\ \A e \in 1 .. n :
                   /\ ClosedSteps(me)[e].request = request_steps[e].request
                   /\ ClosedSteps(me)[e].step = request_steps[e].step
                   /\ e # me.exec => ClosedSteps(me)[e] = request_steps[e]
             /\ ClosedSteps(me)[me.exec].assigned_to = me.user
             /\ me.exec \in 1 .. n
  BY <1>3, ClosedStepsType, CommitFacts
<1>4. CASE CommitNext(s)
  <2>1. /\ request_steps' = Append(ClosedSteps(me), new) /\ me.next # None
        /\ me.pc = "commit" /\ me.outcome \in StepStatus
    BY <1>4 DEF CommitNext
  <2>2. ~CommitEnd(s) /\ ~CommitStart(s)
    BY <2>1 DEF CommitEnd, CommitStart
  <2> HIDE DEF new
  <2>3. /\ Len(request_steps') = n + 1 /\ request_steps'[n + 1] = new
        /\ \A e \in 1 .. n : request_steps'[e] = ClosedSteps(me)[e]
    BY <1>1, <1>3, <2>1
  <2> QED
    BY <1>3, <2>1, <2>2, <2>3 DEF new
<1>5. CASE CommitEnd(s)
  <2>1. /\ request_steps' = ClosedSteps(me)
        /\ me.pc = "commit" /\ me.outcome \in StepStatus
    BY <1>5 DEF CommitEnd
  <2>2. ~CommitStart(s)
    BY <2>1 DEF CommitStart
  <2> QED
    BY <1>3, <1>5, <2>1, <2>2
<1> QED
  BY <1>2, <1>4, <1>5

-----------------------------------------------------------------------------
\* Announcements.

\* A new execution was announced by the handler that opens it, before the
\* commit; if the handler is not the one that starts the request, the
\* execution it closes is an earlier one of the request.
LEMMA CommitAnnounced ==
  ASSUME NEW s \in Sessions, BaseInv, AssignmentsAnnounced,
         CommitStart(s) \/ CommitNext(s) \/ CommitEnd(s)
  PROVE  AssignmentsAnnounced'
<1> DEFINE me == session[s]
           n == Len(request_steps)
<1>1. UNCHANGED <<queue, refused>> /\ n \in Nat
  BY TableTypes DEF CommitStart, CommitNext, CommitEnd
<1>1a. /\ Len(request_steps') \in {n, n + 1}
       /\ CommitEnd(s) => Len(request_steps') = n
       /\ ~CommitEnd(s) => request_steps'[n + 1] = PendingExecution(me.request, me.next)
  BY RowsKept
<1>2. SUFFICES ASSUME NEW e \in 1 .. Len(request_steps')
      PROVE  LET m == <<request_steps'[e].request, request_steps'[e].step>>
             IN  /\ m \in queue \cup refused
                 /\ (\A f \in 1 .. e - 1 :
                        request_steps'[f].request # request_steps'[e].request) => m \in queue
  BY <1>1 DEF AssignmentsAnnounced
<1>3. CASE e \in 1 .. n
  <2>1. 1 .. e - 1 \subseteq 1 .. n
    BY <1>1, <1>3
  <2>2. \A f \in 1 .. n : /\ request_steps'[f].request = request_steps[f].request
                          /\ request_steps'[f].step = request_steps[f].step
    BY RowsKept
  <2> QED
    BY <1>3, <2>1, <2>2 DEF AssignmentsAnnounced
<1>4. CASE e \notin 1 .. n
  <2>1. ~CommitEnd(s) /\ e = n + 1
    BY <1>1, <1>1a, <1>4
  <2>2. request_steps'[e].request = me.request /\ request_steps'[e].step = me.next
    BY <1>1a, <2>1 DEF PendingExecution
  <2>3. CASE CommitStart(s)
    <3>1. <<me.request, me.next>> \in queue
      BY <2>3 DEF BaseInv, HandlersConsistent, HandlerConsistent, CommitStart
    <3> QED
      BY <2>2, <3>1
  <2>4. CASE CommitNext(s)
    <3>1. <<me.request, me.next>> \in queue \cup refused
      BY <2>4 DEF BaseInv, HandlersConsistent, HandlerConsistent, CommitNext
    <3>2. me.exec \in 1 .. n /\ request_steps[me.exec].request = me.request
      BY <2>4, CommitFacts DEF CommitNext
    <3>3. me.exec \in 1 .. e - 1 /\ request_steps'[me.exec].request = me.request
      BY <1>1, <2>1, <3>2, RowsKept
    <3> QED
      BY <2>2, <3>1, <3>3
  <2> QED
    BY <2>1, <2>3, <2>4
<1> QED
  BY <1>3, <1>4

\* Every execution was handed to the broker or refused by it, the first one of
\* a request always handed over (start_workflow and process_step queue
\* notify_new_assignment before they commit).
THEOREM ExecutionsAnnounced == Spec => []AssignmentsAnnounced
<1>1. Init => BaseInv /\ AssignmentsAnnounced
  BY BaseInit DEF Init, AssignmentsAnnounced
<1>2. BaseInv /\ AssignmentsAnnounced /\ [Next]_vars => BaseInv' /\ AssignmentsAnnounced'
  <2> SUFFICES ASSUME BaseInv, AssignmentsAnnounced, [Next]_vars PROVE AssignmentsAnnounced'
    BY BaseNext
  <2>1. queue \subseteq queue' /\ refused \subseteq refused'
    BY NextCases
  <2>2. CASE UNCHANGED tables
    BY <2>1, <2>2 DEF tables, AssignmentsAnnounced
  <2>3. ASSUME NEW s \in Sessions, CommitStart(s) \/ CommitNext(s) \/ CommitEnd(s)
        PROVE  AssignmentsAnnounced'
    BY <2>3, CommitAnnounced
  <2> QED
    BY <2>2, <2>3, NextCases
<1> QED
  BY <1>1, <1>2, PTL DEF Spec

-----------------------------------------------------------------------------
\* The audit log.

\* The two halves of AuditCoversDecisions.
Signed(e, row, log) ==
    \E i \in 1 .. Len(log[row.request]) :
       LET a == log[row.request][i]
       IN  a.action = "STEP_COMPLETED" /\ a.exec = e /\ a.actor = row.assigned_to

SignaturesKept ==
    \A e \in 1 .. Len(request_steps) :
        request_steps[e].completed => Signed(e, request_steps[e], audit_logs)

Logged(log) == \E i \in 1 .. Len(log) : log[i].action = "WORKFLOW_COMPLETED"

CompletionsLogged ==
    \A r \in Requests : Logged(audit_logs[r]) <=> request[r].status = "COMPLETED"

\* The rows a decision writes.
LEMMA StepRowType ==
  ASSUME NEW s \in Sessions, BaseInv, session[s].pc = "commit"
  PROVE  StepCompletedRow(session[s]) \in AuditRow
<1>1. session[s] \in SessionState /\ session[s].user \in Users
      /\ session[s].outcome \in Outcome /\ session[s].exec \in Nat
  BY DEF BaseInv, TypeOK, HandlersConsistent, HandlerConsistent, SessionState
<1> QED
  BY <1>1 DEF StepCompletedRow, AuditRow

LEMMA FinalRowsType ==
  ASSUME NEW s \in Sessions, BaseInv, session[s].pc = "commit"
  PROVE  /\ FinalRows(session[s]) \in Seq(AuditRow) /\ Len(FinalRows(session[s])) = 2
         /\ FinalRows(session[s])[1] = CompletedRow(session[s])
         /\ FinalRows(session[s])[2] = StepCompletedRow(session[s])
<1>1. session[s].user \in Users /\ session[s].outcome \in Outcome
  BY DEF BaseInv, HandlersConsistent, HandlerConsistent
<1>2. CompletedRow(session[s]) \in AuditRow
  BY <1>1 DEF CompletedRow, AuditRow
<1>3. StepCompletedRow(session[s]) \in AuditRow
  BY StepRowType
<1> QED
  BY <1>2, <1>3 DEF FinalRows

\* Rows are added to the end of a log only.
LEMMA LogsExtended ==
  ASSUME NEW s \in Sessions, BaseInv, CommitStart(s) \/ CommitNext(s) \/ CommitEnd(s)
  PROVE  \A r \in Requests :
            /\ audit_logs[r] \in Seq(AuditRow) /\ audit_logs'[r] \in Seq(AuditRow)
            /\ Len(audit_logs[r]) \in Nat /\ Len(audit_logs'[r]) \in Nat
            /\ Len(audit_logs[r]) <= Len(audit_logs'[r])
            /\ \A i \in 1 .. Len(audit_logs[r]) : audit_logs'[r][i] = audit_logs[r][i]
            /\ r # session[s].request => audit_logs'[r] = audit_logs[r]
<1> DEFINE me == session[s]
           q == me.request
<1>1. audit_logs \in [Requests -> Seq(AuditRow)] /\ q \in Requests
  BY CommitFacts DEF BaseInv, TypeOK, HandlersConsistent, HandlerConsistent, CommitStart,
     CommitNext, CommitEnd
<1>2. TypeOK'
  BY CommitStartType, CommitNextType, CommitEndType
<1>3. audit_logs' \in [Requests -> Seq(AuditRow)]
  BY <1>2 DEF TypeOK
<1>4. /\ \A r \in Requests \ {q} : audit_logs'[r] = audit_logs[r]
      /\ audit_logs[q] \in Seq(AuditRow) /\ audit_logs'[q] \in Seq(AuditRow)
  BY <1>1, <1>3 DEF CommitStart, CommitNext, CommitEnd
<1> DEFINE log == audit_logs[q]
           longer == audit_logs'[q]
<1>5. Len(log) <= Len(longer) /\ \A i \in 1 .. Len(log) : longer[i] = log[i]
  <2>1. CASE CommitStart(s) \/ CommitNext(s)
    <3>1. \E row : longer = Append(log, row)
      BY <1>1, <2>1 DEF CommitStart, CommitNext
    <3>2. PICK row : longer = Append(log, row)
      BY <3>1
    <3> HIDE DEF log, longer
    <3>3. Len(log) \in Nat /\ log \in Seq(AuditRow)
      BY <1>4 DEF log
    <3> QED
      BY <3>2, <3>3
  <2>2. CASE CommitEnd(s)
    <3>1. longer = log \o FinalRows(me)
      BY <1>1, <2>2 DEF CommitEnd
    <3>2. FinalRows(me) \in Seq(AuditRow)
      BY <2>2, FinalRowsType DEF CommitEnd
    <3>3. log \in Seq(AuditRow)
      BY <1>4
    <3> HIDE DEF log, longer
    <3> QED
      BY <3>1, <3>2, <3>3
  <2> QED
    BY <2>1, <2>2
<1>6. \A r \in Requests : /\ audit_logs[r] \in Seq(AuditRow) /\ audit_logs'[r] \in Seq(AuditRow)
                          /\ Len(audit_logs[r]) \in Nat /\ Len(audit_logs'[r]) \in Nat
  BY <1>1, <1>3
<1> QED
  BY <1>4, <1>5, <1>6

\* A row of another kind leaves the completion as it is.
LEMMA AppendedLogged ==
  ASSUME NEW log \in Seq(AuditRow), NEW row \in AuditRow, row.action # "WORKFLOW_COMPLETED"
  PROVE  Logged(Append(log, row)) <=> Logged(log)
<1>1. /\ Len(log) \in Nat /\ Len(Append(log, row)) = Len(log) + 1
      /\ \A i \in 1 .. Len(log) : Append(log, row)[i] = log[i]
      /\ Append(log, row)[Len(log) + 1] = row
  OBVIOUS
<1>2. \A i \in 1 .. Len(log) + 1 : i \in 1 .. Len(log) \/ i = Len(log) + 1
  BY <1>1
<1>3. 1 .. Len(log) \subseteq 1 .. Len(log) + 1
  BY <1>1
<1> QED
  BY <1>1, <1>2, <1>3 DEF Logged

\* What a handler closes, it signs in the log of the same request.
LEMMA SignaturesStay ==
  ASSUME NEW s \in Sessions, BaseInv, SignaturesKept,
         CommitStart(s) \/ CommitNext(s) \/ CommitEnd(s)
  PROVE  SignaturesKept'
<1> DEFINE me == session[s]
           n == Len(request_steps)
<1>1. n \in Nat /\ request_steps \in Seq(ExecutionRow)
  BY TableTypes
<1>1a. /\ Len(request_steps') \in {n, n + 1}
       /\ CommitEnd(s) => Len(request_steps') = n
       /\ ~CommitEnd(s) => request_steps'[n + 1] = PendingExecution(me.request, me.next)
  BY RowsKept
<1> SUFFICES ASSUME NEW e \in 1 .. Len(request_steps'), request_steps'[e].completed
             PROVE  Signed(e, request_steps'[e], audit_logs')
  BY DEF SignaturesKept, Signed
<1>2. e \in 1 .. n
  <2> SUFFICES ASSUME e \notin 1 .. n PROVE FALSE
    OBVIOUS
  <2>1. ~CommitEnd(s) /\ e = n + 1
    BY <1>1, <1>1a
  <2> QED
    BY <1>1a, <2>1 DEF PendingExecution
<1>3. request_steps[e].request \in Requests
  <2>1. request_steps[e] \in ExecutionRow
    BY <1>1, <1>2
  <2> QED
    BY <2>1 DEF ExecutionRow
<1>4. CASE e # me.exec \/ CommitStart(s)
  <2>1. request_steps'[e] = request_steps[e]
    BY <1>2, <1>4, RowsKept
  <2>2. Signed(e, request_steps[e], audit_logs)
    BY <1>2, <2>1 DEF SignaturesKept
  <2> QED
    BY <1>3, <2>1, <2>2, LogsExtended DEF Signed
<1>5. CASE e = me.exec /\ ~CommitStart(s)
  <2>1. me.pc = "commit" /\ (CommitNext(s) \/ CommitEnd(s))
    BY <1>5 DEF CommitNext, CommitEnd
  <2>2. me.request \in Requests /\ request_steps[e].request = me.request
    BY <1>5, <2>1, CommitFacts
  <2>3. request_steps'[e].request = me.request /\ request_steps'[e].assigned_to = me.user
    BY <1>2, <1>5, <2>2, RowsKept
  <2>4. audit_logs \in [Requests -> Seq(AuditRow)]
    BY DEF BaseInv, TypeOK
  <2>5. \E i \in 1 .. Len(audit_logs'[me.request]) :
           audit_logs'[me.request][i] = StepCompletedRow(me)
    <3> DEFINE log == audit_logs[me.request]
    <3>1. log \in Seq(AuditRow) /\ Len(log) \in Nat /\ StepCompletedRow(me) \in AuditRow
      BY <2>1, <2>2, <2>4, StepRowType
    <3>2. CASE CommitNext(s)
      <4>1. audit_logs'[me.request] = Append(log, StepCompletedRow(me))
        BY <2>2, <2>4, <3>2 DEF CommitNext
      <4> HIDE DEF log
      <4>2. /\ Len(log) + 1 \in 1 .. Len(audit_logs'[me.request])
            /\ audit_logs'[me.request][Len(log) + 1] = StepCompletedRow(me)
        BY <3>1, <4>1
      <4> QED
        BY <4>2
    <3>3. CASE CommitEnd(s)
      <4>1. audit_logs'[me.request] = log \o FinalRows(me)
        BY <2>2, <2>4, <3>3 DEF CommitEnd
      <4>2. /\ FinalRows(me) \in Seq(AuditRow) /\ Len(FinalRows(me)) = 2
            /\ FinalRows(me)[2] = StepCompletedRow(me)
        BY <2>1, FinalRowsType
      <4> HIDE DEF log
      <4>3. /\ Len(log) + 2 \in 1 .. Len(audit_logs'[me.request])
            /\ audit_logs'[me.request][Len(log) + 2] = StepCompletedRow(me)
        BY <3>1, <4>1, <4>2
      <4> QED
        BY <4>3
    <3> QED
      BY <2>1, <3>2, <3>3
  <2> QED
    BY <1>5, <2>3, <2>5 DEF Signed, StepCompletedRow
<1> QED
  BY <1>4, <1>5

\* The completion is logged in the commit that writes the status.
LEMMA CompletionsStay ==
  ASSUME NEW s \in Sessions, BaseInv, CompletionsLogged,
         CommitStart(s) \/ CommitNext(s) \/ CommitEnd(s)
  PROVE  CompletionsLogged'
<1> DEFINE me == session[s]
           q == me.request
           log == audit_logs[q]
<1>1. /\ q \in Requests /\ request \in [Requests -> RequestRow]
      /\ audit_logs \in [Requests -> Seq(AuditRow)]
  BY TableTypes, CommitFacts DEF BaseInv, TypeOK, HandlersConsistent, HandlerConsistent,
     CommitStart, CommitNext, CommitEnd
<1>2. log \in Seq(AuditRow) /\ Len(log) \in Nat
  BY <1>1
<1>3. Logged(log) <=> request[q].status = "COMPLETED"
  BY <1>1 DEF CompletionsLogged
<1>4. \A r \in Requests \ {q} : request'[r].status = request[r].status
                                /\ audit_logs'[r] = audit_logs[r]
  <2>1. \A r \in Requests \ {q} : request'[r] = request[r]
    BY <1>1 DEF CommitStart, CommitNext, CommitEnd, MovedRequest, RequestRow
  <2> QED
    BY <2>1, LogsExtended
<1>5. Logged(audit_logs'[q]) <=> request'[q].status = "COMPLETED"
  <2>1. CASE CommitStart(s)
    <3> DEFINE row == [action |-> "WORKFLOW_STARTED", actor |-> me.user,
                       exec |-> 0, outcome |-> None]
    <3>1. request[q].status = None /\ request'[q].status = "IN_PROGRESS"
      BY <1>1, <2>1 DEF BaseInv, HandlersConsistent, HandlerConsistent, CommitStart
    <3>2. audit_logs'[q] = Append(log, row) /\ row.action # "WORKFLOW_COMPLETED"
      BY <1>1, <2>1 DEF CommitStart
    <3>3. row \in AuditRow
      BY <2>1 DEF AuditRow, BaseInv, HandlersConsistent, HandlerConsistent, CommitStart
    <3> HIDE DEF log, row
    <3>4. Logged(audit_logs'[q]) <=> Logged(log)
      BY <1>2, <3>2, <3>3, AppendedLogged
    <3> QED
      BY <1>3, <3>1, <3>4, StatusNotNone
  <2>2. CASE CommitNext(s)
    <3>1. request'[q].status = request[q].status
      BY <1>1, <2>2 DEF CommitNext, MovedRequest, RequestRow
    <3>2. /\ audit_logs'[q] = Append(log, StepCompletedRow(me)) /\ me.pc = "commit"
          /\ StepCompletedRow(me).action # "WORKFLOW_COMPLETED"
      BY <1>1, <2>2 DEF CommitNext, StepCompletedRow
    <3>3. StepCompletedRow(me) \in AuditRow
      BY <3>2, StepRowType
    <3> HIDE DEF log
    <3>4. Logged(audit_logs'[q]) <=> Logged(log)
      BY <1>2, <3>2, <3>3, AppendedLogged
    <3> QED
      BY <1>3, <3>1, <3>4
  <2>3. CASE CommitEnd(s)
    <3>1. request'[q].status = "COMPLETED" /\ me.pc = "commit"
      BY <1>1, <2>3 DEF CommitEnd, RequestRow
    <3>2. audit_logs'[q] = log \o FinalRows(me)
      BY <1>1, <2>3 DEF CommitEnd
    <3>2a. /\ FinalRows(me) \in Seq(AuditRow) /\ Len(FinalRows(me)) = 2
           /\ FinalRows(me)[1] = CompletedRow(me)
      BY <3>1, FinalRowsType
    <3>3. FinalRows(me)[1].action = "WORKFLOW_COMPLETED"
      BY <3>2a DEF CompletedRow
    <3> HIDE DEF log
    <3>4. /\ Len(log) + 1 \in 1 .. Len(audit_logs'[q])
          /\ audit_logs'[q][Len(log) + 1] = FinalRows(me)[1]
      BY <1>2, <3>2, <3>2a
    <3>5. Logged(audit_logs'[q])
      BY <3>3, <3>4 DEF Logged
    <3> QED
      BY <3>1, <3>5
  <2> QED
    BY <2>1, <2>2, <2>3
<1> QED
  BY <1>4, <1>5 DEF CompletionsLogged

\* The assignee of every closed execution has a row for it in the audit log, and
\* a request is completed exactly when the log says so, also when handlers race
\* and one overwrites the decision of another (log_action is part of the
\* transaction it describes).
THEOREM DecisionsAreAudited == Spec => []AuditCoversDecisions
<1>1. Init => BaseInv /\ SignaturesKept /\ CompletionsLogged
  <2> SUFFICES ASSUME Init PROVE BaseInv /\ SignaturesKept /\ CompletionsLogged
    OBVIOUS
  <2>1. BaseInv
    BY BaseInit
  <2>2. SignaturesKept
    BY DEF Init, SignaturesKept
  <2>3. \A r \in Requests : audit_logs[r] = <<>> /\ request[r].status = None
    BY DEF Init, NoRequest
  <2> QED
    BY <2>1, <2>2, <2>3, StatusNotNone DEF CompletionsLogged, Logged
<1>2. BaseInv /\ SignaturesKept /\ CompletionsLogged /\ [Next]_vars =>
         BaseInv' /\ SignaturesKept' /\ CompletionsLogged'
  <2> SUFFICES ASSUME BaseInv, SignaturesKept, CompletionsLogged, [Next]_vars
               PROVE  SignaturesKept' /\ CompletionsLogged'
    BY BaseNext
  <2>1. CASE UNCHANGED tables
    BY <2>1 DEF tables, SignaturesKept, CompletionsLogged, Signed
  <2>2. ASSUME NEW s \in Sessions, CommitStart(s) \/ CommitNext(s) \/ CommitEnd(s)
        PROVE  SignaturesKept' /\ CompletionsLogged'
    BY <2>2, SignaturesStay, CompletionsStay
  <2> QED
    BY <2>1, <2>2, NextCases
<1>3. SignaturesKept /\ CompletionsLogged => AuditCoversDecisions
  BY DEF SignaturesKept, CompletionsLogged, Signed, Logged, AuditCoversDecisions
<1> QED
  BY <1>1, <1>2, <1>3, PTL DEF Spec

=============================================================================
