---------------------------- MODULE SerialProofs ----------------------------
(***************************************************************************)
(* What the engine guarantees if no two handlers work on one request at    *)
(* the same time (SerialSpec): it implements the atomic decisions of       *)
(* Lifecycle.                                                              *)
(***************************************************************************)
EXTENDS WorkflowEngineProofs

InFlight(s) == session[s].pc \in {"loaded", "commit"}

\* Nobody else works on the request of a handler in flight.
Alone ==
    \A s, t \in Sessions :
        InFlight(s) /\ InFlight(t) /\ session[s].request = session[t].request => s = t

\* What a handler has loaded is still what the database holds, and what it is
\* about to write follows from it.
UpToDate(s) == LET me == session[s] IN
    /\ InFlight(s) => /\ me.status = request[me.request].status
                      /\ me.current_step_id = request[me.request].current_step_id
    /\ me.pc = "commit" =>
          /\ ~request_steps[me.exec].completed
          /\ \E ctx \in EvalContext : me.next \in ResolveNext(me.current_step_id, me.outcome, ctx)
    /\ me.pc = "start_commit" => me.workflow \in ActiveWorkflows

AllUpToDate == \A s \in Sessions : UpToDate(s)

\* An open execution has never been written to.
Blank(row) == ~row.completed => row.status = "PENDING" /\ row.assigned_to = None

OpenRowsBlank == \A e \in 1 .. Len(request_steps) : Blank(request_steps[e])

DataStored == \A r \in Requests : request[r].status # None => request[r].data \in Data

\* OnePendingStep, one row and two rows at a time.
AtCurrent(row, req) ==
    ~row.completed => /\ req[row.request].status = "IN_PROGRESS"
                      /\ req[row.request].current_step_id = row.step

OpenAtCurrent == \A e \in 1 .. Len(request_steps) : AtCurrent(request_steps[e], request)

OneOpen(rows) ==
    \A e, f \in 1 .. Len(rows) :
        ~rows[e].completed /\ ~rows[f].completed /\ rows[e].request = rows[f].request => e = f

SerialInv == /\ Alone /\ AllUpToDate /\ OpenRowsBlank /\ DataStored
             /\ OpenAtCurrent /\ OneOpen(request_steps)

\* What holds of every interleaving.
Known == BaseInv /\ RowsSound /\ HistoryAccountsForStatus

-----------------------------------------------------------------------------
\* Steps that leave the tables alone.

LEMMA LocalSerial ==
  ASSUME NEW s \in Sessions, Known, SerialInv, UNCHANGED tables,
         \A t \in Sessions \ {s} : session'[t] = session[t],
         UpToDate(s)',
         InFlight(s)' => \A t \in Sessions \ {s} : InFlight(t) =>
                            session[t].request # session'[s].request
  PROVE  SerialInv'
<1>1. UNCHANGED <<request, request_steps>>
  BY DEF tables
<1>2. Alone'
  BY DEF SerialInv, Alone, InFlight
<1>3. AllUpToDate'
  <2> SUFFICES ASSUME NEW t \in Sessions, t # s PROVE UpToDate(t)'
    BY DEF AllUpToDate
  <2>1. UpToDate(t) /\ session'[t] = session[t]
    BY DEF SerialInv, AllUpToDate
  <2> QED
    BY <1>1, <2>1 DEF UpToDate, InFlight
<1>4. OpenRowsBlank' /\ DataStored' /\ OpenAtCurrent' /\ OneOpen(request_steps)'
  BY <1>1 DEF SerialInv, OpenRowsBlank, DataStored, OpenAtCurrent, OneOpen
<1> QED
  BY <1>2, <1>3, <1>4 DEF SerialInv

\* A handler that ends, or that has only received a call, knows nothing.
LEMMA QuietSerial ==
  ASSUME NEW s \in Sessions, Known, SerialInv, UNCHANGED tables,
         \A t \in Sessions \ {s} : session'[t] = session[t],
         session'[s].pc \in {"idle", "start", "process"}
  PROVE  SerialInv'
<1>1. ~InFlight(s)' /\ UpToDate(s)'
  BY DEF InFlight, UpToDate
<1> QED
  BY <1>1, LocalSerial

LEMMA ReturnSerial ==
  ASSUME NEW s \in Sessions, Known, SerialInv, UNCHANGED tables, Return(s)
  PROVE  SerialInv'
<1>1. session'[s] = Idle /\ \A t \in Sessions \ {s} : session'[t] = session[t]
  BY DEF Known, BaseInv, TypeOK, Return
<1>2. session'[s].pc = "idle"
  BY <1>1 DEF Idle
<1> QED
  BY <1>1, <1>2, QuietSerial

LEMMA ReceiveSerial ==
  ASSUME NEW s \in Sessions, Known, SerialInv, Receive(s)
  PROVE  SerialInv'
<1>1. session \in [Sessions -> SessionState]
  BY DEF Known, BaseInv, TypeOK
<1>2. ASSUME NEW u, NEW w, NEW d, ReceiveStart(s, u, w, d) PROVE SerialInv'
  <2>1. /\ UNCHANGED tables /\ session'[s].pc = "start"
        /\ \A t \in Sessions \ {s} : session'[t] = session[t]
    BY <1>1, <1>2 DEF ReceiveStart, Idle
  <2> QED
    BY <2>1, QuietSerial
<1>3. ASSUME NEW u, NEW r, NEW o, NEW d, ReceiveCall(s, u, r, o, d) PROVE SerialInv'
  <2>1. /\ UNCHANGED tables /\ session'[s].pc = "process"
        /\ \A t \in Sessions \ {s} : session'[t] = session[t]
    BY <1>1, <1>3 DEF ReceiveCall, Idle
  <2> QED
    BY <2>1, QuietSerial
<1> QED
  BY <1>2, <1>3 DEF Receive, ReceiveProcess, ReceiveDecision

\* A request is inserted for a workflow that is active.
LEMMA StartSerial ==
  ASSUME NEW s \in Sessions, NEW r \in Requests, NEW st \in Steps, Known, SerialInv,
         StartWorkflow(s, r, st)
  PROVE  SerialInv'
<1>1. session[s] \in SessionState /\ session \in [Sessions -> SessionState]
  BY DEF Known, BaseInv, TypeOK
<1>2. /\ UNCHANGED tables /\ session[s].workflow \in ActiveWorkflows
      /\ session'[s].pc = "start_commit" /\ session'[s].workflow = session[s].workflow
      /\ \A t \in Sessions \ {s} : session'[t] = session[t]
  BY <1>1 DEF StartWorkflow, SessionState
<1>3. ~InFlight(s)' /\ UpToDate(s)'
  BY <1>2 DEF InFlight, UpToDate
<1> QED
  BY <1>2, <1>3, LocalSerial

\* A request is loaded while nobody else has it loaded.
LEMMA LoadSerial ==
  ASSUME NEW s \in Sessions, Known, SerialInv, LoadAlone(s)
  PROVE  SerialInv'
<1>1. session[s] \in SessionState /\ session \in [Sessions -> SessionState]
  BY DEF Known, BaseInv, TypeOK
<1>2. /\ UNCHANGED tables /\ session'[s].pc = "loaded"
      /\ session'[s].request = session[s].request
      /\ session'[s].status = request[session[s].request].status
      /\ session'[s].current_step_id = request[session[s].request].current_step_id
      /\ \A t \in Sessions \ {s} : session'[t] = session[t]
  BY <1>1 DEF LoadAlone, LoadRequest, SessionState
<1>3. UpToDate(s)'
  BY <1>2 DEF UpToDate, InFlight, tables
<1>4. \A t \in Sessions \ {s} : InFlight(t) => session[t].request # session'[s].request
  BY <1>2 DEF LoadAlone, InFlight
<1> QED
  BY <1>2, <1>3, <1>4, LocalSerial

\* A decision is checked against an open execution and the transitions.
LEMMA DecideSerial ==
  ASSUME NEW s \in Sessions, NEW e \in 1 .. Len(request_steps), Known, SerialInv,
         DecideEnd(s, e) \/ \E st \in Steps : DecideNext(s, e, st)
  PROVE  SerialInv'
<1> DEFINE me == session[s]
<1>1. me \in SessionState /\ session \in [Sessions -> SessionState]
  BY DEF Known, BaseInv, TypeOK
<1>2. /\ me.pc = "loaded" /\ UNCHANGED tables
      /\ e \in CurrentExecutions(me.request, me.current_step_id)
      /\ \A t \in Sessions \ {s} : session'[t] = session[t]
  BY <1>1 DEF DecideEnd, DecideNext, MayClose
<1>3. me.next = None /\ me.request \in Requests /\ me.data \in Data
      /\ request[me.request].status # None
  BY <1>2 DEF Known, BaseInv, HandlersConsistent, HandlerConsistent
<1> DEFINE Decided ==
             /\ session'[s].pc = "commit" /\ session'[s].exec = e
             /\ session'[s].request = me.request /\ session'[s].status = me.status
             /\ session'[s].current_step_id = me.current_step_id
             /\ session'[s].outcome = me.outcome
             /\ session'[s].next \in ResolveNext(me.current_step_id, me.outcome, ContextOf(me))
<1>4. Decided
  <2>1. CASE DecideEnd(s, e)
    BY <1>1, <1>3, <2>1 DEF DecideEnd, SessionState
  <2>2. ASSUME NEW st \in Steps, DecideNext(s, e, st) PROVE Decided
    BY <1>1, <2>2 DEF DecideNext, SessionState
  <2> QED
    BY <2>1, <2>2
<1>5. ContextOf(me) \in EvalContext
  <2>1. request[me.request].data \in Data
    BY <1>3 DEF SerialInv, DataStored
  <2> QED
    BY <1>3, <2>1 DEF ContextOf, EvalContext
<1>6. ~request_steps[e].completed
  BY <1>2 DEF CurrentExecutions
<1>7. UpToDate(s) /\ InFlight(s)
  BY <1>2 DEF SerialInv, AllUpToDate, InFlight
<1>8. UpToDate(s)'
  <2> HIDE DEF me
  <2> QED
    BY <1>2, <1>4, <1>5, <1>6, <1>7 DEF UpToDate, InFlight, tables, me
<1>9. \A t \in Sessions \ {s} : InFlight(t) => session[t].request # session'[s].request
  BY <1>4, <1>7 DEF SerialInv, Alone
<1> QED
  BY <1>2, <1>8, <1>9, LocalSerial


-----------------------------------------------------------------------------
\* The three commits.

\* What a handler relies on when it commits, in one place.
LEMMA CommitKnows ==
  ASSUME NEW s \in Sessions, Known, SerialInv, CommitStart(s) \/ CommitNext(s) \/ CommitEnd(s)
  PROVE  /\ session[s].request \in Requests
         /\ CommitStart(s) =>
               /\ request[session[s].request].status = None
               /\ session[s].data \in Data /\ session[s].workflow \in ActiveWorkflows
               /\ session[s].next \in FirstSteps(session[s].workflow)
         /\ ~CommitStart(s) =>
               /\ session[s].pc = "commit" /\ InFlight(s)
               /\ session[s].outcome \in StepStatus /\ session[s].user \in Users
               /\ session[s].exec \in 1 .. Len(request_steps)
               /\ request_steps[session[s].exec].request = session[s].request
               /\ request_steps[session[s].exec].step = session[s].current_step_id
               /\ ~request_steps[session[s].exec].completed
               /\ request_steps[session[s].exec].status = "PENDING"
               /\ request[session[s].request].status = "IN_PROGRESS"
               /\ session[s].status = "IN_PROGRESS"
               /\ session[s].current_step_id = request[session[s].request].current_step_id
               /\ \E ctx \in EvalContext :
                     session[s].next \in ResolveNext(session[s].current_step_id,
                                                     session[s].outcome, ctx)
<1>1. BaseInv /\ UpToDate(s)
  BY DEF Known, SerialInv, AllUpToDate
<1>2. CASE CommitStart(s)
  <2>1. session[s].pc = "start_commit"
    BY <1>2 DEF CommitStart
  <2> QED
    BY <1>1, <1>2, <2>1 DEF BaseInv, HandlersConsistent, HandlerConsistent, UpToDate
<1>3. CASE CommitNext(s) \/ CommitEnd(s)
  <2>1. session[s].pc = "commit" /\ session[s].outcome \in StepStatus
    BY <1>3 DEF CommitNext, CommitEnd
  <2>2. InFlight(s) /\ ~CommitStart(s)
    BY <2>1 DEF InFlight, CommitStart
  <2>3. /\ session[s].request \in Requests /\ session[s].user \in Users
        /\ session[s].exec \in 1 .. Len(request_steps)
        /\ request_steps[session[s].exec].request = session[s].request
        /\ request_steps[session[s].exec].step = session[s].current_step_id
    BY <1>1, <2>1, CommitFacts
  <2>4. /\ session[s].status = request[session[s].request].status
        /\ session[s].current_step_id = request[session[s].request].current_step_id
        /\ ~request_steps[session[s].exec].completed
        /\ \E ctx \in EvalContext :
              session[s].next \in ResolveNext(session[s].current_step_id,
                                              session[s].outcome, ctx)
    BY <1>1, <2>1, <2>2 DEF UpToDate
  <2>5. request_steps[session[s].exec].status = "PENDING"
    BY <2>3, <2>4 DEF SerialInv, OpenRowsBlank, Blank
  <2>6. request[session[s].request].status = "IN_PROGRESS"
    BY <2>3, <2>4 DEF SerialInv, OpenAtCurrent, AtCurrent
  <2> QED
    BY <2>1, <2>2, <2>3, <2>4, <2>5, <2>6
<1> QED
  BY <1>2, <1>3

\* The row of the request a commit writes; the other rows stay.
LEMMA CommitRequest ==
  ASSUME NEW s \in Sessions, Known, SerialInv, CommitStart(s) \/ CommitNext(s) \/ CommitEnd(s)
  PROVE  /\ \A r \in Requests \ {session[s].request} : request'[r] = request[r]
         /\ ~CommitEnd(s) =>
               /\ request'[session[s].request].status = "IN_PROGRESS"
               /\ request'[session[s].request].current_step_id = session[s].next
         /\ CommitEnd(s) => request'[session[s].request].status = "COMPLETED"
         /\ request'[session[s].request].data \in Data
<1> DEFINE me == session[s]
<1>1. request \in [Requests -> RequestRow] /\ me.request \in Requests
  BY CommitKnows, TableTypes DEF Known
<1>2. CASE CommitStart(s)
  <2>1. ~CommitEnd(s) /\ me.data \in Data
    BY <1>2, CommitKnows DEF CommitStart, CommitEnd
  <2> QED
    BY <1>1, <1>2, <2>1 DEF CommitStart
<1>3. ASSUME ~CommitStart(s)
      PROVE  /\ request[me.request].status = "IN_PROGRESS"
             /\ request[me.request].current_step_id = me.current_step_id
             /\ request[me.request].data \in Data
  <2>1. /\ request[me.request].status = "IN_PROGRESS"
        /\ request[me.request].current_step_id = me.current_step_id
    BY <1>3, CommitKnows
  <2> QED
    BY <1>1, <2>1, StatusNotNone DEF SerialInv, DataStored
<1>4. CASE CommitNext(s)
  <2>1. ~CommitEnd(s) /\ ~CommitStart(s)
    BY <1>4 DEF CommitStart, CommitNext, CommitEnd
  <2>2. request' = [request EXCEPT ![me.request].current_step_id =
                       IF me.next # me.current_step_id THEN me.next ELSE @]
    BY <1>4 DEF CommitNext, MovedRequest
  <2> HIDE DEF me
  <2> QED
    BY <1>1, <1>3, <2>1, <2>2 DEF RequestRow, me
<1>5. CASE CommitEnd(s)
  <2>1. ~CommitStart(s)
    BY <1>5 DEF CommitStart, CommitEnd
  <2> QED
    BY <1>1, <1>3, <1>5, <2>1 DEF CommitEnd, RequestRow
<1> QED
  BY <1>2, <1>4, <1>5

\* The open executions after a commit: those of other requests, and the one
\* the handler opens.
LEMMA CommitOpenRows ==
  ASSUME NEW s \in Sessions, Known, SerialInv, CommitStart(s) \/ CommitNext(s) \/ CommitEnd(s),
         NEW e \in 1 .. Len(request_steps'), ~request_steps'[e].completed
  PROVE  \/ /\ e \in 1 .. Len(request_steps)
            /\ request_steps'[e] = request_steps[e]
            /\ request_steps[e].request \in Requests \ {session[s].request}
         \/ /\ e = Len(request_steps) + 1 /\ ~CommitEnd(s)
            /\ request_steps'[e] = PendingExecution(session[s].request, session[s].next)
<1> DEFINE n == Len(request_steps)
           q == session[s].request
<1>1. n \in Nat /\ BaseInv /\ RowsSound
  BY TableTypes DEF Known
<1>2. /\ Len(request_steps') \in {n, n + 1}
      /\ CommitEnd(s) => Len(request_steps') = n
      /\ ~CommitEnd(s) => request_steps'[n + 1] = PendingExecution(q, session[s].next)
  BY <1>1, RowsKept
<1>3. CASE e \notin 1 .. n
  <2>1. e = n + 1 /\ ~CommitEnd(s)
    BY <1>1, <1>2, <1>3
  <2> QED
    BY <1>2, <2>1
<1>4. CASE e \in 1 .. n
  <2>1. request_steps[e].request \in Requests /\ request[request_steps[e].request].status # None
    BY <1>1, <1>4, RowFacts DEF RowSound
  <2>2. CASE CommitStart(s)
    <3>1. request_steps'[e] = request_steps[e]
      BY <1>1, <1>4, <2>2, RowsKept
    <3>2. request[q].status = None
      BY <2>2, CommitKnows
    <3> QED
      BY <1>4, <2>1, <3>1, <3>2
  <2>3. CASE CommitNext(s) \/ CommitEnd(s)
    <3>1. /\ session[s].pc = "commit" /\ session[s].outcome \in StepStatus
          /\ ~CommitStart(s)
      BY <2>3 DEF CommitNext, CommitEnd, CommitStart
    <3>2. /\ session[s].exec \in 1 .. n /\ ~request_steps[session[s].exec].completed
          /\ request_steps[session[s].exec].request = q
      BY <3>1, CommitKnows
    <3>3. request_steps'[session[s].exec].completed
      <4>1. /\ ClosedSteps(session[s]) \in Seq(ExecutionRow)
            /\ Len(ClosedSteps(session[s])) = n
            /\ ClosedSteps(session[s])[session[s].exec].completed
        BY <1>1, <3>1, ClosedStepsType
      <4>2. \/ request_steps' = ClosedSteps(session[s])
            \/ request_steps' = Append(ClosedSteps(session[s]),
                                       PendingExecution(q, session[s].next))
        BY <2>3 DEF CommitNext, CommitEnd
      <4> QED
        BY <3>2, <4>1, <4>2
    <3>4. e # session[s].exec
      BY <3>3
    <3>5. request_steps'[e] = request_steps[e]
      BY <1>1, <1>4, <3>4, RowsKept
    <3>6. request_steps[e].request # q
      BY <1>4, <3>2, <3>4, <3>5 DEF SerialInv, OneOpen
    <3> QED
      BY <1>4, <2>1, <3>5, <3>6
  <2> QED
    BY <2>2, <2>3
<1> QED
  BY <1>3, <1>4

\* Whoever else is in flight works on another request, and a commit does not
\* touch what it loaded.
LEMMA CommitOthers ==
  ASSUME NEW s \in Sessions, Known, SerialInv, CommitStart(s) \/ CommitNext(s) \/ CommitEnd(s)
  PROVE  Alone' /\ AllUpToDate'
<1>1. session'[s] = Idle /\ \A t \in Sessions \ {s} : session'[t] = session[t]
  BY DEF Known, BaseInv, TypeOK, Return, CommitStart, CommitNext, CommitEnd
<1>2. ~InFlight(s)' /\ UpToDate(s)'
  BY <1>1 DEF InFlight, UpToDate, Idle
<1>3. Alone'
  BY <1>1, <1>2 DEF SerialInv, Alone, InFlight
<1>4. ASSUME NEW t \in Sessions \ {s} PROVE UpToDate(t)'
  <2>1. UpToDate(t) /\ session'[t] = session[t] /\ HandlerConsistent(t) /\ BaseInv
    BY <1>1 DEF SerialInv, AllUpToDate, Known, BaseInv, HandlersConsistent
  <2>2. CASE InFlight(t)
    <3>1. session[t].request \in Requests /\ request[session[t].request].status # None
      BY <2>1, <2>2 DEF InFlight, HandlerConsistent
    <3>2. session[t].request # session[s].request
      <4>1. CASE CommitStart(s)
        BY <3>1, <4>1, CommitKnows
      <4>2. CASE ~CommitStart(s)
        BY <2>2, <4>2, CommitKnows DEF SerialInv, Alone
      <4> QED
        BY <4>1, <4>2
    <3>3. request'[session[t].request] = request[session[t].request]
      BY <3>1, <3>2, CommitRequest
    <3>4. session[t].pc = "commit" => request_steps'[session[t].exec] = request_steps[session[t].exec]
      <4> SUFFICES ASSUME session[t].pc = "commit"
                   PROVE  request_steps'[session[t].exec] = request_steps[session[t].exec]
        OBVIOUS
      <4>1. /\ session[t].exec \in 1 .. Len(request_steps)
            /\ request_steps[session[t].exec].request = session[t].request
        BY <2>1, CommitFacts
      <4>2. ~CommitStart(s) => request_steps[session[s].exec].request = session[s].request
        BY CommitKnows
      <4> QED
        BY <2>1, <3>2, <4>1, <4>2, RowsKept
    <3> QED
      BY <2>1, <2>2, <3>3, <3>4 DEF UpToDate, InFlight
  <2>3. CASE ~InFlight(t)
    BY <2>1, <2>3 DEF UpToDate, InFlight
  <2> QED
    BY <2>2, <2>3
<1> QED
  BY <1>2, <1>3, <1>4 DEF AllUpToDate

\* A commit closes the one open execution of its request before it opens the
\* next one, and moves current_step_id with it.
LEMMA CommitSerial ==
  ASSUME NEW s \in Sessions, Known, SerialInv, CommitStart(s) \/ CommitNext(s) \/ CommitEnd(s)
  PROVE  SerialInv'
<1> DEFINE n == Len(request_steps)
           q == session[s].request
           Old(e) == /\ e \in 1 .. n /\ request_steps'[e] = request_steps[e]
                     /\ request_steps[e].request \in Requests \ {q}
           New(e) == /\ e = n + 1 /\ ~CommitEnd(s)
                     /\ request_steps'[e] = PendingExecution(q, session[s].next)
<1>1. ASSUME NEW e \in 1 .. Len(request_steps'), ~request_steps'[e].completed
      PROVE  Old(e) \/ New(e)
  BY <1>1, CommitOpenRows
<1>2. OpenRowsBlank'
  <2> SUFFICES ASSUME NEW e \in 1 .. Len(request_steps'), ~request_steps'[e].completed
               PROVE  request_steps'[e].status = "PENDING" /\ request_steps'[e].assigned_to = None
    BY DEF OpenRowsBlank, Blank
  <2>1. CASE Old(e)
    BY <2>1 DEF SerialInv, OpenRowsBlank, Blank
  <2>2. CASE New(e)
    BY <2>2 DEF PendingExecution
  <2> QED
    BY <1>1, <2>1, <2>2
<1>3. OpenAtCurrent'
  <2> SUFFICES ASSUME NEW e \in 1 .. Len(request_steps'), ~request_steps'[e].completed
               PROVE  /\ request'[request_steps'[e].request].status = "IN_PROGRESS"
                      /\ request'[request_steps'[e].request].current_step_id
                            = request_steps'[e].step
    BY DEF OpenAtCurrent, AtCurrent
  <2>1. CASE Old(e)
    <3>1. request'[request_steps[e].request] = request[request_steps[e].request]
      BY <2>1, CommitRequest
    <3> QED
      BY <2>1, <3>1 DEF SerialInv, OpenAtCurrent, AtCurrent
  <2>2. CASE New(e)
    BY <2>2, CommitRequest DEF PendingExecution
  <2> QED
    BY <1>1, <2>1, <2>2
<1>4. OneOpen(request_steps)'
  <2> SUFFICES ASSUME NEW e \in 1 .. Len(request_steps'), NEW f \in 1 .. Len(request_steps'),
                      ~request_steps'[e].completed, ~request_steps'[f].completed,
                      request_steps'[e].request = request_steps'[f].request
               PROVE  e = f
    BY DEF OneOpen
  <2>1. (Old(e) \/ New(e)) /\ (Old(f) \/ New(f))
    BY <1>1
  <2>2. CASE Old(e) /\ Old(f)
    BY <2>2 DEF SerialInv, OneOpen
  <2>3. CASE New(e) /\ New(f)
    BY <2>3
  <2>4. CASE (Old(e) /\ New(f)) \/ (New(e) /\ Old(f))
    BY <2>4 DEF PendingExecution
  <2> QED
    BY <2>1, <2>2, <2>3, <2>4
<1>5. DataStored'
  <2>1. request'[q].data \in Data /\ \A r \in Requests \ {q} : request'[r] = request[r]
    BY CommitRequest
  <2> QED
    BY <2>1 DEF SerialInv, DataStored
<1> QED
  BY <1>2, <1>3, <1>4, <1>5, CommitOthers DEF SerialInv

-----------------------------------------------------------------------------
\* The invariant.

LEMMA SerialInit == Init => SerialInv
<1> SUFFICES ASSUME Init PROVE SerialInv
  OBVIOUS
<1>1. \A s \in Sessions : session[s] = Idle
  BY DEF Init
<1>2. Alone /\ AllUpToDate
  BY <1>1 DEF Alone, AllUpToDate, UpToDate, InFlight, Idle
<1>3. Len(request_steps) = 0
  BY DEF Init
<1>4. OpenRowsBlank /\ OpenAtCurrent /\ OneOpen(request_steps)
  BY <1>3 DEF OpenRowsBlank, OpenAtCurrent, OneOpen
<1>5. DataStored
  BY DEF Init, DataStored, NoRequest
<1> QED
  BY <1>2, <1>4, <1>5 DEF SerialInv

\* What a step of SerialNext is: a step of the engine, with the commits told
\* apart from the steps that leave the tables alone.
LEMMA SerialCases ==
  ASSUME [SerialNext]_vars
  PROVE  /\ [Next]_vars
         /\ \/ UNCHANGED tables
            \/ \E s \in Sessions : CommitStart(s) \/ CommitNext(s) \/ CommitEnd(s)
<1>1. [Next]_vars
  BY DEF SerialNext, Next, LoadAlone
<1> QED
  BY <1>1, NextCases

LEMMA SerialNextInv ==
  ASSUME Known, SerialInv, [SerialNext]_vars
  PROVE  SerialInv'
<1>1. CASE UNCHANGED vars
  BY <1>1 DEF vars, tables, SerialInv, Alone, AllUpToDate, UpToDate, InFlight, OpenRowsBlank,
              DataStored, OpenAtCurrent, OneOpen, AtCurrent
<1>2. ASSUME NEW s \in Sessions, Handle(s) PROVE SerialInv'
  <2>1. ASSUME NEW r \in Requests, NEW st \in Steps, StartWorkflow(s, r, st) PROVE SerialInv'
    BY <2>1, StartSerial
  <2>2. CASE StartFails(s)
    BY <2>2, ReturnSerial DEF StartFails
  <2>3. CASE RequestNotFound(s)
    BY <2>3, ReturnSerial DEF RequestNotFound
  <2>4. ASSUME NEW e \in 1 .. Len(request_steps), NEW st \in Steps, DecideNext(s, e, st)
        PROVE  SerialInv'
    BY <2>4, DecideSerial
  <2>5. ASSUME NEW e \in 1 .. Len(request_steps), DecideEnd(s, e) PROVE SerialInv'
    BY <2>5, DecideSerial
  <2>6. CASE DecisionRefused(s)
    BY <2>6, ReturnSerial DEF DecisionRefused
  <2>7. CASE CommitStart(s) \/ CommitNext(s) \/ CommitEnd(s)
    BY <2>7, CommitSerial
  <2>8. CASE FlushFails(s)
    BY <2>8, ReturnSerial DEF FlushFails
  <2> QED
    BY <1>2, <2>1, <2>2, <2>3, <2>4, <2>5, <2>6, <2>7, <2>8 DEF Handle
<1>3. ASSUME NEW s \in Sessions, Abort(s) PROVE SerialInv'
  BY <1>3, ReturnSerial DEF Abort
<1> QED
  BY <1>1, <1>2, <1>3, ReceiveSerial, LoadSerial DEF SerialNext

\* What is known of every interleaving is known of these.
LEMMA SerialSafety == SerialSpec => Spec /\ [](Known /\ SerialInv)
<1>1. [SerialNext]_vars => [Next]_vars
  BY SerialCases
<1>2. Init => BaseInv /\ RowsSound
  BY BaseInit DEF Init, RowsSound
<1>3. BaseInv /\ RowsSound /\ [Next]_vars => BaseInv' /\ RowsSound'
  <2> SUFFICES ASSUME BaseInv, RowsSound, [Next]_vars PROVE RowsSound'
    BY BaseNext
  <2>1. CASE UNCHANGED tables
    BY <2>1 DEF tables, RowsSound
  <2> QED
    BY <2>1, NextCases, CommitStartSound, CommitNextSound, CommitEndSound
<1>4. SerialSpec => Spec
  BY <1>1, PTL DEF SerialSpec, Spec
<1>5. Spec => [](BaseInv /\ RowsSound)
  BY <1>2, <1>3, PTL DEF Spec
<1>6. SerialSpec => []Known
  <2>1. BaseInv /\ RowsSound /\ HistoryAccountsForStatus => Known
    BY DEF Known
  <2> QED
    BY <1>4, <1>5, <2>1, HistoryExplainsStatus, PTL
<1>7. Known /\ SerialInv /\ [SerialNext]_vars => SerialInv'
  BY SerialNextInv
<1> QED
  BY <1>4, <1>6, <1>7, SerialInit, PTL DEF SerialSpec

-----------------------------------------------------------------------------
\* What the discipline buys.

\* With one handler at a time on a request (as if the first query of
\* process_step locked its row), an active request has exactly one open
\* execution, at its current step, and a request that is not active has none.
THEOREM SerialOnePendingStep == SerialSpec => []OnePendingStep
<1>1. Known /\ SerialInv => OnePendingStep
  BY DEF SerialInv, OpenAtCurrent, AtCurrent, OneOpen, OnePendingStep
<1> QED
  BY <1>1, SerialSafety, PTL

\* With one handler at a time on a request, nobody writes to an execution that
\* is already decided (process_step selects the pending execution long before
\* it writes to it).
THEOREM SerialDecisionFinal == SerialSpec => DecisionFinal
<1> DEFINE Final == \A e \in 1 .. Len(request_steps) :
              request_steps[e].completed => request_steps'[e] = request_steps[e]
<1>1. ASSUME Known, SerialInv, [SerialNext]_vars PROVE Final
  <2>1. CASE UNCHANGED tables
    BY <2>1 DEF tables
  <2>2. ASSUME NEW s \in Sessions, CommitStart(s) \/ CommitNext(s) \/ CommitEnd(s)
        PROVE  Final
    <3>1. ~CommitStart(s) => ~request_steps[session[s].exec].completed
      BY <1>1, <2>2, CommitKnows
    <3>2. BaseInv
      BY <1>1 DEF Known
    <3>3. \A e \in 1 .. Len(request_steps) :
             e # session[s].exec \/ CommitStart(s) => request_steps'[e] = request_steps[e]
      BY <2>2, <3>2, RowsKept
    <3> QED
      BY <3>1, <3>3
  <2> QED
    BY <1>1, <2>1, <2>2, SerialCases
<1>2. Known /\ SerialInv /\ [SerialNext]_vars => [Final]_vars
  BY <1>1
<1> QED
  BY <1>2, SerialSafety, PTL DEF SerialSpec, DecisionFinal

\* The history of one request.
PathOf(h) == \A i \in 1 .. Len(h) - 1 : h[i].to = h[i + 1].from

\* With one handler at a time on a request, each row of its history starts
\* where the one before it ended: _finalize records the status the handler
\* loaded as the origin of its first hop, and it is still the stored one.
THEOREM SerialHistoryIsPath == SerialSpec => []HistoryIsPath
<1>1. Init => HistoryIsPath
  BY DEF Init, HistoryIsPath
<1>2. ASSUME Known, SerialInv, HistoryIsPath, [SerialNext]_vars PROVE HistoryIsPath'
  <2> SUFFICES ASSUME NEW r \in Requests PROVE PathOf(history'[r])
    BY DEF HistoryIsPath, PathOf
  <2>1. /\ PathOf(history[r]) /\ history \in [Requests -> Seq(HistoryRow)]
        /\ HistoryOf(r)
    BY <1>2 DEF HistoryIsPath, PathOf, Known, BaseInv, TypeOK, HistoryAccountsForStatus, HistoryOf
  <2>2. CASE history'[r] = history[r]
    BY <2>1, <2>2
  <2>3. ASSUME NEW s \in Sessions, CommitStart(s), r = session[s].request
        PROVE  PathOf(history'[r])
    <3>1. history[r] = <<>>
      BY <1>2, <2>1, <2>3, CommitKnows DEF HistoryOf
    <3>2. history'[r] = <<[from |-> "CREATED", to |-> "IN_PROGRESS", by |-> session[s].user]>>
      BY <2>1, <2>3, <3>1 DEF CommitStart
    <3>3. Len(history'[r]) = 1
      BY <3>2
    <3> QED
      BY <3>3 DEF PathOf
  <2>4. ASSUME NEW s \in Sessions, CommitEnd(s), r = session[s].request
        PROVE  PathOf(history'[r])
    <3> DEFINE me == session[s]
               target == FinalStatus(me.outcome)
               a == Hop(me, me.status, target)
               b == Hop(me, target, "COMPLETED")
               h == history[r]
    <3>1. ~CommitStart(s)
      BY <2>4 DEF CommitStart, CommitEnd
    <3>2. /\ me.status = "IN_PROGRESS" /\ request[r].status = "IN_PROGRESS" /\ me.user \in Users
      BY <1>2, <2>4, <3>1, CommitKnows
    <3>3. /\ h \in Seq(HistoryRow) /\ Len(h) \in Nat \ {0}
          /\ h[Len(h)].to = "IN_PROGRESS"
      BY <2>1, <3>2, StatusNotNone DEF HistoryOf
    <3>4. history'[r] = h \o <<a, b>>
      BY <2>1, <2>4 DEF CommitEnd, FinalHops
    <3>5. a.from = "IN_PROGRESS" /\ a.to = b.from /\ a \in HistoryRow /\ b \in HistoryRow
      BY <3>2 DEF Hop, HistoryRow, RequestStatus, FinalStatus
    <3>6. PathOf(h)
      BY <2>1
    <3> HIDE DEF a, b, h
    <3>7. /\ Len(h \o <<a, b>>) = Len(h) + 2
          /\ \A i \in 1 .. Len(h) : (h \o <<a, b>>)[i] = h[i]
          /\ (h \o <<a, b>>)[Len(h) + 1] = a /\ (h \o <<a, b>>)[Len(h) + 2] = b
      BY <3>3, <3>5
    <3> DEFINE g == h \o <<a, b>>
    <3>8. ASSUME NEW i \in 1 .. Len(g) - 1 PROVE g[i].to = g[i + 1].from
      <4> HIDE DEF g
      <4>1. i \in 1 .. Len(h) - 1 \/ i = Len(h) \/ i = Len(h) + 1
        BY <3>3, <3>7 DEF g
      <4>2. CASE i \in 1 .. Len(h) - 1
        <5>1. i \in 1 .. Len(h) /\ i + 1 \in 1 .. Len(h)
          BY <3>3, <4>2
        <5>2. h[i].to = h[i + 1].from
          BY <3>6, <4>2 DEF PathOf
        <5> QED
          BY <3>7, <5>1, <5>2 DEF g
      <4>3. CASE i = Len(h)
        <5>1. Len(h) \in 1 .. Len(h)
          BY <3>3
        <5> QED
          BY <3>3, <3>5, <3>7, <4>3, <5>1 DEF g
      <4>4. CASE i = Len(h) + 1
        <5>1. i + 1 = Len(h) + 2
          BY <3>3, <4>4
        <5> QED
          BY <3>5, <3>7, <4>4, <5>1 DEF g
      <4> QED
        BY <4>1, <4>2, <4>3, <4>4
    <3> HIDE DEF g
    <3>9. history'[r] = g
      BY <3>4 DEF g
    <3> QED
      BY <3>8, <3>9 DEF PathOf
  <2>5. ASSUME NEW s \in Sessions, CommitStart(s) \/ CommitNext(s) \/ CommitEnd(s),
               history'[r] # history[r]
        PROVE  r = session[s].request /\ (CommitStart(s) \/ CommitEnd(s))
    BY <2>1, <2>5 DEF CommitStart, CommitNext, CommitEnd
  <2> QED
    BY <1>2, <2>2, <2>3, <2>4, <2>5, SerialCases DEF tables
<1> QED
  BY <1>1, <1>2, SerialSafety, PTL DEF SerialSpec

-----------------------------------------------------------------------------
\* What remains of a decision: no task, and its row in the audit log.

\* With one handler at a time on a request, a COMPLETED request leaves nobody
\* a task: the decision that finalizes it closes its one open execution
\* (_finalize does not look for others).
THEOREM SerialCompletedHasNoTask == SerialSpec => []CompletedHasNoTask
<1>1. Known /\ SerialInv => CompletedHasNoTask
  BY DEF SerialInv, OpenAtCurrent, AtCurrent, CompletedHasNoTask
<1> QED
  BY <1>1, SerialSafety, PTL

\* A row of the audit log says of an execution what its row says, and the row
\* is closed: nobody will write to it again.
Told(a, rows) ==
    a.action = "STEP_COMPLETED" =>
        /\ a.exec \in 1 .. Len(rows) /\ rows[a.exec].completed
        /\ rows[a.exec].assigned_to = a.actor /\ rows[a.exec].status = a.outcome

DecisionsTold ==
    \A r \in Requests : \A i \in 1 .. Len(audit_logs[r]) : Told(audit_logs[r][i], request_steps)

\* What a commit writes to the audit log: the row of the decision is the only
\* new one about an execution.
LEMMA NewLogRows ==
  ASSUME NEW s \in Sessions, BaseInv, CommitStart(s) \/ CommitNext(s) \/ CommitEnd(s),
         NEW r \in Requests, NEW i \in 1 .. Len(audit_logs'[r])
  PROVE  \/ i \in 1 .. Len(audit_logs[r]) /\ audit_logs'[r][i] = audit_logs[r][i]
         \/ audit_logs'[r][i].action # "STEP_COMPLETED"
         \/ ~CommitStart(s) /\ audit_logs'[r][i] = StepCompletedRow(session[s])
<1> DEFINE me == session[s]
           log == audit_logs[r]
           longer == audit_logs'[r]
<1>1. /\ audit_logs \in [Requests -> Seq(AuditRow)] /\ log \in Seq(AuditRow)
      /\ Len(log) \in Nat
  BY DEF BaseInv, TypeOK
<1>2. CASE r # me.request
  BY <1>2, LogsExtended
<1>3. CASE r = me.request /\ CommitStart(s)
  <2> DEFINE row == [action |-> "WORKFLOW_STARTED", actor |-> me.user,
                     exec |-> 0, outcome |-> None]
  <2>1. longer = Append(log, row)
    BY <1>1, <1>3 DEF CommitStart
  <2>2. row.action # "STEP_COMPLETED"
    OBVIOUS
  <2> HIDE DEF log, longer, row
  <2>3. (i \in 1 .. Len(log) /\ longer[i] = log[i]) \/ longer[i] = row
    BY <1>1, <2>1 DEF longer
  <2> QED
    BY <2>2, <2>3 DEF log, longer
<1>4. CASE r = me.request /\ CommitNext(s)
  <2> DEFINE row == StepCompletedRow(me)
  <2>1. longer = Append(log, row) /\ ~CommitStart(s)
    BY <1>1, <1>4 DEF CommitStart, CommitNext
  <2> HIDE DEF log, longer, row
  <2>2. (i \in 1 .. Len(log) /\ longer[i] = log[i]) \/ longer[i] = row
    BY <1>1, <2>1 DEF longer
  <2> QED
    BY <2>1, <2>2 DEF log, longer, row
<1>5. CASE r = me.request /\ CommitEnd(s)
  <2> DEFINE a == CompletedRow(me)
             b == StepCompletedRow(me)
  <2>1. longer = log \o <<a, b>> /\ ~CommitStart(s) /\ me.pc = "commit"
    BY <1>1, <1>5 DEF CommitStart, CommitEnd, FinalRows
  <2>2. a.action # "STEP_COMPLETED"
    BY DEF CompletedRow
  <2> HIDE DEF log, longer, a, b
  <2>3. /\ Len(log \o <<a, b>>) = Len(log) + 2
        /\ \A j \in 1 .. Len(log) : (log \o <<a, b>>)[j] = log[j]
        /\ (log \o <<a, b>>)[Len(log) + 1] = a /\ (log \o <<a, b>>)[Len(log) + 2] = b
    BY <1>1
  <2>4. (i \in 1 .. Len(log) /\ longer[i] = log[i]) \/ longer[i] = a \/ longer[i] = b
    <3>1. i \in 1 .. Len(log) + 2
      BY <2>1, <2>3 DEF longer
    <3>2. i \in 1 .. Len(log) \/ i = Len(log) + 1 \/ i = Len(log) + 2
      BY <1>1, <3>1
    <3> QED
      BY <2>1, <2>3, <3>2
  <2> QED
    BY <2>1, <2>2, <2>4 DEF log, longer, b
<1> QED
  BY <1>2, <1>3, <1>4, <1>5

\* A commit closes an execution nobody has decided, so no row of the audit log
\* is about it yet, and the new one tells what is written.
LEMMA CommitTold ==
  ASSUME NEW s \in Sessions, Known, SerialInv, DecisionsTold,
         CommitStart(s) \/ CommitNext(s) \/ CommitEnd(s)
  PROVE  DecisionsTold'
<1> DEFINE me == session[s]
           n == Len(request_steps)
<1>1. BaseInv /\ n \in Nat /\ request_steps \in Seq(ExecutionRow)
  BY TableTypes DEF Known
<1>2. Len(request_steps') \in {n, n + 1}
  BY <1>1, RowsKept
<1>3. ASSUME NEW e \in 1 .. n, request_steps[e].completed
      PROVE  e \in 1 .. Len(request_steps') /\ request_steps'[e] = request_steps[e]
  <2>1. e # me.exec \/ CommitStart(s)
    BY <1>3, CommitKnows
  <2> QED
    BY <1>1, <1>2, <2>1, RowsKept
<1>4. ASSUME ~CommitStart(s) PROVE Told(StepCompletedRow(me), request_steps')
  <2>1. /\ me.pc = "commit" /\ me.outcome \in StepStatus /\ me.exec \in 1 .. n
        /\ request_steps[me.exec].status = "PENDING"
    BY <1>4, CommitKnows
  <2>2. /\ ClosedSteps(me) \in Seq(ExecutionRow) /\ Len(ClosedSteps(me)) = n
        /\ ClosedSteps(me)[me.exec].completed
        /\ ClosedSteps(me)[me.exec].assigned_to = me.user
    BY <1>1, <2>1, ClosedStepsType
  <2>3. ClosedSteps(me)[me.exec].status = me.outcome
    <3>1. request_steps[me.exec] \in ExecutionRow
      BY <1>1, <2>1
    <3> QED
      BY <1>1, <2>1, <3>1 DEF ClosedSteps, ExecutionRow
  <2>4. \/ request_steps' = ClosedSteps(me)
        \/ request_steps' = Append(ClosedSteps(me), PendingExecution(me.request, me.next))
    BY <1>4 DEF CommitNext, CommitEnd
  <2> DEFINE rows == ClosedSteps(me)
  <2> HIDE DEF rows
  <2>5. me.exec \in 1 .. Len(request_steps') /\ request_steps'[me.exec] = rows[me.exec]
    BY <1>1, <2>1, <2>2, <2>4 DEF rows
  <2> QED
    BY <2>2, <2>3, <2>5 DEF Told, StepCompletedRow, rows
<1> SUFFICES ASSUME NEW r \in Requests, NEW i \in 1 .. Len(audit_logs'[r])
             PROVE  Told(audit_logs'[r][i], request_steps')
  BY DEF DecisionsTold
<1>5. CASE i \in 1 .. Len(audit_logs[r]) /\ audit_logs'[r][i] = audit_logs[r][i]
  <2>1. Told(audit_logs[r][i], request_steps)
    BY <1>5 DEF DecisionsTold
  <2> QED
    BY <1>3, <1>5, <2>1 DEF Told
<1>6. CASE audit_logs'[r][i].action # "STEP_COMPLETED"
  BY <1>6 DEF Told
<1>7. CASE ~CommitStart(s) /\ audit_logs'[r][i] = StepCompletedRow(me)
  BY <1>4, <1>7
<1> QED
  BY <1>1, <1>5, <1>6, <1>7, NewLogRows

\* With one handler at a time on a request, no decision is lost: what the audit
\* log says of who closed an execution and how is what its row says.  Without
\* that discipline a second handler overwrites the row and both rows of the log
\* stay.
THEOREM SerialDecisionsKept == SerialSpec => []DecisionsKept
<1>1. Init => DecisionsTold
  BY DEF Init, DecisionsTold
<1>2. (Known /\ SerialInv) /\ DecisionsTold /\ [SerialNext]_vars => DecisionsTold'
  <2> SUFFICES ASSUME Known, SerialInv, DecisionsTold, [SerialNext]_vars
               PROVE  DecisionsTold'
    OBVIOUS
  <2>1. CASE UNCHANGED tables
    BY <2>1 DEF tables, DecisionsTold
  <2> QED
    BY <2>1, SerialCases, CommitTold
<1>3. DecisionsTold => DecisionsKept
  BY DEF DecisionsTold, Told, DecisionsKept
<1> QED
  BY <1>1, <1>2, <1>3, SerialSafety, PTL DEF SerialSpec
-----------------------------------------------------------------------------
\* The engine implements Lifecycle.

Phases == [r \in Requests |-> PhaseOf(request[r].status)]

LEMMA PhaseValues ==
  /\ PhaseOf(None) = "absent" /\ PhaseOf("IN_PROGRESS") = "active"
  /\ PhaseOf("COMPLETED") = "done"
BY StatusNotNone DEF PhaseOf

\* How a step changes the phases: the request a commit writes, and no other.
LEMMA PhasesChange ==
  ASSUME NEW q \in Requests, \A r \in Requests \ {q} : request'[r] = request[r]
  PROVE  Phases' = [Phases EXCEPT ![q] = PhaseOf(request'[q].status)]
<1>1. Phases' = [r \in Requests |-> PhaseOf(request'[r].status)]
  BY DEF Phases, PhaseOf
<1>2. \A r \in Requests \ {q} : PhaseOf(request'[r].status) = PhaseOf(request[r].status)
  OBVIOUS
<1> QED
  BY <1>1, <1>2 DEF Phases

\* The row a decision closes, as Lifecycle closes its ticket: an outcome
\* PENDING leaves the status PENDING.
LEMMA ClosedIsClosedTicket ==
  ASSUME NEW s \in Sessions, Known, SerialInv, CommitNext(s) \/ CommitEnd(s)
  PROVE  ClosedSteps(session[s]) =
            [request_steps EXCEPT ![session[s].exec] =
               L!ClosedTicket(@, session[s].user, session[s].outcome)]
<1> DEFINE me == session[s]
           row == request_steps[me.exec]
<1>1. ~CommitStart(s)
  BY DEF CommitStart, CommitNext, CommitEnd
<1>2. /\ me.exec \in 1 .. Len(request_steps) /\ row.status = "PENDING"
      /\ request_steps \in Seq(ExecutionRow)
  BY <1>1, CommitKnows, TableTypes DEF Known
<1>3. row \in ExecutionRow
  BY <1>2
<1>4. ClosedSteps(me) = [request_steps EXCEPT ![me.exec] =
             [row EXCEPT !.assigned_to = me.user,
                !.status = IF me.outcome = "PENDING" THEN @ ELSE me.outcome,
                !.completed = TRUE]]
  BY <1>2, <1>3 DEF ClosedSteps, ExecutionRow
<1>5. [row EXCEPT !.assigned_to = me.user,
                  !.status = IF me.outcome = "PENDING" THEN @ ELSE me.outcome,
                  !.completed = TRUE]
        = [row EXCEPT !.status = me.outcome, !.assigned_to = me.user, !.completed = TRUE]
  <2> HIDE DEF row
  <2> QED
    BY <1>2, <1>3 DEF ExecutionRow, row
<1> HIDE DEF row
<1>6. [request_steps EXCEPT ![me.exec] = L!ClosedTicket(@, me.user, me.outcome)]
        = [request_steps EXCEPT ![me.exec] = L!ClosedTicket(row, me.user, me.outcome)]
  BY DEF row
<1> QED
  BY <1>4, <1>5, <1>6 DEF L!ClosedTicket

LEMMA StartIsOpen ==
  ASSUME NEW s \in Sessions, Known, SerialInv, CommitStart(s)
  PROVE  L!Next
<1> DEFINE me == session[s]
<1>1. /\ me.request \in Requests /\ request[me.request].status = None
      /\ me.next \in FirstSteps(me.workflow) /\ me.workflow \in ActiveWorkflows
  BY CommitKnows
<1>2. me.next \in EntrySteps
  BY <1>1 DEF EntrySteps
<1>3. Phases' = [Phases EXCEPT ![me.request] = "active"]
  <2>1. request'[me.request].status = "IN_PROGRESS" /\ ~CommitEnd(s)
    BY CommitRequest DEF CommitStart, CommitEnd
  <2> QED
    BY <1>1, <2>1, CommitRequest, PhasesChange, PhaseValues
<1>4. Phases[me.request] = "absent"
  BY <1>1, PhaseValues DEF Phases
<1>5. request_steps' = Append(request_steps, L!OpenTicket(me.request, me.next))
  BY DEF CommitStart, PendingExecution, L!OpenTicket
<1>6. L!Open(me.request, me.next)
  BY <1>3, <1>4, <1>5 DEF L!Open, Phases
<1> QED
  BY <1>1, <1>2, <1>6 DEF L!Next

LEMMA DecisionIsAdvance ==
  ASSUME NEW s \in Sessions, Known, SerialInv, CommitNext(s)
  PROVE  L!Next
<1> DEFINE me == session[s]
           row == request_steps[me.exec]
<1>1. ~CommitStart(s) /\ ~CommitEnd(s) /\ me.next # None
  BY DEF CommitStart, CommitNext, CommitEnd
<1>2. /\ me.request \in Requests /\ me.user \in Users /\ me.outcome \in StepStatus
      /\ me.exec \in 1 .. Len(request_steps) /\ row.request = me.request
      /\ row.step = me.current_step_id /\ ~row.completed /\ me.pc = "commit"
      /\ request[me.request].status = "IN_PROGRESS"
      /\ \E ctx \in EvalContext : me.next \in ResolveNext(me.current_step_id, me.outcome, ctx)
  BY <1>1, CommitKnows
<1>3. me.current_step_id \in Steps /\ me.next \in Steps
  <2>1. row \in ExecutionRow
    BY <1>2, TableTypes DEF Known
  <2>2. row.step \in Steps
    BY <2>1 DEF ExecutionRow
  <2> QED
    BY <1>1, <1>2, <2>2, NextInWorkflow
<1>4. <<me.user, row.step>> \in Cleared
  BY <1>2, <1>3, CommitFacts DEF Known, Cleared
<1>5. <<row.step, me.outcome, me.next>> \in Follows
  BY <1>2, <1>3 DEF Follows
<1>6. Phases' = Phases /\ Phases[row.request] = "active"
  <2>1. request'[me.request].status = "IN_PROGRESS"
    BY <1>1, CommitRequest
  <2>2. Phases' = [Phases EXCEPT ![me.request] = "active"]
    BY <1>2, <2>1, CommitRequest, PhasesChange, PhaseValues
  <2>3. Phases[me.request] = "active"
    BY <1>2, PhaseValues DEF Phases
  <2> QED
    BY <1>2, <2>2, <2>3 DEF Phases
<1>7. request_steps' = Append([request_steps EXCEPT ![me.exec] =
                                  L!ClosedTicket(@, me.user, me.outcome)],
                              L!OpenTicket(row.request, me.next))
  BY <1>2, ClosedIsClosedTicket DEF CommitNext, PendingExecution, L!OpenTicket
<1>8. L!Advance(me.exec, me.user, me.outcome, me.next)
  <2> HIDE DEF me, row
  <2> QED
    BY <1>2, <1>4, <1>5, <1>6, <1>7 DEF L!Advance, Phases, row
<1> QED
  BY <1>2, <1>3, <1>8 DEF L!Next

LEMMA DecisionIsFinish ==
  ASSUME NEW s \in Sessions, Known, SerialInv, CommitEnd(s)
  PROVE  L!Next
<1> DEFINE me == session[s]
           row == request_steps[me.exec]
<1>1. ~CommitStart(s) /\ me.next = None
  BY DEF CommitStart, CommitEnd
<1>2. /\ me.request \in Requests /\ me.user \in Users /\ me.outcome \in StepStatus
      /\ me.exec \in 1 .. Len(request_steps) /\ row.request = me.request
      /\ row.step = me.current_step_id /\ ~row.completed /\ me.pc = "commit"
      /\ request[me.request].status = "IN_PROGRESS"
      /\ \E ctx \in EvalContext : me.next \in ResolveNext(me.current_step_id, me.outcome, ctx)
  BY <1>1, CommitKnows
<1>3. me.current_step_id \in Steps
  <2>1. row \in ExecutionRow
    BY <1>2, TableTypes DEF Known
  <2> QED
    BY <1>2, <2>1 DEF ExecutionRow
<1>4. <<me.user, row.step>> \in Cleared
  BY <1>2, <1>3, CommitFacts DEF Known, Cleared
<1>5. <<row.step, me.outcome, None>> \in Follows
  BY <1>1, <1>2, <1>3 DEF Follows
<1>6. Phases' = [Phases EXCEPT ![row.request] = "done"] /\ Phases[row.request] = "active"
  <2>1. request'[me.request].status = "COMPLETED"
    BY CommitRequest
  <2>2. Phases' = [Phases EXCEPT ![me.request] = "done"]
    BY <1>2, <2>1, CommitRequest, PhasesChange, PhaseValues
  <2> QED
    BY <1>2, <2>2, PhaseValues DEF Phases
<1>7. request_steps' = [request_steps EXCEPT ![me.exec] =
                           L!ClosedTicket(@, me.user, me.outcome)]
  BY ClosedIsClosedTicket DEF CommitEnd
<1>8. L!Finish(me.exec, me.user, me.outcome)
  <2> HIDE DEF me, row
  <2> QED
    BY <1>2, <1>4, <1>5, <1>6, <1>7 DEF L!Finish, Phases, row
<1> QED
  BY <1>2, <1>8 DEF L!Next

\* With one handler at a time on a request, the engine implements Lifecycle:
\* its long handlers (load, select, resolve, notify, write) look, from the
\* database, like atomic decisions on the one open execution of a request.
THEOREM SerialRefinesLifecycle == SerialSpec => ImplementsLifecycle
<1>1. Init => L!Init
  BY PhaseValues DEF Init, L!Init, NoRequest
<1>2. ASSUME Known, SerialInv, [SerialNext]_vars
      PROVE  [L!Next]_<<Phases, request_steps>>
  <2>1. CASE UNCHANGED tables
    BY <2>1 DEF tables, Phases
  <2> QED
    BY <1>2, <2>1, SerialCases, StartIsOpen, DecisionIsAdvance, DecisionIsFinish
<1> QED
  BY <1>1, <1>2, SerialSafety, PTL DEF SerialSpec, ImplementsLifecycle, L!Spec, Phases

=============================================================================
