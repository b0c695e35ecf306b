----------------------------- MODULE SLAMonitor -----------------------------
(***************************************************************************)
(* The SLA monitor (app/services/sla_monitor.py) as the Celery workers run *)
(* it (app/tasks/sla.py): a scan reads the overdue executions, escalates   *)
(* them one by one in one transaction and commits if at least one          *)
(* escalation went through.  Beat queues a scan every 300 seconds and a    *)
(* worker process takes the next one as soon as it is free, so scans may   *)
(* overlap.  API handlers close executions meanwhile.                      *)
(*                                                                         *)
(* A scan's transaction is long: every escalation is flushed on its own,   *)
(* so the rows escalated so far stay locked until the commit.              *)
(***************************************************************************)
EXTENDS Naturals, Sequences, FiniteSets, StateMachine

CONSTANTS
    Scanners,     \* worker processes
    Executions,   \* rows of request_steps
    Deadline,     \* execution |-> deadline
    Outcomes,     \* outcomes process_step closes executions with
    MaxTime,      \* bound: the clock
    MaxFailures,  \* bound: failures of the database, the broker and workers
    NoOne

ASSUME SLAAssumption ==
    /\ Deadline \in [Executions -> Nat]
    /\ Outcomes \subseteq StepStatus
    /\ MaxTime \in Nat /\ MaxFailures \in Nat
    /\ NoOne \notin Scanners
    /\ IsFiniteSet(Executions)

VARIABLES
    now,          \* the clock
    step,         \* execution |-> committed row
    escalations,  \* execution |-> rows of sla_escalations, each committed with
                  \* its SLA_BREACH_DETECTED row in audit_logs
    announced,    \* executions the broker took a send_sla_breach_email message for
    scanner,      \* worker |-> local state of its scan
    lock,         \* execution |-> worker whose open transaction has changed it
    failures      \* failures so far

vars == <<now, step, escalations, announced, scanner, lock, failures>>

\* completed: completed_at IS NOT NULL; ended: when the closing was committed
\* (completed_at is stamped a moment before, inside the transaction), 0 before.
StepRow == [status : StepStatus, completed : BOOLEAN, ended : Nat,
            is_sla_breached : BOOLEAN]

\* overdue: the steps still to visit; staged: those changed in the open
\* transaction; breach_count as in the code.
ScannerState == [scanning : BOOLEAN, overdue : Seq(Executions),
                 staged : SUBSET Executions, breach_count : Nat]

Scanning(q, S, n) ==
    [scanning |-> TRUE, overdue |-> q, staged |-> S, breach_count |-> n]

Resting == [scanning |-> FALSE, overdue |-> <<>>, staged |-> {}, breach_count |-> 0]

Init ==
    /\ now = 0
    /\ step = [e \in Executions |-> [status |-> "PENDING", completed |-> FALSE,
                                     ended |-> 0, is_sla_breached |-> FALSE]]
    /\ escalations = [e \in Executions |-> 0]
    /\ announced = {}
    /\ scanner = [k \in Scanners |-> Resting]
    /\ lock = [e \in Executions |-> NoOne]
    /\ failures = 0

Tick ==
    /\ now < MaxTime
    /\ now' = now + 1
    /\ UNCHANGED <<step, escalations, announced, scanner, lock, failures>>

\* Faulty form: the status of a request is written to the execution.
CloseCompleted(e, o) ==
    /\ ~step[e].completed
    /\ lock[e] = NoOne
    /\ step' = [step EXCEPT ![e] = [@ EXCEPT !.status = "COMPLETED", !.completed = TRUE, !.ended = now]]
    /\ UNCHANGED <<now, escalations, announced, scanner, lock, failures>>

\* process_step commits the closing of an execution; the row must not be
\* locked by a scan.
Close(e, o) ==
    /\ ~step[e].completed
    /\ lock[e] = NoOne
    /\ step' = [step EXCEPT ![e] = [@ EXCEPT !.status = o, !.completed = TRUE, !.ended = now]]
    /\ UNCHANGED <<now, escalations, announced, scanner, lock, failures>>

-----------------------------------------------------------------------------
\* check_all_slas and scan_for_breaches.

\* Faulty forms of the filter: flagged executions are not left out; an
\* execution is late at its deadline; executions nobody began are left out.
OverdueAgain == {e \in Executions : /\ step[e].status \in {"PENDING", "IN_PROGRESS"}
                                    /\ Deadline[e] < now}

OverdueEarly == {e \in Executions : /\ step[e].status \in {"PENDING", "IN_PROGRESS"}
                                    /\ Deadline[e] <= now
                                    /\ ~step[e].is_sla_breached}

OverdueBegun == {e \in Executions : /\ step[e].status = "IN_PROGRESS"
                                    /\ Deadline[e] < now
                                    /\ ~step[e].is_sla_breached}

\* The filter looks at status, not at completed_at.
Overdue == {e \in Executions : /\ step[e].status \in {"PENDING", "IN_PROGRESS"}
                               /\ Deadline[e] < now
                               /\ ~step[e].is_sla_breached}

\* The query has no ORDER BY.
Orders(S) == {q \in [1 .. Cardinality(S) -> S] :
                 \A i, j \in 1 .. Cardinality(S) : q[i] = q[j] => i = j}

StartScan(k) ==
    /\ ~scanner[k].scanning
    /\ Overdue # {}
    /\ \E q \in Orders(Overdue) :
          scanner' = [scanner EXCEPT ![k] = Scanning(q, {}, 0)]
    /\ UNCHANGED <<now, step, escalations, announced, lock, failures>>

Visiting(k, e) == scanner[k].overdue # <<>> /\ e = Head(scanner[k].overdue)

LocksOf(k) == {e \in Executions : lock[e] = k}

\* Faulty form: the session is never closed.
KeepLocks(k) == UNCHANGED lock

Release(k) == lock' = [e \in Executions |-> IF lock[e] = k THEN NoOne ELSE lock[e]]

\* _escalate_step: flag, escalation and audit row are flushed, then the
\* message is queued.
Escalate(k, e) ==
    /\ Visiting(k, e)
    /\ lock[e] \in {NoOne, k}
    /\ announced' = announced \cup {e}
    /\ lock' = [lock EXCEPT ![e] = k]
    /\ scanner' = [scanner EXCEPT ![k] =
          Scanning(Tail(@.overdue), @.staged \cup {e}, @.breach_count + 1)]
    /\ UNCHANGED <<now, step, escalations, failures>>

\* The broker refuses the message: the exception is logged, what was flushed
\* stays in the transaction and breach_count is not incremented.
BrokerFails(k, e) ==
    /\ failures < MaxFailures
    /\ Visiting(k, e)
    /\ lock[e] \in {NoOne, k}
    /\ lock' = [lock EXCEPT ![e] = k]
    /\ scanner' = [scanner EXCEPT ![k] =
          Scanning(Tail(@.overdue), @.staged \cup {e}, @.breach_count)]
    /\ failures' = failures + 1
    /\ UNCHANGED <<now, step, escalations, announced>>

\* The flush fails: log_action rolls the whole transaction back, with the
\* escalations flushed before it, and the loop goes on.
RollBackAndGoOn(k) ==
    /\ scanner' = [scanner EXCEPT ![k] =
          Scanning(Tail(@.overdue), {}, @.breach_count)]
    /\ UNCHANGED <<now, step, escalations, announced>>

FlushFails(k, e) ==
    /\ failures < MaxFailures
    /\ Visiting(k, e)
    /\ RollBackAndGoOn(k)
    /\ Release(k)
    /\ failures' = failures + 1

\* Two scans wait for each other's rows: the database ends one of the
\* transactions, so that its flush fails, and gives the row to the other scan.
DeadlockDetected(k, e) ==
    /\ Visiting(k, e)
    /\ RollBackAndGoOn(k)
    /\ \E j \in Scanners \ {k}, f \in LocksOf(k) :
          /\ lock[e] = j
          /\ Visiting(j, f)
          /\ lock' = [x \in Executions |-> IF x = f THEN j
                                           ELSE IF lock[x] = k THEN NoOne ELSE lock[x]]
    /\ UNCHANGED failures

\* Faulty form: the escalation is not added to the transaction.
CommitFlagOnly(k) ==
    /\ scanner[k].breach_count > 0
    /\ step' = [e \in Executions |->
          IF e \in scanner[k].staged THEN [step[e] EXCEPT !.is_sla_breached = TRUE] ELSE step[e]]
    /\ UNCHANGED escalations

Commit(k) ==
    /\ scanner[k].breach_count > 0
    /\ step' = [e \in Executions |->
          IF e \in scanner[k].staged THEN [step[e] EXCEPT !.is_sla_breached = TRUE] ELSE step[e]]
    /\ escalations' = [e \in Executions |->
          IF e \in scanner[k].staged THEN escalations[e] + 1 ELSE escalations[e]]

\* The loop is over: commit, or close the session and with it roll back.
EndScan(k) ==
    /\ scanner[k].scanning
    /\ scanner[k].overdue = <<>>
    /\ \/ Commit(k)
       \/ scanner[k].breach_count = 0 /\ UNCHANGED <<step, escalations>>
    /\ scanner' = [scanner EXCEPT ![k] = Resting]
    /\ Release(k)
    /\ UNCHANGED <<now, announced, failures>>

\* The commit fails or the worker dies: everything is rolled back but the
\* messages.
ScanAborts(k) ==
    /\ failures < MaxFailures
    /\ scanner[k].scanning
    /\ scanner' = [scanner EXCEPT ![k] = Resting]
    /\ Release(k)
    /\ failures' = failures + 1
    /\ UNCHANGED <<now, step, escalations, announced>>

ScanStep(k) ==
    \/ StartScan(k)
    \/ \E e \in Executions : Escalate(k, e) \/ DeadlockDetected(k, e)
    \/ EndScan(k)

ScanFailure(k) ==
    \/ \E e \in Executions : BrokerFails(k, e) \/ FlushFails(k, e)
    \/ ScanAborts(k)

Next ==
    \/ Tick
    \/ \E e \in Executions, o \in Outcomes : Close(e, o)
    \/ \E k \in Scanners : ScanStep(k) \/ ScanFailure(k)

Spec == Init /\ [][Next]_vars

\* Time passes, and a worker that can go on does: beat queues a scan every
\* 300 seconds, and a scan runs to its end unless it fails.
FairSpec == Spec /\ WF_vars(Tick) /\ \A k \in Scanners : WF_vars(ScanStep(k))

-----------------------------------------------------------------------------

\* Every row and every scan has its type.
TypeOK ==
    /\ now \in Nat
    /\ step \in [Executions -> StepRow]
    /\ escalations \in [Executions -> Nat]
    /\ announced \subseteq Executions
    /\ scanner \in [Scanners -> ScannerState]
    /\ lock \in [Executions -> Scanners \cup {NoOne}]
    /\ failures \in Nat

\* The flag and the escalation records go together: whatever is rolled back,
\* repeated or done twice, an execution is flagged exactly if at least one
\* escalation (with its audit row) was committed for it.
FlagMeansEscalated ==
    \A e \in Executions : step[e].is_sla_breached <=> escalations[e] > 0

\* Nobody is blamed for a step done in time: a flagged execution was still
\* open when its deadline had passed, even if it was closed while the scan
\* that flagged it was under way.
BreachWasLate ==
    \A e \in Executions : step[e].is_sla_breached =>
        /\ Deadline[e] < now
        /\ step[e].completed => Deadline[e] < step[e].ended

\* The rows a scan has changed are locked by it until it ends, so no handler
\* closes an execution under it; and it holds no other lock, except on the row
\* it is about to change.
LocksAreStaged ==
    \A k \in Scanners, e \in Executions :
        /\ e \in scanner[k].staged => lock[e] = k
        /\ lock[e] = k => e \in scanner[k].staged \/ Visiting(k, e)

\* A breach is escalated once.
EscalatedOnce == \A e \in Executions : escalations[e] <= 1

\* An escalation was announced: a message was queued for every flagged
\* execution.
BreachAnnounced == \A e \in Executions : step[e].is_sla_breached => e \in announced

\* An execution that is open after its deadline is flagged, or closed, in the
\* end: failures are finite, scans are not.
OverdueIsHandled ==
    \A e \in Executions :
        (Deadline[e] < now /\ ~step[e].completed)
            ~> (step[e].is_sla_breached \/ step[e].completed)

=============================================================================
