# A TLA+ model of the workflow automation platform

The platform runs approval workflows. An administrator defines a workflow
(steps and transitions between them, in the database), users start requests of
it, and every step of a request is closed by a user with the required role or
permission. A background worker escalates steps that pass their deadline. The
backend is FastAPI, SQLAlchemy on PostgreSQL and Celery; the client is Next.js.

This directory holds TLA+ modules translated from the source, configurations
that check them with TLC, and proofs checked by TLAPS. `PROJECT.json` lists the
components, the runs, the source lines every definition stands for, the
findings, the hazards and the theorems.

## 1. Inventory

The server (`app/`):

| Part | State | Operations that change state | What makes it correct |
|---|---|---|---|
| State machine (`services/state_machine.py`) | none | none: table and checks | used as the guard of every status change |
| Workflow engine (`services/workflow_engine.py`) behind `requests.py`, `workflow_instances.py` | `workflow_requests`, `request_steps`, `request_state_history`, `audit_logs`; per handler a database session | `start_workflow`, `process_step` with `_resolve_next`, `_finalize` | a request is always either completed or can be moved on; decisions are taken once, by somebody cleared for them; history and audit log account for everything |
| SLA monitor (`services/sla_monitor.py`, `tasks/sla.py`, beat) | `is_sla_breached`, `sla_escalations` | a scan every 300 s in a Celery worker | every overdue step is flagged, only overdue steps are, once, with record and message |
| Audit service | `audit_logs` | `log_action`: insert, flush, roll back on failure | part of its callers' transactions |
| Workflow definitions (`services/workflow_service.py`) | `workflows`, `workflow_steps`, `step_transitions` | create, delete | what is stored is what was drawn; requests survive |
| Notification tasks | broker queue, mail | `notify_new_assignment`, `send_sla_breach_email` | every assignment and breach reaches those it concerns |
| Users, roles, authentication | `users`, `roles`, `permissions` | create user, log in, checks | unique users; checks as the documentation states |
| Shell, migrations, scripts | none at run time | - | - |

The web client (`frontend/src/`), all of it React state of one tab:

| Part | State | Operations that change state | What makes it correct |
|---|---|---|---|
| Tasks page (`app/tasks/page.tsx`) | list, selected task, its details, comment, `processing` | load, select, close, comment, decide | one decision at a time; only closed tasks leave the list; no comment is sent twice |
| Page of a request (`app/requests/[id]/page.tsx`) | snapshot, note, `processing` | load, submit, read again | one submission at a time, until the second read has ended |
| List of requests (`app/requests/page.tsx`) | filter, rows | load, filter | rows are those of the filter |
| Designer (`app/admin/workflows/create/page.tsx`, dialog of `app/workflows/page.tsx`) | wizard step, steps, transitions, JSON source | add, remove, edit, switch mode, submit | the transitions submitted belong to the steps submitted |
| Inventory, dashboard, list of the administrator (`app/workflows`, `app/dashboard`, `app/admin/workflows`) | list, start form | load, start a request, delete a workflow | no double start; the user sees the request that was made; a deleted workflow stays deleted |
| Login, layout, API client (`app/page.tsx`, `components/layout/DashboardLayout.tsx`, `lib/api.ts`) | stored token (shared by the tabs), user shown | log in, log out, 401, navigate | nobody is shown as somebody else |

Interaction. Handlers of the server run in a thread pool, each with its own
session (READ COMMITTED, no autoflush, no lock, no version column), and meet
only in the tables. They hand messages to the broker *before* they commit.
Workers read and write the same tables. `log_action` rolls back the whole
transaction of its caller when its flush fails. The client's handlers run to
their next `await` without interruption and go on, with the values their
closure has captured, when an answer arrives; nothing cancels a call, and a
page that is left loses its state but not its calls.

Hard, then: handlers that interleave between read and write, failures between
a message and its commit, overlapping scans, partial failure inside a scan,
stale values written back; answers that are late, lost or overtake each other,
a decision retried although it was applied, state read before an `await` and
used after it, a token that changes under a page. The list with the lines is
under "hazards" in `PROJECT.json`.

## 2. Modules

### Server

`StateMachine` - the two status enumerations and the table of legal changes.

`WorkflowEngine` - the handlers. The database is one variable per table
(`request`, `request_steps`, `history`, `audit_logs`), `queue` and `refused`
record the messages the broker took or refused, `session` is the local state of
the handlers. A handler goes through `pc`:

| pc | step | code |
|---|---|---|
| `idle` | `ReceiveStart`, `ReceiveProcess`, `ReceiveDecision` | endpoints; `make_decision` upper-cases the action |
| `start` | `StartWorkflow`, `StartFails` | `start_workflow` up to the message |
| `start_commit` | `CommitStart` | flushed rows become visible |
| `process` | `LoadRequest`, `RequestNotFound` | first query of `process_step` |
| `loaded` | `DecideNext`, `DecideEnd`, `DecisionRefused` | second query, role and permission check, `_resolve_next`, message, checks of `_finalize` |
| `commit` | `CommitNext`, `CommitEnd`, `FlushFails` | flush and commit |
| any | `Abort` | database, broker or process fails: rollback, messages stay |

Abstractions: a `condition_config` is the set of contexts it is true in; data
values are told apart only by conditions; times, comments and texts are left
out; a rolled back transaction leaves nothing but its messages. Definitions of
workflows, users and roles are constants. Flush and commit are one step: the
rows a flush writes are locked and invisible until the commit and every handler
flushes in the same table order. An `UPDATE` carries only attributes that
differ from the loaded ones and is not conditional on them; `MovedRequest` and
`ClosedSteps` say what that means.

`Lifecycle` - the abstract specification: a request is opened, its one open
ticket is decided atomically, once, by a cleared user, and the decision opens
the next ticket or ends the request. `WorkflowEngine` instantiates it with the
status as phase and `request_steps` as tickets.

`ConditionEvaluator` - conditions on JSON values as Python compares them, and
the loop of `_resolve_next` over the rows in the order the database returns
them. `AnswerMatches` is what `ResolveNext` of `WorkflowEngine` takes for granted.
What recurs, Python's `==` and the walk along a field's path, is written as
recursive functions over `Data`, the values that occur and their parts.

`SLAMonitor` - clock, executions, escalation records, announced executions, one
scan per worker with its list, its staged rows and `breach_count`, row locks.
`Escalate`, `BrokerFails`, `FlushFails` are the ways one escalation ends;
`DeadlockDetected` is PostgreSQL ending one of two scans that wait for each
other; `EndScan` commits or rolls back; `ScanAborts` is a failed commit or a
dead worker; `Close` is a handler committing `process_step`. `ended` is the time
of that commit.

### Web client

A call of the client has two ends that move separately: the server serves it or
refuses it, and the page gets an answer or gives up; either may be lost.

`DecisionService` - the decision endpoints as the pages see them: per request
the stage of its open execution, the decisions sent in the order of the clicks
with what the user saw (`shown`), how far the call is on either side (`server`,
`client`) and the execution it closed. `Apply` closes whatever execution is open
when the server gets to the call, as `make_decision` does; other users decide too.
`TaskPage`, `RequestPage`, `Ledger` - the tasks page, the page of a request and
the list of requests, one action per handler and side of an `await`.
`DecisionPages` composes the four: one tab that shows one of the pages,
`Navigate` mounts another one and drops what the last one was waiting for.

Two parameters separate the pages from two facts about today's server.
`StepsServed`: the response schema reads `steps`, the table class calls the
relation `request_steps`, so the field the page of a request looks into is
always empty and its form never shown. `Storable`: the tasks page posts
`approve` and `reject`, which `StepStatus` does not have, so the flush fails.
The pages are checked over a server without these two faults, so that what
their handlers do becomes visible; run `decision_form` is over the server as it
is.

`Blueprint` - pure operators: the wizard's transitions, renumbering, the two
payloads, and `create_workflow`'s mapping of orders to stored steps.
`WorkflowDesigner` - the page and the dialog that use them, edits while a
submission is under way, the server's check of names and orders.

`Catalog` - inventory, dashboard and list of the administrator over
`create_request` and `delete_workflow`. The latter is two steps: the `SELECT`s of
the flush (`LoadRequests`) and the `DELETE` with its cascade (`ExecuteDelete`).
A handler of the page keeps what its closure captured (`workflows`, `mount`).

`ClientSession` - the stored token, tokens issued and expired, and per tab its
page, the user of the layout, the timers of logins and the calls in flight,
each with the token it was sent with (the request interceptor) and the mount
it belongs to. `Unauthorised` is the response interceptor, `Redirect` the timer.

### Instances and proofs

`MCWorkflowEngine`, `MCConditionEvaluator`, `MCSLAMonitor`, `MCDecisionPages`,
`MCWorkflowDesigner`, `MCClientSession` - instances for TLC; `Catalog` is run as it
is. `WorkflowEngineProofs`, `SerialProofs`, `ConditionEvaluatorProofs`,
`SLAMonitorProofs`, `DecisionPagesProofs`, `WorkflowDesignerProofs`,
`CatalogProofs`, `ClientSessionProofs` - theorems.

Definitions introduced as "faulty form" are variants of a definition with a
plausible mistake; no specification uses them. `PROJECT.json` pairs each
property with the variant that breaks it.

## 3. Runs

| Run | Question | Bounds |
|---|---|---|
| `concurrent` | What survives any interleaving of two handlers on one request? | 2 handlers, 1 request, a clerk, an admin and a user without roles, 2 steps with a branch and a loop, 3 executions |
| `serial` | Does the engine implement `Lifecycle` if no two handlers work on a request at once (`SerialSpec`)? | the same with both endpoints, unknown and empty workflows, outcomes the column cannot hold, conditions that differ with the data |
| `lost_decision` | What goes wrong without that discipline? (violation) | as `concurrent` |
| `conditions` | Does the loop choose what the engine's model assumes, on every kind of data? | 9 operators, 13 values of all kinds, fields present, missing or below a non-dict; tables of up to 2 rows in both orders |
| `sla_overlap` | Overlapping scans with failures | 2 workers, 2 executions, clock to 3, 2 failures |
| `sla_single` | One worker process | 1 worker, 3 failures |
| `decision_pages` | Can late, lost and reordered answers make the pages decide twice, lie about the list or hang? | 2 requests of 2 stages, 2 decisions of the user and 1 of another, 1 change of the page, 2 changes of the filter among 3 |
| `decision_form` | Can the form be reached over the server as it is? (violation) | as `decision_pages` |
| `designer` | Is what is stored what was drawn or written? | 3 steps added, one role, JSON sources with sequential, swapped, doubled and zero orders, an unknown role and none |
| `catalog` | Can starts be doubled or lost, and what does a deletion take away? | 2 workflows, 2 starts, 2 deletions, 2 pages mounted |
| `workflow_deleted` | Does an active request keep its workflow? (violation) | as `catalog` |
| `session` | Can a layout show somebody else? | 2 tabs, an admin and a manager, 2 logins, 5 mounts, 2 calls per tab |

Why the bounds are enough. Two handlers suffice for the races of interest, which
are between one stale handler and one that commits; three executions allow a
first step, a second one and one opened by a stale handler. Two executions with
different deadlines allow a scan with partial failure and both lock orders. Two
decisions are a decision and its retry, or one of each page; a second request
lets the user open another task before the answer comes; two changes of the
filter put three calls in flight. Three steps can be removed in the middle. Two
deletions overlap in the administrator's list, two starts in the dashboard's
form. Two tabs and two users are what it takes for one to change the other's
token, and five mounts leave room for a login, an expiry and another login. The
theorems hold for every bound. Handlers, and tabs, are symmetric in the runs
that check no liveness.

Results. Whatever the interleaving, an active request has an open execution at
its current step, the history ends at the stored status, a completed request
stays completed, every closed execution was closed by somebody cleared for it
and is audited, and no execution exists without its message having been handed
over or refused. Without serialization of handlers on a request, which nothing
in the code enforces, a decision can be overwritten (`lost_decision`), a
completed request can keep an open execution, and a request can be finalized
twice, so that its history is no longer one path (`OnePendingStep` and
`HistoryIsPath` hold under `SerialSpec` only). With it, the engine implements
`Lifecycle`.

On the client, no page sends two decisions at a time or stays blocked, and a
decision that closes another execution than the one shown has one of three
causes: another user, the other page, or a retry after a failure that was none
(`SurpriseExplained`, `StaleSubmissionExplained`). The designer stores what was
drawn, also when steps are removed after the transitions were generated. Of the
requests of a deleted workflow only those are lost that were started after the
administrator's click. A layout shows somebody else only after the token was
changed under it.

The three findings quote the lines of documentation and comments that say
otherwise. Six more definitions state what a reader may expect and what does not
hold; TLC refutes each on the instances above, and no run is kept for them:

| Definition | What happens instead |
|---|---|
| `WorkflowEngine!CompletedHasNoTask` | a stale handler opens an execution of a request another one has completed (under `SerialSpec` it holds, see section 4) |
| `WorkflowEngine!DecisionsCanBeStored` | any string passes as an outcome, and fails only in the flush |
| `WorkflowEngine!RoleRequired` | admins close executions of roles they do not have |
| `SLAMonitor!BreachAnnounced` | the flag is committed although the broker refused the message |
| `TaskPage!TimelineMatches` | details of a task that was closed arrive under the next one |
| `WorkflowDesigner!NamedRoleRequired` | a role that is unknown, or not loaded yet, becomes no restriction |

Deadlock is checked in the engine runs. The monitor's instances stop when the
clock has reached its bound and nothing is overdue, and the client's when every
bounded click is used up, so it is not checked there.

Fairness.

- `FairSpec` of `SLAMonitor`: time passes, and a worker that can take a step of a
  scan takes one. Beat queues a scan every 300 s and Celery runs it; a statement
  waiting for a row lock gets it when the holder ends; PostgreSQL resolves
  deadlocks. Failures are not fair and are bounded by `MaxFailures`, so
  `OverdueIsHandled` says: once failures stop, the scan catches up. Weak fairness
  is enough because a worker's step stays enabled until it is taken, or until
  the lock it waits for is free.
- `FairSpec` of `DecisionPages` and of `Catalog`: a call of the client ends, with
  an answer or with an error of the connection. Nothing is assumed of users, of
  the server or of the outcome, so `ButtonsComeBack` and `StartingEnds` hold
  for every way a call can fail.

## 4. Proofs

All for arbitrary constants that satisfy the `ASSUME`s (types, `None` and its
like distinct from everything else, transitions within one workflow, finitely
many executions, JSON sources and transitions of a step as finite lists, `Data`
closed under taking parts). The bounds are parameters of the theorems. Every
safety property of a passing run is stated by a theorem.

`WorkflowEngineProofs`. The inductive core is `BaseInv`: types, the statuses
ever committed (`None`, `IN_PROGRESS`, `COMPLETED`), `HandlersConsistent` and
`StartsDisjoint` (two handlers never insert the same request).
`HandlersConsistent` is needed because a commit writes what an earlier step of
the same handler computed: the request still exists, the execution belongs to
it and to the loaded step, the user is cleared.

- `TypeCorrect`, `HandlersStayConsistent`, `StartsStayDisjoint`: `BaseInv` is
  invariant. One lemma per action; `CommitNextStep` and `CommitEndStep` show that
  a commit disturbs no other handler.
- `ActiveRequestsCanProceed`: the racing case is a commit that closes the execution
  another handler's value of `current_step_id` points to. It works because
  `current_step_id` is written exactly when it differs from the loaded value
  and otherwise the new execution is at the loaded step.
- `TerminalStays`: strengthened with "a completed request has its completion time".
- `HistoryExplainsStatus`: a second finalization appends legal hops too and ends
  at `COMPLETED`.
- `DecisionsAreAuthorised`: strengthened with "an execution belongs to a stored
  request" (`RowsSound`); the signature and the check belong to one handler.

The records rest on two facts. `RowsKept`: a commit changes no row's request or
step and only adds rows; `LogsExtended`: the logs only grow.

- `ExecutionsAnnounced`: a new execution was announced, or refused, by the handler
  that commits it; the one a decision closes is an earlier one of the request, so
  the exemption for a request's first execution is never used by a decision.
- `DecisionsAreAudited`: closing an execution and signing it are one commit, and
  so are the completion row and the status; a second handler that overwrites the
  assignee adds a row of its own.

`SerialProofs`. What `SerialSpec` buys, for any number of handlers. `SerialInv`:
no two handlers in flight have the same request (`Alone`), what a handler loaded
is what the database holds and the execution it is about to close is open
(`AllUpToDate`), an open execution has never been written to (`OpenRowsBlank`), and
`OnePendingStep` one row and two rows at a time. `CommitOpenRows` is the heart:
after a commit the open executions are those of other requests and the one the
handler opens.

- `SerialOnePendingStep`, `SerialDecisionFinal`, `SerialHistoryIsPath`.
- `SerialDecisionsKept`: the decisions clients were told of are still in the
  table. A commit adds its own (`CommitTold`) and writes to no closed row. So the
  loss `lost_decision` shows needs two handlers under way on a request at once.
- `SerialCompletedHasNoTask`: the execution a finalization closes was the only
  open one.
- `SerialRefinesLifecycle`: a commit is `Open`, `Advance` or `Finish`, every other
  step a stutter. `OpenRowsBlank` is needed because an outcome `PENDING` is left
  out of the `UPDATE`: the row is what `Lifecycle` writes only if it was pending.

`SLAMonitorProofs`. `Inv`: types, `FlagMeansEscalated`, `LocksAreStaged`, and an
idle worker has nothing listed or staged.

- `MonitorWellTyped`, `FlagsAndEscalationsAgree`: flag and record are written in one
  commit.
- `StagedRowsAreLocked`: the rows a scan has staged are locked by it, through
  failures, deadlocks and aborts.
- `EscalationsPerWorker`: an execution is escalated at most once per worker. The
  invariant is `TurnsLeft`: the escalations of an execution and the workers that
  read it as overdue before its flag was committed (`Readers`) are together never
  more than the workers. A commit moves its scan from the readers to the
  escalations; a scan that starts afterwards does not list the execution. Assumes
  finitely many workers.
- `OneWorkerEscalatesOnce`: the case of one worker, `EscalatedOnce`.
- `FlaggedStepsWereLate`: what a scan knows (listed or staged) was late when read,
  and late stays late (`LateInv`). Assumes that no execution is closed with
  outcome `PENDING` or `IN_PROGRESS`. The assumption is needed: the scan selects
  by these two outcomes, the endpoint accepts both, and an execution closed
  with one of them is found overdue later.

`DecisionPagesProofs`. The invariant `Inv` adds to the properties:
`ReadsSound` (a second read follows an accepted decision of the same page, so
the two never overlap), `StageSound` (nothing a page lists, shows or has sent is
ahead of the server, and what was applied is closed), `CommentSound` (comments are
numbered by the decision they are written for, and the last decision of the
tasks page is the only one unanswered) and `LedgerSound` (calls are numbered,
the last one asks for the filter shown).

- `DecisionsOneByOne`, `SubmissionsOneByOne`: blocked is equivalent to a call
  under way, on every step including `Navigate`.
- `CommentsSentOnce`: without `CommentSound` a comment typed while a decision is
  under way could be the one just sent; `Decided` clears the field in the step
  that acknowledges.
- `LedgerFollowsFilter`: for any number of calls in flight.
- `ClosedTasksLeave`: `DecisionOk` removes the task of the decision, which
  `StageSound` knows to be closed; `FetchTasks` replaces an empty list.

`SurpriseExplained` and `StaleSubmissionExplained` speak of the past, of who closed
the execution that was shown. `Know`, a second invariant, says what a page knows
of that:

- `Opened`: an execution was opened only if it is open or somebody's closing it
  is on record (`Accounted`), and pages show none but these (`SeenOpen`).
- `DecisionSound`, `PendingLast`: an applied decision closed an execution of the
  request it was meant for, not an earlier one than shown; only the last decision
  of a page can be unanswered.
- `TaskKnows`: the tasks page lists at most one execution of a request, the one
  being decided among them, and none it was told is closed.
- `RequestKnows`: the page of a request is past what it was told is closed, or a
  second read is under way. This is why the form stays blocked until that read.
- `OwnKnown` follows: two decisions of a page, the first of them acknowledged, are
  never about the same execution.

`SurprisesExplained`, `StaleSubmissionsExplained`: a decision that closed another
execution than the one shown met one already closed; `Opened` says by whom. If it
was an earlier decision of the same page, `OwnKnown` leaves only one that the page
was told nothing of but a failure (or whose second read failed). TLC checked
`Know` on the instance of `decision_pages` before it was proved.

`WorkflowDesignerProofs`. `Inv`: the wizard's steps have distinct ids, none above
the last one given out, and positions as numbers; at step 3 the transitions are
current; a draft that was submitted is kept with its payload (`DraftSound`).

- `TransitionsCurrent`: steps change at step 2 only, and leaving it regenerates.
- `DrawnIsStored`: with distinct ids the order a transition names is the position
  of its step, so `Mapped` inverts `OrderOf` and `Stored` is the chain; for any
  number of steps.
- `WrittenIsStored`: the same of JSON sources of any length. Both rest on
  `NumberedStored`: nodes with the orders 1, 2, ... are stored as their chain. A
  source with other orders is outside the property; what the server makes of
  one is in the run only.

`ConditionEvaluatorProofs`. The loop's invariant says which rows have been passed
and that the condition of none of them held.

- `ResolveMatches`: for any table of transitions and any data.
- `ThresholdsSplit`: two rows `> t` and `<= t` on one field split what converts to a
  number, for any threshold and any path into the data. `ValueInData`, that a
  path leads to a value of `Data`, is an induction on the path; it is done with a
  least counterexample (`LeastElement`). `ComparisonMet` says that a comparison
  holds of numbers only.

`CatalogProofs`. `StartsSound`: a call the client has given up is marked.
`DeletesSound`: a deletion whose `SELECT`s have passed was sent when its workflow
had no requests, because requests never disappear while their workflow exists.

- `StartsAreShown`, `DeletionSticks`, `LostRequestsRaced` follow from these;
  `DeletionSticks` also needs `GoneSound`, that a list with one deletion does not
  show it again, and `LoadingSound`, that rows arriving late meet no deletion.

`ClientSessionProofs`. `MountsSound` (nothing belongs to a mount still to come)
makes an answer for an earlier mount recognisable; `UserOfMount` says that the
user of a page, and the answer on its way, are those of the token stored at the
mount. `LayoutShowsSigned` follows as long as that token is the stored one.

Only model-checked: liveness (`OverdueIsHandled`, `ButtonsComeBack`, `StartingEnds`),
which rests on fairness and so on ENABLED, and the values of `PyEqual`, which no
proof unfolds: the theorems hold whatever equality of lists and dicts says.

## 5. Plan

1. `Notifications`: delivery, recipients at delivery time, partial failure; a
   composition with the engine's `queue` (messages without a request, requests
   without a message).
2. `Platform`: engine and monitor on one `request_steps` table.
3. `Users` and `Rbac`: creation, roles changed while a handler runs.
4. Proofs for these; that `PyEqual` is an equivalence on `Data`.

## 6. Not modelled

- Notification tasks: the models record which messages the broker took or
  refused; delivery is one task per message without retries, and sending mail
  is a stub that logs.
- Creating users, password hashes and tokens: straight-line code and library
  calls; users, roles and permissions are constants of the models. What the
  client sees of tokens (expiry, 401) is in `ClientSession`.
- Listings of audit entries, roles and permissions, the counters and the pulse
  button of the dashboard, the administration console and the notifications
  page: they load once and show what they got.
- `Card`, `Portal`, the root layout, configuration, logging, migrations and
  scripts: markup, or code that runs once.

`PROJECT.json` gives the reason per component.
