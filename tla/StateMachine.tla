---------------------------- MODULE StateMachine ----------------------------
(***************************************************************************)
(* The life cycle of a workflow request: the table of legal status         *)
(* changes and the checks built on it (app/services/state_machine.py), and *)
(* the two status enumerations of the database                             *)
(* (app/db/models/request.py).                                             *)
(***************************************************************************)

\* The values a request's status column can hold.
RequestStatus ==
    {"CREATED", "IN_PROGRESS", "APPROVED", "REJECTED", "COMPLETED", "ESCALATED"}

\* The values a step execution's status column can hold.  Any other string
\* is refused by the database when it is flushed.
StepStatus == {"PENDING", "IN_PROGRESS", "APPROVED", "REJECTED", "SKIPPED"}

\* Current state |-> states that may follow it.
STATE_TRANSITIONS ==
    [CREATED     |-> {"IN_PROGRESS"},
     IN_PROGRESS |-> {"APPROVED", "REJECTED", "ESCALATED"},
     APPROVED    |-> {"COMPLETED"},
     REJECTED    |-> {"COMPLETED"},
     ESCALATED   |-> {"IN_PROGRESS"},
     COMPLETED   |-> {}]

get_allowed_next_states(state) == STATE_TRANSITIONS[state]

\* Staying in the same state is always accepted.
is_valid_transition(from, to) ==
    from = to \/ to \in get_allowed_next_states(from)

\* The check raises InvalidStateTransitionError when it does not hold, so the
\* caller goes no further: a guard of the calling action.
validate_transition(from, to) == is_valid_transition(from, to)

is_terminal_state(state) == get_allowed_next_states(state) = {}

=============================================================================
