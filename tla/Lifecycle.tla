------------------------------ MODULE Lifecycle ------------------------------
(***************************************************************************)
(* What the workflow engine promises, without handlers, sessions or        *)
(* transactions: a request is opened at a first step of a workflow, has    *)
(* exactly one open ticket while it is active, and a decision is one       *)
(* atomic step that closes the open ticket once and for all and either     *)
(* opens the ticket of a step that follows it or ends the request.         *)
(***************************************************************************)
EXTENDS Naturals, Sequences

CONSTANTS
    Requests, Steps, Users, Outcomes,
    EntrySteps,   \* steps a request may be opened at
    Cleared,      \* pairs <<user, step>>: the user may decide the step
    Follows,      \* triples <<step, outcome, next>>, next = None ends the request
    None

VARIABLES
    phase,    \* request |-> "absent", "active" or "done"
    tickets   \* all tickets, in the order they were opened

OpenTicket(r, st) == [request |-> r, step |-> st, status |-> "PENDING",
                      assigned_to |-> None, completed |-> FALSE]

ClosedTicket(t, u, o) == [t EXCEPT !.status = o, !.assigned_to = u, !.completed = TRUE]

Init ==
    /\ phase = [r \in Requests |-> "absent"]
    /\ tickets = <<>>

Open(r, st) ==
    /\ phase[r] = "absent"
    /\ phase' = [phase EXCEPT ![r] = "active"]
    /\ tickets' = Append(tickets, OpenTicket(r, st))

\* The decision o of user u on the open ticket e, leading to step st.
Advance(e, u, o, st) ==
    /\ ~tickets[e].completed
    /\ phase[tickets[e].request] = "active"
    /\ <<u, tickets[e].step>> \in Cleared
    /\ <<tickets[e].step, o, st>> \in Follows
    /\ tickets' = Append([tickets EXCEPT ![e] = ClosedTicket(@, u, o)],
                         OpenTicket(tickets[e].request, st))
    /\ UNCHANGED phase

\* The decision o of user u on the open ticket e, which ends the request.
Finish(e, u, o) ==
    /\ ~tickets[e].completed
    /\ phase[tickets[e].request] = "active"
    /\ <<u, tickets[e].step>> \in Cleared
    /\ <<tickets[e].step, o, None>> \in Follows
    /\ tickets' = [tickets EXCEPT ![e] = ClosedTicket(@, u, o)]
    /\ phase' = [phase EXCEPT ![tickets[e].request] = "done"]

Next ==
    \/ \E r \in Requests, st \in EntrySteps : Open(r, st)
    \/ \E e \in 1 .. Len(tickets), u \in Users, o \in Outcomes :
          \/ \E st \in Steps : Advance(e, u, o, st)
          \/ Finish(e, u, o)

Spec == Init /\ [][Next]_<<phase, tickets>>

=============================================================================
