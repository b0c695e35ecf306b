------------------------------ MODULE Blueprint ------------------------------
(***************************************************************************)
(* How the web client turns what an administrator draws or writes into a   *)
(* workflow definition, and how WorkflowService.create_workflow stores it. *)
(*                                                                         *)
(* The wizard of admin/workflows/create/page.tsx keeps steps with ids of   *)
(* its own and the transitions it generated; its JSON mode and the dialog  *)
(* of workflows/page.tsx take a list of nodes with an order and the name   *)
(* of a role.  Names of steps, descriptions and hours are left out.        *)
(***************************************************************************)
EXTENDS Naturals, Sequences

CONSTANTS
    RoleNames,   \* roles the server has
    NoRole       \* no restriction, or no role in a JSON node

\* order 0 stands for null: no next step.
Terminal == 0

-----------------------------------------------------------------------------
\* The wizard: a step is [tempId, step_order, role].

\* Faulty form: the numbers are kept.
NotRenumbered(steps) == steps

\* removeStep renumbers the steps that are left.
Renumbered(steps) ==
    [i \in DOMAIN steps |-> [steps[i] EXCEPT !.step_order = i]]

Without(steps, k) ==
    [i \in 1 .. Len(steps) - 1 |-> IF i < k THEN steps[i] ELSE steps[i + 1]]

\* generateDefaultTransitions: between ids of the wizard.
DefaultTransitions(steps) ==
    {[from |-> steps[i].tempId,
      to |-> IF i < Len(steps) THEN steps[i + 1].tempId ELSE Terminal,
      outcome |-> "APPROVED"] : i \in DOMAIN steps}
    \cup {[from |-> steps[i].tempId, to |-> Terminal, outcome |-> "REJECTED"] :
              i \in DOMAIN steps}

\* Faulty form: positions counted from zero.
OrderOfZeroBased(steps, id) ==
    IF \E i \in DOMAIN steps : steps[i].tempId = id
    THEN steps[CHOOSE i \in DOMAIN steps : steps[i].tempId = id].step_order - 1
    ELSE Terminal

\* The number of the step with an id, null if there is none.
OrderOf(steps, id) ==
    IF \E i \in DOMAIN steps : steps[i].tempId = id
    THEN steps[CHOOSE i \in DOMAIN steps : steps[i].tempId = id].step_order
    ELSE Terminal

\* The second half of handleSubmit.
WizardPayload(steps, transitions) ==
    [steps |-> [i \in DOMAIN steps |->
                   [order |-> steps[i].step_order, role |-> steps[i].role]],
     transitions |-> {[from |-> OrderOf(steps, t.from), to |-> OrderOf(steps, t.to),
                       outcome |-> t.outcome] : t \in transitions}]

-----------------------------------------------------------------------------
\* JSON: a node is [order, role].

\* A role that is not found in the roles the page has loaded becomes null.
FormattedSteps(nodes, roles) ==
    [i \in DOMAIN nodes |->
        [order |-> nodes[i].order,
         role |-> IF nodes[i].role \in roles THEN nodes[i].role ELSE NoRole]]

\* Faulty form: the last link is lost.
LinearTransitionsShort(steps) ==
    {[from |-> steps[i].order,
      to |-> IF i + 1 < Len(steps) THEN steps[i + 1].order ELSE Terminal,
      outcome |-> "APPROVED"] : i \in DOMAIN steps}

\* Only approvals are linked, in the order of the list.
LinearTransitions(steps) ==
    {[from |-> steps[i].order,
      to |-> IF i < Len(steps) THEN steps[i + 1].order ELSE Terminal,
      outcome |-> "APPROVED"] : i \in DOMAIN steps}

JsonPayload(nodes, roles) ==
    [steps |-> FormattedSteps(nodes, roles),
     transitions |-> LinearTransitions(FormattedSteps(nodes, roles))]

\* handleAddStep of the dialog appends a node.
WithNode(nodes, role) == Append(nodes, [order |-> Len(nodes) + 1, role |-> role])

-----------------------------------------------------------------------------
\* The server.  A stored step is known by its position in the payload.

\* steps_map: of two steps with one order the later one wins.
Mapped(steps, order) ==
    LET at == {i \in DOMAIN steps : steps[i].order = order}
    IN  IF at = {} THEN 0 ELSE CHOOSE i \in at : \A j \in at : j <= i

\* Transitions from unknown orders are skipped, to unknown ones end the workflow.
Stored(payload) ==
    [roles |-> [i \in DOMAIN payload.steps |-> payload.steps[i].role],
     first |-> {i \in DOMAIN payload.steps : payload.steps[i].order = 1},
     links |-> {[from |-> Mapped(payload.steps, t.from),
                 to |-> IF t.to = Terminal THEN 0 ELSE Mapped(payload.steps, t.to),
                 outcome |-> t.outcome] :
                   t \in {u \in payload.transitions : Mapped(payload.steps, u.from) # 0}}]

\* A chain of n steps: it starts at the first one, every approval leads to the
\* next one, and the last one ends the workflow.
IsChain(workflow, n) ==
    /\ workflow.first = {1}
    /\ {l \in workflow.links : l.outcome = "APPROVED"} =
          {[from |-> i, to |-> IF i < n THEN i + 1 ELSE 0, outcome |-> "APPROVED"] :
              i \in 1 .. n}

\* What a reader of the JSON mode's hint expects of orders.
Sequential(nodes) == nodes # <<>> /\ \A i \in DOMAIN nodes : nodes[i].order = i

=============================================================================
