-------------------------- MODULE WorkflowDesigner --------------------------
(***************************************************************************)
(* The page that creates a workflow (frontend/src/app/admin/workflows/     *)
(* create/page.tsx) and the dialog of the inventory that does the same     *)
(* (frontend/src/app/workflows/page.tsx).  While a submission is under way *)
(* everything but the submit button of the page can still be used; the     *)
(* dialog can only be edited.                                              *)
(***************************************************************************)
EXTENDS Blueprint

CONSTANTS
    JsonSources,   \* node lists the administrator writes or pastes
    MaxSteps,      \* bound: nodes of a JSON list
    MaxAdded       \* bound: steps added by the wizard

ASSUME DesignerAssumption ==
    /\ NoRole \notin RoleNames
    /\ MaxSteps \in Nat /\ MaxAdded \in Nat
    /\ \A n \in JsonSources : n \in Seq({n[i] : i \in DOMAIN n})   \* lists

VARIABLES
    place,        \* "page", "dialog", or "done" when the editor is gone
    step,         \* step of the wizard
    mode,
    named,        \* the workflow has a name
    workflowSteps,
    transitions,
    nodes,        \* steps of jsonSource
    roles,        \* loaded roles
    added,        \* steps added so far, the last tempId given out
    isSubmitting,
    calls,        \* POST workflows/ in flight
    stored        \* workflows the server has stored

draftVars == <<step, mode, named, workflowSteps, transitions, nodes, added>>
vars == <<place, draftVars, roles, isSubmitting, calls, stored>>

Init ==
    /\ place \in {"page", "dialog"}
    /\ step = 1
    /\ mode = IF place = "page" THEN "wizard" ELSE "json"
    /\ named = FALSE
    /\ workflowSteps = <<>>
    /\ transitions = {}
    /\ nodes = <<>>
    /\ roles = IF place = "page" THEN {} ELSE RoleNames
    /\ added = 0
    /\ isSubmitting = FALSE
    /\ calls = {}
    /\ stored = {}

\* fetchMetadata; it may come late or never.  The dialog opens on a page that
\* has loaded its roles.
FetchMetadata ==
    /\ place = "page"
    /\ roles = {}
    /\ roles' = RoleNames
    /\ UNCHANGED <<place, draftVars, isSubmitting, calls, stored>>

-----------------------------------------------------------------------------
\* The wizard.

Wizard(k) == place = "page" /\ mode = "wizard" /\ step = k

SetName ==
    /\ Wizard(1)
    /\ named' = ~named
    /\ UNCHANGED <<step, mode, workflowSteps, transitions, nodes, added>>

AddStep ==
    /\ Wizard(2)
    /\ added < MaxAdded
    /\ added' = added + 1
    /\ workflowSteps' = Append(workflowSteps,
          [tempId |-> added + 1, step_order |-> Len(workflowSteps) + 1, role |-> NoRole])
    /\ UNCHANGED <<step, mode, named, transitions, nodes>>

RemoveStep(k) ==
    /\ Wizard(2)
    /\ workflowSteps' = Renumbered(Without(workflowSteps, k))
    /\ UNCHANGED <<step, mode, named, transitions, nodes, added>>

\* updateStep, of which only the role matters here.
UpdateStep(k, r) ==
    /\ Wizard(2)
    /\ r \in roles \cup {NoRole}
    /\ workflowSteps' = [workflowSteps EXCEPT ![k] = [@ EXCEPT !.role = r]]
    /\ UNCHANGED <<step, mode, named, transitions, nodes, added>>

\* Faulty form: transitions are generated once.
NextStepOnce ==
    /\ mode = "wizard" /\ place = "page"
    /\ \/ step = 1 /\ named /\ UNCHANGED transitions
       \/ /\ step = 2 /\ workflowSteps # <<>>
          /\ transitions' = IF transitions = {} THEN DefaultTransitions(workflowSteps)
                            ELSE transitions
    /\ step' = step + 1
    /\ UNCHANGED <<mode, named, workflowSteps, nodes, added>>

\* nextStep; without a name or without a step there is only an alert.
NextStep ==
    /\ mode = "wizard" /\ place = "page"
    /\ \/ step = 1 /\ named /\ UNCHANGED transitions
       \/ step = 2 /\ workflowSteps # <<>> /\ transitions' = DefaultTransitions(workflowSteps)
    /\ step' = step + 1
    /\ UNCHANGED <<mode, named, workflowSteps, nodes, added>>

Back ==
    /\ mode = "wizard" /\ place = "page" /\ step > 1
    /\ step' = step - 1
    /\ UNCHANGED <<mode, named, workflowSteps, transitions, nodes, added>>

-----------------------------------------------------------------------------
\* JSON mode and the dialog.

SwitchMode ==
    /\ place = "page"
    /\ mode' = IF mode = "wizard" THEN "json" ELSE "wizard"
    /\ UNCHANGED <<step, named, workflowSteps, transitions, nodes, added>>

\* The administrator edits the source.
EditJson(n) ==
    /\ mode = "json" /\ place # "done"
    /\ n # nodes
    /\ nodes' = n
    /\ UNCHANGED <<step, mode, named, workflowSteps, transitions, added>>

\* handleAddStep of the dialog: without a role there is only an alert.
AddNode(r) ==
    /\ place = "dialog"
    /\ Len(nodes) < MaxSteps
    /\ nodes' = WithNode(nodes, r)
    /\ UNCHANGED <<step, mode, named, workflowSteps, transitions, added>>

Edit ==
    \/ SetName \/ AddStep \/ NextStep \/ Back \/ SwitchMode
    \/ \E k \in DOMAIN workflowSteps :
          RemoveStep(k) \/ \E r \in RoleNames \cup {NoRole} : UpdateStep(k, r)
    \/ \E n \in JsonSources : EditJson(n)
    \/ \E r \in RoleNames : AddNode(r)

-----------------------------------------------------------------------------
\* Submission.

\* The submit button is there in JSON mode and at the last step of the wizard.
SubmitEnabled == place # "done" /\ (mode = "json" \/ step = 3) /\ ~isSubmitting

\* What the click submits: payload, and what it was made from.
Submitted ==
    [mode |-> mode,
     source |-> IF mode = "wizard" THEN workflowSteps ELSE nodes,
     known |-> roles,
     payload |-> IF mode = "wizard" THEN WizardPayload(workflowSteps, transitions)
                 ELSE JsonPayload(nodes, roles)]

\* The dialog cannot read the role of a node that has none: the exception ends
\* the handler before its call, with an alert.
Unreadable ==
    place = "dialog" /\ \E i \in DOMAIN nodes : nodes[i].role = NoRole

Submit ==
    /\ SubmitEnabled
    /\ ~Unreadable
    /\ isSubmitting' = TRUE
    /\ calls' = calls \cup {[draft |-> Submitted, done |-> FALSE]}
    /\ UNCHANGED <<place, draftVars, roles, stored>>

\* create_workflow: the schema wants orders from 1 on; the name is unique, so
\* what was stored under it makes every later try fail.
Store(c) ==
    /\ c \in calls /\ ~c.done
    /\ stored = {}
    /\ \A i \in DOMAIN c.draft.payload.steps : c.draft.payload.steps[i].order >= 1
    /\ calls' = (calls \ {c}) \cup {[c EXCEPT !.done = TRUE]}
    /\ stored' = {c.draft}
    /\ UNCHANGED <<place, draftVars, roles, isSubmitting>>

\* The page is left for the inventory, the dialog is closed.
SubmitOk(c) ==
    /\ c \in calls /\ c.done
    /\ calls' = calls \ {c}
    /\ place' = "done"
    /\ isSubmitting' = FALSE
    /\ UNCHANGED <<draftVars, roles, stored>>

\* Refused, or the call or its answer was lost: an alert, and the editor stays.
SubmitFailed(c) ==
    /\ c \in calls
    /\ calls' = calls \ {c}
    /\ isSubmitting' = FALSE
    /\ UNCHANGED <<place, draftVars, roles, stored>>

Next ==
    \/ FetchMetadata
    \/ Edit /\ UNCHANGED <<place, roles, isSubmitting, calls, stored>>
    \/ Submit
    \/ \E c \in calls : Store(c) \/ SubmitOk(c) \/ SubmitFailed(c)

Spec == Init /\ [][Next]_vars

-----------------------------------------------------------------------------

WizardStep == [tempId : 1 .. MaxAdded, step_order : Nat, role : RoleNames \cup {NoRole}]

\* The draft has its type; the steps of the wizard have distinct ids and are
\* numbered from 1 on without a gap, whatever was added and removed.
DraftWellFormed ==
    /\ step \in 1 .. 3
    /\ added \in 0 .. MaxAdded
    /\ workflowSteps \in Seq(WizardStep)
    /\ \A i, j \in DOMAIN workflowSteps :
          workflowSteps[i].tempId = workflowSteps[j].tempId => i = j
    /\ \A i \in DOMAIN workflowSteps : workflowSteps[i].step_order = i

\* There is at most one submission under way, also when the draft is edited, the
\* mode switched or the wizard moved meanwhile.
OneSubmission ==
    /\ isSubmitting <=> calls # {}
    /\ \A c, d \in calls : c = d

\* The draft and the submission are consistent (addStep, removeStep, handleSubmit).
TypeOK == DraftWellFormed /\ OneSubmission

\* At the last step of the wizard, the only one that can submit them, the
\* transitions are those of the steps as they are, although steps can be
\* removed, added and the mode switched after transitions were generated.
ChainIsCurrent ==
    step = 3 => workflowSteps # <<>> /\ transitions = DefaultTransitions(workflowSteps)

\* What the wizard has drawn is what the server stores: a chain through all
\* steps in their order with the roles chosen, and every rejection ends it.
StoredAsDrawn ==
    \A w \in stored : w.mode = "wizard" =>
        LET s == Stored(w.payload)
            n == Len(w.source)
        IN  /\ IsChain(s, n)
            /\ {l \in s.links : l.outcome = "REJECTED"} =
                  {[from |-> i, to |-> 0, outcome |-> "REJECTED"] : i \in 1 .. n}
            /\ s.roles = [i \in 1 .. n |-> w.source[i].role]

\* A JSON source whose orders are sequential, as its hint asks for, is stored as
\* a chain through all its nodes, with the roles the page had loaded.
StoredAsWritten ==
    \A w \in stored : (w.mode = "json" /\ Sequential(w.source)) =>
        LET s == Stored(w.payload)
        IN  /\ IsChain(s, Len(w.source))
            /\ \A i \in DOMAIN w.source :
                  w.source[i].role \in w.known => s.roles[i] = w.source[i].role

\* A node that names a role needs a role (the alert at create/page.tsx:218 asks
\* for correct role names).
NamedRoleRequired ==
    \A w \in stored : w.mode = "json" =>
        \A i \in DOMAIN w.source :
            w.source[i].role # NoRole => Stored(w.payload).roles[i] # NoRole

=============================================================================
