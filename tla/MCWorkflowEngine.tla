-------------------------- MODULE MCWorkflowEngine --------------------------
(***************************************************************************)
(* A small instance of WorkflowEngine: an approval workflow of two steps   *)
(* with a branch on the request data, a rework edge back to the first step *)
(* and a loop on the first step, and a workflow nobody can start.          *)
(***************************************************************************)
EXTENDS WorkflowEngine, TLC

CONSTANTS h1, h2, r1, r2, ann, bob, boss, clerk, admin, pay, wf, empty, gone,
          review, payout, small, large

MCRolesOf == [u \in Users |-> CASE u = ann -> {clerk} [] u = boss -> {admin} [] OTHER -> {}]
MCPermissionsOf == (clerk :> {pay}) @@ (admin :> {})
MCWorkflowOf == (review :> wf) @@ (payout :> wf)
MCStepOrder == (review :> 1) @@ (payout :> 2)
MCRequiredRole == (review :> clerk) @@ (payout :> None)
MCRequiredPermission == (review :> None) @@ (payout :> pay)

Always == EvalContext
IfLarge == [request_data : {large}, decision_data : Data]

MCTransitions ==
    {[from |-> review, to |-> payout, outcome |-> "APPROVED", cond |-> IfLarge],
     [from |-> review, to |-> review, outcome |-> "SKIPPED", cond |-> Always],
     [from |-> review, to |-> None, outcome |-> "REJECTED", cond |-> Always],
     [from |-> payout, to |-> review, outcome |-> "REJECTED", cond |-> Always]}

MCUpper ==
    [approve |-> "APPROVE", reject |-> "REJECT", execute |-> "EXECUTE",
     approved |-> "APPROVED", rejected |-> "REJECTED"]

\* Handlers are interchangeable.
Handlers == Permutations(Sessions)

=============================================================================
