\* Two handlers, never both on one request; all kinds of calls.
SPECIFICATION SerialSpec
CONSTANTS
    None = None
    h1 = h1
    h2 = h2
    r1 = r1
    r2 = r2
    ann = ann
    bob = bob
    boss = boss
    clerk = clerk
    admin = admin
    pay = pay
    wf = wf
    empty = empty
    gone = gone
    review = review
    payout = payout
    small = small
    large = large
    Sessions = {h1, h2}
    Requests = {r1}
    Users = {ann, bob}
    Roles = {clerk, admin}
    Permissions = {pay}
    AdminRoles = {admin}
    Workflows = {wf, empty, gone}
    ActiveWorkflows = {wf, empty}
    Steps = {review, payout}
    Data = {small, large}
    Outcomes = {"APPROVED", "SKIPPED"}
    Actions = {"approve", "rejected"}
    MaxExecutions = 3
    RolesOf <- MCRolesOf
    PermissionsOf <- MCPermissionsOf
    WorkflowOf <- MCWorkflowOf
    StepOrder <- MCStepOrder
    RequiredRole <- MCRequiredRole
    RequiredPermission <- MCRequiredPermission
    Transitions <- MCTransitions
    Upper <- MCUpper

SYMMETRY Handlers
INVARIANTS
    
    HistoryIsPath
PROPERTIES
    DecisionFinal
    ImplementsLifecycle
