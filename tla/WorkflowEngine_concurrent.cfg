\* Two handlers race on one request.
SPECIFICATION Spec
CONSTANTS
    None = None
    h1 = h1
    h2 = h2
    r1 = r1
    r2 = r2
    ann = ann
    bob = bob
    boss = boss
    clerk = clerk
    admin = admin
    pay = pay
    wf = wf
    empty = empty
    gone = gone
    review = review
    payout = payout
    small = small
    large = large
    Sessions = {h1, h2}
    Requests = {r1}
    Users = {ann, bob, boss}
    Roles = {clerk, admin}
    Permissions = {pay}
    AdminRoles = {admin}
    Workflows = {wf}
    ActiveWorkflows = {wf}
    Steps = {review, payout}
    Data = {large}
    Outcomes = {"APPROVED", "SKIPPED"}
    Actions = {}
    MaxExecutions = 3
    RolesOf <- MCRolesOf
    PermissionsOf <- MCPermissionsOf
    WorkflowOf <- MCWorkflowOf
    StepOrder <- MCStepOrder
    RequiredRole <- MCRequiredRole
    RequiredPermission <- MCRequiredPermission
    Transitions <- MCTransitions
    Upper <- MCUpper
SYMMETRY Handlers
INVARIANTS
    TypeOK
    HandlersConsistent
    ActiveHasPendingStep
    HistoryAccountsForStatus
    AuditCoversDecisions
    DecidedByAuthorised
    AssignmentsAnnounced
PROPERTIES
    TerminalForever
