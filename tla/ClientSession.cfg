\* Two tabs, an admin and a manager, two logins.
SPECIFICATION Spec
CONSTANTS
    b1 = b1
    b2 = b2
    ann = ann
    bob = bob
    NoUser = NoUser
    Roles <- MCRoles
    Tabs = {b1, b2}
    Users = {ann, bob}
    MaxLogins = 2
    MaxMounts = 5
    MaxCalls = 2
INVARIANTS
    TypeOK
    ShownIsSigned
SYMMETRY MCSymmetry
CHECK_DEADLOCK FALSE
