\* Two tabs, two accounts whose addresses may be swapped, two rows.
SPECIFICATION Spec
CONSTANTS
    Accounts = {ann, bob}
    Emails = {e1, e2}
    Ids = {i1, i2}
    Roles = {student, staff}
    Student = student
    Tabs = {t1, t2}
    AttemptLife = 1
    TokenLife = 2
    MaxAttempts = 2
SYMMETRY SignInSymmetry
INVARIANTS
    TypeOK
    RoleIsRecent
    SessionIsItsOwners
    UncrossedSignInPasses
