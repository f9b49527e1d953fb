\* Keys of every kind, sessions and a device that is deleted, with two concurrent calls.
SPECIFICATION Spec
CONSTANTS
    Keys = {k1, k2}
    Approvals = {a1}
    Devices = {d1}
    Calls = {c1, c2}
    None = None
    Ops = {"create", "use", "access", "request", "approve", "reject", "revoke", "delete",
           "sweep", "cli_session", "logout", "login", "cli_token", "delete_device"}
    NewTypes = {"one_time", "approval_required"}
SYMMETRY Symmetry
INVARIANTS
    TypeOK
    OneTimePassesOnce
    ActiveKeyWasApproved
    CredentialsFollowTheDevice
PROPERTIES
    NoOwnerLockout
