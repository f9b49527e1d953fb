\* One approval against one revocation.
SPECIFICATION Spec
CONSTANTS
    Keys = {k1, k2}
    Approvals = {a1}
    Devices = {}
    Calls = {c1, c2}
    None = None
    Ops = {"login", "create", "access", "approve", "revoke"}
    NewTypes = {"approval_required"}
SYMMETRY Symmetry
PROPERTIES
    RevokedKeyIsRefused
