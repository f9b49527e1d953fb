\* A request with names whose prefixes meet in one entry, a share, two transactions.
SPECIFICATION Spec
CONSTANTS
    Requests = {r1}
    Shares = {s1}
    Names = {"a", "pa"}
    Prefixes = {"", "p"}
    Keys = {"a", "pa", "ppa"}
    Final <- MCFinal
    Calls = {c1, c2}
    None = None
SYMMETRY Symmetry
INVARIANTS
    TypeOK
PROPERTIES
    RequiredNamesAccountedFor
    SubmissionsReplaceNothing
    KeepsPromise
