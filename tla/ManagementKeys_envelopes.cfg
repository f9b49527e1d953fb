\* One call beside the operator, two devices, one key of each kind, two entries.
SPECIFICATION Spec
CONSTANTS
    Devices = {d1, d2}
    Management = {m1}
    Provisioned = {p1}
    Names = {n1, n2}
    Calls = {c1}
    None = None
SYMMETRY Symmetry
INVARIANTS
    TypeOK
    EnvelopesAreJudged
