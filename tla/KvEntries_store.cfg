\* Two entries, plain, zero-trust and device-encrypted, two recipients, an import
\* while the policy of its device changes.
SPECIFICATION Spec
CONSTANTS
    Names = {n1, n2}
    Devices = {d1, d2}
    Calls = {c1}
    Ttls = {1}
    MaxTime = 1
    MaxVersion = 2
    Ops = {"upsert", "delete", "seal", "unseal", "get", "fetch", "import"}
    None = None
INVARIANTS
    TypeOK
    WrapsOpenTheBody
    FetchedWrapIsNoOlder
    ImportChecksTheWholeFile
SYMMETRY Symmetry
