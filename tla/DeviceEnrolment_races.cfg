\* Two accounts, two ceremonies, a proposal and two concurrent calls.
SPECIFICATION Spec
CONSTANTS
    Owners = {o1, o2}
    Names = {n1}
    Materials = {m1, m2}
    Devices = {d1, d2}
    Challenges = {h1, h2}
    Proposals = {p1}
    Calls = {c1, c2}
    None = None
SYMMETRY Symmetry
INVARIANTS
    TypeOK
    OneDevicePerTouch
    ConfirmedProposalMatches
    RestrictedDeviceDoesNotEnrol
PROPERTIES
    DecisionIsFinal
