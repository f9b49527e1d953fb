\* Two calls race over two requests of d1.
SPECIFICATION Spec
CONSTANTS
    Devices = {d1}
    Challenges = {c1}
    Items = {s1, s2}
    Calls = {k1, k2}
    None = None
SYMMETRY Symmetry
INVARIANTS
    TypeOK
    TokenMatchesDecision
    ChallengeOpensOneRequest
PROPERTIES
    ImplementsHandover
