\* Two ceremonies, two tokens, two concurrent readers and a restart.
SPECIFICATION Spec
CONSTANTS
    Passkeys = {p1, p2}
    Entries = {e1}
    Challenges = {h1, h2}
    Tokens = {t1, t2}
    Calls = {c1, c2}
    MaxRestarts = 1
    None = None
SYMMETRY Symmetry
INVARIANTS
    TypeOK
    SpentTokenIsRefused
PROPERTIES
    CeremonyKeepsPromise
