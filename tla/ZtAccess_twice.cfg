\* One token presented by two calls.
SPECIFICATION Spec
CONSTANTS
    Passkeys = {p1}
    Entries = {e1}
    Challenges = {h1}
    Tokens = {t1}
    Calls = {c1, c2}
    MaxRestarts = 0
    None = None
SYMMETRY Symmetry
INVARIANTS
    TokenIsUsedOnce
