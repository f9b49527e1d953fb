\* Two devices, one challenge and two requests, one call at a time, under the fairness of
\* the runtime.
SPECIFICATION FairSpec
CONSTANTS
    Devices = {d1, d2}
    Challenges = {c1}
    Items = {s1, s2}
    Calls = {k1}
    None = None
PROPERTIES
    RowsSettle
