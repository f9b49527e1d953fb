\* Two racing requests of one device over one entry: bans, expiry, unban, under the
\* fairness of the runtime.
SPECIFICATION FairSpec
CONSTANTS
    Devices = {d1}
    Requests = {r1, r2}
    Names = {k1}
    BaseSecs = 1
    MaxBanSecs = 2
    MaxShift = 40
    MaxTime = 3
    MaxArrivals = 2
INVARIANTS
    TypeOK
    ViolationAnswered
    UntornDecision
    BannedDeviceWaits
PROPERTIES
    ImplementsLedger
    RequestAnswered
