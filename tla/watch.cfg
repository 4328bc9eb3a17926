CONSTANTS
    acme = acme
    acmeUrl = acmeUrl
    junk = junk
    r1 = r1
    r2 = r2
    m1 = m1
    m2 = m2
    Records = {r1}
    Values = {acme}
    Spellings = {acme, acmeUrl, junk}
    Normal <- MCNormal
    Unusable = Unusable
    Runs = {m1, m2}
    MaxEntries = 2
    MaxClock = 4
    Overlap = 2
    MaxOpen = 1
SPECIFICATION FairSpec
INVARIANTS
    WatchTypeOK
    WatermarkIsHonest
PROPERTIES
    ReadStaysRead
    PendingResolves
    ArrivalsAreReported
