CONSTANTS
    c1 = c1
    d1 = d1
    d2 = d2
    sweep = sweep
    Clients = {c1}
    Drains = {d1, d2}
    Sweeps = {sweep}
    Legacy = {d2}
    Nobody = Nobody
    Cli = Cli
    Timeout = 1
    MaxRequests = 2
SPECIFICATION FairSpec
INVARIANTS
    SyncTypeOK
    HeldRequestIsRunning
PROPERTIES
    ImplementsLife
    RequestsMoveOn
