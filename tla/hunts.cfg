CONSTANTS
    c1 = c1
    acme = acme
    bolt = bolt
    t1 = t1
    t2 = t2
    Queries = {acme, bolt}
    Clients = {c1}
    Workers = {t1, t2}
    Timeout = 1
    MaxHunts = 2
    MaxRows = 1
    Nothing = Nothing
SPECIFICATION FairHuntSpec
INVARIANTS
    HuntTypeOK
    HeldHuntIsRunning
    LastAnswerIsWhole
PROPERTIES
    ImplementsHuntLife
    HuntsEnd
