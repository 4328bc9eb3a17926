CONSTANTS
    list = list
    link = link
    listed = listed
    both = both
    own = own
    acme = acme
    bolt = bolt
    key = key
    w1 = w1
    w2 = w2
    Listings = {list}
    Links = {link}
    Texts = {listed, both, own}
    Blank = Blank
    ShownAt <- MCShownAt
    Names <- MCNames
    Secrets <- MCSecrets
    LinksOn <- MCLinksOn
    Workers = {w1, w2}
    None = None
    MaxFaults = 1
    MaxChanges = 1
SPECIFICATION FairSpec
INVARIANTS
    IngestTypeOK
    HandledIsStored
PROPERTIES
    ShownIsStored
