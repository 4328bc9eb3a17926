CONSTANTS
    acme = acme
    bolt = bolt
    Queries = {acme}
    MaxHunts = 2
    MaxRows = 1
    Nothing = Nothing
SPECIFICATION FairPageSpec
INVARIANTS
    PageTypeOK
PROPERTIES
    HuntIsNotSwapped
    PanelSettles
