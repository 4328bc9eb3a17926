CONSTANTS
    acme = acme
    bolt = bolt
    Queries = {acme, bolt}
    MaxHunts = 2
    MaxRows = 1
    Nothing = Nothing
SPECIFICATION PageSpec
INVARIANTS
    HuntIsOfTheCompany
