SPECIFICATION ConsoleSpec
CONSTANTS
    Records <- MCRecords
    KindOf <- MCKindOf
    GroupOf <- MCGroupOf
    DomainOf <- MCDomainOf
    NoDomain = "none"
    LeakTypeOf <- MCLeakTypeOf
    TypesOf <- MCTypesOf
    Countries <- MCCountries
    NoCountry = "none"
    WordsOf <- MCWordsOf
    Alphabet <- MCAlphabet
    Places <- MCPlaces
    SlotsPerDay = 3
    Zones <- MCZones
    Saving = 2
    Horizon = 4
    PageSize = 1
    MaxArcs = 1
    AnyValue = "any"
    Histories <- MCHistories
    Before <- MCBefore
    Skew <- MCSkew
    Visits <- MCVisits
    OfferedIs <- MCOfferedIs
    OfferedHas <- MCOfferedHas
    NoQuestion = NoQuestion
    MaxFaults = 1
    MaxPage = 3
    MaxFlights = 2
    MaxHeld = 1
CHECK_DEADLOCK FALSE
INVARIANTS
    ConsoleTypeOK
    RowsAnswerTheFilters
    FacetsCountTheirFilter
    ChartCountsEveryArrival
    MapAgreesWithItself
PROPERTIES
    ListNeverGoesBack
    AnnouncedIsShown
    PolledCatchesUp
