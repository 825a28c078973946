\* Two markets of a push group, one fault of any kind; chain of three transactions read by two polls in pages of two; one metal,
\* one watch, one fixed price and two refreshes; a history of three points;
\* one level of alerts (the levels share nothing), two requests under way.
SPECIFICATION Spec
CONSTANTS
    Markets = {1, 2}
    Ticks = {1}
    Targets <- MCTwoFeeds
    InitPrice = 20
    MaxInFlight = 2
    MaxLosses = 1
    Users = {"u"}
    Contents <- MCContents
    Limit = 2
    Backfill = 3
    Cap = 4
    Polls = {1, 2}
    MaxLog = 3
    MaxFaults = 1
    Metals = {"gold"}
    Watches = {"sub"}
    Statics = {"box"}
    FallbackUsd <- MCFallback
    Weight <- MCWeight
    Quotes = {8, 9}
    Listings <- MCListings
    Searches = 2
    Refreshes = {1, 2}
    MaxFailures = 2
    Prices = {1, 2}
    RecordInterval = 2
    MaxPoints = 3
    Resolution = 4
    MaxTime = 9
    Levels = {"CRITICAL"}
    RateLimit <- MCRateLimit
    MaxAsked = 2
INVARIANTS
    PassedIsStored
    ReportsAgree
    SavedIsHeld
    TargetsSound
    IndexFollows
    CandlesFaithful
PROPERTIES
    UnaffectedFollow
    AlarmsGoOut
CHECK_DEADLOCK FALSE
