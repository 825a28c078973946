\* Hooks: two wallets, two markets, two changes, two reads under way, one
\* failed; forms: amounts of one, two handlers under way, a component shown
\* twice; desk: two slots, two positions, three changes of the page; bell: two
\* slots, two positions, two connections or reloads; visit: unbounded.
SPECIFICATION PagesSpec
CONSTANTS
    Wallets = {w1, w2}
    Markets = {m1, m2}
    Shared = shared
    Nobody = nobody
    MaxVersion = 2
    Closed = {0, 2}
    MaxReads = 2
    MaxSwitches = 3
    MaxFaults = 1
    MaxAmount = 1
    MaxRuns = 2
    MaxMounts = 2
    MaxGains = 1
    DeskSlots = {1, 2}
    MaxOpened = 2
    MaxVisits = 3
    BellSlots = {1, 2}
    MaxNumber = 2
    MaxNotices = 2
    MaxToasts = 1
    MaxSessions = 2
    MaxMoves = 1
INVARIANTS
    OneAtATime
PROPERTIES
    OnlyOwnAnswers
    NeverTurnedAway
    ViewsCatchUp
    FormsReleased
    PendingSettles
    ClosuresNoticed
CHECK_DEADLOCK FALSE
