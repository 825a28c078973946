\* Timelock: two keys, a fee within bounds and one beyond, a delay of two
\* units; payouts: three cells, around which head and tail go up to three
\* times; accounts: one e-mail, two calls at a time, one link, one call cut
\* short, one password, since nothing checked here tells passwords apart;
\* wallet: two keys in one tab, three failed accesses or closed tabs; tape:
\* two watchers, two prices, two answers of each kind under way; chart: two
\* prices, two moments, two timeframes; scripts: three markets, one of them
\* too long, two people, two scripts that stop half way; hand-over: two
\* members, two votes needed, two transactions put to the vote.
SPECIFICATION PartsSpec
CONSTANTS
    Keys = {"admin", "vault"}
    InitAdmin = "admin"
    Delay = 2
    MaxFeeBps = 500
    Fees = {400, 600}
    Vaults = {0}
    Amounts = {1}
    InitBalance = 1
    MaxTime = 4
    Users = {"ann", "bob"}
    Nobody = "nobody"
    Size = 3
    QueueAmounts = {1, 2}
    MaxOwed = 9
    MaxVault = 3
    Emails = {"e"}
    Passwords = {"p"}
    Wallets = {"v", "w"}
    Callers = {1, 2}
    LinkLife = 0
    FundingGap = 1
    NoRow = NoRow
    MaxTokens = 1
    LastTime = 1
    MaxCuts = 1
    KeyPairs = {"k1", "k2"}
    Tabs = {1}
    None = None
    External = External
    MaxAes = 3
    MaxFaults = 3
    Watchers = {"header", "panel"}
    Prices = {1, 2}
    LastTick = 2
    MaxAhead = 1
    MaxAnswers = 2
    MaxPoints = 3
    ChartPrices = {1, 2}
    LastMoment = 2
    Listing = {1, 2, 3}
    TooLong = {2}
    Operators = {"op1", "op2"}
    MaxExits = 2
    Vault = "vault"
    Members = {"admin", "ann"}
    Threshold = 2
    MaxTransactions = 2
INVARIANTS
    NothingLost
    WalletsHonoured
    LinksAreSpent
    FundingIsLimited
    KeysKept
    TapeSound
    ChartSound
    ManifestSound
PROPERTIES
    ChangesWait
    MembersDecide
    IsFifo
CHECK_DEADLOCK FALSE
