\* A trader and two providers who come and go.
SPECIFICATION Spec
CONSTANTS
    SecondsPerHour = 2
    FundingScale = 100000
    NumUsers = 3
    Markets = {1}
    DefaultOracle = 0
    MaxPositions = 1
    MaxMarketOI = 18000
    Precision = 1000
    MinFirstDeposit = 100
    Staleness = 1
    MinOracleInterval = 0
    MinFundingInterval = 1
    UpgradeUniqueRefs = 1
    UpgradeFees = 20
    InitParams <- MCParams
    SeedPrice = 100
    InitWallet <- MCProvidersWallet
    Traders = {1}
    Providers = {2, 3}
    Referrers = {}
    Prices = {99}
    DefaultPrices = {}
    DepositAmounts = {1000}
    MarginAmounts = {}
    OpenSizes = {1000}
    Leverages = {4}
    Stops = {}
    LpAmounts = {1000}
    BurnAmounts = {}
    TreasuryAmounts = {}
    FeeShares = {}
    ParamSets <- MCSameParams
    Pauses = {"keep"}
    MaxTime = 1
INVARIANTS
    SharesLedger
PROPERTIES
    ShareValueKept
    ClaimsEarned
