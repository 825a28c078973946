\* One trader who moves margin and sets triggers, a referrer, and an admin who pauses.
SPECIFICATION Spec
CONSTANTS
    SecondsPerHour = 2
    FundingScale = 100000
    NumUsers = 2
    Markets = {1}
    DefaultOracle = 0
    MaxPositions = 1
    MaxMarketOI = 18000
    Precision = 1000
    MinFirstDeposit = 100
    Staleness = 1
    MinOracleInterval = 1
    MinFundingInterval = 1
    UpgradeUniqueRefs = 1
    UpgradeFees = 20
    InitParams <- MCParams
    SeedPrice = 100
    InitWallet <- MCReferredWallet
    Traders = {1}
    Providers = {}
    Referrers = {2}
    Prices = {95, 106}
    DefaultPrices = {100}
    DepositAmounts = {1000}
    MarginAmounts = {400}
    OpenSizes = {1000}
    Leverages = {10}
    Stops = {96, 105}
    LpAmounts = {}
    BurnAmounts = {}
    TreasuryAmounts = {}
    FeeShares = {3000}
    ParamSets <- MCSameParams
    Pauses = {"on", "off"}
    MaxTime = 3
INVARIANTS
    ReferralLedger
PROPERTIES
    ManualPauseHeld
    HealthKept
