\* A trader against the pool of one provider, who burns shares in parts, and an
\* admin who withdraws and who has set shares of the fee that exceed the whole
\* before anybody comes.
SPECIFICATION Spec
CONSTANTS
    SecondsPerHour = 2
    FundingScale = 100000
    NumUsers = 3
    Markets = {1}
    DefaultOracle = 0
    MaxPositions = 1
    MaxMarketOI = 18000
    Precision = 1000
    MinFirstDeposit = 100
    Staleness = 1
    MinOracleInterval = 1
    MinFundingInterval = 1
    UpgradeUniqueRefs = 1
    UpgradeFees = 20
    InitParams <- MCOversharedFees
    SeedPrice = 100
    InitWallet <- MCProvidersWallet
    Traders = {1}
    Providers = {2}
    Referrers = {}
    Prices = {88, 97}
    DefaultPrices = {}
    DepositAmounts = {1000}
    MarginAmounts = {}
    OpenSizes = {1000}
    Leverages = {10}
    Stops = {}
    LpAmounts = {1000}
    BurnAmounts = {700}
    TreasuryAmounts = {50}
    FeeShares = {}
    ParamSets <- MCOversharing
    Pauses = {"keep"}
    MaxTime = 2
INVARIANTS
    PoolBacked
    FeeVaultCovered
PROPERTIES
    PreviewsAgree
