\* One trader with two positions in two markets, and an admin who raises the fees.
SPECIFICATION Spec
CONSTANTS
    SecondsPerHour = 2
    FundingScale = 100000
    NumUsers = 1
    Markets = {1, 2}
    DefaultOracle = 0
    MaxPositions = 2
    MaxMarketOI = 18000
    Precision = 1000
    MinFirstDeposit = 100
    Staleness = 1
    MinOracleInterval = 1
    MinFundingInterval = 1
    UpgradeUniqueRefs = 1
    UpgradeFees = 20
    InitParams <- MCParams
    SeedPrice = 100
    InitWallet <- MCSlotsWallet
    Traders = {1}
    Providers = {}
    Referrers = {}
    Prices = {88}
    DefaultPrices = {}
    DepositAmounts = {2000}
    MarginAmounts = {}
    OpenSizes = {1000}
    Leverages = {10}
    Stops = {}
    LpAmounts = {}
    BurnAmounts = {}
    TreasuryAmounts = {}
    FeeShares = {}
    ParamSets <- MCRaisedFees
    Pauses = {"keep"}
    MaxTime = 2
INVARIANTS
    TypeOK
    CollateralLedger
    InterestLedger
