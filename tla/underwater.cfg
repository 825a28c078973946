\* A position closed after its loss has outgrown its collateral.
SPECIFICATION Spec
CONSTANTS
    SecondsPerHour = 2
    FundingScale = 100000
    NumUsers = 2
    Markets = {1}
    DefaultOracle = 0
    MaxPositions = 1
    MaxMarketOI = 18000
    Precision = 1000
    MinFirstDeposit = 100
    Staleness = 1
    MinOracleInterval = 1
    MinFundingInterval = 1
    UpgradeUniqueRefs = 1
    UpgradeFees = 20
    InitParams <- MCParams
    SeedPrice = 100
    InitWallet <- MCTradersWallet
    Traders = {1, 2}
    Providers = {}
    Referrers = {}
    Prices = {88, 100, 114}
    DefaultPrices = {}
    DepositAmounts = {1000}
    MarginAmounts = {}
    OpenSizes = {1000}
    Leverages = {10}
    Stops = {}
    LpAmounts = {}
    BurnAmounts = {}
    TreasuryAmounts = {}
    FeeShares = {}
    ParamSets <- MCSameParams
    Pauses = {"keep"}
    MaxTime = 2
INVARIANTS
    FeeVaultSolvent
