SPECIFICATION FundingSpec

CONSTANTS
    PipMultiplier = 10
    NumWallets = 5
    NumMarkets = 1
    InsuranceFund = 1
    InitialExitFund = 2
    FeeWallet = 3
    Orders <- MCOrders
    Transfers <- MCTransfers
    Withdrawals <- MCWithdrawals
    OrderDetails = {"none"}
    WithdrawalRoutes = {"local"}
    UnitSize = 4
    ExitFundWithdrawDelay = 2
    OneDay = 1
    FundingPeriod = 2
    MaxFeeMultiplier = 5
    QuoteThreshold = 3
    DelegateKeyPeriod = 3
    NoOverride = NoOverride
    DepositUnits = {3}
    TokenFees = {0, 1}
    GasFees = {1}
    MaxDeposits = 1
    BaseQuantities = {}
    QuoteQuantities = {11}
    MakerFees = {}
    TakerFees = {}
    NonceTimes = {}
    Roundings = {0}
    LiquidationQuotes = {}
    LiquidationFees = {}
    BelowMinimumTolerance = 1
    DeleverageQuantities = {20}
    DeleverageQuotes = {11, 12, 13}
    ExitFundWallets = {}
    IndexPrices = {7}
    OraclePrices = {}
    FundingRates <- MCRates
    FieldOptions = {}
    PropagationPeriods = {0}
    MaxFundingPeriods = 0
    MaxTime = 9
    InitialLedger <- LongShort
    InitialUnits = 14
    InitialPrices <- FlatPrices
    InitialFields <- AllFields
    InitiallyActive = {1}
    StartTime = 5
    None = None
    P = P
    Providers = {P}
    InitialProviders <- MCInitialProviders
    ProviderLists = {{}}
    ManagedWithdrawals <- MCManagedWithdrawals
    GrossQuantities = {5, 6}
    ExitQuantities = {4, 7}
    EMPTY <- Sentinel

INVARIANTS
    TypeOK
    ProvidersKnowPendingDeposits
    ManagedWithdrawalsSettleOnce
    QuartetsPayEachPeriod

PROPERTIES
    QuoteIsConserved
    OutflowIsMargined
    ManagedExitPaysAtMostEquity
