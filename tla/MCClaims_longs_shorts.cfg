SPECIFICATION MarketSpec

CONSTANTS
    PipMultiplier = 10
    NumWallets = 5
    NumMarkets = 1
    InsuranceFund = 1
    InitialExitFund = 2
    FeeWallet = 3
    Orders = {}
    Transfers = {}
    Withdrawals = {}
    OrderDetails = {"none"}
    WithdrawalRoutes = {"local"}
    UnitSize = 4
    ExitFundWithdrawDelay = 2
    OneDay = 1
    FundingPeriod = 2
    MaxFeeMultiplier = 5
    QuoteThreshold = 3
    DelegateKeyPeriod = 3
    NoOverride = NoOverride
    DepositUnits = {}
    TokenFees = {}
    GasFees = {}
    MaxDeposits = 0
    BaseQuantities = {}
    QuoteQuantities = {}
    MakerFees = {}
    TakerFees = {}
    NonceTimes = {}
    Roundings = {0}
    LiquidationQuotes = {20}
    LiquidationFees = {}
    BelowMinimumTolerance = 1
    DeleverageQuantities = {}
    DeleverageQuotes = {}
    ExitFundWallets = {}
    IndexPrices = {}
    OraclePrices = {}
    FundingRates <- NoRates
    FieldOptions = {}
    PropagationPeriods = {0}
    MaxFundingPeriods = 1
    MaxTime = 3
    InitialLedger <- LongShort
    InitialUnits = 14
    InitialPrices <- FlatPrices
    InitialFields <- AllFields
    InitiallyActive = {1}
    StartTime = 3

INVARIANTS
    LongsEqualShorts
