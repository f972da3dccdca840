SPECIFICATION TradingSpec

CONSTANTS
    PipMultiplier = 10
    NumWallets = 5
    NumMarkets = 1
    InsuranceFund = 1
    InitialExitFund = 2
    FeeWallet = 3
    Orders <- MCOrders
    Transfers = {}
    Withdrawals = {}
    OrderDetails = {"none"}
    WithdrawalRoutes = {"local"}
    UnitSize = 4
    ExitFundWithdrawDelay = 2
    OneDay = 1
    FundingPeriod = 2
    MaxFeeMultiplier = 5
    QuoteThreshold = 3
    DelegateKeyPeriod = 3
    NoOverride = NoOverride
    DepositUnits = {}
    TokenFees = {}
    GasFees = {}
    MaxDeposits = 0
    BaseQuantities = {10, 20}
    QuoteQuantities = {9, 19}
    MakerFees <- MCMakerFees
    TakerFees = {1}
    NonceTimes = {3, 4}
    Roundings = {0}
    LiquidationQuotes = {}
    LiquidationFees = {}
    BelowMinimumTolerance = 1
    DeleverageQuantities = {}
    DeleverageQuotes = {}
    ExitFundWallets = {}
    IndexPrices = {8}
    OraclePrices = {}
    FundingRates <- NoRates
    FieldOptions <- MCFieldOptions
    PropagationPeriods = {1}
    MaxFundingPeriods = 1
    MaxTime = 5
    InitialLedger <- MCLedger
    InitialUnits = 14
    InitialPrices <- FlatPrices
    InitialFields <- AllFields
    InitiallyActive = {1}
    StartTime = 3

INVARIANTS
    CostBasisFollowsPosition
    PositionsFollowOrders

PROPERTIES
    GrowthIsMargined
    InvalidatedOrdersStayInvalid
