SPECIFICATION ClaimsSpec

CONSTANTS
    PipMultiplier = 10
    NumWallets = 5
    NumMarkets = 1
    InsuranceFund = 1
    InitialExitFund = 2
    FeeWallet = 3
    Orders <- MCOrderSet
    Transfers = {}
    Withdrawals = {}
    OrderDetails <- MCOrderDetails
    WithdrawalRoutes = {}
    UnitSize = 4
    ExitFundWithdrawDelay = 2
    OneDay = 1
    FundingPeriod = 2
    MaxFeeMultiplier = 5
    QuoteThreshold = 3
    DelegateKeyPeriod = 3
    NoOverride = NoOverride
    DepositUnits = {}
    TokenFees = {}
    GasFees = {}
    MaxDeposits = 0
    BaseQuantities <- MCBaseQuantities
    QuoteQuantities <- MCQuoteQuantities
    MakerFees <- MCMakerFees
    TakerFees <- MCTakerFees
    NonceTimes = {}
    Roundings = {0}
    LiquidationQuotes = {}
    LiquidationFees = {}
    BelowMinimumTolerance = 1
    DeleverageQuantities = {}
    DeleverageQuotes = {}
    ExitFundWallets = {}
    IndexPrices = {}
    OraclePrices = {}
    FundingRates <- NoRates
    FieldOptions = {}
    PropagationPeriods = {0}
    MaxFundingPeriods = 1
    MaxTime = 3
    InitialLedger <- MCFunds
    InitialUnits = 14
    InitialPrices <- FlatPrices
    InitialFields <- AllFields
    InitiallyActive = {1}
    StartTime = 3
    PipsDecimals = 1
    Undefined = Undefined
    DomainSeparator = "here"
    QuoteAssetSymbol = "USD"
    MaxUint64 = 1000
    NodesPerTime = 4
    Domains = {"here", "elsewhere"}
    DelegatedKeys = {}
    TransferRequests = {}
    WithdrawalRequests = {}
    OrderRequests <- TriggerRequests
    AuthorizationRequests = {}
    TradeTexts <- MCTrades
    GasFeeTexts = {}

INVARIANTS
    TriggersAreAsChosen
