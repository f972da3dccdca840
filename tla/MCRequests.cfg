SPECIFICATION RequestsSpec

CONSTANTS
    PipMultiplier = 10
    NumWallets = 5
    NumMarkets = 2
    InsuranceFund = 1
    InitialExitFund = 2
    FeeWallet = 3
    Orders <- MCOrderSet
    Transfers <- MCTransfers
    Withdrawals <- MCWithdrawals
    OrderDetails <- MCOrderDetails
    WithdrawalRoutes <- MCRoutes
    UnitSize = 4
    ExitFundWithdrawDelay = 2
    OneDay = 1
    FundingPeriod = 2
    MaxFeeMultiplier = 5
    QuoteThreshold = 3
    DelegateKeyPeriod = 4
    NoOverride = NoOverride
    DepositUnits = {}
    TokenFees = {}
    GasFees <- MCGasFees
    MaxDeposits = 0
    BaseQuantities <- MCBaseQuantities
    QuoteQuantities <- MCQuoteQuantities
    MakerFees <- MCMakerFees
    TakerFees <- MCTakerFees
    NonceTimes = {2}
    Roundings = {0}
    LiquidationQuotes = {}
    LiquidationFees = {}
    BelowMinimumTolerance = 1
    DeleverageQuantities = {}
    DeleverageQuotes = {}
    ExitFundWallets = {}
    IndexPrices = {}
    OraclePrices = {}
    FundingRates <- NoRates
    FieldOptions = {}
    PropagationPeriods = {0}
    MaxFundingPeriods = 1
    MaxTime = 3
    InitialLedger <- MCFunds
    InitialUnits = 14
    InitialPrices <- FlatPrices
    InitialFields <- AllFields
    InitiallyActive = {1, 2}
    StartTime = 3
    PipsDecimals = 1
    Undefined = Undefined
    DomainSeparator = "here"
    QuoteAssetSymbol = "USD"
    MaxUint64 = 1000
    NodesPerTime = 4
    Domains = {"here", "elsewhere"}
    DelegatedKeys = {11}
    TransferRequests <- MCTransferRequests
    WithdrawalRequests <- MCWithdrawalRequests
    OrderRequests <- MCOrderRequests
    AuthorizationRequests <- MCAuthorizations
    TradeTexts <- MCTrades
    GasFeeTexts <- MCGasFeeTexts

INVARIANTS
    SignedPaymentsVerify
    OutflowsAreSigned
    PositionsAreSigned

PROPERTIES
    SettlesWhatIsAuthorized
