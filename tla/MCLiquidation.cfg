SPECIFICATION LiquidationSpec

CONSTANTS
    PipMultiplier = 10
    NumWallets = 5
    NumMarkets = 1
    InsuranceFund = 1
    InitialExitFund = 2
    FeeWallet = 3
    Orders = {}
    Transfers = {}
    Withdrawals = {}
    OrderDetails = {"none"}
    WithdrawalRoutes = {"local"}
    UnitSize = 4
    ExitFundWithdrawDelay = 2
    OneDay = 1
    FundingPeriod = 2
    MaxFeeMultiplier = 5
    QuoteThreshold = 3
    DelegateKeyPeriod = 3
    NoOverride = NoOverride
    DepositUnits = {}
    TokenFees = {}
    GasFees = {}
    MaxDeposits = 0
    BaseQuantities = {}
    QuoteQuantities = {}
    MakerFees = {}
    TakerFees = {}
    NonceTimes = {}
    Roundings <- MCRoundings
    LiquidationQuotes = {10, 14}
    LiquidationFees = {1}
    BelowMinimumTolerance = 1
    DeleverageQuantities = {10}
    DeleverageQuotes = {6, 7, 10, 13}
    ExitFundWallets = {}
    IndexPrices = {5, 7, 14}
    OraclePrices = {}
    FundingRates <- NoRates
    FieldOptions <- MCFieldOptions
    PropagationPeriods = {0}
    MaxFundingPeriods = 1
    MaxTime = 5
    InitialLedger <- LongShort
    InitialUnits = 14
    InitialPrices <- FlatPrices
    InitialFields <- AllFields
    InitiallyActive = {1}
    StartTime = 3

PROPERTIES
    QuoteIsConserved
    PositionsAreConserved
    GrowthIsMargined
    BankruptcyStrategyIsSticky
