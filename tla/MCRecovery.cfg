SPECIFICATION RecoverySpec

CONSTANTS
    PipMultiplier = 10
    NumWallets = 8
    NumMarkets = 2
    InsuranceFund = 1
    InitialExitFund = 2
    FeeWallet = 3
    Orders <- MCOrders
    Transfers = {}
    Withdrawals <- MCWithdrawals
    OrderDetails = {"none"}
    WithdrawalRoutes = {"local"}
    UnitSize = 4
    ExitFundWithdrawDelay = 2
    OneDay = 1
    FundingPeriod = 2
    MaxFeeMultiplier = 5
    QuoteThreshold = 3
    DelegateKeyPeriod = 3
    NoOverride = NoOverride
    DepositUnits = {}
    TokenFees = {}
    GasFees = {}
    MaxDeposits = 0
    BaseQuantities = {}
    QuoteQuantities = {}
    MakerFees = {}
    TakerFees = {}
    NonceTimes = {}
    Roundings = {0}
    LiquidationQuotes = {}
    LiquidationFees = {}
    BelowMinimumTolerance = 1
    DeleverageQuantities = {10, 20}
    DeleverageQuotes = {6, 7, 10, 13, 14, 20}
    ExitFundWallets = {2, 8}
    IndexPrices = {7}
    OraclePrices = {1, 6, 10, 20, 30}
    FundingRates <- MCRates
    FieldOptions = {}
    PropagationPeriods = {1}
    MaxFundingPeriods = 1
    MaxTime = 6
    InitialLedger <- FourUsers
    InitialUnits = 13
    InitialPrices <- FlatPrices
    InitialFields <- AllFields
    InitiallyActive = {1, 2}
    StartTime = 3

INVARIANTS
    OpenMarketsAreTracked
    ExitFundFundingIsCurrent

PROPERTIES
    ExitFundClockStartsWithRecovery
    QuoteIsConserved
    RecoveryWindsDown
    FinalExitWindsDown
    ExitPaysAtMostEquity
    ExitsComplete
