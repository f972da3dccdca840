SPECIFICATION EscrowSpec

CONSTANTS
    PipMultiplier = 10
    PipsDecimals = 1
    Undefined = Undefined
    DomainSeparator = "here"
    QuoteAssetSymbol = "USD"
    MaxUint64 = 1000
    NodesPerTime = 4
    ThisEscrow = "escrow"
    Escrows = {"escrow", "elsewhere"}
    EscrowAsset = "asset"
    IsNative = TRUE
    ExchangeWallets = {31, 32}
    Distributions <- MCDistributions
    Offers <- MCOffers
    OtherVersions = {13}
    EscrowQuantities = {3}
    MaxEscrow = 6
    MaxDepth = 2

INVARIANTS
    OneOfEachParent
    TotalsArePaid

PROPERTIES
    PaysWhatIsSigned
