SPECIFICATION Spec

CONSTANTS
    Governances = {"g1", "g2"}
    Exchanges = {"x1", "x2"}
    Migrators = {"m1"}
    Wallets = {"w1", "w2"}
    Market = "market"
    BridgeAdapterLists = {"adapters"}
    IndexPriceAdapterSets <- MCIndexPriceAdapterSets
    ProviderLists <- MCProviders
    OverridableFields = {"special"}
    Adapters = {"katana", "redstone", "chainlink"}
    Activator <- MCActivator
    ActivatedOnce = {"redstone"}
    ContractDelay <- MCContractDelay
    FieldDelay = 1
    InitialCustodian <- MCCustodian
    InitialSettings <- MCSettings
    None = None
    MaxUpgrades = 2
    MaxDisturbances = 1

PROPERTIES
    ProvidersAreNeverRemoved
