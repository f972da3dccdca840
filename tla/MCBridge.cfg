SPECIFICATION Spec

CONSTANTS
    Transfers = {"t1", "t2"}
    Wallets <- MCWallets
    Alice = Alice
    Bob = Bob
    Fund = Fund
    None = None
    ExitFundWallet = Fund
    FeeWallet = FeeWallet
    Owner = Owner
    Blocked = {Bob}
    Messages <- MCMessages
    Quantities = {4}
    InitialBalances <- MCInitialBalances
    MinimumMultiplier = 9
    PipPriceMultiplier = 10
    Losses = {0, 1, 2}
    ComposeParameters <- MCComposeParameters
    Reverted = Reverted
    MaxChanges = 1

INVARIANTS
    HoldsWhatIsUnderWay

PROPERTIES
    
    TransfersArriveOnce
    TransfersEnd

CHECK_DEADLOCK FALSE
