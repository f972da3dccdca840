SPECIFICATION FairSpec

CONSTANTS
    Callers = {1, 2}
    Chains = {"mainnet", "testnet"}
    Urls = {"main", "test"}
    NetworkOf <- MCNetworkOf
    MaxRetries = 1
    BaseDelay = 1
    MaxLag = 2
    MaxBuild = 1
    MaxDeployments = 2
    Deployable = {"Trading", "Exchange_v1"}
    InitialChains <- LibrariesDeployed
    None = None

INVARIANTS
    ResolvedAreDeployed
    LinkedLibrariesAreDeployed
    OneBuildPerLibrary

PROPERTIES
    MinedDeploymentsResolve
