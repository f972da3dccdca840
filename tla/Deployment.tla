------------------------------- MODULE Deployment -------------------------------
(***************************************************************************)
(* Deploying contracts with lib/contracts: asynchronous calls of one       *)
(* process that share the provider which initRpcApi configures, and a      *)
(* chain behind a load-balanced RPC whose replicas lag.                    *)
(*                                                                         *)
(* A call gives way to the others at each await, so it is one action from  *)
(* one await to the next.  An address is made of the owner wallet and its  *)
(* nonce: it is the nonce, and one address is another contract on another  *)
(* chain.  What a contract does is not modelled, only which build of which *)
(* source it is and the libraries it is linked to.                         *)
(***************************************************************************)
EXTENDS Integers, Sequences, FiniteSets

CONSTANTS
    Callers,          \* calls in flight at a time
    Chains, Urls,
    NetworkOf,        \* the chain behind each URL
    MaxRetries, BaseDelay,
    MaxLag,           \* ticks until every replica knows a transaction
    MaxBuild,         \* bound on recompilations
    MaxDeployments,   \* bound on the transactions of this process
    Deployable,       \* what the client deploys, of LibraryNames and ContractNames
    InitialChains,    \* what it has deployed before
    None

VARIABLES
    provider,                   \* of utils.ts, shared by all calls
    libraryNameToBytecodeMap,   \* the build of each library read so far
    artifacts,                  \* the build on disk
    calls,                      \* the calls in flight
    resolved,                   \* what calls have resolved to
    chains                      \* of each chain, its transactions

vars == <<provider, libraryNameToBytecodeMap, artifacts, calls, resolved, chains>>

-----------------------------------------------------------------------------
(* Libraries and contracts. *)

BridgeAdapterLibraryName ==
    {"ExchangeAdapterComposing_v1", "KatanaPerpsStargateForwarderComposing_v1"}

\* The argument for each library, by which Exchange_v1 is given its address.
LibraryArguments ==
    [BalanceLoading                             |-> "balanceLoading",
     ClosureDeleveraging                        |-> "closureDeleveraging",
     Depositing                                 |-> "depositing",
     ExitFund                                   |-> "exitFund",
     Funding                                    |-> "funding",
     IndexPriceMargin                           |-> "indexPriceMargin",
     ManagedAccounts                            |-> "managedAccounts",
     MarketAdmin                                |-> "marketAdmin",
     NonceInvalidations                         |-> "nonceInvalidations",
     OraclePriceMargin                          |-> "oraclePriceMargin",
     PositionBelowMinimumLiquidation            |-> "positionBelowMinimumLiquidation",
     PositionInDeactivatedMarketLiquidation     |-> "positionInDeactivatedMarketLiquidation",
     Trading                                    |-> "trading",
     Transferring                               |-> "transferring",
     WalletExitAcquisitionDeleveraging          |-> "walletExitAcquisitionDeleveraging",
     WalletExitLiquidation                      |-> "walletExitLiquidation",
     WalletInMaintenanceAcquisitionDeleveraging |-> "walletInMaintenanceAcquisitionDeleveraging",
     WalletInMaintenanceLiquidation             |-> "walletInMaintenanceLiquidation",
     Withdrawing                                |-> "withdrawing"]

LibraryName == DOMAIN LibraryArguments

LibraryNames == LibraryName \cup BridgeAdapterLibraryName

\* A contract's compiled name and, for each library linked into it, the
\* argument of deploy that its address is taken from.
Wrapper(name, linkLibraryAddresses) == [name |-> name, link |-> linkLibraryAddresses]

NoLibraries == [library \in {} |-> None]

ASSUME DeploymentAssumption ==
    /\ NetworkOf \in [Urls -> Chains]
    /\ None \notin Nat
    /\ MaxRetries \in Nat /\ BaseDelay \in Nat /\ MaxLag \in Nat /\ MaxBuild \in Nat
    /\ InitialChains \in [Chains -> Seq([name : LibraryNames, build : Nat, link : {NoLibraries},
                                        status : {"mined"}, lag : {0}])]

\* Mutant of ExchangeV1Contract: one address is linked twice.
ExchangeWithoutTransferring ==
    Wrapper("Exchange_v1", [LibraryArguments EXCEPT !.Transferring = "trading"])

ExchangeV1Contract == Wrapper("Exchange_v1", LibraryArguments)

ExchangeLayerZeroAdapterV1Contract ==
    Wrapper("ExchangeLayerZeroAdapter_v1",
            [ExchangeAdapterComposing_v1 |-> "exchangeAdapterComposing"])

KatanaPerpsStargateForwarderV1Contract ==
    Wrapper("KatanaPerpsStargateForwarder_v1",
            [KatanaPerpsStargateForwarderComposing_v1 |-> "katanaPerpsStargateForwarderComposing"])

ChainlinkAggregatorMockContract == Wrapper("ChainlinkAggregatorMock", NoLibraries)

ChainlinkDataStreamsIndexAndOraclePriceAdapterContract ==
    Wrapper("ChainlinkDataStreamsIndexAndOraclePriceAdapter", NoLibraries)

ChainlinkDataStreamsIndexPriceAdapterContract ==
    Wrapper("ChainlinkDataStreamsIndexPriceAdapter", NoLibraries)

ChainlinkDataStreamsVerifierMockContract ==
    Wrapper("ChainlinkDataStreamsVerifierMock", NoLibraries)

CustodianContract == Wrapper("Custodian", NoLibraries)

EarningsEscrowContract == Wrapper("EarningsEscrow", NoLibraries)

ExchangeWalletStateAggregatorContract == Wrapper("ExchangeWalletStateAggregator", NoLibraries)

GovernanceContract == Wrapper("Governance", NoLibraries)

KatanaPerpsIndexAndOraclePriceAdapterContract ==
    Wrapper("KatanaPerpsIndexAndOraclePriceAdapter", NoLibraries)

RedStoneIndexPriceAdapterContract == Wrapper("RedStoneIndexPriceAdapter", NoLibraries)

USDCContract == Wrapper("USDC", NoLibraries)

Wrappers ==
    {ExchangeV1Contract, ExchangeLayerZeroAdapterV1Contract, KatanaPerpsStargateForwarderV1Contract,
     ChainlinkAggregatorMockContract, ChainlinkDataStreamsIndexAndOraclePriceAdapterContract,
     ChainlinkDataStreamsIndexPriceAdapterContract, ChainlinkDataStreamsVerifierMockContract,
     CustodianContract, EarningsEscrowContract, ExchangeWalletStateAggregatorContract,
     GovernanceContract, KatanaPerpsIndexAndOraclePriceAdapterContract,
     RedStoneIndexPriceAdapterContract, USDCContract}

-----------------------------------------------------------------------------
(* Calls and transactions. *)

Idle == [pc |-> "idle"]

IsDeploying(call) == call.pc \notin {"idle", "detecting"}

\* The chain a call was given the provider of.
ChainOf(call) == NetworkOf[call.owner.url]

Transaction(call) == chains[ChainOf(call)][call.address]

\* Those sent by this process.
Sent ==
    UNION {{<<chain, a>> : a \in Len(InitialChains[chain]) + 1..Len(chains[chain])} : chain \in Chains}

Unsent == {c \in Callers : calls[c].pc \in {"populating", "sending"}}

SetCall(c, call) == calls' = [calls EXCEPT ![c] = call]

-----------------------------------------------------------------------------
(* initRpcApi, before and after it has detected the network.  It replaces  *)
(* the provider of all, whatever they are in the midst of.                 *)

initRpcApi(c, apiUrl, chainId) ==
    /\ calls[c] = Idle
    /\ SetCall(c, [pc |-> "detecting", apiUrl |-> apiUrl, chainId |-> chainId])
    /\ UNCHANGED <<provider, libraryNameToBytecodeMap, artifacts, resolved, chains>>

IsOfChain(apiUrl, chainId) == NetworkOf[apiUrl] = chainId

DetectNetwork(c) ==
    /\ calls[c].pc = "detecting"
    /\ provider' = IF IsOfChain(calls[c].apiUrl, calls[c].chainId)
                   THEN [url |-> calls[c].apiUrl, chainId |-> calls[c].chainId]
                   ELSE provider
    /\ SetCall(c, Idle)
    /\ UNCHANGED <<libraryNameToBytecodeMap, artifacts, resolved, chains>>

FailToDetectNetwork(c) ==
    /\ calls[c].pc = "detecting"
    /\ SetCall(c, Idle)
    /\ UNCHANGED <<provider, libraryNameToBytecodeMap, artifacts, resolved, chains>>

-----------------------------------------------------------------------------
(* deployLibrary and deploy, up to their first await. *)

\* Mutant of loadLibraryBytecode: reads the file each time.
ReadLibraryBytecode(name) == artifacts

loadLibraryBytecode(name) ==
    IF libraryNameToBytecodeMap[name] = None THEN artifacts ELSE libraryNameToBytecodeMap[name]

\* The owner is connected to the provider of this moment.
Deployment(name, build, link) ==
    [pc |-> "populating", name |-> name, build |-> build, link |-> link,
     owner |-> provider, address |-> 0, attempt |-> 0, wait |-> 0]

CanDeploy(c) ==
    /\ calls[c] = Idle
    /\ Cardinality(Sent) + Cardinality(Unsent) < MaxDeployments

\* The bytecode is read, and kept, before the provider is missed.
deployLibrary(c, name) ==
    /\ calls[c] = Idle
    /\ libraryNameToBytecodeMap' =
           [libraryNameToBytecodeMap EXCEPT ![name] = loadLibraryBytecode(name)]
    /\ IF provider = None
       THEN UNCHANGED calls
       ELSE CanDeploy(c) /\ SetCall(c, Deployment(name, loadLibraryBytecode(name), NoLibraries))
    /\ UNCHANGED <<provider, artifacts, resolved, chains>>

\* What deployLibrary has resolved to for a library, on a chain.
AddressesOf(name, chain) ==
    {r.address : r \in {s \in resolved : s.name = name /\ s.chain = chain}}

\* The client's argument: its last address of each library on the chain it is
\* about to deploy to, under the name that deploy documents for it.
ArgumentOf(library) ==
    CASE library = "ExchangeAdapterComposing_v1" -> "exchangeAdapterComposing"
      [] library = "KatanaPerpsStargateForwarderComposing_v1" -> "katanaPerpsStargateForwarderComposing"
      [] OTHER -> LibraryArguments[library]

LibraryAddresses(wrapper) ==
    [argument \in {ArgumentOf(library) : library \in DOMAIN wrapper.link} |->
        LET library == CHOOSE l \in LibraryNames : ArgumentOf(l) = argument
            known   == AddressesOf(library, NetworkOf[provider.url])
        IN  CHOOSE a \in known : \A b \in known : b <= a]

\* A factory's bytecode is the one it was compiled with.
deploy(c, wrapper) ==
    /\ provider # None
    /\ CanDeploy(c)
    /\ \A library \in DOMAIN wrapper.link : AddressesOf(library, NetworkOf[provider.url]) # {}
    /\ SetCall(c, Deployment(wrapper.name, 0,
                             [library \in DOMAIN wrapper.link |->
                                 LibraryAddresses(wrapper)[wrapper.link[library]]]))
    /\ UNCHANGED <<provider, libraryNameToBytecodeMap, artifacts, resolved, chains>>

-----------------------------------------------------------------------------
(* The owner's wallet: it reads its nonce, then sends. *)

\* From a replica that may not know the last transactions yet.
Populate(c) ==
    /\ calls[c].pc = "populating"
    /\ LET sent == chains[ChainOf(calls[c])]
       IN  \E known \in 0..Len(sent) :
             /\ \A a \in known + 1..Len(sent) : sent[a].lag > 0
             /\ SetCall(c, [calls[c] EXCEPT !.pc = "sending", !.address = known + 1])
    /\ UNCHANGED <<provider, libraryNameToBytecodeMap, artifacts, resolved, chains>>

Broadcast(call) ==
    /\ call.address = Len(chains[ChainOf(call)]) + 1
    /\ chains' = [chains EXCEPT ![ChainOf(call)] =
                      Append(@, [name |-> call.name, build |-> call.build, link |-> call.link,
                                 status |-> "pending", lag |-> MaxLag])]

Send(c) ==
    /\ calls[c].pc = "sending"
    /\ \/ Broadcast(calls[c]) /\ SetCall(c, [calls[c] EXCEPT !.pc = "waiting"])
       \/ Broadcast(calls[c]) /\ SetCall(c, Idle)       \* the response is lost
       \/ /\ calls[c].address <= Len(chains[ChainOf(calls[c])])
          /\ SetCall(c, Idle)                           \* the nonce is taken
          /\ UNCHANGED chains
    /\ UNCHANGED <<provider, libraryNameToBytecodeMap, artifacts, resolved>>

-----------------------------------------------------------------------------
(* waitForDeployment, and what deploy does then. *)

Delay(attempt) == BaseDelay * 2 ^ attempt

\* Mutant of NotFound: out of retries, it resolves anyway.
NotFoundIsEnough(call) ==
    IF call.attempt = MaxRetries THEN [call EXCEPT !.pc = "deployed"]
    ELSE [call EXCEPT !.pc = "backoff", !.wait = Delay(call.attempt), !.attempt = @ + 1]

\* Mutant of NotFound: gives up one retry early.
NotFoundOnce(call) ==
    IF call.attempt + 1 >= MaxRetries THEN Idle
    ELSE [call EXCEPT !.pc = "backoff", !.wait = Delay(call.attempt), !.attempt = @ + 1]

NotFound(call) ==
    IF call.attempt = MaxRetries THEN Idle
    ELSE [call EXCEPT !.pc = "backoff", !.wait = Delay(call.attempt), !.attempt = @ + 1]

\* Mutant of LookUp: the receipt's status is not looked at.
LookUpAnyReceipt(c) ==
    /\ calls[c].pc = "waiting"
    /\ \/ Transaction(calls[c]).lag > 0 /\ SetCall(c, NotFound(calls[c]))
       \/ Transaction(calls[c]).status # "pending" /\ SetCall(c, [calls[c] EXCEPT !.pc = "deployed"])
    /\ UNCHANGED <<provider, libraryNameToBytecodeMap, artifacts, resolved, chains>>

\* A replica that does not know the transaction throws "transaction not found";
\* another waits for it to be mined, and throws if it is reverted.
LookUp(c) ==
    /\ calls[c].pc = "waiting"
    /\ \/ Transaction(calls[c]).lag > 0 /\ SetCall(c, NotFound(calls[c]))
       \/ Transaction(calls[c]).status = "mined" /\ SetCall(c, [calls[c] EXCEPT !.pc = "deployed"])
       \/ Transaction(calls[c]).status = "reverted" /\ SetCall(c, Idle)
    /\ UNCHANGED <<provider, libraryNameToBytecodeMap, artifacts, resolved, chains>>

Retry(c) ==
    /\ calls[c].pc = "backoff" /\ calls[c].wait = 0
    /\ SetCall(c, [calls[c] EXCEPT !.pc = "waiting"])
    /\ UNCHANGED <<provider, libraryNameToBytecodeMap, artifacts, resolved, chains>>

\* A library resolves to its address, a contract to a wrapper that is connected
\* to the provider of this moment, which need not be of the contract's chain.
Resolve(c) ==
    /\ calls[c].pc = "deployed"
    /\ resolved' = resolved \cup
           {[name |-> calls[c].name, address |-> calls[c].address, chain |-> ChainOf(calls[c]),
             provider |-> IF calls[c].name \in LibraryNames THEN None ELSE provider]}
    /\ SetCall(c, Idle)
    /\ UNCHANGED <<provider, libraryNameToBytecodeMap, artifacts, chains>>

-----------------------------------------------------------------------------
(* The chains, the time, the compiler. *)

Mine(chain, a, status) ==
    /\ chains[chain][a].status = "pending"
    /\ \A b \in 1..a - 1 : chains[chain][b].status # "pending"
    /\ chains' = [chains EXCEPT ![chain][a].status = status]
    /\ UNCHANGED <<provider, libraryNameToBytecodeMap, artifacts, calls, resolved>>

CountDown(n) == IF n > 0 THEN n - 1 ELSE 0

Tick ==
    /\ chains' = [chain \in Chains |->
                     [a \in DOMAIN chains[chain] |->
                         [chains[chain][a] EXCEPT !.lag = CountDown(@)]]]
    /\ calls' = [c \in Callers |->
                    IF calls[c].pc = "backoff" THEN [calls[c] EXCEPT !.wait = CountDown(@)]
                    ELSE calls[c]]
    /\ <<chains, calls>>' # <<chains, calls>>
    /\ UNCHANGED <<provider, libraryNameToBytecodeMap, artifacts, resolved>>

Compile ==
    /\ artifacts < MaxBuild
    /\ artifacts' = artifacts + 1
    /\ UNCHANGED <<provider, libraryNameToBytecodeMap, calls, resolved, chains>>

-----------------------------------------------------------------------------
Init ==
    /\ provider = None
    /\ libraryNameToBytecodeMap = [name \in LibraryNames |-> None]
    /\ artifacts = 0
    /\ calls = [c \in Callers |-> Idle]
    /\ resolved = UNION {{[name |-> InitialChains[chain][a].name, address |-> a,
                           chain |-> chain, provider |-> None] :
                              a \in DOMAIN InitialChains[chain]} : chain \in Chains}
    /\ chains = InitialChains

Settle(c) == LookUp(c) \/ Retry(c) \/ Resolve(c)

Next ==
    \/ \E c \in Callers :
          \/ \E apiUrl \in Urls, chainId \in Chains : initRpcApi(c, apiUrl, chainId)
          \/ DetectNetwork(c)
          \/ FailToDetectNetwork(c)
          \/ \E name \in LibraryNames \cap Deployable : deployLibrary(c, name)
          \/ \E wrapper \in {w \in Wrappers : w.name \in Deployable} : deploy(c, wrapper)
          \/ Populate(c)
          \/ Send(c)
          \/ Settle(c)
    \/ \E chain \in Chains : \E a \in DOMAIN chains[chain], status \in {"mined", "reverted"} :
          Mine(chain, a, status)
    \/ Tick
    \/ Compile

Spec == Init /\ [][Next]_vars

\* Timers fire, and what is ready is run.
FairSpec ==
    /\ Spec
    /\ WF_vars(Tick)
    /\ \A c \in Callers : WF_vars(Settle(c))

-----------------------------------------------------------------------------
\* Invariant.  Each library a contract is linked to, under the name it was
\* compiled with, is deployed at that address of the same chain.
LinkedLibrariesAreDeployed ==
    \A chain \in Chains : \A a \in DOMAIN chains[chain] :
        LET link == chains[chain][a].link
        IN  \A library \in DOMAIN link :
                /\ chains[chain][link[library]].name = library
                /\ chains[chain][link[library]].status = "mined"

\* Invariant.  What a call resolves to is a contract of its name, mined at that
\* address of the chain it began with: although its nonce may have been read
\* from a replica that lags or taken by another call, responses are lost, look-ups
\* fail, transactions revert and the provider is replaced between its awaits.
ResolvedAreDeployed ==
    \A r \in resolved :
        /\ r.address \in DOMAIN chains[r.chain]
        /\ chains[r.chain][r.address].name = r.name
        /\ chains[r.chain][r.address].status = "mined"

\* Invariant.  All deployments of a library by one process are of one build.
OneBuildPerLibrary ==
    \A s, t \in Sent :
        chains[s[1]][s[2]].name = chains[t[1]][t[2]].name =>
            chains[s[1]][s[2]].build = chains[t[1]][t[2]].build

\* What is left of a call's exponential backoff.
RemainingBackoff(call) ==
    BaseDelay * (2 ^ MaxRetries - 2 ^ call.attempt) + call.wait

\* Temporal property.  A deployment that is mined is not lost to replicas that
\* have not heard of it: the call that waits for it gets it, if the rest of its
\* backoff is as long as the lag.
MinedDeploymentsResolve ==
    \A c \in Callers :
        /\ calls[c].pc \in {"waiting", "backoff"}
        /\ Transaction(calls[c]).status = "mined"
        /\ Transaction(calls[c]).lag <= RemainingBackoff(calls[c])
        ~> calls[c].pc = "deployed"

===============================================================================
