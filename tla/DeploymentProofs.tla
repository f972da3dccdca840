---------------------------- MODULE DeploymentProofs ----------------------------
(***************************************************************************)
(* Proofs about Deployment: a call resolves only to what is deployed, a    *)
(* contract is linked to deployed libraries only, and a process deploys    *)
(* one build of each.                                                      *)
(***************************************************************************)
EXTENDS Deployment, TLAPS, SequenceTheorems, WellFoundedInduction

(***************************************************************************)
(* The calls: idle, detecting a network, or deploying with the provider    *)
(* they were given at their start, whatever the shared one is meanwhile.   *)
(***************************************************************************)
DeployingCall(pc, call) ==
    [pc |-> pc, name |-> call.name, build |-> call.build, link |-> call.link, owner |-> call.owner,
     address |-> call.address, attempt |-> call.attempt, wait |-> call.wait]

IsCall(call) ==
    \/ call = Idle
    \/ call = [pc |-> "detecting", apiUrl |-> call.apiUrl, chainId |-> call.chainId]
    \/ \E pc \in {"populating", "sending", "waiting", "backoff", "deployed"} :
          call = DeployingCall(pc, call)

CallsOK ==
    /\ calls = [c \in Callers |-> calls[c]]
    /\ \A c \in Callers : IsCall(calls[c])

LEMMA CallsInit == Init => CallsOK
BY DEF Init, CallsOK, IsCall, Idle

\* A call that only moves on keeps the provider it was given.
KeepsOwner(call, next) ==
    /\ IsCall(next)
    /\ next.pc # "detecting"
    /\ IsDeploying(next) => IsDeploying(call) /\ next.owner = call.owner

LEMMA MovingOnKeepsOwner ==
    ASSUME NEW call, IsCall(call), IsDeploying(call), NEW address
    PROVE  /\ KeepsOwner(call, Idle)
           /\ \A pc \in {"sending", "waiting", "deployed"} :
                 KeepsOwner(call, [call EXCEPT !.pc = pc])
           /\ KeepsOwner(call, [call EXCEPT !.pc = "sending", !.address = address])
           /\ KeepsOwner(call, NotFound(call))
           /\ KeepsOwner(call, [call EXCEPT !.wait = CountDown(@)])
<1>1. PICK p \in {"populating", "sending", "waiting", "backoff", "deployed"} :
        call = DeployingCall(p, call)
      BY DEF IsCall, IsDeploying, Idle
<1>2. ASSUME NEW next,
             \E pc \in {"populating", "sending", "waiting", "backoff", "deployed"} :
                /\ next = DeployingCall(pc, next)
                /\ next.owner = call.owner
      PROVE  KeepsOwner(call, next)
      BY <1>2 DEF KeepsOwner, IsCall, IsDeploying, DeployingCall
<1>3. KeepsOwner(call, Idle)
      BY DEF KeepsOwner, IsCall, IsDeploying, Idle
<1>4. ASSUME NEW pc \in {"sending", "waiting", "deployed"}
      PROVE  KeepsOwner(call, [call EXCEPT !.pc = pc])
  <2>. DEFINE next == [call EXCEPT !.pc = pc]
  <2>1. next = DeployingCall(pc, next) /\ next.owner = call.owner
        BY <1>1 DEF DeployingCall
  <2>. QED  BY <1>2, <2>1
<1>5. KeepsOwner(call, [call EXCEPT !.pc = "sending", !.address = address])
  <2>. DEFINE moved == [call EXCEPT !.pc = "sending"]
              next  == [moved EXCEPT !.address = address]
  <2>1. moved = DeployingCall("sending", call)
        BY <1>1 DEF DeployingCall
  <2>. HIDE DEF moved
  <2>2. next = DeployingCall("sending", next) /\ next.owner = call.owner
        BY <2>1 DEF DeployingCall
  <2>3. KeepsOwner(call, next)
        BY <1>2, <2>2
  <2>. QED  BY <2>3 DEF moved
<1>6. KeepsOwner(call, NotFound(call))
  <2>. DEFINE moved  == [call EXCEPT !.pc = "backoff"]
              waits  == [moved EXCEPT !.wait = Delay(call.attempt)]
              next   == [waits EXCEPT !.attempt = @ + 1]
  <2>1. moved = DeployingCall("backoff", call)
        BY <1>1 DEF DeployingCall
  <2>. HIDE DEF moved
  <2>2. waits = DeployingCall("backoff", waits) /\ waits.owner = call.owner
        BY <2>1 DEF DeployingCall
  <2>. HIDE DEF waits
  <2>3. next = DeployingCall("backoff", next) /\ next.owner = call.owner
        BY <2>2 DEF DeployingCall
  <2>4. KeepsOwner(call, next)
        BY <1>2, <2>3
  <2>. QED  BY <1>3, <2>4 DEF NotFound, waits, moved
<1>7. KeepsOwner(call, [call EXCEPT !.wait = CountDown(@)])
  <2>. DEFINE next == [call EXCEPT !.wait = CountDown(@)]
  <2>1. next = DeployingCall(p, next) /\ next.owner = call.owner
        BY <1>1 DEF DeployingCall
  <2>. QED  BY <1>2, <2>1
<1>. QED  BY <1>3, <1>4, <1>5, <1>6, <1>7

LEMMA MovingOnKeepsCalls ==
    ASSUME CallsOK, NEW c \in Callers, NEW call, SetCall(c, call), IsCall(call)
    PROVE  CallsOK'
<1>1. \A d \in Callers : calls'[d] = IF d = c THEN call ELSE calls[d]
      BY DEF CallsOK, SetCall
<1>. QED  BY <1>1 DEF CallsOK, SetCall

LEMMA CallsStep == CallsOK /\ [Next]_vars => CallsOK'
<1>. SUFFICES ASSUME CallsOK, [Next]_vars PROVE CallsOK'
     OBVIOUS
<1>1. ASSUME NEW c \in Callers, NEW apiUrl \in Urls, NEW chainId \in Chains,
             initRpcApi(c, apiUrl, chainId)
      PROVE  CallsOK'
  <2>1. IsCall([pc |-> "detecting", apiUrl |-> apiUrl, chainId |-> chainId])
        BY DEF IsCall
  <2>. QED  BY <1>1, <2>1, MovingOnKeepsCalls DEF initRpcApi
<1>2. IsCall(Idle)
      BY DEF IsCall
<1>3. ASSUME NEW c \in Callers, DetectNetwork(c) \/ FailToDetectNetwork(c) PROVE CallsOK'
      BY <1>2, <1>3, MovingOnKeepsCalls DEF DetectNetwork, FailToDetectNetwork
<1>4. ASSUME NEW c \in Callers, NEW name, NEW build, NEW link, SetCall(c, Deployment(name, build, link))
      PROVE  CallsOK'
  <2>1. IsCall(Deployment(name, build, link))
        BY DEF Deployment, IsCall, DeployingCall
  <2>. QED  BY <1>4, <2>1, MovingOnKeepsCalls
<1>5. ASSUME NEW c \in Callers, NEW name, deployLibrary(c, name) PROVE CallsOK'
  <2>1. CASE provider = None
        BY <1>5, <2>1 DEF deployLibrary, CallsOK
  <2>2. CASE provider # None
        BY <1>4, <1>5, <2>2 DEF deployLibrary
  <2>. QED  BY <2>1, <2>2
<1>6. ASSUME NEW c \in Callers, NEW wrapper, deploy(c, wrapper) PROVE CallsOK'
      BY <1>4, <1>6 DEF deploy
<1>7. ASSUME NEW c \in Callers, calls[c].pc \notin {"idle", "detecting"}
      PROVE  IsCall(calls[c]) /\ IsDeploying(calls[c])
      BY <1>7 DEF CallsOK, IsDeploying
<1>8. ASSUME NEW c \in Callers, Populate(c) PROVE CallsOK'
  <2>1. PICK address : SetCall(c, [calls[c] EXCEPT !.pc = "sending", !.address = address])
        BY <1>8 DEF Populate
  <2>2. KeepsOwner(calls[c], [calls[c] EXCEPT !.pc = "sending", !.address = address])
        BY <1>7, <1>8, MovingOnKeepsOwner DEF Populate
  <2>. QED  BY <2>1, <2>2, MovingOnKeepsCalls DEF KeepsOwner
<1>9. ASSUME NEW c \in Callers, Send(c) PROVE CallsOK'
  <2>1. SetCall(c, [calls[c] EXCEPT !.pc = "waiting"]) \/ SetCall(c, Idle)
        BY <1>9 DEF Send
  <2>2. KeepsOwner(calls[c], [calls[c] EXCEPT !.pc = "waiting"])
        BY <1>7, <1>9, MovingOnKeepsOwner DEF Send
  <2>. QED  BY <1>2, <2>1, <2>2, MovingOnKeepsCalls DEF KeepsOwner
<1>10. ASSUME NEW c \in Callers, LookUp(c) PROVE CallsOK'
  <2>1. \/ SetCall(c, NotFound(calls[c])) \/ SetCall(c, Idle)
        \/ SetCall(c, [calls[c] EXCEPT !.pc = "deployed"])
        BY <1>10 DEF LookUp
  <2>2. KeepsOwner(calls[c], NotFound(calls[c])) /\ KeepsOwner(calls[c], [calls[c] EXCEPT !.pc = "deployed"])
        BY <1>7, <1>10, MovingOnKeepsOwner DEF LookUp
  <2>. QED  BY <1>2, <2>1, <2>2, MovingOnKeepsCalls DEF KeepsOwner
<1>11. ASSUME NEW c \in Callers, Retry(c) PROVE CallsOK'
  <2>1. KeepsOwner(calls[c], [calls[c] EXCEPT !.pc = "waiting"])
        BY <1>7, <1>11, MovingOnKeepsOwner DEF Retry
  <2>. QED  BY <1>11, <2>1, MovingOnKeepsCalls DEF Retry, KeepsOwner
<1>12. ASSUME NEW c \in Callers, Resolve(c) PROVE CallsOK'
       BY <1>2, <1>12, MovingOnKeepsCalls DEF Resolve
<1>13. ASSUME Tick PROVE CallsOK'
  <2>1. \A c \in Callers : calls'[c] = IF calls[c].pc = "backoff"
                                       THEN [calls[c] EXCEPT !.wait = CountDown(@)]
                                       ELSE calls[c]
        BY <1>13 DEF Tick
  <2>2. ASSUME NEW c \in Callers PROVE calls'[c] = calls[c] \/ KeepsOwner(calls[c], calls'[c])
        BY <2>1, MovingOnKeepsOwner DEF CallsOK, IsDeploying
  <2>. QED  BY <1>13, <2>2 DEF Tick, CallsOK, KeepsOwner
<1>14. ASSUME UNCHANGED calls PROVE CallsOK'
       BY <1>14 DEF CallsOK
<1>15. ASSUME NEW chain, NEW a, NEW status, Mine(chain, a, status) PROVE CallsOK'
       BY <1>14, <1>15 DEF Mine
<1>16. CASE Compile
       BY <1>14, <1>16 DEF Compile
<1>17. CASE UNCHANGED vars
       BY <1>14, <1>17 DEF vars
<1>. QED  BY <1>1, <1>3, <1>5, <1>6, <1>8, <1>9, <1>10, <1>11, <1>12, <1>13, <1>15, <1>16, <1>17
          DEF Next, Settle

-----------------------------------------------------------------------------
(***************************************************************************)
(* What is on the chains only grows: a transaction keeps its address and   *)
(* what it deploys, and once mined it stays.  What is linked was resolved  *)
(* before, so it is mined at that address of that chain, and is the        *)
(* library of the argument's name because every wrapper names the argument *)
(* that the client gives the library under.                                *)
(***************************************************************************)
Names == LibraryNames \cup {w.name : w \in Wrappers}

Links == UNION {[L -> Nat \cup {None}] : L \in SUBSET LibraryNames}

Tx == [name : Names, build : Nat, link : Links, status : {"pending", "mined", "reverted"},
       lag : Nat]

Owner == [url : Urls, chainId : Chains]

CallTyped(call) ==
    /\ call.pc = "detecting" => call.apiUrl \in Urls /\ call.chainId \in Chains
    /\ IsDeploying(call) =>
         /\ call.name \in Names /\ call.build \in Nat /\ call.link \in Links
         /\ call.owner \in Owner /\ call.address \in Nat

Typed ==
    /\ provider \in Owner \cup {None}
    /\ libraryNameToBytecodeMap \in [LibraryNames -> Nat \cup {None}]
    /\ artifacts \in Nat
    /\ chains \in [Chains -> Seq(Tx)]
    /\ \A c \in Callers : CallTyped(calls[c])

\* What the wrappers and the client agree on: the argument of each library.
LEMMA WrappersLinkByName ==
    ASSUME NEW wrapper \in Wrappers
    PROVE  /\ wrapper.name \in Names
           /\ wrapper.name \notin LibraryNames
           /\ DOMAIN wrapper.link \subseteq LibraryNames
           /\ \A library \in DOMAIN wrapper.link : wrapper.link[library] = ArgumentOf(library)
<1>1. LibraryName = {"BalanceLoading", "ClosureDeleveraging", "Depositing", "ExitFund", "Funding",
        "IndexPriceMargin", "ManagedAccounts", "MarketAdmin", "NonceInvalidations",
        "OraclePriceMargin", "PositionBelowMinimumLiquidation",
        "PositionInDeactivatedMarketLiquidation", "Trading", "Transferring",
        "WalletExitAcquisitionDeleveraging", "WalletExitLiquidation",
        "WalletInMaintenanceAcquisitionDeleveraging", "WalletInMaintenanceLiquidation",
        "Withdrawing"}
  BY DEF LibraryName, LibraryArguments
<1>2. wrapper.name \in Names
  BY DEF Names
<1>3. CASE wrapper = ExchangeV1Contract
  <2>1. wrapper.name = "Exchange_v1" /\ wrapper.link = LibraryArguments
    BY <1>3 DEF ExchangeV1Contract, Wrapper
  <2>2. wrapper.name \notin LibraryNames
    BY <1>1, <2>1 DEF LibraryNames, BridgeAdapterLibraryName
  <2>3. \A library \in LibraryName : LibraryArguments[library] = ArgumentOf(library)
    BY <1>1 DEF ArgumentOf
  <2> QED BY <1>2, <2>1, <2>2, <2>3 DEF LibraryNames, LibraryName
<1>4. CASE wrapper = ExchangeLayerZeroAdapterV1Contract
  BY <1>1, <1>2, <1>4 DEF ExchangeLayerZeroAdapterV1Contract, Wrapper, LibraryNames,
     BridgeAdapterLibraryName, ArgumentOf
<1>5. CASE wrapper = KatanaPerpsStargateForwarderV1Contract
  BY <1>1, <1>2, <1>5 DEF KatanaPerpsStargateForwarderV1Contract, Wrapper, LibraryNames,
     BridgeAdapterLibraryName, ArgumentOf
<1>6. ASSUME wrapper \in Wrappers \ {ExchangeV1Contract, ExchangeLayerZeroAdapterV1Contract,
                                     KatanaPerpsStargateForwarderV1Contract}
      PROVE  /\ wrapper.name \notin LibraryNames
             /\ DOMAIN wrapper.link = {}
  <2>1. wrapper.link = NoLibraries
    BY <1>6 DEF Wrappers, Wrapper, ChainlinkAggregatorMockContract,
       ChainlinkDataStreamsIndexAndOraclePriceAdapterContract,
       ChainlinkDataStreamsIndexPriceAdapterContract, ChainlinkDataStreamsVerifierMockContract,
       CustodianContract, EarningsEscrowContract, ExchangeWalletStateAggregatorContract,
       GovernanceContract, KatanaPerpsIndexAndOraclePriceAdapterContract,
       RedStoneIndexPriceAdapterContract, USDCContract
  <2>2. wrapper.name \in {"ChainlinkAggregatorMock",
          "ChainlinkDataStreamsIndexAndOraclePriceAdapter", "ChainlinkDataStreamsIndexPriceAdapter",
          "ChainlinkDataStreamsVerifierMock", "Custodian", "EarningsEscrow",
          "ExchangeWalletStateAggregator", "Governance", "KatanaPerpsIndexAndOraclePriceAdapter",
          "RedStoneIndexPriceAdapter", "USDC"}
    BY <1>6 DEF Wrappers, Wrapper, ChainlinkAggregatorMockContract,
       ChainlinkDataStreamsIndexAndOraclePriceAdapterContract,
       ChainlinkDataStreamsIndexPriceAdapterContract, ChainlinkDataStreamsVerifierMockContract,
       CustodianContract, EarningsEscrowContract, ExchangeWalletStateAggregatorContract,
       GovernanceContract, KatanaPerpsIndexAndOraclePriceAdapterContract,
       RedStoneIndexPriceAdapterContract, USDCContract
  <2>3. wrapper.name \notin LibraryNames
    BY <1>1, <2>2 DEF LibraryNames, BridgeAdapterLibraryName
  <2> QED BY <2>1, <2>3 DEF NoLibraries
<1>7. QED
  BY <1>2, <1>3, <1>4, <1>5, <1>6

\* No two libraries are given under the same argument.
LEMMA ArgumentsAreDistinct ==
    ASSUME NEW l \in LibraryNames, NEW k \in LibraryNames, ArgumentOf(l) = ArgumentOf(k)
    PROVE  l = k
BY DEF LibraryNames, LibraryName, LibraryArguments, BridgeAdapterLibraryName, ArgumentOf

\* Every nonempty set of naturals that is bounded has a greatest element.
LEMMA GreatestNatural ==
    ASSUME NEW T, T \subseteq Nat, T # {}, NEW n \in Nat, \A x \in T : x <= n
    PROVE  \E x \in T : \A y \in T : y <= x
<1> DEFINE Bounds == {b \in Nat : \A x \in T : x <= b}
<1>1. \E b \in Bounds : \A d \in Bounds : ~ (<<d, b>> \in OpToRel(<, Nat))
  <2>1. Bounds # {} /\ Bounds \subseteq Nat
    OBVIOUS
  <2> HIDE DEF Bounds
  <2> QED BY <2>1, NatLessThanWellFounded, WFMin
<1>2. PICK b \in Bounds : \A d \in Bounds : ~ (<<d, b>> \in OpToRel(<, Nat))
  BY <1>1
<1>3. b \in T
  <2>1. SUFFICES ASSUME b \notin T PROVE FALSE
    OBVIOUS
  <2>2. PICK x \in T : x <= b
    OBVIOUS
  <2>3. b - 1 \in Nat /\ \A y \in T : y <= b - 1
    BY <2>1, <2>2
  <2>4. b - 1 \in Bounds /\ b \in Nat
    BY <2>3
  <2>5. <<b - 1, b>> \in OpToRel(<, Nat)
    BY <2>3, <2>4 DEF OpToRel
  <2> QED BY <1>2, <2>4, <2>5
<1>4. QED
  BY <1>3

\* A function on 1..n is a sequence of length n.
LEMMA SeqOfFunction ==
    ASSUME NEW S, NEW n \in Nat, NEW f \in [1..n -> S]
    PROVE  f \in Seq(S) /\ Len(f) = n
<1>1. f \in Seq(S)
  BY SeqDef
<1>2. DOMAIN f = 1..Len(f) /\ Len(f) \in Nat
  BY <1>1, LenProperties
<1> DEFINE k == Len(f)
<1>3. k \in Nat /\ 1..k = 1..n
  BY <1>2
<1> HIDE DEF k
<1>4. \A x \in Nat, y \in Nat : 1..x = 1..y => x <= y
  <2>1. ASSUME NEW x \in Nat, NEW y \in Nat, 1..x = 1..y
        PROVE  x <= y
    <3>1. x # 0 => x \in 1..y
      BY <2>1
    <3> QED BY <3>1
  <2> QED BY <2>1
<1>5. k <= n /\ n <= k
  BY <1>3, <1>4
<1>6. k = n
  BY <1>3, <1>5
<1>7. QED
  BY <1>1, <1>6 DEF k

ChainsGrow ==
    \A chain \in Chains :
        /\ Len(chains[chain]) \in Nat /\ Len(chains'[chain]) \in Nat
        /\ Len(chains[chain]) <= Len(chains'[chain])
        /\ \A a \in 1..Len(chains[chain]) :
              /\ chains'[chain][a].name = chains[chain][a].name
              /\ chains'[chain][a].build = chains[chain][a].build
              /\ chains'[chain][a].link = chains[chain][a].link
              /\ chains[chain][a].status = "mined" => chains'[chain][a].status = "mined"

SameLengths == \A chain \in Chains : Len(chains'[chain]) = Len(chains[chain])

\* The transactions a chain may start with.
LEMMA ChainTypes ==
    ASSUME Typed, NEW chain \in Chains
    PROVE  /\ chains[chain] \in Seq(Tx)
           /\ Len(chains[chain]) \in Nat
           /\ DOMAIN chains[chain] = 1..Len(chains[chain])
           /\ \A a \in 1..Len(chains[chain]) : chains[chain][a] \in Tx
BY LenProperties, ElementOfSeq DEF Typed

\* A chain that is not touched.
LEMMA SameChains ==
    ASSUME Typed, UNCHANGED chains
    PROVE  ChainsGrow /\ SameLengths
BY ChainTypes DEF ChainsGrow, SameLengths

\* Mining only settles what was pending.
LEMMA MineGrows ==
    ASSUME Typed, NEW chain \in Chains, NEW a \in DOMAIN chains[chain],
           NEW status \in {"mined", "reverted"}, Mine(chain, a, status)
    PROVE  /\ ChainsGrow /\ SameLengths
           /\ chains' \in [Chains -> Seq(Tx)]
<1> DEFINE seq == chains[chain]
           tx  == [seq[a] EXCEPT !.status = status]
           new == [seq EXCEPT ![a] = tx]
<1>1. seq \in Seq(Tx) /\ Len(seq) \in Nat /\ a \in 1..Len(seq) /\ seq[a] \in Tx
  BY ChainTypes
<1>2. seq[a].status = "pending" /\ chains' = [chains EXCEPT ![chain] = new]
  BY DEF Mine
<1>3. /\ tx \in Tx /\ tx.name = seq[a].name /\ tx.build = seq[a].build /\ tx.link = seq[a].link
  BY <1>1 DEF Tx
<1> HIDE DEF tx
<1>4. /\ new \in Seq(Tx) /\ Len(new) = Len(seq)
      /\ \A b \in 1..Len(seq) : new[b] = IF b = a THEN tx ELSE seq[b]
  BY <1>1, <1>3, ExceptSeq
<1> HIDE DEF new
<1>5. \A d \in Chains : chains'[d] = IF d = chain THEN new ELSE chains[d]
  BY <1>2 DEF Typed
<1>6. chains' \in [Chains -> Seq(Tx)]
  BY <1>2, <1>4 DEF Typed
<1>7. ASSUME NEW d \in Chains
      PROVE  /\ Len(chains[d]) \in Nat /\ Len(chains'[d]) \in Nat
             /\ Len(chains'[d]) = Len(chains[d]) /\ Len(chains[d]) <= Len(chains'[d])
             /\ \A b \in 1..Len(chains[d]) :
                  /\ chains'[d][b].name = chains[d][b].name
                  /\ chains'[d][b].build = chains[d][b].build
                  /\ chains'[d][b].link = chains[d][b].link
                  /\ chains[d][b].status = "mined" => chains'[d][b].status = "mined"
  <2>1. CASE d = chain
    BY <1>1, <1>2, <1>3, <1>4, <1>5, <2>1
  <2>2. CASE d # chain
    BY <1>5, <2>2, ChainTypes
  <2> QED BY <2>1, <2>2
<1>8. QED
  BY <1>6, <1>7 DEF ChainsGrow, SameLengths

\* Time only lets the replicas catch up.
LEMMA TickGrows ==
    ASSUME Typed, Tick
    PROVE  /\ ChainsGrow /\ SameLengths
           /\ chains' \in [Chains -> Seq(Tx)]
<1>1. chains' = [chain \in Chains |->
                   [a \in DOMAIN chains[chain] |->
                      [chains[chain][a] EXCEPT !.lag = CountDown(@)]]]
  BY DEF Tick
<1>2. ASSUME NEW chain \in Chains
      PROVE  /\ chains'[chain] \in Seq(Tx) /\ Len(chains'[chain]) = Len(chains[chain])
             /\ Len(chains[chain]) \in Nat
             /\ \A a \in 1..Len(chains[chain]) :
                   chains'[chain][a] = [chains[chain][a] EXCEPT !.lag = CountDown(@)]
  <2> DEFINE seq == chains[chain]
             n   == Len(seq)
             new == [a \in DOMAIN seq |-> [seq[a] EXCEPT !.lag = CountDown(@)]]
  <2>1. n \in Nat /\ DOMAIN seq = 1..n /\ \A a \in 1..n : seq[a] \in Tx
    BY ChainTypes
  <2>2. chains'[chain] = new
    BY <1>1
  <2>3. \A a \in 1..n : [seq[a] EXCEPT !.lag = CountDown(@)] \in Tx
    BY <2>1 DEF Tx, CountDown
  <2> HIDE DEF seq, n
  <2>4. new \in [1..n -> Tx]
    BY <2>1, <2>3
  <2>5. \A a \in 1..n : new[a] = [seq[a] EXCEPT !.lag = CountDown(@)]
    BY <2>1
  <2> HIDE DEF new
  <2>6. new \in Seq(Tx) /\ Len(new) = n
    BY <2>1, <2>4, SeqOfFunction
  <2> QED BY <2>1, <2>2, <2>5, <2>6 DEF seq, n
<1>3. chains' \in [Chains -> Seq(Tx)]
  BY <1>1, <1>2
<1>4. ASSUME NEW chain \in Chains, NEW a \in 1..Len(chains[chain])
      PROVE  /\ chains'[chain][a].name = chains[chain][a].name
             /\ chains'[chain][a].build = chains[chain][a].build
             /\ chains'[chain][a].link = chains[chain][a].link
             /\ chains'[chain][a].status = chains[chain][a].status
  <2> DEFINE tx == chains[chain][a]
  <2>1. tx \in Tx /\ chains'[chain][a] = [tx EXCEPT !.lag = CountDown(@)]
    BY <1>2, ChainTypes
  <2> HIDE DEF tx
  <2> QED BY <2>1 DEF Tx, CountDown, tx
<1>5. QED
  BY <1>2, <1>3, <1>4 DEF ChainsGrow, SameLengths

\* A broadcast adds one transaction, at the call's address.
LEMMA BroadcastGrows ==
    ASSUME Typed, NEW call, CallTyped(call), IsDeploying(call), MaxLag \in Nat, Broadcast(call)
    PROVE  /\ ChainsGrow
           /\ chains' \in [Chains -> Seq(Tx)]
           /\ ChainOf(call) \in Chains
           /\ LET chain == ChainOf(call)
                  tx    == chains'[chain][call.address]
              IN  /\ call.address = Len(chains[chain]) + 1
                  /\ Len(chains'[chain]) = Len(chains[chain]) + 1
                  /\ tx.name = call.name /\ tx.build = call.build /\ tx.link = call.link
                  /\ \A d \in Chains \ {chain} : chains'[d] = chains[d]
<1> DEFINE chain == ChainOf(call)
           seq == chains[chain]
           tx  == [name |-> call.name, build |-> call.build, link |-> call.link,
                   status |-> "pending", lag |-> MaxLag]
           new == Append(seq, tx)
<1>1. chain \in Chains
  BY DeploymentAssumption DEF ChainOf, CallTyped, Owner
<1>2. seq \in Seq(Tx) /\ Len(seq) \in Nat
  BY <1>1, ChainTypes
<1>3. tx \in Tx /\ tx.name = call.name /\ tx.build = call.build /\ tx.link = call.link
  BY DEF CallTyped, Tx
<1>4. call.address = Len(seq) + 1 /\ chains' = [chains EXCEPT ![chain] = new]
  BY DEF Broadcast
<1> HIDE DEF tx, chain
<1>5. /\ new \in Seq(Tx) /\ Len(new) = Len(seq) + 1 /\ new[Len(seq) + 1] = tx
      /\ \A a \in 1..Len(seq) : new[a] = seq[a]
  BY <1>2, <1>3, AppendProperties
<1> HIDE DEF new
<1>6. /\ \A d \in Chains : chains'[d] = IF d = chain THEN new ELSE chains[d]
      /\ chains' \in [Chains -> Seq(Tx)]
  BY <1>4, <1>5 DEF Typed
<1>7. ChainsGrow
  <2>1. ASSUME NEW d \in Chains
        PROVE  /\ Len(chains[d]) \in Nat /\ Len(chains'[d]) \in Nat
               /\ Len(chains[d]) <= Len(chains'[d])
               /\ \A a \in 1..Len(chains[d]) : chains'[d][a] = chains[d][a]
    <3>1. CASE d = chain
      BY <1>2, <1>5, <1>6, <3>1
    <3>2. CASE d # chain
      BY <1>6, <3>2, ChainTypes
    <3> QED BY <3>1, <3>2
  <2> QED BY <2>1 DEF ChainsGrow
<1>8. QED
  BY <1>1, <1>3, <1>4, <1>5, <1>6, <1>7 DEF chain

\* The library of that name is mined at that address of the chain.
IsDeployed(k, chain, a, name) ==
    a \in 1..Len(k[chain]) /\ k[chain][a].name = name /\ k[chain][a].status = "mined"

CallLinked(k, call) ==
    IsDeploying(call) =>
        LET chain == ChainOf(call)
        IN  /\ \A library \in DOMAIN call.link :
                  IsDeployed(k, chain, call.link[library], library)
            /\ call.pc \in {"waiting", "backoff", "deployed"} =>
                  call.address \in 1..Len(k[chain]) /\ k[chain][call.address].name = call.name
            /\ call.pc = "deployed" => k[chain][call.address].status = "mined"

ChainsLinked(k) ==
    \A chain \in Chains : \A a \in 1..Len(k[chain]) :
        \A library \in DOMAIN k[chain][a].link :
            IsDeployed(k, chain, k[chain][a].link[library], library)

\* The build of what has that name, with the libraries read so far.
BuildOf(map, name) == IF name \in LibraryNames THEN map[name] ELSE 0

CallBuilt(map, call) == IsDeploying(call) => call.build = BuildOf(map, call.name)

ChainsBuilt(map, k) ==
    \A chain \in Chains : \A a \in Len(InitialChains[chain]) + 1..Len(k[chain]) :
        k[chain][a].build = BuildOf(map, k[chain][a].name)

Linked ==
    /\ \A r \in resolved : r.chain \in Chains /\ IsDeployed(chains, r.chain, r.address, r.name)
    /\ \A c \in Callers : CallLinked(chains, calls[c])
    /\ ChainsLinked(chains)

Built ==
    /\ \A c \in Callers : CallBuilt(libraryNameToBytecodeMap, calls[c])
    /\ ChainsBuilt(libraryNameToBytecodeMap, chains)

DeployedInv == CallsOK /\ Typed /\ Linked /\ Built

\* What is deployed stays deployed.
LEMMA DeployedStays ==
    ASSUME ChainsGrow, NEW chain \in Chains, NEW a, NEW name, IsDeployed(chains, chain, a, name)
    PROVE  IsDeployed(chains', chain, a, name)
<1>1. a \in 1..Len(chains[chain]) /\ a \in 1..Len(chains'[chain])
  BY DEF IsDeployed, ChainsGrow
<1>2. QED
  BY <1>1 DEF IsDeployed, ChainsGrow

\* A call in flight is given the provider of one of the chains.
LEMMA ChainOfType ==
    ASSUME NEW call, CallTyped(call), IsDeploying(call)
    PROVE  ChainOf(call) \in Chains
BY DeploymentAssumption DEF CallTyped, ChainOf, Owner

\* A call that does not move loses nothing when the chains grow.
LEMMA CallStaysLinked ==
    ASSUME ChainsGrow, NEW call, CallTyped(call), CallLinked(chains, call)
    PROVE  CallLinked(chains', call)
<1> SUFFICES ASSUME IsDeploying(call) PROVE CallLinked(chains', call)
  BY DEF CallLinked
<1> DEFINE chain == ChainOf(call)
<1>1. chain \in Chains
  BY ChainOfType
<1>2. \A library \in DOMAIN call.link : IsDeployed(chains', chain, call.link[library], library)
  BY <1>1, DeployedStays DEF CallLinked
<1>3. call.address \in 1..Len(chains[chain]) =>
        /\ call.address \in 1..Len(chains'[chain])
        /\ chains'[chain][call.address].name = chains[chain][call.address].name
        /\ chains[chain][call.address].status = "mined" =>
             chains'[chain][call.address].status = "mined"
  BY <1>1 DEF ChainsGrow
<1>4. QED
  BY <1>2, <1>3 DEF CallLinked

\* Nothing more is linked when no transaction is added.
LEMMA ChainsStayLinked ==
    ASSUME ChainsGrow, SameLengths, ChainsLinked(chains)
    PROVE  ChainsLinked(chains')
<1>1. ASSUME NEW chain \in Chains, NEW a \in 1..Len(chains'[chain]),
             NEW library \in DOMAIN chains'[chain][a].link
      PROVE  IsDeployed(chains', chain, chains'[chain][a].link[library], library)
  <2>1. a \in 1..Len(chains[chain]) /\ chains'[chain][a].link = chains[chain][a].link
    BY DEF ChainsGrow, SameLengths
  <2>2. IsDeployed(chains, chain, chains[chain][a].link[library], library)
    BY <2>1 DEF ChainsLinked
  <2> QED BY <2>1, <2>2, DeployedStays
<1>2. QED
  BY <1>1 DEF ChainsLinked

\* Nothing more is built when no transaction is added.
LEMMA ChainsStayBuilt ==
    ASSUME NEW map, ChainsGrow, SameLengths, ChainsBuilt(map, chains),
           InitialChains \in [Chains -> Seq(Tx)]
    PROVE  ChainsBuilt(map, chains')
<1>1. ASSUME NEW chain \in Chains, NEW a \in Len(InitialChains[chain]) + 1..Len(chains'[chain])
      PROVE  chains'[chain][a].build = BuildOf(map, chains'[chain][a].name)
  <2>1. Len(InitialChains[chain]) \in Nat
    BY LenProperties
  <2>2. a \in Len(InitialChains[chain]) + 1..Len(chains[chain]) /\ a \in 1..Len(chains[chain])
    BY <2>1 DEF ChainsGrow, SameLengths
  <2> QED BY <2>2 DEF ChainsBuilt, ChainsGrow
<1>2. QED
  BY <1>1 DEF ChainsBuilt

\* The chains of an earlier process are typed.
LEMMA InitialChainsType == InitialChains \in [Chains -> Seq(Tx)]
<1> DEFINE Earlier == [name : LibraryNames, build : Nat, link : {NoLibraries}, status : {"mined"},
                       lag : {0}]
<1>1. NoLibraries \in Links
  BY DEF NoLibraries, Links
<1>2. Earlier \subseteq Tx
  BY <1>1 DEF Tx, Names
<1>3. InitialChains \in [Chains -> Seq(Earlier)]
  BY DeploymentAssumption
<1> HIDE DEF Earlier
<1>4. \A chain \in Chains : InitialChains[chain] \in Seq(Tx)
  BY <1>2, <1>3, SeqMonotonic
<1>5. QED
  BY <1>3, <1>4

\* The initial state, and what an earlier process has left.
LEMMA InitDeployed == Init => DeployedInv
<1> SUFFICES ASSUME Init PROVE DeployedInv
  OBVIOUS
<1>1. ASSUME NEW chain \in Chains, NEW a \in 1..Len(chains[chain])
      PROVE  /\ chains[chain][a].name \in LibraryNames /\ chains[chain][a].status = "mined"
             /\ DOMAIN chains[chain][a].link = {}
  <2> DEFINE Earlier == [name : LibraryNames, build : Nat, link : {NoLibraries},
                         status : {"mined"}, lag : {0}]
  <2>1. chains[chain] \in Seq(Earlier)
    BY DeploymentAssumption DEF Init
  <2> HIDE DEF Earlier
  <2>2. chains[chain][a] \in Earlier
    BY <2>1, ElementOfSeq
  <2> QED BY <2>2 DEF Earlier, NoLibraries
<1>2. Typed
  BY InitialChainsType DEF Init, Typed, CallTyped, IsDeploying, Idle
<1>3. \A chain \in Chains : DOMAIN chains[chain] = 1..Len(chains[chain]) /\ Len(chains[chain]) \in Nat
  BY <1>2, ChainTypes
<1>4. Linked
  <2>1. ASSUME NEW r \in resolved
        PROVE  r.chain \in Chains /\ IsDeployed(chains, r.chain, r.address, r.name)
    <3>1. PICK chain \in Chains : \E a \in 1..Len(chains[chain]) :
             r = [name |-> chains[chain][a].name, address |-> a, chain |-> chain, provider |-> None]
      BY <1>3 DEF Init
    <3>2. PICK a \in 1..Len(chains[chain]) :
             r = [name |-> chains[chain][a].name, address |-> a, chain |-> chain, provider |-> None]
      BY <3>1
    <3> QED BY <1>1, <3>2 DEF IsDeployed
  <2>2. \A c \in Callers : CallLinked(chains, calls[c])
    BY DEF Init, CallLinked, IsDeploying, Idle
  <2>3. ChainsLinked(chains)
    BY <1>1 DEF ChainsLinked
  <2> QED BY <2>1, <2>2, <2>3 DEF Linked
<1>5. Built
  <2>1. \A c \in Callers : CallBuilt(libraryNameToBytecodeMap, calls[c])
    BY DEF Init, CallBuilt, IsDeploying, Idle
  <2>2. chains = InitialChains
    BY DEF Init
  <2>3. ChainsBuilt(libraryNameToBytecodeMap, chains)
    BY <1>3, <2>2 DEF ChainsBuilt
  <2> QED BY <2>1, <2>3 DEF Built
<1> QED BY <1>2, <1>4, <1>5, CallsInit DEF DeployedInv

\* The next call is at that address, or none; all else it keeps.
Moves(call, next, address) ==
    /\ next.pc # "detecting"
    /\ IsDeploying(next) =>
         /\ IsDeploying(call)
         /\ next.name = call.name /\ next.build = call.build /\ next.link = call.link
         /\ next.owner = call.owner /\ next.address = address

\* How each step of a call in flight moves it.
LEMMA MovingOn ==
    ASSUME NEW call, IsCall(call), IsDeploying(call)
    PROVE  /\ \A address : Moves(call, Idle, address) /\ Idle.pc = "idle"
           /\ \A pc \in {"sending", "waiting", "deployed"} :
                 LET next == [call EXCEPT !.pc = pc]
                 IN  Moves(call, next, call.address) /\ next.pc = pc
           /\ Moves(call, NotFound(call), call.address) /\ NotFound(call).pc \in {"idle", "backoff"}
<1>1. PICK p \in {"populating", "sending", "waiting", "backoff", "deployed"} :
        call = DeployingCall(p, call)
      BY DEF IsCall, IsDeploying, Idle
<1>2. \A address : Moves(call, Idle, address) /\ Idle.pc = "idle"
      BY DEF Moves, IsDeploying, Idle
<1>3. ASSUME NEW pc \in {"sending", "waiting", "deployed"}
      PROVE  LET next == [call EXCEPT !.pc = pc]
             IN  Moves(call, next, call.address) /\ next.pc = pc
  BY <1>1 DEF DeployingCall, Moves, IsDeploying
<1>4. Moves(call, NotFound(call), call.address) /\ NotFound(call).pc \in {"idle", "backoff"}
  <2>. DEFINE moved  == [call EXCEPT !.pc = "backoff"]
              waits  == [moved EXCEPT !.wait = Delay(call.attempt)]
              next   == [waits EXCEPT !.attempt = @ + 1]
  <2>1. moved = DeployingCall("backoff", call)
        BY <1>1 DEF DeployingCall
  <2>. HIDE DEF moved
  <2>2. waits = DeployingCall("backoff", waits) /\ Moves(call, waits, call.address)
        BY <2>1 DEF DeployingCall, Moves, IsDeploying
  <2>. HIDE DEF waits
  <2>3. Moves(call, next, call.address) /\ next.pc = "backoff"
        BY <2>2 DEF DeployingCall, Moves, IsDeploying
  <2>. QED  BY <1>2, <2>3 DEF NotFound, waits, moved
<1>. QED  BY <1>2, <1>3, <1>4

\* The nonce is read.
LEMMA PopulatingMoves ==
    ASSUME NEW call, IsCall(call), IsDeploying(call), NEW address, NEW next,
           next = [call EXCEPT !.pc = "sending", !.address = address]
    PROVE  Moves(call, next, address) /\ next.pc = "sending"
<1>1. PICK p \in {"populating", "sending", "waiting", "backoff", "deployed"} :
        call = DeployingCall(p, call)
      BY DEF IsCall, IsDeploying, Idle
<1> DEFINE moved == [call EXCEPT !.pc = "sending"]
<1>2. moved = DeployingCall("sending", call) /\ next = [moved EXCEPT !.address = address]
      BY <1>1 DEF DeployingCall
<1> HIDE DEF moved
<1>. QED  BY <1>2 DEF DeployingCall, Moves, IsDeploying

\* The backoff runs down.
LEMMA WaitingMoves ==
    ASSUME NEW call, IsCall(call), IsDeploying(call), NEW wait, NEW next,
           next = [call EXCEPT !.wait = wait]
    PROVE  Moves(call, next, call.address) /\ next.pc = call.pc
<1>1. PICK p \in {"populating", "sending", "waiting", "backoff", "deployed"} :
        call = DeployingCall(p, call)
      BY DEF IsCall, IsDeploying, Idle
<1>. QED  BY <1>1 DEF DeployingCall, Moves, IsDeploying

\* What a call keeps of its types, and of its build.
LEMMA MovesKeeps ==
    ASSUME NEW call, NEW next, NEW address \in Nat, NEW map, CallTyped(call), CallBuilt(map, call),
           Moves(call, next, address)
    PROVE  CallTyped(next) /\ CallBuilt(map, next)
BY DEF Moves, CallTyped, CallBuilt

\* One call takes a step and the others stay.
LEMMA OthersStay ==
    ASSUME DeployedInv, ChainsGrow, NEW map, \A d \in Callers : CallBuilt(map, calls[d]),
           NEW c \in Callers, NEW next, SetCall(c, next), CallTyped(next),
           CallLinked(chains', next), CallBuilt(map, next)
    PROVE  \A d \in Callers : /\ CallTyped(calls'[d])
                              /\ CallLinked(chains', calls'[d])
                              /\ CallBuilt(map, calls'[d])
<1> SUFFICES ASSUME NEW d \in Callers
             PROVE  /\ CallTyped(calls'[d])
                    /\ CallLinked(chains', calls'[d])
                    /\ CallBuilt(map, calls'[d])
  OBVIOUS
<1>1. calls'[d] = IF d = c THEN next ELSE calls[d]
  BY DEF DeployedInv, CallsOK, SetCall
<1>2. CallTyped(calls[d]) /\ CallLinked(chains, calls[d])
  BY DEF DeployedInv, Typed, Linked
<1>3. CallLinked(chains', calls[d])
  BY <1>2, CallStaysLinked
<1> QED BY <1>1, <1>2, <1>3

\* A step that leaves the chains and what has been resolved alone.
LEMMA QuietStep ==
    ASSUME DeployedInv, CallsOK', UNCHANGED <<chains, resolved, artifacts>>,
           provider' \in Owner \cup {None},
           libraryNameToBytecodeMap' \in [LibraryNames -> Nat \cup {None}],
           ChainsBuilt(libraryNameToBytecodeMap', chains),
           \A d \in Callers : /\ CallTyped(calls'[d])
                              /\ CallLinked(chains, calls'[d])
                              /\ CallBuilt(libraryNameToBytecodeMap', calls'[d])
    PROVE  DeployedInv'
<1>1. Typed'
  BY DEF DeployedInv, Typed
<1>2. Linked'
  BY DEF DeployedInv, Linked
<1>3. Built'
  BY DEF Built
<1> QED BY <1>1, <1>2, <1>3 DEF DeployedInv

\* A quiet step of one call.
LEMMA QuietCall ==
    ASSUME DeployedInv, CallsOK', UNCHANGED <<libraryNameToBytecodeMap, chains, resolved, artifacts>>,
           provider' \in Owner \cup {None},
           NEW c \in Callers, NEW next, SetCall(c, next), CallTyped(next),
           CallLinked(chains, next), CallBuilt(libraryNameToBytecodeMap, next)
    PROVE  DeployedInv'
<1>1. Typed /\ Built /\ ChainsGrow
  BY SameChains DEF DeployedInv
<1>2. \A d \in Callers : CallBuilt(libraryNameToBytecodeMap, calls[d])
  BY <1>1 DEF Built
<1>3. CallLinked(chains', next)
  OBVIOUS
<1>4. \A d \in Callers : /\ CallTyped(calls'[d])
                         /\ CallLinked(chains', calls'[d])
                         /\ CallBuilt(libraryNameToBytecodeMap, calls'[d])
  BY <1>1, <1>2, <1>3, OthersStay
<1>5. ChainsBuilt(libraryNameToBytecodeMap', chains)
  BY <1>1 DEF Built
<1>6. libraryNameToBytecodeMap' \in [LibraryNames -> Nat \cup {None}]
  BY <1>1 DEF Typed
<1> QED BY <1>4, <1>5, <1>6, QuietStep

\* A call that is idle, or asks for a network, has nothing to keep.
LEMMA NotDeploying ==
    ASSUME NEW call, ~ IsDeploying(call),
           call.pc = "detecting" => call.apiUrl \in Urls /\ call.chainId \in Chains,
           NEW k, NEW map
    PROVE  CallTyped(call) /\ CallLinked(k, call) /\ CallBuilt(map, call)
BY DEF CallTyped, CallLinked, CallBuilt

LEMMA IdleIsNotDeploying == ~ IsDeploying(Idle) /\ Idle.pc = "idle"
BY DEF Idle, IsDeploying

\* The invariant for the calls of initRpcApi.
LEMMA initRpcApiDeployed ==
    ASSUME DeployedInv, CallsOK', NEW c \in Callers, NEW apiUrl \in Urls, NEW chainId \in Chains,
           initRpcApi(c, apiUrl, chainId)
    PROVE  DeployedInv'
<1> DEFINE next == [pc |-> "detecting", apiUrl |-> apiUrl, chainId |-> chainId]
<1>1. ~ IsDeploying(next) /\ next.apiUrl \in Urls /\ next.chainId \in Chains
  BY DEF IsDeploying
<1>2. SetCall(c, next) /\ UNCHANGED <<provider, libraryNameToBytecodeMap, artifacts, resolved, chains>>
  BY DEF initRpcApi
<1>3. provider' \in Owner \cup {None}
  BY <1>2 DEF DeployedInv, Typed
<1> HIDE DEF next
<1>4. CallTyped(next) /\ CallLinked(chains, next) /\ CallBuilt(libraryNameToBytecodeMap, next)
  BY <1>1, NotDeploying
<1> QED BY <1>2, <1>3, <1>4, QuietCall

LEMMA DetectDeployed ==
    ASSUME DeployedInv, CallsOK', NEW c \in Callers, DetectNetwork(c) \/ FailToDetectNetwork(c)
    PROVE  DeployedInv'
<1>1. /\ SetCall(c, Idle) /\ calls[c].pc = "detecting"
      /\ UNCHANGED <<libraryNameToBytecodeMap, artifacts, resolved, chains>>
  BY DEF DetectNetwork, FailToDetectNetwork
<1>2. CallTyped(calls[c]) /\ provider \in Owner \cup {None}
  BY DEF DeployedInv, Typed
<1>3. provider' \in Owner \cup {None}
  BY <1>1, <1>2 DEF DetectNetwork, FailToDetectNetwork, CallTyped, Owner
<1>4. CallTyped(Idle) /\ CallLinked(chains, Idle) /\ CallBuilt(libraryNameToBytecodeMap, Idle)
  BY IdleIsNotDeploying, NotDeploying
<1> QED BY <1>1, <1>3, <1>4, QuietCall

\* A library's bytecode is read once.
LEMMA ReadOnce ==
    ASSUME DeployedInv, NEW name \in LibraryNames,
           libraryNameToBytecodeMap' =
               [libraryNameToBytecodeMap EXCEPT ![name] = loadLibraryBytecode(name)]
    PROVE  /\ libraryNameToBytecodeMap' \in [LibraryNames -> Nat \cup {None}]
           /\ loadLibraryBytecode(name) \in Nat
           /\ BuildOf(libraryNameToBytecodeMap', name) = loadLibraryBytecode(name)
           /\ ChainsBuilt(libraryNameToBytecodeMap', chains)
           /\ \A d \in Callers : CallBuilt(libraryNameToBytecodeMap', calls[d])
<1> DEFINE map  == libraryNameToBytecodeMap
           load == loadLibraryBytecode(name)
<1>1. Typed /\ Built
  BY DEF DeployedInv
<1>2. map \in [LibraryNames -> Nat \cup {None}] /\ artifacts \in Nat
  BY <1>1 DEF Typed
<1>3. load \in Nat /\ (map[name] # None => map[name] = load)
  BY <1>2 DEF loadLibraryBytecode
<1> HIDE DEF load
<1>4. map' = [map EXCEPT ![name] = load]
  BY DEF load
<1>5. map' \in [LibraryNames -> Nat \cup {None}] /\ map'[name] = load
  BY <1>2, <1>3, <1>4
<1>6. ASSUME NEW n, NEW build \in Nat, build = BuildOf(map, n)
      PROVE  build = BuildOf(map', n)
  <2>1. n = name => map[n] # None
    BY <1>6, DeploymentAssumption DEF BuildOf
  <2> QED BY <1>2, <1>3, <1>4, <1>6, <2>1 DEF BuildOf
<1>7. \A d \in Callers : CallBuilt(map', calls[d])
  <2>1. ASSUME NEW d \in Callers, IsDeploying(calls[d])
        PROVE  calls[d].build = BuildOf(map', calls[d].name)
    <3>1. calls[d].build \in Nat /\ calls[d].build = BuildOf(map, calls[d].name)
      BY <1>1, <2>1 DEF Typed, CallTyped, Built, CallBuilt
    <3> HIDE DEF map
    <3> QED BY <1>6, <3>1
  <2> QED BY <2>1 DEF CallBuilt
<1>8. ChainsBuilt(map', chains)
  <2>1. ASSUME NEW chain \in Chains, NEW a \in Len(InitialChains[chain]) + 1..Len(chains[chain])
        PROVE  chains[chain][a].build = BuildOf(map', chains[chain][a].name)
    <3>1. Len(InitialChains[chain]) \in Nat
      BY InitialChainsType, LenProperties
    <3>2. a \in 1..Len(chains[chain]) /\ Len(chains[chain]) \in Nat
      BY <1>1, <3>1, ChainTypes
    <3>3. chains[chain][a] \in Tx /\ chains[chain][a].build \in Nat
      BY <1>1, <3>2, ChainTypes DEF Tx
    <3>4. chains[chain][a].build = BuildOf(map, chains[chain][a].name)
      BY <1>1 DEF Built, ChainsBuilt
    <3> HIDE DEF map
    <3> QED BY <1>6, <3>3, <3>4
  <2> QED BY <2>1 DEF ChainsBuilt
<1>9. BuildOf(map', name) = load
  BY <1>5 DEF BuildOf
<1> QED BY <1>3, <1>5, <1>7, <1>8, <1>9 DEF load

\* A call that sets out, with the provider of this moment.
LEMMA NewDeployment ==
    ASSUME DeployedInv, provider # None, NEW name \in Names, NEW build \in Nat, NEW link \in Links,
           NEW map, build = BuildOf(map, name),
           \A library \in DOMAIN link :
               IsDeployed(chains, NetworkOf[provider.url], link[library], library)
    PROVE  /\ CallTyped(Deployment(name, build, link))
           /\ CallLinked(chains, Deployment(name, build, link))
           /\ CallBuilt(map, Deployment(name, build, link))
<1> DEFINE call == Deployment(name, build, link)
<1>1. /\ call.pc = "populating" /\ call.name = name /\ call.build = build /\ call.link = link
      /\ call.owner = provider /\ call.address = 0
  BY DEF Deployment
<1>2. provider \in Owner
  BY DEF DeployedInv, Typed
<1> HIDE DEF call
<1>3. CallTyped(call) /\ CallBuilt(map, call)
  BY <1>1, <1>2 DEF CallTyped, CallBuilt
<1>4. CallLinked(chains, call)
  BY <1>1 DEF CallLinked, ChainOf
<1> QED BY <1>3, <1>4 DEF call

LEMMA NoLibrariesType == NoLibraries \in Links /\ DOMAIN NoLibraries = {}
BY DEF NoLibraries, Links

LEMMA deployLibraryDeployed ==
    ASSUME DeployedInv, CallsOK', NEW c \in Callers, NEW name \in LibraryNames,
           deployLibrary(c, name)
    PROVE  DeployedInv'
<1> DEFINE load == loadLibraryBytecode(name)
           next == Deployment(name, load, NoLibraries)
<1>1. /\ libraryNameToBytecodeMap' =
             [libraryNameToBytecodeMap EXCEPT ![name] = loadLibraryBytecode(name)]
      /\ UNCHANGED <<provider, artifacts, resolved, chains>>
      /\ provider = None => UNCHANGED calls
      /\ provider # None => SetCall(c, next)
  BY DEF deployLibrary
<1>2. /\ libraryNameToBytecodeMap' \in [LibraryNames -> Nat \cup {None}]
      /\ load \in Nat
      /\ BuildOf(libraryNameToBytecodeMap', name) = load
      /\ ChainsBuilt(libraryNameToBytecodeMap', chains)
      /\ \A d \in Callers : CallBuilt(libraryNameToBytecodeMap', calls[d])
  BY <1>1, ReadOnce
<1>3. provider' \in Owner \cup {None} /\ ChainsGrow /\ Typed /\ Linked
  BY <1>1, SameChains DEF DeployedInv, Typed
<1>4. CASE provider = None
  <2>1. \A d \in Callers : /\ CallTyped(calls'[d])
                           /\ CallLinked(chains, calls'[d])
                           /\ CallBuilt(libraryNameToBytecodeMap', calls'[d])
    BY <1>1, <1>2, <1>3, <1>4 DEF Typed, Linked
  <2> QED BY <1>1, <1>2, <1>3, <2>1, QuietStep
<1>5. CASE provider # None
  <2> HIDE DEF load
  <2>1. name \in Names
    BY DEF Names
  <2>2. CallTyped(next) /\ CallLinked(chains, next) /\ CallBuilt(libraryNameToBytecodeMap', next)
    BY <1>2, <1>5, <2>1, NoLibrariesType, NewDeployment
  <2> HIDE DEF next
  <2>3. CallLinked(chains', next)
    BY <1>1, <2>2
  <2>4. \A d \in Callers : /\ CallTyped(calls'[d])
                           /\ CallLinked(chains', calls'[d])
                           /\ CallBuilt(libraryNameToBytecodeMap', calls'[d])
    BY <1>1, <1>2, <1>3, <1>5, <2>2, <2>3, OthersStay
  <2>5. \A d \in Callers : CallLinked(chains, calls'[d])
    BY <1>1, <2>4
  <2> QED BY <1>1, <1>2, <1>3, <2>4, <2>5, QuietStep
<1> QED BY <1>4, <1>5

\* What a call gives as the address of a library is where it is deployed.
LEMMA AddressesAreDeployed ==
    ASSUME DeployedInv, provider # None, NEW wrapper \in Wrappers,
           NEW library \in DOMAIN wrapper.link,
           AddressesOf(library, NetworkOf[provider.url]) # {}
    PROVE  /\ LibraryAddresses(wrapper)[wrapper.link[library]] \in Nat
           /\ IsDeployed(chains, NetworkOf[provider.url],
                         LibraryAddresses(wrapper)[wrapper.link[library]], library)
<1> DEFINE chain    == NetworkOf[provider.url]
           argument == wrapper.link[library]
           known    == AddressesOf(library, chain)
           found    == LibraryAddresses(wrapper)[argument]
<1>1. library \in LibraryNames /\ argument = ArgumentOf(library)
  BY WrappersLinkByName
<1>2. (CHOOSE l \in LibraryNames : ArgumentOf(l) = argument) = library
  BY <1>1, ArgumentsAreDistinct
<1>3. found = CHOOSE a \in known : \A b \in known : b <= a
  BY <1>1, <1>2 DEF LibraryAddresses
<1>4. \A a \in known : IsDeployed(chains, chain, a, library)
  BY DEF AddressesOf, DeployedInv, Linked
<1>5. chain \in Chains
  BY DeploymentAssumption DEF DeployedInv, Typed, Owner
<1>6. Len(chains[chain]) \in Nat /\ known \subseteq 1..Len(chains[chain])
  BY <1>4, <1>5, ChainTypes DEF IsDeployed, DeployedInv
<1> HIDE DEF known, chain, found
<1>7. known # {}
  BY DEF known, chain
<1>8. \E a \in known : \A b \in known : b <= a
  <2> DEFINE n == Len(chains[chain])
  <2>1. n \in Nat /\ known \subseteq 1..n
    BY <1>6
  <2> HIDE DEF n
  <2>2. known \subseteq Nat /\ \A x \in known : x <= n
    BY <2>1
  <2> QED BY <1>7, <2>1, <2>2, GreatestNatural
<1>9. found \in known
  BY <1>3, <1>8
<1>10. found \in Nat /\ IsDeployed(chains, chain, found, library)
  BY <1>4, <1>6, <1>9
<1> QED BY <1>10 DEF chain, found

LEMMA deployDeployed ==
    ASSUME DeployedInv, CallsOK', NEW c \in Callers, NEW wrapper \in Wrappers, deploy(c, wrapper)
    PROVE  DeployedInv'
<1> DEFINE link == [library \in DOMAIN wrapper.link |->
                       LibraryAddresses(wrapper)[wrapper.link[library]]]
           next == Deployment(wrapper.name, 0, link)
<1>1. /\ provider # None /\ SetCall(c, next)
      /\ \A library \in DOMAIN wrapper.link : AddressesOf(library, NetworkOf[provider.url]) # {}
      /\ UNCHANGED <<provider, libraryNameToBytecodeMap, artifacts, resolved, chains>>
  BY DEF deploy
<1>2. /\ wrapper.name \in Names /\ wrapper.name \notin LibraryNames
      /\ DOMAIN wrapper.link \subseteq LibraryNames
  BY WrappersLinkByName
<1>3. \A library \in DOMAIN wrapper.link :
        /\ link[library] \in Nat
        /\ IsDeployed(chains, NetworkOf[provider.url], link[library], library)
  BY <1>1, AddressesAreDeployed
<1>4. link \in [DOMAIN wrapper.link -> Nat \cup {None}] /\ DOMAIN link = DOMAIN wrapper.link
  BY <1>3
<1>5. link \in Links
  BY <1>2, <1>4 DEF Links
<1> HIDE DEF link
<1>6. 0 = BuildOf(libraryNameToBytecodeMap, wrapper.name)
  BY <1>2 DEF BuildOf
<1>7. CallTyped(next) /\ CallLinked(chains, next) /\ CallBuilt(libraryNameToBytecodeMap, next)
  BY <1>1, <1>2, <1>3, <1>4, <1>5, <1>6, NewDeployment
<1> HIDE DEF next
<1>8. provider' \in Owner \cup {None}
  BY <1>1 DEF DeployedInv, Typed
<1> QED BY <1>1, <1>7, <1>8, QuietCall

\* What a call that moves has to show of its transaction.
LEMMA MovesLinked ==
    ASSUME NEW k, NEW call, NEW next, NEW address, CallLinked(k, call), Moves(call, next, address),
           next.pc \in {"waiting", "backoff", "deployed"} =>
               /\ address \in 1..Len(k[ChainOf(call)])
               /\ k[ChainOf(call)][address].name = call.name,
           next.pc = "deployed" => k[ChainOf(call)][address].status = "mined"
    PROVE  CallLinked(k, next)
<1> SUFFICES ASSUME IsDeploying(next) PROVE CallLinked(k, next)
  BY DEF CallLinked
<1>1. /\ IsDeploying(call) /\ next.name = call.name /\ next.link = call.link
      /\ ChainOf(next) = ChainOf(call) /\ next.address = address
  BY DEF Moves, ChainOf
<1> QED BY <1>1 DEF CallLinked

\* A call moves on, and nothing else.
LEMMA MovingCall ==
    ASSUME DeployedInv, CallsOK',
           UNCHANGED <<provider, libraryNameToBytecodeMap, artifacts, resolved, chains>>,
           NEW c \in Callers, NEW next, NEW address \in Nat, SetCall(c, next),
           Moves(calls[c], next, address),
           next.pc \in {"waiting", "backoff", "deployed"} =>
               /\ address \in 1..Len(chains[ChainOf(calls[c])])
               /\ chains[ChainOf(calls[c])][address].name = calls[c].name,
           next.pc = "deployed" => chains[ChainOf(calls[c])][address].status = "mined"
    PROVE  DeployedInv'
<1>1. /\ CallTyped(calls[c]) /\ CallLinked(chains, calls[c])
      /\ CallBuilt(libraryNameToBytecodeMap, calls[c])
  BY DEF DeployedInv, Typed, Linked, Built
<1>2. CallTyped(next) /\ CallBuilt(libraryNameToBytecodeMap, next)
  BY <1>1, MovesKeeps
<1>3. CallLinked(chains, next)
  BY <1>1, MovesLinked
<1>4. provider' \in Owner \cup {None}
  BY DEF DeployedInv, Typed
<1> QED BY <1>2, <1>3, <1>4, QuietCall

\* A call in flight is one, is typed, and is linked and built.
LEMMA CallInFlight ==
    ASSUME DeployedInv, NEW c \in Callers,
           calls[c].pc \in {"populating", "sending", "waiting", "backoff", "deployed"}
    PROVE  /\ IsCall(calls[c]) /\ IsDeploying(calls[c])
           /\ CallTyped(calls[c]) /\ calls[c].address \in Nat /\ ChainOf(calls[c]) \in Chains
           /\ CallLinked(chains, calls[c]) /\ CallBuilt(libraryNameToBytecodeMap, calls[c])
           /\ calls[c].pc \in {"waiting", "backoff", "deployed"} =>
                /\ calls[c].address \in 1..Len(chains[ChainOf(calls[c])])
                /\ Transaction(calls[c]).name = calls[c].name
           /\ calls[c].pc = "deployed" => Transaction(calls[c]).status = "mined"
<1>1. /\ IsCall(calls[c]) /\ IsDeploying(calls[c]) /\ CallTyped(calls[c])
      /\ CallLinked(chains, calls[c]) /\ CallBuilt(libraryNameToBytecodeMap, calls[c])
  BY DEF DeployedInv, CallsOK, Typed, Linked, Built, IsDeploying
<1>2. calls[c].address \in Nat /\ ChainOf(calls[c]) \in Chains
  BY <1>1, ChainOfType DEF CallTyped
<1> QED BY <1>1, <1>2 DEF CallLinked, Transaction

LEMMA PopulateDeployed ==
    ASSUME DeployedInv, CallsOK', NEW c \in Callers, Populate(c)
    PROVE  DeployedInv'
<1>1. IsCall(calls[c]) /\ IsDeploying(calls[c]) /\ ChainOf(calls[c]) \in Chains
  BY CallInFlight DEF Populate
<1>2. PICK known \in 0..Len(chains[ChainOf(calls[c])]) :
         SetCall(c, [calls[c] EXCEPT !.pc = "sending", !.address = known + 1])
  BY DEF Populate
<1>3. Len(chains[ChainOf(calls[c])]) \in Nat
  BY <1>1, ChainTypes DEF DeployedInv
<1> DEFINE address == known + 1
           next    == [calls[c] EXCEPT !.pc = "sending", !.address = address]
<1>4. address \in Nat /\ SetCall(c, next)
  BY <1>2, <1>3
<1> HIDE DEF address
<1>5. Moves(calls[c], next, address) /\ next.pc = "sending"
  BY <1>1, PopulatingMoves
<1> HIDE DEF next
<1> QED BY <1>4, <1>5, MovingCall DEF Populate

LEMMA RetryDeployed ==
    ASSUME DeployedInv, CallsOK', NEW c \in Callers, Retry(c)
    PROVE  DeployedInv'
<1> DEFINE next == [calls[c] EXCEPT !.pc = "waiting"]
<1>1. calls[c].pc = "backoff" /\ SetCall(c, next)
      /\ UNCHANGED <<provider, libraryNameToBytecodeMap, artifacts, resolved, chains>>
  BY DEF Retry
<1>2. /\ IsCall(calls[c]) /\ IsDeploying(calls[c]) /\ calls[c].address \in Nat
      /\ calls[c].address \in 1..Len(chains[ChainOf(calls[c])])
      /\ chains[ChainOf(calls[c])][calls[c].address].name = calls[c].name
  BY <1>1, CallInFlight DEF Transaction
<1>3. Moves(calls[c], next, calls[c].address) /\ next.pc = "waiting"
  BY <1>2, MovingOn
<1> HIDE DEF next
<1> QED BY <1>1, <1>2, <1>3, MovingCall

LEMMA LookUpDeployed ==
    ASSUME DeployedInv, CallsOK', NEW c \in Callers, LookUp(c)
    PROVE  DeployedInv'
<1> DEFINE next == [calls[c] EXCEPT !.pc = "deployed"]
<1>1. /\ calls[c].pc = "waiting"
      /\ UNCHANGED <<provider, libraryNameToBytecodeMap, artifacts, resolved, chains>>
      /\ \/ SetCall(c, NotFound(calls[c]))
         \/ SetCall(c, Idle)
         \/ Transaction(calls[c]).status = "mined" /\ SetCall(c, next)
  BY DEF LookUp
<1>2. /\ IsCall(calls[c]) /\ IsDeploying(calls[c]) /\ calls[c].address \in Nat
      /\ calls[c].address \in 1..Len(chains[ChainOf(calls[c])])
      /\ chains[ChainOf(calls[c])][calls[c].address].name = calls[c].name
  BY <1>1, CallInFlight DEF Transaction
<1>3. /\ Moves(calls[c], next, calls[c].address) /\ next.pc = "deployed"
      /\ Moves(calls[c], Idle, calls[c].address) /\ Idle.pc = "idle"
      /\ Moves(calls[c], NotFound(calls[c]), calls[c].address)
      /\ NotFound(calls[c]).pc \in {"idle", "backoff"}
  BY <1>2, MovingOn
<1> HIDE DEF next
<1>4. CASE SetCall(c, NotFound(calls[c]))
  BY <1>1, <1>2, <1>3, <1>4, MovingCall
<1>5. CASE SetCall(c, Idle)
  BY <1>1, <1>2, <1>3, <1>5, MovingCall
<1>6. CASE Transaction(calls[c]).status = "mined" /\ SetCall(c, next)
  <2>1. chains[ChainOf(calls[c])][calls[c].address].status = "mined"
    BY <1>6 DEF Transaction
  <2> QED BY <1>1, <1>2, <1>3, <1>6, <2>1, MovingCall
<1> QED BY <1>1, <1>4, <1>5, <1>6

LEMMA ResolveDeployed ==
    ASSUME DeployedInv, CallsOK', NEW c \in Callers, Resolve(c)
    PROVE  DeployedInv'
<1> DEFINE made == [name |-> calls[c].name, address |-> calls[c].address, chain |-> ChainOf(calls[c]),
                    provider |-> IF calls[c].name \in LibraryNames THEN None ELSE provider]
<1>1. /\ calls[c].pc = "deployed" /\ resolved' = resolved \cup {made} /\ SetCall(c, Idle)
      /\ UNCHANGED <<provider, libraryNameToBytecodeMap, artifacts, chains>>
  BY DEF Resolve
<1>2. ChainOf(calls[c]) \in Chains
      /\ IsDeployed(chains, ChainOf(calls[c]), calls[c].address, calls[c].name)
  BY <1>1, CallInFlight DEF Transaction, IsDeployed
<1>3. made.chain = ChainOf(calls[c]) /\ made.address = calls[c].address /\ made.name = calls[c].name
  OBVIOUS
<1> HIDE DEF made
<1>4. ChainsGrow /\ Typed /\ Linked /\ Built
  BY <1>1, SameChains DEF DeployedInv
<1>5. CallTyped(Idle) /\ CallLinked(chains', Idle) /\ CallBuilt(libraryNameToBytecodeMap, Idle)
  BY IdleIsNotDeploying, NotDeploying
<1>6. \A d \in Callers : CallBuilt(libraryNameToBytecodeMap, calls[d])
  BY <1>4 DEF Built
<1>7. \A d \in Callers : /\ CallTyped(calls'[d])
                         /\ CallLinked(chains', calls'[d])
                         /\ CallBuilt(libraryNameToBytecodeMap, calls'[d])
  BY <1>1, <1>4, <1>5, <1>6, OthersStay
<1>8. Typed'
  BY <1>1, <1>4, <1>7 DEF Typed
<1>9. Linked'
  BY <1>1, <1>2, <1>3, <1>4, <1>7 DEF Linked
<1>10. Built'
  BY <1>1, <1>4, <1>7 DEF Built
<1> QED BY <1>8, <1>9, <1>10 DEF DeployedInv

\* A transaction is sent by the call that stays to wait for it, or is lost to it.
LEMMA BroadcastDeployed ==
    ASSUME DeployedInv, CallsOK', NEW c \in Callers, NEW next, calls[c].pc = "sending",
           Broadcast(calls[c]), SetCall(c, next), Moves(calls[c], next, calls[c].address),
           next.pc \in {"idle", "waiting"},
           UNCHANGED <<provider, libraryNameToBytecodeMap, artifacts, resolved>>
    PROVE  DeployedInv'
<1> DEFINE call  == calls[c]
           chain == ChainOf(call)
           map   == libraryNameToBytecodeMap
           tx    == chains'[chain][call.address]
<1>1. /\ CallTyped(call) /\ IsDeploying(call) /\ chain \in Chains /\ call.address \in Nat
      /\ CallLinked(chains, call) /\ CallBuilt(map, call)
  BY CallInFlight
<1>2. Typed /\ Linked /\ Built
  BY DEF DeployedInv
<1>3. MaxLag \in Nat
  BY DeploymentAssumption
<1>4. /\ ChainsGrow
      /\ chains' \in [Chains -> Seq(Tx)]
      /\ call.address = Len(chains[chain]) + 1
      /\ Len(chains'[chain]) = Len(chains[chain]) + 1
      /\ tx.name = call.name /\ tx.build = call.build /\ tx.link = call.link
      /\ \A d \in Chains \ {chain} : chains'[d] = chains[d]
  BY <1>1, <1>2, <1>3, BroadcastGrows
<1>5. CallLinked(chains', call)
  BY <1>1, <1>4, CallStaysLinked
<1>6. Len(chains[chain]) \in Nat /\ call.address \in 1..Len(chains'[chain])
  BY <1>1, <1>2, <1>4, ChainTypes
<1>7. CallTyped(next) /\ CallBuilt(map, next)
  BY <1>1, MovesKeeps
<1> HIDE DEF map
<1>8. CallLinked(chains', next)
  BY <1>4, <1>5, <1>6, MovesLinked
<1>9. \A d \in Callers : CallBuilt(map, calls[d])
  BY <1>2 DEF Built, map
<1>10. \A d \in Callers : /\ CallTyped(calls'[d])
                          /\ CallLinked(chains', calls'[d])
                          /\ CallBuilt(map, calls'[d])
  BY <1>4, <1>7, <1>8, <1>9, OthersStay
<1>11. ASSUME NEW d \in Chains, NEW a \in 1..Len(chains'[d])
       PROVE  (d = chain /\ a = call.address) \/ a \in 1..Len(chains[d])
  BY <1>4, <1>6
<1>12. ChainsLinked(chains')
  <2>1. ASSUME NEW d \in Chains, NEW a \in 1..Len(chains'[d]),
               NEW library \in DOMAIN chains'[d][a].link
        PROVE  IsDeployed(chains', d, chains'[d][a].link[library], library)
    <3>1. CASE d = chain /\ a = call.address
      BY <1>1, <1>4, <1>5, <2>1, <3>1 DEF CallLinked
    <3>2. CASE a \in 1..Len(chains[d])
      <4>1. chains'[d][a].link = chains[d][a].link
        BY <1>4, <3>2 DEF ChainsGrow
      <4>2. IsDeployed(chains, d, chains[d][a].link[library], library)
        BY <1>2, <3>2, <4>1 DEF Linked, ChainsLinked
      <4> QED BY <1>4, <4>1, <4>2, DeployedStays
    <3> QED BY <1>11, <3>1, <3>2
  <2> QED BY <2>1 DEF ChainsLinked
<1>13. ChainsBuilt(map, chains')
  <2>1. ASSUME NEW d \in Chains, NEW a \in Len(InitialChains[d]) + 1..Len(chains'[d])
        PROVE  chains'[d][a].build = BuildOf(map, chains'[d][a].name)
    <3>1. Len(InitialChains[d]) \in Nat /\ Len(chains[d]) \in Nat /\ Len(chains'[d]) \in Nat
      BY <1>4, InitialChainsType, LenProperties DEF ChainsGrow
    <3>2. a \in 1..Len(chains'[d])
      BY <3>1
    <3>3. CASE d = chain /\ a = call.address
      BY <1>1, <1>4, <3>3 DEF CallBuilt, map
    <3>4. CASE a \in 1..Len(chains[d])
      <4>1. chains'[d][a].build = chains[d][a].build /\ chains'[d][a].name = chains[d][a].name
        BY <1>4, <3>4 DEF ChainsGrow
      <4>2. a \in Len(InitialChains[d]) + 1..Len(chains[d])
        BY <3>1, <3>4
      <4>3. chains[d][a].build = BuildOf(map, chains[d][a].name)
        BY <1>2, <4>2 DEF Built, ChainsBuilt, map
      <4> QED BY <4>1, <4>3
    <3> QED BY <1>11, <3>2, <3>3, <3>4
  <2> QED BY <2>1 DEF ChainsBuilt
<1>14. Typed'
  BY <1>2, <1>4, <1>10 DEF Typed
<1>15. Linked'
  <2>1. \A r \in resolved : IsDeployed(chains', r.chain, r.address, r.name)
    BY <1>2, <1>4, DeployedStays DEF Linked
  <2> QED BY <1>2, <1>10, <1>12, <2>1 DEF Linked
<1>16. Built'
  BY <1>10, <1>13 DEF Built, map
<1> QED BY <1>14, <1>15, <1>16 DEF DeployedInv

LEMMA SendDeployed ==
    ASSUME DeployedInv, CallsOK', NEW c \in Callers, Send(c)
    PROVE  DeployedInv'
<1> DEFINE next == [calls[c] EXCEPT !.pc = "waiting"]
<1>1. /\ calls[c].pc = "sending"
      /\ UNCHANGED <<provider, libraryNameToBytecodeMap, artifacts, resolved>>
      /\ \/ Broadcast(calls[c]) /\ SetCall(c, next)
         \/ Broadcast(calls[c]) /\ SetCall(c, Idle)
         \/ SetCall(c, Idle) /\ UNCHANGED chains
  BY DEF Send
<1>2. IsCall(calls[c]) /\ IsDeploying(calls[c]) /\ calls[c].address \in Nat
  BY <1>1, CallInFlight
<1>3. /\ Moves(calls[c], next, calls[c].address) /\ next.pc = "waiting"
      /\ Moves(calls[c], Idle, calls[c].address) /\ Idle.pc = "idle"
  BY <1>2, MovingOn
<1> HIDE DEF next
<1>4. CASE Broadcast(calls[c]) /\ SetCall(c, next)
  BY <1>1, <1>3, <1>4, BroadcastDeployed
<1>5. CASE Broadcast(calls[c]) /\ SetCall(c, Idle)
  BY <1>1, <1>3, <1>5, BroadcastDeployed
<1>6. CASE SetCall(c, Idle) /\ UNCHANGED chains
  BY <1>1, <1>2, <1>3, <1>6, MovingCall
<1> QED BY <1>1, <1>4, <1>5, <1>6

\* The chains move on by themselves, and with them the waiting calls.
LEMMA ChainsMoveDeployed ==
    ASSUME DeployedInv, CallsOK', ChainsGrow, SameLengths, chains' \in [Chains -> Seq(Tx)],
           UNCHANGED <<provider, libraryNameToBytecodeMap, artifacts, resolved>>,
           \A d \in Callers :
               \/ calls'[d] = calls[d]
               \/ calls[d].pc = "backoff" /\ calls'[d].pc = "backoff"
                  /\ Moves(calls[d], calls'[d], calls[d].address)
    PROVE  DeployedInv'
<1>1. Typed /\ Linked /\ Built
  BY DEF DeployedInv
<1>2. ASSUME NEW d \in Callers
      PROVE  /\ CallTyped(calls'[d]) /\ CallLinked(chains', calls'[d])
             /\ CallBuilt(libraryNameToBytecodeMap, calls'[d])
  <2>1. /\ CallTyped(calls[d]) /\ CallLinked(chains, calls[d])
        /\ CallBuilt(libraryNameToBytecodeMap, calls[d])
    BY <1>1 DEF Typed, Linked, Built
  <2>2. CallLinked(chains', calls[d])
    BY <2>1, CallStaysLinked
  <2>3. CASE calls'[d] = calls[d]
    BY <2>1, <2>2, <2>3
  <2>4. CASE /\ calls[d].pc = "backoff" /\ calls'[d].pc = "backoff"
             /\ Moves(calls[d], calls'[d], calls[d].address)
    <3>1. calls[d].address \in Nat /\ IsDeploying(calls[d])
      BY <2>4, CallInFlight
    <3>2. /\ calls[d].address \in 1..Len(chains'[ChainOf(calls[d])])
          /\ chains'[ChainOf(calls[d])][calls[d].address].name = calls[d].name
      BY <2>2, <2>4, <3>1 DEF CallLinked
    <3>3. CallTyped(calls'[d]) /\ CallBuilt(libraryNameToBytecodeMap, calls'[d])
      BY <2>1, <2>4, <3>1, MovesKeeps
    <3>4. CallLinked(chains', calls'[d])
      BY <2>2, <2>4, <3>2, MovesLinked
    <3> QED BY <3>3, <3>4
  <2> QED BY <2>3, <2>4
<1>3. Typed'
  BY <1>1, <1>2 DEF Typed
<1>4. Linked'
  <2>1. \A r \in resolved : IsDeployed(chains', r.chain, r.address, r.name)
    BY <1>1, DeployedStays DEF Linked
  <2>2. ChainsLinked(chains')
    BY <1>1, ChainsStayLinked DEF Linked
  <2> QED BY <1>1, <1>2, <2>1, <2>2 DEF Linked
<1>5. Built'
  <2>1. ChainsBuilt(libraryNameToBytecodeMap, chains')
    BY <1>1, InitialChainsType, ChainsStayBuilt DEF Built
  <2> QED BY <1>2, <2>1 DEF Built
<1> QED BY <1>3, <1>4, <1>5 DEF DeployedInv

LEMMA TickDeployed ==
    ASSUME DeployedInv, CallsOK', Tick
    PROVE  DeployedInv'
<1>1. /\ ChainsGrow /\ SameLengths /\ chains' \in [Chains -> Seq(Tx)]
      /\ UNCHANGED <<provider, libraryNameToBytecodeMap, artifacts, resolved>>
  BY TickGrows DEF DeployedInv, Tick
<1>2. ASSUME NEW d \in Callers, calls'[d] # calls[d]
      PROVE  calls[d].pc = "backoff" /\ calls'[d].pc = "backoff"
             /\ Moves(calls[d], calls'[d], calls[d].address)
  <2>1. calls[d].pc = "backoff" /\ calls'[d] = [calls[d] EXCEPT !.wait = CountDown(@)]
    BY <1>2 DEF Tick
  <2>2. IsCall(calls[d]) /\ IsDeploying(calls[d])
    BY <2>1, CallInFlight
  <2> QED BY <2>1, <2>2, WaitingMoves
<1> QED BY <1>1, <1>2, ChainsMoveDeployed

LEMMA CompileDeployed ==
    ASSUME DeployedInv, CallsOK', UNCHANGED vars \/ Compile
    PROVE  DeployedInv'
<1>1. /\ UNCHANGED <<provider, libraryNameToBytecodeMap, calls, resolved, chains>>
      /\ artifacts' \in Nat
  BY DEF vars, Compile, DeployedInv, Typed
<1>2. Typed' /\ Linked' /\ Built'
  BY <1>1 DEF DeployedInv, Typed, Linked, Built
<1> QED BY <1>2 DEF DeployedInv

LEMMA DeployedStep == DeployedInv /\ [Next]_vars => DeployedInv'
<1> SUFFICES ASSUME DeployedInv, [Next]_vars PROVE DeployedInv'
  OBVIOUS
<1>1. CallsOK'
  BY CallsStep DEF DeployedInv
<1>2. CASE \E c \in Callers, apiUrl \in Urls, chainId \in Chains : initRpcApi(c, apiUrl, chainId)
  BY <1>1, <1>2, initRpcApiDeployed
<1>3. CASE \E c \in Callers : DetectNetwork(c) \/ FailToDetectNetwork(c)
  BY <1>1, <1>3, DetectDeployed
<1>4. CASE \E c \in Callers, name \in LibraryNames : deployLibrary(c, name)
  BY <1>1, <1>4, deployLibraryDeployed
<1>5. CASE \E c \in Callers, wrapper \in Wrappers : deploy(c, wrapper)
  BY <1>1, <1>5, deployDeployed
<1>6. CASE \E c \in Callers : Populate(c) \/ Send(c)
  BY <1>1, <1>6, PopulateDeployed, SendDeployed
<1>7. CASE \E c \in Callers : LookUp(c) \/ Retry(c) \/ Resolve(c)
  BY <1>1, <1>7, LookUpDeployed, RetryDeployed, ResolveDeployed
<1>8. CASE \E chain \in Chains : \E a \in DOMAIN chains[chain], status \in {"mined", "reverted"} :
              Mine(chain, a, status)
  <2>1. PICK chain \in Chains : \E a \in DOMAIN chains[chain], status \in {"mined", "reverted"} :
              Mine(chain, a, status)
    BY <1>8
  <2>2. PICK a \in DOMAIN chains[chain], status \in {"mined", "reverted"} : Mine(chain, a, status)
    BY <2>1
  <2>3. ChainsGrow /\ SameLengths /\ chains' \in [Chains -> Seq(Tx)]
    BY <2>2, MineGrows DEF DeployedInv
  <2>4. UNCHANGED <<provider, libraryNameToBytecodeMap, artifacts, calls, resolved>>
    BY <2>2 DEF Mine
  <2> QED BY <1>1, <2>3, <2>4, ChainsMoveDeployed
<1>9. CASE Tick
  BY <1>1, <1>9, TickDeployed
<1>10. CASE UNCHANGED vars \/ Compile
  BY <1>1, <1>10, CompileDeployed
<1> QED BY <1>2, <1>3, <1>4, <1>5, <1>6, <1>7, <1>8, <1>9, <1>10 DEF Next, Settle

\* Theorem.  For any URLs, chains, lag, retries and interleaving of calls, each
\* library that a contract is linked to was deployed, and mined, at that address
\* of the contract's own chain, under the name that the contract links it by.
THEOREM LibrariesAreDeployed == Spec => []LinkedLibrariesAreDeployed
<1>1. DeployedInv => LinkedLibrariesAreDeployed
  <2> SUFFICES ASSUME DeployedInv PROVE LinkedLibrariesAreDeployed
    OBVIOUS
  <2>1. \A chain \in Chains : DOMAIN chains[chain] = 1..Len(chains[chain])
    BY ChainTypes DEF DeployedInv
  <2> QED BY <2>1 DEF DeployedInv, Linked, ChainsLinked, IsDeployed, LinkedLibrariesAreDeployed
<1> QED BY InitDeployed, DeployedStep, <1>1, PTL DEF Spec

\* Theorem.  For any number of calls, whatever provider is loaded between their
\* awaits, what a call resolves to is a contract of its name that is mined at that
\* address of the chain it began with.
THEOREM WhatResolvesIsDeployed == Spec => []ResolvedAreDeployed
<1>1. DeployedInv => ResolvedAreDeployed
  <2> SUFFICES ASSUME DeployedInv, NEW r \in resolved
               PROVE  /\ r.address \in DOMAIN chains[r.chain]
                      /\ chains[r.chain][r.address].name = r.name
                      /\ chains[r.chain][r.address].status = "mined"
    BY DEF ResolvedAreDeployed
  <2>1. r.chain \in Chains /\ IsDeployed(chains, r.chain, r.address, r.name)
    BY DEF DeployedInv, Linked
  <2>2. DOMAIN chains[r.chain] = 1..Len(chains[r.chain])
    BY <2>1, ChainTypes DEF DeployedInv
  <2> QED BY <2>1, <2>2 DEF IsDeployed
<1> QED BY InitDeployed, DeployedStep, <1>1, PTL DEF Spec

\* Theorem.  However often the sources are compiled meanwhile, and in whatever
\* order the calls read the bytecode, all that one process deploys of a library
\* is of one build.
THEOREM LibrariesAreOneBuild == Spec => []OneBuildPerLibrary
<1>1. DeployedInv => OneBuildPerLibrary
  <2> SUFFICES ASSUME DeployedInv PROVE OneBuildPerLibrary
    OBVIOUS
  <2>1. ASSUME NEW s \in Sent
        PROVE  chains[s[1]][s[2]].build = BuildOf(libraryNameToBytecodeMap, chains[s[1]][s[2]].name)
    <3>1. PICK chain \in Chains : \E a \in Len(InitialChains[chain]) + 1..Len(chains[chain]) :
             s = <<chain, a>>
      BY DEF Sent
    <3> QED BY <3>1 DEF DeployedInv, Built, ChainsBuilt
  <2> QED BY <2>1 DEF OneBuildPerLibrary
<1> QED BY InitDeployed, DeployedStep, <1>1, PTL DEF Spec

===============================================================================
