---------------------------- MODULE GovernanceProofs ----------------------------
(***************************************************************************)
(* Governance, for any contracts and wallets: no Insurance Fund has        *)
(* exited, and every change was announced.                                 *)
(***************************************************************************)
EXTENDS Governance, TLAPS

Unpositioned == <<openPositions, walletExits>>

\* A pending upgrade that is due or has just been announced is one of its topic.
LEMMA ValuesOfTopics ==
    /\ Values("exchange") = Exchanges
    /\ Values("governance") = Governances
    /\ Values("assetMigrator") = Migrators
    /\ Values("insuranceFundWallet") = Wallets
    /\ Values("managedAccountProviders") = ProviderLists
    /\ Values("indexPriceAdapters") = IndexPriceAdapterSets
    /\ Values("oraclePriceAdapter") = Adapters
    /\ \A wallet \in OverrideTopics : Values(wallet) = OverridableFields
BY GovernanceAssumption DEF Values, CustodianTopics, FieldTopics

\* What stands for no upgrade is not one.
LEMMA NoUpgrade ==
    \A topic \in Topics : \A u \in [value : Values(topic), wait : Nat] : u # None
BY GovernanceAssumption

LEMMA DelayType == \A g \in Governances, topic \in Topics : Delay[g][topic] \in Nat
BY GovernanceAssumption DEF Delay

\* Announcing an upgrade keeps the types.
LEMMA AnnounceType ==
    ASSUME TypeOK, NEW g \in Governances, NEW topic \in Topics, NEW value \in Values(topic),
           Announce(g, topic, value)
    PROVE  TypeOK'
<1>1. Upgrade(value, Delay[g][topic]) \in [value : Values(topic), wait : 0 .. Delay[g][topic]]
  BY DelayType DEF Upgrade
<1>2. upgrade' = [h \in Governances |-> [t \in Topics |-> upgrade'[h][t]]]
  BY DEF Announce, TypeOK
<1>3. \A h \in Governances, t \in Topics :
         upgrade'[h][t] = IF h = g /\ t = topic THEN Upgrade(value, Delay[g][topic])
                          ELSE upgrade[h][t]
  BY DEF Announce, TypeOK
<1>4. \A h \in Governances, t \in Topics :
         upgrade'[h][t] # None => upgrade'[h][t] \in [value : Values(t), wait : 0 .. Delay[h][t]]
  BY <1>1, <1>3 DEF TypeOK
<1>5. UNCHANGED <<custodian, settings, activeFor, openPositions, walletExits>>
  BY DEF Announce
<1>. QED
  BY <1>2, <1>4, <1>5 DEF TypeOK, InsuranceFundWallet

LEMMA InitType == Init => TypeOK
<1>. SUFFICES ASSUME Init PROVE TypeOK
  OBVIOUS
<1>. QED
  BY GovernanceAssumption DEF Init, TypeOK, InsuranceFundWallet

\* Dropping a pending upgrade keeps the types of what is pending.
LEMMA DropType ==
    ASSUME TypeOK, NEW g \in Governances, NEW topic \in Topics,
           upgrade' = [upgrade EXCEPT ![g][topic] = None]
    PROVE  /\ upgrade' = [h \in Governances |-> [t \in Topics |-> upgrade'[h][t]]]
           /\ \A h \in Governances, t \in Topics :
                 upgrade'[h][t] # None =>
                     upgrade'[h][t] \in [value : Values(t), wait : 0 .. Delay[h][t]]
<1>1. upgrade' = [h \in Governances |-> [t \in Topics |-> upgrade'[h][t]]]
  BY DEF TypeOK
<1>2. \A h \in Governances, t \in Topics :
         upgrade'[h][t] = IF h = g /\ t = topic THEN None ELSE upgrade[h][t]
  BY DEF TypeOK
<1>. QED
  BY <1>1, <1>2 DEF TypeOK

\* What has been announced is a value of its topic.
LEMMA DueValue ==
    ASSUME TypeOK, NEW g \in Governances, NEW topic \in Topics, Due(g, topic)
    PROVE  upgrade[g][topic].value \in Values(topic)
BY DEF TypeOK, Due

\* Finalizing an upgrade of a contract keeps the types.
LEMMA CustodianType ==
    ASSUME TypeOK, NEW g \in Governances, NEW topic \in CustodianTopics, SetAtCustodian(g, topic)
    PROVE  TypeOK'
<1>1. topic \in Topics
  BY DEF Topics
<1>2. /\ Due(g, topic) /\ upgrade' = [upgrade EXCEPT ![g][topic] = None]
      /\ custodian' = [custodian EXCEPT ![topic] = upgrade[g][topic].value]
      /\ UNCHANGED <<settings, activeFor, openPositions, walletExits>>
  BY DEF SetAtCustodian, Finalized
<1>3. upgrade[g][topic].value \in Values(topic)
  BY <1>1, <1>2, DueValue
<1>4. custodian' \in [assetMigrator : Migrators \cup {None}, exchange : Exchanges,
                      governance : Governances]
  <2>1. CASE topic = "assetMigrator"
    BY <1>2, <1>3, <2>1, ValuesOfTopics DEF TypeOK
  <2>2. CASE topic = "exchange"
    BY <1>2, <1>3, <2>2, ValuesOfTopics DEF TypeOK
  <2>3. CASE topic = "governance"
    BY <1>2, <1>3, <2>3, ValuesOfTopics DEF TypeOK
  <2>. QED
    BY <2>1, <2>2, <2>3 DEF CustodianTopics
<1>5. /\ upgrade' = [h \in Governances |-> [t \in Topics |-> upgrade'[h][t]]]
      /\ \A h \in Governances, t \in Topics :
            upgrade'[h][t] # None =>
                upgrade'[h][t] \in [value : Values(t), wait : 0 .. Delay[h][t]]
  BY <1>1, <1>2, DropType
<1>. QED
  BY <1>2, <1>4, <1>5, SMTT(30) DEF TypeOK, InsuranceFundWallet

\* What finalizing an upgrade of a field does to the settings.
LEMMA SettingsType ==
    ASSUME TypeOK, NEW g \in Governances, NEW topic \in SettingTopics, SetAtExchange(g, topic)
    PROVE  /\ settings' = [x \in Exchanges |-> [t \in SettingTopics |-> settings'[x][t]]]
           /\ \A x \in Exchanges, t \in SettingTopics :
                 settings'[x][t] = IF x = custodian.exchange /\ t = topic
                                   THEN upgrade[g][topic].value ELSE settings[x][t]
           /\ upgrade[g][topic].value \in Values(topic)
           /\ UNCHANGED <<custodian, openPositions, walletExits>>
           /\ upgrade' = [upgrade EXCEPT ![g][topic] = None]
<1>1. topic \in Topics
  BY DEF Topics
<1>2. /\ Due(g, topic) /\ upgrade' = [upgrade EXCEPT ![g][topic] = None]
      /\ settings' = [settings EXCEPT ![custodian.exchange][topic] = upgrade[g][topic].value]
      /\ UNCHANGED <<custodian, openPositions, walletExits>>
  BY DEF SetAtExchange, Finalized
<1>3. custodian.exchange \in Exchanges
  BY DEF TypeOK
<1>4. settings' = [x \in Exchanges |-> [t \in SettingTopics |-> settings'[x][t]]]
  BY <1>2 DEF TypeOK
<1>5. \A x \in Exchanges, t \in SettingTopics :
         settings'[x][t] = IF x = custodian.exchange /\ t = topic
                           THEN upgrade[g][topic].value ELSE settings[x][t]
  BY <1>2, <1>3 DEF TypeOK
<1>. QED
  BY <1>1, <1>2, <1>4, <1>5, DueValue

LEMMA FieldType ==
    ASSUME TypeOK, NEW g \in Governances, NEW topic \in SettingTopics, SetAtExchange(g, topic),
           activeFor' \in [Adapters -> Exchanges \cup {None}]
    PROVE  TypeOK'
<1>1. topic \in Topics /\ "insuranceFundWallet" \in SettingTopics
  BY DEF Topics, SettingTopics, FieldTopics
<1>2. /\ settings' = [x \in Exchanges |-> [t \in SettingTopics |-> settings'[x][t]]]
      /\ \A x \in Exchanges, t \in SettingTopics :
            settings'[x][t] = IF x = custodian.exchange /\ t = topic
                              THEN upgrade[g][topic].value ELSE settings[x][t]
      /\ upgrade[g][topic].value \in Values(topic)
      /\ UNCHANGED <<custodian, openPositions, walletExits>>
      /\ upgrade' = [upgrade EXCEPT ![g][topic] = None]
  BY SettingsType
<1>3. \A x \in Exchanges, t \in SettingTopics : settings'[x][t] \in Values(t) \cup {None}
  BY <1>2 DEF TypeOK
<1>4. ASSUME NEW x \in Exchanges PROVE settings'[x]["insuranceFundWallet"] \in Wallets
  <2>1. settings[x]["insuranceFundWallet"] \in Wallets
    BY DEF TypeOK, InsuranceFundWallet
  <2>2. settings'[x]["insuranceFundWallet"] =
           IF x = custodian.exchange /\ "insuranceFundWallet" = topic
           THEN upgrade[g][topic].value ELSE settings[x]["insuranceFundWallet"]
    BY <1>1, <1>2
  <2>3. topic = "insuranceFundWallet" => upgrade[g][topic].value \in Wallets
    BY <1>2, ValuesOfTopics
  <2>. QED
    BY <2>1, <2>2, <2>3
<1>5. /\ upgrade' = [h \in Governances |-> [t \in Topics |-> upgrade'[h][t]]]
      /\ \A h \in Governances, t \in Topics :
            upgrade'[h][t] # None =>
                upgrade'[h][t] \in [value : Values(t), wait : 0 .. Delay[h][t]]
  BY <1>1, <1>2, DropType
<1>. QED
  BY <1>2, <1>3, <1>4, <1>5 DEF TypeOK, InsuranceFundWallet

LEMMA ActivatedType ==
    ASSUME TypeOK, NEW adapters
    PROVE  Activated(adapters) \in [Adapters -> Exchanges \cup {None}]
BY DEF Activated, TypeOK

-----------------------------------------------------------------------------
(* Type correctness: every action keeps the types. *)

LEMMA InitiateType ==
    ASSUME TypeOK, NEW g \in Governances, NEW topic \in Topics,
           \/ topic \in CustodianTopics /\ InitiateContractUpgrade(g, topic)
           \/ InitiateAdaptersUpgrade(g, topic)
           \/ InitiateInsuranceFundWalletUpgrade(g)
           \/ InitiateManagedAccountProvidersUpgrade(g)
           \/ topic \in OverrideTopics /\ InitiateMarketOverridesUpgrade(g, topic)
           \/ InitiateMarketOverridesUpgradeForInsuranceFundWallet(g)
    PROVE  TypeOK'
<1>. DEFINE insuranceFund == InsuranceFundWallet(custodian.exchange)
<1>1. insuranceFund \in Wallets /\ insuranceFund \in OverrideTopics
  BY DEF TypeOK, OverrideTopics
<1>2. /\ insuranceFund \in Topics
      /\ "insuranceFundWallet" \in Topics /\ "managedAccountProviders" \in Topics
  BY <1>1 DEF Topics, SettingTopics, FieldTopics
<1>. HIDE DEF insuranceFund
<1>3. CASE topic \in CustodianTopics /\ InitiateContractUpgrade(g, topic)
  BY <1>3, AnnounceType DEF InitiateContractUpgrade
<1>4. CASE InitiateAdaptersUpgrade(g, topic)
  BY <1>4, AnnounceType DEF InitiateAdaptersUpgrade
<1>5. CASE InitiateInsuranceFundWalletUpgrade(g)
  BY <1>2, <1>5, AnnounceType, ValuesOfTopics DEF InitiateInsuranceFundWalletUpgrade
<1>6. CASE InitiateManagedAccountProvidersUpgrade(g)
  BY <1>2, <1>6, AnnounceType, ValuesOfTopics DEF InitiateManagedAccountProvidersUpgrade
<1>7. CASE topic \in OverrideTopics /\ InitiateMarketOverridesUpgrade(g, topic)
  BY <1>7, AnnounceType, ValuesOfTopics DEF InitiateMarketOverridesUpgrade
<1>8. CASE InitiateMarketOverridesUpgradeForInsuranceFundWallet(g)
  <2>1. PICK value \in OverridableFields : Announce(g, insuranceFund, value)
    BY <1>8 DEF InitiateMarketOverridesUpgradeForInsuranceFundWallet, insuranceFund
  <2>2. value \in Values(insuranceFund)
    BY <1>1, ValuesOfTopics
  <2>. QED
    BY <1>2, <2>1, <2>2, AnnounceType
<1>. QED
  BY <1>3, <1>4, <1>5, <1>6, <1>7, <1>8

LEMMA FinalizeType ==
    ASSUME TypeOK, NEW g \in Governances,
           \/ \E topic \in SettingTopics : FinalizeFieldUpgrade(g, topic)
           \/ FinalizeInsuranceFundWalletUpgrade(g)
           \/ FinalizeIndexPriceAdaptersUpgrade(g)
           \/ FinalizeOraclePriceAdapterUpgrade(g)
    PROVE  TypeOK'
<1>. FieldTopics \subseteq SettingTopics
  BY DEF SettingTopics
<1>1. activeFor \in [Adapters -> Exchanges \cup {None}]
  BY DEF TypeOK
<1>2. CASE \E topic \in SettingTopics : FinalizeFieldUpgrade(g, topic)
  BY <1>1, <1>2, FieldType DEF FinalizeFieldUpgrade
<1>3. CASE FinalizeInsuranceFundWalletUpgrade(g)
  BY <1>1, <1>3, FieldType DEF FinalizeInsuranceFundWalletUpgrade, FieldTopics
<1>4. CASE FinalizeIndexPriceAdaptersUpgrade(g)
  BY <1>4, FieldType, ActivatedType DEF FinalizeIndexPriceAdaptersUpgrade, FieldTopics
<1>5. CASE FinalizeOraclePriceAdapterUpgrade(g)
  BY <1>5, FieldType, ActivatedType DEF FinalizeOraclePriceAdapterUpgrade, FieldTopics
<1>. QED
  BY <1>2, <1>3, <1>4, <1>5

LEMMA TickType ==
    ASSUME TypeOK, Tick PROVE TypeOK'
<1>1. upgrade' = [g \in Governances |-> [topic \in Topics |-> upgrade'[g][topic]]]
  BY DEF Tick
<1>2. ASSUME NEW g \in Governances, NEW topic \in Topics, upgrade'[g][topic] # None
      PROVE  upgrade'[g][topic] \in [value : Values(topic), wait : 0 .. Delay[g][topic]]
  <2>1. upgrade'[g][topic] =
           IF Due(g, topic) \/ upgrade[g][topic] = None THEN upgrade[g][topic]
           ELSE [upgrade[g][topic] EXCEPT !.wait = @ - 1]
    BY DEF Tick
  <2>2. upgrade[g][topic] # None
    BY <1>2, <2>1
  <2>3. upgrade[g][topic] \in [value : Values(topic), wait : 0 .. Delay[g][topic]]
    BY <2>2 DEF TypeOK
  <2>4. Delay[g][topic] \in Nat
    BY DelayType
  <2>5. CASE Due(g, topic)
    BY <2>1, <2>3, <2>5
  <2>6. CASE ~ Due(g, topic)
    <3>1. upgrade[g][topic].wait - 1 \in 0 .. Delay[g][topic]
      BY <2>2, <2>3, <2>4, <2>6 DEF Due
    <3>. QED
      BY <2>1, <2>2, <2>3, <2>6, <3>1
  <2>. QED
    BY <2>5, <2>6
<1>3. UNCHANGED <<custodian, settings, activeFor, openPositions, walletExits>>
  BY DEF Tick
<1>. QED
  BY <1>1, <1>2, <1>3 DEF TypeOK, InsuranceFundWallet

LEMMA OtherType ==
    ASSUME TypeOK, NEW g \in Governances, NEW x \in Exchanges, NEW wallet \in Wallets,
           \/ \E topic \in Topics : CancelUpgrade(g, topic)
           \/ ClearAssetMigrator(g)
           \/ ExchangeNext(x, wallet)
    PROVE  TypeOK'
<1>1. CASE \E topic \in Topics : CancelUpgrade(g, topic)
  <2>1. PICK topic \in Topics : CancelUpgrade(g, topic)
    BY <1>1
  <2>2. /\ upgrade' = [h \in Governances |-> [t \in Topics |-> upgrade'[h][t]]]
        /\ \A h \in Governances, t \in Topics :
              upgrade'[h][t] # None =>
                  upgrade'[h][t] \in [value : Values(t), wait : 0 .. Delay[h][t]]
    BY <2>1, DropType DEF CancelUpgrade
  <2>3. UNCHANGED <<custodian, settings, activeFor, openPositions, walletExits>>
    BY <2>1 DEF CancelUpgrade
  <2>. QED
    BY <2>2, <2>3 DEF TypeOK, InsuranceFundWallet
<1>2. CASE ClearAssetMigrator(g)
  <2>1. custodian' \in [assetMigrator : Migrators \cup {None}, exchange : Exchanges,
                        governance : Governances]
    BY <1>2 DEF ClearAssetMigrator, TypeOK
  <2>2. UNCHANGED <<settings, upgrade, activeFor, openPositions, walletExits>>
    BY <1>2 DEF ClearAssetMigrator
  <2>. QED
    BY <2>1, <2>2 DEF TypeOK, InsuranceFundWallet
<1>3. CASE UnsetMarketOverridesForWallet(x, wallet)
  <2>1. wallet # "insuranceFundWallet"
    BY GovernanceAssumption DEF OverrideTopics, FieldTopics
  <2>2. settings' = [y \in Exchanges |-> [t \in SettingTopics |-> settings'[y][t]]]
    BY <1>3 DEF UnsetMarketOverridesForWallet, TypeOK
  <2>3. \A y \in Exchanges, t \in SettingTopics :
           settings'[y][t] = IF y = x /\ t = wallet THEN None ELSE settings[y][t]
    BY <1>3 DEF UnsetMarketOverridesForWallet, TypeOK
  <2>4. "insuranceFundWallet" \in SettingTopics
    BY DEF SettingTopics, FieldTopics
  <2>5. \A y \in Exchanges : settings'[y]["insuranceFundWallet"] \in Wallets
    BY <2>1, <2>3, <2>4 DEF TypeOK, InsuranceFundWallet
  <2>6. UNCHANGED <<custodian, upgrade, activeFor, openPositions, walletExits>>
    BY <1>3 DEF UnsetMarketOverridesForWallet
  <2>. QED
    BY <2>2, <2>3, <2>5, <2>6 DEF TypeOK, InsuranceFundWallet
<1>4. CASE \/ ChangePositions(x, wallet) \/ ExitWallet(x, wallet) \/ ClearWalletExit(x, wallet)
  <2>1. UNCHANGED <<custodian, settings, upgrade, activeFor>>
    BY <1>4 DEF ChangePositions, ExitWallet, ClearWalletExit, governed
  <2>2. /\ openPositions' \in [Exchanges -> SUBSET Wallets]
        /\ walletExits' \in [Exchanges -> SUBSET Wallets]
    <3>. /\ openPositions \in [Exchanges -> SUBSET Wallets]
         /\ walletExits \in [Exchanges -> SUBSET Wallets]
      BY DEF TypeOK
    <3>1. CASE ChangePositions(x, wallet)
      BY <3>1 DEF ChangePositions
    <3>2. CASE ExitWallet(x, wallet)
      BY <3>2 DEF ExitWallet
    <3>3. CASE ClearWalletExit(x, wallet)
      BY <3>3 DEF ClearWalletExit
    <3>. QED
      BY <1>4, <3>1, <3>2, <3>3
  <2>. QED
    BY <2>1, <2>2 DEF TypeOK, InsuranceFundWallet
<1>. QED
  BY <1>1, <1>2, <1>3, <1>4 DEF ExchangeNext

\* Every step keeps the types of the state.
LEMMA StepType == TypeOK /\ [Next]_vars => TypeOK'
<1>. SUFFICES ASSUME TypeOK, [Next]_vars PROVE TypeOK'
  OBVIOUS
<1>1. CASE UNCHANGED vars
  BY <1>1 DEF vars, governed, TypeOK, InsuranceFundWallet
<1>2. ASSUME NEW g \in Governances, GovernanceNext(g) PROVE TypeOK'
  <2>1. /\ CustodianTopics \subseteq Topics /\ OverrideTopics \subseteq Topics
        /\ OverrideTopics \subseteq SettingTopics
        /\ {"bridgeAdapters", "indexPriceAdapters", "oraclePriceAdapter"} \subseteq Topics
        /\ {"bridgeAdapters", "managedAccountProviders"} \subseteq SettingTopics
    BY DEF Topics, SettingTopics, FieldTopics
  <2>2. custodian.exchange \in Exchanges /\ InsuranceFundWallet(custodian.exchange) \in Wallets
    BY DEF TypeOK
  <2>. QED
    BY <1>2, <2>1, <2>2, InitiateType, FinalizeType, CustodianType, OtherType
    DEF GovernanceNext, FinalizeContractUpgrade
<1>3. ASSUME NEW x \in Exchanges, NEW wallet \in Wallets, ExchangeNext(x, wallet) PROVE TypeOK'
  BY <1>3, OtherType DEF TypeOK
<1>. QED
  BY <1>1, <1>2, <1>3, TickType DEF Next

\* Settings and pending upgrades have values of their topic, and no upgrade waits for
\* longer than its delay.
THEOREM GovernanceTypeCorrect == Spec => []TypeOK
<1>1. Init => TypeOK
  BY InitType
<1>. QED
  BY <1>1, StepType, PTL DEF Spec

-----------------------------------------------------------------------------
(* The Insurance Fund. *)

\* Every step keeps the Insurance Funds of the Exchanges from being exited wallets.
LEMMA InsuranceFundStep ==
    TypeOK /\ InsuranceFundIsNotExited /\ [Next]_vars => InsuranceFundIsNotExited'
<1>. SUFFICES ASSUME TypeOK, InsuranceFundIsNotExited, [Next]_vars,
                     NEW x \in Exchanges
              PROVE  InsuranceFundWallet(x)' \notin walletExits'[x]
  BY DEF InsuranceFundIsNotExited
<1>1. InsuranceFundWallet(x) \notin walletExits[x] /\ walletExits \in [Exchanges -> SUBSET Wallets]
  BY DEF InsuranceFundIsNotExited, TypeOK
<1>2. ASSUME UNCHANGED <<settings, walletExits>> PROVE InsuranceFundWallet(x)' \notin walletExits'[x]
  BY <1>1, <1>2 DEF InsuranceFundWallet
<1>3. "insuranceFundWallet" \in SettingTopics
  BY DEF SettingTopics, FieldTopics
<1>4. ASSUME NEW g \in Governances, NEW topic \in SettingTopics, topic # "insuranceFundWallet",
             SetAtExchange(g, topic)
      PROVE  InsuranceFundWallet(x)' \notin walletExits'[x]
  <2>1. settings'[x]["insuranceFundWallet"] = settings[x]["insuranceFundWallet"]
    BY <1>3, <1>4, SettingsType
  <2>2. UNCHANGED walletExits
    BY <1>4, SettingsType
  <2>. QED
    BY <1>1, <2>1, <2>2 DEF InsuranceFundWallet
<1>5. ASSUME NEW g \in Governances, FinalizeInsuranceFundWalletUpgrade(g)
      PROVE  InsuranceFundWallet(x)' \notin walletExits'[x]
  <2>1. SetAtExchange(g, "insuranceFundWallet")
    BY <1>5 DEF FinalizeInsuranceFundWalletUpgrade
  <2>2. /\ UNCHANGED walletExits
        /\ settings'[x]["insuranceFundWallet"] =
              IF x = custodian.exchange THEN upgrade[g]["insuranceFundWallet"].value
              ELSE settings[x]["insuranceFundWallet"]
    BY <1>3, <2>1, SettingsType
  <2>3. upgrade[g]["insuranceFundWallet"].value \notin walletExits[custodian.exchange]
    BY <1>5 DEF FinalizeInsuranceFundWalletUpgrade
  <2>. QED
    BY <1>1, <2>2, <2>3 DEF InsuranceFundWallet
<1>6. ASSUME NEW g \in Governances, GovernanceNext(g)
      PROVE  InsuranceFundWallet(x)' \notin walletExits'[x]
  <2>1. CASE \/ \E topic \in CustodianTopics :
                   InitiateContractUpgrade(g, topic) \/ FinalizeContractUpgrade(g, topic)
             \/ \E topic \in Topics : InitiateAdaptersUpgrade(g, topic) \/ CancelUpgrade(g, topic)
             \/ InitiateInsuranceFundWalletUpgrade(g)
             \/ InitiateManagedAccountProvidersUpgrade(g)
             \/ \E wallet \in OverrideTopics : InitiateMarketOverridesUpgrade(g, wallet)
             \/ InitiateMarketOverridesUpgradeForInsuranceFundWallet(g)
             \/ ClearAssetMigrator(g)
    <3>1. UNCHANGED <<settings, walletExits>>
      BY <2>1 DEF InitiateContractUpgrade, FinalizeContractUpgrade, InitiateAdaptersUpgrade,
                  CancelUpgrade, InitiateInsuranceFundWalletUpgrade,
                  InitiateManagedAccountProvidersUpgrade, InitiateMarketOverridesUpgrade,
                  InitiateMarketOverridesUpgradeForInsuranceFundWallet, ClearAssetMigrator,
                  Announce, SetAtCustodian, Finalized
    <3>. QED
      BY <1>2, <3>1
  <2>2. CASE \E topic \in {"bridgeAdapters", "managedAccountProviders"} \cup OverrideTopics :
                FinalizeFieldUpgrade(g, topic)
    <3>1. PICK topic \in {"bridgeAdapters", "managedAccountProviders"} \cup OverrideTopics :
             SetAtExchange(g, topic)
      BY <2>2 DEF FinalizeFieldUpgrade
    <3>2. topic \in SettingTopics /\ topic # "insuranceFundWallet"
      BY GovernanceAssumption DEF SettingTopics, FieldTopics
    <3>. QED
      BY <1>4, <3>1, <3>2
  <2>3. CASE FinalizeIndexPriceAdaptersUpgrade(g) \/ FinalizeOraclePriceAdapterUpgrade(g)
    <3>1. \E topic \in {"indexPriceAdapters", "oraclePriceAdapter"} : SetAtExchange(g, topic)
      BY <2>3 DEF FinalizeIndexPriceAdaptersUpgrade, FinalizeOraclePriceAdapterUpgrade
    <3>2. {"indexPriceAdapters", "oraclePriceAdapter"} \subseteq SettingTopics
      BY DEF SettingTopics, FieldTopics
    <3>. QED
      BY <1>4, <3>1, <3>2
  <2>4. {"bridgeAdapters", "indexPriceAdapters", "oraclePriceAdapter"} \subseteq Topics
    BY DEF Topics, SettingTopics, FieldTopics
  <2>. QED
    BY <1>5, <1>6, <2>1, <2>2, <2>3, <2>4 DEF GovernanceNext
<1>7. ASSUME NEW y \in Exchanges, NEW wallet \in Wallets, ExchangeNext(y, wallet)
      PROVE  InsuranceFundWallet(x)' \notin walletExits'[x]
  <2>1. CASE UnsetMarketOverridesForWallet(y, wallet)
    <3>1. wallet # "insuranceFundWallet"
      BY GovernanceAssumption DEF OverrideTopics, FieldTopics
    <3>2. settings'[x]["insuranceFundWallet"] = settings[x]["insuranceFundWallet"]
      BY <1>3, <2>1, <3>1 DEF UnsetMarketOverridesForWallet, TypeOK
    <3>. QED
      BY <1>1, <2>1, <3>2 DEF UnsetMarketOverridesForWallet, InsuranceFundWallet
  <2>2. CASE ChangePositions(y, wallet)
    BY <1>2, <2>2 DEF ChangePositions, governed
  <2>3. CASE ExitWallet(y, wallet)
    BY <1>1, <2>3 DEF ExitWallet, governed, InsuranceFundWallet
  <2>4. CASE ClearWalletExit(y, wallet)
    BY <1>1, <2>4 DEF ClearWalletExit, governed, InsuranceFundWallet
  <2>. QED
    BY <1>7, <2>1, <2>2, <2>3, <2>4 DEF ExchangeNext
<1>8. CASE Tick \/ UNCHANGED vars
  BY <1>2, <1>8 DEF Tick, vars, governed
<1>. QED
  BY <1>6, <1>7, <1>8 DEF Next

\* The wallet that is the Insurance Fund of an Exchange has not exited from it.
THEOREM InsuranceFundNeverExits == Spec => []InsuranceFundIsNotExited
<1>1. Init => InsuranceFundIsNotExited
  BY DEF Init, InsuranceFundIsNotExited
<1>. QED
  BY <1>1, InsuranceFundStep, GovernanceTypeCorrect, PTL DEF Spec

-----------------------------------------------------------------------------
(* Governance implements Timelock. *)

LEMMA NoticesArePending ==
    /\ DOMAIN Notices = Pending
    /\ \A p \in Pending : Notices[p] = upgrade[p[1]][p[2]]
BY DEF Notices

\* Announcing an upgrade gives notice of it.
LEMMA AnnounceGivesNotice ==
    ASSUME TypeOK, NEW g \in Governances, NEW topic \in Topics, NEW value \in Values(topic),
           Announce(g, topic, value)
    PROVE  TL!GiveNotice(<<g, topic>>)
<1>. DEFINE p == <<g, topic>>
            new == Upgrade(value, Delay[g][topic])
<1>1. \A h \in Governances, t \in Topics :
         upgrade'[h][t] = IF h = g /\ t = topic THEN new ELSE upgrade[h][t]
  BY DEF Announce, TypeOK
<1>2. new # None /\ new = [value |-> value, wait |-> Delay[g][topic]]
  BY NoUpgrade, DelayType DEF Upgrade
<1>3. p \in Governances \X Topics /\ p \notin Pending
  BY DEF Announce, Pending
<1>4. Pending' = Pending \cup {p}
  BY <1>1, <1>2, <1>3 DEF Pending
<1>5. Notices' = [q \in Pending \cup {p} |-> IF q = p THEN new ELSE Notices[q]]
  BY <1>1, <1>3, <1>4, NoticesArePending DEF Notices, Pending
<1>6. Notices'[p] = new
  BY <1>5
<1>. QED
  BY <1>2, <1>3, <1>4, <1>5, <1>6, NoticesArePending DEF TL!GiveNotice, Announce

\* What is no longer pending is no longer a notice that stands.
LEMMA DropEndsNotice ==
    ASSUME TypeOK, NEW g \in Governances, NEW topic \in Topics,
           upgrade' = [upgrade EXCEPT ![g][topic] = None]
    PROVE  Notices' = TL!Without(<<g, topic>>)
<1>1. \A h \in Governances, t \in Topics :
         upgrade'[h][t] = IF h = g /\ t = topic THEN None ELSE upgrade[h][t]
  BY DEF TypeOK
<1>2. Pending' = Pending \ {<<g, topic>>}
  BY <1>1 DEF Pending
<1>. QED
  BY <1>1, <1>2, NoticesArePending DEF TL!Without, Notices, Pending

\* Finalizing an upgrade of a contract or of a field enacts a notice.
LEMMA FinalizeEnacts ==
    ASSUME TypeOK, NEW g \in Governances, NEW topic \in Topics,
           \/ topic \in CustodianTopics /\ SetAtCustodian(g, topic)
           \/ topic \in SettingTopics /\ SetAtExchange(g, topic)
    PROVE  <<g, topic>> \in DOMAIN Notices /\ TL!Enact(<<g, topic>>)
<1>. DEFINE p == <<g, topic>>
<1>1. Finalized(g, topic)
  BY DEF SetAtCustodian, SetAtExchange
<1>2. p \in Pending
  BY <1>1 DEF Finalized, Due, Pending
<1>3. Notices[p] = upgrade[g][topic] /\ Notices[p].wait = 0 /\ g = custodian.governance
  BY <1>1, <1>2, NoticesArePending DEF Finalized, Due
<1>4. Notices' = TL!Without(p)
  BY <1>1, DropEndsNotice DEF Finalized
<1>5. SettingTopics \cap CustodianTopics = {}
  BY GovernanceAssumption DEF SettingTopics, FieldTopics, CustodianTopics
<1>6. IF topic \in CustodianTopics
      THEN /\ custodian' = [custodian EXCEPT ![topic] = Notices[p].value]
           /\ UNCHANGED settings
      ELSE /\ settings' = [settings EXCEPT ![custodian.exchange][topic] = Notices[p].value]
           /\ UNCHANGED custodian
  BY <1>3, <1>5 DEF SetAtCustodian, SetAtExchange
<1>. QED
  BY <1>2, <1>3, <1>4, <1>6, NoticesArePending DEF TL!Enact

\* Every step of Governance is one of Timelock, or none.
LEMMA StepRefines == TypeOK /\ [Next]_vars => [TL!Next]_<<custodian, settings, Notices>>
<1>. SUFFICES ASSUME TypeOK, [Next]_vars PROVE TL!Next \/ UNCHANGED <<custodian, settings, Notices>>
  OBVIOUS
<1>1. ASSUME UNCHANGED <<custodian, settings, upgrade>> PROVE UNCHANGED <<custodian, settings, Notices>>
  BY <1>1 DEF Notices, Pending
<1>2. ASSUME NEW g \in Governances, NEW topic \in Topics, NEW value \in Values(topic),
             Announce(g, topic, value)
      PROVE  TL!Next
  <2>1. topic \in DOMAIN Delay[g]
    BY DEF Delay
  <2>2. TL!GiveNotice(<<g, topic>>)
    BY <1>2, AnnounceGivesNotice
  <2>. QED
    BY <2>1, <2>2 DEF TL!Next
<1>3. ASSUME NEW g \in Governances, NEW topic \in Topics,
             \/ topic \in CustodianTopics /\ SetAtCustodian(g, topic)
             \/ topic \in SettingTopics /\ SetAtExchange(g, topic)
      PROVE  TL!Next
  BY <1>3, FinalizeEnacts DEF TL!Next
<1>4. ASSUME NEW g \in Governances, NEW topic \in Topics, CancelUpgrade(g, topic) PROVE TL!Next
  <2>1. <<g, topic>> \in DOMAIN Notices
    BY <1>4, NoticesArePending DEF CancelUpgrade, Pending
  <2>2. TL!WithdrawNotice(<<g, topic>>)
    BY <1>4, DropEndsNotice DEF CancelUpgrade, TL!WithdrawNotice
  <2>. QED
    BY <2>1, <2>2 DEF TL!Next
<1>5. ASSUME NEW g \in Governances, GovernanceNext(g) PROVE TL!Next
  <2>1. /\ FieldTopics \subseteq SettingTopics /\ OverrideTopics \subseteq SettingTopics
        /\ SettingTopics \subseteq Topics /\ CustodianTopics \subseteq Topics
    BY DEF Topics, SettingTopics
  <2>2. InsuranceFundWallet(custodian.exchange) \in OverrideTopics
    BY DEF TypeOK, OverrideTopics
  <2>3. CASE \E topic \in CustodianTopics :
                InitiateContractUpgrade(g, topic) \/ FinalizeContractUpgrade(g, topic)
    BY <1>2, <1>3, <2>1, <2>3 DEF InitiateContractUpgrade, FinalizeContractUpgrade
  <2>4. CASE \/ \E topic \in {"bridgeAdapters", "indexPriceAdapters", "oraclePriceAdapter"} :
                   InitiateAdaptersUpgrade(g, topic)
             \/ InitiateInsuranceFundWalletUpgrade(g)
             \/ InitiateManagedAccountProvidersUpgrade(g)
    BY <1>2, <2>1, <2>4, ValuesOfTopics DEF InitiateAdaptersUpgrade, InitiateInsuranceFundWalletUpgrade,
                            InitiateManagedAccountProvidersUpgrade, FieldTopics
  <2>5. CASE \/ \E wallet \in OverrideTopics : InitiateMarketOverridesUpgrade(g, wallet)
             \/ InitiateMarketOverridesUpgradeForInsuranceFundWallet(g)
    <3>1. PICK wallet \in OverrideTopics, value \in OverridableFields : Announce(g, wallet, value)
      BY <2>2, <2>5 DEF InitiateMarketOverridesUpgrade,
                        InitiateMarketOverridesUpgradeForInsuranceFundWallet
    <3>. QED
      BY <1>2, <2>1, <3>1, ValuesOfTopics
  <2>6. CASE \/ \E topic \in {"bridgeAdapters", "managedAccountProviders"} \cup OverrideTopics :
                   FinalizeFieldUpgrade(g, topic)
             \/ FinalizeInsuranceFundWalletUpgrade(g)
             \/ FinalizeIndexPriceAdaptersUpgrade(g) \/ FinalizeOraclePriceAdapterUpgrade(g)
    <3>1. PICK topic \in SettingTopics : SetAtExchange(g, topic)
      BY <2>1, <2>6 DEF FinalizeFieldUpgrade, FinalizeInsuranceFundWalletUpgrade,
                        FinalizeIndexPriceAdaptersUpgrade, FinalizeOraclePriceAdapterUpgrade,
                        FieldTopics
    <3>. QED
      BY <1>3, <2>1, <3>1
  <2>7. CASE \E topic \in Topics : CancelUpgrade(g, topic)
    BY <1>4, <2>7
  <2>8. CASE ClearAssetMigrator(g)
    <3>1. UNCHANGED Notices
      BY <2>8 DEF ClearAssetMigrator, Notices, Pending
    <3>. QED
      BY <2>8, <3>1 DEF ClearAssetMigrator, TL!ClearMigrator, TL!Next
  <2>. QED
    BY <1>5, <2>3, <2>4, <2>5, <2>6, <2>7, <2>8 DEF GovernanceNext
<1>6. ASSUME NEW x \in Exchanges, NEW wallet \in Wallets, ExchangeNext(x, wallet)
      PROVE  TL!Next \/ UNCHANGED <<custodian, settings, Notices>>
  <2>1. CASE UnsetMarketOverridesForWallet(x, wallet)
    <3>1. UNCHANGED Notices
      BY <2>1 DEF UnsetMarketOverridesForWallet, Notices, Pending
    <3>. QED
      BY <2>1, <3>1 DEF UnsetMarketOverridesForWallet, TL!ClearOverrides, TL!Next
  <2>2. CASE ChangePositions(x, wallet) \/ ExitWallet(x, wallet) \/ ClearWalletExit(x, wallet)
    BY <1>1, <2>2 DEF ChangePositions, ExitWallet, ClearWalletExit, governed
  <2>. QED
    BY <1>6, <2>1, <2>2 DEF ExchangeNext
<1>7. CASE Tick
  <2>1. Pending' = Pending
    <3>1. ASSUME NEW h \in Governances, NEW t \in Topics
          PROVE  (upgrade'[h][t] = None) <=> (upgrade[h][t] = None)
      <4>1. upgrade'[h][t] = IF Due(h, t) \/ upgrade[h][t] = None THEN upgrade[h][t]
                             ELSE [upgrade[h][t] EXCEPT !.wait = @ - 1]
        BY <1>7 DEF Tick
      <4>2. ASSUME upgrade[h][t] # None, ~ Due(h, t)
            PROVE  [upgrade[h][t] EXCEPT !.wait = @ - 1] # None
        <5>1. upgrade[h][t] \in [value : Values(t), wait : 0 .. Delay[h][t]]
          BY <4>2 DEF TypeOK
        <5>2. [upgrade[h][t] EXCEPT !.wait = @ - 1] \in [value : Values(t), wait : Nat]
          BY <4>2, <5>1, DelayType DEF Due
        <5>. QED
          BY <5>2, NoUpgrade
      <4>. QED
        BY <4>1, <4>2
    <3>. QED
      BY <3>1 DEF Pending
  <2>2. ASSUME NEW p \in Pending
        PROVE  upgrade'[p[1]][p[2]] = [Notices[p] EXCEPT !.wait = IF @ = 0 THEN 0 ELSE @ - 1]
    <3>1. p[1] \in Governances /\ p[2] \in Topics /\ upgrade[p[1]][p[2]] # None
      BY DEF Pending
    <3>2. upgrade[p[1]][p[2]] \in [value : Values(p[2]), wait : 0 .. Delay[p[1]][p[2]]]
      BY <3>1 DEF TypeOK
    <3>3. upgrade'[p[1]][p[2]] =
             IF Due(p[1], p[2]) THEN upgrade[p[1]][p[2]]
             ELSE [upgrade[p[1]][p[2]] EXCEPT !.wait = @ - 1]
      BY <1>7, <3>1 DEF Tick
    <3>4. Notices[p] = upgrade[p[1]][p[2]]
      BY NoticesArePending
    <3>. QED
      BY <3>1, <3>2, <3>3, <3>4 DEF Due
  <2>3. Notices' = [p \in Pending |-> [Notices[p] EXCEPT !.wait = IF @ = 0 THEN 0 ELSE @ - 1]]
    BY <2>1, <2>2 DEF Notices
  <2>. QED
    BY <1>7, <2>3, NoticesArePending DEF Tick, TL!TimePasses, TL!Next
<1>8. CASE UNCHANGED vars
  BY <1>1, <1>8 DEF vars, governed
<1>. QED
  BY <1>5, <1>6, <1>7, <1>8 DEF Next

\* What the Custodian names, and what Governance governs of any Exchange, changes only
\* to what the Governance in power has announced for all of its delay.
THEOREM GovernanceImplementsTimelock == Spec => ChangesAreAnnounced
<1>1. Init => DOMAIN Notices = {}
  BY NoticesArePending DEF Init, Pending
<1>. QED
  BY <1>1, StepRefines, GovernanceTypeCorrect, PTL DEF Spec, ChangesAreAnnounced, TL!Spec

===============================================================================
