------------------------------- MODULE Governance -------------------------------
(***************************************************************************)
(* Governance contracts, the Custodian that names the one in power and the *)
(* Exchange in use, and the settings of each Exchange that Governance      *)
(* governs.                                                                *)
(*                                                                         *)
(* What an upgrade is about is its topic: an address of the Custodian, a   *)
(* setting of the Exchange or, for market overrides, the wallet they are   *)
(* for (Market for the defaults of a market; there is one market).  Of the *)
(* threshold of a pending upgrade the model keeps the time left until it.  *)
(* A Governance has at most one upgrade pending per topic.                 *)
(***************************************************************************)
EXTENDS Integers, Sequences, FiniteSets

CONSTANTS
    Governances, Exchanges, Migrators, Wallets,
    Market,             \* stands for the zero address in overrides
    BridgeAdapterLists, IndexPriceAdapterSets, ProviderLists, OverridableFields,
    Adapters,           \* index and oracle price adapters
    Activator,          \* who may activate an adapter; None: activation is a no-op
    ActivatedOnce,      \* adapters that refuse to be activated again
    ContractDelay,      \* blockTimestampDelay of each Governance
    FieldDelay,         \* FIELD_UPGRADE_DELAY_IN_S
    InitialCustodian, InitialSettings,
    MaxUpgrades,        \* bound on what is pending or not as it was initially
    MaxDisturbances,    \* bound on the wallets with positions or exits
    None

CustodianTopics == {"assetMigrator", "exchange", "governance"}
FieldTopics == {"bridgeAdapters", "indexPriceAdapters", "insuranceFundWallet",
                "managedAccountProviders", "oraclePriceAdapter"}
OverrideTopics == Wallets \cup {Market}
SettingTopics == FieldTopics \cup OverrideTopics
Topics == CustodianTopics \cup SettingTopics

VARIABLES
    custodian,       \* assetMigrator, exchange, governance
    settings,        \* of each Exchange
    upgrade,         \* pending upgrades of each Governance, by topic
    activeFor,       \* the Exchange each adapter was activated for
    openPositions,   \* of each Exchange, the wallets with open positions
    walletExits      \* of each Exchange, the wallets that have exited

governed == <<custodian, settings, upgrade, activeFor>>
vars == <<governed, openPositions, walletExits>>

Settings == settings[custodian.exchange]

InsuranceFundWallet(x) == settings[x]["insuranceFundWallet"]

\* What a topic can be set to.
Values(topic) ==
    CASE topic = "assetMigrator"           -> Migrators
      [] topic = "exchange"                -> Exchanges
      [] topic = "governance"              -> Governances
      [] topic = "bridgeAdapters"          -> BridgeAdapterLists
      [] topic = "indexPriceAdapters"      -> IndexPriceAdapterSets
      [] topic = "oraclePriceAdapter"      -> Adapters
      [] topic = "insuranceFundWallet"     -> Wallets
      [] topic = "managedAccountProviders" -> ProviderLists
      [] OTHER                             -> OverridableFields

Delay == [g \in Governances |->
            [topic \in Topics |-> IF topic \in CustodianTopics THEN ContractDelay[g] ELSE FieldDelay]]

ASSUME GovernanceAssumption ==
    /\ ContractDelay \in [Governances -> Nat] /\ FieldDelay \in Nat
    /\ OverrideTopics \cap (CustodianTopics \cup FieldTopics) = {}
    /\ IndexPriceAdapterSets \subseteq SUBSET Adapters
    /\ InitialCustodian \in [assetMigrator : Migrators \cup {None}, exchange : Exchanges,
                             governance : Governances]
    /\ InitialSettings = [x \in Exchanges |-> [topic \in SettingTopics |-> InitialSettings[x][topic]]]
    /\ \A x \in Exchanges : InitialSettings[x]["insuranceFundWallet"] \in Wallets
    /\ \A x \in Exchanges, topic \in SettingTopics :
          InitialSettings[x][topic] \in Values(topic) \cup {None}
    /\ \A topic \in Topics : None \notin [value : Values(topic), wait : Nat]

Upgrade(value, wait) == [value |-> value, wait |-> wait]

-----------------------------------------------------------------------------
(* Initiating.  The administrator of a Governance announces an upgrade.  It is *)
(* checked against what is in force then, and not against what is pending.     *)

Pending == {p \in Governances \X Topics : upgrade[p[1]][p[2]] # None}

Changed ==
    {<<"custodian", topic>> : topic \in {t \in CustodianTopics : custodian[t] # InitialCustodian[t]}}
        \cup {s \in Exchanges \X SettingTopics :
                 settings[s[1]][s[2]] # InitialSettings[s[1]][s[2]]}

Announce(g, topic, value) ==
    /\ Cardinality(Pending) + Cardinality(Changed) < MaxUpgrades
    /\ upgrade[g][topic] = None
    /\ upgrade' = [upgrade EXCEPT ![g][topic] = Upgrade(value, Delay[g][topic])]
    /\ UNCHANGED <<custodian, settings, activeFor, openPositions, walletExits>>

\* initiateAssetMigratorUpgrade, initiateExchangeUpgrade, initiateGovernanceUpgrade.
InitiateContractUpgrade(g, topic) ==
    \E new \in Values(topic) : new # custodian[topic] /\ Announce(g, topic, new)

\* initiateBridgeAdaptersUpgrade, initiateIndexPriceAdaptersUpgrade,
\* initiateOraclePriceAdapterUpgrade.
InitiateAdaptersUpgrade(g, topic) ==
    \E new \in Values(topic) : Announce(g, topic, new)

InitiateInsuranceFundWalletUpgrade(g) ==
    \E new \in Wallets \ {InsuranceFundWallet(custodian.exchange)} : Announce(g, "insuranceFundWallet", new)

\* The providers in force are compared with those of the same index only.
InitiateManagedAccountProvidersUpgrade(g) ==
    \E new \in ProviderLists :
        /\ \A i \in DOMAIN new \cap DOMAIN Settings["managedAccountProviders"] :
              new[i] = Settings["managedAccountProviders"][i]
        /\ Announce(g, "managedAccountProviders", new)

\* By the administrator of the Governance.
InitiateMarketOverridesUpgrade(g, wallet) ==
    \E new \in OverridableFields : Announce(g, wallet, new)

\* By the administrator of the Exchange in use.
InitiateMarketOverridesUpgradeForInsuranceFundWallet(g) ==
    \E new \in OverridableFields : Announce(g, InsuranceFundWallet(custodian.exchange), new)

\* By the administrator of the Governance or, for the overrides of the Insurance
\* Fund wallet, of the Exchange in use: either may cancel what the other announced.
CancelUpgrade(g, topic) ==
    /\ upgrade[g][topic] # None
    /\ upgrade' = [upgrade EXCEPT ![g][topic] = None]
    /\ UNCHANGED <<custodian, settings, activeFor, openPositions, walletExits>>

-----------------------------------------------------------------------------
(* Finalizing.  The administrator of a Governance finalizes upgrades of        *)
(* contracts; upgrades of fields, also the dispatcher of the Exchange in use   *)
(* (and its administrator, for the overrides of the Insurance Fund wallet).    *)
(* Fields are set at the Exchange in use now, whichever it was when they were  *)
(* announced, and the setters admit only the Governance in power.              *)

Due(g, topic) == upgrade[g][topic] # None /\ upgrade[g][topic].wait = 0

\* Mutant of Finalized: the setters admit any Governance.
FinalizedByAny(g, topic) ==
    /\ Due(g, topic)
    /\ upgrade' = [upgrade EXCEPT ![g][topic] = None]
    /\ UNCHANGED <<openPositions, walletExits>>

Finalized(g, topic) ==
    /\ Due(g, topic)
    /\ g = custodian.governance
    /\ upgrade' = [upgrade EXCEPT ![g][topic] = None]
    /\ UNCHANGED <<openPositions, walletExits>>

SetAtCustodian(g, topic) ==
    /\ Finalized(g, topic)
    /\ custodian' = [custodian EXCEPT ![topic] = upgrade[g][topic].value]
    /\ UNCHANGED <<settings, activeFor>>

SetAtExchange(g, topic) ==
    /\ Finalized(g, topic)
    /\ settings' = [settings EXCEPT ![custodian.exchange][topic] = upgrade[g][topic].value]
    /\ UNCHANGED custodian

FinalizeContractUpgrade(g, topic) == SetAtCustodian(g, topic)

\* setActive of each adapter: a Governance activates those it is the activator of,
\* for the Exchange in use, and those that accept it more than once stay with the
\* Exchange they were first activated for.
CanBeActivated(adapter, g) ==
    Activator[adapter] # None =>
        /\ Activator[adapter] = g
        /\ adapter \in ActivatedOnce => activeFor[adapter] = None

Activated(adapters) ==
    [a \in Adapters |-> IF a \in adapters /\ Activator[a] # None /\ activeFor[a] = None
                        THEN custodian.exchange ELSE activeFor[a]]

FinalizeIndexPriceAdaptersUpgrade(g) ==
    /\ SetAtExchange(g, "indexPriceAdapters")
    /\ \A a \in upgrade[g]["indexPriceAdapters"].value : CanBeActivated(a, g)
    /\ activeFor' = Activated(upgrade[g]["indexPriceAdapters"].value)

FinalizeOraclePriceAdapterUpgrade(g) ==
    /\ SetAtExchange(g, "oraclePriceAdapter")
    /\ CanBeActivated(upgrade[g]["oraclePriceAdapter"].value, g)
    /\ activeFor' = Activated({upgrade[g]["oraclePriceAdapter"].value})

\* Mutant of FinalizeInsuranceFundWalletUpgrade: exits are not looked at again.
FinalizeInsuranceFundWalletUpgradeOfExited(g) ==
    /\ SetAtExchange(g, "insuranceFundWallet")
    /\ {InsuranceFundWallet(custodian.exchange), upgrade[g]["insuranceFundWallet"].value}
          \cap openPositions[custodian.exchange] = {}
    /\ UNCHANGED activeFor

\* Neither wallet may have open positions, and the new one may not have exited.
FinalizeInsuranceFundWalletUpgrade(g) ==
    /\ SetAtExchange(g, "insuranceFundWallet")
    /\ {InsuranceFundWallet(custodian.exchange), upgrade[g]["insuranceFundWallet"].value}
          \cap openPositions[custodian.exchange] = {}
    /\ upgrade[g]["insuranceFundWallet"].value \notin walletExits[custodian.exchange]
    /\ UNCHANGED activeFor

\* finalizeBridgeAdaptersUpgrade, finalizeManagedAccountProvidersUpgrade,
\* finalizeMarketOverridesUpgrade.
FinalizeFieldUpgrade(g, topic) == SetAtExchange(g, topic) /\ UNCHANGED activeFor

ClearAssetMigrator(g) ==
    /\ g = custodian.governance
    /\ custodian.assetMigrator # None
    /\ custodian' = [custodian EXCEPT !.assetMigrator = None]
    /\ UNCHANGED <<settings, upgrade, activeFor, openPositions, walletExits>>

-----------------------------------------------------------------------------
(* Time, and what else happens at the Exchanges meanwhile. *)

\* By the administrator or the dispatcher of the Exchange, with no delay.
UnsetMarketOverridesForWallet(x, wallet) ==
    /\ settings[x][wallet] # None
    /\ settings' = [settings EXCEPT ![x][wallet] = None]
    /\ UNCHANGED <<custodian, upgrade, activeFor, openPositions, walletExits>>

Tick ==
    /\ upgrade' = [g \in Governances |-> [topic \in Topics |->
                     IF Due(g, topic) \/ upgrade[g][topic] = None THEN upgrade[g][topic]
                     ELSE [upgrade[g][topic] EXCEPT !.wait = @ - 1]]]
    /\ UNCHANGED <<custodian, settings, activeFor, openPositions, walletExits>>

MayDisturb(x, wallet) ==
    LET disturbed == {d \in Exchanges \X Wallets : d[2] \in openPositions[d[1]] \cup walletExits[d[1]]}
    IN  Cardinality(disturbed \cup {<<x, wallet>>}) <= MaxDisturbances

\* Trades, liquidations, deleveraging and exits open and close positions.
ChangePositions(x, wallet) ==
    /\ MayDisturb(x, wallet)
    /\ openPositions' = [openPositions EXCEPT ![x] =
                            IF wallet \in @ THEN @ \ {wallet} ELSE @ \cup {wallet}]
    /\ UNCHANGED <<governed, walletExits>>

ExitWallet(x, wallet) ==
    /\ wallet \notin walletExits[x] /\ MayDisturb(x, wallet)
    /\ wallet # InsuranceFundWallet(x)
    /\ walletExits' = [walletExits EXCEPT ![x] = @ \cup {wallet}]
    /\ UNCHANGED <<governed, openPositions>>

\* Whether the exit is final, and quote or a managed account is left, is not kept.
ClearWalletExit(x, wallet) ==
    /\ wallet \in walletExits[x] \ openPositions[x]
    /\ walletExits' = [walletExits EXCEPT ![x] = @ \ {wallet}]
    /\ UNCHANGED <<governed, openPositions>>

-----------------------------------------------------------------------------
Init ==
    /\ custodian = InitialCustodian
    /\ settings = InitialSettings
    /\ upgrade = [g \in Governances |-> [topic \in Topics |-> None]]
    /\ activeFor = [a \in Adapters |-> None]
    /\ openPositions = [x \in Exchanges |-> {}]
    /\ walletExits = [x \in Exchanges |-> {}]

\* What the administrators and the dispatcher do with a Governance.
GovernanceNext(g) ==
    \/ \E topic \in CustodianTopics :
          InitiateContractUpgrade(g, topic) \/ FinalizeContractUpgrade(g, topic)
    \/ \E topic \in {"bridgeAdapters", "indexPriceAdapters", "oraclePriceAdapter"} :
          InitiateAdaptersUpgrade(g, topic)
    \/ InitiateInsuranceFundWalletUpgrade(g) \/ FinalizeInsuranceFundWalletUpgrade(g)
    \/ InitiateManagedAccountProvidersUpgrade(g)
    \/ \E wallet \in OverrideTopics : InitiateMarketOverridesUpgrade(g, wallet)
    \/ InitiateMarketOverridesUpgradeForInsuranceFundWallet(g)
    \/ \E topic \in {"bridgeAdapters", "managedAccountProviders"} \cup OverrideTopics :
          FinalizeFieldUpgrade(g, topic)
    \/ FinalizeIndexPriceAdaptersUpgrade(g) \/ FinalizeOraclePriceAdapterUpgrade(g)
    \/ \E topic \in Topics : CancelUpgrade(g, topic)
    \/ ClearAssetMigrator(g)

ExchangeNext(x, wallet) ==
    \/ UnsetMarketOverridesForWallet(x, wallet)
    \/ ChangePositions(x, wallet)
    \/ ExitWallet(x, wallet) \/ ClearWalletExit(x, wallet)

Next ==
    \/ \E g \in Governances : GovernanceNext(g)
    \/ \E x \in Exchanges, wallet \in Wallets : ExchangeNext(x, wallet)
    \/ Tick

Spec == Init /\ [][Next]_vars

-----------------------------------------------------------------------------
\* Invariant.  Settings and pending upgrades have values of their topic, and no
\* upgrade waits for longer than its delay.
TypeOK ==
    /\ custodian \in [assetMigrator : Migrators \cup {None}, exchange : Exchanges,
                      governance : Governances]
    /\ settings = [x \in Exchanges |-> [topic \in SettingTopics |-> settings[x][topic]]]
    /\ \A x \in Exchanges : InsuranceFundWallet(x) \in Wallets
    /\ \A x \in Exchanges, topic \in SettingTopics : settings[x][topic] \in Values(topic) \cup {None}
    /\ upgrade = [g \in Governances |-> [topic \in Topics |-> upgrade[g][topic]]]
    /\ \A g \in Governances, topic \in Topics :
          upgrade[g][topic] # None =>
              upgrade[g][topic] \in [value : Values(topic), wait : 0 .. Delay[g][topic]]
    /\ activeFor \in [Adapters -> Exchanges \cup {None}]
    /\ openPositions \in [Exchanges -> SUBSET Wallets]
    /\ walletExits \in [Exchanges -> SUBSET Wallets]

\* Invariant.  The Insurance Fund of an Exchange has not exited, whatever wallet it
\* is: a wallet may exit while it is announced as the new Insurance Fund, and the
\* Exchange may be replaced before it becomes that of another one.
InsuranceFundIsNotExited ==
    \A x \in Exchanges : InsuranceFundWallet(x) \notin walletExits[x]

Notices == [p \in Pending |-> upgrade[p[1]][p[2]]]

TL == INSTANCE Timelock WITH notices <- Notices

\* Refinement.  What the Custodian names and what Governance governs changes only
\* to what the Governance in power has announced for all of its delay.
ChangesAreAnnounced == TL!Spec

===============================================================================
