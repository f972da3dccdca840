------------------------------ MODULE MCGovernance ------------------------------
(***************************************************************************)
(* Two Governances, each the activator of some adapters, and two Exchanges *)
(* one of which is in use.  Governance may be replaced while upgrades are  *)
(* pending, and so may the Exchange they will apply to.                    *)
(***************************************************************************)
EXTENDS Governance

MCActivator == [katana |-> "g1", redstone |-> "g2", chainlink |-> None]

MCContractDelay == [g1 |-> 2, g2 |-> 1]

MCCustodian == [assetMigrator |-> None, exchange |-> "x1", governance |-> "g1"]

MCIndexPriceAdapterSets == {{"redstone"}, {"katana", "redstone"}}

MCProviders == {<<"p1">>, <<"p1", "p2">>}

MCSettings ==
    [x \in Exchanges |-> [topic \in SettingTopics |->
        CASE topic = "bridgeAdapters" -> None
          [] topic = "indexPriceAdapters" -> {"redstone"}
          [] topic = "oraclePriceAdapter" -> "chainlink"
          [] topic = "insuranceFundWallet" -> IF x = "x1" THEN "w1" ELSE "w2"
          [] topic = "managedAccountProviders" -> <<"p1">>
          [] OTHER -> None]]

===============================================================================
