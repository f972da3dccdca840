-------------------------------- MODULE Timelock --------------------------------
(***************************************************************************)
(* What Governance promises: the contracts the Custodian names and the     *)
(* governed settings of the Exchange change only to what the Governance    *)
(* then in power gave notice of, for the whole of its delay, and has not   *)
(* withdrawn.  Only the asset migrator and the overrides of a wallet may   *)
(* be cleared at once.                                                     *)
(***************************************************************************)
EXTENDS Integers

CONSTANTS Governances, Exchanges, Wallets, CustodianTopics, Delay, None

\* The notices that stand: of a Governance on a topic, the value it is to be set to
\* and how long it has to wait.
VARIABLES custodian, settings, notices

Without(p) == [q \in DOMAIN notices \ {p} |-> notices[q]]

\* Of any value.
GiveNotice(p) ==
    /\ p \notin DOMAIN notices
    /\ DOMAIN notices' = DOMAIN notices \cup {p}
    /\ notices' = [q \in DOMAIN notices' |->
                     IF q = p THEN [value |-> notices'[p].value, wait |-> Delay[p[1]][p[2]]]
                     ELSE notices[q]]
    /\ UNCHANGED <<custodian, settings>>

WithdrawNotice(p) ==
    /\ notices' = Without(p)
    /\ UNCHANGED <<custodian, settings>>

TimePasses ==
    /\ notices' = [p \in DOMAIN notices |->
                     [notices[p] EXCEPT !.wait = IF @ = 0 THEN 0 ELSE @ - 1]]
    /\ UNCHANGED <<custodian, settings>>

\* A setting is set at the Exchange the Custodian names by now.
Enact(p) ==
    /\ p[1] = custodian.governance /\ notices[p].wait = 0
    /\ notices' = Without(p)
    /\ IF p[2] \in CustodianTopics
       THEN /\ custodian' = [custodian EXCEPT ![p[2]] = notices[p].value]
            /\ UNCHANGED settings
       ELSE /\ settings' = [settings EXCEPT ![custodian.exchange][p[2]] = notices[p].value]
            /\ UNCHANGED custodian

ClearMigrator ==
    /\ custodian' = [custodian EXCEPT !.assetMigrator = None]
    /\ UNCHANGED <<settings, notices>>

ClearOverrides(x, wallet) ==
    /\ settings' = [settings EXCEPT ![x][wallet] = None]
    /\ UNCHANGED <<custodian, notices>>

Next ==
    \/ \E g \in Governances : \E topic \in DOMAIN Delay[g] : GiveNotice(<<g, topic>>)
    \/ \E p \in DOMAIN notices : WithdrawNotice(p) \/ Enact(p)
    \/ TimePasses
    \/ ClearMigrator
    \/ \E x \in Exchanges, wallet \in Wallets : ClearOverrides(x, wallet)

Spec == DOMAIN notices = {} /\ [][Next]_<<custodian, settings, notices>>

===============================================================================
