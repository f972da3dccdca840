--------------------------------- MODULE Bridge ---------------------------------
(***************************************************************************)
(* Cross-chain deposits and withdrawals (ExchangeLayerZeroAdapter_v1,      *)
(* KatanaPerpsStargateForwarder_v1 and their composing libraries).         *)
(*                                                                         *)
(*   deposit     a chain --> forwarder on Ethereum --> adapter --> Exchange *)
(*   withdrawal  Exchange --> adapter --> forwarder --> a chain             *)
(*                                                                         *)
(* A hop delivers tokens and then composes a call of the contract that got *)
(* them, as late as the bridge likes.  Whether a bridge quotes a fee, sends*)
(* or slips, and whether a provider accepts, is anyone's guess.  Out of gas*)
(* and native assets are left out.                                         *)
(***************************************************************************)
EXTENDS Integers, Sequences, FiniteSets, Functions

CONSTANTS
    Transfers,                \* one for each transfer that may be under way: a bound
    Wallets, None, ExitFundWallet, FeeWallet, Owner,
    Blocked,                  \* wallets the token refuses to pay
    Messages, Quantities,     \* what is sent over the bridge
    InitialBalances,
    MinimumMultiplier, PipPriceMultiplier,
    Losses,                   \* what a vault or a pool may keep
    ComposeParameters,        \* that the adapter's owner may set, if the setter lets it
    Reverted,
    MaxChanges                \* bound on what owners, admins and wallets change

Payload == [type : {"AddManagedAccount", "DepositToManagedAccount", "DepositToWallet", "Undecodable"},
            wallet : Wallets \cup {None}, manager : Wallets \cup {None}, isProviderContract : BOOLEAN]

\* A deposit, or a withdrawal that the adapter or somebody else has composed.
Message == [type : {"DepositToKatana", "WithdrawFromKatana"}, destinationWallet : Wallets \cup {None},
            payload : Payload, isFromAdapter : BOOLEAN, isToEthereum : BOOLEAN]

Parameters ==
    [addManagedAccountFee : Nat, minimumAddManagedAccount : Nat,
     depositToManagedAccountFee : Nat, minimumDepositToManagedAccount : Nat]

Payment ==
    [to : Wallets \cup {FeeWallet, Owner}, as : {"balance", "account", "quote", "shares"}, quantity : Nat]

KatanaState ==
    [held : Nat, balances : [Wallets \cup {FeeWallet} -> Nat], managed : SUBSET Wallets, payments : Seq(Payment)]

Tokens == {"usdc", "vbUSDC"}

EthereumState == [holds : [Tokens -> Nat], payments : Seq(Payment)]

ASSUME BridgeAssumption ==
    /\ IsFiniteSet(Transfers)
    /\ None \notin Wallets /\ ExitFundWallet \in Wallets
    /\ {FeeWallet, Owner} \cap (Wallets \cup {None}) = {} /\ FeeWallet # Owner /\ Blocked \subseteq Wallets
    /\ Messages \subseteq Message /\ None \notin Message /\ Quantities \subseteq Nat \ {0}
    /\ InitialBalances \in [Wallets -> Nat]
    /\ PipPriceMultiplier \in Nat \ {0} /\ MinimumMultiplier \in 0 .. PipPriceMultiplier
    /\ Losses \subseteq Nat /\ ComposeParameters \subseteq Parameters
    /\ Reverted \notin KatanaState \cup EthereumState /\ MaxChanges \in Nat
    /\ None \notin [quantity : Nat, end : {"none", "quote", "account", "shares"}]

VARIABLES
    transfers,     \* the stage, quantity, message and payments of each
    adapter,       \* quote tokens the adapter holds
    forwarder,     \* of each token on Ethereum, what the forwarder holds
    balances,      \* of wallets at the Exchange
    managed,       \* wallets that manage an account
    exited,        \* wallets that have exited
    switches,      \* isDepositEnabled at the Exchange and adapter, isWithdrawEnabled
    parameters,    \* the adapter's compose parameters
    changes        \* made so far, for the bound

exchangeVars == <<balances, managed>>
settingVars  == <<exited, switches, parameters, changes>>
bridgeVars   == <<transfers, adapter, forwarder, exchangeVars, settingVars>>

Stages ==
    {"Idle", "ToForwarder", "ForwardDeposit", "ToAdapter", "Deposit",
     "ToEthereum", "ForwardWithdrawal", "ToWallet", "Ended"}

Idle == [stage |-> "Idle", quantity |-> 0, message |-> None, payments |-> <<>>]

Minimum(quantity) == (quantity * MinimumMultiplier) \div PipPriceMultiplier

Becomes(t, stage, quantity, m, payments) ==
    transfers' = [transfers EXCEPT ![t] =
        [stage |-> stage, quantity |-> quantity, message |-> m, payments |-> payments]]

-----------------------------------------------------------------------------
(* Calls, from the state of a chain to the next one or to Reverted.  On    *)
(* Katana that is [held, balances, managed, payments], on Ethereum         *)
(* [holds, payments].                                                      *)

Try(result, otherwise) == IF result = Reverted THEN otherwise ELSE result

PaymentOf(to, as, quantity) == [to |-> to, as |-> as, quantity |-> quantity]

IsRefused(held, to, as, quantity) == quantity > held \/ (as # "balance" /\ to \in Blocked)

Pay(katana, to, as, quantity) ==
    IF IsRefused(katana.held, to, as, quantity) THEN Reverted
    ELSE [katana EXCEPT !.held = @ - quantity, !.payments = Append(@, PaymentOf(to, as, quantity))]

PayOnEthereum(ethereum, token, to, as, quantity) ==
    IF IsRefused(ethereum.holds[token], to, as, quantity) THEN Reverted
    ELSE [ethereum EXCEPT !.holds[token] = @ - quantity,
                          !.payments = Append(@, PaymentOf(to, as, quantity))]

TransferQuote(katana, to, quantity) == Pay(katana, to, "quote", quantity)

Credited(katana, w, to, as, quantity) ==
    LET paid == Pay(katana, to, as, quantity)
    IN  IF \/ ~switches.exchangeDeposit \/ quantity <= 0
           \/ w = ExitFundWallet \/ w \in exited \/ paid = Reverted
        THEN Reverted
        ELSE [paid EXCEPT !.balances[w] = @ + quantity]

ExchangeDeposit(katana, w, quantity) ==
    IF w \in katana.managed THEN Reverted ELSE Credited(katana, w, w, "balance", quantity)

\* The payment is the depositor's, the balance the manager's.
ExchangeDepositToManagedAccount(katana, depositor, manager, quantity) ==
    IF \/ manager \notin katana.managed
       \/ depositor \in katana.managed /\ depositor # manager
    THEN Reverted
    ELSE Credited(katana, manager, depositor, "account", quantity)

\* Mutant of DepositElseTransfer: the tokens stay with the adapter.
DepositOnly(katana, w, quantity) == Try(ExchangeDeposit(katana, w, quantity), katana)

DepositElseTransfer(katana, w, quantity) ==
    Try(ExchangeDeposit(katana, w, quantity), TransferQuote(katana, w, quantity))

\* The fee is paid out of what is left after the net quantity.
WithFee(katana, fee) ==
    IF katana = Reverted \/ fee = 0 THEN katana ELSE DepositElseTransfer(katana, FeeWallet, fee)

\* Refused for a wallet with a balance.
AddAccount(katana, w) ==
    IF w \in katana.managed \cup exited \/ katana.balances[w] # 0 THEN Reverted
    ELSE [katana EXCEPT !.managed = @ \cup {w}]

-----------------------------------------------------------------------------
(* What the adapter does with a deposit, given what the provider that the  *)
(* payload names does: it adds the account, returns without adding it or   *)
(* refuses, and takes the deposit or not.  It may be none the Exchange     *)
(* knows, or no contract at all: asking that one to add an account reverts *)
(* in the adapter itself, where nothing catches it.                        *)

ProviderAnswers == [account : {"adds", "ignores", "refuses"}, deposit : BOOLEAN]

AddManagedAccount(katana, p, quantity, accepts) ==
    LET net   == quantity - parameters.addManagedAccountFee
        added == CASE accepts.account = "adds"    -> AddAccount(katana, p.wallet)
                   [] accepts.account = "ignores" -> katana
                   [] OTHER                       -> Reverted
        empty == [added EXCEPT !.payments = Append(@, PaymentOf(p.wallet, "account", 0))]
        full  == ExchangeDepositToManagedAccount(added, p.wallet, p.wallet, net)
    IN  IF quantity < parameters.minimumAddManagedAccount
        THEN DepositElseTransfer(katana, p.wallet, quantity)
        ELSE IF ~p.isProviderContract THEN Reverted
        ELSE IF added = Reverted THEN DepositElseTransfer(katana, p.wallet, quantity)
        ELSE IF net < 0 THEN Reverted
        ELSE IF net = 0 THEN WithFee(empty, parameters.addManagedAccountFee)
        ELSE IF accepts.deposit /\ full # Reverted THEN WithFee(full, parameters.addManagedAccountFee)
        ELSE TransferQuote(added, p.wallet, quantity)

DepositToManagedAccount(katana, p, quantity, accepts) ==
    LET net  == quantity - parameters.depositToManagedAccountFee
        full == ExchangeDepositToManagedAccount(katana, p.wallet, p.manager, net)
    IN  IF quantity < parameters.minimumDepositToManagedAccount
        THEN DepositElseTransfer(katana, p.wallet, quantity)
        ELSE IF net < 0 THEN Reverted
        ELSE IF p.isProviderContract /\ accepts.deposit /\ full # Reverted
        THEN WithFee(full, parameters.depositToManagedAccountFee)
        ELSE DepositElseTransfer(katana, p.wallet, quantity)

Compose(katana, p, quantity, accepts) ==
    IF p.type = "Undecodable" THEN Reverted
    ELSE IF p.wallet = None THEN TransferQuote(katana, Owner, quantity)
    ELSE IF ~switches.deposit THEN TransferQuote(katana, p.wallet, quantity)
    ELSE IF p.type = "DepositToWallet" THEN DepositElseTransfer(katana, p.wallet, quantity)
    ELSE IF p.wallet = ExitFundWallet THEN TransferQuote(katana, p.wallet, quantity)
    ELSE IF p.type = "AddManagedAccount" THEN AddManagedAccount(katana, p, quantity, accepts)
    ELSE DepositToManagedAccount(katana, p, quantity, accepts)

Katana == [held |-> adapter, balances |-> balances, managed |-> managed, payments |-> <<>>]

\* Mutant of ComposeOrOwner: the adapter's own call is not guarded.
ComposeOnly(katana, p, quantity, accepts) == Compose(katana, p, quantity, accepts)

\* lzCompose: whatever reverts goes to the adapter's owner.
ComposeOrOwner(katana, p, quantity, accepts) ==
    Try(Compose(katana, p, quantity, accepts), TransferQuote(katana, Owner, quantity))

OnKatana(katana) ==
    /\ katana # Reverted
    /\ adapter' = katana.held /\ balances' = katana.balances /\ managed' = katana.managed

Deposit(t) ==
    /\ transfers[t].stage = "Deposit"
    /\ \E accepts \in ProviderAnswers :
           LET after == ComposeOrOwner(Katana, transfers[t].message.payload,
                                       transfers[t].quantity, accepts)
           IN  /\ OnKatana(after)
               /\ Becomes(t, "Ended", transfers[t].quantity, transfers[t].message, after.payments)
    /\ UNCHANGED <<forwarder, settingVars>>

-----------------------------------------------------------------------------
(* The adapter's side of a withdrawal, which the Exchange has taken from   *)
(* the wallet and transferred to the adapter.  No fee quote, no withdrawal. *)

CanWithdraw(w, quantity) == w \in Wallets \ managed /\ quantity <= balances[w]

Withdraw(t, m, quantity) ==
    LET w      == m.destinationWallet
        taken  == [held |-> adapter + quantity, balances |-> [balances EXCEPT ![w] = @ - quantity],
                   managed |-> managed, payments |-> <<>>]
        back   == DepositElseTransfer(taken, w, quantity)
    IN  /\ transfers[t].stage = "Idle"
        /\ m.type = "WithdrawFromKatana" /\ m.isFromAdapter
        /\ CanWithdraw(w, quantity)
        /\ \/ /\ switches.withdraw
              /\ \E received \in Minimum(quantity) .. quantity :
                     Becomes(t, "ToEthereum", received, m, <<>>)
              /\ OnKatana([taken EXCEPT !.held = @ - quantity])
           \/ \* The bridge does not send, or is not asked to.
              /\ OnKatana(back)
              /\ Becomes(t, "Ended", quantity, m, back.payments)
        /\ UNCHANGED <<forwarder, settingVars>>

-----------------------------------------------------------------------------
(* The forwarder. *)

Ethereum == [holds |-> forwarder, payments |-> <<>>]

\* The vault takes a token and gives the other one for it.
Converted(from, spent, to, got) ==
    [holds |-> [forwarder EXCEPT ![from] = @ - spent, ![to] = @ + got], payments |-> <<>>]

\* Mutant of CanSend: slippage is compared with what the vault gave.
CanSendConverted(received, converted, quantity) == received >= Minimum(converted)

\* minAmountLD is of what arrived, before its conversion.
CanSend(received, converted, quantity) == received >= Minimum(quantity)

\* Ends the transfer, or sends it on to the next stage.
OnEthereum(t, ethereum, stage, quantity) ==
    /\ ethereum # Reverted
    /\ forwarder' = ethereum.holds
    /\ Becomes(t, stage, quantity, transfers[t].message, ethereum.payments)
    /\ UNCHANGED <<adapter, exchangeVars, settingVars>>

\* compose reverted: what it did is undone, and the owner gets what arrived.
ToOwner(t, token) ==
    OnEthereum(t, PayOnEthereum(Ethereum, token, Owner, "quote", transfers[t].quantity),
               "Ended", transfers[t].quantity)

\* Pay the destination wallet on Ethereum.
PayOrOwner(t, ethereum, token, as, quantity, arrivedAs) ==
    LET paid == PayOnEthereum(ethereum, token, transfers[t].message.destinationWallet, as, quantity)
    IN  IF paid = Reverted THEN ToOwner(t, arrivedAs)
        ELSE OnEthereum(t, paid, "Ended", transfers[t].quantity)

ForwardDeposit(t) ==
    LET m        == transfers[t].message
        quantity == transfers[t].quantity
        accepted == m.type = "DepositToKatana" /\ m.destinationWallet # None
    IN  /\ transfers[t].stage = "ForwardDeposit"
        /\ \/ \* Refused, or the bridge quotes no fee.
              ToOwner(t, "usdc")
           \/ /\ accepted
              /\ \E loss \in Losses, slippage \in Losses :
                     LET shares    == quantity - loss
                         received  == shares - slippage
                         converted == Converted("usdc", quantity, "vbUSDC", shares)
                     IN  /\ shares >= 0
                         /\ \/ /\ CanSend(received, shares, quantity)
                               /\ OnEthereum(t, [converted EXCEPT !.holds["vbUSDC"] = @ - shares], "ToAdapter", received)
                            \/ \* Too little native drop, or the bridge does not send.
                               PayOrOwner(t, converted, "vbUSDC", "shares", shares, "usdc")

ForwardWithdrawal(t) ==
    LET m        == transfers[t].message
        quantity == transfers[t].quantity
        accepted == m.type = "WithdrawFromKatana" /\ m.destinationWallet # None
        trusted  == accepted /\ m.isFromAdapter
    IN  /\ transfers[t].stage = "ForwardWithdrawal"
        /\ \/ /\ accepted => trusted /\ ~m.isToEthereum
              /\ ToOwner(t, "vbUSDC")
           \/ \* Composed by somebody else, or the vault gives too little.
              /\ accepted
              /\ \/ ~m.isFromAdapter
                 \/ \E loss \in Losses : quantity - loss < Minimum(quantity)
              /\ PayOrOwner(t, Ethereum, "vbUSDC", "shares", quantity, "vbUSDC")
           \/ /\ trusted
              /\ \E loss \in Losses, slippage \in Losses :
                     LET redeemed == quantity - loss
                         received == redeemed - slippage
                         converted == Converted("vbUSDC", quantity, "usdc", redeemed)
                     IN  /\ redeemed >= Minimum(quantity)
                         /\ \/ /\ ~m.isToEthereum
                               /\ CanSend(received, redeemed, quantity)
                               /\ OnEthereum(t, [converted EXCEPT !.holds["usdc"] = @ - redeemed], "ToWallet", received)
                            \/ \* To Ethereum, or Stargate does not send.
                               PayOrOwner(t, converted, "usdc", "quote", redeemed, "vbUSDC")

-----------------------------------------------------------------------------
(* The bridges: anyone sends, and tokens arrive. *)

Send(t, m, quantity, stage) ==
    /\ transfers[t].stage = "Idle"
    /\ \/ m.type = "DepositToKatana" /\ stage \in {"ToForwarder", "ToAdapter"}
       \/ m.type = "WithdrawFromKatana" /\ ~m.isFromAdapter /\ stage = "ToEthereum"
    /\ Becomes(t, stage, quantity, m, <<>>)
    /\ UNCHANGED <<adapter, forwarder, exchangeVars, settingVars>>

Receive(t) ==
    LET m         == transfers[t].message
        quantity  == transfers[t].quantity
        At(stage) == Becomes(t, stage, quantity, m, <<>>)
    IN  /\ \/ /\ transfers[t].stage = "ToForwarder" /\ At("ForwardDeposit")
              /\ forwarder' = [forwarder EXCEPT !["usdc"] = @ + quantity]
              /\ UNCHANGED adapter
           \/ /\ transfers[t].stage = "ToAdapter" /\ At("Deposit")
              /\ adapter' = adapter + quantity
              /\ UNCHANGED forwarder
           \/ /\ transfers[t].stage = "ToEthereum" /\ At("ForwardWithdrawal")
              /\ forwarder' = [forwarder EXCEPT !["vbUSDC"] = @ + quantity]
              /\ UNCHANGED adapter
           \/ /\ transfers[t].stage = "ToWallet"
              /\ Becomes(t, "Ended", quantity, m, <<PaymentOf(m.destinationWallet, "quote", quantity)>>)
              /\ UNCHANGED <<adapter, forwarder>>
        /\ UNCHANGED <<exchangeVars, settingVars>>

-----------------------------------------------------------------------------
(* What changes meanwhile: switches, parameters and exits. *)

Change == changes < MaxChanges /\ changes' = changes + 1

\* setDepositEnabled at the Exchange and at the adapter, setWithdrawEnabled.
SetEnabled(switch) ==
    /\ Change
    /\ switches' = [switches EXCEPT ![switch] = ~@]
    /\ UNCHANGED <<transfers, adapter, forwarder, exchangeVars, exited, parameters>>

\* Mutant of AreComposeParameters: a fee may exceed its minimum.
AreAnyParameters(p) == TRUE

AreComposeParameters(p) ==
    /\ p.addManagedAccountFee <= p.minimumAddManagedAccount
    /\ p.depositToManagedAccountFee < p.minimumDepositToManagedAccount

SetComposeParameters(p) ==
    /\ Change
    /\ AreComposeParameters(p)
    /\ parameters' = p
    /\ UNCHANGED <<transfers, adapter, forwarder, exchangeVars, exited, switches>>

\* exitWallet, or its clearing.  Withdrawals go on until the exit is final.
ExitOrReturn(w) ==
    /\ Change
    /\ w # ExitFundWallet
    /\ exited' = IF w \in exited THEN exited \ {w} ELSE exited \cup {w}
    /\ UNCHANGED <<transfers, adapter, forwarder, exchangeVars, switches, parameters>>

-----------------------------------------------------------------------------
Transfer ==
    [stage : Stages, quantity : Nat, message : Messages \cup {None}, payments : Seq(Payment)]

TypeOK ==
    /\ transfers \in [Transfers -> Transfer]
    /\ adapter \in Nat /\ forwarder \in [Tokens -> Nat]
    /\ balances \in [Wallets \cup {FeeWallet} -> Nat]
    /\ managed \subseteq Wallets /\ exited \subseteq Wallets
    /\ switches \in [exchangeDeposit : BOOLEAN, deposit : BOOLEAN, withdraw : BOOLEAN]
    /\ parameters \in ComposeParameters /\ changes \in 0 .. MaxChanges

Init ==
    /\ transfers = [t \in Transfers |-> Idle]
    /\ adapter = 0
    /\ forwarder = [token \in Tokens |-> 0]
    /\ balances = [w \in Wallets \cup {FeeWallet} |-> IF w \in Wallets THEN InitialBalances[w] ELSE 0]
    /\ managed = {}
    /\ exited = {}
    /\ switches = [exchangeDeposit |-> TRUE, deposit |-> TRUE, withdraw |-> TRUE]
    /\ parameters \in {p \in ComposeParameters : AreComposeParameters(p)}
    /\ changes = 0

Next ==
    \/ \E t \in Transfers :
           \/ \E m \in Messages, quantity \in Quantities, stage \in Stages : Send(t, m, quantity, stage)
           \/ \E m \in Messages, quantity \in Quantities : Withdraw(t, m, quantity)
           \/ Receive(t)
           \/ ForwardDeposit(t)
           \/ Deposit(t)
           \/ ForwardWithdrawal(t)
    \/ \E switch \in DOMAIN switches : SetEnabled(switch)
    \/ \E p \in ComposeParameters : SetComposeParameters(p)
    \/ \E w \in Wallets : ExitOrReturn(w)

\* Bridges deliver, and their executors compose, in the end.
Fairness ==
    \A t \in Transfers :
        WF_bridgeVars(Receive(t) \/ ForwardDeposit(t) \/ Deposit(t) \/ ForwardWithdrawal(t))

Spec == Init /\ [][Next]_bridgeVars /\ Fairness

-----------------------------------------------------------------------------
(* What they promise of the funds. *)

UnderWay(stage) ==
    SumFunctionOnSet([t \in Transfers |-> transfers[t].quantity],
                     {t \in Transfers : transfers[t].stage = stage})

\* Invariant.  A contract holds what has arrived and waits to be composed, in the
\* token it arrived in, whatever failed before: no call spends another transfer's
\* tokens, leaves some of its own, or is undone by half.
HoldsWhatIsUnderWay ==
    /\ adapter = UnderWay("Deposit")
    /\ forwarder["usdc"] = UnderWay("ForwardDeposit") /\ forwarder["vbUSDC"] = UnderWay("ForwardWithdrawal")

PaysOwner(t) == \E i \in DOMAIN transfers[t].payments : transfers[t].payments[i].to = Owner

AsksNoContract(payload) == payload.type = "AddManagedAccount" /\ ~payload.isProviderContract

\* Action property.  Where no bridge has to be asked, funds go to a contract's
\* owner only if their message names no wallet or one that cannot be paid, or asks
\* an address without code to add an account: no pause, exit, minimum, fee or
\* answer of a provider that is a contract takes them from a wallet.
OnlyUndeliverableGoesToOwner ==
    [][\A t \in Transfers :
        LET m == transfers[t].message
        IN  PaysOwner(t)' =>
                /\ transfers[t].stage = "Deposit" =>
                       \/ m.payload.type = "Undecodable" \/ AsksNoContract(m.payload)
                       \/ m.payload.wallet \in Blocked \cup {None}
                /\ transfers[t].stage = "ForwardWithdrawal" /\ m.isToEthereum =>
                       \/ m.type # "WithdrawFromKatana"
                       \/ m.destinationWallet \in Blocked \cup {None}]_bridgeVars

\* Of an ended transfer, the payments that are not fees: there is to be one.
Received(payments) == {i \in DOMAIN payments : payments[i].to # FeeWallet}

RemittanceOf(transfer) ==
    LET received == Received(transfer.payments)
        payment  == transfer.payments[CHOOSE i \in received : TRUE]
    IN  IF transfer.stage = "Idle" THEN None
        ELSE IF transfer.stage # "Ended" THEN [quantity |-> transfer.quantity, end |-> "none"]
        ELSE IF Cardinality(received) # 1 THEN None
        ELSE [quantity |-> payment.quantity,
              end |-> IF payment.as = "balance" THEN "quote" ELSE payment.as]

ComposeFees ==
    UNION {{p.addManagedAccountFee, p.depositToManagedAccountFee} :
              p \in {q \in ComposeParameters : AreComposeParameters(q)}}

Promise ==
    INSTANCE Remittance WITH
        Quantities <- UNION {0 .. quantity : quantity \in Quantities},
        Least      <- Minimum,
        Fees       <- ComposeFees,
        Nothing    <- None,
        remittance <- [t \in Transfers |-> RemittanceOf(transfers[t])]

\* Temporal property.  A transfer ends once, in one place: it is not both paid and
\* deposited, no bridge keeps more of it than its tolerance however the loss is
\* split between vault and pool, and a fee is taken only for a managed account
\* that its provider has said, or the Exchange has seen, to be there.
TransfersArriveOnce == Promise!Spec

\* Temporal property.  No transfer stays in a contract: each is composed to an end
\* whatever it says and whatever refuses it.
TransfersEnd ==
    \A t \in Transfers : transfers[t].stage # "Idle" ~> transfers[t].stage = "Ended"

===============================================================================
