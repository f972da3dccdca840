------------------------------ MODULE BridgeProofs ------------------------------
(***************************************************************************)
(* Theorems of the bridges, for any transfers, messages, quantities and    *)
(* losses.                                                                 *)
(*                                                                         *)
(* Every call on Katana that does not revert makes one payment, or two     *)
(* when a managed account costs a fee, and leaves the adapter with exactly *)
(* that much less (PaysOnce, Delivers).  So each handler moves one transfer*)
(* with its tokens (Moved), which keeps the invariant that a contract holds*)
(* what is under way through it, and is a step of the abstract             *)
(* specification, Remittance.                                              *)
(***************************************************************************)
EXTENDS Bridge, SumProofs, SequenceTheorems

-----------------------------------------------------------------------------
(* Calls on Katana. *)

Kinds == {"balance", "account", "quote", "shares"}

Accounts == Wallets \cup {FeeWallet}

\* What a call that succeeds leaves when it makes one payment.
PaysOnce(katana, after, to, as, quantity) ==
    /\ after \in KatanaState
    /\ quantity <= katana.held /\ after.held = katana.held - quantity
    /\ after.payments = Append(katana.payments, PaymentOf(to, as, quantity))

\* The fields of a state on Katana.
LEMMA KatanaFields ==
    ASSUME NEW k \in KatanaState
    PROVE  /\ k.held \in Nat /\ k.balances \in [Accounts -> Nat]
           /\ k.managed \in SUBSET Wallets /\ k.payments \in Seq(Payment)
           /\ k # Reverted
BY BridgeAssumption DEF KatanaState, Accounts

\* A payment is refused, or made once.
LEMMA PayPays ==
    ASSUME NEW k \in KatanaState, NEW to \in Wallets \cup {FeeWallet, Owner},
           NEW as \in Kinds, NEW quantity \in Nat
    PROVE  \/ Pay(k, to, as, quantity) = Reverted /\ IsRefused(k.held, to, as, quantity)
           \/ PaysOnce(k, Pay(k, to, as, quantity), to, as, quantity)
<1>1. CASE IsRefused(k.held, to, as, quantity)
  BY <1>1 DEF Pay
<1>2. CASE ~ IsRefused(k.held, to, as, quantity)
  <2> DEFINE payments == Append(k.payments, PaymentOf(to, as, quantity))
             after == [held |-> k.held - quantity, balances |-> k.balances,
                       managed |-> k.managed, payments |-> payments]
  <2>1. quantity <= k.held /\ k.held - quantity \in Nat
    <3>1. ~ (quantity > k.held) /\ k.held \in Nat
      BY <1>2, KatanaFields, Zenon DEF IsRefused
    <3> QED BY <3>1
  <2>2. payments \in Seq(Payment)
    <3>1. PaymentOf(to, as, quantity) \in Payment
      BY DEF PaymentOf, Payment, Kinds
    <3>2. QED
      BY <3>1, KatanaFields, AppendProperties
  <2>3. Pay(k, to, as, quantity) = after
    <3>1. Pay(k, to, as, quantity) = [k EXCEPT !.held = @ - quantity, !.payments = payments]
      BY <1>2 DEF Pay
    <3> HIDE DEF payments
    <3>2. QED
      BY <3>1 DEF KatanaState
  <2> HIDE DEF payments
  <2>4. after \in KatanaState
    BY <2>1, <2>2, KatanaFields DEF KatanaState, Accounts
  <2>5. after.held = k.held - quantity /\ after.payments = payments
    OBVIOUS
  <2> HIDE DEF after
  <2>6. QED
    BY <2>1, <2>3, <2>4, <2>5, Zenon DEF PaysOnce, payments
<1>3. QED
  BY <1>1, <1>2

\* A deposit that the Exchange takes credits what it is paid.
LEMMA CreditedPays ==
    ASSUME NEW k \in KatanaState, NEW w \in Accounts, NEW to \in Accounts,
           NEW as \in {"balance", "account"}, NEW quantity \in Nat
    PROVE  \/ Credited(k, w, to, as, quantity) = Reverted
           \/ PaysOnce(k, Credited(k, w, to, as, quantity), to, as, quantity)
<1> DEFINE paid == Pay(k, to, as, quantity)
<1>1. paid = Reverted \/ PaysOnce(k, paid, to, as, quantity)
  BY PayPays DEF Accounts, Kinds
<1> HIDE DEF paid
<1>2. SUFFICES ASSUME paid # Reverted, Credited(k, w, to, as, quantity) # Reverted
               PROVE  PaysOnce(k, Credited(k, w, to, as, quantity), to, as, quantity)
  <2>1. paid = Reverted => Credited(k, w, to, as, quantity) = Reverted
    BY DEF Credited, paid
  <2>2. QED
    BY <1>2, <2>1
<1>3. Credited(k, w, to, as, quantity) = [paid EXCEPT !.balances[w] = @ + quantity]
  BY <1>2 DEF Credited, paid
<1>4. paid \in KatanaState /\ PaysOnce(k, paid, to, as, quantity)
  BY <1>1, <1>2 DEF PaysOnce
<1> DEFINE credited == [paid.balances EXCEPT ![w] = @ + quantity]
<1>5. credited \in [Accounts -> Nat]
  BY <1>4, KatanaFields
<1>6. Credited(k, w, to, as, quantity)
        = [held |-> paid.held, balances |-> credited, managed |-> paid.managed, payments |-> paid.payments]
  BY <1>3, <1>4 DEF KatanaState
<1> HIDE DEF credited
<1> DEFINE after == [held |-> paid.held, balances |-> credited, managed |-> paid.managed, payments |-> paid.payments]
<1>7. /\ paid.held \in Nat /\ paid.managed \in SUBSET Wallets /\ paid.payments \in Seq(Payment)
  BY <1>4, KatanaFields
<1>8. after \in KatanaState /\ after.held = paid.held /\ after.payments = paid.payments
  BY <1>5, <1>7 DEF KatanaState, Accounts
<1> HIDE DEF after
<1>9. QED
  BY <1>4, <1>6, <1>8, Zenon DEF PaysOnce, after

LEMMA ExchangeDepositPays ==
    ASSUME NEW k \in KatanaState, NEW w \in Accounts, NEW quantity \in Nat
    PROVE  \/ ExchangeDeposit(k, w, quantity) = Reverted
           \/ PaysOnce(k, ExchangeDeposit(k, w, quantity), w, "balance", quantity)
BY CreditedPays DEF ExchangeDeposit

LEMMA ExchangeDepositToManagedAccountPays ==
    ASSUME NEW k \in KatanaState, NEW w \in Wallets, NEW manager, NEW quantity \in Nat
    PROVE  \/ ExchangeDepositToManagedAccount(k, w, manager, quantity) = Reverted
           \/ PaysOnce(k, ExchangeDepositToManagedAccount(k, w, manager, quantity), w, "account", quantity)
<1>1. CASE manager \in k.managed
  <2>1. manager \in Accounts /\ w \in Accounts
    BY <1>1, KatanaFields DEF Accounts
  <2>2. QED
    BY <2>1, CreditedPays DEF ExchangeDepositToManagedAccount
<1>2. CASE manager \notin k.managed
  BY <1>2 DEF ExchangeDepositToManagedAccount
<1>3. QED
  BY <1>1, <1>2

LEMMA TransferQuotePays ==
    ASSUME NEW k \in KatanaState, NEW to \in Wallets \cup {FeeWallet, Owner}, NEW quantity \in Nat
    PROVE  \/ /\ TransferQuote(k, to, quantity) = Reverted
              /\ quantity > k.held \/ to \in Blocked
           \/ PaysOnce(k, TransferQuote(k, to, quantity), to, "quote", quantity)
BY PayPays DEF TransferQuote, Kinds, IsRefused

\* A deposit, or else a transfer, reaches a wallet that can be paid.
LEMMA DepositElseTransferPays ==
    ASSUME NEW k \in KatanaState, NEW w \in Accounts, NEW quantity \in Nat
    PROVE  \/ /\ DepositElseTransfer(k, w, quantity) = Reverted
              /\ quantity > k.held \/ w \in Blocked
           \/ \E as \in {"balance", "quote"} :
                 PaysOnce(k, DepositElseTransfer(k, w, quantity), w, as, quantity)
<1>1. CASE ExchangeDeposit(k, w, quantity) = Reverted
  <2>1. DepositElseTransfer(k, w, quantity) = TransferQuote(k, w, quantity)
    BY <1>1 DEF DepositElseTransfer, Try
  <2>2. QED
    BY <2>1, TransferQuotePays DEF Accounts
<1>2. CASE ExchangeDeposit(k, w, quantity) # Reverted
  <2>1. DepositElseTransfer(k, w, quantity) = ExchangeDeposit(k, w, quantity)
    BY <1>2 DEF DepositElseTransfer, Try
  <2>2. QED
    BY <1>2, <2>1, ExchangeDepositPays
<1>3. QED
  BY <1>1, <1>2

\* A fee, when there is one, is paid to the fee wallet.
LEMMA WithFeePays ==
    ASSUME NEW k \in KatanaState, NEW fee \in 0..k.held
    PROVE  \/ fee = 0 /\ WithFee(k, fee) = k
           \/ \E as \in {"balance", "quote"} : PaysOnce(k, WithFee(k, fee), FeeWallet, as, fee)
<1>1. k # Reverted /\ k.held \in Nat
  BY KatanaFields
<1>2. FeeWallet \in Accounts /\ FeeWallet \notin Blocked
  BY BridgeAssumption DEF Accounts
<1>3. CASE fee = 0
  BY <1>1, <1>3 DEF WithFee
<1>4. CASE fee # 0
  <2>1. WithFee(k, fee) = DepositElseTransfer(k, FeeWallet, fee)
    BY <1>1, <1>4 DEF WithFee
  <2>2. fee \in Nat /\ ~ (fee > k.held)
    BY <1>1
  <2>3. QED
    BY <1>2, <2>1, <2>2, DepositElseTransferPays
<1>5. QED
  BY <1>3, <1>4

LEMMA AddAccountAdds ==
    ASSUME NEW k \in KatanaState, NEW w \in Wallets
    PROVE  \/ AddAccount(k, w) = Reverted
           \/ /\ AddAccount(k, w) \in KatanaState
              /\ AddAccount(k, w).held = k.held /\ AddAccount(k, w).payments = k.payments
<1> DEFINE added == [k EXCEPT !.managed = @ \cup {w}]
           managers == k.managed \cup {w}
<1>1. added = [held |-> k.held, balances |-> k.balances, managed |-> managers, payments |-> k.payments]
  <2>1. added = [k EXCEPT !.managed = managers]
    OBVIOUS
  <2> HIDE DEF managers, added
  <2>2. QED
    BY <2>1 DEF KatanaState
<1>2. added \in KatanaState /\ added.held = k.held /\ added.payments = k.payments
  BY <1>1 DEF KatanaState
<1>3. AddAccount(k, w) = Reverted \/ AddAccount(k, w) = added
  BY DEF AddAccount
<1>4. QED
  BY <1>2, <1>3

-----------------------------------------------------------------------------
(* What becomes of a deposit. *)

\* The payments of a transfer to a wallet: everything in the quote token or as
\* a balance, or all but a fee into a managed account.
IsDelivery(payments, to, quantity) ==
    \/ \E as \in {"balance", "quote"} : payments = <<PaymentOf(to, as, quantity)>>
    \/ \E fee \in ComposeFees :
          /\ fee <= quantity
          /\ \/ fee = 0 /\ payments = <<PaymentOf(to, "account", quantity - fee)>>
             \/ \E as \in {"balance", "quote"} :
                   payments = <<PaymentOf(to, "account", quantity - fee), PaymentOf(FeeWallet, as, fee)>>

\* A call delivers a quantity that is held to a wallet.
Delivers(katana, after, to, quantity) ==
    /\ after \in KatanaState
    /\ after.held = katana.held - quantity
    /\ IsDelivery(after.payments, to, quantity)

\* What is under way on Katana before a call.
Ready(katana, quantity) == katana \in KatanaState /\ katana.payments = <<>> /\ quantity \in 0..katana.held

LEMMA OnePaymentDelivers ==
    ASSUME NEW k, NEW quantity, Ready(k, quantity), NEW after, NEW to, NEW as \in {"balance", "quote"},
           PaysOnce(k, after, to, as, quantity)
    PROVE  Delivers(k, after, to, quantity)
<1>1. after.payments = Append(<<>>, PaymentOf(to, as, quantity))
  BY DEF PaysOnce, Ready
<1>2. after.payments = <<PaymentOf(to, as, quantity)>>
  BY <1>1
<1>3. QED
  BY <1>2 DEF Delivers, IsDelivery, PaysOnce

\* A sequence of two.
LEMMA AppendSecond ==
    ASSUME NEW a, NEW b
    PROVE  Append(<<a>>, b) = <<a, b>>
<1> DEFINE S == {a, b}
           s == Append(<<a>>, b)
           t == <<a, b>>
<1>1. <<a>> \in Seq(S) /\ Len(<<a>>) = 1 /\ b \in S
  OBVIOUS
<1>2. s \in Seq(S) /\ Len(s) = 2 /\ s[1] = a /\ s[2] = b
  BY <1>1, AppendProperties
<1>3. t \in Seq(S) /\ Len(t) = 2 /\ t[1] = a /\ t[2] = b
  OBVIOUS
<1> HIDE DEF s, t, S
<1>4. Len(s) = Len(t) /\ \A i \in 1..Len(s) : s[i] = t[i]
  BY <1>2, <1>3
<1>5. s = t
  BY <1>2, <1>3, <1>4, SeqEqual
<1>6. QED
  BY <1>5 DEF s, t

\* A deposit to a managed account and its fee together make up the quantity.
LEMMA AccountAndFeeDeliver ==
    ASSUME NEW k, NEW quantity, Ready(k, quantity), NEW fee \in ComposeFees, fee \in 0..quantity,
           NEW paid, NEW to, PaysOnce(k, paid, to, "account", quantity - fee)
    PROVE  Delivers(k, WithFee(paid, fee), to, quantity)
<1> DEFINE first == PaymentOf(to, "account", quantity - fee)
           after == WithFee(paid, fee)
<1>1. k.held \in Nat /\ quantity \in Nat /\ quantity <= k.held /\ fee \in Nat /\ fee <= quantity
  BY KatanaFields DEF Ready
<1>2. paid \in KatanaState /\ paid.held = k.held - (quantity - fee)
  BY DEF PaysOnce
<1>3. paid.payments = <<first>>
  <2>1. paid.payments = Append(<<>>, first)
    BY DEF PaysOnce, Ready
  <2> HIDE DEF first
  <2> QED BY <2>1
<1>4. fee \in 0..paid.held
  BY <1>1, <1>2
<1> HIDE DEF first
<1>5. CASE fee = 0 /\ after = paid
  <2>1. after \in KatanaState /\ after.held = k.held - quantity
    BY <1>1, <1>2, <1>5
  <2>2. IsDelivery(after.payments, to, quantity)
    BY <1>1, <1>3, <1>5 DEF IsDelivery, first
  <2>3. QED
    BY <2>1, <2>2 DEF Delivers
<1>6. ASSUME NEW as \in {"balance", "quote"}, PaysOnce(paid, after, FeeWallet, as, fee)
      PROVE  Delivers(k, after, to, quantity)
  <2>1. after \in KatanaState /\ after.held = paid.held - fee
        /\ after.payments = Append(paid.payments, PaymentOf(FeeWallet, as, fee))
    BY <1>6 DEF PaysOnce
  <2> DEFINE second == PaymentOf(FeeWallet, as, fee)
  <2>2. after.payments = <<first, second>>
    <3>1. after.payments = Append(<<first>>, second)
      BY <1>3, <2>1, Zenon
    <3> HIDE DEF second
    <3> DEFINE payments == after.payments
    <3> HIDE DEF payments
    <3>2. payments = Append(<<first>>, second)
      BY <3>1 DEF payments
    <3>3. payments = <<first, second>>
      BY <3>2, AppendSecond
    <3>4. QED
      BY <3>3 DEF payments
  <2> HIDE DEF after
  <2>3. after.held = k.held - quantity
    BY <1>1, <1>2, <2>1
  <2>4. IsDelivery(after.payments, to, quantity)
    BY <1>1, <2>2 DEF IsDelivery, first
  <2>5. QED
    BY <2>1, <2>3, <2>4 DEF Delivers
<1>7. QED
  BY <1>2, <1>4, <1>5, <1>6, WithFeePays

\* The parameters in force.
LEMMA FeesInForce ==
    ASSUME parameters \in ComposeParameters, AreComposeParameters(parameters)
    PROVE  /\ parameters.addManagedAccountFee \in ComposeFees \cap Nat
           /\ parameters.depositToManagedAccountFee \in ComposeFees \cap Nat
           /\ parameters.minimumAddManagedAccount \in Nat
           /\ parameters.minimumDepositToManagedAccount \in Nat
           /\ parameters.addManagedAccountFee <= parameters.minimumAddManagedAccount
           /\ parameters.depositToManagedAccountFee < parameters.minimumDepositToManagedAccount
<1>1. parameters \in Parameters
  BY BridgeAssumption
<1>2. /\ parameters.addManagedAccountFee \in Nat /\ parameters.depositToManagedAccountFee \in Nat
      /\ parameters.minimumAddManagedAccount \in Nat /\ parameters.minimumDepositToManagedAccount \in Nat
  BY <1>1 DEF Parameters
<1>3. parameters \in {q \in ComposeParameters : AreComposeParameters(q)}
  OBVIOUS
<1>4. parameters.addManagedAccountFee \in ComposeFees /\ parameters.depositToManagedAccountFee \in ComposeFees
  BY <1>3 DEF ComposeFees
<1>5. /\ parameters.addManagedAccountFee <= parameters.minimumAddManagedAccount
      /\ parameters.depositToManagedAccountFee < parameters.minimumDepositToManagedAccount
  BY DEF AreComposeParameters
<1>6. QED
  BY <1>2, <1>4, <1>5

\* What is asked for a deposit is delivered, unless its wallet cannot be paid.
DeliversUnlessBlocked(katana, after, w, quantity) ==
    \/ after = Reverted /\ w \in Blocked
    \/ Delivers(katana, after, w, quantity)

LEMMA DepositElseTransferDelivers ==
    ASSUME NEW k, NEW quantity, Ready(k, quantity), NEW w \in Wallets
    PROVE  DeliversUnlessBlocked(k, DepositElseTransfer(k, w, quantity), w, quantity)
<1>1. k \in KatanaState /\ quantity \in Nat /\ quantity <= k.held /\ k.held \in Nat /\ w \in Accounts
  BY KatanaFields DEF Ready, Accounts
<1>2. ~ (quantity > k.held)
  BY <1>1
<1>3. QED
  BY <1>1, <1>2, DepositElseTransferPays, OnePaymentDelivers DEF DeliversUnlessBlocked

LEMMA TransferQuoteDelivers ==
    ASSUME NEW k, NEW quantity, Ready(k, quantity), NEW w \in Wallets \cup {Owner}
    PROVE  DeliversUnlessBlocked(k, TransferQuote(k, w, quantity), w, quantity)
<1>1. k \in KatanaState /\ quantity \in Nat /\ quantity <= k.held /\ k.held \in Nat
  BY KatanaFields DEF Ready
<1>2. ~ (quantity > k.held)
  BY <1>1
<1>3. QED
  BY <1>1, <1>2, TransferQuotePays, OnePaymentDelivers DEF DeliversUnlessBlocked

LEMMA DepositToManagedAccountDelivers ==
    ASSUME parameters \in ComposeParameters, AreComposeParameters(parameters),
           NEW k, NEW quantity, Ready(k, quantity), NEW p \in Payload, p.wallet \in Wallets, NEW accepts
    PROVE  DeliversUnlessBlocked(k, DepositToManagedAccount(k, p, quantity, accepts), p.wallet, quantity)
<1> DEFINE fee  == parameters.depositToManagedAccountFee
           net  == quantity - fee
           full == ExchangeDepositToManagedAccount(k, p.wallet, p.manager, net)
           all  == DepositElseTransfer(k, p.wallet, quantity)
<1>1. DeliversUnlessBlocked(k, all, p.wallet, quantity)
  BY DepositElseTransferDelivers
<1>2. CASE quantity < parameters.minimumDepositToManagedAccount
  BY <1>1, <1>2 DEF DepositToManagedAccount
<1>3. CASE ~ (quantity < parameters.minimumDepositToManagedAccount)
  <2>1. k \in KatanaState /\ quantity \in Nat
    BY KatanaFields DEF Ready
  <2>2. fee \in ComposeFees /\ fee \in 0..quantity /\ net \in Nat /\ ~ (net < 0)
    BY <1>3, <2>1, FeesInForce
  <2>3. full = Reverted \/ PaysOnce(k, full, p.wallet, "account", net)
    BY <2>1, <2>2, ExchangeDepositToManagedAccountPays
  <2>4. DepositToManagedAccount(k, p, quantity, accepts) =
          IF p.isProviderContract /\ accepts.deposit /\ full # Reverted THEN WithFee(full, fee) ELSE all
    BY <1>3, <2>2 DEF DepositToManagedAccount
  <2> HIDE DEF full, all, fee
  <2>5. full # Reverted => Delivers(k, WithFee(full, fee), p.wallet, quantity)
    BY <2>2, <2>3, AccountAndFeeDeliver
  <2>6. QED
    BY <1>1, <2>4, <2>5 DEF DeliversUnlessBlocked
<1>4. QED
  BY <1>2, <1>3

\* So is what comes to add an account, if its provider is a contract.
LEMMA AddManagedAccountDelivers ==
    ASSUME parameters \in ComposeParameters, AreComposeParameters(parameters),
           NEW k, NEW quantity, Ready(k, quantity), NEW p \in Payload, p.wallet \in Wallets, NEW accepts
    PROVE  \/ AddManagedAccount(k, p, quantity, accepts) = Reverted /\ ~p.isProviderContract
           \/ DeliversUnlessBlocked(k, AddManagedAccount(k, p, quantity, accepts), p.wallet, quantity)
<1> DEFINE fee   == parameters.addManagedAccountFee
           net   == quantity - fee
           added == CASE accepts.account = "adds"    -> AddAccount(k, p.wallet)
                      [] accepts.account = "ignores" -> k
                      [] OTHER                       -> Reverted
           empty == [added EXCEPT !.payments = Append(@, PaymentOf(p.wallet, "account", 0))]
           full  == ExchangeDepositToManagedAccount(added, p.wallet, p.wallet, net)
           all   == DepositElseTransfer(k, p.wallet, quantity)
<1>1. DeliversUnlessBlocked(k, all, p.wallet, quantity)
  BY DepositElseTransferDelivers
<1>2. CASE quantity < parameters.minimumAddManagedAccount
  BY <1>1, <1>2 DEF AddManagedAccount
<1>3. CASE ~ (quantity < parameters.minimumAddManagedAccount) /\ ~p.isProviderContract
  BY <1>3 DEF AddManagedAccount
<1>4. CASE ~ (quantity < parameters.minimumAddManagedAccount) /\ p.isProviderContract /\ added = Reverted
  <2> HIDE DEF all, added
  <2>1. AddManagedAccount(k, p, quantity, accepts) = all
    BY <1>4 DEF AddManagedAccount, all, added
  <2>2. QED
    BY <1>1, <2>1
<1>5. CASE ~ (quantity < parameters.minimumAddManagedAccount) /\ p.isProviderContract /\ added # Reverted
  <2>1. k \in KatanaState /\ quantity \in Nat
    BY KatanaFields DEF Ready
  <2>2. fee \in ComposeFees /\ fee \in 0..quantity /\ net \in Nat /\ ~ (net < 0)
    BY <1>5, <2>1, FeesInForce
  <2>3. /\ added \in KatanaState /\ added.held = k.held /\ added.payments = <<>>
        /\ Ready(added, quantity)
    <3>1. added = AddAccount(k, p.wallet) \/ added = k
      BY <1>5
    <3>2. added \in KatanaState /\ added.held = k.held /\ added.payments = k.payments
      BY <1>5, <2>1, <3>1, AddAccountAdds
    <3> HIDE DEF added
    <3>3. QED
      BY <3>2 DEF Ready
  <2>4. AddManagedAccount(k, p, quantity, accepts) =
          IF net = 0 THEN WithFee(empty, fee)
          ELSE IF accepts.deposit /\ full # Reverted THEN WithFee(full, fee)
          ELSE TransferQuote(added, p.wallet, quantity)
    <3> HIDE DEF added, full, empty, all
    <3> QED BY <1>5, <2>2 DEF AddManagedAccount, added, full, empty
  <2> HIDE DEF added
  <2>5. PaysOnce(added, empty, p.wallet, "account", 0)
    <3> DEFINE payments == Append(added.payments, PaymentOf(p.wallet, "account", 0))
    <3>1. empty = [held |-> added.held, balances |-> added.balances, managed |-> added.managed, payments |-> payments]
      <4>1. empty = [added EXCEPT !.payments = payments]
        OBVIOUS
      <4> HIDE DEF empty, payments
      <4>2. QED
        BY <2>3, <4>1 DEF KatanaState
    <3>2. payments \in Seq(Payment)
      <4>1. PaymentOf(p.wallet, "account", 0) \in Payment
        BY DEF PaymentOf, Payment
      <4>2. QED
        BY <2>3, <4>1, KatanaFields, AppendProperties
    <3> HIDE DEF empty, payments
    <3>3. empty \in KatanaState /\ empty.held = added.held /\ empty.payments = payments
      BY <2>3, <3>1, <3>2 DEF KatanaState
    <3>4. 0 <= added.held /\ added.held - 0 = added.held
      BY <2>3, KatanaFields
    <3>5. QED
      BY <3>3, <3>4 DEF PaysOnce, payments
  <2>6. full = Reverted \/ PaysOnce(added, full, p.wallet, "account", net)
    BY <2>2, <2>3, ExchangeDepositToManagedAccountPays
  <2> HIDE DEF full, empty, all, fee
  <2>7. net = 0 => Delivers(added, WithFee(empty, fee), p.wallet, quantity)
    BY <2>2, <2>3, <2>5, AccountAndFeeDeliver
  <2>8. full # Reverted => Delivers(added, WithFee(full, fee), p.wallet, quantity)
    BY <2>2, <2>3, <2>6, AccountAndFeeDeliver
  <2>9. DeliversUnlessBlocked(added, TransferQuote(added, p.wallet, quantity), p.wallet, quantity)
    BY <2>3, TransferQuoteDelivers
  <2>10. ASSUME NEW after
         PROVE  Delivers(added, after, p.wallet, quantity) => Delivers(k, after, p.wallet, quantity)
    BY <2>3 DEF Delivers
  <2>11. QED
    BY <2>4, <2>7, <2>8, <2>9, <2>10 DEF DeliversUnlessBlocked
<1>6. QED
  BY <1>2, <1>3, <1>4, <1>5

LEMMA ComposeDelivers ==
    ASSUME parameters \in ComposeParameters, AreComposeParameters(parameters),
           NEW k, NEW quantity, Ready(k, quantity), NEW p \in Payload, NEW accepts
    PROVE  LET after == Compose(k, p, quantity, accepts)
           IN  \/ after = Reverted /\ (p.type = "Undecodable" \/ AsksNoContract(p) \/ p.wallet \in Blocked)
               \/ p.wallet = None /\ Delivers(k, after, Owner, quantity)
               \/ p.wallet \in Wallets /\ Delivers(k, after, p.wallet, quantity)
<1> DEFINE after == Compose(k, p, quantity, accepts)
<1>1. CASE p.type = "Undecodable"
  BY <1>1 DEF Compose
<1>2. CASE p.type # "Undecodable" /\ p.wallet = None
  <2>1. after = TransferQuote(k, Owner, quantity)
    BY <1>2 DEF Compose
  <2>2. Owner \notin Blocked
    BY BridgeAssumption
  <2>3. DeliversUnlessBlocked(k, after, Owner, quantity)
    BY <2>1, TransferQuoteDelivers
  <2>4. QED
    BY <1>2, <2>2, <2>3 DEF DeliversUnlessBlocked
<1>3. CASE p.type # "Undecodable" /\ p.wallet # None
  <2>1. p.wallet \in Wallets
    BY <1>3 DEF Payload
  <2> DEFINE adds == AddManagedAccount(k, p, quantity, accepts)
  <2>2. \/ after \in {TransferQuote(k, p.wallet, quantity), DepositElseTransfer(k, p.wallet, quantity),
                      DepositToManagedAccount(k, p, quantity, accepts)}
        \/ p.type = "AddManagedAccount" /\ after = adds
    BY <1>3 DEF Compose
  <2>3. \/ adds = Reverted /\ ~p.isProviderContract
        \/ DeliversUnlessBlocked(k, adds, p.wallet, quantity)
    BY <2>1, AddManagedAccountDelivers
  <2> HIDE DEF adds
  <2>4. \/ DeliversUnlessBlocked(k, after, p.wallet, quantity)
        \/ after = Reverted /\ AsksNoContract(p)
    BY <2>1, <2>2, <2>3, TransferQuoteDelivers, DepositElseTransferDelivers,
       DepositToManagedAccountDelivers DEF AsksNoContract
  <2>5. QED
    BY <2>1, <2>4 DEF DeliversUnlessBlocked
<1>4. QED
  BY <1>1, <1>2, <1>3

\* A deposit is delivered whatever becomes of the call: to its wallet, or to the
\* owner if there is no wallet to be told or paid, or no contract to be asked.
LEMMA ComposeOrOwnerDelivers ==
    ASSUME parameters \in ComposeParameters, AreComposeParameters(parameters),
           NEW k, NEW quantity, Ready(k, quantity), NEW p \in Payload, NEW accepts
    PROVE  \E to \in Wallets \cup {Owner} :
              /\ Delivers(k, ComposeOrOwner(k, p, quantity, accepts), to, quantity)
              /\ to = Owner => p.type = "Undecodable" \/ AsksNoContract(p) \/ p.wallet \in Blocked \cup {None}
<1> DEFINE after == Compose(k, p, quantity, accepts)
<1>1. \/ after = Reverted /\ (p.type = "Undecodable" \/ AsksNoContract(p) \/ p.wallet \in Blocked)
      \/ p.wallet = None /\ Delivers(k, after, Owner, quantity)
      \/ p.wallet \in Wallets /\ Delivers(k, after, p.wallet, quantity)
  BY ComposeDelivers
<1>2. ComposeOrOwner(k, p, quantity, accepts) = IF after = Reverted THEN TransferQuote(k, Owner, quantity) ELSE after
  BY DEF ComposeOrOwner, Try
<1>3. Delivers(k, TransferQuote(k, Owner, quantity), Owner, quantity)
  <2>1. Owner \notin Blocked
    BY BridgeAssumption
  <2>2. QED
    BY <2>1, TransferQuoteDelivers DEF DeliversUnlessBlocked
<1>4. ASSUME NEW to, Delivers(k, after, to, quantity)
      PROVE  after # Reverted
  BY <1>4, KatanaFields DEF Delivers
<1> HIDE DEF after
<1>5. Owner \notin Wallets
  BY BridgeAssumption
<1>6. CASE after = Reverted
  BY <1>1, <1>2, <1>3, <1>4, <1>6
<1>7. CASE after # Reverted
  BY <1>1, <1>2, <1>5, <1>7
<1>8. QED
  BY <1>6, <1>7

\* Who is paid by a delivery.
LEMMA DeliveryPays ==
    ASSUME NEW payments, NEW to \in Wallets \cup {Owner}, NEW quantity \in Nat, IsDelivery(payments, to, quantity)
    PROVE  \A i \in DOMAIN payments : payments[i].to = Owner => to = Owner
<1>1. ASSUME NEW as, payments = <<PaymentOf(to, as, quantity)>>
      PROVE  \A i \in DOMAIN payments : payments[i].to = to
  BY <1>1 DEF PaymentOf
<1>2. ASSUME NEW fee, payments = <<PaymentOf(to, "account", quantity - fee)>>
      PROVE  \A i \in DOMAIN payments : payments[i].to = to
  BY <1>2 DEF PaymentOf
<1>3. ASSUME NEW fee, NEW as,
             payments = <<PaymentOf(to, "account", quantity - fee), PaymentOf(FeeWallet, as, fee)>>
      PROVE  \A i \in DOMAIN payments : payments[i].to \in {to, FeeWallet}
  BY <1>3 DEF PaymentOf
<1>4. Owner # FeeWallet
  BY BridgeAssumption
<1>5. QED
  BY <1>1, <1>2, <1>3, <1>4 DEF IsDelivery

-----------------------------------------------------------------------------
(* Payments on Ethereum. *)

\* The fields of a state on Ethereum.
LEMMA EthereumFields ==
    ASSUME NEW e \in EthereumState
    PROVE  e.holds \in [Tokens -> Nat] /\ e.payments \in Seq(Payment) /\ e # Reverted
BY BridgeAssumption DEF EthereumState

\* What a payment from a state that has made none leaves.
PaysOnEthereum(e, after, token, to, as, quantity) ==
    \/ after = Reverted /\ as # "balance" /\ to \in Blocked
    \/ /\ after \in EthereumState
       /\ after.holds = [e.holds EXCEPT ![token] = @ - quantity]
       /\ after.payments = <<PaymentOf(to, as, quantity)>>

\* A payment is refused, or made once.
LEMMA PayOnEthereumPays ==
    ASSUME NEW e \in EthereumState, e.payments = <<>>, NEW token \in Tokens,
           NEW to \in Wallets \cup {FeeWallet, Owner}, NEW as \in Kinds, NEW quantity \in 0..e.holds[token]
    PROVE  PaysOnEthereum(e, PayOnEthereum(e, token, to, as, quantity), token, to, as, quantity)
<1> DEFINE after == PayOnEthereum(e, token, to, as, quantity)
           holds == [e.holds EXCEPT ![token] = @ - quantity]
           payments == Append(e.payments, PaymentOf(to, as, quantity))
<1>1. e.holds \in [Tokens -> Nat] /\ quantity \in Nat /\ e.holds[token] \in Nat /\ ~ (quantity > e.holds[token])
  BY EthereumFields
<1>2. CASE IsRefused(e.holds[token], to, as, quantity)
  BY <1>1, <1>2 DEF PayOnEthereum, IsRefused, PaysOnEthereum
<1>3. CASE ~ IsRefused(e.holds[token], to, as, quantity)
  <2>1. after = [e EXCEPT !.holds = holds, !.payments = payments]
    BY <1>3 DEF PayOnEthereum
  <2>2. holds \in [Tokens -> Nat]
    BY <1>1
  <2>3. payments = <<PaymentOf(to, as, quantity)>> /\ payments \in Seq(Payment)
    <3>1. PaymentOf(to, as, quantity) \in Payment
      BY <1>1 DEF PaymentOf, Payment, Kinds
    <3> DEFINE new == PaymentOf(to, as, quantity)
    <3> HIDE DEF new
    <3>2. Append(<<>>, new) = <<new>>
      OBVIOUS
    <3>3. payments = Append(<<>>, new)
      BY DEF new
    <3> HIDE DEF payments
    <3>4. payments = <<new>>
      BY <3>2, <3>3
    <3>5. payments \in Seq(Payment)
      <4>1. new \in Payment
        BY <3>1 DEF new
      <4>2. QED
        BY <3>4, <4>1
    <3>6. QED
      BY <3>4, <3>5 DEF new
  <2> HIDE DEF after, holds, payments
  <2>4. after = [holds |-> holds, payments |-> payments]
    BY <2>1 DEF EthereumState
  <2>5. after \in EthereumState /\ after.holds = holds /\ after.payments = payments
    BY <2>2, <2>3, <2>4 DEF EthereumState
  <2>6. QED
    BY <2>3, <2>5 DEF after, holds, PaysOnEthereum
<1>4. QED
  BY <1>2, <1>3

-----------------------------------------------------------------------------
(* The inductive invariant. *)

Sizes == UNION {0 .. quantity : quantity \in Quantities}

\* What every transfer satisfies: its message is one that was sent, nothing is
\* paid before its end, and one that goes to a wallet names it.
TransferInv(r) ==
    /\ r.stage # "Idle" => r.message \in Messages /\ r.quantity \in Sizes
    /\ r.stage # "Ended" => r.payments = <<>>
    /\ r.stage = "ToWallet" => r.message.destinationWallet \in Wallets

BridgeInv ==
    /\ TypeOK
    /\ AreComposeParameters(parameters)
    /\ \A t \in Transfers : TransferInv(transfers[t])
    /\ HoldsWhatIsUnderWay

-----------------------------------------------------------------------------
(* What a transfer may become. *)

IsMoving(r) == r.stage \notin {"Idle", "Ended"}

EndsAs(r, quantity, end) == r.stage = "Ended" /\ RemittanceOf(r) = [quantity |-> quantity, end |-> end]

\* How a step moves one transfer, as the abstract specification sees it.
Remits(old, new) ==
    \/ old.stage = "Idle" /\ IsMoving(new)
    \/ old.stage = "Idle" /\ \E quantity \in Sizes : EndsAs(new, quantity, "quote")
    \/ /\ IsMoving(old)
       /\ \/ IsMoving(new) /\ new.quantity \in Minimum(old.quantity) .. old.quantity
          \/ \E quantity \in Minimum(old.quantity) .. old.quantity : EndsAs(new, quantity, "quote")
          \/ \E fee \in ComposeFees : fee <= old.quantity /\ EndsAs(new, old.quantity - fee, "account")
          \/ \E quantity \in 0 .. old.quantity : EndsAs(new, quantity, "shares")

\* Who may be paid by the step that ends a transfer.
PaysRightly(old, new) ==
    (\E i \in DOMAIN new.payments : new.payments[i].to = Owner) =>
        /\ old.stage = "Deposit" =>
               \/ old.message.payload.type = "Undecodable" \/ AsksNoContract(old.message.payload)
               \/ old.message.payload.wallet \in Blocked \cup {None}
        /\ old.stage = "ForwardWithdrawal" /\ old.message.isToEthereum =>
               \/ old.message.type # "WithdrawFromKatana"
               \/ old.message.destinationWallet \in Blocked \cup {None}

At(r, stage) == IF r.stage = stage THEN r.quantity ELSE 0

\* One transfer moves, with the tokens that are under way with it.
Moved(t, new) ==
    /\ transfers' = [transfers EXCEPT ![t] = new]
    /\ new \in Transfer /\ TransferInv(new)
    /\ Remits(transfers[t], new) /\ PaysRightly(transfers[t], new)
    /\ adapter' \in Nat /\ adapter' = adapter - At(transfers[t], "Deposit") + At(new, "Deposit")
    /\ forwarder' \in [Tokens -> Nat]
    /\ forwarder'["usdc"] = forwarder["usdc"] - At(transfers[t], "ForwardDeposit") + At(new, "ForwardDeposit")
    /\ forwarder'["vbUSDC"]
         = forwarder["vbUSDC"] - At(transfers[t], "ForwardWithdrawal") + At(new, "ForwardWithdrawal")
    /\ balances' \in [Accounts -> Nat] /\ managed' \subseteq Wallets
    /\ UNCHANGED settingVars

\* What is under way at a stage changes by the one transfer.
LEMMA UnderWayMoves ==
    ASSUME BridgeInv, NEW t \in Transfers, NEW new \in Transfer,
           transfers' = [transfers EXCEPT ![t] = new], NEW stage \in Stages
    PROVE  UnderWay(stage)' = UnderWay(stage) - At(transfers[t], stage) + At(new, stage)
<1> DEFINE f == [u \in Transfers |-> transfers[u].quantity]
           g == [u \in Transfers |-> transfers'[u].quantity]
           S == {u \in Transfers : transfers[u].stage = stage}
           T == {u \in Transfers : transfers'[u].stage = stage}
<1>1. transfers \in [Transfers -> Transfer] /\ transfers' \in [Transfers -> Transfer]
  BY DEF BridgeInv, TypeOK
<1>2. \A u \in Transfers : f[u] \in Int /\ g[u] \in Int
  BY <1>1 DEF Transfer
<1>3. IsFiniteSet(S) /\ IsFiniteSet(T)
  BY BridgeAssumption, FS_Subset
<1>4. S \ {t} = T \ {t} /\ \A u \in S \ {t} : g[u] = f[u]
  BY <1>1
<1>5. f[t] = transfers[t].quantity /\ g[t] = new.quantity
  BY <1>1
<1>6. (t \in S <=> transfers[t].stage = stage) /\ (t \in T <=> new.stage = stage)
  BY <1>1
<1>7. UnderWay(stage) = SumFunctionOnSet(f, S) /\ UnderWay(stage)' = SumFunctionOnSet(g, T)
  BY DEF UnderWay
<1>8. \A u \in S : f[u] \in Int
  BY <1>2
<1>9. \A u \in T : g[u] \in Int
  BY <1>2
<1> HIDE DEF f, g, S, T
<1>10. SumFunctionOnSet(g, T) = SumFunctionOnSet(f, S) - (IF t \in S THEN f[t] ELSE 0)
                                                      + (IF t \in T THEN g[t] ELSE 0)
  BY <1>3, <1>4, <1>8, <1>9, SumOnChange
<1>11. QED
  BY <1>5, <1>6, <1>7, <1>10 DEF At

\* A transfer that moves with its tokens keeps the invariant.
LEMMA MovedKeeps ==
    ASSUME BridgeInv, NEW t \in Transfers, NEW new, Moved(t, new)
    PROVE  BridgeInv'
<1>1. new \in Transfer /\ transfers' = [transfers EXCEPT ![t] = new] /\ transfers \in [Transfers -> Transfer]
  BY DEF Moved, BridgeInv, TypeOK
<1>2. TypeOK'
  BY <1>1 DEF Moved, BridgeInv, TypeOK, settingVars, Accounts
<1>3. AreComposeParameters(parameters)'
  BY DEF Moved, BridgeInv, settingVars, AreComposeParameters
<1>4. \A u \in Transfers : TransferInv(transfers'[u])
  BY <1>1 DEF Moved, BridgeInv
<1>5. HoldsWhatIsUnderWay'
  <2>1. \A stage \in Stages : UnderWay(stage)' = UnderWay(stage) - At(transfers[t], stage) + At(new, stage)
    BY <1>1, UnderWayMoves
  <2>2. {"Deposit", "ForwardDeposit", "ForwardWithdrawal"} \subseteq Stages
    BY DEF Stages
  <2>3. adapter' = UnderWay("Deposit")'
    BY <2>1, <2>2 DEF Moved, BridgeInv, HoldsWhatIsUnderWay
  <2>4. forwarder'["usdc"] = UnderWay("ForwardDeposit")'
    BY <2>1, <2>2 DEF Moved, BridgeInv, HoldsWhatIsUnderWay
  <2>5. forwarder'["vbUSDC"] = UnderWay("ForwardWithdrawal")'
    BY <2>1, <2>2 DEF Moved, BridgeInv, HoldsWhatIsUnderWay
  <2>6. QED
    BY <2>3, <2>4, <2>5 DEF HoldsWhatIsUnderWay
<1>6. QED
  BY <1>2, <1>3, <1>4, <1>5 DEF BridgeInv

\* A contract holds each of the transfers that wait in it.
LEMMA HoldsEach ==
    ASSUME BridgeInv, NEW t \in Transfers, NEW stage \in Stages
    PROVE  At(transfers[t], stage) <= UnderWay(stage)
<1> DEFINE f == [u \in Transfers |-> transfers[u].quantity]
           S == {u \in Transfers : transfers[u].stage = stage}
<1>1. \A u \in Transfers : f[u] \in Nat
  BY DEF BridgeInv, TypeOK, Transfer
<1>2. IsFiniteSet(S) /\ S \subseteq Transfers
  BY BridgeAssumption, FS_Subset
<1>3. UnderWay(stage) = SumFunctionOnSet(f, S) /\ At(transfers[t], stage) = (IF t \in S THEN f[t] ELSE 0)
  BY DEF UnderWay, At
<1> HIDE DEF f, S
<1>4. SumFunctionOnSet(f, S) \in Nat
  BY <1>1, <1>2, SumOnNat
<1>5. CASE t \in S
  <2>1. SumFunctionOnSet(f, S) = f[t] + SumFunctionOnSet(f, S \ {t})
    BY <1>1, <1>2, <1>5, SumOnRemove
  <2>2. SumFunctionOnSet(f, S \ {t}) \in Nat
    BY <1>1, <1>2, FS_RemoveElement, SumOnNat
  <2>3. QED
    BY <1>1, <1>3, <1>5, <2>1, <2>2
<1>6. CASE t \notin S
  BY <1>3, <1>4, <1>6
<1>7. QED
  BY <1>5, <1>6

-----------------------------------------------------------------------------
(* How transfers end. *)

EndOf(as) == IF as = "balance" THEN "quote" ELSE as

\* The remittance of an ended transfer is its one payment that is no fee.
LEMMA EndsAsFirst ==
    ASSUME NEW r, r.stage = "Ended", NEW to, to # FeeWallet, NEW as, NEW quantity,
           \/ r.payments = <<PaymentOf(to, as, quantity)>>
           \/ \E kind, fee : r.payments = <<PaymentOf(to, as, quantity), PaymentOf(FeeWallet, kind, fee)>>
    PROVE  EndsAs(r, quantity, EndOf(as))
<1>1. /\ Received(r.payments) = {1}
      /\ r.payments[1] = PaymentOf(to, as, quantity)
  <2>1. CASE r.payments = <<PaymentOf(to, as, quantity)>>
    BY <2>1 DEF Received, PaymentOf
  <2>2. CASE \E kind, fee : r.payments = <<PaymentOf(to, as, quantity), PaymentOf(FeeWallet, kind, fee)>>
    BY <2>2 DEF Received, PaymentOf
  <2>3. QED
    BY <2>1, <2>2
<1>2. Cardinality(Received(r.payments)) = 1
  BY <1>1, FS_Singleton
<1>3. (CHOOSE i \in Received(r.payments) : TRUE) = 1
  BY <1>1
<1>4. RemittanceOf(r) = [quantity |-> r.payments[1].quantity,
                         end |-> IF r.payments[1].as = "balance" THEN "quote" ELSE r.payments[1].as]
  <2>1. r.stage # "Idle" /\ ~ (r.stage # "Ended") /\ ~ (Cardinality(Received(r.payments)) # 1)
    BY <1>2
  <2> DEFINE first == CHOOSE i \in Received(r.payments) : TRUE
  <2>2. RemittanceOf(r) = [quantity |-> r.payments[first].quantity,
                           end |-> IF r.payments[first].as = "balance" THEN "quote" ELSE r.payments[first].as]
    BY <2>1 DEF RemittanceOf
  <2>3. first = 1
    BY <1>3
  <2> HIDE DEF first
  <2>4. QED
    BY <2>2, <2>3
<1>5. r.payments[1].quantity = quantity /\ r.payments[1].as = as
  BY <1>1 DEF PaymentOf
<1>6. QED
  BY <1>4, <1>5 DEF EndsAs, EndOf

\* A quantity less what a bridge may keep of it.
LEMMA MinimumWithin ==
    ASSUME NEW quantity \in Nat
    PROVE  Minimum(quantity) \in 0 .. quantity
<1> DEFINE n == quantity * MinimumMultiplier
           q == n \div PipPriceMultiplier
<1>1. MinimumMultiplier \in Nat /\ PipPriceMultiplier \in Nat \ {0} /\ MinimumMultiplier <= PipPriceMultiplier
  BY BridgeAssumption
<1>2. n \in Nat /\ n <= quantity * PipPriceMultiplier
  BY <1>1
<1> HIDE DEF n
<1>3. q \in Nat /\ q * PipPriceMultiplier <= n
  BY <1>1, <1>2
<1> HIDE DEF q
<1>4. q * PipPriceMultiplier <= quantity * PipPriceMultiplier
  BY <1>1, <1>2, <1>3
<1>5. q <= quantity
  BY <1>1, <1>3, <1>4
<1>6. QED
  BY <1>3, <1>5 DEF q, n, Minimum

\* Sizes, downward closed.
LEMMA SizesClosed ==
    ASSUME NEW quantity \in Sizes, NEW smaller \in 0 .. quantity
    PROVE  quantity \in Nat /\ smaller \in Sizes
BY BridgeAssumption DEF Sizes

\* A delivery ends a moving transfer as promised.
LEMMA DeliveryRemits ==
    ASSUME NEW old, IsMoving(old), old.quantity \in Nat, NEW new, new.stage = "Ended",
           NEW to \in Wallets \cup {Owner}, IsDelivery(new.payments, to, old.quantity)
    PROVE  Remits(old, new)
<1>1. to # FeeWallet
  BY BridgeAssumption
<1>2. old.quantity \in Minimum(old.quantity) .. old.quantity
  BY MinimumWithin
<1>3. ASSUME NEW as \in {"balance", "quote"}, new.payments = <<PaymentOf(to, as, old.quantity)>>
      PROVE  Remits(old, new)
  <2>1. EndsAs(new, old.quantity, "quote")
    BY <1>1, <1>3, EndsAsFirst DEF EndOf
  <2>2. QED
    BY <1>2, <2>1 DEF Remits
<1>4. ASSUME NEW fee \in ComposeFees, fee <= old.quantity,
             \/ new.payments = <<PaymentOf(to, "account", old.quantity - fee)>>
             \/ \E as \in {"balance", "quote"} :
                   new.payments = <<PaymentOf(to, "account", old.quantity - fee), PaymentOf(FeeWallet, as, fee)>>
      PROVE  Remits(old, new)
  <2>1. EndsAs(new, old.quantity - fee, "account")
    BY <1>1, <1>4, EndsAsFirst DEF EndOf
  <2>2. QED
    BY <1>4, <2>1 DEF Remits
<1>5. QED
  BY <1>3, <1>4 DEF IsDelivery

-----------------------------------------------------------------------------
(* The handlers move one transfer each. *)

\* The state of Katana's side.
LEMMA KatanaReady ==
    ASSUME BridgeInv, NEW t \in Transfers, transfers[t].stage = "Deposit"
    PROVE  Ready(Katana, transfers[t].quantity) /\ Katana.held = adapter
<1>1. Katana \in KatanaState /\ Katana.payments = <<>> /\ Katana.held = adapter
  BY DEF Katana, KatanaState, BridgeInv, TypeOK
<1>2. transfers[t].quantity <= adapter
  <2>1. At(transfers[t], "Deposit") <= UnderWay("Deposit")
    BY HoldsEach DEF Stages
  <2>2. QED
    BY <2>1 DEF At, BridgeInv, HoldsWhatIsUnderWay
<1>3. transfers[t].quantity \in Nat /\ adapter \in Nat
  BY DEF BridgeInv, TypeOK, Transfer
<1>4. QED
  BY <1>1, <1>2, <1>3 DEF Ready

LEMMA DepositMoves ==
    ASSUME BridgeInv, NEW t \in Transfers, Deposit(t)
    PROVE  \E new : Moved(t, new)
<1> DEFINE old == transfers[t]
           k   == Katana
<1>1. PICK accepts \in ProviderAnswers :
         LET after == ComposeOrOwner(k, old.message.payload, old.quantity, accepts)
         IN  /\ OnKatana(after)
             /\ Becomes(t, "Ended", old.quantity, old.message, after.payments)
  BY DEF Deposit
<1> DEFINE after == ComposeOrOwner(k, old.message.payload, old.quantity, accepts)
           new   == [stage |-> "Ended", quantity |-> old.quantity, message |-> old.message,
                     payments |-> after.payments]
<1>2. old \in Transfer /\ old.stage = "Deposit" /\ TransferInv(old) /\ transfers \in [Transfers -> Transfer]
  BY DEF Deposit, BridgeInv, TypeOK
<1>3. old.message \in Messages /\ old.message.payload \in Payload /\ old.quantity \in Nat /\ old.quantity \in Sizes
  BY <1>2, BridgeAssumption DEF TransferInv, Message, Transfer
<1>4. PICK to \in Wallets \cup {Owner} :
         /\ Delivers(k, after, to, old.quantity)
         /\ to = Owner => \/ old.message.payload.type = "Undecodable"
                          \/ AsksNoContract(old.message.payload)
                          \/ old.message.payload.wallet \in Blocked \cup {None}
  <2>1. parameters \in ComposeParameters /\ AreComposeParameters(parameters)
    BY DEF BridgeInv, TypeOK
  <2>2. Ready(k, old.quantity)
    BY <1>2, KatanaReady
  <2> HIDE DEF old, k
  <2>3. QED
    BY <1>3, <2>1, <2>2, ComposeOrOwnerDelivers
<1>5. after \in KatanaState /\ after.held = adapter - old.quantity /\ IsDelivery(after.payments, to, old.quantity)
  BY <1>2, <1>4, KatanaReady DEF Delivers
<1>6. OnKatana(after) /\ Becomes(t, "Ended", old.quantity, old.message, after.payments)
  BY <1>1
<1> HIDE DEF after, k
<1>7. transfers' = [transfers EXCEPT ![t] = new]
  BY <1>6 DEF Becomes
<1>8. after.payments \in Seq(Payment) /\ after.balances \in [Accounts -> Nat] /\ after.managed \subseteq Wallets
      /\ after.held \in Nat
  BY <1>5, KatanaFields
<1>9. new \in Transfer /\ TransferInv(new)
  BY <1>2, <1>3, <1>8 DEF Transfer, TransferInv, Stages
<1>10. Remits(old, new)
  <2>1. IsMoving(old)
    BY <1>2 DEF IsMoving
  <2>2. QED
    BY <1>3, <1>5, <2>1, DeliveryRemits
<1>11. PaysRightly(old, new)
  <2>1. (\E i \in DOMAIN new.payments : new.payments[i].to = Owner) => to = Owner
    BY <1>3, <1>5, DeliveryPays
  <2>2. QED
    BY <1>2, <1>4, <2>1 DEF PaysRightly
<1>12. /\ adapter' = after.held /\ balances' = after.balances /\ managed' = after.managed
       /\ forwarder' = forwarder /\ UNCHANGED settingVars
  BY <1>6 DEF OnKatana, Deposit
<1>13. /\ At(old, "Deposit") = old.quantity /\ At(old, "ForwardDeposit") = 0 /\ At(old, "ForwardWithdrawal") = 0
       /\ At(new, "Deposit") = 0 /\ At(new, "ForwardDeposit") = 0 /\ At(new, "ForwardWithdrawal") = 0
  BY <1>2 DEF At
<1>14. /\ adapter \in Nat /\ forwarder \in [Tokens -> Nat]
       /\ forwarder["usdc"] \in Nat /\ forwarder["vbUSDC"] \in Nat
  BY DEF BridgeInv, TypeOK, Tokens
<1> HIDE DEF new, old
<1>15. Moved(t, new)
  BY <1>3, <1>5, <1>7, <1>8, <1>9, <1>10, <1>11, <1>12, <1>13, <1>14 DEF Moved, old
<1>16. QED
  BY <1>15

\* What a step of the forwarder leaves to the other transfers.
HoldsTheRest(t, e) ==
    /\ e.holds["usdc"] = forwarder["usdc"] - At(transfers[t], "ForwardDeposit")
    /\ e.holds["vbUSDC"] = forwarder["vbUSDC"] - At(transfers[t], "ForwardWithdrawal")

IsForwarded(t) == transfers[t].stage \in {"ForwardDeposit", "ForwardWithdrawal"}

MayGoToOwner(t) ==
    transfers[t].stage = "ForwardWithdrawal" /\ transfers[t].message.isToEthereum =>
        \/ transfers[t].message.type # "WithdrawFromKatana"
        \/ transfers[t].message.destinationWallet \in Blocked \cup {None}

\* The types of a transfer that the forwarder composes.
LEMMA ForwardedTypes ==
    ASSUME BridgeInv, NEW t \in Transfers, IsForwarded(t)
    PROVE  /\ transfers \in [Transfers -> Transfer] /\ transfers[t] \in Transfer /\ TransferInv(transfers[t])
           /\ transfers[t].message \in Messages /\ transfers[t].message \in Message
           /\ transfers[t].quantity \in Nat /\ transfers[t].quantity \in Sizes
           /\ IsMoving(transfers[t]) /\ transfers[t].stage # "Deposit"
           /\ adapter \in Nat /\ forwarder \in [Tokens -> Nat]
           /\ forwarder["usdc"] \in Nat /\ forwarder["vbUSDC"] \in Nat
<1>1. transfers \in [Transfers -> Transfer] /\ transfers[t] \in Transfer /\ TransferInv(transfers[t])
  BY DEF BridgeInv, TypeOK
<1>2. adapter \in Nat /\ forwarder \in [Tokens -> Nat] /\ forwarder["usdc"] \in Nat /\ forwarder["vbUSDC"] \in Nat
  BY DEF BridgeInv, TypeOK, Tokens
<1>3. QED
  BY <1>1, <1>2, BridgeAssumption DEF TransferInv, Transfer, IsForwarded, IsMoving

\* A step of the forwarder moves its transfer.
LEMMA OnEthereumMoves ==
    ASSUME BridgeInv, NEW t \in Transfers, IsForwarded(t), NEW e,
           e.holds \in [Tokens -> Nat], e.payments \in Seq(Payment), HoldsTheRest(t, e),
           NEW stage \in {"ToAdapter", "ToWallet", "Ended"}, NEW quantity, OnEthereum(t, e, stage, quantity),
           NEW new, new = [stage |-> stage, quantity |-> quantity, message |-> transfers[t].message,
                           payments |-> e.payments],
           TransferInv(new), Remits(transfers[t], new), PaysRightly(transfers[t], new), quantity \in Nat
    PROVE  Moved(t, new)
<1> DEFINE old == transfers[t]
<1>1. /\ old \in Transfer /\ old.message \in Messages /\ IsForwarded(t) /\ old.quantity \in Nat
      /\ adapter \in Nat /\ forwarder["usdc"] \in Nat /\ forwarder["vbUSDC"] \in Nat
      /\ IsForwarded(t)
  BY ForwardedTypes
<1>2. e.holds \in [Tokens -> Nat] /\ e.payments \in Seq(Payment)
  OBVIOUS
<1>3. transfers' = [transfers EXCEPT ![t] = new] /\ forwarder' = e.holds
      /\ adapter' = adapter /\ balances' = balances /\ managed' = managed /\ UNCHANGED settingVars
  BY DEF OnEthereum, Becomes, exchangeVars
<1>4. new \in Transfer
  BY <1>1, <1>2 DEF Transfer, Stages
<1>5. balances \in [Accounts -> Nat] /\ managed \subseteq Wallets
  BY DEF BridgeInv, TypeOK, Accounts
<1>6. /\ At(old, "Deposit") = 0
      /\ At(new, "Deposit") = 0 /\ At(new, "ForwardDeposit") = 0 /\ At(new, "ForwardWithdrawal") = 0
  BY <1>1 DEF At, IsForwarded
<1>7. At(old, "ForwardDeposit") \in Nat /\ At(old, "ForwardWithdrawal") \in Nat
  BY <1>1 DEF At
<1>8. adapter' \in Nat /\ adapter' = adapter - At(old, "Deposit") + At(new, "Deposit")
  BY <1>1, <1>3, <1>6
<1>9. /\ forwarder'["usdc"] = forwarder["usdc"] - At(old, "ForwardDeposit") + At(new, "ForwardDeposit")
      /\ forwarder'["vbUSDC"]
           = forwarder["vbUSDC"] - At(old, "ForwardWithdrawal") + At(new, "ForwardWithdrawal")
  BY <1>1, <1>3, <1>6, <1>7 DEF HoldsTheRest
<1>10. QED
  BY <1>2, <1>3, <1>4, <1>5, <1>8, <1>9 DEF Moved

\* The forwarder ends a transfer with one payment.
LEMMA EndsOnEthereum ==
    ASSUME BridgeInv, NEW t \in Transfers, IsForwarded(t), NEW e \in EthereumState, HoldsTheRest(t, e),
           OnEthereum(t, e, "Ended", transfers[t].quantity),
           NEW to \in Wallets \cup {Owner}, NEW as \in {"quote", "shares"},
           NEW quantity \in 0 .. transfers[t].quantity,
           as = "quote" => Minimum(transfers[t].quantity) <= quantity,
           e.payments = <<PaymentOf(to, as, quantity)>>, to = Owner => MayGoToOwner(t)
    PROVE  \E new : Moved(t, new)
<1> DEFINE old == transfers[t]
           new == [stage |-> "Ended", quantity |-> old.quantity, message |-> old.message, payments |-> e.payments]
<1>1. /\ old.quantity \in Nat /\ old.quantity \in Sizes /\ old.message \in Messages /\ old.stage # "Deposit"
      /\ IsMoving(old)
  BY ForwardedTypes
<1>2. TransferInv(new)
  BY <1>1 DEF TransferInv
<1>3. EndsAs(new, quantity, as)
  <2>1. to # FeeWallet /\ EndOf(as) = as
    BY BridgeAssumption DEF EndOf
  <2>2. new.stage = "Ended" /\ new.payments = <<PaymentOf(to, as, quantity)>>
    OBVIOUS
  <2> HIDE DEF new
  <2>3. EndsAs(new, quantity, EndOf(as))
    BY <2>1, <2>2, EndsAsFirst
  <2>4. QED
    BY <2>1, <2>3
<1>4. PaysRightly(old, new)
  <2>1. \A i \in DOMAIN new.payments : new.payments[i].to = to
    BY DEF PaymentOf
  <2>2. QED
    BY <1>1, <2>1 DEF PaysRightly, MayGoToOwner
<1> HIDE DEF new
<1>5. Remits(old, new)
  <2>1. as = "quote" => quantity \in Minimum(old.quantity) .. old.quantity
    BY <1>1, MinimumWithin
  <2>2. QED
    BY <1>1, <1>3, <2>1 DEF Remits
<1>6. Moved(t, new)
  BY <1>1, <1>2, <1>4, <1>5, OnEthereumMoves, EthereumFields DEF new
<1>7. QED
  BY <1>6

\* The forwarder sends a transfer on.
LEMMA SendsOn ==
    ASSUME BridgeInv, NEW t \in Transfers, IsForwarded(t),
           NEW e, e.holds \in [Tokens -> Nat], HoldsTheRest(t, e), NEW stage \in {"ToAdapter", "ToWallet"},
           stage = "ToWallet" => transfers[t].message.destinationWallet \in Wallets,
           NEW quantity \in Minimum(transfers[t].quantity) .. transfers[t].quantity,
           OnEthereum(t, e, stage, quantity), e.payments = <<>>
    PROVE  \E new : Moved(t, new)
<1> DEFINE old == transfers[t]
           new == [stage |-> stage, quantity |-> quantity, message |-> old.message, payments |-> e.payments]
<1>1. /\ old.quantity \in Nat /\ old.quantity \in Sizes /\ old.message \in Messages /\ IsMoving(old)
  BY ForwardedTypes
<1>2. quantity \in 0 .. old.quantity /\ quantity \in Nat
  BY <1>1, MinimumWithin
<1>3. quantity \in Sizes
  BY <1>1, <1>2, SizesClosed
<1>4. TransferInv(new)
  BY <1>1, <1>3 DEF TransferInv
<1>5. Remits(old, new)
  BY <1>1 DEF Remits, IsMoving
<1>6. PaysRightly(old, new)
  BY DEF PaysRightly
<1>7. e.payments \in Seq(Payment)
  OBVIOUS
<1> HIDE DEF new
<1>8. Moved(t, new)
  BY <1>2, <1>4, <1>5, <1>6, <1>7, OnEthereumMoves DEF new
<1>9. QED
  BY <1>8

\* The token a transfer arrives in at the forwarder.
ArrivesAs(t) == IF transfers[t].stage = "ForwardDeposit" THEN "usdc" ELSE "vbUSDC"

\* What the forwarder holds without the transfer's tokens.
TheRest(t) == [forwarder EXCEPT ![ArrivesAs(t)] = @ - transfers[t].quantity]

LEMMA TheRestIsHeld ==
    ASSUME BridgeInv, NEW t \in Transfers, IsForwarded(t)
    PROVE  /\ transfers[t].quantity \in 0 .. forwarder[ArrivesAs(t)]
           /\ TheRest(t) \in [Tokens -> Nat]
           /\ \A e : e.holds = TheRest(t) => HoldsTheRest(t, e)
<1>1. /\ transfers[t].quantity \in Nat /\ forwarder \in [Tokens -> Nat]
      /\ forwarder["usdc"] \in Nat /\ forwarder["vbUSDC"] \in Nat
  BY ForwardedTypes
<1>2. /\ At(transfers[t], "ForwardDeposit") <= forwarder["usdc"]
      /\ At(transfers[t], "ForwardWithdrawal") <= forwarder["vbUSDC"]
  <2>1. At(transfers[t], "ForwardDeposit") <= UnderWay("ForwardDeposit")
    BY HoldsEach DEF Stages
  <2>2. At(transfers[t], "ForwardWithdrawal") <= UnderWay("ForwardWithdrawal")
    BY HoldsEach DEF Stages
  <2>3. QED
    BY <2>1, <2>2 DEF BridgeInv, HoldsWhatIsUnderWay
<1>3. CASE transfers[t].stage = "ForwardDeposit"
  <2>1. ArrivesAs(t) = "usdc" /\ transfers[t].quantity <= forwarder["usdc"]
    BY <1>2, <1>3 DEF ArrivesAs, At
  <2>2. TheRest(t) = [forwarder EXCEPT !["usdc"] = @ - transfers[t].quantity]
    BY <2>1 DEF TheRest
  <2>3. /\ TheRest(t) \in [Tokens -> Nat]
        /\ TheRest(t)["usdc"] = forwarder["usdc"] - transfers[t].quantity
        /\ TheRest(t)["vbUSDC"] = forwarder["vbUSDC"]
    BY <1>1, <2>1, <2>2 DEF Tokens
  <2>4. At(transfers[t], "ForwardDeposit") = transfers[t].quantity /\ At(transfers[t], "ForwardWithdrawal") = 0
    BY <1>3 DEF At
  <2>5. QED
    BY <1>1, <2>1, <2>3, <2>4 DEF HoldsTheRest
<1>4. CASE transfers[t].stage = "ForwardWithdrawal"
  <2>1. ArrivesAs(t) = "vbUSDC" /\ transfers[t].quantity <= forwarder["vbUSDC"]
    BY <1>2, <1>4 DEF ArrivesAs, At
  <2>2. TheRest(t) = [forwarder EXCEPT !["vbUSDC"] = @ - transfers[t].quantity]
    BY <2>1 DEF TheRest
  <2>3. /\ TheRest(t) \in [Tokens -> Nat]
        /\ TheRest(t)["vbUSDC"] = forwarder["vbUSDC"] - transfers[t].quantity
        /\ TheRest(t)["usdc"] = forwarder["usdc"]
    BY <1>1, <2>1, <2>2 DEF Tokens
  <2>4. At(transfers[t], "ForwardDeposit") = 0 /\ At(transfers[t], "ForwardWithdrawal") = transfers[t].quantity
    BY <1>4 DEF At
  <2>5. QED
    BY <1>1, <2>1, <2>3, <2>4 DEF HoldsTheRest
<1>5. QED
  BY <1>3, <1>4 DEF IsForwarded

\* What arrived goes to the forwarder's owner.
LEMMA ToOwnerMoves ==
    ASSUME BridgeInv, NEW t \in Transfers, IsForwarded(t), ToOwner(t, ArrivesAs(t)), MayGoToOwner(t)
    PROVE  \E new : Moved(t, new)
<1> DEFINE after == PayOnEthereum(Ethereum, ArrivesAs(t), Owner, "quote", transfers[t].quantity)
<1>1. Ethereum \in EthereumState /\ Ethereum.holds = forwarder /\ Ethereum.payments = <<>>
  BY ForwardedTypes DEF Ethereum, EthereumState
<1>2. OnEthereum(t, after, "Ended", transfers[t].quantity)
  BY DEF ToOwner
<1>3. after # Reverted
  BY <1>2 DEF OnEthereum
<1>4. /\ after \in EthereumState
      /\ after.holds = [Ethereum.holds EXCEPT ![ArrivesAs(t)] = @ - transfers[t].quantity]
      /\ after.payments = <<PaymentOf(Owner, "quote", transfers[t].quantity)>>
  <2>1. ArrivesAs(t) \in Tokens /\ "quote" \in Kinds
    BY DEF ArrivesAs, Tokens, Kinds
  <2>2. transfers[t].quantity \in 0 .. Ethereum.holds[ArrivesAs(t)]
    BY <1>1, TheRestIsHeld
  <2>3. Owner \notin Blocked
    BY BridgeAssumption
  <2>4. QED
    BY <1>1, <1>3, <2>1, <2>2, <2>3, PayOnEthereumPays DEF PaysOnEthereum
<1>5. HoldsTheRest(t, after)
  BY <1>1, <1>4, TheRestIsHeld DEF TheRest
<1>6. transfers[t].quantity \in 0 .. transfers[t].quantity /\ Minimum(transfers[t].quantity) <= transfers[t].quantity
  BY ForwardedTypes, MinimumWithin
<1> HIDE DEF after
<1>7. QED
  BY <1>2, <1>4, <1>5, <1>6, EndsOnEthereum

\* The destination wallet is paid on Ethereum, else the owner.
LEMMA PayOrOwnerMoves ==
    ASSUME BridgeInv, NEW t \in Transfers, IsForwarded(t),
           NEW e \in EthereumState, e.payments = <<>>, NEW token \in Tokens, NEW as \in {"quote", "shares"},
           NEW quantity \in 0 .. e.holds[token], quantity <= transfers[t].quantity,
           [e.holds EXCEPT ![token] = @ - quantity] = TheRest(t),
           as = "quote" => Minimum(transfers[t].quantity) <= quantity,
           transfers[t].message.destinationWallet \in Wallets,
           PayOrOwner(t, e, token, as, quantity, ArrivesAs(t))
    PROVE  \E new : Moved(t, new)
<1> DEFINE w == transfers[t].message.destinationWallet
           after == PayOnEthereum(e, token, w, as, quantity)
<1>1. e.holds[token] \in Nat /\ quantity \in 0 .. transfers[t].quantity
  BY ForwardedTypes, EthereumFields
<1>2. PaysOnEthereum(e, after, token, w, as, quantity)
  <2>1. as \in Kinds
    BY DEF Kinds
  <2>2. w \in Wallets \cup {FeeWallet, Owner}
    OBVIOUS
  <2> HIDE DEF w
  <2>3. QED
    BY <2>1, <2>2, PayOnEthereumPays
<1>3. IF after = Reverted THEN ToOwner(t, ArrivesAs(t))
      ELSE OnEthereum(t, after, "Ended", transfers[t].quantity)
  BY DEF PayOrOwner
<1> HIDE DEF after
<1>4. CASE after = Reverted
  <2>1. w \in Blocked
    BY <1>2, <1>4, EthereumFields DEF PaysOnEthereum
  <2>2. MayGoToOwner(t)
    BY <2>1 DEF MayGoToOwner
  <2>3. QED
    BY <1>3, <1>4, <2>2, ToOwnerMoves
<1>5. CASE after # Reverted
  <2>1. HoldsTheRest(t, after)
    BY <1>2, <1>5, TheRestIsHeld DEF PaysOnEthereum
  <2>2. w # Owner /\ w \in Wallets \cup {Owner}
    BY BridgeAssumption
  <2>3. /\ after \in EthereumState /\ after.payments = <<PaymentOf(w, as, quantity)>>
        /\ OnEthereum(t, after, "Ended", transfers[t].quantity)
    BY <1>2, <1>3, <1>5 DEF PaysOnEthereum
  <2>4. as = "quote" => Minimum(transfers[t].quantity) <= quantity
    OBVIOUS
  <2> HIDE DEF w
  <2>5. QED
    BY <1>1, <2>1, <2>2, <2>3, <2>4, EndsOnEthereum
<1>6. QED
  BY <1>4, <1>5

\* Paying or sending what the vault gave leaves the rest.
LEMMA ConvertedHolds ==
    ASSUME BridgeInv, NEW t \in Transfers, IsForwarded(t),
           NEW token \in Tokens, token # ArrivesAs(t), NEW got \in Nat
    PROVE  LET e    == Converted(ArrivesAs(t), transfers[t].quantity, token, got)
               sent == [e EXCEPT !.holds[token] = @ - got]
           IN  /\ e \in EthereumState /\ e.payments = <<>> /\ got \in 0 .. e.holds[token]
               /\ [e.holds EXCEPT ![token] = @ - got] = TheRest(t)
               /\ sent.holds = TheRest(t) /\ sent.payments = <<>>
<1> DEFINE from  == ArrivesAs(t)
           spent == transfers[t].quantity
           f     == [forwarder EXCEPT ![from] = @ - spent, ![token] = @ + got]
           e     == Converted(from, spent, token, got)
           sent  == [e EXCEPT !.holds[token] = @ - got]
<1>1. /\ forwarder \in [Tokens -> Nat] /\ spent \in 0 .. forwarder[from] /\ from \in Tokens
      /\ TheRest(t) = [forwarder EXCEPT ![from] = @ - spent] /\ TheRest(t) \in [Tokens -> Nat]
  BY ForwardedTypes, TheRestIsHeld DEF TheRest, ArrivesAs, Tokens
<1>2. e = [holds |-> f, payments |-> <<>>]
  BY DEF Converted
<1> HIDE DEF from, spent, e
<1>3. forwarder[from] \in Nat /\ forwarder[token] \in Nat /\ spent \in Nat /\ forwarder[from] - spent \in Nat
  BY <1>1
<1>4. f = [x \in Tokens |-> IF x = from THEN forwarder[x] - spent
                            ELSE IF x = token THEN forwarder[x] + got ELSE forwarder[x]]
  BY <1>1 DEF from
<1>5. f \in [Tokens -> Nat] /\ f[token] = forwarder[token] + got
  BY <1>1, <1>3, <1>4 DEF from
<1> HIDE DEF f
<1>6. [f EXCEPT ![token] = @ - got] = TheRest(t)
  <2>1. \A x \in Tokens : [f EXCEPT ![token] = @ - got][x] = TheRest(t)[x]
    <3>1. SUFFICES ASSUME NEW x \in Tokens
                   PROVE  [f EXCEPT ![token] = @ - got][x] = TheRest(t)[x]
      OBVIOUS
    <3>2. forwarder[x] \in Nat
      BY <1>1
    <3>3. token # from
      BY DEF from
    <3>4. QED
      BY <1>1, <1>3, <1>4, <1>5, <3>2, <3>3
  <2>2. [f EXCEPT ![token] = @ - got] \in [Tokens -> Int]
    BY <1>5
  <2>3. TheRest(t) \in [Tokens -> Int]
    BY <1>1
  <2> HIDE DEF f
  <2>4. QED
    BY <2>1, <2>2, <2>3, Zenon
<1>7. sent.holds = [f EXCEPT ![token] = @ - got] /\ sent.payments = <<>>
  BY <1>2, <1>5
<1>8. e \in EthereumState /\ e.payments = <<>> /\ e.holds = f
  BY <1>2, <1>5 DEF EthereumState
<1>9. got \in 0 .. e.holds[token]
  BY <1>3, <1>5, <1>8
<1> HIDE DEF sent
<1>10. QED
  BY <1>6, <1>7, <1>8, <1>9 DEF e, from, spent, sent

\* Losses are of what there is.
LEMMA LossesAreNaturals ==
    ASSUME NEW loss \in Losses
    PROVE  loss \in Nat
BY BridgeAssumption

LEMMA ForwardDepositMoves ==
    ASSUME BridgeInv, NEW t \in Transfers, ForwardDeposit(t)
    PROVE  \E new : Moved(t, new)
<1> DEFINE m == transfers[t].message
           quantity == transfers[t].quantity
           accepted == m.type = "DepositToKatana" /\ m.destinationWallet # None
<1>1. IsForwarded(t) /\ ArrivesAs(t) = "usdc" /\ MayGoToOwner(t)
  BY DEF ForwardDeposit, IsForwarded, ArrivesAs, MayGoToOwner
<1>2. quantity \in Nat /\ m \in Message
  BY <1>1, ForwardedTypes
<1>3. accepted => m.destinationWallet \in Wallets
  BY <1>2 DEF Message
<1>4. CASE ToOwner(t, "usdc")
  BY <1>1, <1>4, ToOwnerMoves
<1>5. ASSUME accepted, NEW loss \in Losses, NEW slippage \in Losses, quantity - loss >= 0,
             LET shares    == quantity - loss
                 received  == shares - slippage
                 converted == Converted("usdc", quantity, "vbUSDC", shares)
             IN  \/ /\ CanSend(received, shares, quantity)
                    /\ OnEthereum(t, [converted EXCEPT !.holds["vbUSDC"] = @ - shares], "ToAdapter", received)
                 \/ PayOrOwner(t, converted, "vbUSDC", "shares", shares, "usdc")
      PROVE  \E new : Moved(t, new)
  <2> DEFINE shares    == quantity - loss
             received  == shares - slippage
             converted == Converted("usdc", quantity, "vbUSDC", shares)
             sent      == [converted EXCEPT !.holds["vbUSDC"] = @ - shares]
  <2>1. loss \in Nat /\ slippage \in Nat /\ shares \in Nat /\ shares <= quantity
    BY <1>2, <1>5, LossesAreNaturals
  <2>2. "vbUSDC" \in Tokens /\ "vbUSDC" # ArrivesAs(t)
    BY <1>1 DEF Tokens
  <2>3. /\ converted \in EthereumState /\ converted.payments = <<>> /\ shares \in 0 .. converted.holds["vbUSDC"]
        /\ [converted.holds EXCEPT !["vbUSDC"] = @ - shares] = TheRest(t)
        /\ sent.holds = TheRest(t) /\ sent.payments = <<>>
    <3> HIDE DEF shares
    <3> QED BY <1>1, <2>1, <2>2, ConvertedHolds
  <2>4. \/ CanSend(received, shares, quantity) /\ OnEthereum(t, sent, "ToAdapter", received)
        \/ PayOrOwner(t, converted, "vbUSDC", "shares", shares, "usdc")
    BY <1>5
  <2> HIDE DEF shares, converted, sent
  <2>5. CASE CanSend(received, shares, quantity) /\ OnEthereum(t, sent, "ToAdapter", received)
    <3>1. received \in Minimum(quantity) .. quantity
      <4>1. Minimum(quantity) \in Int /\ received \in Int /\ received <= quantity
        BY <1>2, <2>1, MinimumWithin
      <4>2. received >= Minimum(quantity)
        BY <2>5 DEF CanSend
      <4>3. QED
        BY <4>1, <4>2
    <3>2. sent.holds \in [Tokens -> Nat] /\ HoldsTheRest(t, sent)
      BY <1>1, <2>3, TheRestIsHeld
    <3> HIDE DEF received
    <3>3. QED
      BY <1>1, <2>3, <2>5, <3>1, <3>2, SendsOn
  <2>6. CASE PayOrOwner(t, converted, "vbUSDC", "shares", shares, "usdc")
    BY <1>1, <1>3, <1>5, <2>1, <2>2, <2>3, <2>6, PayOrOwnerMoves
  <2>7. QED
    BY <2>4, <2>5, <2>6
<1>6. QED
  BY <1>4, <1>5 DEF ForwardDeposit

LEMMA ForwardWithdrawalMoves ==
    ASSUME BridgeInv, NEW t \in Transfers, ForwardWithdrawal(t)
    PROVE  \E new : Moved(t, new)
<1> DEFINE m == transfers[t].message
           quantity == transfers[t].quantity
           accepted == m.type = "WithdrawFromKatana" /\ m.destinationWallet # None
           trusted  == accepted /\ m.isFromAdapter
<1>1. IsForwarded(t) /\ ArrivesAs(t) = "vbUSDC"
  BY DEF ForwardWithdrawal, IsForwarded, ArrivesAs
<1>2. quantity \in Nat /\ m \in Message /\ Minimum(quantity) \in 0 .. quantity
  BY <1>1, ForwardedTypes, MinimumWithin
<1>3. accepted => m.destinationWallet \in Wallets
  BY <1>2 DEF Message
<1>4. ASSUME accepted => trusted /\ ~m.isToEthereum, ToOwner(t, "vbUSDC")
      PROVE  \E new : Moved(t, new)
  <2>1. MayGoToOwner(t)
    BY <1>4 DEF MayGoToOwner
  <2>2. QED
    BY <1>1, <1>4, <2>1, ToOwnerMoves
<1>5. ASSUME accepted, PayOrOwner(t, Ethereum, "vbUSDC", "shares", quantity, "vbUSDC")
      PROVE  \E new : Moved(t, new)
  <2>1. Ethereum \in EthereumState /\ Ethereum.holds = forwarder /\ Ethereum.payments = <<>>
    BY <1>1, ForwardedTypes DEF Ethereum, EthereumState
  <2>2. [Ethereum.holds EXCEPT !["vbUSDC"] = @ - quantity] = TheRest(t) /\ quantity \in 0 .. Ethereum.holds["vbUSDC"]
    BY <1>1, <2>1, TheRestIsHeld DEF TheRest
  <2>3. "vbUSDC" \in Tokens /\ quantity <= quantity
    BY <1>2 DEF Tokens
  <2>4. QED
    BY <1>1, <1>3, <1>5, <2>1, <2>2, <2>3, PayOrOwnerMoves
<1>6. ASSUME trusted, NEW loss \in Losses, NEW slippage \in Losses, quantity - loss >= Minimum(quantity),
             LET redeemed  == quantity - loss
                 received  == redeemed - slippage
                 converted == Converted("vbUSDC", quantity, "usdc", redeemed)
             IN  \/ /\ ~m.isToEthereum
                    /\ CanSend(received, redeemed, quantity)
                    /\ OnEthereum(t, [converted EXCEPT !.holds["usdc"] = @ - redeemed], "ToWallet", received)
                 \/ PayOrOwner(t, converted, "usdc", "quote", redeemed, "vbUSDC")
      PROVE  \E new : Moved(t, new)
  <2> DEFINE redeemed  == quantity - loss
             received  == redeemed - slippage
             converted == Converted("vbUSDC", quantity, "usdc", redeemed)
             sent      == [converted EXCEPT !.holds["usdc"] = @ - redeemed]
  <2>1. loss \in Nat /\ slippage \in Nat /\ redeemed \in Nat /\ redeemed <= quantity /\ Minimum(quantity) <= redeemed
    BY <1>2, <1>6, LossesAreNaturals
  <2>2. "usdc" \in Tokens /\ "usdc" # ArrivesAs(t)
    BY <1>1 DEF Tokens
  <2>3. /\ converted \in EthereumState /\ converted.payments = <<>> /\ redeemed \in 0 .. converted.holds["usdc"]
        /\ [converted.holds EXCEPT !["usdc"] = @ - redeemed] = TheRest(t)
        /\ sent.holds = TheRest(t) /\ sent.payments = <<>>
    <3> HIDE DEF redeemed
    <3> QED BY <1>1, <2>1, <2>2, ConvertedHolds
  <2>4. \/ CanSend(received, redeemed, quantity) /\ OnEthereum(t, sent, "ToWallet", received)
        \/ PayOrOwner(t, converted, "usdc", "quote", redeemed, "vbUSDC")
    BY <1>6
  <2> HIDE DEF redeemed, converted, sent
  <2>5. CASE CanSend(received, redeemed, quantity) /\ OnEthereum(t, sent, "ToWallet", received)
    <3>1. received \in Minimum(quantity) .. quantity
      <4>1. Minimum(quantity) \in Int /\ received \in Int /\ received <= quantity
        BY <1>2, <2>1
      <4>2. received >= Minimum(quantity)
        BY <2>5 DEF CanSend
      <4>3. QED
        BY <4>1, <4>2
    <3>2. sent.holds \in [Tokens -> Nat] /\ HoldsTheRest(t, sent)
      BY <1>1, <2>3, TheRestIsHeld
    <3> HIDE DEF received
    <3>3. QED
      BY <1>1, <1>3, <1>6, <2>3, <2>5, <3>1, <3>2, SendsOn
  <2>6. CASE PayOrOwner(t, converted, "usdc", "quote", redeemed, "vbUSDC")
    BY <1>1, <1>3, <1>6, <2>1, <2>2, <2>3, <2>6, PayOrOwnerMoves
  <2>7. QED
    BY <2>4, <2>5, <2>6
<1>7. QED
  BY <1>4, <1>5, <1>6 DEF ForwardWithdrawal

\* Anyone sends.
LEMMA SendMoves ==
    ASSUME BridgeInv, NEW t \in Transfers, NEW m \in Messages, NEW quantity \in Quantities, NEW stage \in Stages,
           Send(t, m, quantity, stage)
    PROVE  \E new : Moved(t, new)
<1> DEFINE new == [stage |-> stage, quantity |-> quantity, message |-> m, payments |-> <<>>]
           old == transfers[t]
<1>1. old.stage = "Idle" /\ stage \in {"ToForwarder", "ToAdapter", "ToEthereum"}
  BY DEF Send
<1>2. transfers' = [transfers EXCEPT ![t] = new] /\ adapter' = adapter /\ forwarder' = forwarder
      /\ balances' = balances /\ managed' = managed /\ UNCHANGED settingVars
  BY DEF Send, Becomes, exchangeVars
<1>3. quantity \in Nat /\ quantity \in Sizes
  BY BridgeAssumption DEF Sizes
<1>4. new \in Transfer /\ TransferInv(new) /\ Remits(old, new) /\ PaysRightly(old, new)
  BY <1>1, <1>3 DEF Transfer, Stages, TransferInv, Remits, IsMoving, PaysRightly
<1>5. /\ At(old, "Deposit") = 0 /\ At(old, "ForwardDeposit") = 0 /\ At(old, "ForwardWithdrawal") = 0
      /\ At(new, "Deposit") = 0 /\ At(new, "ForwardDeposit") = 0 /\ At(new, "ForwardWithdrawal") = 0
  BY <1>1 DEF At
<1>6. /\ adapter \in Nat /\ forwarder \in [Tokens -> Nat] /\ balances \in [Accounts -> Nat] /\ managed \subseteq Wallets
      /\ forwarder["usdc"] \in Nat /\ forwarder["vbUSDC"] \in Nat
  BY DEF BridgeInv, TypeOK, Tokens, Accounts
<1> HIDE DEF new
<1>7. Moved(t, new)
  BY <1>2, <1>4, <1>5, <1>6 DEF Moved
<1>8. QED
  BY <1>7

\* Tokens arrive.
LEMMA ReceiveMoves ==
    ASSUME BridgeInv, NEW t \in Transfers, Receive(t)
    PROVE  \E new : Moved(t, new)
<1> DEFINE old == transfers[t]
<1>1. old.stage \in {"ToForwarder", "ToAdapter", "ToEthereum", "ToWallet"}
  BY DEF Receive
<1>2. old \in Transfer /\ TransferInv(old) /\ transfers \in [Transfers -> Transfer]
  BY DEF BridgeInv, TypeOK
<1>3. /\ old.quantity \in Nat /\ old.quantity \in Sizes /\ old.message \in Messages /\ IsMoving(old)
      /\ old.stage = "ToWallet" => old.message.destinationWallet \in Wallets
  BY <1>1, <1>2 DEF TransferInv, Transfer, IsMoving
<1>4. balances' = balances /\ managed' = managed /\ UNCHANGED settingVars
  BY DEF Receive, exchangeVars
<1>5. /\ adapter \in Nat /\ forwarder \in [Tokens -> Nat] /\ balances \in [Accounts -> Nat] /\ managed \subseteq Wallets
      /\ forwarder["usdc"] \in Nat /\ forwarder["vbUSDC"] \in Nat
  BY DEF BridgeInv, TypeOK, Tokens, Accounts
<1>6. At(old, "Deposit") = 0 /\ At(old, "ForwardDeposit") = 0 /\ At(old, "ForwardWithdrawal") = 0
  BY <1>1 DEF At
<1>7. old.quantity \in Minimum(old.quantity) .. old.quantity
  BY <1>3, MinimumWithin
<1>8. ASSUME NEW stage \in {"ForwardDeposit", "Deposit", "ForwardWithdrawal"},
             Becomes(t, stage, old.quantity, old.message, <<>>),
             /\ adapter' = adapter + (IF stage = "Deposit" THEN old.quantity ELSE 0)
             /\ forwarder' \in [Tokens -> Nat]
             /\ forwarder'["usdc"] = forwarder["usdc"] + (IF stage = "ForwardDeposit" THEN old.quantity ELSE 0)
             /\ forwarder'["vbUSDC"] = forwarder["vbUSDC"] + (IF stage = "ForwardWithdrawal" THEN old.quantity ELSE 0)
      PROVE  \E new : Moved(t, new)
  <2> DEFINE new == [stage |-> stage, quantity |-> old.quantity, message |-> old.message, payments |-> <<>>]
  <2>1. transfers' = [transfers EXCEPT ![t] = new]
    BY <1>8 DEF Becomes
  <2>2. new \in Transfer /\ TransferInv(new) /\ Remits(old, new) /\ PaysRightly(old, new)
    BY <1>3, <1>7 DEF Transfer, Stages, TransferInv, Remits, IsMoving, PaysRightly
  <2>3. /\ At(new, "Deposit") = (IF stage = "Deposit" THEN old.quantity ELSE 0)
        /\ At(new, "ForwardDeposit") = (IF stage = "ForwardDeposit" THEN old.quantity ELSE 0)
        /\ At(new, "ForwardWithdrawal") = (IF stage = "ForwardWithdrawal" THEN old.quantity ELSE 0)
    BY DEF At
  <2>4. /\ adapter' \in Nat /\ adapter' = adapter - At(old, "Deposit") + At(new, "Deposit")
        /\ forwarder'["usdc"] = forwarder["usdc"] - At(old, "ForwardDeposit") + At(new, "ForwardDeposit")
        /\ forwarder'["vbUSDC"]
             = forwarder["vbUSDC"] - At(old, "ForwardWithdrawal") + At(new, "ForwardWithdrawal")
    BY <1>3, <1>5, <1>6, <1>8, <2>3
  <2> HIDE DEF new
  <2>5. Moved(t, new)
    BY <1>4, <1>5, <1>8, <2>1, <2>2, <2>4 DEF Moved
  <2>6. QED
    BY <2>5
<1>9. CASE old.stage = "ToForwarder"
  <2>1. /\ Becomes(t, "ForwardDeposit", old.quantity, old.message, <<>>) /\ adapter' = adapter
        /\ forwarder' = [forwarder EXCEPT !["usdc"] = @ + old.quantity]
    BY <1>9 DEF Receive
  <2>2. /\ forwarder' \in [Tokens -> Nat] /\ forwarder'["usdc"] = forwarder["usdc"] + old.quantity
        /\ forwarder'["vbUSDC"] = forwarder["vbUSDC"]
    BY <1>3, <1>5, <2>1 DEF Tokens
  <2> HIDE DEF old
  <2>3. QED
    BY <1>5, <1>8, <2>1, <2>2
<1>10. CASE old.stage = "ToAdapter"
  <2>1. /\ Becomes(t, "Deposit", old.quantity, old.message, <<>>) /\ adapter' = adapter + old.quantity
        /\ forwarder' = forwarder
    BY <1>10 DEF Receive
  <2> HIDE DEF old
  <2>2. QED
    BY <1>5, <1>8, <2>1
<1>11. CASE old.stage = "ToEthereum"
  <2>1. /\ Becomes(t, "ForwardWithdrawal", old.quantity, old.message, <<>>) /\ adapter' = adapter
        /\ forwarder' = [forwarder EXCEPT !["vbUSDC"] = @ + old.quantity]
    BY <1>11 DEF Receive
  <2>2. /\ forwarder' \in [Tokens -> Nat] /\ forwarder'["vbUSDC"] = forwarder["vbUSDC"] + old.quantity
        /\ forwarder'["usdc"] = forwarder["usdc"]
    BY <1>3, <1>5, <2>1 DEF Tokens
  <2> HIDE DEF old
  <2>3. QED
    BY <1>5, <1>8, <2>1, <2>2
<1>12. CASE old.stage = "ToWallet"
  <2> DEFINE w       == old.message.destinationWallet
             payment == PaymentOf(w, "quote", old.quantity)
             new     == [stage |-> "Ended", quantity |-> old.quantity, message |-> old.message,
                         payments |-> <<payment>>]
  <2>1. transfers' = [transfers EXCEPT ![t] = new] /\ adapter' = adapter /\ forwarder' = forwarder
    BY <1>12 DEF Receive, Becomes
  <2>2. w \in Wallets /\ w # FeeWallet /\ w # Owner
    BY <1>3, <1>12, BridgeAssumption
  <2>3. payment \in Payment /\ payment.to = w
    BY <1>3, <2>2 DEF PaymentOf, Payment
  <2>4. EndsAs(new, old.quantity, "quote")
    <3>1. new.stage = "Ended" /\ new.payments = <<PaymentOf(w, "quote", old.quantity)>> /\ EndOf("quote") = "quote"
      BY DEF EndOf
    <3> HIDE DEF new, w
    <3>2. QED
      BY <2>2, <3>1, EndsAsFirst
  <2>5. PaysRightly(old, new)
    BY <1>12 DEF PaysRightly
  <2>6. new \in Transfer /\ TransferInv(new)
    <3> HIDE DEF payment
    <3> QED BY <1>3, <2>3 DEF Transfer, Stages, TransferInv
  <2>7. At(new, "Deposit") = 0 /\ At(new, "ForwardDeposit") = 0 /\ At(new, "ForwardWithdrawal") = 0
    BY DEF At
  <2> HIDE DEF new
  <2>8. Remits(old, new)
    BY <1>3, <1>7, <2>4 DEF Remits
  <2>9. Moved(t, new)
    BY <1>4, <1>5, <1>6, <2>1, <2>5, <2>6, <2>7, <2>8 DEF Moved
  <2>10. QED
    BY <2>9
<1>13. QED
  BY <1>1, <1>9, <1>10, <1>11, <1>12

\* The adapter withdraws, or returns what the Exchange gave it.
LEMMA WithdrawMoves ==
    ASSUME BridgeInv, NEW t \in Transfers, NEW m \in Messages, NEW quantity \in Quantities,
           Withdraw(t, m, quantity)
    PROVE  \E new : Moved(t, new)
<1> DEFINE w     == m.destinationWallet
           taken == [held |-> adapter + quantity, balances |-> [balances EXCEPT ![w] = @ - quantity],
                     managed |-> managed, payments |-> <<>>]
           back  == DepositElseTransfer(taken, w, quantity)
           sent  == [taken EXCEPT !.held = @ - quantity]
           old   == transfers[t]
<1>1. old.stage = "Idle" /\ w \in Wallets /\ quantity <= balances[w]
      /\ forwarder' = forwarder /\ UNCHANGED settingVars
  BY DEF Withdraw, CanWithdraw
<1>2. quantity \in Nat /\ quantity \in Sizes /\ Minimum(quantity) \in 0 .. quantity
  BY BridgeAssumption, MinimumWithin DEF Sizes
<1>3. /\ adapter \in Nat /\ forwarder \in [Tokens -> Nat] /\ balances \in [Accounts -> Nat] /\ managed \in SUBSET Wallets
      /\ forwarder["usdc"] \in Nat /\ forwarder["vbUSDC"] \in Nat /\ w \in Accounts
  BY <1>1 DEF BridgeInv, TypeOK, Tokens, Accounts
<1>4. /\ taken.held = adapter + quantity /\ taken.balances = [balances EXCEPT ![w] = @ - quantity]
      /\ taken.managed = managed /\ taken.payments = <<>>
  OBVIOUS
<1>5. [balances EXCEPT ![w] = @ - quantity] \in [Accounts -> Nat] /\ adapter + quantity \in Nat
  <2>1. balances[w] \in Nat /\ balances[w] - quantity \in Nat
    BY <1>1, <1>2, <1>3
  <2> HIDE DEF w
  <2>2. QED
    BY <1>2, <1>3, <2>1
<1>6. taken \in KatanaState
  BY <1>3, <1>5 DEF KatanaState, Accounts
<1>7. \/ \E received \in Minimum(quantity) .. quantity :
            Becomes(t, "ToEthereum", received, m, <<>>) /\ OnKatana(sent)
      \/ OnKatana(back) /\ Becomes(t, "Ended", quantity, m, back.payments)
  BY DEF Withdraw
<1>8. /\ At(old, "Deposit") = 0 /\ At(old, "ForwardDeposit") = 0 /\ At(old, "ForwardWithdrawal") = 0
  BY <1>1 DEF At
<1>9. sent.held = adapter /\ sent.balances = taken.balances /\ sent.managed = managed
  BY <1>2, <1>3, <1>4
<1> HIDE DEF sent, taken, back
<1>10. ASSUME NEW received \in Minimum(quantity) .. quantity,
              Becomes(t, "ToEthereum", received, m, <<>>), OnKatana(sent)
       PROVE  \E new : Moved(t, new)
  <2> DEFINE new == [stage |-> "ToEthereum", quantity |-> received, message |-> m, payments |-> <<>>]
  <2>1. received \in 0 .. quantity /\ received \in Nat
    BY <1>2
  <2>2. received \in Sizes
    BY <1>2, <2>1, SizesClosed
  <2>3. new \in Transfer /\ TransferInv(new) /\ Remits(old, new) /\ PaysRightly(old, new)
    BY <1>1, <2>1, <2>2 DEF Transfer, Stages, TransferInv, Remits, IsMoving, PaysRightly
  <2>4. At(new, "Deposit") = 0 /\ At(new, "ForwardDeposit") = 0 /\ At(new, "ForwardWithdrawal") = 0
    BY DEF At
  <2>5. transfers' = [transfers EXCEPT ![t] = new]
    BY <1>10 DEF Becomes
  <2>6. adapter' = adapter /\ balances' \in [Accounts -> Nat] /\ managed' \subseteq Wallets
    BY <1>3, <1>4, <1>5, <1>9, <1>10 DEF OnKatana
  <2> HIDE DEF new
  <2>7. Moved(t, new)
    BY <1>1, <1>3, <1>8, <2>3, <2>4, <2>5, <2>6 DEF Moved
  <2>8. QED
    BY <2>7
<1>11. ASSUME OnKatana(back), Becomes(t, "Ended", quantity, m, back.payments)
       PROVE  \E new : Moved(t, new)
  <2> DEFINE new == [stage |-> "Ended", quantity |-> quantity, message |-> m, payments |-> back.payments]
  <2>1. back # Reverted /\ adapter' = back.held /\ balances' = back.balances /\ managed' = back.managed
    BY <1>11 DEF OnKatana
  <2>2. PICK as \in {"balance", "quote"} : PaysOnce(taken, back, w, as, quantity)
    BY <1>2, <1>3, <1>6, <2>1, DepositElseTransferPays DEF back
  <2>3. back \in KatanaState /\ back.held = adapter /\ back.payments = Append(<<>>, PaymentOf(w, as, quantity))
    BY <1>2, <1>3, <1>4, <2>2 DEF PaysOnce
  <2>4. back.payments = <<PaymentOf(w, as, quantity)>>
    BY <2>3
  <2>5. /\ back.payments \in Seq(Payment) /\ back.balances \in [Accounts -> Nat] /\ back.managed \in SUBSET Wallets
    BY <2>3, KatanaFields
  <2>6. w # FeeWallet /\ w # Owner /\ EndOf(as) = "quote"
    BY <1>1, BridgeAssumption DEF EndOf
  <2>7. EndsAs(new, quantity, "quote")
    <3>1. new.stage = "Ended" /\ new.payments = <<PaymentOf(w, as, quantity)>>
      BY <2>4
    <3> HIDE DEF new, w
    <3>2. EndsAs(new, quantity, EndOf(as))
      BY <2>6, <3>1, EndsAsFirst
    <3>3. QED
      BY <2>6, <3>2
  <2>8. PaysRightly(old, new)
    BY <1>1 DEF PaysRightly
  <2>9. new \in Transfer /\ TransferInv(new)
    BY <1>2, <2>5 DEF Transfer, Stages, TransferInv
  <2>10. At(new, "Deposit") = 0 /\ At(new, "ForwardDeposit") = 0 /\ At(new, "ForwardWithdrawal") = 0
    BY DEF At
  <2>11. transfers' = [transfers EXCEPT ![t] = new]
    BY <1>11 DEF Becomes
  <2> HIDE DEF new
  <2>12. Remits(old, new)
    BY <1>1, <1>2, <2>7 DEF Remits
  <2>13. Moved(t, new)
    BY <1>1, <1>3, <1>8, <2>1, <2>3, <2>5, <2>8, <2>9, <2>10, <2>11, <2>12 DEF Moved
  <2>14. QED
    BY <2>13
<1>12. QED
  BY <1>7, <1>10, <1>11

-----------------------------------------------------------------------------
(* Every step. *)

\* A step that moves no transfer changes only the settings, and keeps them sound.
IsSetting == UNCHANGED <<transfers, adapter, forwarder, balances, managed>>

LEMMA SettingKeeps ==
    ASSUME BridgeInv, IsSetting, [Next]_bridgeVars,
           \/ \E switch \in DOMAIN switches : SetEnabled(switch)
           \/ \E p \in ComposeParameters : SetComposeParameters(p)
           \/ \E w \in Wallets : ExitOrReturn(w)
           \/ UNCHANGED bridgeVars
    PROVE  BridgeInv'
<1>1. /\ transfers' = transfers /\ adapter' = adapter /\ forwarder' = forwarder
      /\ balances' = balances /\ managed' = managed
  BY DEF IsSetting
<1>2. (\A t \in Transfers : TransferInv(transfers[t]))'
  BY <1>1 DEF BridgeInv
<1>3. HoldsWhatIsUnderWay'
  BY <1>1 DEF BridgeInv, HoldsWhatIsUnderWay, UnderWay
<1>4. /\ exited \subseteq Wallets /\ switches \in [exchangeDeposit : BOOLEAN, deposit : BOOLEAN, withdraw : BOOLEAN]
      /\ parameters \in ComposeParameters /\ changes \in 0 .. MaxChanges /\ AreComposeParameters(parameters)
      /\ MaxChanges \in Nat
  BY BridgeAssumption DEF BridgeInv, TypeOK
<1>5. /\ exited' \subseteq Wallets /\ switches' \in [exchangeDeposit : BOOLEAN, deposit : BOOLEAN, withdraw : BOOLEAN]
      /\ parameters' \in ComposeParameters /\ changes' \in 0 .. MaxChanges /\ AreComposeParameters(parameters')
  <2>1. ASSUME NEW switch \in DOMAIN switches, SetEnabled(switch)
        PROVE  <1>5!:
    <3> DEFINE Switches == [exchangeDeposit : BOOLEAN, deposit : BOOLEAN, withdraw : BOOLEAN]
    <3>1. switches' = [switches EXCEPT ![switch] = ~@] /\ UNCHANGED <<exited, parameters>>
          /\ changes' \in 0 .. MaxChanges
      BY <1>4, <2>1 DEF SetEnabled, Change
    <3>2. switches \in Switches /\ switch \in {"exchangeDeposit", "deposit", "withdraw"}
      BY <1>4, <2>1
    <3>3. [switches EXCEPT !["exchangeDeposit"] = ~@] \in Switches
      BY <3>2
    <3>4. [switches EXCEPT !["deposit"] = ~@] \in Switches
      BY <3>2
    <3>5. [switches EXCEPT !["withdraw"] = ~@] \in Switches
      BY <3>2
    <3>6. switches' \in Switches
      <4> HIDE DEF Switches
      <4> QED BY <3>1, <3>2, <3>3, <3>4, <3>5
    <3>7. QED
      BY <1>4, <3>1, <3>6
  <2>2. ASSUME NEW p \in ComposeParameters, SetComposeParameters(p)
        PROVE  <1>5!:
    BY <1>4, <2>2 DEF SetComposeParameters, Change
  <2>3. ASSUME NEW w \in Wallets, ExitOrReturn(w)
        PROVE  <1>5!:
    BY <1>4, <2>3 DEF ExitOrReturn, Change
  <2>4. CASE UNCHANGED bridgeVars
    BY <1>4, <2>4 DEF bridgeVars, settingVars
  <2>5. QED
    BY <2>1, <2>2, <2>3, <2>4
<1>6. TypeOK'
  BY <1>1, <1>5 DEF BridgeInv, TypeOK
<1>7. QED
  BY <1>2, <1>3, <1>5, <1>6 DEF BridgeInv, AreComposeParameters

\* Every step moves one transfer, or none.
LEMMA StepMoves ==
    ASSUME BridgeInv, [Next]_bridgeVars
    PROVE  /\ (\E t \in Transfers : \E new : Moved(t, new)) \/ IsSetting
           /\ BridgeInv'
<1>1. CASE \E t \in Transfers, m \in Messages, quantity \in Quantities, stage \in Stages : Send(t, m, quantity, stage)
  BY <1>1, SendMoves, MovedKeeps
<1>2. CASE \E t \in Transfers, m \in Messages, quantity \in Quantities : Withdraw(t, m, quantity)
  BY <1>2, WithdrawMoves, MovedKeeps
<1>3. CASE \E t \in Transfers : Receive(t)
  BY <1>3, ReceiveMoves, MovedKeeps
<1>4. CASE \E t \in Transfers : ForwardDeposit(t)
  BY <1>4, ForwardDepositMoves, MovedKeeps
<1>5. CASE \E t \in Transfers : Deposit(t)
  BY <1>5, DepositMoves, MovedKeeps
<1>6. CASE \E t \in Transfers : ForwardWithdrawal(t)
  BY <1>6, ForwardWithdrawalMoves, MovedKeeps
<1>7. CASE \/ \E switch \in DOMAIN switches : SetEnabled(switch)
           \/ \E p \in ComposeParameters : SetComposeParameters(p)
           \/ \E w \in Wallets : ExitOrReturn(w)
           \/ UNCHANGED bridgeVars
  <2>1. IsSetting
    BY <1>7 DEF SetEnabled, SetComposeParameters, ExitOrReturn, bridgeVars, exchangeVars, IsSetting
  <2>2. QED
    BY <1>7, <2>1, SettingKeeps
<1>8. QED
  BY <1>1, <1>2, <1>3, <1>4, <1>5, <1>6, <1>7 DEF Next

\* Initially nothing is under way.
LEMMA InitIsSound == Init => BridgeInv
<1> SUFFICES ASSUME Init PROVE BridgeInv
  OBVIOUS
<1>1. \A t \in Transfers : transfers[t] = Idle
  BY DEF Init
<1>2. Idle \in Transfer
  BY DEF Idle, Transfer, Stages
<1>3. TypeOK
  <2>1. transfers \in [Transfers -> Transfer]
    BY <1>2 DEF Init
  <2>2. adapter \in Nat /\ forwarder \in [Tokens -> Nat]
    BY DEF Init
  <2>3. balances \in [Wallets \cup {FeeWallet} -> Nat]
    BY BridgeAssumption DEF Init
  <2>4. /\ managed \subseteq Wallets /\ exited \subseteq Wallets
        /\ switches \in [exchangeDeposit : BOOLEAN, deposit : BOOLEAN, withdraw : BOOLEAN]
        /\ parameters \in ComposeParameters /\ changes \in 0 .. MaxChanges
    BY BridgeAssumption DEF Init
  <2>5. QED
    BY <2>1, <2>2, <2>3, <2>4 DEF TypeOK
<1>4. \A t \in Transfers : TransferInv(transfers[t])
  BY <1>1 DEF TransferInv, Idle
<1>5. HoldsWhatIsUnderWay
  <2>1. ASSUME NEW stage \in {"Deposit", "ForwardDeposit", "ForwardWithdrawal"}
        PROVE  UnderWay(stage) = 0
    <3> DEFINE f == [t \in Transfers |-> transfers[t].quantity]
    <3>1. {t \in Transfers : transfers[t].stage = stage} = {}
      BY <1>1, <2>1 DEF Idle
    <3>2. UnderWay(stage) = SumFunctionOnSet(f, {})
      BY <3>1 DEF UnderWay
    <3> HIDE DEF f
    <3>3. QED
      BY <3>2, SumOnEmpty
  <2>2. QED
    BY <2>1 DEF HoldsWhatIsUnderWay, Init, Tokens
<1>6. AreComposeParameters(parameters)
  BY DEF Init
<1>7. QED
  BY <1>3, <1>4, <1>5, <1>6 DEF BridgeInv

\* The invariant holds throughout.
THEOREM BridgeIsSound == Spec => []BridgeInv
<1>1. BridgeInv /\ [Next]_bridgeVars => BridgeInv'
  BY StepMoves
<1>2. QED
  BY <1>1, InitIsSound, PTL DEF Spec

-----------------------------------------------------------------------------
(* What follows of every behaviour. *)

\* What has arrived and waits is held, in the token it arrived in.
THEOREM ContractsHoldWhatIsUnderWay == Spec => []HoldsWhatIsUnderWay
<1>1. BridgeInv => HoldsWhatIsUnderWay
  BY DEF BridgeInv
<1>2. QED
  BY <1>1, BridgeIsSound, PTL

\* Only a transfer that names no payable wallet, or asks no contract to add an
\* account, is the owner's.
THEOREM WalletsKeepWhatCanBeDelivered == Spec => OnlyUndeliverableGoesToOwner
<1> DEFINE Rightly(t) ==
      LET m == transfers[t].message
      IN  PaysOwner(t)' =>
              /\ transfers[t].stage = "Deposit" =>
                     \/ m.payload.type = "Undecodable" \/ AsksNoContract(m.payload)
                     \/ m.payload.wallet \in Blocked \cup {None}
              /\ transfers[t].stage = "ForwardWithdrawal" /\ m.isToEthereum =>
                     \/ m.type # "WithdrawFromKatana"
                     \/ m.destinationWallet \in Blocked \cup {None}
<1>1. ASSUME BridgeInv, [Next]_bridgeVars, NEW t \in Transfers
      PROVE  Rightly(t)
  <2>1. transfers \in [Transfers -> Transfer] /\ TransferInv(transfers[t])
    BY <1>1 DEF BridgeInv, TypeOK
  <2>2. CASE transfers'[t] = transfers[t]
    <3>1. transfers[t].stage # "Ended" => ~ PaysOwner(t)'
      BY <2>1, <2>2 DEF TransferInv, PaysOwner
    <3>2. QED
      BY <3>1
  <2>3. CASE \E new : Moved(t, new)
    <3>1. PICK new : Moved(t, new)
      BY <2>3
    <3>2. transfers'[t] = new /\ PaysRightly(transfers[t], new)
      BY <2>1, <3>1 DEF Moved
    <3>3. QED
      BY <3>2 DEF PaysRightly, PaysOwner
  <2>4. transfers'[t] = transfers[t] \/ \E new : Moved(t, new)
    <3>1. CASE IsSetting
      BY <3>1 DEF IsSetting
    <3>2. CASE \E u \in Transfers : \E new : Moved(u, new)
      <4>1. PICK u \in Transfers : \E new : Moved(u, new)
        BY <3>2
      <4>2. PICK new : Moved(u, new)
        BY <4>1
      <4>3. u # t => transfers'[t] = transfers[t]
        BY <2>1, <4>2 DEF Moved
      <4>4. QED
        BY <4>2, <4>3
    <3>3. QED
      BY <1>1, <3>1, <3>2, StepMoves
  <2>5. QED
    BY <2>2, <2>3, <2>4
<1>2. BridgeInv /\ [Next]_bridgeVars => [\A t \in Transfers : Rightly(t)]_bridgeVars
  BY <1>1
<1> HIDE DEF Rightly
<1>3. Spec => [][\A t \in Transfers : Rightly(t)]_bridgeVars
  BY <1>2, BridgeIsSound, PTL DEF Spec
<1>4. QED
  BY <1>3 DEF Rightly, OnlyUndeliverableGoesToOwner

-----------------------------------------------------------------------------
(* The bridges implement the promise. *)

\* What the promise sees of a transfer before its end.
LEMMA RemittanceBefore ==
    ASSUME NEW r \in Transfer
    PROVE  /\ r.stage = "Idle" => RemittanceOf(r) = None
           /\ IsMoving(r) => /\ RemittanceOf(r) = [quantity |-> r.quantity, end |-> "none"]
                             /\ RemittanceOf(r) # None
           /\ \A quantity, end : EndsAs(r, quantity, end) => RemittanceOf(r) = [quantity |-> quantity, end |-> end]
<1>1. r.stage = "Idle" => RemittanceOf(r) = None
  BY DEF RemittanceOf
<1>2. IsMoving(r) => RemittanceOf(r) = [quantity |-> r.quantity, end |-> "none"]
  BY DEF RemittanceOf, IsMoving
<1>3. [quantity |-> r.quantity, end |-> "none"] # None
  BY BridgeAssumption DEF Transfer
<1>4. QED
  BY <1>1, <1>2, <1>3 DEF EndsAs

\* A step that moves a transfer is one of the promise's.
LEMMA MovedIsPromised ==
    ASSUME BridgeInv, NEW t \in Transfers, NEW new, Moved(t, new)
    PROVE  Promise!Next
<1> DEFINE old        == transfers[t]
           remittance == [u \in Transfers |-> RemittanceOf(transfers[u])]
           after      == [u \in Transfers |-> RemittanceOf(transfers'[u])]
<1>1. /\ transfers \in [Transfers -> Transfer] /\ transfers' = [transfers EXCEPT ![t] = new]
      /\ old \in Transfer /\ TransferInv(old) /\ new \in Transfer /\ TransferInv(new) /\ Remits(old, new)
  BY DEF Moved, BridgeInv, TypeOK
<1>2. after = [remittance EXCEPT ![t] = RemittanceOf(new)] /\ remittance[t] = RemittanceOf(old)
  BY <1>1
<1>3. after = remittance'
  OBVIOUS
<1>4. /\ old.stage = "Idle" => remittance[t] = None
      /\ IsMoving(old) => remittance[t] = [quantity |-> old.quantity, end |-> "none"] /\ remittance[t] # None
  BY <1>1, <1>2, RemittanceBefore
<1>5. /\ IsMoving(new) => after = [remittance EXCEPT ![t] = [quantity |-> new.quantity, end |-> "none"]]
      /\ \A quantity, end : EndsAs(new, quantity, end)
            => after = [remittance EXCEPT ![t] = [quantity |-> quantity, end |-> end]]
  <2>1. /\ IsMoving(new) => RemittanceOf(new) = [quantity |-> new.quantity, end |-> "none"]
        /\ \A quantity, end : EndsAs(new, quantity, end) => RemittanceOf(new) = [quantity |-> quantity, end |-> end]
    BY <1>1, RemittanceBefore
  <2> HIDE DEF after, remittance, old
  <2>2. QED
    BY <1>2, <2>1
<1>6. old.quantity \in Nat /\ (IsMoving(old) => old.quantity \in Sizes) /\ (IsMoving(new) => new.quantity \in Sizes)
  BY <1>1 DEF TransferInv, Transfer, IsMoving
<1>7. Sizes \subseteq Nat
  BY BridgeAssumption DEF Sizes
<1>8. ASSUME NEW quantity \in Sizes,
             \/ Promise!Begin(t, quantity) \/ Promise!Continue(t, quantity) \/ Promise!End(t, quantity)
             \/ Promise!EndInAccount(t, quantity) \/ Promise!EndAsShares(t, quantity)
             \/ Promise!Return(t, quantity)
      PROVE  Promise!Next
  BY <1>8 DEF Promise!Next, Sizes
<1> HIDE DEF old, remittance, after
<1>9. CASE old.stage = "Idle" /\ IsMoving(new)
  <2>1. Promise!Begin(t, new.quantity)
    BY <1>3, <1>4, <1>5, <1>9 DEF Promise!Begin, remittance
  <2>2. QED
    BY <1>6, <1>8, <1>9, <2>1
<1>10. ASSUME old.stage = "Idle", NEW quantity \in Sizes, EndsAs(new, quantity, "quote")
       PROVE  Promise!Next
  <2>1. Promise!Return(t, quantity)
    BY <1>3, <1>4, <1>5, <1>10 DEF Promise!Return, remittance
  <2>2. QED
    BY <1>8, <2>1
<1>11. IsMoving(old) => Promise!IsMoving(t) /\ remittance[t].quantity = old.quantity
  BY <1>4 DEF Promise!IsMoving, remittance
<1>12. ASSUME IsMoving(old), IsMoving(new), new.quantity \in Minimum(old.quantity) .. old.quantity
       PROVE  Promise!Next
  <2>1. [remittance EXCEPT ![t] = [quantity |-> new.quantity, end |-> "none"]]
          = [remittance EXCEPT ![t].quantity = new.quantity]
    <3> DEFINE before == remittance[t]
    <3>1. before = [quantity |-> old.quantity, end |-> "none"]
      BY <1>4, <1>12
    <3> HIDE DEF before
    <3>2. [before EXCEPT !.quantity = new.quantity] = [quantity |-> new.quantity, end |-> "none"]
      BY <3>1
    <3>3. [remittance EXCEPT ![t].quantity = new.quantity]
            = [remittance EXCEPT ![t] = [before EXCEPT !.quantity = new.quantity]]
      BY DEF before
    <3>4. QED
      BY <3>2, <3>3
  <2>2. Promise!Continue(t, new.quantity)
    BY <1>3, <1>5, <1>11, <1>12, <2>1 DEF Promise!Continue, remittance
  <2>3. QED
    BY <1>6, <1>8, <1>12, <2>2
<1>13. ASSUME IsMoving(old), NEW quantity \in Minimum(old.quantity) .. old.quantity, EndsAs(new, quantity, "quote")
       PROVE  Promise!Next
  <2>1. Promise!End(t, quantity)
    BY <1>3, <1>5, <1>11, <1>13 DEF Promise!End, remittance
  <2>2. quantity \in 0 .. old.quantity
    BY <1>6, <1>13, MinimumWithin
  <2>3. QED
    BY <1>6, <1>8, <1>13, <2>1, <2>2, SizesClosed
<1>14. ASSUME IsMoving(old), NEW fee \in ComposeFees, fee <= old.quantity, EndsAs(new, old.quantity - fee, "account")
       PROVE  Promise!Next
  <2>1. Promise!EndInAccount(t, old.quantity - fee)
    BY <1>3, <1>5, <1>11, <1>14 DEF Promise!EndInAccount, remittance
  <2>2. old.quantity - fee \in 0 .. old.quantity
    <3>1. fee \in Nat
      BY BridgeAssumption DEF ComposeFees, Parameters
    <3>2. QED
      BY <1>6, <1>14, <3>1
  <2>3. QED
    BY <1>6, <1>8, <1>14, <2>1, <2>2, SizesClosed
<1>15. ASSUME IsMoving(old), NEW quantity \in 0 .. old.quantity, EndsAs(new, quantity, "shares")
       PROVE  Promise!Next
  <2>1. Promise!EndAsShares(t, quantity)
    <3>1. Promise!IsMoving(t) /\ quantity <= remittance[t].quantity
      BY <1>6, <1>11, <1>15
    <3>2. remittance' = [remittance EXCEPT ![t] = [quantity |-> quantity, end |-> "shares"]]
      BY <1>3, <1>5, <1>15
    <3>3. QED
      BY <3>1, <3>2 DEF Promise!EndAsShares, remittance
  <2>2. QED
    BY <1>6, <1>8, <1>15, <2>1, SizesClosed
<1>16. QED
  BY <1>1, <1>9, <1>10, <1>12, <1>13, <1>14, <1>15 DEF Remits

\* A transfer ends once, in one place, with what no bridge may keep.
THEOREM BridgesImplementTheirPromise == Spec => TransfersArriveOnce
<1> DEFINE remittance == [t \in Transfers |-> RemittanceOf(transfers[t])]
<1>1. Init => Promise!Init
  BY DEF Init, Idle, RemittanceOf, Promise!Init
<1>2. BridgeInv /\ [Next]_bridgeVars => [Promise!Next]_remittance
  <2>1. SUFFICES ASSUME BridgeInv, [Next]_bridgeVars
                 PROVE  [Promise!Next]_remittance
    OBVIOUS
  <2>2. CASE IsSetting
    BY <2>2 DEF IsSetting
  <2>3. CASE \E t \in Transfers : \E new : Moved(t, new)
    BY <2>1, <2>3, MovedIsPromised
  <2>4. QED
    BY <2>1, <2>2, <2>3, StepMoves
<1>3. QED
  BY <1>1, <1>2, BridgeIsSound, PTL DEF Spec, TransfersArriveOnce, Promise!Spec

===============================================================================
