------------------------------- MODULE Remittance -------------------------------
(***************************************************************************)
(* What a chain of bridges and of contracts between them promises of a     *)
(* transfer: it moves, and ends once, with everything that is left of it   *)
(* in one place.  On the way a bridge may keep a part, never more than is  *)
(* tolerated, and a managed account a fee.                                 *)
(***************************************************************************)
EXTENDS Integers

CONSTANTS
    Transfers,
    Quantities,
    Least(_),       \* what has to be left of a quantity after a bridge
    Fees,           \* that a managed account may cost
    Nothing

VARIABLE remittance   \* of each transfer, or Nothing

Remittance == [quantity : Quantities, end : {"none", "quote", "account", "shares"}]

IsMoving(t) == remittance[t] # Nothing /\ remittance[t].end = "none"

Begin(t, quantity) ==
    /\ remittance[t] = Nothing
    /\ remittance' = [remittance EXCEPT ![t] = [quantity |-> quantity, end |-> "none"]]

\* Over a bridge.
Continue(t, quantity) ==
    /\ IsMoving(t)
    /\ quantity \in Least(remittance[t].quantity) .. remittance[t].quantity
    /\ remittance' = [remittance EXCEPT ![t].quantity = quantity]

\* In the quote token or as a deposit.
End(t, quantity) ==
    /\ IsMoving(t)
    /\ quantity \in Least(remittance[t].quantity) .. remittance[t].quantity
    /\ remittance' = [remittance EXCEPT ![t] = [quantity |-> quantity, end |-> "quote"]]

EndInAccount(t, quantity) ==
    /\ IsMoving(t)
    /\ \E fee \in Fees : quantity = remittance[t].quantity - fee
    /\ remittance' = [remittance EXCEPT ![t] = [quantity |-> quantity, end |-> "account"]]

\* As shares of the vault, which are worth what the vault says.
EndAsShares(t, quantity) ==
    /\ IsMoving(t)
    /\ quantity <= remittance[t].quantity
    /\ remittance' = [remittance EXCEPT ![t] = [quantity |-> quantity, end |-> "shares"]]

\* Turned back before it moved.
Return(t, quantity) ==
    /\ remittance[t] = Nothing
    /\ remittance' = [remittance EXCEPT ![t] = [quantity |-> quantity, end |-> "quote"]]

Init == remittance = [t \in Transfers |-> Nothing]

Next ==
    \E t \in Transfers, quantity \in Quantities :
        \/ Begin(t, quantity)
        \/ Continue(t, quantity)
        \/ End(t, quantity)
        \/ EndInAccount(t, quantity)
        \/ EndAsShares(t, quantity)
        \/ Return(t, quantity)

Spec == Init /\ [][Next]_remittance

===============================================================================
