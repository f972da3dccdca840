----------------------------- MODULE Authorizations -----------------------------
(***************************************************************************)
(* What the exchange promises to those who sign requests, whoever carries  *)
(* the requests to it, how often and in which order: of every request at   *)
(* most its limit is ever settled, and nothing before it is authorized.    *)
(***************************************************************************)
EXTENDS Integers

CONSTANTS Requests, Limit

VARIABLES authorized, settled

Init ==
    /\ authorized = {}
    /\ settled = [r \in Requests |-> 0]

\* A signature may authorize several requests at once: that of a delegated
\* key's authorization does.
Authorize ==
    /\ authorized \subseteq authorized' /\ authorized' \subseteq Requests
    /\ UNCHANGED settled

\* A trade settles two requests at once.
Settle ==
    /\ settled' = [r \in Requests |-> settled'[r]]
    /\ \A r \in Requests :
          \/ settled'[r] = settled[r]
          \/ r \in authorized /\ settled[r] <= settled'[r] /\ settled'[r] <= Limit[r]
    /\ UNCHANGED authorized

Next == Authorize \/ Settle

Spec == Init /\ [][Next]_<<authorized, settled>>

===============================================================================
