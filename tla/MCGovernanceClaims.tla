--------------------------- MODULE MCGovernanceClaims ---------------------------
(***************************************************************************)
(* What the documentation says of the providers that Governance lists, and *)
(* does not hold of upgrades of the code.                                  *)
(***************************************************************************)
EXTENDS MCGovernance, SequencesExt

\* Action property.  "Niseko supports the addition but not removal of new managed
\* account provider contracts" (README.md:239).
ProvidersAreNeverRemoved ==
    [][\A x \in Exchanges :
          ToSet(settings[x]["managedAccountProviders"])
             \subseteq ToSet(settings'[x]["managedAccountProviders"])]_vars

===============================================================================
