------------------------------ MODULE MCDeployment ------------------------------
(***************************************************************************)
(* Two calls at a time deploy Exchange_v1 and one of its libraries, again  *)
(* or recompiled, on two chains; on one of them an earlier process has     *)
(* deployed all libraries.  Replicas lag for as long as the retries last,  *)
(* or longer.                                                              *)
(***************************************************************************)
EXTENDS Deployment, FiniteSetsExt

MCNetworkOf == [main |-> "mainnet", test |-> "testnet"]

Deployed(name) ==
    [name |-> name, build |-> 0, link |-> NoLibraries, status |-> "mined", lag |-> 0]

LibrariesDeployed ==
    [mainnet |-> FoldSet(LAMBDA name, sent : Append(sent, Deployed(name)), <<>>, LibraryName),
     testnet |-> <<>>]

===============================================================================
