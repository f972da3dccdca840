--------------------------------- MODULE Sums ---------------------------------
(***************************************************************************)
(* The loops `for (i = 0; i < a.length; i++) total += ...` of the margin   *)
(* and funding libraries, as the sum of f[1] .. f[n].  Written as a        *)
(* recursive function so that SumProofs can establish its laws.            *)
(***************************************************************************)
EXTENDS Integers

SumTo(f, n) ==
    LET partial[i \in 0..n] == IF i = 0 THEN 0 ELSE partial[i - 1] + f[i]
    IN  partial[n]

===============================================================================
