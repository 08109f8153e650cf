-------------------------------- MODULE Sums --------------------------------
(* Totals, as the loops of the program form them: one addition per turn.    *)
EXTENDS Integers

(* f[1] + ... + f[n]                                                        *)
SumUpTo(f, n) ==
  LET sum[i \in 0 .. n] == IF i = 0 THEN 0 ELSE sum[i - 1] + f[i]
  IN sum[n]
=============================================================================
