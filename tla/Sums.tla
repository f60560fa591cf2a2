-------------------------------- MODULE Sums --------------------------------
(***************************************************************************)
(* Sums over numbers from 1 on, by a recursive function.                   *)
(***************************************************************************)
EXTENDS Integers

\* The sums f[1] + ... + f[i], for i up to n.
SumsTo(f, n) ==
    LET sum[i \in 0..n] == IF i = 0 THEN 0 ELSE sum[i - 1] + f[i]
    IN  sum
SumTo(f, n) == SumsTo(f, n)[n]

\* The values of w at the members of S, a set of numbers up to n, added up.
SumOf(S, w, n) == SumTo([i \in 1..n |-> IF i \in S THEN w[i] ELSE 0], n)
=============================================================================
