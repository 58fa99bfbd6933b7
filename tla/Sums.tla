-------------------------------- MODULE Sums --------------------------------
(* Totals over a finite set of accounts, as a recursive function. *)
EXTENDS Integers

SumOver(f, S) ==
    LET sum[T \in SUBSET S] ==
            IF T = {} THEN 0
            ELSE LET x == CHOOSE x \in T : TRUE
                 IN f[x] + sum[T \ {x}]
    IN sum[S]
=============================================================================
