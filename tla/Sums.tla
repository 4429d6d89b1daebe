-------------------------------- MODULE Sums --------------------------------
(* The sum of the values of a function on a finite set.                    *)
EXTENDS Integers

Total(c) ==
  LET f[S \in SUBSET DOMAIN c] ==
        IF S = {} THEN 0
        ELSE LET e == CHOOSE x \in S : TRUE
             IN c[e] + f[S \ {e}]
  IN f[DOMAIN c]
=============================================================================
