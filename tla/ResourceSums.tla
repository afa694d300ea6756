--------------------------- MODULE ResourceSums ---------------------------
(***************************************************************************)
(* The total of a quantity over a finite set of holders, as the ledgers    *)
(* of the platform keep it: what the pods of a node reserve, what the      *)
(* sessions of a user consume.  The total is a recursive FUNCTION, so that *)
(* the lemmas about it can be proved.                                      *)
(***************************************************************************)
EXTENDS Integers, FiniteSets

(***************************************************************************)
(* SumFcn(D)[S] is the sum of D[x] over the members x of S, for every      *)
(* subset S of the domain of D.                                            *)
(***************************************************************************)
SumFcn(D) ==
  LET sum[S \in SUBSET (DOMAIN D)] ==
        IF S = {} THEN 0
                  ELSE LET x == CHOOSE x \in S : TRUE
                       IN  D[x] + sum[S \ {x}]
  IN  sum

SumOver(D, S) == SumFcn(D)[S]
===========================================================================
