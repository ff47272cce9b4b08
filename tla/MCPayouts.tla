----------------------------- MODULE MCPayouts ------------------------------
(* The model of Payouts that TLC checks.                                    *)
EXTENDS Payouts, TLC
CONSTANTS o1, o2, l1, i1

MCPoolOf == i1 :> l1
MCQty    == i1 :> 3
Symmetric == Permutations(Requests) \union Permutations(People) \union Permutations(Humans)
=============================================================================
