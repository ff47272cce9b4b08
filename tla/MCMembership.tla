---------------------------- MODULE MCMembership ----------------------------
(* The model of Membership that TLC checks.                                *)
EXTENDS Membership, TLC
CONSTANTS a1, a2, c1, c2, r1, r2

Symmetric == Permutations(Runs) \union Permutations(Chars) \union Permutations(Accounts)
=============================================================================
