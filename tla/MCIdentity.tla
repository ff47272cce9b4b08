----------------------------- MODULE MCIdentity -----------------------------
(* The model of Identity that TLC checks: two account ids, two characters   *)
(* one of which is a bootstrap character.  What may happen is bounded in two *)
(* ways, and `setting` says which of them a behaviour obeys: "sale" lets one *)
(* character be sold under one callback and one finding, "merge" has two    *)
(* callbacks in flight between accounts that may hold something curated.    *)
EXTENDS Identity, TLC
CONSTANTS a1, a2, c1, c2

VARIABLE setting

MCAccounts == {a1, a2}
MCChars == {c1, c2}
MCBootstrap == {c1}

Sale  == INSTANCE Identity WITH AdminTiers <- {"member"}
Merge == INSTANCE Identity WITH MaxTransfers <- 0, MaxCallbacks <- 2, MaxFindings <- 0,
                                Curable <- MCAccounts, AdminTiers <- {"associate"}

MCInit == Init /\ setting \in {"sale", "merge"}
MCNext == /\ UNCHANGED setting
          /\ \/ setting = "sale" /\ Sale!Next
             \/ setting = "merge" /\ Merge!Next
allvars == <<vars, setting>>
MCSpec == MCInit /\ [][MCNext]_allvars

(* No action reads `enqueued`: two states that differ only in it have the   *)
(* same future.                                                             *)
WithoutOutput == <<acct, charAccount, ownerHash, holder, main, tier, tierLocked, setting,
                   isAdmin, granted, curated, sessions, entering, callbacks, findings>>

AccountSymmetry == Permutations(MCAccounts)
=============================================================================
