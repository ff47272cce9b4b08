---------------------------- MODULE AccountTiers ----------------------------
(***************************************************************************)
(* The tier state machine the service promises: which tier an account may  *)
(* hold next, given who acts and what happens to its main character.  It   *)
(* knows neither sessions nor admins nor owner hashes.  Identity is shown  *)
(* to implement it, and Membership takes it as the world in which a        *)
(* membership run reads and writes.                                        *)
(***************************************************************************)
CONSTANTS Accounts, Chars, NoAccount, NoChar,
          AdminTiers  \* bound: the tiers admins hand out

VARIABLES acct, charAccount, main, tier, tierLocked

tierVars == <<acct, charAccount, main, tier, tierLocked>>

Tiers == {"pending", "member", "associate", "alumni"}
Live == {a \in Accounts : acct[a] = "live"}
CharsOf(a) == {c \in Chars : charAccount[c] = a}

Init ==
  /\ acct = [a \in Accounts |-> "free"]
  /\ charAccount = [c \in Chars |-> NoAccount]
  /\ main = [a \in Accounts |-> NoChar]
  /\ tier = [a \in Accounts |-> "pending"]
  /\ tierLocked = [a \in Accounts |-> FALSE]

(* The account that holds c loses it, and with its main an earned tier. *)
LosesMain(a, c) == charAccount[c] = a /\ main[a] = c
MainWithout(c) == [a \in Accounts |-> IF LosesMain(a, c) THEN NoChar ELSE main[a]]
TierWithout(c) ==
  [a \in Accounts |->
     IF LosesMain(a, c) /\ ~tierLocked[a] /\ tier[a] \in {"member", "associate"}
     THEN "alumni" ELSE tier[a]]

(* A first login, which may take c away from a former owner's account. *)
Open(a, c) ==
  /\ acct[a] = "free"
  /\ acct' = [acct EXCEPT ![a] = "live"]
  /\ charAccount' = [charAccount EXCEPT ![c] = a]
  /\ main' = [MainWithout(c) EXCEPT ![a] = c]
  /\ tier' = [TierWithout(c) EXCEPT ![a] = "pending"]
  /\ UNCHANGED tierLocked

(* A new row for c on a live account, possibly taken from another one. *)
Link(a, c) ==
  /\ a \in Live /\ charAccount[c] # a
  /\ charAccount' = [charAccount EXCEPT ![c] = a]
  /\ main' = [MainWithout(c) EXCEPT ![a] = IF @ = NoChar THEN c ELSE @]
  /\ tier' = TierWithout(c)
  /\ UNCHANGED <<acct, tierLocked>>

(* The row of c moves to account a; the unpinned account that held nothing *)
(* else is dissolved.                                                      *)
Absorb(a, c) ==
  \E s \in Live \ {a} :
    /\ a \in Live /\ CharsOf(s) = {c} /\ ~tierLocked[s]
    /\ acct' = [acct EXCEPT ![s] = "deleted"]
    /\ charAccount' = [charAccount EXCEPT ![c] = a]
    /\ main' = [main EXCEPT ![s] = NoChar, ![a] = IF @ = NoChar THEN c ELSE @]
    /\ UNCHANGED <<tier, tierLocked>>

(* Unlinked by its account, or reclaimed because it was sold. *)
Lose(c) ==
  /\ charAccount[c] # NoAccount
  /\ charAccount' = [charAccount EXCEPT ![c] = NoAccount]
  /\ main' = MainWithout(c)
  /\ tier' = TierWithout(c)
  /\ UNCHANGED <<acct, tierLocked>>

SetMain(a, c) ==
  /\ charAccount[c] = a
  /\ main' = [main EXCEPT ![a] = c]
  /\ UNCHANGED <<acct, charAccount, tier, tierLocked>>

Pin(a, t) ==
  /\ a \in Live /\ t \in AdminTiers
  /\ tier' = [tier EXCEPT ![a] = t]
  /\ tierLocked' = [tierLocked EXCEPT ![a] = TRUE]
  /\ UNCHANGED <<acct, charAccount, main>>

Unpin(a) ==
  /\ a \in Live
  /\ tierLocked' = [tierLocked EXCEPT ![a] = FALSE]
  /\ UNCHANGED <<acct, charAccount, main, tier>>

Approve(a, t) ==
  /\ a \in Live /\ tier[a] = "pending"
  /\ t \in AdminTiers \ {"member"}
  /\ tier' = [tier EXCEPT ![a] = t]
  /\ tierLocked' = [tierLocked EXCEPT ![a] = (t = "associate")]
  /\ UNCHANGED <<acct, charAccount, main>>

Next ==
  \/ \E a \in Accounts, c \in Chars :
       Open(a, c) \/ Link(a, c) \/ Absorb(a, c) \/ SetMain(a, c)
  \/ \E c \in Chars : Lose(c)
  \/ \E a \in Accounts, t \in Tiers : Pin(a, t) \/ Approve(a, t)
  \/ \E a \in Accounts : Unpin(a)

Spec == Init /\ [][Next]_tierVars
=============================================================================
