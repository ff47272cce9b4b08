--------------------------- MODULE IdentityProofs ---------------------------
(***************************************************************************)
(* What is proved about Identity for every set of accounts and characters. *)
(*                                                                         *)
(* IInv is the inductive invariant.  MainOwned and NothingOutlivesAccount  *)
(* are each needed to preserve the other: a merge may delete an account    *)
(* only because the one character it gives away is its main, if it has     *)
(* one, and because an account that is not live has no character.          *)
(* OwnersKnown is the history of the transfers: whatever the database or a *)
(* transaction in flight believes about the owner of a character was true  *)
(* once, and a token-health finding is about an owner who is gone.         *)
(***************************************************************************)
EXTENDS Identity, TLAPS

OwnersKnown ==
  /\ \A c \in Chars : ownerHash[c] <= holder[c]
  /\ \A cb \in callbacks : cb.hash <= holder[cb.char]
  /\ \A f \in findings : f.hash < holder[f.char]

IInv == TypeOK /\ NothingOutlivesAccount /\ MainOwned /\ OwnersKnown

USE NoAccountAssumption, NoCharAssumption, BootstrapAssumption,
    MaxTransfersAssumption, AdminTiersAssumption

-----------------------------------------------------------------------------
(* The four parts of IInv under the transactions that move a character.    *)

LEMMA LoginNewKeepsIInv ==
  ASSUME IInv, NEW cb \in callbacks, NEW a \in Accounts, LoginNew(cb, a)
  PROVE  IInv'
<1>1. TypeOK'
  BY DEF IInv, LoginNew, TypeOK, Live, MainWithout, TierWithout, SessionsWithout, AccountsWokenBy,
         AdminAfterGrant, GrantedAfter, Demoted, Callback, Finding, Tiers
<1>2. NothingOutlivesAccount'
  BY DEF IInv, LoginNew, NothingOutlivesAccount, TypeOK, Live, SessionsWithout, AdminAfterGrant, Callback
<1>3. MainOwned'
  BY DEF IInv, LoginNew, MainOwned, NothingOutlivesAccount, TypeOK, Live, MainWithout, Callback
<1>4. OwnersKnown'
  BY DEF IInv, LoginNew, OwnersKnown, TypeOK, Callback, Finding, Owners
<1> QED BY <1>1, <1>2, <1>3, <1>4 DEF IInv

LEMMA LinkMergeKeepsIInv ==
  ASSUME IInv, NEW cb \in callbacks, LinkMerge(cb)
  PROVE  IInv'
<1>1. TypeOK'
  BY DEF IInv, LinkMerge, TypeOK, Live, MainWithout, TierWithout, SessionsWithout, AccountsWokenBy,
         AdminAfterGrant, GrantedAfter, Demoted, Callback, Finding, Tiers
<1>2. NothingOutlivesAccount'
  BY DEF IInv, LinkMerge, NothingOutlivesAccount, TypeOK, Live, Blocked, CharsOf, Callback
<1>3. MainOwned'
  BY DEF IInv, LinkMerge, MainOwned, NothingOutlivesAccount, TypeOK, Live, Blocked, CharsOf, Callback
<1>4. OwnersKnown'
  BY DEF IInv, LinkMerge, OwnersKnown, TypeOK, Callback, Finding, Owners
<1> QED BY <1>1, <1>2, <1>3, <1>4 DEF IInv

LEMMA LinkInsertKeepsIInv ==
  ASSUME IInv, NEW cb \in callbacks, LinkInsert(cb)
  PROVE  IInv'
<1>1. TypeOK'
  BY DEF IInv, LinkInsert, TypeOK, Live, MainWithout, TierWithout, SessionsWithout, AccountsWokenBy,
         AdminAfterGrant, GrantedAfter, Demoted, Callback, Finding, Tiers
<1>2. NothingOutlivesAccount'
  BY DEF IInv, LinkInsert, NothingOutlivesAccount, TypeOK, Live, SessionsWithout, AdminAfterGrant, Callback
<1>3. MainOwned'
  BY DEF IInv, LinkInsert, MainOwned, NothingOutlivesAccount, TypeOK, Live, MainWithout, Callback
<1>4. OwnersKnown'
  BY DEF IInv, LinkInsert, OwnersKnown, TypeOK, Callback, Finding, Owners
<1> QED BY <1>1, <1>2, <1>3, <1>4 DEF IInv

LEMMA UnlinkKeepsIInv ==
  ASSUME IInv, NEW c \in Chars, UnlinkCharacter(c)
  PROVE  IInv'
<1>1. TypeOK'
  BY DEF IInv, UnlinkCharacter, TypeOK, Live, MainWithout, TierWithout, SessionsWithout, AccountsWokenBy,
         AdminAfterGrant, GrantedAfter, Demoted, Callback, Finding, Tiers
<1>2. NothingOutlivesAccount'
  BY DEF IInv, UnlinkCharacter, NothingOutlivesAccount, TypeOK, Live
<1>3. MainOwned'
  BY DEF IInv, UnlinkCharacter, MainOwned, NothingOutlivesAccount, TypeOK, Live, MainWithout
<1>4. OwnersKnown'
  BY DEF IInv, UnlinkCharacter, OwnersKnown, TypeOK, Callback, Finding, Owners
<1> QED BY <1>1, <1>2, <1>3, <1>4 DEF IInv

LEMMA ReclaimKeepsIInv ==
  ASSUME IInv, NEW f \in findings, ReclaimTransferred(f)
  PROVE  IInv'
<1>1. TypeOK'
  BY DEF IInv, ReclaimTransferred, TypeOK, Live, MainWithout, TierWithout, SessionsWithout, AccountsWokenBy,
         AdminAfterGrant, GrantedAfter, Demoted, Callback, Finding, Tiers
<1>2. NothingOutlivesAccount'
  BY DEF IInv, ReclaimTransferred, NothingOutlivesAccount, TypeOK, Live, SessionsWithout, Finding
<1>3. MainOwned'
  BY DEF IInv, ReclaimTransferred, MainOwned, NothingOutlivesAccount, TypeOK, Live, MainWithout, Finding
<1>4. OwnersKnown'
  BY DEF IInv, ReclaimTransferred, OwnersKnown, TypeOK, Callback, Finding, Owners
<1> QED BY <1>1, <1>2, <1>3, <1>4 DEF IInv

-----------------------------------------------------------------------------
(* The other steps leave the characters where they are. *)

LEMMA CallbackKeepsIInv ==
  ASSUME IInv, NEW cb \in callbacks, EveCallback(cb)
  PROVE  IInv'
<1>1. CASE Abandon(cb)
  BY <1>1 DEF Abandon, rowVars, IInv, TypeOK, NothingOutlivesAccount, MainOwned,
              OwnersKnown, Live
<1>2. CASE LoginReauth(cb)
  BY <1>2 DEF LoginReauth, IInv, TypeOK, NothingOutlivesAccount, MainOwned,
              OwnersKnown, Live, Callback
<1>3. CASE \E a \in Accounts : LoginNew(cb, a)
  BY <1>3, LoginNewKeepsIInv
<1>4. CASE LinkReauth(cb)
  BY <1>4 DEF LinkReauth, IInv, TypeOK, NothingOutlivesAccount, MainOwned,
              OwnersKnown, Live, Callback, Owners
<1>5. CASE LinkMerge(cb)
  BY <1>5, LinkMergeKeepsIInv
<1>6. CASE LinkInsert(cb)
  BY <1>6, LinkInsertKeepsIInv
<1> QED BY <1>1, <1>2, <1>3, <1>4, <1>5, <1>6 DEF EveCallback

LEMMA AccountStepKeepsIInv ==
  ASSUME IInv, NEW a \in Accounts, AccountStep(a)
  PROVE  IInv'
<1> USE DEF IInv, TypeOK, NothingOutlivesAccount, MainOwned, OwnersKnown, Live
<1>1. CASE CreateSession(a)
  BY <1>1 DEF CreateSession
<1>2. CASE EndSession(a)
  BY <1>2 DEF EndSession
<1>3. CASE \E c \in Chars : SetMainCharacter(a, c)
  BY <1>3 DEF SetMainCharacter
<1>4. CASE \E t \in Tiers : SetTierManual(a, t)
  BY <1>4 DEF SetTierManual, Tiers
<1>5. CASE \E t \in Tiers : ApproveAccount(a, t)
  BY <1>5 DEF ApproveAccount, Tiers
<1>6. CASE ReturnTierToAuto(a)
  BY <1>6 DEF ReturnTierToAuto
<1>7. CASE PromoteAdmin(a)
  BY <1>7 DEF PromoteAdmin
<1>8. CASE DemoteAdmin(a)
  BY <1>8 DEF DemoteAdmin
<1>9. CASE Curate(a)
  BY <1>9 DEF Curate
<1>10. CASE Uncurate(a)
  BY <1>10 DEF Uncurate
<1> QED BY <1>1, <1>2, <1>3, <1>4, <1>5, <1>6, <1>7, <1>8, <1>9, <1>10 DEF AccountStep

LEMMA CharStepKeepsIInv ==
  ASSUME IInv, NEW c \in Chars, CharStep(c)
  PROVE  IInv'
<1> USE DEF IInv, TypeOK, NothingOutlivesAccount, MainOwned, OwnersKnown, Live,
            Owners, Callback, Finding, rowVars
<1>1. CASE Transfer(c)
  BY <1>1 DEF Transfer
<1>2. CASE \E for \in Accounts \union {NoAccount} : Authenticate(c, for)
  BY <1>2 DEF Authenticate
<1>3. CASE UnlinkCharacter(c)
  BY <1>3, UnlinkKeepsIInv
<1>4. CASE FindTransfer(c)
  BY <1>4 DEF FindTransfer
<1> QED BY <1>1, <1>2, <1>3, <1>4 DEF CharStep

LEMMA NextKeepsIInv == IInv /\ [Next]_vars => IInv'
<1> SUFFICES ASSUME IInv, [Next]_vars PROVE IInv'
  OBVIOUS
<1>1. CASE \E cb \in callbacks : EveCallback(cb)
  BY <1>1, CallbackKeepsIInv
<1>2. CASE \E f \in findings : ReclaimTransferred(f)
  BY <1>2, ReclaimKeepsIInv
<1>3. CASE \E f \in findings : DropFinding(f)
  BY <1>3 DEF DropFinding, rowVars, IInv, TypeOK, NothingOutlivesAccount, MainOwned,
              OwnersKnown, Live
<1>4. CASE \E a \in Accounts : AccountStep(a)
  BY <1>4, AccountStepKeepsIInv
<1>5. CASE \E c \in Chars : CharStep(c)
  BY <1>5, CharStepKeepsIInv
<1>6. CASE UNCHANGED vars
  BY <1>6 DEF vars, IInv, TypeOK, NothingOutlivesAccount, MainOwned, OwnersKnown, Live
<1> QED BY <1>1, <1>2, <1>3, <1>4, <1>5, <1>6 DEF Next

LEMMA InitIInv == Init => IInv
BY DEF Init, IInv, TypeOK, NothingOutlivesAccount, MainOwned, OwnersKnown, Owners,
       Tiers, Live

(* The inductive invariant holds in every reachable state of the account   *)
(* transactions.                                                           *)
THEOREM Invariance == Spec => []IInv
BY InitIInv, NextKeepsIInv, PTL DEF Spec

(* Every variable has its type.                                            *)
THEOREM TypeCorrect == Spec => []TypeOK
<1>1. IInv => TypeOK
  BY DEF IInv
<1> QED BY <1>1, Invariance, PTL

(* An account's main is one of its characters, so the deferred foreign key *)
(* never refuses a commit.                                                 *)
THEOREM MainAlwaysOwned == Spec => []MainOwned
<1>1. IInv => MainOwned
  BY DEF IInv
<1> QED BY <1>1, Invariance, PTL

(* A merge leaves nothing behind on the account it deletes.                *)
THEOREM MergeLeavesNothing == Spec => []NothingOutlivesAccount
<1>1. IInv => NothingOutlivesAccount
  BY DEF IInv
<1> QED BY <1>1, Invariance, PTL

-----------------------------------------------------------------------------
(* What a step may never do. *)

LEMMA StepKeepsAdmin == IInv /\ [Next]_vars => (Admins # {} => Admins' # {})
<1> SUFFICES ASSUME IInv, [Next]_vars, NEW x \in Admins PROVE Admins' # {}
  OBVIOUS
<1> USE DEF Admins, IInv, TypeOK
<1>1. CASE \E cb \in callbacks : EveCallback(cb)
  <2>1. \A a \in Accounts : isAdmin[a] => isAdmin'[a]
    BY <1>1 DEF EveCallback, Abandon, rowVars, LoginReauth, LoginNew, LinkReauth,
                LinkMerge, LinkInsert, AdminAfterGrant
  <2> QED BY <2>1
<1>2. CASE \E f \in findings : ReclaimTransferred(f) \/ DropFinding(f)
  BY <1>2 DEF ReclaimTransferred, DropFinding, rowVars
<1>3. CASE \E a \in Accounts : DemoteAdmin(a)
  BY <1>3 DEF DemoteAdmin
<1>4. CASE \E a \in Accounts : AccountStep(a) /\ ~DemoteAdmin(a)
  <2>1. \A a \in Accounts : isAdmin[a] => isAdmin'[a]
    BY <1>4 DEF AccountStep, CreateSession, EndSession, SetMainCharacter, SetTierManual,
                ApproveAccount, ReturnTierToAuto, PromoteAdmin, Curate, Uncurate
  <2> QED BY <2>1
<1>5. CASE \E c \in Chars : CharStep(c)
  BY <1>5 DEF CharStep, Transfer, Authenticate, UnlinkCharacter, FindTransfer, rowVars
<1>6. CASE UNCHANGED vars
  BY <1>6 DEF vars
<1> QED BY <1>1, <1>2, <1>3, <1>4, <1>5, <1>6 DEF Next

(* No order of promotions, demotions, merges and reclaims leaves the       *)
(* installation without an admin once it has had one.                      *)
THEOREM AdminStays == Spec => AdminNeverLost
BY Invariance, StepKeepsAdmin, PTL DEF Spec, AdminNeverLost

LEMMA StepKeepsOwnersCharacter ==
  ASSUME IInv, [Next]_vars, NEW c \in Chars,
         charAccount[c] # NoAccount, charAccount'[c] # charAccount[c],
         ownerHash[c] = holder[c]
  PROVE  \/ UnlinkCharacter(c)
         \/ charAccount'[c] # NoAccount /\ ownerHash'[c] = holder[c]
         \/ \E cb \in callbacks \ callbacks' : cb.char = c /\ cb.hash # holder[c]
<1> USE DEF IInv, TypeOK
<1>1. CASE \E cb \in callbacks, a \in Accounts : LoginNew(cb, a)
  BY <1>1 DEF LoginNew, Callback
<1>2. CASE \E cb \in callbacks : LinkMerge(cb)
  BY <1>2 DEF LinkMerge, Callback, Live
<1>3. CASE \E cb \in callbacks : LinkInsert(cb)
  BY <1>3 DEF LinkInsert, Callback
<1>4. CASE \E cb \in callbacks : Abandon(cb) \/ LoginReauth(cb) \/ LinkReauth(cb)
  BY <1>4 DEF Abandon, LoginReauth, LinkReauth, rowVars
<1>5. CASE \E f \in findings : ReclaimTransferred(f)
  <2> PICK f \in findings : ReclaimTransferred(f)
    BY <1>5
  <2>1. f.char = c
    BY DEF ReclaimTransferred, Finding
  <2>2. f.hash = ownerHash[c] /\ f.hash < holder[c]
    BY <2>1 DEF ReclaimTransferred, StillExpected, OwnersKnown
  <2> QED BY <2>2 DEF Owners
<1>6. CASE \E f \in findings : DropFinding(f)
  BY <1>6 DEF DropFinding, rowVars
<1>7. CASE \E a \in Accounts : AccountStep(a)
  BY <1>7 DEF AccountStep, CreateSession, EndSession, SetMainCharacter, SetTierManual,
              ApproveAccount, ReturnTierToAuto, PromoteAdmin, DemoteAdmin, Curate,
              Uncurate
<1>8. CASE \E d \in Chars : UnlinkCharacter(d)
  BY <1>8 DEF UnlinkCharacter
<1>9. CASE \E d \in Chars : CharStep(d) /\ ~UnlinkCharacter(d)
  BY <1>9 DEF CharStep, Transfer, Authenticate, FindTransfer, rowVars
<1>10. CASE UNCHANGED vars
  BY <1>10 DEF vars
<1> QED
  BY <1>1, <1>2, <1>3, <1>4, <1>5, <1>6, <1>7, <1>8, <1>9, <1>10 DEF Next, EveCallback

(* The account of a character's present owner loses it only by its own     *)
(* unlinking or merging, or to an SSO callback that is out of date; a      *)
(* token-health finding never takes it, however late it is applied.        *)
THEOREM OwnerKeepsCharacter == Spec => CurrentOwnerKeepsCharacter
<1>1. IInv /\ [Next]_vars =>
        \A c \in Chars :
          /\ charAccount[c] # NoAccount /\ charAccount'[c] # charAccount[c]
          /\ ownerHash[c] = holder[c]
          => \/ UnlinkCharacter(c)
             \/ charAccount'[c] # NoAccount /\ ownerHash'[c] = holder[c]
             \/ \E cb \in callbacks \ callbacks' : cb.char = c /\ cb.hash # holder[c]
  BY StepKeepsOwnersCharacter
<1> QED BY <1>1, Invariance, PTL DEF Spec, CurrentOwnerKeepsCharacter

LEMMA StepEmptiesBySale ==
  ASSUME IInv, [Next]_vars, NEW a \in Live,
         CharsOf(a) # {}, CharsOf(a)' = {}, acct'[a] = "live"
  PROVE  \E c \in CharsOf(a) : \/ \E f \in findings \ findings' : f.char = c
                               \/ \E cb \in callbacks \ callbacks' :
                                    cb.char = c /\ cb.hash # ownerHash[c]
<1> USE DEF IInv, TypeOK
<1>0. PICK c \in Chars : charAccount[c] = a /\ charAccount'[c] # a
  BY DEF CharsOf
<1>a. c \in CharsOf(a) /\ a \in Accounts
  BY <1>0 DEF CharsOf, Live
<1>1. ASSUME NEW cb \in callbacks, NEW b \in Accounts, LoginNew(cb, b)
      PROVE  \E k \in callbacks \ callbacks' : k.char = c /\ k.hash # ownerHash[c]
  BY <1>0, <1>a, <1>1 DEF LoginNew, Callback
<1>2. ASSUME NEW cb \in callbacks, LinkInsert(cb)
      PROVE  \E k \in callbacks \ callbacks' : k.char = c /\ k.hash # ownerHash[c]
  BY <1>0, <1>a, <1>2 DEF LinkInsert, Callback
<1>3. ASSUME NEW cb \in callbacks, LinkMerge(cb) PROVE FALSE
  BY <1>0, <1>a, <1>3 DEF LinkMerge, Callback
<1>4. CASE \E cb \in callbacks : Abandon(cb) \/ LoginReauth(cb) \/ LinkReauth(cb)
  BY <1>0, <1>4 DEF Abandon, LoginReauth, LinkReauth, rowVars
<1>5. ASSUME NEW f \in findings, ReclaimTransferred(f)
      PROVE  \E k \in findings \ findings' : k.char = c
  BY <1>0, <1>5 DEF ReclaimTransferred, Finding
<1>6. CASE \E f \in findings : DropFinding(f)
  BY <1>0, <1>6 DEF DropFinding, rowVars
<1>7. CASE \E b \in Accounts : AccountStep(b)
  BY <1>0, <1>7 DEF AccountStep, CreateSession, EndSession, SetMainCharacter, SetTierManual,
              ApproveAccount, ReturnTierToAuto, PromoteAdmin, DemoteAdmin, Curate, Uncurate
<1>8. ASSUME NEW d \in Chars, UnlinkCharacter(d) PROVE FALSE
  <2>1. d = c
    BY <1>0, <1>8 DEF UnlinkCharacter
  <2>2. PICK e \in Chars \ {c} : charAccount[e] = a
    BY <1>0, <1>8, <2>1 DEF UnlinkCharacter
  <2>3. charAccount'[e] = a
    BY <1>8, <2>1, <2>2 DEF UnlinkCharacter
  <2> QED BY <2>2, <2>3 DEF CharsOf
<1>9. CASE \E d \in Chars : CharStep(d) /\ ~UnlinkCharacter(d)
  BY <1>0, <1>9 DEF CharStep, Transfer, Authenticate, FindTransfer, rowVars
<1>10. CASE UNCHANGED vars
  BY <1>0, <1>10 DEF vars
<1> QED
  BY <1>a, <1>1, <1>2, <1>3, <1>4, <1>5, <1>6, <1>7, <1>8, <1>9, <1>10 DEF Next, EveCallback

(* An account that has a character keeps one, whatever its owner, the       *)
(* admins and the jobs do in whatever order: only the answer about a change *)
(* of owner, from EVE or from token health, takes the last one away.        *)
THEOREM OnlyASaleEmpties == Spec => OnlyTransferEmpties
<1>1. IInv /\ [Next]_vars =>
        \A a \in Live : CharsOf(a) # {} /\ CharsOf(a)' = {} /\ acct'[a] = "live" =>
          \E c \in CharsOf(a) : \/ \E f \in findings \ findings' : f.char = c
                                \/ \E cb \in callbacks \ callbacks' :
                                     cb.char = c /\ cb.hash # ownerHash[c]
  BY StepEmptiesBySale
<1> QED BY <1>1, Invariance, PTL DEF Spec, OnlyTransferEmpties

LEMMA StepGrantsOnce ==
  ASSUME IInv, [Next]_vars, NEW a \in Admins' \ Admins
  PROVE  \/ PromoteAdmin(a)
         \/ \E c \in BootstrapChars \ granted : c \in granted' /\ charAccount'[c] = a
<1> USE DEF Admins, IInv, TypeOK
<1>1. CASE \E cb \in callbacks, b \in Accounts : LoginNew(cb, b)
  BY <1>1 DEF LoginNew, AdminAfterGrant, GrantedAfter, Callback
<1>2. CASE \E cb \in callbacks : LinkInsert(cb)
  BY <1>2 DEF LinkInsert, AdminAfterGrant, GrantedAfter, Callback, Live
<1>3. CASE \E cb \in callbacks : \/ Abandon(cb) \/ LoginReauth(cb)
                                 \/ LinkReauth(cb) \/ LinkMerge(cb)
  BY <1>3 DEF Abandon, LoginReauth, LinkReauth, LinkMerge, rowVars
<1>4. CASE \E f \in findings : ReclaimTransferred(f) \/ DropFinding(f)
  BY <1>4 DEF ReclaimTransferred, DropFinding, rowVars
<1>5. CASE \E b \in Accounts : PromoteAdmin(b)
  <2> PICK b \in Accounts : PromoteAdmin(b)
    BY <1>5
  <2>1. a = b
    BY DEF PromoteAdmin
  <2> QED BY <2>1
<1>6. CASE \E b \in Accounts : AccountStep(b) /\ ~PromoteAdmin(b)
  BY <1>6 DEF AccountStep, CreateSession, EndSession, SetMainCharacter, SetTierManual,
              ApproveAccount, ReturnTierToAuto, DemoteAdmin, Curate, Uncurate
<1>7. CASE \E c \in Chars : CharStep(c)
  BY <1>7 DEF CharStep, Transfer, Authenticate, UnlinkCharacter, FindTransfer, rowVars
<1>8. CASE UNCHANGED vars
  BY <1>8 DEF vars
<1> QED
  BY <1>1, <1>2, <1>3, <1>4, <1>5, <1>6, <1>7, <1>8 DEF Next, EveCallback

(* A bootstrap character makes at most one account admin, ever: selling,   *)
(* relinking or merging it never earns the grant again.                    *)
THEOREM GrantIsOnceEver == Spec => BootstrapNotReearned
<1>1. IInv /\ [Next]_vars =>
        \A a \in Accounts : a \in Admins' \ Admins =>
          \/ PromoteAdmin(a)
          \/ \E c \in BootstrapChars \ granted : c \in granted' /\ charAccount'[c] = a
  BY StepGrantsOnce
<1> QED BY <1>1, Invariance, PTL DEF Spec, BootstrapNotReearned

LEMMA StepHoldsPending ==
  ASSUME IInv, [Next]_vars, NEW a \in Live, tier[a] = "pending", tier'[a] # "pending"
  PROVE  \E t \in Tiers : ApproveAccount(a, t) \/ SetTierManual(a, t)
<1> USE DEF IInv, TypeOK, Live
<1>1. CASE \E cb \in callbacks : EveCallback(cb)
  <2> PICK cb \in callbacks : EveCallback(cb)
    BY <1>1
  <2>1. CASE Abandon(cb) \/ LoginReauth(cb) \/ \E b \in Accounts : LoginNew(cb, b)
    BY <2>1 DEF Abandon, rowVars, LoginReauth, LoginNew, TierWithout, Demoted
  <2>2. CASE LinkReauth(cb) \/ LinkInsert(cb)
    BY <2>2 DEF LinkReauth, LinkInsert, rowVars, TierWithout, Demoted
  <2>3. CASE LinkMerge(cb)
    BY <2>3 DEF LinkMerge
  <2> QED BY <2>1, <2>2, <2>3 DEF EveCallback
<1>2. CASE \E f \in findings : ReclaimTransferred(f) \/ DropFinding(f)
  BY <1>2 DEF ReclaimTransferred, DropFinding, rowVars, TierWithout, Demoted
<1>3. CASE \E b \in Accounts, t \in Tiers : SetTierManual(b, t)
  <2> PICK b \in Accounts, t \in Tiers : SetTierManual(b, t)
    BY <1>3
  <2>1. a = b
    BY DEF SetTierManual
  <2> QED BY <2>1
<1>4. CASE \E b \in Accounts, t \in Tiers : ApproveAccount(b, t)
  <2> PICK b \in Accounts, t \in Tiers : ApproveAccount(b, t)
    BY <1>4
  <2>1. a = b
    BY DEF ApproveAccount
  <2> QED BY <2>1
<1>5. CASE \E b \in Accounts :
             \/ CreateSession(b) \/ EndSession(b) \/ ReturnTierToAuto(b)
             \/ PromoteAdmin(b) \/ DemoteAdmin(b) \/ Curate(b) \/ Uncurate(b)
             \/ \E c \in Chars : SetMainCharacter(b, c)
  BY <1>5 DEF CreateSession, EndSession, SetMainCharacter, ReturnTierToAuto,
              PromoteAdmin, DemoteAdmin, Curate, Uncurate
<1>6. CASE \E c \in Chars : CharStep(c)
  BY <1>6 DEF CharStep, Transfer, Authenticate, UnlinkCharacter, FindTransfer, rowVars,
              TierWithout, Demoted
<1>7. CASE UNCHANGED vars
  BY <1>7 DEF vars
<1> QED BY <1>1, <1>2, <1>3, <1>4, <1>5, <1>6, <1>7 DEF Next, AccountStep

(* Only an admin's decision takes an account out of pending, whatever      *)
(* happens to its characters.                                              *)
THEOREM PendingNeedsAdmin == Spec => PendingHeldForApproval
<1>1. IInv /\ [Next]_vars =>
        \A a \in Live : tier[a] = "pending" /\ tier'[a] # "pending" =>
          \E t \in Tiers : ApproveAccount(a, t) \/ SetTierManual(a, t)
  BY StepHoldsPending
<1> QED BY <1>1, Invariance, PTL DEF Spec, PendingHeldForApproval

-----------------------------------------------------------------------------
LEMMA StepWakes ==
  ASSUME IInv, [Next]_vars, NEW a \in Accounts, acct'[a] = "live",
         \/ tier'[a] # tier[a] \/ tierLocked'[a] # tierLocked[a]
         \/ main'[a] # main[a]
         \/ \E c \in Chars : /\ charAccount'[c] # charAccount[c]
                              /\ a \in {charAccount[c], charAccount'[c]}
  PROVE  a \in enqueued'
<1> USE DEF IInv, TypeOK, AccountsWokenBy
<1>1. CASE \E cb \in callbacks : EveCallback(cb)
  <2> PICK cb \in callbacks : EveCallback(cb)
    BY <1>1
  <2>0. cb.char \in Chars /\ cb.for \in Accounts \union {NoAccount}
    BY DEF Callback
  <2>1. CASE Abandon(cb) \/ LoginReauth(cb) \/ LinkReauth(cb)
    BY <2>1 DEF Abandon, LoginReauth, LinkReauth, rowVars
  <2>2. CASE \E b \in Accounts : LoginNew(cb, b)
    BY <2>0, <2>2, NoAccountAssumption DEF LoginNew, MainWithout, TierWithout, Demoted
  <2>3. CASE LinkMerge(cb)
    BY <2>0, <2>3 DEF LinkMerge, Live
  <2>4. CASE LinkInsert(cb)
    BY <2>0, <2>4, NoAccountAssumption DEF LinkInsert, Live, MainWithout, TierWithout, Demoted
  <2> QED BY <2>1, <2>2, <2>3, <2>4 DEF EveCallback
<1>2. CASE \E f \in findings : ReclaimTransferred(f) \/ DropFinding(f)
  BY <1>2, NoAccountAssumption DEF ReclaimTransferred, DropFinding, rowVars,
     MainWithout, TierWithout, Demoted, Finding
<1>3. CASE \E b \in Accounts : AccountStep(b)
  BY <1>3 DEF AccountStep, CreateSession, EndSession, SetMainCharacter, SetTierManual,
     ApproveAccount, ReturnTierToAuto, PromoteAdmin, DemoteAdmin, Curate, Uncurate
<1>4. CASE \E c \in Chars : CharStep(c)
  BY <1>4, NoAccountAssumption DEF CharStep, Transfer, Authenticate, UnlinkCharacter,
     FindTransfer, rowVars, MainWithout, TierWithout, Demoted
<1>5. CASE UNCHANGED vars
  BY <1>5 DEF vars
<1> QED BY <1>1, <1>2, <1>3, <1>4, <1>5 DEF Next

(* No transaction changes what the sync jobs project of an account, on     *)
(* either side of a reclaim or a merge, without putting it in the outbox.  *)
THEOREM ChangesAreEnqueued == Spec => EveryChangeWakes
<1>1. IInv /\ [Next]_vars =>
        \A a \in Accounts :
          /\ acct'[a] = "live"
          /\ \/ tier'[a] # tier[a] \/ tierLocked'[a] # tierLocked[a]
             \/ main'[a] # main[a]
             \/ \E c \in Chars : charAccount'[c] # charAccount[c] /\ a \in {charAccount[c], charAccount'[c]}
          => a \in enqueued'
  BY StepWakes
<1> QED BY <1>1, Invariance, PTL DEF Spec, EveryChangeWakes

-----------------------------------------------------------------------------
(* Identity implements AccountTiers. *)

LEMMA InitRefines == Init => AT!Init
BY DEF Init, AT!Init

LEMMA LossRefines ==
  ASSUME IInv, NEW c \in Chars
  PROVE  MainWithout(c) = AT!MainWithout(c) /\ TierWithout(c) = AT!TierWithout(c)
BY DEF IInv, TypeOK, MainWithout, TierWithout, Demoted, Tiers, AT!MainWithout,
       AT!TierWithout, AT!LosesMain

LEMMA CallbackRefines ==
  ASSUME IInv, NEW cb \in callbacks, EveCallback(cb)
  PROVE  [AT!Next]_(AT!tierVars)
<1> DEFINE c == cb.char
<1>0. c \in Chars /\ cb.for \in Accounts \union {NoAccount}
  BY DEF IInv, TypeOK, Callback
<1>1. CASE Abandon(cb) \/ LoginReauth(cb) \/ LinkReauth(cb)
  BY <1>1 DEF Abandon, LoginReauth, LinkReauth, rowVars, AT!tierVars
<1>2. CASE \E a \in Accounts : LoginNew(cb, a)
  <2> PICK a \in Accounts : LoginNew(cb, a)
    BY <1>2
  <2>1. AT!Open(a, c)
    BY <1>0, LossRefines DEF LoginNew, AT!Open
  <2> QED BY <1>0, <2>1 DEF AT!Next
<1>3. CASE LinkMerge(cb)
  <2>1. charAccount[c] \in Live \ {cb.for}
    BY <1>0, <1>3 DEF LinkMerge, IInv, TypeOK, NothingOutlivesAccount
  <2>2. AT!Absorb(cb.for, c)
    BY <1>0, <1>3, <2>1 DEF LinkMerge, Live, Blocked, CharsOf, AT!Absorb, AT!Live, AT!CharsOf
  <2> QED BY <1>0, <1>3, <2>2 DEF AT!Next, LinkMerge, Live
<1>4. CASE LinkInsert(cb)
  <2>1. cb.for \in Accounts /\ charAccount[c] # cb.for
    BY <1>0, <1>4 DEF LinkInsert, Live
  <2>2. AT!Link(cb.for, c)
    BY <1>0, <1>4, <2>1, LossRefines DEF LinkInsert, Live, AT!Link, AT!Live
  <2> QED BY <1>0, <2>1, <2>2 DEF AT!Next
<1> QED BY <1>1, <1>2, <1>3, <1>4 DEF EveCallback

LEMMA LosingRefines ==
  ASSUME IInv, NEW c \in Chars,
         UnlinkCharacter(c) \/ \E f \in findings : f.char = c /\ ReclaimTransferred(f)
  PROVE  [AT!Next]_(AT!tierVars)
<1>1. charAccount[c] # NoAccount
  BY DEF UnlinkCharacter, ReclaimTransferred, StillExpected, IInv, TypeOK, Finding
<1>2. AT!Lose(c)
  BY <1>1, LossRefines DEF UnlinkCharacter, ReclaimTransferred, AT!Lose
<1> QED BY <1>2 DEF AT!Next

LEMMA AccountStepRefines ==
  ASSUME IInv, NEW a \in Accounts, AccountStep(a)
  PROVE  [AT!Next]_(AT!tierVars)
<1>1. CASE \/ CreateSession(a) \/ EndSession(a) \/ PromoteAdmin(a) \/ DemoteAdmin(a)
           \/ Curate(a) \/ Uncurate(a)
  BY <1>1 DEF CreateSession, EndSession, PromoteAdmin, DemoteAdmin, Curate, Uncurate,
              AT!tierVars
<1>2. CASE \E c \in Chars : SetMainCharacter(a, c)
  BY <1>2 DEF SetMainCharacter, AT!SetMain, AT!Next
<1>3. CASE \E t \in Tiers : SetTierManual(a, t)
  BY <1>3 DEF SetTierManual, Live, Tiers, AT!Pin, AT!Live, AT!Tiers, AT!Next
<1>4. CASE \E t \in Tiers : ApproveAccount(a, t)
  BY <1>4 DEF ApproveAccount, Live, Tiers, AT!Approve, AT!Live, AT!Tiers, AT!Next
<1>5. CASE ReturnTierToAuto(a)
  BY <1>5 DEF ReturnTierToAuto, Live, AT!Unpin, AT!Live, AT!Next
<1> QED BY <1>1, <1>2, <1>3, <1>4, <1>5 DEF AccountStep

LEMMA StepRefines == IInv /\ [Next]_vars => [AT!Next]_(AT!tierVars)
<1> SUFFICES ASSUME IInv, [Next]_vars PROVE [AT!Next]_(AT!tierVars)
  OBVIOUS
<1>1. CASE \E cb \in callbacks : EveCallback(cb)
  BY <1>1, CallbackRefines
<1>2. CASE \E f \in findings : ReclaimTransferred(f)
  BY <1>2, LosingRefines DEF IInv, TypeOK, Finding
<1>3. CASE \E f \in findings : DropFinding(f)
  BY <1>3 DEF DropFinding, rowVars, AT!tierVars
<1>4. CASE \E a \in Accounts : AccountStep(a)
  BY <1>4, AccountStepRefines
<1>5. CASE \E c \in Chars : UnlinkCharacter(c)
  BY <1>5, LosingRefines
<1>6. CASE \E c \in Chars : CharStep(c) /\ ~UnlinkCharacter(c)
  BY <1>6 DEF CharStep, Transfer, Authenticate, FindTransfer, rowVars, AT!tierVars
<1>7. CASE UNCHANGED vars
  BY <1>7 DEF vars, AT!tierVars
<1> QED BY <1>1, <1>2, <1>3, <1>4, <1>5, <1>6, <1>7 DEF Next

(* Every transaction of services/accounts.ts, admin-accounts.ts and         *)
(* session.ts is a move of the tier state machine or leaves it alone.      *)
THEOREM IdentityImplementsTiers == Spec => TierMachine
BY InitRefines, StepRefines, Invariance, PTL DEF Spec, TierMachine, AT!Spec
=============================================================================
