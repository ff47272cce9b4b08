------------------------------ MODULE Identity ------------------------------
(***************************************************************************)
(* Accounts, the EVE characters linked to them, the tier each account      *)
(* holds, the admin bit and the browser sessions.  One action is one       *)
(* database transaction of services/accounts.ts, admin-accounts.ts or      *)
(* session.ts: each of them locks the character, the accounts and their    *)
(* sessions before it reads them, so no other transaction on the same rows *)
(* comes between.  What is NOT in one transaction is modelled in steps:    *)
(* an identity EVE has vouched for waits in `callbacks` until its          *)
(* transaction runs, a token-health finding waits in `findings`, and a     *)
(* committed login waits in `entering` for its session row.                *)
(***************************************************************************)
EXTENDS Naturals, FiniteSets

CONSTANTS Accounts,        \* account ids; an id is never used twice
          Chars,           \* EVE character ids
          BootstrapChars,  \* BOOTSTRAP_ADMIN_CHARACTER_IDS
          NoAccount, NoChar,
          MaxTransfers,    \* bound: in-game transfers of one character
          MaxCallbacks,    \* bound: SSO callbacks in flight
          MaxFindings,     \* bound: undelivered token-health findings
          Curable,         \* bound: accounts that ever hold something curated
          AdminTiers       \* bound: the tiers admins hand out

ASSUME NoAccountAssumption == NoAccount \notin Accounts
ASSUME NoCharAssumption == NoChar \notin Chars
ASSUME BootstrapAssumption == BootstrapChars \subseteq Chars
ASSUME MaxTransfersAssumption == MaxTransfers \in Nat
ASSUME AdminTiersAssumption == AdminTiers \subseteq {"member", "associate", "alumni"}

VARIABLES acct,        \* an account row: "free" (not created), "live", "deleted"
          charAccount, \* character.account_id, NoAccount when there is no row
          ownerHash,   \* character.owner_hash, as the number of the owner
          holder,      \* EVE: the number of the character's present owner
          main,        \* account.main_character_id
          tier, tierLocked, isAdmin,
          granted,     \* bootstrap_admin_grant rows
          curated,     \* accounts with a status, note, Discord link or payout row
          sessions,    \* accounts with a live session row
          entering,    \* logins committed, session row not yet inserted
          enqueued,    \* accounts the last transaction put in the outbox
          callbacks, findings

rowVars == <<acct, charAccount, ownerHash, main, tier, tierLocked, isAdmin,
             granted, curated, sessions>>
vars == <<acct, charAccount, ownerHash, holder, main, tier, tierLocked, isAdmin,
          granted, curated, sessions, entering, enqueued, callbacks, findings>>

Tiers == {"pending", "member", "associate", "alumni"}
Owners == 0 .. MaxTransfers
Callback == [char: Chars, hash: Owners, for: Accounts \union {NoAccount}]
Finding == [char: Chars, account: Accounts, hash: Owners]

Live == {a \in Accounts : acct[a] = "live"}
Admins == {a \in Accounts : isAdmin[a]}
CharsOf(a) == {c \in Chars : charAccount[c] = a}

Init ==
  /\ acct = [a \in Accounts |-> "free"]
  /\ charAccount = [c \in Chars |-> NoAccount]
  /\ ownerHash = [c \in Chars |-> 0]
  /\ holder = [c \in Chars |-> 0]
  /\ main = [a \in Accounts |-> NoChar]
  /\ tier = [a \in Accounts |-> "pending"]
  /\ tierLocked = [a \in Accounts |-> FALSE]
  /\ isAdmin = [a \in Accounts |-> FALSE]
  /\ granted = {} /\ curated = {} /\ sessions = {} /\ entering = {} /\ enqueued = {}
  /\ callbacks = {} /\ findings = {}

-----------------------------------------------------------------------------
(* Parts of several transactions, all about losing the row of character c. *)

(* Variants, not the code: the main stays; the rule reaches pending         *)
(* accounts as well.                                                       *)
MainKept(c) == main
DemotedPending(a, c) == /\ charAccount[c] = a /\ main[a] = c
                        /\ ~tierLocked[a] /\ tier[a] # "alumni"

(* applyNoMainRule: the account loses its main ... *)
MainWithout(c) ==
  [a \in Accounts |-> IF charAccount[c] = a /\ main[a] = c THEN NoChar ELSE main[a]]

(* ... and with it an earned, unlocked tier; `pending` is below alumni. *)
Demoted(a, c) == /\ charAccount[c] = a /\ main[a] = c
                 /\ ~tierLocked[a] /\ tier[a] \notin {"alumni", "pending"}
TierWithout(c) == [a \in Accounts |-> IF Demoted(a, c) THEN "alumni" ELSE tier[a]]

(* reclaimCharacter also revokes the old account's sessions, all of them. *)
SessionsWithout(c) == sessions \ {charAccount[c]}
(* Variant, not the code: the account that lost the character is not told. *)
NobodyWoken(c) == {}
AccountsWokenBy(c) == {charAccount[c]} \ {NoAccount}

(* Variants, not the code: a consumed grant is granted again; every linked  *)
(* character gets a grant row.                                             *)
AdminEachTime(a, c) ==
  IF c \in BootstrapChars THEN [isAdmin EXCEPT ![a] = TRUE] ELSE isAdmin
GrantedToAll(c) == granted \union {c}

(* maybeGrantBootstrapAdmin: the grant row outlives account and character. *)
AdminAfterGrant(a, c) ==
  IF c \in BootstrapChars \ granted THEN [isAdmin EXCEPT ![a] = TRUE] ELSE isAdmin
GrantedAfter(c) == granted \union ({c} \intersect BootstrapChars)

-----------------------------------------------------------------------------
(* The world outside the database. *)

(* The character is sold in the game: EVE gives it another owner hash. *)
Transfer(c) ==
  /\ holder[c] < MaxTransfers
  /\ holder' = [holder EXCEPT ![c] = @ + 1]
  /\ enqueued' = {}
  /\ UNCHANGED <<rowVars, entering, callbacks, findings>>

(* EVE SSO vouches for c, for a login or for a signed-in account's link. *)
Authenticate(c, for) ==
  /\ Cardinality(callbacks) + Cardinality(entering) < MaxCallbacks
  /\ for \in sessions \union {NoAccount}
  /\ callbacks' = callbacks \union {[char |-> c, hash |-> holder[c], for |-> for]}
  /\ enqueued' = {}
  /\ UNCHANGED <<rowVars, holder, entering, findings>>

(* A refused link, or a transaction that failed: nothing was written. *)
Abandon(cb) ==
  /\ cb \in callbacks
  /\ callbacks' = callbacks \ {cb}
  /\ enqueued' = {}
  /\ UNCHANGED <<rowVars, holder, entering, findings>>

-----------------------------------------------------------------------------
(* handleEveLogin *)

LoginReauth(cb) ==
  /\ cb \in callbacks /\ cb.for = NoAccount
  /\ charAccount[cb.char] # NoAccount /\ ownerHash[cb.char] = cb.hash
  /\ enqueued' = {charAccount[cb.char]}
  /\ entering' = entering \union {charAccount[cb.char]}
  /\ callbacks' = callbacks \ {cb}
  /\ UNCHANGED <<acct, charAccount, ownerHash, holder, main, tier, tierLocked,
                 isAdmin, granted, curated, sessions, findings>>

(* No row, or the row of another owner: that one is reclaimed first. *)
LoginNew(cb, a) ==
  LET c == cb.char IN
  /\ cb \in callbacks /\ cb.for = NoAccount
  /\ charAccount[c] = NoAccount \/ ownerHash[c] # cb.hash
  /\ acct[a] = "free"
  /\ acct' = [acct EXCEPT ![a] = "live"]
  /\ charAccount' = [charAccount EXCEPT ![c] = a]
  /\ ownerHash' = [ownerHash EXCEPT ![c] = cb.hash]
  /\ main' = [MainWithout(c) EXCEPT ![a] = c]
  /\ tier' = [TierWithout(c) EXCEPT ![a] = "pending"]
  /\ isAdmin' = AdminAfterGrant(a, c)
  /\ granted' = GrantedAfter(c)
  /\ sessions' = SessionsWithout(c)
  /\ enqueued' = AccountsWokenBy(c) \union {a}
  /\ entering' = entering \union {a}
  /\ callbacks' = callbacks \ {cb}
  /\ UNCHANGED <<holder, tierLocked, curated, findings>>

(* The callback inserts the session after the login has committed; the     *)
(* foreign key refuses it if the account was merged away in between.       *)
CreateSession(a) ==
  /\ a \in entering
  /\ entering' = entering \ {a}
  /\ sessions' = IF acct[a] = "live" THEN sessions \union {a} ELSE sessions
  /\ enqueued' = {}
  /\ UNCHANGED <<acct, charAccount, ownerHash, holder, main, tier, tierLocked,
                 isAdmin, granted, curated, callbacks, findings>>

(* Sign-out or expiry of the account's last session. *)
EndSession(a) ==
  /\ a \in sessions
  /\ sessions' = sessions \ {a}
  /\ enqueued' = {}
  /\ UNCHANGED <<acct, charAccount, ownerHash, holder, main, tier, tierLocked,
                 isAdmin, granted, curated, entering, callbacks, findings>>

-----------------------------------------------------------------------------
(* linkCharacter *)

LinkReauth(cb) ==
  /\ cb \in callbacks /\ cb.for # NoAccount
  /\ charAccount[cb.char] = cb.for
  /\ ownerHash' = [ownerHash EXCEPT ![cb.char] = cb.hash]
  /\ enqueued' = {cb.for}
  /\ callbacks' = callbacks \ {cb}
  /\ UNCHANGED <<acct, charAccount, holder, main, tier, tierLocked, isAdmin,
                 granted, curated, sessions, entering, findings>>

(* Variant, not the code: statuses, notes, Discord and payouts are forgotten. *)
BlockedByRank(s, c) == isAdmin[s] \/ tierLocked[s] \/ CharsOf(s) # {c}

(* mergeBlocker: account s is more than character c. *)
Blocked(s, c) == isAdmin[s] \/ tierLocked[s] \/ s \in curated \/ CharsOf(s) # {c}

(* The same owner logged in twice: the second account is absorbed. *)
LinkMerge(cb) ==
  LET c == cb.char
      s == charAccount[c]
      t == cb.for
  IN
  /\ cb \in callbacks /\ t \in Live
  /\ s \notin {NoAccount, t} /\ ownerHash[c] = cb.hash
  /\ ~Blocked(s, c)
  /\ acct' = [acct EXCEPT ![s] = "deleted"]
  /\ charAccount' = [charAccount EXCEPT ![c] = t]
  /\ main' = [main EXCEPT ![s] = NoChar, ![t] = IF @ = NoChar THEN c ELSE @]
  /\ sessions' = sessions \ {s}
  /\ enqueued' = {t}
  /\ callbacks' = callbacks \ {cb}
  /\ UNCHANGED <<ownerHash, holder, tier, tierLocked, isAdmin, granted, curated,
                 entering, findings>>

(* No row, or the row another owner left on another account. *)
LinkInsert(cb) ==
  LET c == cb.char
      t == cb.for
  IN
  /\ cb \in callbacks /\ t \in Live
  /\ \/ charAccount[c] = NoAccount
     \/ charAccount[c] # t /\ ownerHash[c] # cb.hash
  /\ charAccount' = [charAccount EXCEPT ![c] = t]
  /\ ownerHash' = [ownerHash EXCEPT ![c] = cb.hash]
  /\ main' = [MainWithout(c) EXCEPT ![t] = IF @ = NoChar THEN c ELSE @]
  /\ tier' = TierWithout(c)
  /\ isAdmin' = AdminAfterGrant(t, c)
  /\ granted' = GrantedAfter(c)
  /\ sessions' = SessionsWithout(c)
  /\ enqueued' = AccountsWokenBy(c) \union {t}
  /\ callbacks' = callbacks \ {cb}
  /\ UNCHANGED <<acct, holder, tierLocked, curated, entering, findings>>

-----------------------------------------------------------------------------
(* Losing a character *)

(* Variant, not the code: the last character can go too. *)
UnlinkAny(c) ==
  /\ charAccount[c] # NoAccount
  /\ charAccount' = [charAccount EXCEPT ![c] = NoAccount]
  /\ main' = MainWithout(c)
  /\ tier' = TierWithout(c)
  /\ enqueued' = AccountsWokenBy(c)
  /\ UNCHANGED <<acct, ownerHash, holder, tierLocked, isAdmin, granted, curated,
                 sessions, entering, callbacks, findings>>

(* unlinkCharacter: never the account's last one.  The member's own action *)
(* never asks for the sessions to be revoked.                              *)
UnlinkCharacter(c) ==
  /\ charAccount[c] # NoAccount
  /\ \E d \in Chars \ {c} : charAccount[d] = charAccount[c]
  /\ charAccount' = [charAccount EXCEPT ![c] = NoAccount]
  /\ main' = MainWithout(c)
  /\ tier' = TierWithout(c)
  /\ enqueued' = AccountsWokenBy(c)
  /\ UNCHANGED <<acct, ownerHash, holder, tierLocked, isAdmin, granted, curated,
                 sessions, entering, callbacks, findings>>

(* runTokenHealthJob: the row it read at its start carries another owner   *)
(* than the access token EVE has just issued for it.                       *)
FindTransfer(c) ==
  /\ Cardinality(findings) < MaxFindings
  /\ charAccount[c] # NoAccount /\ holder[c] # ownerHash[c]
  /\ findings' = findings \union
       {[char |-> c, account |-> charAccount[c], hash |-> ownerHash[c]]}
  /\ enqueued' = {}
  /\ UNCHANGED <<rowVars, holder, entering, callbacks>>

(* Variant, not the code: the owner hash is not compared again. *)
StillOnAccount(f) == charAccount[f.char] = f.account
(* reclaimTransferredCharacter: the row must still be the one that was read *)
StillExpected(f) == charAccount[f.char] = f.account /\ ownerHash[f.char] = f.hash

ReclaimTransferred(f) ==
  LET c == f.char IN
  /\ f \in findings /\ StillExpected(f)
  /\ charAccount' = [charAccount EXCEPT ![c] = NoAccount]
  /\ main' = MainWithout(c)
  /\ tier' = TierWithout(c)
  /\ sessions' = SessionsWithout(c)
  /\ enqueued' = AccountsWokenBy(c)
  /\ findings' = findings \ {f}
  /\ UNCHANGED <<acct, ownerHash, holder, tierLocked, isAdmin, granted, curated,
                 entering, callbacks>>

DropFinding(f) ==
  /\ f \in findings /\ ~StillExpected(f)
  /\ findings' = findings \ {f}
  /\ enqueued' = {}
  /\ UNCHANGED <<rowVars, holder, entering, callbacks>>

-----------------------------------------------------------------------------
(* The member's and the admins' own changes.  isAuthorized is a plain read *)
(* before the target is locked, so the actor may have lost the admin bit   *)
(* when the change commits; AdminNeverLost makes "somebody is admin" the   *)
(* exact condition under which such a change can still commit.             *)

SomeAdmin == Admins # {}

SetMainCharacter(a, c) ==
  /\ charAccount[c] = a
  /\ main' = [main EXCEPT ![a] = c]
  /\ enqueued' = {a}
  /\ UNCHANGED <<acct, charAccount, ownerHash, holder, tier, tierLocked, isAdmin,
                 granted, curated, sessions, entering, callbacks, findings>>

SetTierManual(a, t) ==
  /\ SomeAdmin /\ a \in Live
  /\ t \in AdminTiers /\ ~(tier[a] = t /\ tierLocked[a])
  /\ tier' = [tier EXCEPT ![a] = t]
  /\ tierLocked' = [tierLocked EXCEPT ![a] = TRUE]
  /\ enqueued' = {a}
  /\ UNCHANGED <<acct, charAccount, ownerHash, holder, main, isAdmin, granted,
                 curated, sessions, entering, callbacks, findings>>

ReturnTierToAuto(a) ==
  /\ SomeAdmin /\ a \in Live /\ tierLocked[a]
  /\ tierLocked' = [tierLocked EXCEPT ![a] = FALSE]
  /\ enqueued' = {a}
  /\ UNCHANGED <<acct, charAccount, ownerHash, holder, main, tier, isAdmin, granted,
                 curated, sessions, entering, callbacks, findings>>

(* Variant, not the code: an approval pins nothing, or takes any tier. *)
ApproveUnpinned(a, t) ==
  /\ SomeAdmin /\ a \in Live
  /\ tier[a] = "pending" /\ t \in AdminTiers
  /\ tier' = [tier EXCEPT ![a] = t]
  /\ enqueued' = {a}
  /\ UNCHANGED <<acct, charAccount, ownerHash, holder, main, tierLocked, isAdmin,
                 granted, curated, sessions, entering, callbacks, findings>>

(* Alumni stays with the membership job, associate only holds when locked. *)
ApproveAccount(a, t) ==
  /\ SomeAdmin /\ a \in Live
  /\ tier[a] = "pending" /\ t \in AdminTiers \ {"member"}
  /\ tier' = [tier EXCEPT ![a] = t]
  /\ tierLocked' = [tierLocked EXCEPT ![a] = (t = "associate")]
  /\ enqueued' = {a}
  /\ UNCHANGED <<acct, charAccount, ownerHash, holder, main, isAdmin, granted,
                 curated, sessions, entering, callbacks, findings>>

PromoteAdmin(a) ==
  /\ SomeAdmin /\ a \in Live
  /\ isAdmin' = [isAdmin EXCEPT ![a] = TRUE]
  /\ enqueued' = {}
  /\ UNCHANGED <<acct, charAccount, ownerHash, holder, main, tier, tierLocked,
                 granted, curated, sessions, entering, callbacks, findings>>

(* Variant, not the code: the last admin can resign. *)
DemoteAnyAdmin(a) ==
  /\ SomeAdmin
  /\ isAdmin' = [isAdmin EXCEPT ![a] = FALSE]
  /\ enqueued' = {}
  /\ UNCHANGED <<acct, charAccount, ownerHash, holder, main, tier, tierLocked,
                 granted, curated, sessions, entering, callbacks, findings>>

DemoteAdmin(a) ==
  /\ SomeAdmin /\ Admins \ {a} # {}
  /\ isAdmin' = [isAdmin EXCEPT ![a] = FALSE]
  /\ enqueued' = {}
  /\ UNCHANGED <<acct, charAccount, ownerHash, holder, main, tier, tierLocked,
                 granted, curated, sessions, entering, callbacks, findings>>

(* setAccountStatus, setStatusNote, linkDiscord and the payout operations   *)
(* leave something on the account that a merge must not destroy; wakeSelf, *)
(* clearing the note and unlinkDiscord take it away again.                 *)
Curate(a) ==
  /\ a \in (Live \intersect Curable) \ curated
  /\ curated' = curated \union {a}
  /\ enqueued' \in {{}, {a}}
  /\ UNCHANGED <<acct, charAccount, ownerHash, holder, main, tier, tierLocked,
                 isAdmin, granted, sessions, entering, callbacks, findings>>

Uncurate(a) ==
  /\ a \in curated
  /\ curated' = curated \ {a}
  /\ enqueued' \in {{}, {a}}
  /\ UNCHANGED <<acct, charAccount, ownerHash, holder, main, tier, tierLocked,
                 isAdmin, granted, sessions, entering, callbacks, findings>>

-----------------------------------------------------------------------------
EveCallback(cb) ==
  \/ Abandon(cb)
  \/ LoginReauth(cb)
  \/ \E a \in Accounts : LoginNew(cb, a)
  \/ LinkReauth(cb)
  \/ LinkMerge(cb)
  \/ LinkInsert(cb)

AccountStep(a) ==
  \/ CreateSession(a)
  \/ EndSession(a)
  \/ \E c \in Chars : SetMainCharacter(a, c)
  \/ \E t \in Tiers : SetTierManual(a, t) \/ ApproveAccount(a, t)
  \/ ReturnTierToAuto(a)
  \/ PromoteAdmin(a)
  \/ DemoteAdmin(a)
  \/ Curate(a)
  \/ Uncurate(a)

CharStep(c) ==
  \/ Transfer(c)
  \/ \E for \in Accounts \union {NoAccount} : Authenticate(c, for)
  \/ UnlinkCharacter(c)
  \/ FindTransfer(c)

Next ==
  \/ \E cb \in callbacks : EveCallback(cb)
  \/ \E f \in findings : ReclaimTransferred(f) \/ DropFinding(f)
  \/ \E a \in Accounts : AccountStep(a)
  \/ \E c \in Chars : CharStep(c)

Spec == Init /\ [][Next]_vars

-----------------------------------------------------------------------------
(* Every variable holds a value of its column, in every reachable state of *)
(* services/accounts.ts and admin-accounts.ts.                             *)
TypeOK ==
  /\ acct \in [Accounts -> {"free", "live", "deleted"}]
  /\ charAccount \in [Chars -> Accounts \union {NoAccount}]
  /\ ownerHash \in [Chars -> Owners]
  /\ holder \in [Chars -> Owners]
  /\ main \in [Accounts -> Chars \union {NoChar}]
  /\ tier \in [Accounts -> Tiers]
  /\ tierLocked \in [Accounts -> BOOLEAN]
  /\ isAdmin \in [Accounts -> BOOLEAN]
  /\ granted \subseteq BootstrapChars
  /\ curated \subseteq Accounts
  /\ sessions \subseteq Accounts
  /\ entering \subseteq Accounts
  /\ enqueued \subseteq Accounts
  /\ callbacks \subseteq Callback
  /\ findings \subseteq Finding

(* An account's main is always one of its own characters, through every    *)
(* reclaim, merge, unlink and change of main in any order: the deferred    *)
(* main-character key (drizzle/0001_main_character_fk.sql) never fires.    *)
MainOwned == \A a \in Accounts : main[a] # NoChar => charAccount[main[a]] = a

(* Nothing outlives an account: no character row, session, status, note,   *)
(* Discord link or payout row belongs to an account that a merge deleted,  *)
(* and the deleted account was neither admin nor pinned.                   *)
NothingOutlivesAccount ==
  /\ \A c \in Chars : charAccount[c] # NoAccount => charAccount[c] \in Live
  /\ \A a \in Accounts : isAdmin[a] \/ tierLocked[a] => a \in Live
  /\ curated \subseteq Live
  /\ sessions \subseteq Live

(* Once somebody is admin somebody always is: mutual demotion, merges and  *)
(* reclaims never leave the installation without one.                      *)
AdminNeverLost == [][Admins # {} => Admins' # {}]_vars

(* An account becomes admin by promotion, or by linking a bootstrap        *)
(* character whose grant nobody has consumed: relinking, selling or        *)
(* merging a character never earns the grant again.                        *)
BootstrapNotReearned ==
  [][\A a \in Accounts : a \in Admins' \ Admins =>
       \/ PromoteAdmin(a)
       \/ \E c \in BootstrapChars \ granted : c \in granted' /\ charAccount'[c] = a]_vars

(* The database never takes a character from its present owner's account:  *)
(* the row of a character whose recorded owner is current goes away only   *)
(* by unlinking, by the merge of that same owner, or by an SSO callback    *)
(* that EVE vouched for before the character changed hands.                *)
CurrentOwnerKeepsCharacter ==
  [][\A c \in Chars :
       /\ charAccount[c] # NoAccount /\ charAccount'[c] # charAccount[c]
       /\ ownerHash[c] = holder[c]
       => \/ UnlinkCharacter(c)
          \/ charAccount'[c] # NoAccount /\ ownerHash'[c] = holder[c]
          \/ \E cb \in callbacks \ callbacks' : cb.char = c /\ cb.hash # holder[c]]_vars

(* A pending account stays pending until an admin approves it or sets its  *)
(* tier: losing its main, or its main's sale, is never an approval.        *)
PendingHeldForApproval ==
  [][\A a \in Live : tier[a] = "pending" /\ tier'[a] # "pending" =>
       \E t \in Tiers : ApproveAccount(a, t) \/ SetTierManual(a, t)]_vars

(* An account that has characters keeps one unless the last was sold: only *)
(* a change of owner empties an account.                                   *)
OnlyTransferEmpties ==
  [][\A a \in Live : CharsOf(a) # {} /\ CharsOf(a)' = {} /\ acct'[a] = "live" =>
       \E c \in CharsOf(a) : \/ \E f \in findings \ findings' : f.char = c
                             \/ \E cb \in callbacks \ callbacks' :
                                  cb.char = c /\ cb.hash # ownerHash[c]]_vars

(* Nothing that the sync jobs project outwards changes behind their back:  *)
(* whoever gains or loses a character, a main, a tier or a pin, on either  *)
(* side of a reclaim or a merge, is in the outbox by the same transaction. *)
EveryChangeWakes ==
  [][\A a \in Accounts :
       /\ acct'[a] = "live"
       /\ \/ tier'[a] # tier[a] \/ tierLocked'[a] # tierLocked[a]
          \/ main'[a] # main[a]
          \/ \E c \in Chars : charAccount'[c] # charAccount[c] /\ a \in {charAccount[c], charAccount'[c]}
       => a \in enqueued']_vars

(* Identity implements the tier state machine: every transaction on        *)
(* accounts, characters, sessions and admins is one of its moves or leaves *)
(* the tiers alone.  This is what lets Membership take AccountTiers for    *)
(* everything members and admins do.                                       *)
AT == INSTANCE AccountTiers
TierMachine == AT!Spec
=============================================================================
