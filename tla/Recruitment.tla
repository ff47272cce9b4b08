----------------------------- MODULE Recruitment -----------------------------
(* The collection of recruitment evidence (services/recruitment.ts): an admin  *)
(* asks for what EVE holds of every character of an account.  The linked set   *)
(* is captured in one transaction, the characters are read one by one with no  *)
(* lock held, and a second transaction releases the export or refuses it.  In  *)
(* between the account changes hands, the admin signs out or is demoted.       *)
EXTENDS Naturals, FiniteSets, Sequences

CONSTANTS
  Characters,     \* 1..n, in the order of their ids
  Accounts, Target, Actor,
  Owners,         \* owner hashes
  MaxEpoch,       \* bound on fleetLinkEpoch: a fresh uuid every time
  None

NoLink == [account |-> None, owner |-> None, epoch |-> 0]

VARIABLES
  row,        \* character rows; NoLink when there is none
  isAdmin,    \* the actor's account.isAdmin
  session,    \* the actor's session is there and has not expired
  known,      \* the target's account row is there
  phase,      \* "idle", "collecting", "released", "failed"
  captured,   \* the rows of the first transaction
  unread,     \* captured characters not yet collected
  audit,      \* rows the collection wrote
  epoch,      \* last epoch given out
  disturbed   \* history: a captured character has left since the capture
people == <<row, isAdmin, session, known, epoch, disturbed>>
run    == <<phase, captured, unread, audit>>
vars   == <<people, run>>

Init ==
  /\ row \in [Characters -> {NoLink} \union [account : Accounts, owner : Owners, epoch : {0}]]
  /\ isAdmin = TRUE /\ session = TRUE /\ known = TRUE
  /\ phase = "idle" /\ captured = {} /\ unread = {} /\ audit = << >>
  /\ epoch = 0 /\ disturbed = FALSE

-----------------------------------------------------------------------------
(* Meanwhile *)

Disturb(c) == disturbed' = (disturbed \/ (phase = "collecting" /\ \E l \in captured : l.id = c))
\* tokenFields and the merge: a character that enters an account, or whose owner
\* changed, gets a fresh epoch; one that signs in again keeps its own.
Enter(c, a, o) ==
  /\ epoch < MaxEpoch /\ <<row[c].account, row[c].owner>> # <<a, o>>
  /\ a = Target => known
  /\ epoch' = epoch + 1
  /\ row' = [row EXCEPT ![c] = [account |-> a, owner |-> o, epoch |-> epoch + 1]]
  /\ Disturb(c)
  /\ UNCHANGED <<isAdmin, session, known, run>>
\* An unlinked or reclaimed character's row is deleted.
Unlink(c) ==
  /\ row[c] # NoLink
  /\ row' = [row EXCEPT ![c] = NoLink]
  /\ Disturb(c)
  /\ UNCHANGED <<isAdmin, session, known, epoch, run>>
\* An account merged into another goes when its last character has left.
MergeAway ==
  /\ known /\ Target # Actor /\ \A c \in Characters : row[c].account # Target
  /\ known' = FALSE
  /\ UNCHANGED <<row, isAdmin, session, epoch, disturbed, run>>
SignOut == session /\ session' = FALSE /\ UNCHANGED <<row, isAdmin, known, epoch, disturbed, run>>
Demote  == isAdmin /\ isAdmin' = FALSE /\ UNCHANGED <<row, session, known, epoch, disturbed, run>>

-----------------------------------------------------------------------------
(* collectRecruitmentEvidence *)

RequireAdmin == isAdmin /\ session
\* linkedCharacters: whole rows, in the order of their ids.
LinkedCharacters == {[id |-> c, row |-> row[c]] : c \in {c \in Characters : row[c].account = Target}}

\* From here on a failure is audited; writing that row may fail too.
Fail(why) ==
  /\ phase' = "failed" /\ unread' = {}
  /\ \/ audit' = Append(audit, why)
     \/ audit' = audit
  /\ UNCHANGED captured

\* Refused before it is authorised, a request leaves nothing behind.
Capture ==
  /\ phase = "idle" /\ RequireAdmin /\ known
  /\ captured' = LinkedCharacters
  /\ unread' = {l.id : l \in captured'}
  /\ IF captured' = {}
     THEN phase' = "failed" /\ (audit' = Append(audit, "failed") \/ audit' = audit)
     ELSE phase' = "collecting" /\ audit' = audit
  /\ UNCHANGED people

\* The lowest unread character, with the token of its captured row.  The identity
\* the token is verified to have may be another than the captured one; a token
\* that cannot be had or verified is no reason to stop.
Collect ==
  /\ phase = "collecting" /\ unread # {}
  /\ LET c == CHOOSE c \in unread : \A d \in unread : c <= d IN
     \/ unread' = unread \ {c} /\ UNCHANGED <<phase, captured, audit>>
     \/ Fail("identity_changed")
  /\ UNCHANGED people
\* A quota, a bounded statement or a bug ends the collection.
Break ==
  /\ phase = "collecting" /\ Fail("failed")
  /\ UNCHANGED people

\* Variant, not the code: the same ids, accounts and owners are the same links.
SameOwners ==
  {[id |-> l.id, account |-> l.row.account, owner |-> l.row.owner] : l \in captured}
    = {[id |-> l.id, account |-> l.row.account, owner |-> l.row.owner] : l \in LinkedCharacters}
\* The whole set as it is now is the captured one, row by row.
SameLinks == captured = LinkedCharacters
\* Under the locks of the characters, the accounts and the session.
Release ==
  /\ phase = "collecting" /\ unread = {}
  /\ IF RequireAdmin /\ known /\ SameLinks
     THEN /\ phase' = "released" /\ audit' = Append(audit, "collected")
          /\ UNCHANGED <<captured, unread>>
     ELSE Fail(IF RequireAdmin THEN "identity_changed" ELSE "not_authorized")
  /\ UNCHANGED people

Next ==
  \/ \E c \in Characters : Unlink(c) \/ \E a \in Accounts, o \in Owners : Enter(c, a, o)
  \/ MergeAway \/ SignOut \/ Demote
  \/ Capture \/ Collect \/ Break \/ Release
Spec == Init /\ [][Next]_vars

-----------------------------------------------------------------------------
\* An export is of characters that were the account's all along: from the capture
\* to the release none of them was unlinked, moved or sold, not even to be back in
\* its place with the same owner by the time the set is compared.  (A character
\* that came after the capture and left before the release is not noticed.)
ReleasedUnchanged == [][phase' = "released" /\ phase # "released" => ~disturbed]_vars
===============================================================================
