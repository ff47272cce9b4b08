----------------------------- MODULE Credentials -----------------------------
(* The refresh token of one character (services/tokens.ts) between those who  *)
(* use it: the jobs and requests that exchange it at EVE, which spends it and *)
(* issues another one; token-health, which verifies what it got; the contacts *)
(* job, to which ESI may refuse it; the members who authorise the character   *)
(* anew (services/oauth-tx.ts and the callback); and EVE, where a grant can   *)
(* be withdrawn.  No lock is held while EVE is asked, so every write that     *)
(* follows compares the stored blob with the one its reader started from.     *)
(*                                                                            *)
(* Tokens are numbered in the order EVE issues them.                          *)
EXTENDS Naturals, Sequences

CONSTANTS
  Workers, Flows,    \* jobs and requests; authorisations begun
  Scopes, Required, FleetRead,
  MaxTokens,         \* bound: tokens EVE issues
  Consents,          \* bound: the sets of scopes members consent to
  NoFlow, Idle

ASSUME CredentialsAssumption ==
  /\ Required \subseteq Scopes /\ FleetRead \in Scopes /\ Consents \subseteq SUBSET Scopes
  /\ MaxTokens \in Nat /\ NoFlow \notin Flows

Tokens == 1..MaxTokens
Statuses == {"valid", "needs_reauth", "invalid"}
Kinds == {"sync", "health", "contacts", "access"}

(* row: the character's token columns; flow: oauth_transaction rows and the   *)
(* callbacks that consumed them; issued, live: EVE's tokens by the grant they *)
(* belong to, and those that still work; work: who holds what.  The rest is   *)
(* history: authorized is the grant the member gave last, verdicts are the    *)
(* tokens that were found to be no good.                                      *)
VARIABLES row, flow, issued, live, work, authorized, verdicts
vars == <<row, flow, issued, live, work, authorized, verdicts>>

NoRow == [enc |-> 0, status |-> "invalid", scopes |-> {}]
RowType == [enc : 0..MaxTokens, status : Statuses, scopes : SUBSET Scopes]
FlowType == [state : {"none", "open", "called", "over"}, intent : {"login", "grant-fleet-read"},
             scopes : SUBSET Scopes, token : 0..MaxTokens]
WorkType == [kind : Kinds, at : {"asking", "denied", "answered", "holding"},
             enc : Tokens, new : 0..MaxTokens]

Init ==
  /\ row = NoRow
  /\ flow = [f \in Flows |-> [state |-> "none", intent |-> "login", scopes |-> {}, token |-> 0]]
  /\ issued = << >>  /\ live = {}
  /\ work = [w \in Workers |-> Idle]
  /\ authorized = NoFlow /\ verdicts = {}

Issued == Len(issued)
At(w, stage) == work[w] # Idle /\ work[w].at = stage
StatusFor(scopes) == IF Required \subseteq scopes THEN "valid" ELSE "needs_reauth"
Usable == row.enc # 0 /\ row.status # "invalid"

\* EVE issues the next token of a grant.
IssueFor(f) ==
  /\ Issued < MaxTokens
  /\ issued' = Append(issued, f)

-----------------------------------------------------------------------------
(* A member authorises the character.                                         *)

BeginFlow(f, intent) ==
  /\ flow[f].state = "none"
  /\ intent = "grant-fleet-read" => Usable
  /\ flow' = [flow EXCEPT ![f].state = "open", ![f].intent = intent]
  /\ UNCHANGED <<row, issued, live, work, authorized, verdicts>>

\* The callback consumes the transaction, once, and exchanges the code.
Callback(f, scopes) ==
  /\ flow[f].state = "open"
  /\ IssueFor(f)
  /\ live' = live \union {Issued + 1}
  /\ flow' = [flow EXCEPT ![f] = [@ EXCEPT !.state = "called", !.scopes = scopes,
                                           !.token = Issued + 1]]
  /\ UNCHANGED <<row, work, authorized, verdicts>>

\* It expires, the exchange fails, or the callback's transaction does.
FlowFails(f) ==
  /\ flow[f].state \in {"open", "called"}
  /\ flow' = [flow EXCEPT ![f].state = "over"]
  /\ UNCHANGED <<row, issued, live, work, authorized, verdicts>>

\* completeFleetReadGrant takes no fewer scopes than there are.
Acceptable(f) ==
  flow[f].intent = "grant-fleet-read" =>
    row.enc # 0 /\ Required \union row.scopes \union {FleetRead} \subseteq flow[f].scopes

\* A login, a link or a grant writes all the token's columns at once.
StoreGrant(f) ==
  /\ flow[f].state = "called" /\ Acceptable(f)
  /\ row' = [enc |-> flow[f].token, status |-> StatusFor(flow[f].scopes),
             scopes |-> flow[f].scopes]
  /\ authorized' = f
  /\ flow' = [flow EXCEPT ![f].state = "over"]
  /\ UNCHANGED <<issued, live, work, verdicts>>

Unlink ==
  /\ row.enc # 0
  /\ row' = NoRow
  /\ UNCHANGED <<flow, issued, live, work, authorized, verdicts>>

\* The member withdraws a grant at EVE, with every token of it.
Withdraw(f) ==
  /\ \E t \in live : issued[t] = f
  /\ live' = {t \in live : issued[t] # f}
  /\ UNCHANGED <<row, flow, issued, work, authorized, verdicts>>

-----------------------------------------------------------------------------
(* Using the token.                                                           *)

Stopped(w) == work' = [work EXCEPT ![w] = Idle]

\* A check of fleet access asks for its scope.  (That it waits for its minute
\* only spaces the checks.)
Authorized(kind) == kind = "access" => FleetRead \in row.scopes

\* The row is read, under no lock.
Read(w, kind) ==
  /\ work[w] = Idle /\ Usable /\ Authorized(kind)
  /\ work' = [work EXCEPT ![w] = [kind |-> kind, at |-> "asking", enc |-> row.enc, new |-> 0]]
  /\ UNCHANGED <<row, flow, issued, live, authorized, verdicts>>

\* EVE rotates the token it is given; the answer may be lost on its way.
Rotate(w, arrives) ==
  LET t == work[w].enc IN
  /\ At(w, "asking") /\ t \in live
  /\ IssueFor(issued[t])
  /\ live' = (live \ {t}) \union {Issued + 1}
  /\ work' = [work EXCEPT ![w] =
       IF arrives THEN [@ EXCEPT !.at = "answered", !.new = Issued + 1] ELSE Idle]
  /\ UNCHANGED <<row, flow, authorized, verdicts>>

\* invalid_grant: the token was used or withdrawn before.
Deny(w) ==
  /\ At(w, "asking") /\ work[w].enc \notin live
  /\ work' = [work EXCEPT ![w].at = "denied"]
  /\ verdicts' = verdicts \union {work[w].enc}
  /\ UNCHANGED <<row, flow, issued, live, authorized>>

\* A transient failure, a write that times out, a death of the worker: what it
\* holds is gone, the rotated token included.
GiveUp(w) ==
  /\ work[w] # Idle
  /\ Stopped(w)
  /\ UNCHANGED <<row, flow, issued, live, authorized, verdicts>>

\* Variant, not the code: the row is still there, whatever it holds.
SomethingStored(e) == row.enc # 0
\* The compare of every compare-and-set: the blob is the one that was read.
StillStored(e) == row.enc = e

\* The replacement is stored, and nothing else of the row is touched.
Persist(w) ==
  LET won == StillStored(work[w].enc) IN
  /\ At(w, "answered")
  /\ row' = IF won THEN [row EXCEPT !.enc = work[w].new] ELSE row
  /\ work' = [work EXCEPT ![w] =
       IF won /\ @.kind # "sync" THEN [@ EXCEPT !.at = "holding"] ELSE Idle]
  /\ UNCHANGED <<flow, issued, live, authorized, verdicts>>

\* invalidateTokenIfUnchanged
Invalidated(e) == row' = IF StillStored(e) THEN [row EXCEPT !.status = "invalid"] ELSE row

Condemn(w) ==
  /\ At(w, "denied")
  /\ Invalidated(work[w].enc)
  /\ Stopped(w)
  /\ UNCHANGED <<flow, issued, live, authorized, verdicts>>

\* token-health: the new token does not verify, or is another character's.
Unverified(w) ==
  /\ At(w, "holding") /\ work[w].kind = "health"
  /\ Invalidated(work[w].new)
  /\ verdicts' = verdicts \union {work[w].new}
  /\ Stopped(w)
  /\ UNCHANGED <<flow, issued, live, authorized>>

\* token-health: it does, and tells the scopes that were really granted.
Verified(w) ==
  LET scopes == flow[issued[work[w].new]].scopes IN
  /\ At(w, "holding") /\ work[w].kind = "health"
  /\ row' = IF StillStored(work[w].new)
            THEN [row EXCEPT !.scopes = scopes, !.status = StatusFor(scopes)] ELSE row
  /\ Stopped(w)
  /\ UNCHANGED <<flow, issued, live, authorized, verdicts>>

\* contacts: ESI asks for another authorisation.
Refused(w) ==
  /\ At(w, "holding") /\ work[w].kind = "contacts"
  /\ row' = IF StillStored(work[w].new) THEN [row EXCEPT !.status = "needs_reauth"] ELSE row
  /\ Stopped(w)
  /\ UNCHANGED <<flow, issued, live, authorized, verdicts>>

-----------------------------------------------------------------------------
Next ==
  \/ \E f \in Flows : \/ \E i \in {"login", "grant-fleet-read"} : BeginFlow(f, i)
                      \/ \E s \in Consents : Callback(f, s)
                      \/ FlowFails(f) \/ StoreGrant(f) \/ Withdraw(f)
  \/ Unlink
  \/ \E w \in Workers : \/ \E k \in Kinds : Read(w, k)
                        \/ \E arrives \in BOOLEAN : Rotate(w, arrives)
                        \/ Deny(w) \/ GiveUp(w) \/ Persist(w) \/ Condemn(w)
                        \/ Unverified(w) \/ Verified(w) \/ Refused(w)

Spec == Init /\ [][Next]_vars

-----------------------------------------------------------------------------
TypeOK ==
  /\ row \in RowType /\ flow \in [Flows -> FlowType]
  /\ issued \in Seq(Flows) /\ Issued \in 0..MaxTokens /\ live \subseteq 1..Issued
  /\ work \in [Workers -> WorkType \union {Idle}]
  /\ authorized \in Flows \union {NoFlow} /\ verdicts \subseteq Tokens

\* Rotation never undoes an authorisation: whatever jobs were under way with an
\* older token, the row holds one of the grant the member gave last, with that
\* grant's scopes, and is valid only if these are all that is required.
RowIsOfLastGrant ==
  row.enc # 0 =>
    /\ issued[row.enc] = authorized /\ row.scopes = flow[authorized].scopes
    /\ row.status = "valid" => Required \subseteq row.scopes

\* A row is invalid only for the token it holds: a verdict on a token that
\* another job has rotated meanwhile condemns nothing (services/tokens.ts:165).
VerdictFitsToken ==
  row.enc # 0 /\ row.status = "invalid" => row.enc \in verdicts
=============================================================================
