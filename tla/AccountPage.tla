------------------------------ MODULE AccountPage ------------------------------
(* What a member's page and the admins' list make of what they read of an      *)
(* account: services/account-view.ts, core/account-health.ts, core/location.ts,*)
(* app/account/contact-state.tsx, app/admin/accounts/page.tsx.                 *)
(*                                                                             *)
(* A page p has the rows of the account's characters (status and at, token and *)
(* time of the last location; dock; scoped, no required scope is missing), its *)
(* tier, the result the contacts job left for each character, the time pushed  *)
(* at which discord-roles last finished, the docks whose names are cached, and *)
(* the time it is shown.  The parts are read in no transaction: each may be of *)
(* another moment.                                                             *)
EXTENDS Naturals, FiniteSetsExt

CONSTANTS
  Cadence,       \* LOCATION_CADENCE_MS
  PushDue,       \* the period of discord-roles, with its grace
  None

Rows(p) == DOMAIN p.rows

\* formatLocation and shortenDock, told apart by detail.
FormatLocation(p, c) ==
  IF p.rows[c].at = None THEN "never"
  ELSE IF p.rows[c].dock = None THEN "in space"
  ELSE IF p.rows[c].dock \in p.named THEN p.rows[c].dock ELSE "Docked"

\* locationFreshness.
Times(p) == {p.rows[c].at : c \in {d \in Rows(p) : p.rows[d].at # None}}
\* Variant, not the code: the newest reading wins, as it does for the map.
AsOfNewest(p) == IF Times(p) = {} THEN None ELSE Max(Times(p))
AsOf(p) == IF Times(p) = {} THEN None ELSE Min(Times(p))
Stale(p, c) == p.rows[c].at # None /\ Max(Times(p)) - p.rows[c].at > Cadence

-----------------------------------------------------------------------------
(* core/account-health.ts *)

IsContactsTarget(p, c) == p.tier = "member" /\ ~p.rows[c].gone
MemberFixable == {"missing_label", "label_mismatch", "token_invalid", "missing_scope", "needs_reauth"}

NeedsAttention(p, c) ==
  \/ p.rows[c].status # "valid" \/ ~p.rows[c].scoped
  \/ IsContactsTarget(p, c) /\ p.result[c] \in MemberFixable
IsStalled(p, c) ==
  ~NeedsAttention(p, c) /\ IsContactsTarget(p, c) /\ p.result[c] \notin {None, "ok"}

FirstSyncPending(p) ==
  LET targets == {c \in Rows(p) : IsContactsTarget(p, c)} IN
  targets # {} /\ \A c \in targets : p.result[c] = None
\* A link without a push yet is not late.
DiscordStale(p) == p.linked /\ p.pushed # None /\ p.shown - p.pushed > PushDue

\* Variant, not the code: a first run still to come hides a push that stopped.
VerdictPendingFirst(p) ==
  IF \E c \in Rows(p) : NeedsAttention(p, c) THEN "degraded"
  ELSE IF \E c \in Rows(p) : IsStalled(p, c) THEN "stalled"
  ELSE IF FirstSyncPending(p) THEN "first-sync-pending"
  ELSE IF DiscordStale(p) THEN "discord-stale" ELSE "nominal"
Verdict(p) ==
  IF \E c \in Rows(p) : NeedsAttention(p, c) THEN "degraded"
  ELSE IF \E c \in Rows(p) : IsStalled(p, c) THEN "stalled"
  ELSE IF DiscordStale(p) THEN "discord-stale"
  ELSE IF FirstSyncPending(p) THEN "first-sync-pending" ELSE "nominal"

-----------------------------------------------------------------------------
(* app/account: the texts under a row.                                        *)

HasContactRemedy(p, c) == IsContactsTarget(p, c) /\ p.result[c] \notin {None, "ok"}
\* ContactRemedy: whom it asks to do something.
RemedyAsks(p, c) ==
  IF ~HasContactRemedy(p, c) THEN "nobody" ELSE
  CASE p.result[c] \in {"missing_label", "label_mismatch"} -> "the member"
    [] p.result[c] \in {"token_invalid", "missing_scope", "needs_reauth"} -> "the member"
    [] p.result[c] \in {"token_refresh_failed", "sync_failed"} -> "nobody"
    [] OTHER -> "an admin"

-----------------------------------------------------------------------------
(* The admins' list: tokenSummary and tokenState.                             *)

Dead(p) == {c \in Rows(p) : p.rows[c].status \in {"invalid", "missing"}}
NeedsReauth(p) ==
  {c \in Rows(p) \ Dead(p) : p.rows[c].status = "needs_reauth" \/ ~p.rows[c].scoped}
Healthy(p) == Rows(p) \ (Dead(p) \union NeedsReauth(p))
TokenTone(p) ==
  IF Rows(p) = {} THEN "off"
  ELSE IF Healthy(p) = {} \/ p.main \in Dead(p) THEN "bad"
  ELSE IF Dead(p) \union NeedsReauth(p) # {} THEN "warn" ELSE "ok"

-----------------------------------------------------------------------------
(* What holds of any page, whatever its parts are.                            *)

\* The headline, the texts under the rows and the admins' list agree: "degraded"
\* stands if and only if the member is asked for something; a headline of rest
\* means that nobody is asked, that no push is late and that no token is counted
\* as bad.
HeadlineAgrees(p) ==
  /\ Verdict(p) = "degraded" <=>
       \E c \in Rows(p) : RemedyAsks(p, c) = "the member" \/ c \in Dead(p) \union NeedsReauth(p)
  /\ Verdict(p) \in {"nominal", "first-sync-pending"} =>
       /\ \A c \in Rows(p) : ~HasContactRemedy(p, c)
       /\ p.linked /\ p.pushed # None => p.pushed + PushDue >= p.shown
       /\ TokenTone(p) \in {"ok", "off"}
=============================================================================
