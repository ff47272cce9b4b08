---------------------------- MODULE FleetAccess ----------------------------
(* The check of fleet access a member asks for (services/fleet-access.ts, its *)
(* form in app/account/fleet-sharing/actions.ts): requests of one account,    *)
(* each asking EVE under no lock which fleet the anchor character is in, while *)
(* the character is authorised anew, sold or taken away, its token is rotated *)
(* by jobs, and the account loses its tier or is merged away.  A gate row     *)
(* keeps the checks a minute apart, and as far as EVE asks.  The roster is    *)
(* whether it names the anchor; the linked characters it is projected on, and *)
(* the difference between the clocks of web host and database, are left out.  *)
EXTENDS Naturals, FiniteSets, FiniteSetsExt

CONSTANTS
  Checks,                     \* requests
  MaxTokens,                  \* bound: tokens EVE issues for the character
  Cooldown, Budget, MaxNow,   \* the gate's minute, EXTERNAL_BUDGET_MS, bound on time
  Waits,                      \* how long EVE may ask to wait
  None

VARIABLES
  account,  \* its tier: "member", "below", or "gone"
  link,     \* the anchor: [here, owner, token, authorized]
  touched,  \* history: how often the anchor was authorised anew or changed hands
  spent,    \* refresh tokens EVE will not take any more
  issued,   \* the last token EVE issued
  gate,     \* fleet_access_check_gate.next_allowed_at (None: no row)
  told,     \* history: the latest time a caller was told to come back at
  check, now
world == <<account, link, touched>>
sso   == <<spent, issued>>
vars  == <<world, sso, gate, told, check, now>>

AtRest == [stage |-> "idle", token |-> 0, owner |-> 0, touched |-> 0, until |-> 0,
         arrived |-> FALSE, saved |-> FALSE, boundary |-> 0, code |-> None, seen |-> 0]

Init ==
  /\ account = "member"
  /\ link = [here |-> TRUE, owner |-> 1, token |-> 1, authorized |-> TRUE]
  /\ touched = 0 /\ spent = {} /\ issued = 1
  /\ gate = None /\ told = 0 /\ now = 0
  /\ check = [c \in Checks |-> AtRest]

-----------------------------------------------------------------------------
(* What happens to the character and the account meanwhile.                   *)

World == UNCHANGED <<gate, told, check, now>>
\* The member authorises the anchor anew, here or for another account, under the
\* present owner or after a sale.
Authorize(here, sold) ==
  /\ issued < MaxTokens
  /\ issued' = issued + 1
  /\ link' = [here |-> here, owner |-> IF sold THEN link.owner + 1 ELSE link.owner,
              token |-> issued + 1, authorized |-> TRUE]
  /\ touched' = touched + 1
  /\ UNCHANGED <<account, spent>> /\ World
\* It is taken from the account, with its token.
Unlink ==
  /\ link.here
  /\ link' = [link EXCEPT !.here = FALSE, !.token = 0, !.authorized = FALSE]
  /\ touched' = touched + 1
  /\ UNCHANGED <<account, sso>> /\ World
\* A job rotates its token, and leaves the rest alone.
RotatedByJob ==
  /\ link.token # 0 /\ link.token \notin spent /\ issued < MaxTokens
  /\ spent' = spent \union {link.token} /\ issued' = issued + 1
  /\ link' = [link EXCEPT !.token = issued + 1]
  /\ UNCHANGED <<account, touched>> /\ World
\* The tier changes; a merge takes the account, its gate and its characters away.
Retiered(tier) ==
  /\ account \notin {tier, "gone"}
  /\ account' = tier
  /\ UNCHANGED <<link, touched, sso>> /\ World
MergedAway ==
  /\ account # "gone"
  /\ account' = "gone" /\ gate' = None
  /\ link' = [link EXCEPT !.here = FALSE]
  /\ touched' = IF link.here THEN touched + 1 ELSE touched
  /\ UNCHANGED <<sso, told, check, now>>
Tick == now < MaxNow /\ now' = now + 1 /\ UNCHANGED <<world, sso, gate, told, check>>

-----------------------------------------------------------------------------
At(c, stage) == check[c].stage = stage
Put(c, e)    == check' = [check EXCEPT ![c] = e]
Expired(c)   == now >= check[c].until

\* The answer, unless EVE asked to stay away still: then the gate is moved first.
Answer(c, e, code) ==
  Put(c, [e EXCEPT !.code = code, !.stage = "done", !.token = 0, !.owner = 0, !.until = 0, !.boundary = 0])
Conclude(c, e, code) ==
  IF e.boundary > now THEN Put(c, [e EXCEPT !.code = code, !.stage = "extend"]) ELSE Answer(c, e, code)
\* A failure of the database, or the refusal that needs no EVE.
Refuse(c, code) == Answer(c, check[c], code)
\* An answer of EVE may ask to stay away.
Hear(c, wait) == [check[c] EXCEPT !.boundary = IF wait = 0 THEN @ ELSE Max({@, now + wait})]

Authorized == link.here /\ link.authorized /\ link.token # 0

\* snapshot: tier and links in one statement.
Before(c) ==
  /\ At(c, "idle")
  /\ IF account # "member" THEN Refuse(c, "not_eligible")
     ELSE IF ~Authorized THEN Refuse(c, "not_authorized")
     ELSE Put(c, [check[c] EXCEPT !.stage = "claim", !.token = link.token,
                                  !.owner = link.owner, !.touched = touched])
  /\ UNCHANGED <<world, sso, gate, told, now>>

Open == IF gate = None THEN TRUE ELSE gate <= now

\* One statement claims the minute; the loser is told when to come back.
Claim(c) ==
  /\ At(c, "claim")
  /\ IF account = "gone"
     THEN Refuse(c, "service_unavailable") /\ UNCHANGED <<gate, told>>
     ELSE IF Open
     THEN /\ gate' = now + Cooldown /\ told' = Max({told, gate'})
          /\ Put(c, [check[c] EXCEPT !.stage = "refresh", !.until = now + Budget])
     ELSE /\ told' = Max({told, gate})
          /\ Refuse(c, "cooldown") /\ UNCHANGED gate
  /\ UNCHANGED <<world, sso, now>>
\* A short transaction fails, or waits a second for a lock.
Unserved(c) ==
  /\ check[c].stage \in {"idle", "claim"}
  /\ Refuse(c, "service_unavailable")
  /\ UNCHANGED <<world, sso, gate, told, now>>

-----------------------------------------------------------------------------
(* getFreshAccessToken, whose credential writes are never raced with the      *)
(* budget.                                                                    *)

\* EVE spends the token and issues another; the answer arrives whole, or breaks
\* off, or is not waited for.
Exchange(c, arrives, wait) ==
  /\ At(c, "refresh") /\ ~Expired(c)
  /\ check[c].token \notin spent /\ issued < MaxTokens
  /\ spent' = spent \union {check[c].token} /\ issued' = issued + 1
  /\ IF arrives
     THEN Put(c, [Hear(c, wait) EXCEPT !.stage = "rotated", !.token = issued + 1, !.arrived = TRUE,
                                       !.seen = check[c].token])
     ELSE \E code \in {"timed_out", "service_unavailable"} : Conclude(c, Hear(c, wait), code)
  /\ UNCHANGED <<world, gate, told, now>>
Denied(c, wait) ==
  /\ At(c, "refresh") /\ ~Expired(c) /\ check[c].token \in spent
  /\ Put(c, [Hear(c, wait) EXCEPT !.stage = "denied"])
  /\ UNCHANGED <<world, sso, gate, told, now>>
\* EVE is not reached, or answers with an error that says nothing of the token.
NotExchanged(c, wait) ==
  /\ At(c, "refresh")
  /\ Conclude(c, Hear(c, IF Expired(c) THEN 0 ELSE wait),
              IF Expired(c) THEN "timed_out" ELSE "service_unavailable")
  /\ UNCHANGED <<world, sso, gate, told, now>>

\* Variants, not the code: the clock decides what a write that failed is called; a
\* blob that was replaced meanwhile is overwritten.
LateOrUnavailable(c) == IF Expired(c) THEN "timed_out" ELSE "service_unavailable"
SettlementFailed(c) == IF ~check[c].arrived /\ Expired(c) THEN "timed_out" ELSE "service_unavailable"

\* Stored, if the blob is the one that was read; the write may fail.
Settle(c, works) ==
  /\ At(c, "rotated")
  /\ IF ~works
     THEN Conclude(c, check[c], SettlementFailed(c)) /\ UNCHANGED link
     ELSE IF link.token # check[c].seen
     THEN Conclude(c, check[c], "identity_changed") /\ UNCHANGED link
     ELSE link' = [link EXCEPT !.token = check[c].token]
          /\ Put(c, [check[c] EXCEPT !.stage = "membership", !.saved = TRUE])
  /\ UNCHANGED <<account, touched, sso, gate, told, now>>
\* invalidateTokenIfUnchanged; if it throws, that is not a timeout.
Condemn(c, works) ==
  /\ At(c, "denied")
  /\ IF ~works
     THEN Conclude(c, check[c], "service_unavailable") /\ UNCHANGED link
     ELSE IF link.token # check[c].token
     THEN Conclude(c, check[c], "identity_changed") /\ UNCHANGED link
     ELSE link' = [link EXCEPT !.authorized = FALSE]
          /\ Conclude(c, check[c], IF Expired(c) THEN "timed_out" ELSE "authorization_rejected")
  /\ UNCHANGED <<account, touched, sso, gate, told, now>>

-----------------------------------------------------------------------------
(* The fleet and its roster, within the budget.                               *)

Asking(c) == check[c].stage \in {"membership", "roster"}
OutOfTime(c) ==
  /\ Asking(c) /\ Expired(c)
  /\ Conclude(c, check[c], "timed_out")
  /\ UNCHANGED <<world, sso, gate, told, now>>
\* 401 or 403; 404; 420, 429 or 5xx; something that is no fleet or no roster.
Codes(c) == {"authorization_rejected", "service_unavailable", "roster_unavailable"}
            \union (IF At(c, "membership") THEN {"not_in_fleet"} ELSE {})
NotAnswered(c, code, wait) ==
  /\ Asking(c) /\ ~Expired(c) /\ code \in Codes(c)
  /\ Conclude(c, Hear(c, wait), code)
  /\ UNCHANGED <<world, sso, gate, told, now>>
Answered(c, wait) ==
  /\ Asking(c) /\ ~Expired(c)
  /\ Put(c, [Hear(c, wait) EXCEPT !.stage = IF @ = "membership" THEN "roster" ELSE "after"])
  /\ UNCHANGED <<world, sso, gate, told, now>>

\* Variant, not the code: the tokens are not compared.
SameOwner(c) == Authorized /\ link.owner = check[c].owner
Unmoved(c) == Authorized /\ link.owner = check[c].owner /\ link.token = check[c].token

\* The second snapshot decides whether what EVE said is still about this account.
After(c, works) ==
  /\ At(c, "after")
  /\ LET e == [check[c] EXCEPT !.seen = touched] IN
     Conclude(c, e, IF ~works THEN (IF Expired(c) THEN "timed_out" ELSE "service_unavailable")
                    ELSE IF account = "member" /\ Unmoved(c) THEN "checked" ELSE "identity_changed")
  /\ UNCHANGED <<world, sso, gate, told, now>>

\* Variant, not the code: the boundary replaces what the gate held.
Replaced(old, at) == at
Later(old, at) == Max({old, at})

\* The gate moves to where EVE asked to stay away until, and never back.
Extend(c, works) ==
  /\ At(c, "extend")
  /\ IF ~works THEN Refuse(c, "service_unavailable") /\ UNCHANGED <<gate, told>>
     ELSE IF gate = None THEN Refuse(c, "identity_changed") /\ UNCHANGED <<gate, told>>
     ELSE LET at == Later(gate, check[c].boundary) IN
          /\ gate' = at /\ told' = Max({told, at})
          /\ Refuse(c, check[c].code)
  /\ UNCHANGED <<world, sso, now>>

-----------------------------------------------------------------------------
Next ==
  \/ \E here, sold \in BOOLEAN : Authorize(here, sold)
  \/ Unlink \/ RotatedByJob \/ MergedAway \/ Tick
  \/ \E tier \in {"member", "below"} : Retiered(tier)
  \/ \E c \in Checks : \/ Before(c) \/ Claim(c) \/ Unserved(c) \/ OutOfTime(c)
                       \/ \E works \in BOOLEAN : Settle(c, works) \/ Condemn(c, works)
                                                 \/ After(c, works) \/ Extend(c, works)
                       \/ \E wait \in Waits :
                            \/ \E arrives \in BOOLEAN : Exchange(c, arrives, wait)
                            \/ Denied(c, wait) \/ NotExchanged(c, wait) \/ Answered(c, wait)
                            \/ \E code \in Codes(c) : NotAnswered(c, code, wait)
Spec == Init /\ [][Next]_vars

-----------------------------------------------------------------------------
\* "checked" is said of an anchor that stayed where it was from the first snapshot
\* to the last: not sold, not authorised by someone else and not taken away and
\* brought back while EVE was asked under its token.
CheckedStayed ==
  \A c \in Checks : check[c].code = "checked" => check[c].seen = check[c].touched

\* What a caller was told holds: the gate never moves back from the latest time any
\* caller of this account was told to come back at, whichever of them finishes
\* first, and no check is admitted before it.
ToldHolds ==
  [][/\ gate' # None => told' <= gate'
     /\ \A c \in Checks : At(c, "claim") /\ check'[c].stage = "refresh" => told <= now]_vars

\* "timed_out" never hides a rotated token that could not be saved.
TimeoutHidesNothing ==
  \A c \in Checks : check[c].code = "timed_out" /\ check[c].arrived => check[c].saved
=============================================================================
