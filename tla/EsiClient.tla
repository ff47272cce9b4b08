------------------------------ MODULE EsiClient ------------------------------
(* The ESI client (lib/esi/client.ts): one error budget for all callers of a   *)
(* process, who sleep when it is low, and beside it a gate of its own for the  *)
(* fleet sources, who are refused rather than delayed.  A call is one request, *)
(* a read of all pages, or a list of ids in chunks.                            *)
EXTENDS Naturals, FiniteSetsExt

CONSTANTS
  Calls,             \* calls made of the client
  Headers,           \* what an answer's headers say of the budgets
  Probe,             \* FLEET_CONSERVATIVE_PROBE_MS
  MaxRetry,          \* MAX_RETRY_MS, the longest generic wait
  MaxParts,          \* bound: pages or chunks of a call
  MaxNow,            \* bound
  None

(* A header set has a legacy family ("none", "low", "fine", or "reset" when    *)
(* what remains is unreadable), its reset, a modern family of the fleet group  *)
(* ("none", "known", "unknown"), the wait a low modern budget asks for, and    *)
(* retry-after, which may be garbled; 0 is no wait.  told and blindAt are      *)
(* history: the latest end of a wait asked of the fleet sources, and when the  *)
(* last request left under an unknown budget.                                  *)
VARIABLES now, remain, resetAt, fleetResetAt, fleetBudgetKnown, fleetProbeAt, call, told, blindAt
budget == <<remain, resetAt>>
gate   == <<fleetResetAt, fleetBudgetKnown, fleetProbeAt>>
vars   == <<now, budget, gate, call, told, blindAt>>

Init ==
  /\ now = 0 /\ remain = "fine" /\ resetAt = 0
  /\ fleetResetAt = 0 /\ fleetBudgetKnown = TRUE /\ fleetProbeAt = 0
  /\ call \in [Calls -> [at : {"idle"}, kind : {"fleet", "pages", "chunks"},
                    left : 0..MaxParts, until : {0}]]
  /\ \A r \in Calls : call[r].left = 0 <=> call[r].kind # "chunks"
  /\ told = 0 /\ blindAt = None

Tick == now < MaxNow /\ now' = now + 1 /\ UNCHANGED <<budget, gate, call, told, blindAt>>

Later(a, b) == Max({a, b})
Fleet(r) == call[r].kind = "fleet"
Move(r, at) == call' = [call EXCEPT ![r].at = at]

-----------------------------------------------------------------------------
(* request(), up to the fetch. *)

\* A generic call sleeps out a low budget and then forgets it.
Generic(r) ==
  /\ call[r].at = "idle" /\ ~Fleet(r)
  /\ IF remain = "low" /\ resetAt > now
     THEN call' = [call EXCEPT ![r].at = "asleep", ![r].until = resetAt]
     ELSE Move(r, "sent")
  /\ UNCHANGED <<now, budget, gate, told, blindAt>>
Wake(r) ==
  /\ call[r].at = "asleep" /\ now >= call[r].until
  /\ remain' = "fine" /\ Move(r, "sent")
  /\ UNCHANGED <<now, resetAt, gate, told, blindAt>>

\* getFleetRetryAt
FleetRetryAt == Later(fleetResetAt, IF fleetBudgetKnown THEN 0 ELSE fleetProbeAt)
\* Variant, not the code: whoever probes an unknown budget reserves nothing.
NoReservation == fleetProbeAt
Reserved == IF fleetBudgetKnown THEN fleetProbeAt ELSE now + Probe

\* A fleet call is refused before a boundary; one that probes an unknown budget
\* takes the probe before it leaves.
FleetCall(r) ==
  /\ call[r].at = "idle" /\ Fleet(r)
  /\ IF FleetRetryAt > now
     THEN Move(r, "ended") /\ UNCHANGED <<fleetProbeAt, blindAt>>
     ELSE /\ Move(r, "sent")
          /\ fleetProbeAt' = Reserved
          /\ blindAt' = IF fleetBudgetKnown THEN blindAt ELSE now
  /\ UNCHANGED <<now, budget, fleetResetAt, fleetBudgetKnown, told>>

-----------------------------------------------------------------------------
(* request(), from the fetch on. *)

\* No response is no evidence of a budget.
NoResponse(r) ==
  /\ call[r].at = "sent" /\ Move(r, "ended")
  /\ IF Fleet(r)
     THEN fleetBudgetKnown' = FALSE /\ fleetProbeAt' = Later(fleetProbeAt, now + Probe)
     ELSE UNCHANGED <<fleetBudgetKnown, fleetProbeAt>>
  /\ UNCHANGED <<now, budget, fleetResetAt, told, blindAt>>

\* fleetTokenBudget and the reading of the legacy family.
Modern(h) == h.modern # "none"
Heard(r, h) == Fleet(r) \/ Modern(h) \/ h.legacy # "none"
RetryHeard(r, h) == Fleet(r) \/ Modern(h)
BudgetKnown(r, h) ==
  /\ IF Modern(h) THEN h.modern = "known" /\ h.legacy = "none" ELSE h.legacy \in {"low", "fine"}
  /\ ~(RetryHeard(r, h) /\ h.garbled)
\* The waits an answer asks of the fleet sources.
Waits(r, h) ==
  (IF Modern(h) /\ h.wait > 0 THEN {now + h.wait} ELSE {})
    \union (IF h.legacy \in {"low", "reset"} THEN {now + h.reset} ELSE {})
    \union (IF RetryHeard(r, h) /\ h.retry > 0 THEN {now + h.retry} ELSE {})

\* Variant, not the code: a healthy answer lifts the wait an earlier one asked.
LastAsked(r, h) == IF Heard(r, h) THEN Max({0} \union Waits(r, h)) ELSE fleetResetAt
HeldUntil(r, h) ==
  IF Heard(r, h) THEN Max({fleetResetAt} \union Waits(r, h)) ELSE fleetResetAt

\* fetchAllPages counts its further pages on the first answer; a list of ids is cut
\* into chunks before the first.
PartsLeft(r) == IF call[r].kind = "pages" THEN 0..MaxParts ELSE {call[r].left}
\* Each part goes through request() again; the first refusal or unreadable answer
\* ends the call.
GoOn(r, ok) ==
  \E left \in PartsLeft(r) :
    call' = [call EXCEPT ![r] =
      IF ok /\ left > 0 THEN [@ EXCEPT !.at = "idle", !.left = left - 1, !.kind = "chunks"]
      ELSE [@ EXCEPT !.at = "ended"]]

Response(r, h, ok) ==
  /\ call[r].at = "sent"
  /\ fleetResetAt' = HeldUntil(r, h)
  /\ told' = IF Heard(r, h) THEN Max({told} \union Waits(r, h)) ELSE told
  /\ fleetBudgetKnown' = IF Heard(r, h) THEN BudgetKnown(r, h) ELSE fleetBudgetKnown
  /\ fleetProbeAt' = IF Heard(r, h) /\ ~BudgetKnown(r, h)
                     THEN Later(fleetProbeAt, now + Probe) ELSE fleetProbeAt
  /\ remain' = IF h.legacy \in {"low", "fine"} THEN h.legacy ELSE remain
  /\ resetAt' = IF h.legacy # "none" THEN now + Min({MaxRetry, h.reset}) ELSE resetAt
  /\ GoOn(r, ok)
  /\ UNCHANGED <<now, blindAt>>

Next ==
  \/ Tick
  \/ \E r \in Calls :
       \/ Generic(r) \/ Wake(r) \/ FleetCall(r) \/ NoResponse(r)
       \/ \E h \in Headers, ok \in BOOLEAN : Response(r, h, ok)
Spec == Init /\ [][Next]_vars

-----------------------------------------------------------------------------
\* Whatever other callers hear in between, a healthy budget included, no fleet
\* source asks EVE before every wait it or they were told is over, and under an
\* unknown budget two of them never probe within one interval.
FleetGateHolds ==
  [][\A r \in Calls : Fleet(r) /\ call[r].at # "sent" /\ call'[r].at = "sent" =>
       /\ now >= told
       /\ ~fleetBudgetKnown /\ blindAt # None => now >= blindAt + Probe]_vars
==============================================================================
