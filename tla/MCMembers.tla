------------------------------ MODULE MCMembers ------------------------------
(* The membership job, and the clients through which it and every other job   *)
(* ask EVE and Discord.  They share no state here, so one run checks them     *)
(* side by side: the initial state says which of them moves.                  *)
EXTENDS Membership, TLC

CONSTANTS
  a1, c1, c2, r1, r2, call1, route1, route2,               \* what the cfg's sets are made of
  Calls,                                                   \* of both clients
  Routes, Max429Retries, Delays, MaxSecond,                \* of the Discord client
  Headers, Probe, MaxRetry, MaxParts, MaxTime, None        \* of the ESI client

VARIABLES
  moving,
  second, buckets, globalResetAt, chains, sending, told,                 \* DiscordClient
  time, remain, resetAt, fleetResetAt, fleetBudgetKnown, fleetProbeAt,   \* EsiClient
  call, asked, blindAt

Answers == LET H(legacy, reset, modern, wait, retry) ==
                 [legacy |-> legacy, reset |-> reset, modern |-> modern, wait |-> wait,
                  retry |-> retry, garbled |-> modern = "unknown"]
           IN {H("none", 0, "none", 0, 0), H("fine", 1, "known", 0, 0), H("low", 2, "none", 0, 0),
               H("reset", 2, "none", 0, 0), H("none", 0, "known", 2, 0),
               H("none", 0, "unknown", 0, 0), H("fine", 1, "none", 0, 2)}

Discord == INSTANCE DiscordClient WITH MaxNow <- MaxSecond, now <- second, call <- sending
Esi == INSTANCE EsiClient WITH MaxNow <- MaxTime, now <- time, told <- asked

\* Waits are numbers of windows.
ASSUME ClientsAssumption ==
  /\ Delays \subseteq Nat /\ Probe \in Nat /\ MaxRetry \in Nat /\ None \notin Nat
  /\ \A h \in Headers : {h.reset, h.wait, h.retry} \subseteq Nat

discordVars == <<second, buckets, globalResetAt, chains, sending, told>>
esiVars == <<time, remain, resetAt, fleetResetAt, fleetBudgetKnown, fleetProbeAt, call, asked, blindAt>>
allvars    == <<vars, moving, discordVars, esiVars>>

\* What does not move starts in one state.
MCInit ==
  /\ moving \in {"membership", "discord", "esi"}
  /\ Init /\ Discord!Init /\ Esi!Init
  /\ moving # "discord" => \A r \in Calls : sending[r].route = route1
  /\ moving # "esi" => \A r \in Calls : call[r].kind = "fleet"

JobMoves     == moving = "membership" /\ Next /\ UNCHANGED <<moving, discordVars, esiVars>>
DiscordMoves == moving = "discord" /\ Discord!Next /\ UNCHANGED <<moving, vars, esiVars>>
EsiMoves     == moving = "esi" /\ Esi!Next /\ UNCHANGED <<moving, vars, discordVars>>
MCNext == JobMoves \/ DiscordMoves \/ EsiMoves
MCSpec == MCInit /\ [][MCNext]_allvars

\* The clients of Discord and EVE send nothing into a window they were told of.
PacingHolds == Discord!NeverIntoAWindow /\ Esi!FleetGateHolds

\* The runs of the job make calls, with another caller.
Symmetry == Permutations(Runs) \union Permutations(Chars)
=============================================================================
