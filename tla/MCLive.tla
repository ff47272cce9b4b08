------------------------------ MODULE MCLive -------------------------------
(* What the queues, the membership runs and the fleet sources must do in the  *)
(* end.  The three share no state here: the initial state says which of them  *)
(* moves, and only what moves is assumed to be fair.  Two runs of one source  *)
(* overlap here, and may be given a cached roster.                            *)
EXTENDS FleetSource, TLC
CONSTANTS a1, a2, c1, w1, x1, NoJob, NoAccount

VARIABLES
  moving,
  entry, payload, claim, unsent, sent, jobs, deadLetter, owed, ticks, faults, \* Outbox
  acct, charAccount, main, tier, tierLocked, affiliation, flagged, checkedAt, \* Membership
  clock, pc, scope, recheck, token, outcome, confirmed, decisions

outboxVars     == <<entry, payload, claim, unsent, sent, jobs, deadLetter, owed, ticks, faults>>
membershipVars == <<acct, charAccount, main, tier, tierLocked, affiliation, flagged, checkedAt,
                    clock, pc, scope, recheck, token, outcome, confirmed, decisions>>
allvars == <<moving, vars, outboxVars, membershipVars>>

OneOfEach == {[kind |-> "fleet-source", source |-> x1],
              [kind |-> "job", jobType |-> "discord-roles"],
              [kind |-> "job", jobType |-> "ops-dead-letter"]}

Queues == INSTANCE Outbox WITH
  row <- entry, Accounts <- {a1, a2}, Sources <- {x1}, Payloads <- OneOfEach, Workers <- {w1},
  Scopes <- {"all"}, Worked <- {"discord-roles"}, ClaimLimit <- 1, RetryLimit <- 1,
  MaxRows <- 2, MaxJobs <- 4, MaxTicks <- 0, MaxFaults <- 2

Tiers == INSTANCE Membership WITH
  Accounts <- {a1, a2}, Chars <- {c1}, AdminTiers <- {"associate"}, Runs <- {w1}, MaxClock <- 1

MCInit == moving \in {"queues", "tiers", "sources"} /\ Queues!Init /\ Tiers!Init /\ Init

\* A step of the part that moves.
Queue(A)  == moving = "queues" /\ A /\ UNCHANGED <<moving, membershipVars, vars>>
Tier(A)   == moving = "tiers" /\ A /\ UNCHANGED <<moving, outboxVars, vars>>
Source(A) == moving = "sources" /\ A /\ UNCHANGED <<moving, outboxVars, membershipVars>>
QueuesMove  == moving = "queues" /\ Queues!Next /\ UNCHANGED <<moving, membershipVars, vars>>
TiersMove   == moving = "tiers" /\ (Tiers!Next \/ Tiers!Rebase) /\ UNCHANGED <<moving, outboxVars, vars>>
SourcesMove == moving = "sources" /\ Next /\ UNCHANGED <<moving, outboxVars, membershipVars>>
MCNext == QueuesMove \/ TiersMove \/ SourcesMove

\* The fairness of Outbox, Membership and FleetSource, of the part that moves.
MCFairness ==
  /\ \A d \in Queues!Dispatchers : WF_allvars(Queue(Queues!Dispatch(d)))
  /\ \A s \in Queues!Places : /\ WF_allvars(Queue(\E w \in {w1} : Queues!Start(s, w)))
                              /\ WF_allvars(Queue(Queues!Run(s))) /\ WF_allvars(Queue(Queues!Expire(s)))
  /\ WF_allvars(Tier(Tiers!Rebase))
  /\ WF_allvars(Tier(Tiers!RunStep(w1)))
  /\ SF_allvars(Tier(Tiers!TakeToken(w1, NoAccount, TRUE)))
  /\ SF_allvars(Tier(Tiers!FullRead(w1)))
  /\ <>[][~Tier(Tiers!Crash(w1))]_allvars
  /\ WF_allvars(Source(Tick))
  /\ \A s \in Sources : WF_allvars(Source(Maintain(s)))
MCSpec == MCInit /\ [][MCNext]_allvars /\ MCFairness

WakesAnswered      == moving = "queues" => Queues!WakesAnswered
AssociateConverges == moving = "tiers" => Tiers!AssociateConverges
\* Maintenance alone leaves nothing as a dead worker left it and withdraws what
\* outlasted its evidence.
MaintenanceSuffices == NothingWedges /\ EvidenceWithdrawn
=============================================================================
