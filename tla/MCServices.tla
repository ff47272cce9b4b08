----------------------------- MODULE MCServices -----------------------------
(* The parts around the core share no state with one another: the initial     *)
(* state says which of them moves, and one run checks them side by side.      *)
EXTENDS Credentials, TLC

CONSTANTS
  a1, a2, c1, c2, d1, d2, s3, k1, k2, w1, w2, f1, f2,     \* what the functions below are made of
  Accounts, Characters,
  Users, OwnerOf, Tiers, MaxChanges, MaxFaults,           \* of the jobs that push
  Chars, Devices, Sessions, Fleets, AccountOf, DeviceOf, MaxMessages, MaxGen,        \* of the relay
  Corps, CorpOf, Notes, CorpOfNote, Structures, CorpOfStructure, Runs,        \* of the monitor
  MaxDesignations, MaxMishaps,
  NoUser, NoHolder, NoLease,
  Parts      \* what may move: of "credentials", "relay", "roles", "acl", "contacts", "watch"

VARIABLES
  moving,
  owner, slot, part, sess, lease, wire, newest, late, latest,           \* FleetRelay
  tier, link, invalid, guild, queue, run, roles, acl, book, observed,   \* Provisioning
  result, drift, changes, faults,
  holder, alert, pinned, roster, corp, received, standing, webhook,     \* StructureWatch
  watcher, posted, backlog, designations, mishaps

relayVars == <<owner, slot, part, sess, lease, wire, newest, late, latest>>
provVars  == <<tier, link, invalid, guild, queue, run, roles, acl, book, observed, result,
               drift, changes, faults>>
watchVars == <<holder, alert, pinned, roster, corp, received, standing, webhook, watcher,
               posted, backlog, designations, mishaps>>
allvars == <<vars, moving, relayVars, provVars, watchVars>>

Relay == INSTANCE FleetRelay WITH row <- lease, NoRow <- NoLease

PushJobs == {"roles", "acl", "contacts"}
Push == INSTANCE Provisioning WITH Jobs <- PushJobs

Watch == INSTANCE StructureWatch WITH run <- watcher, faults <- mishaps, MaxFaults <- MaxMishaps

\* What each part takes for granted of its constants.
RelayConstants ==
  /\ AccountOf \in [Devices -> Accounts] /\ DeviceOf \in [Sessions -> Devices]
  /\ MaxMessages \in Nat /\ MaxGen \in Nat \ {0}
  /\ NoLease \notin Relay!RowType
PushConstants ==
  /\ OwnerOf \in [Characters -> Accounts]
  /\ NoUser \notin Users /\ "pending" \in Tiers
  /\ MaxChanges \in Nat /\ MaxFaults \in Nat
  /\ Users \intersect Characters = {}
  /\ (Characters \X Characters) \intersect (Users \union Characters) = {}
  /\ \A j \in PushJobs : Idle \notin Push!Targets(j) /\ Idle \notin Push!RunType(j)
WatchConstants == MaxDesignations \in Nat /\ NoHolder \notin Corps

ASSUME ServicesAssumption == RelayConstants /\ PushConstants /\ WatchConstants

\* What does not move starts in one state.
MCInit ==
  /\ moving \in Parts
  /\ Init
  /\ Relay!Init
  /\ owner = [c \in Chars |-> OwnerOf[c]]
  /\ \A d \in Devices : part[d].on = (moving = "relay")
  /\ \A s \in Sessions : (sess[s].ack # {}) = (moving = "relay")
  /\ Push!Init
  /\ Watch!Init
  /\ corp = CorpOf
  /\ moving # "watch" => webhook

CredentialsMove == moving = "credentials" /\ Next /\ UNCHANGED <<moving, relayVars, provVars, watchVars>>
RelayMoves == moving = "relay" /\ Relay!Next /\ UNCHANGED <<moving, vars, provVars, watchVars>>
\* One of the jobs that push moves, and of its own remote alone is anything edited.
PushMoves(j) ==
  /\ moving = j /\ Push!Next
  /\ \A k \in PushJobs \ {j} : run'[k] = run[k]
  /\ j # "roles" => <<link, guild, roles>>' = <<link, guild, roles>>
  /\ j # "acl" => acl' = acl
  /\ j # "contacts" => book' = book
  /\ UNCHANGED <<moving, vars, relayVars, watchVars>>
RolesMove == PushMoves("roles") /\ faults' <= 1
AclMoves  == PushMoves("acl") /\ faults' <= 1 /\ \A a \in Accounts : tier'[a] # "alumni"
BookMoves == PushMoves("contacts") /\ \A a \in Accounts : tier'[a] # "alumni"
WatchMoves == moving = "watch" /\ Watch!Next /\ UNCHANGED <<moving, vars, relayVars, provVars>>
MCNext == CredentialsMove \/ RelayMoves \/ RolesMove \/ AclMoves \/ BookMoves \/ WatchMoves
MCSpec == MCInit /\ [][MCNext]_allvars

\* Whatever the order of its requests and answers, the relay applies each once,
\* shows the latest publication and nothing of a session that has ended.
RelayKeepsOrder ==
  Relay!RequestsOnceInOrder /\ Relay!LatestPublicationWins /\ Relay!EndedStaysHidden
TargetsFollow     == Push!TargetsFollow
MonitorStands     == Watch!MonitorStands
NoBacklogReplayed == Watch!NoBacklogReplayed

Owns     == (c1 :> a1) @@ (c2 :> a2)
Owners   == (d1 :> a1) @@ (d2 :> a1)
Holders  == (w1 :> d1) @@ (w2 :> d1) @@ (s3 :> d2)
InCorp   == (c1 :> k1) @@ (c2 :> k2)
Against  == <<k2>>
Anchored == d1 :> k1
Granted  == {{"fleet"}, {"base", "fleet"}}
Symmetry == Permutations({w1, w2}) \union Permutations({f1, f2})
=============================================================================
