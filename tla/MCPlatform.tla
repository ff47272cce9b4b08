----------------------------- MODULE MCPlatform -----------------------------
(* What the admins lean on: the page that says how the jobs are doing, the    *)
(* audit log, the access-list monitor, and the pages that say how an account  *)
(* is, with the job behind them; and below them the locks that the            *)
(* transactions of fleet sharing take.  They share no state here, so the      *)
(* initial state says which of them moves.                                    *)
EXTENDS FleetLocks, Integers, Sequences, TLC
CONSTANTS
  n1, n2, a2, j1, j2, c1, c2, x1, x2, y1, y2, t1, t2, t3,       \* what the cfg's sets are made of
  NoRun,
  JobTypes, Narrowed, Schedules, HourLen, DayLen, WeekLen, MonthLen, ScanWindow,    \* SyncHealth
  Grace, StuckFloor, BeatStale, PageRuns, LastMinute, MaxRuns, MaxCrashes,
  Readers, Watched, ListRuns, Contents, MaxDesignations, MaxListChanges, MaxFaults, \* AccessLists
  Members, Users, Operations, Names, PageSize, MaxRows, MaxEdits,               \* AuditLog
  Pilots,                                                       \* of it and of LocationJob
  Locators, Docks, Cadence, PushDue, NameTTL, MaxClock, MaxGrants,              \* LocationJob
  PushTimes, ShownAt                                                            \* AccountPage

VARIABLES
  moving,
  cron, now, up, beat, runs, inHand, crashes,                              \* SyncHealth
  holder, granted, watch, catalog, snapshot, entries, sees, content, run,  \* AccessLists
  late, designations, changes, mishaps,
  owner, named, main, link, operation, log, edits,                         \* AuditLog
  clock, char, fetched, errand, carried, refused, completed, grants,      \* LocationJob
  page                                                                    \* AccountPage

healthVars == <<cron, now, up, beat, runs, inHand, crashes>>
listVars   == <<holder, granted, watch, catalog, snapshot, entries, sees, content, run, late,
                designations, changes, mishaps>>
logVars    == <<owner, named, main, link, operation, log, edits>>
locationVars == <<clock, char, fetched, errand, carried, refused, completed, grants>>
restVars     == <<page, locationVars>>
allvars == <<moving, page, healthVars, listVars, logVars, locationVars, vars>>

\* An hour of three minutes and a day of two hours: */2, 1, "0,1" and "1 0 * * *".
AnyV    == [kind |-> "any"]
Val(n)  == [kind |-> "value", n |-> n]
Step(n) == [kind |-> "step", n |-> n]
Cron(minute, hour) == [minute |-> minute, hour |-> hour, dow |-> AnyV, dom |-> AnyV]
FourSchedules == {Cron(Step(2), AnyV), Cron(Val(1), AnyV),
                  Cron([kind |-> "list", values |-> <<0, 1>>], AnyV), Cron(Val(1), Val(0))}

Health == INSTANCE SyncHealth WITH Jobs <- JobTypes, Accounts <- Narrowed, Crons <- Schedules, MaxNow <- LastMinute
Lists == INSTANCE AccessLists WITH
  Characters <- Readers, Lists <- Watched, Runs <- ListRuns, MaxChanges <- MaxListChanges,
  faults <- mishaps
Log == INSTANCE AuditLog WITH
  Accounts <- Members, Characters <- Pilots, MaxChanges <- MaxEdits, changes <- edits
Locations == INSTANCE LocationJob WITH
  Characters <- Pilots, Runs <- Locators, MaxNow <- MaxClock, now <- clock, run <- errand,
  inHand <- carried

\* Every schedule of the worker can be read, comes round within the window that is
\* scanned, and names no day of the month (JOB_CRON).
Cyclic(c) ==
  /\ Health!Readable(c) /\ c.dom.kind = "any"
  /\ \A f \in {"minute", "hour", "dow"} :
       /\ c[f].kind \in {"any", "step", "value", "list"}
       /\ c[f].kind = "step" => c[f].n \in Nat
       /\ c[f].kind = "list" => c[f].values \in Seq(Nat)
ASSUME SchedulesAssumption ==
  /\ {HourLen, DayLen, WeekLen, MonthLen} \subseteq Nat \ {0}
  /\ ScanWindow \in Nat /\ ScanWindow >= HourLen * DayLen * WeekLen
  /\ {Grace, StuckFloor, BeatStale} \subseteq Nat
  /\ \A c \in Schedules : Cyclic(c)
ASSUME PeriodsAssumption == {Cadence, PushDue, ShownAt} \union PushTimes \subseteq Nat
\* Ids of different things differ, and from what the columns hold besides.
ASSUME IdsAssumption ==
  /\ Members \intersect (Pilots \union Users \union Operations) = {}
  /\ Pilots \intersect (Users \union Operations) = {} /\ Users \intersect Operations = {}
  /\ None \notin Members \union Pilots \union Users \union Operations \union Names
  /\ Log!System \notin Members
ASSUME PageAssumption == PageSize \in Nat \ {0}
ASSUME NoneAssumption == None \notin Nat /\ None \notin Locations!MemberFixable

\* The parts of a page are of any moments: every combination is a page.
ResultsLeft == {None, "ok", "label_mismatch", "sync_failed", "dry_run"}
Pages ==
  [rows : [Pilots -> [status : {"valid", "needs_reauth", "invalid"}, scoped : BOOLEAN,
                      gone : BOOLEAN]],
   tier : {"member", "alumni"}, result : [Pilots -> ResultsLeft], linked : BOOLEAN,
   pushed : PushTimes \union {None}, main : Pilots \union {None}, shown : {ShownAt}]

\* What does not move starts in one state.
MCInit ==
  /\ moving \in {"health", "lists", "log", "locations", "overlap", "page", "locks"}
  /\ Init
  /\ row[1] = None <=> row[2] = None
  /\ job[t3].kind \in {"drain", "prune"}
  /\ \A t \in {t1, t2} : job[t].kind = "observe" => job[t].source = 1
  /\ moving # "locks" => /\ \A t \in Txs : job[t].kind = "prune"
                         /\ \A i \in {1, 2} : fleetOf[i] = None /\ row[i] = None
  /\ Locations!Init
  /\ page \in IF moving = "page" THEN Pages ELSE {None}
  /\ Health!Init
  /\ cron[j2] = Cron(Step(2), AnyV)
  /\ moving # "health" => cron[j1] = cron[j2]
  /\ Lists!Init
  /\ content = [l \in Watched |-> {c1}]
  /\ sees = [c \in Readers |-> Watched]
  /\ Log!Init
  /\ moving # "log" => owner = [c \in Pilots |-> None] /\ named[y1] = named[y2]

HealthMoves ==
  /\ moving = "health" /\ Health!Next
  /\ UNCHANGED <<moving, vars, listVars, logVars, restVars>>
ListsMove ==
  /\ moving = "lists" /\ Lists!Next
  /\ UNCHANGED <<moving, vars, healthVars, logVars, restVars>>
LogMoves ==
  /\ moving = "log" /\ Log!Next
  /\ UNCHANGED <<moving, vars, healthVars, listVars, restVars>>
\* One run of the location job while time passes, or several at one moment.
LocationsMove ==
  /\ moving = "locations" /\ Locations!Next
  /\ \A r, q \in Locators : errand'[r] # NoRun /\ errand'[q] # NoRun => r = q
  /\ UNCHANGED <<moving, vars, page, healthVars, listVars, logVars>>
OverlapMoves ==
  /\ moving = "overlap" /\ Locations!Next /\ clock' = clock
  /\ UNCHANGED <<moving, vars, page, healthVars, listVars, logVars>>
LocksMove ==
  /\ moving = "locks" /\ Next
  /\ UNCHANGED <<moving, healthVars, listVars, logVars, restVars>>
MCNext == HealthMoves \/ ListsMove \/ LogMoves \/ LocationsMove \/ OverlapMoves \/ LocksMove
MCSpec == MCInit /\ [][MCNext]_allvars

\* What the pages show is so: calm on the status page is recent and the cadence
\* in words is the one the job has; the filter of the log finds the rows it
\* displays; a run of the access-list monitor that lost its designation adds at
\* most the write it was at; no location is older than the page says; who is said
\* to need a new authorisation does; the headline of an account agrees with its
\* rows and with the admins' list.
PagesAreTrue ==
  CASE moving = "health"    -> Health!CalmIsRecent /\ Health!CadenceIsTrue
    [] moving = "log"       -> Log!FilterInvertsDisplay
    [] moving = "lists"     -> Lists!SupersededWritesOnce
    [] moving = "locations" -> Locations!AsOfIsHonest /\ Locations!VerdictStands
    [] moving = "overlap"   -> Locations!VerdictStands
    [] moving = "page"      -> Locations!HeadlineAgrees(page)
    [] OTHER                -> TRUE

OneTwo   == <<1, 2>>
Symmetry == Permutations({x1, x2}) \union Permutations({y1, y2}) \union Permutations({n1, n2})
              \union Permutations({t1, t2})
=============================================================================
