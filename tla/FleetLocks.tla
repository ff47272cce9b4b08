----------------------------- MODULE FleetLocks ------------------------------
(* The transactions of fleet sharing, lock by lock.  Each probes what it will *)
(* touch, takes the locks of one level at a time in one global order          *)
(* (services/fleet-lifecycle.ts, services/fleet-relay.ts), probes again and   *)
(* gives everything up and starts over when an earlier level would now be     *)
(* needed (FleetLifecycleRetry).  It writes only with every lock in hand.     *)
(* FleetSource takes these transactions for single steps; what that rests on  *)
(* is checked here.                                                           *)
EXTENDS Naturals, FiniteSets, Sequences

CONSTANTS
  Accounts, Chars, Fleets, Sources, Devices, \* sets of numbers: ids are ordered
  Txs, OwnerOf, BossOf, ViaOf,  \* a source's account, boss character and device
  AccountOf, HolderOf,          \* a character's account, a device's account
  Retries,                      \* times a transaction starts over (3)
  None, Idle

Rows == [device : Devices, source : Sources]
Jobs ==
  [kind : {"observe"}, source : Sources, fleet : Fleets]
    \union {j \in [kind : {"publish"}, device : Devices, char : Chars] :
              HolderOf[j.device] = AccountOf[j.char]}
    \union [kind : {"withdraw"}, account : Accounts]
    \union [kind : {"unlink"}, char : Chars]
    \union [kind : {"drain", "prune"}]

LocksAssumption ==
  /\ Accounts \union Chars \union Fleets \union Sources \union Devices \subseteq Nat
  /\ \A S \in {Accounts, Chars, Fleets, Sources, Devices, Txs} : IsFiniteSet(S)
  /\ None \notin Nat /\ None \notin Rows /\ Idle \notin Jobs /\ Retries \in Nat
  /\ OwnerOf \in [Sources -> Accounts] /\ BossOf \in [Sources -> Chars]
  /\ ViaOf \in [Sources -> Devices] /\ AccountOf \in [Chars -> Accounts]
  /\ HolderOf \in [Devices -> Accounts]

VARIABLES
  fleetOf, slot, ended, row, revoked, linked,  \* what the transactions write
  job, stage, todo, held, saw, tries           \* the transactions
tables == <<fleetOf, slot, ended, row, revoked, linked>>
vars   == <<tables, job, stage, todo, held, saw, tries>>

(* A lock is a level and an id; levels are taken upwards.  A device's         *)
(* sessions follow the device and have no lock of their own here.             *)
Levels == [mode |-> 0, identity |-> 1, account |-> 2, slot |-> 3, source |-> 4,
           device |-> 5, relay |-> 6]
LocksOf(level, ids) == {<<Levels[level], i>> : i \in ids}
Mode == <<0, 0>>
LockIds == (0..6) \X ({0} \union Accounts \union Chars \union Fleets \union Sources \union Devices)
Below(l, k) == l[1] < k[1] \/ (l[1] = k[1] /\ l[2] < k[2])

Live    == Sources \ ended
\* Variant, not the code: what a device published under another's source is missed.
RowsOfSources(D, S, C) == {c \in Chars : row[c] # None /\ (c \in C \/ row[c].source \in S)}
RowsOf(D, S, C) == {c \in Chars : row[c] # None /\ (c \in C \/ row[c].device \in D
                                                     \/ row[c].source \in S)}
SlotsOf(S) == {f \in Fleets : slot[f] \in S}
FleetsOf(S) == {fleetOf[s] : s \in S} \ {None}

\* sourceSet: the source of a run and the consents it would displace.
SourceSet(j) ==
  LET f == IF fleetOf[j.source] # None THEN fleetOf[j.source] ELSE j.fleet IN
  {j.source} \union {s \in Live : fleetOf[s] = f}

\* sourcePredicate: the live sources a withdrawal reaches.
Reached(j) ==
  {s \in Live : \/ j.kind = "drain"
                \/ j.kind = "withdraw" /\ (OwnerOf[s] = j.account \/ HolderOf[ViaOf[s]] = j.account)
                \/ j.kind = "unlink" /\ BossOf[s] = j.char
                \/ j.kind = "observe" /\ s \in SourceSet(j)}
\* The devices and characters it reaches besides those of its sources.
DevicesOf(j) == {d \in Devices : j.kind = "drain" \/ (j.kind = "withdraw" /\ HolderOf[d] = j.account)}
CharsOf(j)   == IF j.kind = "unlink" THEN {j.char} ELSE IF j.kind \in {"drain", "prune"} THEN Chars ELSE {}

\* probe of a shared admission: everything one publication will touch.
PublishLocks(j) ==
  LET C == {j.char} \union RowsOf({j.device}, {}, {j.char})
      S == {slot[f] : f \in Fleets} \ {None}
      D == {j.device} \union {row[c].device : c \in RowsOf({j.device}, {}, {j.char})}
             \union {ViaOf[s] : s \in S}
      I == C \union {BossOf[s] : s \in S} IN
  LocksOf("identity", I)
    \union LocksOf("account", {HolderOf[d] : d \in D} \union {AccountOf[c] : c \in I}
                               \union {OwnerOf[s] : s \in S})
    \union LocksOf("slot", SlotsOf(S)) \union LocksOf("source", S)
    \union LocksOf("device", D) \union LocksOf("relay", C)

\* What a transaction finds it must lock when it enters a stage.
Probe(j, st) ==
  IF st = "mode" THEN {Mode} ELSE IF j.kind = "publish" THEN PublishLocks(j) ELSE
  CASE st = "owners" /\ j.kind = "observe" ->
         LocksOf("identity", {BossOf[s] : s \in SourceSet(j)})
           \union LocksOf("account", {OwnerOf[s] : s \in SourceSet(j)})
    [] st = "owners" /\ j.kind = "withdraw" -> LocksOf("account", {j.account})
    [] st = "owners" /\ j.kind = "unlink" ->
         LocksOf("identity", {j.char})
           \union LocksOf("account", IF j.char \in linked THEN {AccountOf[j.char]} ELSE {})
    [] st = "slots" -> LocksOf("slot", FleetsOf(SourceSet(j)) \union {j.fleet})
    [] st = "sources" ->
         LocksOf("slot", FleetsOf(Reached(j)) \union SlotsOf(Reached(j))
                           \union (IF j.kind = "drain" THEN Fleets ELSE {}))
           \union LocksOf("source", Reached(j) \union (IF j.kind = "observe" THEN {j.source} ELSE {}))
    [] st = "devices" ->
         LocksOf("device", DevicesOf(j) \union {ViaOf[s] : s \in Reached(j)}
           \union {row[c].device : c \in RowsOf(DevicesOf(j), Reached(j), CharsOf(j))})
    [] st = "relay" -> LocksOf("relay", RowsOf(DevicesOf(j), Reached(j), CharsOf(j)))
    [] OTHER -> {}

\* The stages of a job after the mode, and the levels of a publication's probe
\* that each of its stages takes.
Route(j) ==
  CASE j.kind = "observe"  -> <<"mode", "owners", "slots", "sources", "devices", "relay">>
    [] j.kind = "publish"  -> <<"mode", "owners", "sources", "devices">>
    [] j.kind = "drain"    -> <<"mode", "sources", "devices", "relay">>
    [] j.kind = "prune"    -> <<"relay">>
    [] OTHER               -> <<"mode", "owners", "sources", "devices", "relay">>
Share(j, st, L) ==
  LET levels == CASE st = "owners" -> {1, 2} [] st = "sources" -> {3, 4}
                  [] st = "devices" -> {5, 6} [] OTHER -> {} IN
  IF j.kind = "publish" /\ st # "mode" THEN {l \in L : l[1] \in levels} ELSE L

\* Entering the n-th stage of j, in transaction t.
Enter(t, j, n) ==
  LET st == Route(j)[n] found == Probe(j, st) IN
  /\ stage' = [stage EXCEPT ![t] = n]
  /\ saw'   = [saw EXCEPT ![t] = IF j.kind = "publish" /\ n > 2 THEN @ ELSE found]
  /\ todo'  = [todo EXCEPT ![t] = Share(j, st, found) \ held[t]]

\* Only a drain takes the mode for itself.
Conflicts(t, u, l) == l # Mode \/ "drain" \in {job[t].kind, job[u].kind}
Holders(t, l) == {u \in Txs \ {t} : job[u] # Idle /\ l \in held[u] /\ Conflicts(t, u, l)}

\* Variant, not the code: rows are locked device by device, the last one first.
PerDevice(t) ==
  CHOOSE l \in todo[t] : \A k \in todo[t] \ {l} :
    IF l[1] = k[1] /\ job[t].kind = "drain" THEN Below(k, l) ELSE Below(l, k)
\* Every helper that locks several rows sorts them first.
NextLock(t) == CHOOSE l \in todo[t] : \A k \in todo[t] \ {l} : Below(l, k)

Take(t) ==
  /\ job[t] # Idle /\ todo[t] # {}
  /\ Holders(t, NextLock(t)) = {}
  /\ held' = [held EXCEPT ![t] = @ \union {NextLock(t)}]
  /\ todo' = [todo EXCEPT ![t] = @ \ {NextLock(t)}]
  /\ UNCHANGED <<tables, job, stage, saw, tries>>

Finish(t) ==
  /\ job' = [job EXCEPT ![t] = Idle]
  /\ held' = [held EXCEPT ![t] = {}]
  /\ todo' = [todo EXCEPT ![t] = {}]
  /\ saw'  = [saw EXCEPT ![t] = {}]
  /\ stage' = [stage EXCEPT ![t] = 1]
  /\ UNCHANGED tries

\* Is what the probe of this stage found still all there is?  The selectors of
\* a run or a publication must be the same; a withdrawal may find less.
StillSo(t) ==
  LET j == job[t] st == Route(j)[stage[t]] now == Probe(j, st) IN
  \/ st = "mode"
  \/ IF j.kind = "publish" \/ (j.kind = "observe" /\ st \in {"owners", "slots"})
     THEN now = saw[t]
     ELSE \/ st \in {"owners", "relay"}
          \/ now \subseteq saw[t]

Advance(t) ==
  /\ job[t] # Idle /\ todo[t] = {} /\ stage[t] < Len(Route(job[t]))
  /\ StillSo(t)
  /\ Enter(t, job[t], stage[t] + 1)
  /\ UNCHANGED <<tables, job, held, tries>>

\* FleetLifecycleRetry: every lock is released, the work starts from its probe.
StartOver(t) ==
  /\ job[t] # Idle /\ todo[t] = {} /\ ~StillSo(t)
  /\ tries' = [tries EXCEPT ![t] = @ + 1]
  /\ held' = [held EXCEPT ![t] = {}]
  /\ stage' = [stage EXCEPT ![t] = 1]
  /\ saw' = [saw EXCEPT ![t] = {}]
  /\ IF tries[t] < Retries
     THEN job' = job /\ todo' = [todo EXCEPT ![t] = Probe(job[t], Route(job[t])[1])]
     ELSE job' = [job EXCEPT ![t] = Idle] /\ todo' = [todo EXCEPT ![t] = {}]
  /\ UNCHANGED tables

Committing(t, kinds) ==
  /\ job[t] # Idle /\ todo[t] = {}
  /\ job[t].kind \in kinds /\ stage[t] = Len(Route(job[t])) /\ StillSo(t)

Locked(t, level, ids) == {i \in ids : <<Levels[level], i>> \in held[t]}

\* invalidateFleetSources, and the relay rows of the characters C.
End(S, C) ==
  /\ ended' = ended \union S
  /\ slot'  = [f \in Fleets |-> IF slot[f] \in S THEN None ELSE slot[f]]
  /\ row'   = [c \in Chars |-> IF c \in C THEN None ELSE row[c]]

CommitWithdrawal(t) ==
  LET j == job[t] IN
  /\ Committing(t, {"withdraw", "unlink", "drain", "prune"})
  /\ LET S == Locked(t, "source", Reached(j)) IN
     End(S, Locked(t, "relay", RowsOf(DevicesOf(j), S, CharsOf(j))))
  /\ revoked' = revoked \union (IF j.kind = "withdraw" THEN DevicesOf(j) ELSE {})
  /\ linked'  = linked \ (IF j.kind = "unlink" THEN {j.char} ELSE {})
  /\ Finish(t)
  /\ UNCHANGED fleetOf

Consented(s) == s \in Live /\ ViaOf[s] \notin revoked /\ BossOf[s] \in linked

\* bindPendingFleet on a source's first fleet, commitFleetObservation after it.
CommitRun(t) ==
  LET j == job[t] s == j.source others == Locked(t, "source", SourceSet(j)) \ {s} IN
  /\ Committing(t, {"observe"})
  /\ IF ~Consented(s)
     THEN End({s}, Locked(t, "relay", RowsOf({}, {s}, {}))) /\ UNCHANGED fleetOf
     ELSE IF fleetOf[s] = None
     THEN fleetOf' = [fleetOf EXCEPT ![s] = j.fleet] /\ UNCHANGED <<slot, ended, row>>
     ELSE /\ slot' = [slot EXCEPT ![fleetOf[s]] = s]
          /\ row' = [c \in Chars |-> IF row[c] # None /\ row[c].source \in others
                                     THEN None ELSE row[c]]
          /\ UNCHANGED <<fleetOf, ended>>
  /\ Finish(t)
  /\ UNCHANGED <<revoked, linked>>

\* Eligible in the one fleet whose evidence names the character.
CommitPublication(t) ==
  LET j == job[t] proved == {slot[f] : f \in Fleets} \ {None} IN
  /\ Committing(t, {"publish"})
  /\ IF j.device \notin revoked /\ j.char \in linked /\ Cardinality(proved) = 1
     THEN \E s \in proved :
            row' = [c \in Chars |->
                     IF c = j.char THEN [device |-> j.device, source |-> s]
                     ELSE IF row[c] # None /\ row[c].device = j.device THEN None ELSE row[c]]
     ELSE UNCHANGED row
  /\ Finish(t)
  /\ UNCHANGED <<fleetOf, slot, ended, revoked, linked>>

Init ==
  /\ fleetOf \in [Sources -> Fleets \union {None}]
  /\ slot \in [Fleets -> Sources \union {None}]
  /\ \A f \in Fleets : slot[f] # None => fleetOf[slot[f]] = f
  /\ row \in [Chars -> Rows \union {None}]
  /\ \A c \in Chars : row[c] # None =>
       fleetOf[row[c].source] # None /\ slot[fleetOf[row[c].source]] = row[c].source
       /\ HolderOf[row[c].device] = AccountOf[c]
  /\ ended = {} /\ revoked = {} /\ linked = Chars
  /\ job \in [Txs -> Jobs] /\ stage = [t \in Txs |-> 1]
  /\ todo = [t \in Txs |-> Probe(job[t], Route(job[t])[1])] /\ held = [t \in Txs |-> {}] /\ saw = [t \in Txs |-> {}]
  /\ tries = [t \in Txs |-> 0]

Next == \E t \in Txs :
  \/ Take(t) \/ Advance(t) \/ StartOver(t)
  \/ CommitWithdrawal(t) \/ CommitRun(t) \/ CommitPublication(t)
Spec == Init /\ [][Next]_vars

-----------------------------------------------------------------------------
TablesOK ==
  /\ fleetOf \in [Sources -> Fleets \union {None}] /\ slot \in [Fleets -> Sources \union {None}]
  /\ row \in [Chars -> Rows \union {None}]
  /\ ended \subseteq Sources /\ revoked \subseteq Devices /\ linked \subseteq Chars
TypeOK ==
  /\ TablesOK
  /\ job \in [Txs -> Jobs \union {Idle}] /\ stage \in [Txs -> 1..6]
  /\ \A t \in Txs : job[t] # Idle => stage[t] <= Len(Route(job[t])) /\ tries[t] <= Retries
  /\ \A x \in {held, todo, saw} : x \in [Txs -> SUBSET LockIds]
  /\ tries \in [Txs -> 0..(Retries + 1)]

Wanted(t) == {l \in todo[t] : l = NextLock(t)}
WaitsFor(t, u) == \E l \in Wanted(t) : u \in Holders(t, l)

\* No set of transactions waits for itself: whatever each probed before it had
\* to wait, all of them take the characters, accounts, slots, sources, devices
\* and published rows they share in one order.
NoCircularWait == \A S \in SUBSET Txs : S # {} => \E t \in S : \A u \in S : ~WaitsFor(t, u)

\* What is withdrawn is withdrawn whole, though sources were bound or proved and
\* rows published while the locks were waited for: a revoked device has no row
\* and no source, an unlinked character neither, a slot has a live source of its
\* fleet, a row the source that holds the slot.
NothingLeftBehind ==
  /\ \A c \in Chars : row[c] # None => row[c].device \notin revoked
  /\ \A s \in Sources : ViaOf[s] \in revoked => s \in ended
  /\ \A c \in Chars \ linked : row[c] = None /\ \A s \in Sources : BossOf[s] = c => s \in ended
  /\ \A f \in Fleets : slot[f] # None => slot[f] \in Live /\ fleetOf[slot[f]] = f
  /\ \A c \in Chars : row[c] # None => slot[fleetOf[row[c].source]] = row[c].source
==============================================================================
