-------------------------- MODULE PlatformProofs ----------------------------
(* The transactions of fleet sharing never wait for themselves and leave      *)
(* nothing half withdrawn, for any number of them: each takes its locks       *)
(* upwards, what its probes found is in its hand as far as it has come, and   *)
(* beyond the sources nobody else can add to what it will write: whoever      *)
(* could would need a lock that it holds.  And what the pages show is so: the *)
(* calendar of the schedules comes round, so that the next fire is never      *)
(* further off than the largest gap; and each of the components behind the    *)
(* pages has an invariant that its page follows from.                         *)
EXTENDS MCPlatform, FiniteSetTheorems, WellFoundedInduction, TLAPS

(* What a transaction t has in hand are the locks it has and those of its     *)
(* stage that it still waits for.                                             *)
At(t) == Route(job[t])[stage[t]]
InHand(t) == held[t] \union todo[t]
Withdrawing == {"withdraw", "unlink", "drain"}

\* The highest level of the locks of a stage.
Top(j, st) ==
  CASE st = "mode" -> 0 [] st = "owners" -> 2 [] st = "slots" -> 3 [] st = "sources" -> 4
    [] st = "devices" /\ j.kind # "publish" -> 5 [] OTHER -> 6

\* What it still waits for is above what it has, nothing in hand is above its
\* stage, and what a probe found has been taken as far as the stage reaches.
Upwards(t) == \A h \in held[t], k \in todo[t] : Below(h, k)
Reaches(t) == \A l \in InHand(t) : l[1] <= Top(job[t], At(t))
SawInHand(t) == \A l \in saw[t] : l[1] <= Top(job[t], At(t)) => l \in InHand(t)
\* The selectors that no other transaction can change meanwhile.
SelectorsInHand(t) ==
  /\ job[t].kind # "prune" => Mode \in InHand(t)
  /\ job[t].kind = "unlink" /\ At(t) # "mode" => <<1, job[t].char>> \in InHand(t)
  /\ job[t].kind = "observe" /\ At(t) \notin {"mode", "owners"} => <<3, job[t].fleet>> \in InHand(t)
  /\ job[t].kind \in {"withdraw", "drain"} /\ At(t) = "relay" =>
       \A d \in DevicesOf(job[t]) : <<5, d>> \in InHand(t)
\* Beyond the sources, all that a transaction will end or displace is locked.
SourcesInHand(t) == \A j \in {job[t]} : At(t) \in {"devices", "relay"} =>
  /\ j.kind \in Withdrawing => \A s \in Reached(j) : <<4, s>> \in InHand(t)
  /\ j.kind = "observe" =>
       /\ <<4, j.source>> \in InHand(t)
       /\ j.source \in Live =>
            /\ fleetOf[j.source] # None => <<3, fleetOf[j.source]>> \in InHand(t)
            /\ \A s \in SourceSet(j) : <<4, s>> \in InHand(t)
RowsInHand(t) == \A j \in {job[t]} : At(t) = "relay" =>
  /\ j.kind \in Withdrawing =>
       \A c \in RowsOf(DevicesOf(j), Reached(j), CharsOf(j)) : <<6, c>> \in InHand(t)
  /\ j.kind = "observe" => \A c \in RowsOf({}, {j.source}, {}) : <<6, c>> \in InHand(t)

\* There nothing of an earlier level is waited for any more.
Settled(t) ==
  \A l \in todo[t] : (At(t) = "devices" => l[1] > 4) /\ (At(t) = "relay" => l[1] > 5)

InOrder(t) ==
  /\ job[t] = Idle => InHand(t) = {}
  /\ Upwards(t)
  /\ job[t] # Idle => Reaches(t) /\ Settled(t) /\ SawInHand(t)
                     /\ SelectorsInHand(t) /\ SourcesInHand(t) /\ RowsInHand(t)

\* No lock is held by two that exclude each other.
Exclusive == \A t, u \in Txs : t # u => \A l \in held[t] \cap held[u] : ~Conflicts(t, u, l)

\* What the committed tables keep.
SlotsLive == \A f \in Fleets : slot[f] # None => slot[f] \in Live /\ fleetOf[slot[f]] = f
RowsUnderSlots == \A c \in Chars : row[c] # None =>
  fleetOf[row[c].source] \in Fleets /\ slot[fleetOf[row[c].source]] = row[c].source
RevokedGone ==
  /\ \A c \in Chars : row[c] # None => row[c].device \notin revoked
  /\ \A s \in Sources : ViaOf[s] \in revoked => s \in ended
UnlinkedGone == \A c \in Chars \ linked : row[c] = None /\ \A s \in Sources : BossOf[s] = c => s \in ended
Whole == SlotsLive /\ RowsUnderSlots /\ RevokedGone /\ UnlinkedGone

\* The inductive invariant.
IInv == TypeOK /\ (\A t \in Txs : InOrder(t)) /\ Exclusive /\ Whole

-----------------------------------------------------------------------------
(* The order of the locks.                                                    *)

LEMMA BelowOrders ==
  ASSUME NEW l \in Nat \X Nat, NEW k \in Nat \X Nat, NEW m \in Nat \X Nat
  PROVE  /\ ~Below(l, l)
         /\ Below(l, k) /\ Below(k, m) => Below(l, m)
         /\ l = k \/ Below(l, k) \/ Below(k, l)
BY DEF Below

\* A nonempty finite set has an element under which R has no other, for any R
\* that is a strict order on it.
StrictOrder(S, R) ==
  /\ \A x \in S : <<x, x>> \notin R
  /\ \A x, y, z \in S : <<x, y>> \in R /\ <<y, z>> \in R => <<x, z>> \in R
HasLowest(S, R) == \E x \in S : \A y \in S : <<y, x>> \notin R

\* A finite set that a relation orders strictly has a lowest element.
LEMMA FiniteLowest ==
  ASSUME NEW S, IsFiniteSet(S), S # {}, NEW R, StrictOrder(S, R)
  PROVE  HasLowest(S, R)
<1> DEFINE Under(x) == {y \in S : <<y, x>> \in R}
           All == {Under(x) : x \in S}
<1>1. IsWellFoundedOn(StrictSubsetOrdering(S), FiniteSubsetsOf(S))
  BY FS_StrictSubsetOrderingWellFounded
<1>2. All \subseteq FiniteSubsetsOf(S) /\ All # {}
  <2>1. \A x \in S : IsFiniteSet(Under(x)) /\ Under(x) \in SUBSET S
    BY FS_Subset
  <2> HIDE DEF Under
  <2>2. All # {}
    OBVIOUS
  <2> QED BY <2>1, <2>2 DEF FiniteSubsetsOf
<1>3. \E U \in All : \A V \in All : ~(<<V, U>> \in StrictSubsetOrdering(S))
  <2> HIDE DEF All
  <2> QED BY <1>1, <1>2, WFMin
<1>4. PICK x \in S : \A V \in All : ~(<<V, Under(x)>> \in StrictSubsetOrdering(S))
  BY <1>3
<1>5. ASSUME NEW y \in S, <<y, x>> \in R
      PROVE  FALSE
  <2>1. Under(y) \in All /\ Under(y) \in SUBSET S /\ Under(x) \in SUBSET S
    OBVIOUS
  <2>2. Under(y) \subseteq Under(x)
    BY <1>5 DEF StrictOrder
  <2>3. y \in Under(x) /\ y \notin Under(y)
    BY <1>5 DEF StrictOrder
  <2>4. <<Under(y), Under(x)>> \in StrictSubsetOrdering(S)
    <3> HIDE DEF Under
    <3>1. Under(y) # Under(x)
      BY <2>3
    <3> QED BY <2>1, <2>2, <3>1 DEF StrictSubsetOrdering
  <2> QED BY <1>4, <2>1, <2>4
<1> QED BY <1>5 DEF HasLowest

\* Of finitely many locks one is below all others.
LEMMA LowestLock ==
  ASSUME NEW L \in SUBSET (Nat \X Nat), IsFiniteSet(L), L # {}
  PROVE  \E l \in L : \A k \in L \ {l} : Below(l, k)
<1> DEFINE R == {p \in L \X L : Below(p[1], p[2])}
<1>1. StrictOrder(L, R)
  <2>1. \A x \in L : <<x, x>> \notin R
    BY BelowOrders
  <2>2. ASSUME NEW x \in L, NEW y \in L, NEW z \in L, <<x, y>> \in R, <<y, z>> \in R
        PROVE  <<x, z>> \in R
    <3>1. x \in Nat \X Nat /\ y \in Nat \X Nat /\ z \in Nat \X Nat /\ Below(x, y) /\ Below(y, z)
      BY <2>2
    <3> QED BY <3>1, BelowOrders
  <2> HIDE DEF R
  <2> QED BY <2>1, <2>2 DEF StrictOrder
<1>2. HasLowest(L, R)
  BY <1>1, FiniteLowest
<1>3. PICK l \in L : \A k \in L : <<k, l>> \notin R
  BY <1>2 DEF HasLowest
<1>4. ASSUME NEW k \in L \ {l} PROVE Below(l, k)
  <2>1. l \in Nat \X Nat /\ k \in Nat \X Nat /\ ~Below(k, l)
    BY <1>3
  <2> QED BY <2>1, BelowOrders
<1> QED BY <1>4

-----------------------------------------------------------------------------
(* What a stage is.                                                           *)

LEMMA LockLevels ==
  ASSUME NEW I
  PROVE  /\ LocksOf("identity", I) = {<<1, i>> : i \in I}
         /\ LocksOf("account", I) = {<<2, i>> : i \in I}
         /\ LocksOf("slot", I) = {<<3, i>> : i \in I}
         /\ LocksOf("source", I) = {<<4, i>> : i \in I}
         /\ LocksOf("device", I) = {<<5, i>> : i \in I}
         /\ LocksOf("relay", I) = {<<6, i>> : i \in I}
BY DEF LocksOf, Levels

\* What the selectors of a job are.
LEMMA JobKinds ==
  ASSUME NEW j \in Jobs
  PROVE  \/ j.kind = "observe" /\ j.source \in Sources /\ j.fleet \in Fleets
         \/ j.kind = "publish" /\ j.device \in Devices /\ j.char \in Chars
         \/ j.kind = "withdraw" /\ j.account \in Accounts
         \/ j.kind = "unlink" /\ j.char \in Chars
         \/ j.kind \in {"drain", "prune"}
BY DEF Jobs

\* The stages of each kind of job.
LEMMA Routes ==
  ASSUME NEW j \in Jobs
  PROVE  /\ j.kind = "observe" => Route(j) = <<"mode", "owners", "slots", "sources", "devices", "relay">>
         /\ j.kind = "publish" => Route(j) = <<"mode", "owners", "sources", "devices">>
         /\ j.kind \in {"withdraw", "unlink"} => Route(j) = <<"mode", "owners", "sources", "devices", "relay">>
         /\ j.kind = "drain" => Route(j) = <<"mode", "sources", "devices", "relay">>
         /\ j.kind = "prune" => Route(j) = <<"relay">>
BY DEF Route

\* The stages a stage may be followed by.
Follows(j, n, a, b) ==
  /\ j.kind # "prune"
  /\ \/ a = "mode" /\ b = "owners" /\ j.kind # "drain"
     \/ a = "mode" /\ b = "sources" /\ j.kind = "drain"
     \/ a = "owners" /\ b = "slots" /\ j.kind = "observe"
     \/ a = "owners" /\ b = "sources" /\ j.kind \in {"publish", "withdraw", "unlink"}
     \/ a = "slots" /\ b = "sources" /\ j.kind = "observe"
     \/ a = "sources" /\ b = "devices"
     \/ a = "devices" /\ b = "relay" /\ j.kind # "publish"
  /\ j.kind = "publish" => (n > 1 <=> a # "mode")

\* A stage that is not the last has one of its followers next.
LEMMA RouteSteps ==
  ASSUME NEW j \in Jobs, NEW n \in 1..6, n < Len(Route(j))
  PROVE  Follows(j, n, Route(j)[n], Route(j)[n + 1]) /\ n + 1 \in 1..6 /\ n + 1 <= Len(Route(j))
<1>1. CASE j.kind = "observe"
  <2>1. Route(j) = <<"mode", "owners", "slots", "sources", "devices", "relay">>
    BY <1>1, Routes
  <2>2. n \in {1, 2, 3, 4, 5}
    BY <2>1
  <2> QED BY <1>1, <2>1, <2>2 DEF Follows
<1>2. CASE j.kind = "publish"
  <2>1. Route(j) = <<"mode", "owners", "sources", "devices">>
    BY <1>2, Routes
  <2>2. n \in {1, 2, 3}
    BY <2>1
  <2> QED BY <1>2, <2>1, <2>2 DEF Follows
<1>3. CASE j.kind \in {"withdraw", "unlink"}
  <2>1. Route(j) = <<"mode", "owners", "sources", "devices", "relay">>
    BY <1>3, Routes
  <2>2. n \in {1, 2, 3, 4}
    BY <2>1
  <2> QED BY <1>3, <2>1, <2>2 DEF Follows
<1>4. CASE j.kind = "drain"
  <2>1. Route(j) = <<"mode", "sources", "devices", "relay">>
    BY <1>4, Routes
  <2>2. n \in {1, 2, 3}
    BY <2>1
  <2> QED BY <1>4, <2>1, <2>2 DEF Follows
<1>5. CASE j.kind = "prune"
  <2>1. Route(j) = <<"relay">>
    BY <1>5, Routes
  <2> QED BY <2>1
<1> QED BY <1>1, <1>2, <1>3, <1>4, <1>5, JobKinds

\* Every job but a pruning starts at the mode and ends at its rows.
LEMMA RouteEnds ==
  ASSUME NEW j \in Jobs
  PROVE  /\ Len(Route(j)) \in 1..6
         /\ Route(j)[1] = IF j.kind = "prune" THEN "relay" ELSE "mode"
         /\ Route(j)[Len(Route(j))] = IF j.kind = "publish" THEN "devices" ELSE "relay"
<1>1. CASE j.kind = "observe"
  <2>1. Route(j) = <<"mode", "owners", "slots", "sources", "devices", "relay">>
    BY <1>1, Routes
  <2>2. Len(Route(j)) = 6
    BY <2>1
  <2> QED BY <1>1, <2>1, <2>2
<1>2. CASE j.kind = "publish"
  <2>1. Route(j) = <<"mode", "owners", "sources", "devices">>
    BY <1>2, Routes
  <2>2. Len(Route(j)) = 4
    BY <2>1
  <2> QED BY <1>2, <2>1, <2>2
<1>3. CASE j.kind \in {"withdraw", "unlink"}
  <2>1. Route(j) = <<"mode", "owners", "sources", "devices", "relay">>
    BY <1>3, Routes
  <2>2. Len(Route(j)) = 5
    BY <2>1
  <2> QED BY <1>3, <2>1, <2>2
<1>4. CASE j.kind = "drain"
  <2>1. Route(j) = <<"mode", "sources", "devices", "relay">>
    BY <1>4, Routes
  <2>2. Len(Route(j)) = 4
    BY <2>1
  <2> QED BY <1>4, <2>1, <2>2
<1>5. CASE j.kind = "prune"
  <2>1. Route(j) = <<"relay">>
    BY <1>5, Routes
  <2> QED BY <1>5, <2>1
<1> QED BY <1>1, <1>2, <1>3, <1>4, <1>5, JobKinds

\* The locks of a level are locks.
LEMMA LocksTyped ==
  ASSUME NEW Ids, \A i \in Ids : /\ <<1, i>> \in LockIds /\ <<2, i>> \in LockIds /\ <<3, i>> \in LockIds
                                /\ <<4, i>> \in LockIds /\ <<5, i>> \in LockIds /\ <<6, i>> \in LockIds,
         NEW I \in SUBSET Ids
  PROVE  /\ LocksOf("identity", I) \subseteq LockIds /\ LocksOf("account", I) \subseteq LockIds
         /\ LocksOf("slot", I) \subseteq LockIds /\ LocksOf("source", I) \subseteq LockIds
         /\ LocksOf("device", I) \subseteq LockIds /\ LocksOf("relay", I) \subseteq LockIds
<1>1. {<<1, i>> : i \in I} \subseteq LockIds
  OBVIOUS
<1>2. {<<2, i>> : i \in I} \subseteq LockIds
  OBVIOUS
<1>3. {<<3, i>> : i \in I} \subseteq LockIds
  OBVIOUS
<1>4. {<<4, i>> : i \in I} \subseteq LockIds
  OBVIOUS
<1>5. {<<5, i>> : i \in I} \subseteq LockIds
  OBVIOUS
<1>6. {<<6, i>> : i \in I} \subseteq LockIds
  OBVIOUS
<1> QED BY <1>1, <1>2, <1>3, <1>4, <1>5, <1>6, LockLevels

\* A probe finds nothing but locks of rows there are.
LEMMA ProbeTyped ==
  ASSUME LocksAssumption, TablesOK, NEW j \in Jobs, NEW st, st = "slots" => j.kind = "observe"
  PROVE  Probe(j, st) \in SUBSET LockIds
<1> DEFINE Ids == {0} \union Accounts \union Chars \union Fleets \union Sources \union Devices
<1>1. \A i \in Ids : /\ <<1, i>> \in LockIds /\ <<2, i>> \in LockIds /\ <<3, i>> \in LockIds
                    /\ <<4, i>> \in LockIds /\ <<5, i>> \in LockIds /\ <<6, i>> \in LockIds
                    /\ <<0, i>> \in LockIds
  BY DEF LockIds
<1>2. \A I \in SUBSET Ids : /\ LocksOf("identity", I) \subseteq LockIds
                            /\ LocksOf("account", I) \subseteq LockIds
                            /\ LocksOf("slot", I) \subseteq LockIds
                            /\ LocksOf("source", I) \subseteq LockIds
                            /\ LocksOf("device", I) \subseteq LockIds
                            /\ LocksOf("relay", I) \subseteq LockIds
  BY <1>1, LocksTyped
<1>3. /\ \A s \in Sources : BossOf[s] \in Ids /\ OwnerOf[s] \in Ids /\ ViaOf[s] \in Ids
      /\ \A d \in Devices : HolderOf[d] \in Ids
      /\ \A c \in Chars : AccountOf[c] \in Ids
      /\ \A f \in Fleets : slot[f] # None => slot[f] \in Sources
      /\ \A s \in Sources : fleetOf[s] # None => fleetOf[s] \in Fleets
      /\ \A c \in Chars : row[c] # None => row[c].device \in Devices
      /\ Accounts \subseteq Ids /\ Chars \subseteq Ids /\ Fleets \subseteq Ids /\ Sources \subseteq Ids
      /\ Devices \subseteq Ids /\ Mode \in LockIds
  BY <1>1 DEF LocksAssumption, TablesOK, Rows, Mode
<1> HIDE DEF Ids
<1>4. CASE j.kind = "publish"
  <2> DEFINE C == {j.char} \union RowsOf({j.device}, {}, {j.char})
             S == {slot[f] : f \in Fleets} \ {None}
             D == {j.device} \union {row[c].device : c \in RowsOf({j.device}, {}, {j.char})}
                    \union {ViaOf[s] : s \in S}
             I == C \union {BossOf[s] : s \in S}
             A == {HolderOf[d] : d \in D} \union {AccountOf[c] : c \in I} \union {OwnerOf[s] : s \in S}
  <2>1. j.device \in Devices /\ j.char \in Chars
    BY <1>4, JobKinds
  <2>2. S \subseteq Sources /\ C \subseteq Chars
    BY <1>3, <2>1 DEF RowsOf
  <2>3. D \subseteq Devices /\ I \subseteq Chars
    BY <1>3, <2>1, <2>2 DEF RowsOf, LocksAssumption
  <2>4. A \subseteq Ids /\ SlotsOf(S) \subseteq Ids /\ S \subseteq Ids /\ C \subseteq Ids
        /\ D \subseteq Ids /\ I \subseteq Ids
    <3>1. S \subseteq Ids /\ C \subseteq Ids /\ D \subseteq Ids /\ I \subseteq Ids
      BY <1>3, <2>2, <2>3
    <3>2. SlotsOf(S) \subseteq Ids
      BY <1>3 DEF SlotsOf
    <3>3. \A d \in D : HolderOf[d] \in Ids
      BY <1>3, <2>3
    <3>4. (\A c \in I : AccountOf[c] \in Ids) /\ \A s \in S : OwnerOf[s] \in Ids
      BY <1>3, <2>2, <2>3
    <3>5. A \subseteq Ids
      BY <3>3, <3>4
    <3> QED
      BY <3>1, <3>2, <3>5
  <2>5. PublishLocks(j) = LocksOf("identity", I) \union LocksOf("account", A)
          \union LocksOf("slot", SlotsOf(S)) \union LocksOf("source", S)
          \union LocksOf("device", D) \union LocksOf("relay", C)
    BY DEF PublishLocks
  <2> HIDE DEF C, S, D, I, A
  <2>6. /\ LocksOf("identity", I) \subseteq LockIds /\ LocksOf("account", A) \subseteq LockIds
        /\ LocksOf("slot", SlotsOf(S)) \subseteq LockIds /\ LocksOf("source", S) \subseteq LockIds
        /\ LocksOf("device", D) \subseteq LockIds /\ LocksOf("relay", C) \subseteq LockIds
    BY <1>2, <2>4
  <2>7. PublishLocks(j) \subseteq LockIds
    BY <2>5, <2>6
  <2> QED BY <1>3, <1>4, <2>7 DEF Probe
<1>5. CASE j.kind # "publish"
  <2>1. /\ SourceSet(j) \subseteq (IF j.kind = "observe" THEN Sources ELSE SourceSet(j))
        /\ Reached(j) \subseteq Sources /\ DevicesOf(j) \subseteq Devices
        /\ \A D, S, X : RowsOf(D, S, X) \subseteq Chars
        /\ \A S : SlotsOf(S) \subseteq Fleets
        /\ \A S \in SUBSET Sources : FleetsOf(S) \subseteq Fleets
    <3>1. j.kind = "observe" => SourceSet(j) \subseteq Sources
      BY JobKinds DEF SourceSet, Live
    <3> QED BY <1>3, <3>1 DEF Reached, Live, DevicesOf, RowsOf, SlotsOf, FleetsOf
  <2>2. CASE st = "mode"
    BY <1>3, <1>5, <2>2 DEF Probe
  <2>3. CASE st = "owners"
    <3>1. CASE j.kind = "observe"
      <4>1. {BossOf[s] : s \in SourceSet(j)} \subseteq Ids /\ {OwnerOf[s] : s \in SourceSet(j)} \subseteq Ids
        BY <1>3, <2>1, <3>1
      <4>2. Probe(j, st) = LocksOf("identity", {BossOf[s] : s \in SourceSet(j)})
                             \union LocksOf("account", {OwnerOf[s] : s \in SourceSet(j)})
        BY <2>3, <3>1 DEF Probe
      <4> QED BY <1>2, <4>1, <4>2
    <3>2. CASE j.kind = "withdraw"
      <4>1. {j.account} \subseteq Ids
        BY <1>3, <3>2, JobKinds
      <4>2. Probe(j, st) = LocksOf("account", {j.account})
        BY <2>3, <3>2 DEF Probe
      <4> QED BY <1>2, <4>1, <4>2
    <3>3. CASE j.kind = "unlink"
      <4> DEFINE A == IF j.char \in linked THEN {AccountOf[j.char]} ELSE {}
      <4>1. {j.char} \subseteq Ids /\ A \subseteq Ids
        BY <1>3, <3>3, JobKinds
      <4>2. Probe(j, st) = LocksOf("identity", {j.char}) \union LocksOf("account", A)
        BY <2>3, <3>3 DEF Probe
      <4> HIDE DEF A
      <4> QED BY <1>2, <4>1, <4>2
    <3>4. CASE j.kind \in {"drain", "prune"}
      BY <2>3, <3>4 DEF Probe
    <3> QED BY <1>5, <3>1, <3>2, <3>3, <3>4, JobKinds
  <2>4. CASE st = "slots"
    <3>1. FleetsOf(SourceSet(j)) \union {j.fleet} \subseteq Ids
      BY <1>3, <2>1, <2>4, JobKinds
    <3>2. Probe(j, st) = LocksOf("slot", FleetsOf(SourceSet(j)) \union {j.fleet})
      BY <2>4 DEF Probe
    <3> QED BY <1>2, <3>1, <3>2
  <2>5. CASE st = "sources"
    <3> DEFINE F == FleetsOf(Reached(j)) \union SlotsOf(Reached(j)) \union (IF j.kind = "drain" THEN Fleets ELSE {})
               S == Reached(j) \union (IF j.kind = "observe" THEN {j.source} ELSE {})
    <3>1. F \subseteq Ids /\ S \subseteq Ids
      BY <1>3, <2>1, JobKinds
    <3>2. Probe(j, st) = LocksOf("slot", F) \union LocksOf("source", S)
      BY <1>5, <2>5 DEF Probe
    <3> HIDE DEF F, S
    <3> QED BY <1>2, <3>1, <3>2
  <2>6. CASE st = "devices"
    <3> DEFINE D == DevicesOf(j) \union {ViaOf[s] : s \in Reached(j)}
                      \union {row[c].device : c \in RowsOf(DevicesOf(j), Reached(j), CharsOf(j))}
    <3>1. D \subseteq Ids
      <4>1. \A c \in RowsOf(DevicesOf(j), Reached(j), CharsOf(j)) : row[c].device \in Devices
        BY <1>3 DEF RowsOf
      <4> QED BY <1>3, <2>1, <4>1
    <3>2. Probe(j, st) = LocksOf("device", D)
      BY <1>5, <2>6 DEF Probe
    <3> HIDE DEF D
    <3> QED BY <1>2, <3>1, <3>2
  <2>7. CASE st = "relay"
    <3>1. RowsOf(DevicesOf(j), Reached(j), CharsOf(j)) \subseteq Ids
      BY <1>3, <2>1
    <3>2. Probe(j, st) = LocksOf("relay", RowsOf(DevicesOf(j), Reached(j), CharsOf(j)))
      BY <1>5, <2>7 DEF Probe
    <3> QED BY <1>2, <3>1, <3>2
  <2>8. CASE st \notin {"mode", "owners", "slots", "sources", "devices", "relay"}
    BY <1>5, <2>8 DEF Probe
  <2> QED BY <2>2, <2>3, <2>4, <2>5, <2>6, <2>7, <2>8
<1> QED BY <1>4, <1>5

\* Every helper that locks several rows sorts them: there is a next one, and it
\* is in order with what the transaction has and what it waits for afterwards.
LEMMA NextIsLowest ==
  ASSUME LocksAssumption, TypeOK, NEW t \in Txs, todo[t] # {}
  PROVE  /\ NextLock(t) \in todo[t]
         /\ \A k \in todo[t] \ {NextLock(t)} : Below(NextLock(t), k)
<1>1. LockIds \subseteq Nat \X Nat /\ IsFiniteSet(LockIds)
  <2> DEFINE Ids == {0} \union Accounts \union Chars \union Fleets \union Sources \union Devices
  <2>1. IsFiniteSet(Ids)
    <3>1. /\ IsFiniteSet(Accounts) /\ IsFiniteSet(Chars) /\ IsFiniteSet(Fleets)
          /\ IsFiniteSet(Sources) /\ IsFiniteSet(Devices) /\ IsFiniteSet({0})
      BY FS_Singleton DEF LocksAssumption
    <3>2. IsFiniteSet({0} \union Accounts)
      BY <3>1, FS_Union
    <3>3. IsFiniteSet(({0} \union Accounts) \union Chars)
      BY <3>1, <3>2, FS_Union
    <3>4. IsFiniteSet((({0} \union Accounts) \union Chars) \union Fleets)
      BY <3>1, <3>3, FS_Union
    <3>5. IsFiniteSet(((({0} \union Accounts) \union Chars) \union Fleets) \union Sources)
      BY <3>1, <3>4, FS_Union
    <3> QED BY <3>1, <3>5, FS_Union
  <2>2. Ids \subseteq Nat
    BY DEF LocksAssumption
  <2>3. IsFiniteSet(0..6) /\ 0..6 \subseteq Nat
    <3>1. 0 \in Int /\ 6 \in Int /\ 0..6 \subseteq Nat
      OBVIOUS
    <3>2. IsFiniteSet(0..6)
      BY <3>1, FS_Interval
    <3> QED BY <3>1, <3>2
  <2>4. LockIds = (0..6) \X Ids
    BY DEF LockIds
  <2> HIDE DEF Ids
  <2>5. IsFiniteSet((0..6) \X Ids)
    BY <2>1, <2>3, FS_Product
  <2>6. (0..6) \X Ids \subseteq Nat \X Nat
    BY <2>2, <2>3
  <2> QED BY <2>4, <2>5, <2>6
<1>2. todo[t] \in SUBSET (Nat \X Nat) /\ IsFiniteSet(todo[t])
  <2>1. todo[t] \subseteq LockIds
    BY DEF TypeOK
  <2> QED BY <1>1, <2>1, FS_Subset
<1>3. \E l \in todo[t] : \A k \in todo[t] \ {l} : Below(l, k)
  BY <1>2, LowestLock
<1> QED BY <1>3 DEF NextLock

-----------------------------------------------------------------------------
\* The invariant holds before any transaction has taken a lock.
LEMMA InitOK == LocksAssumption /\ Init => IInv
<1> SUFFICES ASSUME LocksAssumption, Init PROVE IInv
  OBVIOUS
<1>1. \A t \in Txs : /\ job[t] \in Jobs /\ job[t] # Idle /\ stage[t] = 1 /\ held[t] = {} /\ saw[t] = {}
                     /\ At(t) = IF job[t].kind = "prune" THEN "relay" ELSE "mode"
                     /\ todo[t] = Probe(job[t], At(t)) /\ 1 <= Len(Route(job[t]))
  <2> TAKE t \in Txs
  <2>1. PICK j \in Jobs : j = job[t]
    BY DEF Init
  <2>2. stage[t] = 1 /\ held[t] = {} /\ saw[t] = {} /\ todo[t] = Probe(j, Route(j)[1])
    BY <2>1 DEF Init
  <2>3. /\ Route(j)[1] = IF j.kind = "prune" THEN "relay" ELSE "mode"
        /\ Len(Route(j)) \in 1..6
    BY RouteEnds
  <2>4. j # Idle
    BY DEF LocksAssumption
  <2> QED BY <2>1, <2>2, <2>3, <2>4 DEF At
<1>2. Whole
  <2>1. SlotsLive /\ RowsUnderSlots
    BY DEF Init, SlotsLive, RowsUnderSlots, Live, LocksAssumption, Rows
  <2>2. RevokedGone /\ UnlinkedGone
    BY DEF Init, RevokedGone, UnlinkedGone
  <2> QED BY <2>1, <2>2 DEF Whole
<1>3. TypeOK
  <2>1. TablesOK
    BY DEF Init, TablesOK
  <2>2. /\ job \in [Txs -> Jobs \union {Idle}] /\ stage \in [Txs -> 1..6] /\ tries \in [Txs -> 0..(Retries + 1)]
        /\ \A t \in Txs : tries[t] <= Retries
    BY DEF Init, LocksAssumption
  <2>3. held \in [Txs -> SUBSET LockIds] /\ saw \in [Txs -> SUBSET LockIds]
    BY DEF Init
  <2>4. todo \in [Txs -> SUBSET LockIds]
    <3>1. \A t \in Txs : todo[t] \in SUBSET LockIds
      BY <1>1, <2>1, ProbeTyped
    <3>2. todo = [t \in Txs |-> todo[t]]
      BY DEF Init
    <3> QED BY <3>1, <3>2
  <2> QED BY <1>1, <2>1, <2>2, <2>3, <2>4 DEF TypeOK
<1>4. ASSUME NEW t \in Txs PROVE InOrder(t)
  <2>1. CASE job[t].kind = "prune"
    <3>1. At(t) = "relay" /\ todo[t] = LocksOf("relay", RowsOf(DevicesOf(job[t]), Reached(job[t]), CharsOf(job[t])))
      BY <1>1, <2>1 DEF Probe
    <3>2. \A l \in todo[t] : l[1] = 6
      BY <3>1, LockLevels
    <3>3. Reaches(t)
      BY <1>1, <3>1, <3>2 DEF Reaches, InHand, Top
    <3> QED BY <1>1, <2>1, <3>1, <3>2, <3>3
            DEF InOrder, Upwards, Settled, SawInHand, SelectorsInHand, SourcesInHand, RowsInHand, Withdrawing
  <2>2. CASE job[t].kind # "prune"
    <3>1. At(t) = "mode" /\ todo[t] = {Mode}
      BY <1>1, <2>2 DEF Probe
    <3>2. Reaches(t)
      BY <1>1, <3>1 DEF Reaches, InHand, Top, Mode
    <3> QED BY <1>1, <2>2, <3>1, <3>2
            DEF InOrder, Upwards, Settled, SawInHand, SelectorsInHand, SourcesInHand, RowsInHand, InHand
  <2> QED BY <2>1, <2>2
<1>5. Exclusive
  BY <1>1 DEF Exclusive
<1> QED BY <1>2, <1>3, <1>4, <1>5 DEF IInv

-----------------------------------------------------------------------------
(* What a step leaves alone.                                                  *)

Untouched(u) ==
  job'[u] = job[u] /\ stage'[u] = stage[u] /\ held'[u] = held[u] /\ todo'[u] = todo[u] /\ saw'[u] = saw[u]

\* A transaction that another one's step does not touch stays in order if what
\* it has in hand still covers the tables.
LEMMA OthersInOrder ==
  ASSUME NEW u \in Txs, InOrder(u), Untouched(u),
         job[u] # Idle => SourcesInHand(u)' /\ RowsInHand(u)'
  PROVE  InOrder(u)'
<1>1. At(u)' = At(u) /\ InHand(u)' = InHand(u)
  BY DEF Untouched, At, InHand
<1>2. Upwards(u)'
  BY DEF InOrder, Untouched, Upwards
<1>3. CASE job[u] # Idle
  <2>1. Reaches(u)' /\ SawInHand(u)'
    BY <1>1, <1>3 DEF InOrder, Untouched, Reaches, SawInHand
  <2>2. SelectorsInHand(u)' /\ Settled(u)'
    BY <1>1, <1>3 DEF InOrder, Untouched, SelectorsInHand, Settled
  <2> QED BY <1>2, <1>3, <2>1, <2>2 DEF InOrder, Untouched
<1>4. CASE job[u] = Idle
  BY <1>1, <1>2, <1>4 DEF InOrder, Untouched
<1> QED BY <1>3, <1>4

\* While the tables stay, a probe finds the same.
LEMMA SameTables ==
  ASSUME UNCHANGED tables
  PROVE  /\ \A j : Reached(j)' = Reached(j) /\ SourceSet(j)' = SourceSet(j)
         /\ \A D, S, C : RowsOf(D, S, C)' = RowsOf(D, S, C)
         /\ (TablesOK => TablesOK') /\ (Whole => Whole')
<1>0. /\ fleetOf' = fleetOf /\ slot' = slot /\ ended' = ended /\ row' = row
      /\ revoked' = revoked /\ linked' = linked
  BY DEF tables
<1>1. \A j : Reached(j)' = Reached(j) /\ SourceSet(j)' = SourceSet(j)
  BY <1>0 DEF Reached, SourceSet, Live
<1>2. \A D, S, C : RowsOf(D, S, C)' = RowsOf(D, S, C)
  BY <1>0 DEF RowsOf
<1>6. TablesOK => TablesOK'
  BY <1>0 DEF TablesOK
<1>7. Whole => Whole'
  BY <1>0 DEF Whole, SlotsLive, RowsUnderSlots, RevokedGone, UnlinkedGone, Live
<1> QED BY <1>1, <1>2, <1>6, <1>7

\* A transaction that keeps its locks still covers tables that stay.
LEMMA StillInHand ==
  ASSUME NEW u \in Txs, UNCHANGED tables, At(u)' = At(u), InHand(u)' = InHand(u), job'[u] = job[u]
  PROVE  /\ SourcesInHand(u) => SourcesInHand(u)'
         /\ RowsInHand(u) => RowsInHand(u)'
<1>1. fleetOf' = fleetOf /\ ended' = ended
  BY DEF tables
<1>2. SourcesInHand(u) => SourcesInHand(u)'
  BY <1>1, SameTables DEF SourcesInHand, Live
<1>3. RowsInHand(u) => RowsInHand(u)'
  BY SameTables DEF RowsInHand
<1> QED BY <1>2, <1>3

\* A step that writes no table keeps the invariant if it keeps it for its own transaction.
LEMMA OwnStep ==
  ASSUME IInv, NEW t \in Txs, UNCHANGED tables, TypeOK', InOrder(t)',
         \A u \in Txs \ {t} : Untouched(u),
         \A u \in Txs \ {t} : \A l \in held'[t] \cap held[u] : ~Conflicts(t, u, l)'
  PROVE  IInv'
<1>1. Whole'
  BY SameTables DEF IInv
<1>2. \A u \in Txs : InOrder(u)'
  <2> SUFFICES ASSUME NEW u \in Txs \ {t} PROVE InOrder(u)'
    OBVIOUS
  <2>1. job[u] # Idle => SourcesInHand(u) /\ RowsInHand(u)
    BY DEF IInv, InOrder
  <2>2. At(u)' = At(u) /\ InHand(u)' = InHand(u) /\ job'[u] = job[u]
    BY DEF Untouched, At, InHand
  <2>3. (SourcesInHand(u) => SourcesInHand(u)') /\ (RowsInHand(u) => RowsInHand(u)')
    BY <2>2, StillInHand
  <2> QED BY <2>1, <2>3, OthersInOrder DEF IInv
<1>3. Exclusive'
  <2> SUFFICES ASSUME NEW v \in Txs, NEW u \in Txs, v # u, NEW l \in held'[v] \cap held'[u]
               PROVE  ~Conflicts(v, u, l)'
    BY DEF Exclusive
  <2>1. CASE v = t
    BY <2>1 DEF Untouched
  <2>2. CASE u = t
    <3>1. ~Conflicts(t, v, l)'
      BY <2>2 DEF Untouched
    <3> QED BY <2>2, <3>1 DEF Conflicts
  <2>3. CASE v # t /\ u # t
    <3>1. ~Conflicts(v, u, l)
      BY <2>3 DEF IInv, Exclusive, Untouched
    <3> QED BY <2>3, <3>1 DEF Conflicts, Untouched
  <2> QED BY <2>1, <2>2, <2>3
<1> QED BY <1>1, <1>2, <1>3 DEF IInv

-----------------------------------------------------------------------------
(* One transaction takes its next lock, goes on, or starts over.              *)

LEMMA TakeStep ==
  ASSUME LocksAssumption, IInv, NEW t \in Txs, Take(t)
  PROVE  IInv'
<1> DEFINE l == NextLock(t)
<1>1. TypeOK /\ InOrder(t) /\ Exclusive
  BY DEF IInv
<1>2. l \in todo[t] /\ \A k \in todo[t] \ {l} : Below(l, k)
  BY <1>1, NextIsLowest DEF Take
<1>3. /\ held' = [held EXCEPT ![t] = @ \union {l}] /\ todo' = [todo EXCEPT ![t] = @ \ {l}]
      /\ UNCHANGED tables /\ job' = job /\ stage' = stage /\ saw' = saw /\ tries' = tries
      /\ Holders(t, l) = {} /\ job[t] # Idle
  BY DEF Take, tables
<1> HIDE DEF l
<1>4. /\ held \in [Txs -> SUBSET LockIds] /\ todo \in [Txs -> SUBSET LockIds]
  BY <1>1 DEF TypeOK
<1>5. /\ held'[t] = held[t] \union {l} /\ todo'[t] = todo[t] \ {l} /\ l \in LockIds
      /\ held' \in [Txs -> SUBSET LockIds] /\ todo' \in [Txs -> SUBSET LockIds]
      /\ \A u \in Txs \ {t} : held'[u] = held[u] /\ todo'[u] = todo[u]
  BY <1>2, <1>3, <1>4
<1>6. TypeOK'
  BY <1>1, <1>3, <1>5, SameTables DEF TypeOK
<1>7. At(t)' = At(t) /\ InHand(t)' = InHand(t)
  BY <1>2, <1>3, <1>5 DEF At, InHand
<1>8. InOrder(t)'
  <2>1. Upwards(t)'
    BY <1>1, <1>2, <1>5 DEF InOrder, Upwards
  <2>2. Reaches(t)' /\ SawInHand(t)' /\ SelectorsInHand(t)'
    BY <1>1, <1>3, <1>7 DEF InOrder, Reaches, SawInHand, SelectorsInHand
  <2>3. (SourcesInHand(t) => SourcesInHand(t)') /\ (RowsInHand(t) => RowsInHand(t)')
    <3>1. job'[t] = job[t]
      BY <1>3
    <3> QED BY <1>3, <1>7, <3>1, StillInHand
  <2>4. SourcesInHand(t) /\ RowsInHand(t) /\ job'[t] # Idle
    BY <1>1, <1>3 DEF InOrder
  <2>5. Settled(t)'
    BY <1>1, <1>3, <1>5, <1>7 DEF InOrder, Settled
  <2> QED BY <2>1, <2>2, <2>3, <2>4, <2>5 DEF InOrder
<1>9. \A u \in Txs \ {t} : Untouched(u)
  BY <1>3, <1>5 DEF Untouched
<1>10. ASSUME NEW u \in Txs \ {t}, NEW k \in held'[t] \cap held[u]
       PROVE  ~Conflicts(t, u, k)'
  <2>1. ~Conflicts(t, u, k)
    <3>1. CASE k = l
      <4>1. job[u] # Idle
        <5>1. InOrder(u)
          BY DEF IInv
        <5> QED BY <5>1 DEF InOrder, InHand
      <4> QED BY <1>3, <3>1, <4>1 DEF Holders
    <3>2. CASE k # l
      BY <1>1, <1>5, <3>2 DEF Exclusive
    <3> QED BY <3>1, <3>2
  <2> QED BY <1>3, <2>1 DEF Conflicts
<1> QED BY <1>3, <1>6, <1>8, <1>9, <1>10, OwnStep

\* A transaction that has given everything up.
LEMMA NothingInHand ==
  ASSUME LocksAssumption, IInv, NEW t \in Txs, UNCHANGED tables, TypeOK',
         \A u \in Txs \ {t} : Untouched(u),
         held'[t] = {}, saw'[t] = {},
         \/ job'[t] = Idle /\ todo'[t] = {}
         \/ /\ job'[t] = job[t] /\ job[t] # Idle /\ stage'[t] = 1
            /\ todo'[t] = Probe(job[t], Route(job[t])[1])
  PROVE  IInv'
<1>1. Upwards(t)'
  BY DEF Upwards
<1>2. InOrder(t)'
  <2>1. CASE job'[t] = Idle /\ todo'[t] = {}
    BY <1>1, <2>1 DEF InOrder, InHand
  <2>2. CASE /\ job'[t] = job[t] /\ job[t] # Idle /\ stage'[t] = 1
             /\ todo'[t] = Probe(job[t], Route(job[t])[1])
    <3>1. PICK j \in Jobs : j = job[t]
      BY <2>2 DEF IInv, TypeOK
    <3>2. /\ Route(j)[1] = IF j.kind = "prune" THEN "relay" ELSE "mode"
          /\ job'[t] = j /\ At(t)' = Route(j)[1] /\ todo'[t] = Probe(j, Route(j)[1])
          /\ InHand(t)' = todo'[t]
      BY <2>2, <3>1, RouteEnds DEF At, InHand
    <3>3. CASE j.kind = "prune"
      <4>1. At(t)' = "relay" /\ todo'[t] = LocksOf("relay", RowsOf(DevicesOf(j), Reached(j), CharsOf(j)))
        BY <3>2, <3>3 DEF Probe
      <4>2. \A l \in todo'[t] : l[1] = 6
        BY <4>1, LockLevels
      <4>3. Reaches(t)'
        BY <3>2, <3>3, <4>1, <4>2 DEF Reaches, Top
      <4> QED BY <1>1, <3>2, <3>3, <4>1, <4>2, <4>3
              DEF InOrder, Settled, SawInHand, SelectorsInHand, SourcesInHand, RowsInHand, Withdrawing
    <3>4. CASE j.kind # "prune"
      <4>1. At(t)' = "mode" /\ todo'[t] = {Mode}
        BY <3>2, <3>4 DEF Probe
      <4>2. Reaches(t)'
        BY <3>2, <4>1 DEF Reaches, Top, Mode
      <4> QED BY <1>1, <2>2, <3>1, <3>2, <3>4, <4>1, <4>2
              DEF InOrder, Settled, SawInHand, SelectorsInHand, SourcesInHand, RowsInHand, InHand
    <3> QED BY <3>3, <3>4
  <2> QED BY <2>1, <2>2
<1> QED BY <1>2, OwnStep

\* Starting over gives up every lock, and nothing is written yet.
LEMMA StartOverStep ==
  ASSUME LocksAssumption, IInv, NEW t \in Txs, StartOver(t)
  PROVE  IInv'
<1>1. /\ TypeOK /\ UNCHANGED tables /\ job[t] # Idle
      /\ tries' = [tries EXCEPT ![t] = @ + 1] /\ held' = [held EXCEPT ![t] = {}]
      /\ stage' = [stage EXCEPT ![t] = 1] /\ saw' = [saw EXCEPT ![t] = {}]
      /\ IF tries[t] < Retries
         THEN job' = job /\ todo' = [todo EXCEPT ![t] = Probe(job[t], Route(job[t])[1])]
         ELSE job' = [job EXCEPT ![t] = Idle] /\ todo' = [todo EXCEPT ![t] = {}]
  BY DEF IInv, StartOver, tables
<1>2. /\ job \in [Txs -> Jobs \union {Idle}] /\ stage \in [Txs -> 1..6]
      /\ held \in [Txs -> SUBSET LockIds] /\ todo \in [Txs -> SUBSET LockIds]
      /\ saw \in [Txs -> SUBSET LockIds] /\ tries \in [Txs -> 0..(Retries + 1)]
      /\ \A u \in Txs : job[u] # Idle => stage[u] <= Len(Route(job[u])) /\ tries[u] <= Retries
      /\ TablesOK /\ Retries \in Nat
  BY <1>1 DEF TypeOK, LocksAssumption
<1>3. PICK j \in Jobs : j = job[t]
  <2>1. job[t] \in Jobs \union {Idle}
    BY <1>2
  <2> QED BY <1>1, <2>1
<1>4. /\ Probe(j, Route(j)[1]) \in SUBSET LockIds /\ 1 <= Len(Route(j))
  <2>1. Route(j)[1] # "slots" /\ Len(Route(j)) \in 1..6
    BY RouteEnds
  <2> QED BY <1>2, <2>1, ProbeTyped
<1>5. held'[t] = {} /\ saw'[t] = {} /\ stage'[t] = 1
  BY <1>1, <1>2
<1>6. TablesOK'
  BY <1>1, <1>2, SameTables
<1>7. tries' \in [Txs -> 0..(Retries + 1)] /\ (tries[t] < Retries => tries'[t] <= Retries)
  BY <1>1, <1>2
<1>8. CASE tries[t] < Retries
  <2>1. job' = job /\ todo' = [todo EXCEPT ![t] = Probe(j, Route(j)[1])]
    BY <1>1, <1>3, <1>8
  <2>2. TypeOK'
    BY <1>1, <1>2, <1>3, <1>4, <1>6, <1>7, <1>8, <2>1 DEF TypeOK
  <2>3. \A u \in Txs \ {t} : Untouched(u)
    BY <1>1, <1>2, <2>1 DEF Untouched
  <2>4. job'[t] = job[t] /\ todo'[t] = Probe(job[t], Route(job[t])[1])
    BY <1>2, <1>3, <2>1
  <2> QED BY <1>1, <1>5, <2>2, <2>3, <2>4, NothingInHand
<1>9. CASE ~(tries[t] < Retries)
  <2>1. job' = [job EXCEPT ![t] = Idle] /\ todo' = [todo EXCEPT ![t] = {}]
    BY <1>1, <1>9
  <2>2. TypeOK'
    BY <1>1, <1>2, <1>6, <1>7, <2>1 DEF TypeOK
  <2>3. \A u \in Txs \ {t} : Untouched(u)
    BY <1>1, <1>2, <2>1 DEF Untouched
  <2>4. job'[t] = Idle /\ todo'[t] = {}
    BY <1>2, <2>1
  <2> QED BY <1>1, <1>5, <2>2, <2>3, <2>4, NothingInHand
<1> QED BY <1>8, <1>9

\* The locks a stage adds are of its levels.
LEMMA PublishLevels ==
  ASSUME NEW j
  PROVE  \A l \in PublishLocks(j) : l[1] \in 1..6
<1>1. \A I : /\ \A l \in LocksOf("identity", I) : l[1] \in 1..6
             /\ \A l \in LocksOf("account", I) : l[1] \in 1..6
             /\ \A l \in LocksOf("slot", I) : l[1] \in 1..6
             /\ \A l \in LocksOf("source", I) : l[1] \in 1..6
             /\ \A l \in LocksOf("device", I) : l[1] \in 1..6
             /\ \A l \in LocksOf("relay", I) : l[1] \in 1..6
  BY LockLevels
<1> QED BY <1>1 DEF PublishLocks

\* What a stage adds is above what the stages before it took, but for the slots of
\* a run, which its sources ask for again.
LEMMA FoundLevels ==
  ASSUME NEW j \in Jobs, NEW n, NEW a, NEW b, Follows(j, n, a, b)
  PROVE  \A l \in Share(j, b, Probe(j, b)) :
           /\ l[1] \in 1..6 /\ l[1] <= Top(j, b)
           /\ l[1] > Top(j, a) \/ (l[1] = 3 /\ a = "slots" /\ b = "sources" /\ j.kind = "observe")
<1> DEFINE found == Share(j, b, Probe(j, b))
<1>0. /\ Top(j, "mode") = 0 /\ Top(j, "owners") = 2 /\ Top(j, "slots") = 3 /\ Top(j, "sources") = 4
      /\ Top(j, "devices") = IF j.kind = "publish" THEN 6 ELSE 5
      /\ Top(j, "relay") = 6
  BY DEF Top
<1>1. CASE j.kind = "publish"
  <2>1. b # "mode" /\ Probe(j, b) = PublishLocks(j)
    BY <1>1 DEF Follows, Probe
  <2>2. found = {l \in PublishLocks(j) : l[1] \in (CASE b = "owners" -> {1, 2} [] b = "sources" -> {3, 4}
                                                     [] b = "devices" -> {5, 6} [] OTHER -> {})}
    BY <1>1, <2>1 DEF Share
  <2>3. CASE a = "mode" /\ b = "owners"
    <3>1. \A l \in found : l[1] \in {1, 2}
      BY <2>2, <2>3
    <3> QED BY <1>0, <2>3, <3>1
  <2>4. CASE a = "owners" /\ b = "sources"
    <3>1. \A l \in found : l[1] \in {3, 4}
      BY <2>2, <2>4
    <3> QED BY <1>0, <2>4, <3>1
  <2>5. CASE a = "sources" /\ b = "devices"
    <3>1. \A l \in found : l[1] \in {5, 6}
      BY <2>2, <2>5
    <3> QED BY <1>0, <1>1, <2>5, <3>1
  <2> QED BY <1>1, <2>3, <2>4, <2>5 DEF Follows
<1>2. CASE j.kind # "publish"
  <2>1. found = Probe(j, b)
    BY <1>2 DEF Share
  <2>2. CASE b = "owners"
    <3>1. \A l \in found : l[1] \in {1, 2}
      <4>1. \A I : (\A l \in LocksOf("identity", I) : l[1] = 1) /\ (\A l \in LocksOf("account", I) : l[1] = 2)
        BY LockLevels
      <4>2. CASE j.kind = "observe"
        BY <2>1, <2>2, <4>1, <4>2 DEF Probe
      <4>3. CASE j.kind = "withdraw"
        BY <2>1, <2>2, <4>1, <4>3 DEF Probe
      <4>4. CASE j.kind = "unlink"
        BY <2>1, <2>2, <4>1, <4>4 DEF Probe
      <4> QED BY <2>2, <1>2, <4>2, <4>3, <4>4, JobKinds DEF Follows
    <3>2. a = "mode"
      BY <2>2 DEF Follows
    <3> QED BY <1>0, <2>2, <3>1, <3>2
  <2>3. CASE b = "slots"
    <3>1. \A l \in found : l[1] = 3
      BY <1>2, <2>1, <2>3, LockLevels DEF Probe
    <3>2. a = "owners"
      BY <2>3 DEF Follows
    <3> QED BY <1>0, <2>3, <3>1, <3>2
  <2>4. CASE b = "sources"
    <3>1. \A l \in found : l[1] \in {3, 4}
      BY <1>2, <2>1, <2>4, LockLevels DEF Probe
    <3>2. a \in {"mode", "owners"} \/ (a = "slots" /\ j.kind = "observe")
      BY <2>4 DEF Follows
    <3> QED BY <1>0, <2>4, <3>1, <3>2
  <2>5. CASE b = "devices"
    <3>1. \A l \in found : l[1] = 5
      BY <1>2, <2>1, <2>5, LockLevels DEF Probe
    <3>2. a = "sources"
      BY <2>5 DEF Follows
    <3> QED BY <1>0, <1>2, <2>5, <3>1, <3>2
  <2>6. CASE b = "relay"
    <3>1. \A l \in found : l[1] = 6
      BY <1>2, <2>1, <2>6, LockLevels DEF Probe
    <3>2. a = "devices"
      BY <2>6 DEF Follows
    <3> QED BY <1>0, <1>2, <2>6, <3>1, <3>2
  <2> QED BY <1>2, <2>2, <2>3, <2>4, <2>5, <2>6 DEF Follows
<1> QED BY <1>1, <1>2

\* A probe that found no more than it had found before asks for nothing new.
LEMMA AdvanceStep ==
  ASSUME LocksAssumption, IInv, NEW t \in Txs, Advance(t)
  PROVE  IInv'
<1>1. /\ TypeOK /\ InOrder(t) /\ Whole /\ job[t] # Idle /\ todo[t] = {} /\ StillSo(t)
      /\ stage[t] < Len(Route(job[t])) /\ UNCHANGED tables /\ job' = job /\ held' = held /\ tries' = tries
  BY DEF IInv, Advance, tables
<1>2. /\ job \in [Txs -> Jobs \union {Idle}] /\ stage \in [Txs -> 1..6]
      /\ held \in [Txs -> SUBSET LockIds] /\ todo \in [Txs -> SUBSET LockIds]
      /\ saw \in [Txs -> SUBSET LockIds] /\ tries \in [Txs -> 0..(Retries + 1)]
      /\ \A u \in Txs : job[u] # Idle => stage[u] <= Len(Route(job[u])) /\ tries[u] <= Retries
      /\ TablesOK
  BY <1>1 DEF TypeOK
<1>3. PICK j \in Jobs : j = job[t]
  <2>1. job[t] \in Jobs \union {Idle}
    BY <1>2
  <2> QED BY <1>1, <2>1
<1>4. PICK n \in 1..6 : n = stage[t]
  BY <1>2
<1> DEFINE a == Route(j)[n]
           b == Route(j)[n + 1]
           found == Probe(j, b)
           new == Share(j, b, found)
<1>5. Follows(j, n, a, b) /\ n + 1 \in 1..6 /\ n + 1 <= Len(Route(j))
  BY <1>1, <1>3, <1>4, RouteSteps
<1>6. /\ stage' = [stage EXCEPT ![t] = n + 1]
      /\ saw' = [saw EXCEPT ![t] = IF j.kind = "publish" /\ n + 1 > 2 THEN saw[t] ELSE found]
      /\ todo' = [todo EXCEPT ![t] = new \ held[t]]
  BY <1>3, <1>4 DEF Advance, Enter
<1>7. At(t) = a
  BY <1>3, <1>4 DEF At
<1>8. \A l \in new : /\ l[1] \in 1..6 /\ l[1] <= Top(j, b)
                     /\ l[1] > Top(j, a) \/ (l[1] = 3 /\ a = "slots" /\ b = "sources" /\ j.kind = "observe")
  BY <1>5, FoundLevels
<1>9. new \subseteq found /\ (j.kind # "publish" => new = found)
  BY DEF Share
<1>10. found \subseteq LockIds
  <2>1. b = "slots" => j.kind = "observe"
    BY <1>5 DEF Follows
  <2> HIDE DEF b
  <2> QED BY <1>2, <2>1, ProbeTyped
<1>11. /\ j.kind = "publish" /\ a # "mode" => Probe(j, a) = saw[t]
       /\ j.kind = "observe" /\ a = "slots" => Probe(j, a) = saw[t]
       /\ j.kind # "publish" /\ a \in {"sources", "devices"} => Probe(j, a) \subseteq saw[t]
  BY <1>1, <1>3, <1>4 DEF StillSo
<1>12. At(t)' = b /\ stage'[t] = n + 1 /\ job'[t] = j
  BY <1>1, <1>2, <1>3, <1>6 DEF At
<1> HIDE DEF a, b, found, new
<1>13. InHand(t) = held[t] /\ InHand(t)' = held[t] \union new
  BY <1>1, <1>2, <1>6 DEF InHand
<1>14. /\ \A l \in held[t] : l[1] <= Top(j, a)
       /\ \A l \in saw[t] : l[1] <= Top(j, a) => l \in held[t]
       /\ SelectorsInHand(t) /\ SourcesInHand(t) /\ RowsInHand(t)
  BY <1>1, <1>3, <1>7, <1>13 DEF InOrder, Reaches, SawInHand
<1>15. TypeOK'
  <2>1. TablesOK'
    BY <1>1, <1>2, SameTables
  <2>2. stage' \in [Txs -> 1..6] /\ todo' \in [Txs -> SUBSET LockIds] /\ saw' \in [Txs -> SUBSET LockIds]
    BY <1>2, <1>5, <1>6, <1>9, <1>10
  <2>3. \A u \in Txs : job[u] # Idle => stage'[u] <= Len(Route(job[u])) /\ tries[u] <= Retries
    BY <1>2, <1>3, <1>5, <1>6
  <2> QED BY <1>1, <1>2, <2>1, <2>2, <2>3 DEF TypeOK
<1>16. \A u \in Txs \ {t} : Untouched(u)
  BY <1>1, <1>2, <1>6 DEF Untouched
<1>17. \A u \in Txs \ {t} : \A l \in held'[t] \cap held[u] : ~Conflicts(t, u, l)'
  BY <1>1 DEF IInv, Exclusive, Conflicts
<1>18. InOrder(t)'
  <2>0. /\ Top(j, "mode") = 0 /\ Top(j, "owners") = 2 /\ Top(j, "slots") = 3 /\ Top(j, "sources") = 4
        /\ Top(j, "devices") = (IF j.kind = "publish" THEN 6 ELSE 5)
        /\ Top(j, "relay") = 6 /\ Top(j, a) \in Nat /\ Top(j, b) \in Nat /\ Top(j, a) <= Top(j, b)
    BY <1>5 DEF Top, Follows
  <2>1. Upwards(t)'
    <3>1. todo'[t] = new \ held[t] /\ held'[t] = held[t] /\ \A l \in held[t] : l[1] \in 0..6
      BY <1>1, <1>2, <1>6 DEF LockIds
    <3>2. ASSUME NEW h \in held[t], NEW k \in new \ held[t] PROVE h[1] < k[1]
      <4>1. CASE k[1] > Top(j, a)
        BY <1>8, <1>14, <2>0, <3>1, <4>1
      <4>2. CASE k[1] = 3 /\ a = "slots" /\ b = "sources" /\ j.kind = "observe"
        <5>1. k \in found /\ k[1] = 3
          BY <1>9, <4>2
        <5>2. k \in LocksOf("slot", FleetsOf(Reached(j)) \union SlotsOf(Reached(j)))
          <6>1. found = LocksOf("slot", FleetsOf(Reached(j)) \union SlotsOf(Reached(j)) \union {})
                          \union LocksOf("source", Reached(j) \union {j.source})
            BY <4>2 DEF found, Probe
          <6> QED BY <5>1, <6>1, LockLevels
        <5>3. FleetsOf(Reached(j)) \union SlotsOf(Reached(j)) \subseteq FleetsOf(SourceSet(j)) \union {j.fleet}
          <6>1. \A s \in Reached(j) : s \in SourceSet(j)
            BY <4>2 DEF Reached
          <6>2. \A f \in SlotsOf(Reached(j)) : f \in Fleets /\ slot[f] \in Sources
            BY DEF SlotsOf, Reached, Live
          <6>3. \A f \in SlotsOf(Reached(j)) : slot[f] \in SourceSet(j) /\ fleetOf[slot[f]] = f /\ f # None
            BY <1>1, <6>1, <6>2 DEF SlotsOf, Whole, SlotsLive, LocksAssumption
          <6> QED BY <6>1, <6>3 DEF FleetsOf
        <5>4. k \in Probe(j, a)
          <6>1. Probe(j, a) = LocksOf("slot", FleetsOf(SourceSet(j)) \union {j.fleet})
            BY <4>2 DEF Probe
          <6> QED BY <5>2, <5>3, <6>1, LockLevels
        <5>5. k \in held[t]
          BY <1>11, <1>14, <2>0, <4>2, <5>4
        <5> QED BY <5>5
      <4> QED BY <1>8, <4>1, <4>2
    <3> QED BY <3>1, <3>2 DEF Upwards, Below
  <2>2. Reaches(t)'
    <3>1. \A l \in held[t] \union new : l[1] <= Top(j, b)
      <4>1. \A l \in held[t] : l[1] \in 0..6
        BY <1>2 DEF LockIds
      <4> QED BY <1>8, <1>14, <2>0, <4>1
    <3> QED BY <1>12, <1>13, <3>1 DEF Reaches
  <2>3. SawInHand(t)'
    <3>1. CASE j.kind # "publish"
      <4>1. saw'[t] = found /\ found = new
        BY <1>2, <1>6, <1>9, <3>1
      <4> QED BY <1>13, <4>1 DEF SawInHand
    <3>2. CASE j.kind = "publish"
      <4>1. b # "mode" /\ found = PublishLocks(j)
        BY <1>5, <3>2 DEF Follows, Probe, found
      <4>2. new = {l \in found : l[1] \in (CASE b = "owners" -> {1, 2} [] b = "sources" -> {3, 4}
                                            [] b = "devices" -> {5, 6} [] OTHER -> {})}
        BY <3>2, <4>1 DEF Share, new
      <4>3. \A l \in found : l[1] \in 1..6
        BY <4>1, PublishLevels
      <4>4. saw'[t] = found
        <5>1. CASE n + 1 > 2
          <6>1. a # "mode"
            BY <1>4, <1>5, <3>2, <5>1 DEF Follows
          <6>2. Probe(j, a) = PublishLocks(j)
            BY <3>2, <6>1 DEF Probe
          <6>3. saw'[t] = saw[t]
            BY <1>2, <1>6, <3>2, <5>1
          <6> QED BY <1>11, <3>2, <4>1, <6>1, <6>2, <6>3
        <5>2. CASE ~(n + 1 > 2)
          BY <1>2, <1>6, <5>2
        <5> QED BY <5>1, <5>2
      <4>5. \A l \in found : l[1] <= Top(j, b) => l \in held[t] \union new
        <5>1. CASE a = "mode" /\ b = "owners"
          BY <2>0, <4>2, <4>3, <5>1
        <5>2. CASE a # "mode"
          <6>1. \A l \in found : l[1] <= Top(j, a) => l \in held[t]
            <7>1. Probe(j, a) = PublishLocks(j)
              BY <3>2, <5>2 DEF Probe
            <7> QED BY <1>11, <1>14, <3>2, <4>1, <5>2, <7>1
          <6>2. CASE a = "owners" /\ b = "sources"
            BY <2>0, <4>2, <4>3, <6>1, <6>2
          <6>3. CASE a = "sources" /\ b = "devices"
            BY <2>0, <3>2, <4>2, <4>3, <6>1, <6>3
          <6> QED BY <1>5, <3>2, <5>2, <6>2, <6>3 DEF Follows
        <5> QED BY <1>5, <3>2, <5>1, <5>2 DEF Follows
      <4> QED BY <1>12, <1>13, <4>4, <4>5 DEF SawInHand
    <3> QED BY <3>1, <3>2
  <2>4. SelectorsInHand(t)'
    <3>1. j.kind # "prune" => Mode \in held[t]
      BY <1>3, <1>13, <1>14 DEF SelectorsInHand
    <3>2. ASSUME j.kind = "unlink", b # "mode" PROVE <<1, j.char>> \in held[t] \union new
      <4>1. CASE a = "mode"
        <5>1. b = "owners"
          BY <1>5, <3>2, <4>1 DEF Follows
        <5>2. LocksOf("identity", {j.char}) \subseteq found
          BY <3>2, <5>1 DEF Probe, found
        <5> QED BY <1>9, <3>2, <5>2, LockLevels
      <4>2. CASE a # "mode"
        BY <1>3, <1>7, <1>13, <1>14, <3>2, <4>2 DEF SelectorsInHand
      <4> QED BY <4>1, <4>2
    <3>3. ASSUME j.kind = "observe", b \notin {"mode", "owners"} PROVE <<3, j.fleet>> \in held[t] \union new
      <4>1. CASE b = "slots"
        <5>1. found = LocksOf("slot", FleetsOf(SourceSet(j)) \union {j.fleet})
          BY <3>3, <4>1 DEF Probe, found
        <5> QED BY <1>9, <3>3, <5>1, LockLevels
      <4>2. CASE b # "slots"
        <5>1. a \notin {"mode", "owners"}
          BY <1>5, <3>3, <4>2 DEF Follows
        <5> QED BY <1>3, <1>7, <1>13, <1>14, <3>3, <5>1 DEF SelectorsInHand
      <4> QED BY <4>1, <4>2
    <3>4. ASSUME j.kind \in {"withdraw", "drain"}, b = "relay", NEW d \in DevicesOf(j)
          PROVE  <<5, d>> \in held[t]
      <4>1. a = "devices"
        BY <1>5, <3>4 DEF Follows
      <4>2. LocksOf("device", DevicesOf(j)) \subseteq Probe(j, a)
        <5>1. Probe(j, a) = LocksOf("device", DevicesOf(j) \union {ViaOf[s] : s \in Reached(j)}
                              \union {row[c].device : c \in RowsOf(DevicesOf(j), Reached(j), CharsOf(j))})
          BY <3>4, <4>1 DEF Probe
        <5> QED BY <5>1, LockLevels
      <4>3. <<5, d>> \in Probe(j, a)
        BY <3>4, <4>2, LockLevels
      <4>4. <<5, d>>[1] <= Top(j, a)
        BY <2>0, <3>4, <4>1
      <4> QED BY <1>11, <1>14, <3>4, <4>1, <4>3, <4>4
    <3>5. DevicesOf(j)' = DevicesOf(j)
      BY DEF DevicesOf
    <3>6. /\ j.kind # "prune" => Mode \in InHand(t)'
          /\ j.kind = "unlink" /\ At(t)' # "mode" => <<1, j.char>> \in InHand(t)'
          /\ j.kind = "observe" /\ At(t)' \notin {"mode", "owners"} => <<3, j.fleet>> \in InHand(t)'
          /\ j.kind \in {"withdraw", "drain"} /\ At(t)' = "relay" =>
               \A d \in DevicesOf(j) : <<5, d>> \in InHand(t)'
      BY <1>12, <1>13, <3>1, <3>2, <3>3, <3>4
    <3> QED BY <1>12, <3>5, <3>6 DEF SelectorsInHand
  <2>5. SourcesInHand(t)'
    <3>1. fleetOf' = fleetOf /\ Live' = Live /\ Reached(j)' = Reached(j) /\ SourceSet(j)' = SourceSet(j)
      BY <1>1, SameTables DEF tables, Live
    <3>2. CASE b = "devices"
      <4>1. a = "sources"
        BY <1>5, <3>2 DEF Follows
      <4>2. j.kind # "publish" => Probe(j, a) \subseteq saw[t]
        BY <1>11, <4>1
      <4>3. ASSUME j.kind # "publish" PROVE \A s \in Reached(j) : <<4, s>> \in held[t]
        <5>1. LocksOf("source", Reached(j)) \subseteq Probe(j, a)
          BY <4>1, <4>3, LockLevels DEF Probe
        <5>2. \A s \in Reached(j) : <<4, s>> \in Probe(j, a)
          BY <5>1, LockLevels
        <5>3. \A s : <<4, s>>[1] <= Top(j, a)
          BY <2>0, <4>1
        <5> QED BY <1>14, <4>2, <4>3, <5>2, <5>3
      <4>4. ASSUME j.kind = "observe"
            PROVE  /\ <<4, j.source>> \in held[t]
                   /\ j.source \in Live =>
                        /\ fleetOf[j.source] # None => <<3, fleetOf[j.source]>> \in held[t]
                        /\ \A s \in SourceSet(j) : <<4, s>> \in held[t]
        <5>1. Probe(j, a) = LocksOf("slot", FleetsOf(Reached(j)) \union SlotsOf(Reached(j)) \union {})
                              \union LocksOf("source", Reached(j) \union {j.source})
          BY <4>1, <4>4 DEF Probe
        <5>2. /\ <<4, j.source>> \in Probe(j, a)
              /\ \A f \in FleetsOf(Reached(j)) : <<3, f>> \in Probe(j, a)
          BY <5>1, LockLevels
        <5>3. \A s : <<4, s>>[1] <= Top(j, a) /\ <<3, s>>[1] <= Top(j, a)
          BY <2>0, <4>1
        <5>4. <<4, j.source>> \in held[t] /\ \A f \in FleetsOf(Reached(j)) : <<3, f>> \in held[t]
          BY <1>14, <4>2, <4>4, <5>2, <5>3
        <5>5. ASSUME j.source \in Live PROVE SourceSet(j) \subseteq Reached(j)
          BY <4>4, <5>5 DEF SourceSet, Reached, Live
        <5>6. j.source \in SourceSet(j)
          BY DEF SourceSet
        <5> QED BY <4>3, <4>4, <5>4, <5>5, <5>6 DEF FleetsOf
      <4> QED BY <1>12, <1>13, <3>1, <3>2, <4>3, <4>4 DEF SourcesInHand, Withdrawing
    <3>3. CASE b = "relay"
      <4>1. a = "devices"
        BY <1>5, <3>3 DEF Follows
      <4>2. /\ j.kind \in Withdrawing => \A s \in Reached(j) : <<4, s>> \in held[t]
            /\ j.kind = "observe" =>
                 /\ <<4, j.source>> \in held[t]
                 /\ j.source \in Live =>
                      /\ fleetOf[j.source] # None => <<3, fleetOf[j.source]>> \in held[t]
                      /\ \A s \in SourceSet(j) : <<4, s>> \in held[t]
        BY <1>3, <1>7, <1>13, <1>14, <4>1 DEF SourcesInHand
      <4> QED BY <1>12, <1>13, <3>1, <4>2 DEF SourcesInHand
    <3>4. CASE b \notin {"devices", "relay"}
      BY <1>12, <3>4 DEF SourcesInHand
    <3> QED BY <3>2, <3>3, <3>4
  <2>6. RowsInHand(t)'
    <3>1. /\ Reached(j)' = Reached(j) /\ DevicesOf(j)' = DevicesOf(j) /\ CharsOf(j)' = CharsOf(j)
          /\ \A D, S, C : RowsOf(D, S, C)' = RowsOf(D, S, C)
      BY <1>1, SameTables DEF DevicesOf, CharsOf
    <3>2. CASE b = "relay"
      <4>1. j.kind # "publish" => found = LocksOf("relay", RowsOf(DevicesOf(j), Reached(j), CharsOf(j)))
        BY <3>2 DEF Probe, found
      <4>2. j.kind # "publish" => \A c \in RowsOf(DevicesOf(j), Reached(j), CharsOf(j)) : <<6, c>> \in new
        BY <1>9, <4>1, LockLevels
      <4>3. j.kind = "observe" => \A c \in RowsOf({}, {j.source}, {}) : <<6, c>> \in new
        <5> SUFFICES ASSUME j.kind = "observe", NEW c \in RowsOf({}, {j.source}, {})
                     PROVE  c \in RowsOf(DevicesOf(j), Reached(j), CharsOf(j))
          BY <4>2
        <5>1. c \in Chars /\ row[c] # None /\ row[c].source = j.source
          BY DEF RowsOf
        <5>2. j.source \in Live
          <6>1. j.source \in Sources /\ j.source # None
            BY JobKinds DEF LocksAssumption
          <6>2. fleetOf[j.source] \in Fleets /\ slot[fleetOf[j.source]] = j.source
            BY <1>1, <5>1 DEF Whole, RowsUnderSlots
          <6> QED BY <1>1, <6>1, <6>2 DEF Whole, SlotsLive
        <5>3. j.source \in Reached(j)
          BY <5>2 DEF Reached, SourceSet
        <5> QED BY <5>1, <5>3 DEF RowsOf
      <4> QED BY <1>12, <1>13, <3>1, <4>2, <4>3 DEF RowsInHand, Withdrawing
    <3>3. CASE b # "relay"
      BY <1>12, <3>3 DEF RowsInHand
    <3> QED BY <3>2, <3>3
  <2>7. Settled(t)'
    <3>1. todo'[t] \subseteq new
      BY <1>2, <1>6
    <3>2. CASE b = "devices"
      <4>1. a = "sources"
        BY <1>5, <3>2 DEF Follows
      <4> QED BY <1>8, <1>12, <2>0, <3>1, <3>2, <4>1 DEF Settled
    <3>3. CASE b = "relay"
      <4>1. a = "devices" /\ j.kind # "publish"
        BY <1>5, <3>3 DEF Follows
      <4> QED BY <1>8, <1>12, <2>0, <3>1, <3>3, <4>1 DEF Settled
    <3> QED BY <1>12, <3>2, <3>3 DEF Settled
  <2> QED BY <1>1, <1>3, <1>12, <2>1, <2>2, <2>3, <2>4, <2>5, <2>6, <2>7 DEF InOrder
<1> QED BY <1>1, <1>15, <1>16, <1>17, <1>18, OwnStep

-----------------------------------------------------------------------------
(* A transaction that commits has all its locks, and changes nothing that     *)
(* another one counts on.                                                     *)

LEMMA CommitFrame ==
  ASSUME LocksAssumption, IInv, NEW t \in Txs, Finish(t), TablesOK', Whole',
         \A u \in Txs \ {t} : job[u] # Idle => SourcesInHand(u)' /\ RowsInHand(u)'
  PROVE  IInv'
<1>1. /\ TypeOK /\ Exclusive
      /\ job' = [job EXCEPT ![t] = Idle] /\ held' = [held EXCEPT ![t] = {}]
      /\ todo' = [todo EXCEPT ![t] = {}] /\ saw' = [saw EXCEPT ![t] = {}]
      /\ stage' = [stage EXCEPT ![t] = 1] /\ tries' = tries
  BY DEF IInv, Finish
<1>2. /\ job \in [Txs -> Jobs \union {Idle}] /\ stage \in [Txs -> 1..6]
      /\ held \in [Txs -> SUBSET LockIds] /\ todo \in [Txs -> SUBSET LockIds]
      /\ saw \in [Txs -> SUBSET LockIds] /\ tries \in [Txs -> 0..(Retries + 1)]
      /\ \A u \in Txs : job[u] # Idle => stage[u] <= Len(Route(job[u])) /\ tries[u] <= Retries
  BY <1>1 DEF TypeOK
<1>3. TypeOK'
  BY <1>1, <1>2 DEF TypeOK
<1>4. /\ \A u \in Txs \ {t} : Untouched(u)
      /\ job'[t] = Idle /\ held'[t] = {} /\ todo'[t] = {}
  BY <1>1, <1>2 DEF Untouched
<1>5. \A u \in Txs : InOrder(u)'
  <2> SUFFICES ASSUME NEW u \in Txs PROVE InOrder(u)'
    OBVIOUS
  <2>1. CASE u = t
    BY <1>4, <2>1 DEF InOrder, InHand, Upwards
  <2>2. CASE u # t
    <3>1. InOrder(u)
      BY DEF IInv
    <3> QED BY <1>4, <2>2, <3>1, OthersInOrder
  <2> QED BY <2>1, <2>2
<1>6. Exclusive'
  <2> SUFFICES ASSUME NEW v \in Txs, NEW u \in Txs, v # u, NEW l \in held'[v] \cap held'[u]
               PROVE  ~Conflicts(v, u, l)'
    BY DEF Exclusive
  <2>1. v # t /\ u # t
    BY <1>4
  <2>2. ~Conflicts(v, u, l)
    BY <1>1, <1>4, <2>1 DEF Exclusive, Untouched
  <2> QED BY <1>4, <2>1, <2>2 DEF Conflicts, Untouched
<1> QED BY <1>3, <1>5, <1>6 DEF IInv

\* What t holds at its commit, no other transaction holds.
LEMMA CommitHolds ==
  ASSUME LocksAssumption, IInv, NEW t \in Txs, NEW kinds, Committing(t, kinds)
  PROVE  \E j \in Jobs :
           /\ j = job[t] /\ j.kind \in kinds /\ job[t] # Idle
           /\ At(t) = IF j.kind = "publish" THEN "devices" ELSE "relay"
           /\ InHand(t) = held[t] /\ StillSo(t)
           /\ SawInHand(t) /\ SelectorsInHand(t) /\ SourcesInHand(t) /\ RowsInHand(t)
           /\ \A u \in Txs \ {t} : \A l \in held[u] \cap held[t] : l = Mode /\ "drain" \notin {j.kind, job[u].kind}
<1>1. /\ job[t] # Idle /\ todo[t] = {} /\ job[t].kind \in kinds
      /\ stage[t] = Len(Route(job[t])) /\ StillSo(t)
  BY DEF Committing
<1>2. PICK j \in Jobs : j = job[t]
  <2>1. job[t] \in Jobs \union {Idle}
    BY DEF IInv, TypeOK
  <2> QED BY <1>1, <2>1
<1>3. At(t) = IF j.kind = "publish" THEN "devices" ELSE "relay"
  BY <1>1, <1>2, RouteEnds DEF At
<1>4. InHand(t) = held[t] /\ SawInHand(t) /\ SelectorsInHand(t) /\ SourcesInHand(t) /\ RowsInHand(t)
  BY <1>1 DEF IInv, InOrder, InHand
<1>5. ASSUME NEW u \in Txs \ {t}, NEW l \in held[u] \cap held[t]
      PROVE  l = Mode /\ "drain" \notin {j.kind, job[u].kind}
  <2>1. ~Conflicts(t, u, l)
    BY DEF IInv, Exclusive
  <2> QED BY <1>2, <2>1 DEF Conflicts
<1> QED BY <1>1, <1>2, <1>3, <1>4, <1>5

\* What another transaction has in hand of the earlier levels, it holds.
LEMMA OthersHold ==
  ASSUME IInv, NEW u \in Txs, job[u] # Idle
  PROVE  /\ At(u) \in {"devices", "relay"} =>
              \A i : (<<3, i>> \in InHand(u) => <<3, i>> \in held[u]) /\ (<<4, i>> \in InHand(u) => <<4, i>> \in held[u])
         /\ At(u) = "relay" =>
              /\ Mode \in InHand(u) => Mode \in held[u]
              /\ \A i : (<<1, i>> \in InHand(u) => <<1, i>> \in held[u]) /\ (<<5, i>> \in InHand(u) => <<5, i>> \in held[u])
<1>1. Settled(u)
  BY DEF IInv, InOrder
<1> QED BY <1>1 DEF Settled, InHand, Mode

\* Ending sources and withdrawing rows leaves less to lock.
LEMMA LessToLock ==
  ASSUME TypeOK, NEW u \in Txs, Untouched(u), fleetOf' = fleetOf, ended \subseteq ended',
         \A c \in Chars : row'[c] = None \/ row'[c] = row[c],
         SourcesInHand(u), RowsInHand(u)
  PROVE  SourcesInHand(u)' /\ RowsInHand(u)'
<1>1. /\ At(u)' = At(u) /\ InHand(u)' = InHand(u) /\ job'[u] = job[u]
      /\ \A j : DevicesOf(j)' = DevicesOf(j) /\ CharsOf(j)' = CharsOf(j)
  BY DEF Untouched, At, InHand, DevicesOf, CharsOf
<1>2. /\ Live' \subseteq Live
      /\ \A j : SourceSet(j)' \subseteq SourceSet(j) /\ Reached(j)' \subseteq Reached(j)
  BY DEF Live, SourceSet, Reached
<1>3. \A D, S, T, C : T \subseteq S => RowsOf(D, T, C)' \subseteq RowsOf(D, S, C)
  BY DEF RowsOf
<1>4. SourcesInHand(u)'
  BY <1>1, <1>2 DEF SourcesInHand
<1>5. RowsInHand(u)'
  BY <1>1, <1>2, <1>3 DEF RowsInHand
<1> QED BY <1>4, <1>5

\* A withdrawal ends what it reaches and only that.
LEMMA CommitWithdrawalStep ==
  ASSUME LocksAssumption, IInv, NEW t \in Txs, CommitWithdrawal(t)
  PROVE  IInv'
<1>1. TablesOK /\ Whole /\ TypeOK /\ \A u \in Txs : InOrder(u)
  BY DEF IInv, TypeOK
<1>2. PICK j \in Jobs :
        /\ j = job[t] /\ j.kind \in {"withdraw", "unlink", "drain", "prune"}
        /\ At(t) = "relay" /\ InHand(t) = held[t]
        /\ SourcesInHand(t) /\ RowsInHand(t)
  <2>1. Committing(t, {"withdraw", "unlink", "drain", "prune"})
    BY DEF CommitWithdrawal
  <2>2. PICK j \in Jobs :
           /\ j = job[t] /\ j.kind \in {"withdraw", "unlink", "drain", "prune"}
           /\ At(t) = IF j.kind = "publish" THEN "devices" ELSE "relay"
           /\ InHand(t) = held[t] /\ SourcesInHand(t) /\ RowsInHand(t)
    BY <2>1, CommitHolds
  <2>3. At(t) = "relay"
    BY <2>2
  <2> QED BY <2>2, <2>3
<1> DEFINE S == Locked(t, "source", Reached(j))
           C == Locked(t, "relay", RowsOf(DevicesOf(j), S, CharsOf(j)))
<1>3. /\ ended' = ended \union S
      /\ slot' = [f \in Fleets |-> IF slot[f] \in S THEN None ELSE slot[f]]
      /\ row' = [c \in Chars |-> IF c \in C THEN None ELSE row[c]]
      /\ revoked' = revoked \union (IF j.kind = "withdraw" THEN DevicesOf(j) ELSE {})
      /\ linked' = linked \ (IF j.kind = "unlink" THEN {j.char} ELSE {})
      /\ Finish(t) /\ fleetOf' = fleetOf
  BY <1>2 DEF CommitWithdrawal, End
<1>4. j.kind \in Withdrawing => S = Reached(j)
  BY <1>2 DEF SourcesInHand, Locked, Levels
<1>5. j.kind \in Withdrawing => C = RowsOf(DevicesOf(j), Reached(j), CharsOf(j))
  <2>1. j.kind \in Withdrawing => \A c \in RowsOf(DevicesOf(j), Reached(j), CharsOf(j)) : <<6, c>> \in held[t]
    BY <1>2 DEF RowsInHand
  <2> HIDE DEF S
  <2> QED BY <1>4, <2>1 DEF Locked, Levels
<1>6. j.kind \notin Withdrawing => S = {} /\ DevicesOf(j) = {} /\ j.kind = "prune"
  BY <1>2 DEF Reached, Locked, DevicesOf, Withdrawing
<1>7. S \subseteq Sources /\ S \subseteq Live /\ DevicesOf(j) \subseteq Devices
  BY DEF Locked, Reached, Live, DevicesOf
<1> HIDE DEF S, C
<1>8. TablesOK'
  BY <1>1, <1>3, <1>7 DEF TablesOK
<1>9. Whole'
  <2>0. /\ \A f \in Fleets : slot[f] # None => slot[f] \in Live /\ fleetOf[slot[f]] = f
        /\ \A c \in Chars : row[c] # None =>
             /\ fleetOf[row[c].source] \in Fleets /\ slot[fleetOf[row[c].source]] = row[c].source
             /\ row[c].device \notin revoked /\ row[c].device \in Devices
    BY <1>1 DEF Whole, SlotsLive, RowsUnderSlots, RevokedGone, TablesOK, Rows
  <2>1. SlotsLive'
    BY <1>3, <1>7, <2>0 DEF SlotsLive, Live
  <2>2. ASSUME NEW c \in Chars, row'[c] # None
        PROVE  /\ row'[c] = row[c] /\ row[c] # None /\ c \notin C
               /\ j.kind \in Withdrawing => row[c].source \notin Reached(j) /\ row[c].device \notin DevicesOf(j) /\ c \notin CharsOf(j)
    <3>1. row'[c] = row[c] /\ row[c] # None /\ c \notin C
      BY <1>3, <2>2
    <3> QED BY <1>5, <3>1 DEF RowsOf
  <2>3. RowsUnderSlots'
    <3>1. \A c \in Chars : row'[c] # None => row[c].source \notin S
      BY <1>4, <1>6, <2>2
    <3> QED BY <1>3, <2>0, <2>2, <3>1 DEF RowsUnderSlots
  <2>4. RevokedGone'
    <3>1. \A c \in Chars : row'[c] # None => row'[c].device \notin revoked'
      BY <1>3, <2>0, <2>2 DEF Withdrawing
    <3>2. ASSUME NEW s \in Sources, ViaOf[s] \in revoked' PROVE s \in ended'
      <4>1. CASE ViaOf[s] \in revoked
        BY <1>1, <1>3, <4>1 DEF Whole, RevokedGone
      <4>2. CASE ViaOf[s] \in DevicesOf(j) /\ j.kind = "withdraw"
        <5>1. s \in Live => s \in Reached(j)
          BY <4>2 DEF Reached, DevicesOf
        <5> QED BY <1>3, <1>4, <4>2, <5>1 DEF Live, Withdrawing
      <4> QED BY <1>3, <3>2, <4>1, <4>2
    <3> QED BY <3>1, <3>2 DEF RevokedGone
  <2>5. UnlinkedGone'
    <3> SUFFICES ASSUME NEW c \in Chars \ linked'
                 PROVE  row'[c] = None /\ \A s \in Sources : BossOf[s] = c => s \in ended'
      BY DEF UnlinkedGone
    <3>1. CASE c \notin linked
      BY <1>1, <1>3, <3>1 DEF Whole, UnlinkedGone
    <3>2. CASE j.kind = "unlink" /\ c = j.char
      <4>1. row'[c] = None
        BY <2>2, <3>2 DEF CharsOf, Withdrawing
      <4>2. \A s \in Sources : BossOf[s] = c /\ s \in Live => s \in Reached(j)
        BY <3>2 DEF Reached
      <4> QED BY <1>3, <1>4, <3>2, <4>1, <4>2 DEF Live, Withdrawing
    <3> QED BY <1>3, <3>1, <3>2
  <2> QED BY <2>1, <2>3, <2>4, <2>5 DEF Whole
<1>10. ASSUME NEW u \in Txs \ {t}, job[u] # Idle PROVE SourcesInHand(u)' /\ RowsInHand(u)'
  <2>1. SourcesInHand(u) /\ RowsInHand(u)
    BY <1>1, <1>10 DEF InOrder
  <2>2. Untouched(u)
    BY <1>1, <1>3 DEF Untouched, Finish, TypeOK
  <2>3. ended \subseteq ended' /\ \A c \in Chars : row'[c] = None \/ row'[c] = row[c]
    BY <1>3
  <2> QED BY <1>1, <1>3, <2>1, <2>2, <2>3, LessToLock
<1> QED BY <1>3, <1>8, <1>9, <1>10, CommitFrame

\* A run ends its source, binds it to its first fleet or proves its fleet.
LEMMA CommitRunStep ==
  ASSUME LocksAssumption, IInv, NEW t \in Txs, CommitRun(t)
  PROVE  IInv'
<1>1. TablesOK /\ Whole /\ TypeOK /\ \A u \in Txs : InOrder(u)
  BY DEF IInv, TypeOK
<1>2. PICK j \in Jobs :
        /\ j = job[t] /\ j.kind = "observe"
        /\ At(t) = "relay" /\ InHand(t) = held[t]
        /\ SelectorsInHand(t) /\ SourcesInHand(t) /\ RowsInHand(t)
        /\ \A u \in Txs \ {t} : \A l \in held[u] \cap held[t] : l = Mode
  <2>1. Committing(t, {"observe"})
    BY DEF CommitRun
  <2>2. PICK j \in Jobs :
           /\ j = job[t] /\ j.kind \in {"observe"}
           /\ At(t) = IF j.kind = "publish" THEN "devices" ELSE "relay"
           /\ InHand(t) = held[t] /\ SelectorsInHand(t) /\ SourcesInHand(t) /\ RowsInHand(t)
           /\ \A u \in Txs \ {t} : \A l \in held[u] \cap held[t] : l = Mode /\ "drain" \notin {j.kind, job[u].kind}
    BY <2>1, CommitHolds
  <2>3. At(t) = "relay"
    BY <2>2
  <2> QED BY <2>2, <2>3
<1>3. PICK s : s = j.source
  OBVIOUS
<1> DEFINE others == Locked(t, "source", SourceSet(j)) \ {s}
           C == Locked(t, "relay", RowsOf({}, {s}, {}))
<1>4. /\ s \in Sources /\ j.fleet \in Fleets /\ s # None
      /\ None \notin Fleets /\ None \notin Sources
  BY <1>2, <1>3, JobKinds DEF LocksAssumption
<1>5. /\ <<4, s>> \in held[t] /\ <<3, j.fleet>> \in held[t]
      /\ s \in Live => \A x \in SourceSet(j) : <<4, x>> \in held[t]
      /\ \A c \in RowsOf({}, {s}, {}) : <<6, c>> \in held[t]
  BY <1>2, <1>3 DEF SelectorsInHand, SourcesInHand, RowsInHand
<1>6. s \in Live => others = SourceSet(j) \ {s}
  BY <1>5 DEF Locked, Levels
<1>7. C = RowsOf({}, {s}, {})
  BY <1>5 DEF Locked, Levels
<1>8. /\ IF ~Consented(s)
         THEN End({s}, C) /\ fleetOf' = fleetOf
         ELSE IF fleetOf[s] = None
         THEN fleetOf' = [fleetOf EXCEPT ![s] = j.fleet] /\ slot' = slot /\ ended' = ended /\ row' = row
         ELSE /\ slot' = [slot EXCEPT ![fleetOf[s]] = s]
              /\ row' = [c \in Chars |-> IF row[c] # None /\ row[c].source \in others
                                         THEN None ELSE row[c]]
              /\ fleetOf' = fleetOf /\ ended' = ended
      /\ Finish(t) /\ revoked' = revoked /\ linked' = linked
  BY <1>2, <1>3 DEF CommitRun
<1> HIDE DEF others, C
<1>9. /\ \A f \in Fleets : slot[f] # None => slot[f] \in Live /\ fleetOf[slot[f]] = f
      /\ \A c \in Chars : row[c] # None =>
           /\ row[c].source \in Sources
           /\ fleetOf[row[c].source] \in Fleets /\ slot[fleetOf[row[c].source]] = row[c].source
  BY <1>1 DEF Whole, SlotsLive, RowsUnderSlots, TablesOK, Rows
<1>10. \A u \in Txs \ {t} : Untouched(u)
  BY <1>1, <1>8 DEF Untouched, Finish, TypeOK
<1>11. \A u \in Txs \ {t} : job[u] # Idle => SourcesInHand(u) /\ RowsInHand(u)
  BY <1>1 DEF InOrder
\* The source's consent is over: it ends with its rows.
<1>12. CASE ~Consented(s)
  <2>1. /\ ended' = ended \union {s}
        /\ slot' = [f \in Fleets |-> IF slot[f] \in {s} THEN None ELSE slot[f]]
        /\ row' = [c \in Chars |-> IF c \in C THEN None ELSE row[c]]
        /\ fleetOf' = fleetOf
    BY <1>8, <1>12 DEF End
  <2>2. TablesOK'
    BY <1>1, <1>4, <1>8, <2>1 DEF TablesOK
  <2>3. \A c \in Chars : row'[c] # None => row'[c] = row[c] /\ row[c] # None /\ row[c].source # s
    BY <1>7, <2>1 DEF RowsOf
  <2>4. SlotsLive'
    BY <1>4, <1>9, <2>1 DEF SlotsLive, Live
  <2>5. RowsUnderSlots'
    BY <1>4, <1>9, <2>1, <2>3 DEF RowsUnderSlots
  <2>6. RevokedGone' /\ UnlinkedGone'
    BY <1>1, <1>8, <2>1, <2>3 DEF Whole, RevokedGone, UnlinkedGone
  <2>7. ASSUME NEW u \in Txs \ {t}, job[u] # Idle PROVE SourcesInHand(u)' /\ RowsInHand(u)'
    <3>1. ended \subseteq ended' /\ \A c \in Chars : row'[c] = None \/ row'[c] = row[c]
      BY <2>1
    <3> QED BY <1>1, <1>10, <1>11, <2>1, <2>7, <3>1, LessToLock
  <2>8. Whole'
    BY <2>4, <2>5, <2>6 DEF Whole
  <2> QED BY <1>8, <2>2, <2>7, <2>8, CommitFrame
\* The source's first fleet.
<1>13. CASE Consented(s) /\ fleetOf[s] = None
  <2>1. /\ fleetOf' = [fleetOf EXCEPT ![s] = j.fleet] /\ slot' = slot /\ ended' = ended /\ row' = row
        /\ s \in Live
    BY <1>8, <1>13 DEF Consented
  <2>2. TablesOK'
    BY <1>1, <1>4, <1>8, <2>1 DEF TablesOK
  <2>3. \A x \in Sources : x # s => fleetOf'[x] = fleetOf[x]
    BY <1>1, <2>1 DEF TablesOK
  <2>4. SlotsLive'
    <3>1. \A f \in Fleets : slot[f] # None => slot[f] \in Live /\ slot[f] \in Sources /\ slot[f] # s /\ fleetOf[slot[f]] = f
      BY <1>4, <1>9, <1>13 DEF Live
    <3> QED BY <2>1, <2>3, <3>1 DEF SlotsLive, Live
  <2>5. RowsUnderSlots'
    <3>1. \A c \in Chars : row[c] # None => row[c].source # s
      BY <1>4, <1>9, <1>13
    <3> QED BY <1>9, <2>1, <2>3, <3>1 DEF RowsUnderSlots
  <2>6. RevokedGone' /\ UnlinkedGone'
    BY <1>1, <1>8, <2>1 DEF Whole, RevokedGone, UnlinkedGone
  <2>7. ASSUME NEW u \in Txs \ {t}, job[u] # Idle PROVE SourcesInHand(u)' /\ RowsInHand(u)'
    <3>1. PICK k \in Jobs : k = job[u]
      BY <1>1, <2>7 DEF TypeOK
    <3>2. At(u)' = At(u) /\ InHand(u)' = InHand(u) /\ job'[u] = k
      BY <1>10, <3>1 DEF Untouched, At, InHand
    <3>3. Live' = Live /\ \A D, S, X : RowsOf(D, S, X)' = RowsOf(D, S, X)
      BY <2>1 DEF Live, RowsOf
    <3>4. k.kind # "observe" => Reached(k)' = Reached(k) /\ DevicesOf(k)' = DevicesOf(k) /\ CharsOf(k)' = CharsOf(k)
      BY <3>3 DEF Reached, DevicesOf, CharsOf
    <3>5. /\ At(u) \in {"devices", "relay"} =>
               /\ k.kind \in Withdrawing => \A x \in Reached(k) : <<4, x>> \in InHand(u)
               /\ k.kind = "observe" =>
                    /\ <<4, k.source>> \in InHand(u)
                    /\ k.source \in Live =>
                         /\ fleetOf[k.source] # None => <<3, fleetOf[k.source]>> \in InHand(u)
                         /\ \A x \in SourceSet(k) : <<4, x>> \in InHand(u)
          /\ At(u) = "relay" =>
               /\ k.kind \in Withdrawing =>
                    \A c \in RowsOf(DevicesOf(k), Reached(k), CharsOf(k)) : <<6, c>> \in InHand(u)
               /\ k.kind = "observe" => \A c \in RowsOf({}, {k.source}, {}) : <<6, c>> \in InHand(u)
      BY <1>11, <2>7, <3>1 DEF SourcesInHand, RowsInHand
    <3>6. ASSUME At(u) \in {"devices", "relay"}, k.kind = "observe"
          PROVE  k.source # s /\ (k.source \in Live => SourceSet(k)' = SourceSet(k))
      <4>1. \A i : (<<3, i>> \in InHand(u) => <<3, i>> \notin held[t]) /\ (<<4, i>> \in InHand(u) => <<4, i>> \notin held[t])
        <5>1. \A i : (<<3, i>> \in InHand(u) => <<3, i>> \in held[u]) /\ (<<4, i>> \in InHand(u) => <<4, i>> \in held[u])
          BY <2>7, <3>6, OthersHold
        <5>2. \A i : <<3, i>> # Mode /\ <<4, i>> # Mode
          BY DEF Mode
        <5> QED BY <1>2, <5>1, <5>2
      <4>2. k.source # s /\ k.source \in Sources
        BY <1>5, <3>5, <3>6, <4>1, JobKinds
      <4>3. fleetOf'[k.source] = fleetOf[k.source]
        BY <2>3, <4>2
      <4>4. <<3, k.fleet>> \in InHand(u)
        BY <1>1, <2>7, <3>1, <3>6 DEF InOrder, SelectorsInHand
      <4>5. ASSUME k.source \in Live PROVE SourceSet(k)' = SourceSet(k)
        <5> DEFINE f == IF fleetOf[k.source] # None THEN fleetOf[k.source] ELSE k.fleet
        <5>1. <<3, f>> \in InHand(u)
          BY <3>5, <3>6, <4>4, <4>5
        <5>2. f # j.fleet
          BY <1>5, <4>1, <5>1
        <5>3. f # None
          BY <1>4, <3>6, JobKinds
        <5>4. SourceSet(k) = {k.source} \union {x \in Live : fleetOf[x] = f}
          BY DEF SourceSet
        <5>5. SourceSet(k)' = {k.source} \union {x \in Live : fleetOf'[x] = f}
          BY <3>3, <4>3 DEF SourceSet
        <5> HIDE DEF f
        <5>6. \A x \in Live : fleetOf'[x] = f <=> fleetOf[x] = f
          <6>1. fleetOf'[s] = j.fleet /\ fleetOf[s] = None
            BY <1>1, <1>4, <1>13, <2>1 DEF TablesOK
          <6> QED BY <2>3, <5>2, <5>3, <6>1 DEF Live
        <5> QED BY <5>4, <5>5, <5>6
      <4> QED BY <4>2, <4>5
    <3>7. SourcesInHand(u)'
      <4>1. ASSUME At(u) \in {"devices", "relay"}, k.kind = "observe"
            PROVE  fleetOf'[k.source] = fleetOf[k.source]
        BY <2>3, <3>6, <4>1, JobKinds
      <4> QED BY <3>2, <3>3, <3>4, <3>5, <3>6, <4>1 DEF SourcesInHand, Withdrawing
    <3>8. RowsInHand(u)'
      BY <3>2, <3>3, <3>4, <3>5 DEF RowsInHand, Withdrawing
    <3> QED BY <3>7, <3>8
  <2>8. Whole'
    BY <2>4, <2>5, <2>6 DEF Whole
  <2> QED BY <1>8, <2>2, <2>7, <2>8, CommitFrame
\* The source proves its fleet; what others published on it loses its evidence.
<1>14. CASE Consented(s) /\ fleetOf[s] # None
  <2>1. /\ slot' = [slot EXCEPT ![fleetOf[s]] = s]
        /\ row' = [c \in Chars |-> IF row[c] # None /\ row[c].source \in others THEN None ELSE row[c]]
        /\ fleetOf' = fleetOf /\ ended' = ended /\ s \in Live
    BY <1>8, <1>14 DEF Consented
  <2>2. PICK f \in Fleets : f = fleetOf[s]
    BY <1>1, <1>4, <1>14 DEF TablesOK
  <2>3. TablesOK'
    BY <1>1, <1>4, <1>8, <2>1, <2>2 DEF TablesOK
  <2>4. SourceSet(j) = {s} \union {x \in Live : fleetOf[x] = f}
    BY <1>3, <1>14, <2>2 DEF SourceSet
  <2>5. slot'[f] = s /\ \A g \in Fleets : g # f => slot'[g] = slot[g]
    BY <1>1, <2>1, <2>2 DEF TablesOK
  <2>6. \A c \in Chars : row'[c] # None => row'[c] = row[c] /\ row[c] # None /\ row[c].source \notin others
    BY <2>1
  <2>7. SlotsLive'
    BY <1>9, <2>1, <2>2, <2>5 DEF SlotsLive, Live
  <2>8. RowsUnderSlots'
    <3> SUFFICES ASSUME NEW c \in Chars, row'[c] # None
                 PROVE  /\ fleetOf[row[c].source] \in Fleets
                        /\ slot'[fleetOf[row[c].source]] = row[c].source
      BY <2>1, <2>6 DEF RowsUnderSlots
    <3>1. PICK x \in Sources : x = row[c].source
      BY <1>9, <2>6
    <3>2. fleetOf[x] \in Fleets /\ slot[fleetOf[x]] = x /\ x \notin others
      BY <1>9, <2>6, <3>1
    <3>3. CASE fleetOf[x] = f
      <4>1. x \in Live
        BY <1>4, <1>9, <3>2
      <4>2. x = s
        BY <1>6, <2>1, <2>4, <3>2, <3>3, <4>1
      <4> QED BY <2>2, <2>5, <3>1, <4>2
    <3>4. CASE fleetOf[x] # f
      BY <2>5, <3>1, <3>2, <3>4
    <3> QED BY <3>3, <3>4
  <2>9. RevokedGone' /\ UnlinkedGone'
    BY <1>1, <1>8, <2>1, <2>6 DEF Whole, RevokedGone, UnlinkedGone
  <2>10. ASSUME NEW u \in Txs \ {t}, job[u] # Idle PROVE SourcesInHand(u)' /\ RowsInHand(u)'
    <3>1. ended \subseteq ended' /\ \A c \in Chars : row'[c] = None \/ row'[c] = row[c]
      BY <2>1
    <3> QED BY <1>1, <1>10, <1>11, <2>1, <2>10, <3>1, LessToLock
  <2>11. Whole'
    BY <2>7, <2>8, <2>9 DEF Whole
  <2> QED BY <1>8, <2>3, <2>10, <2>11, CommitFrame
<1> QED BY <1>12, <1>13, <1>14

\* A publication writes one row whose every ground is locked.
LEMMA CommitPublicationStep ==
  ASSUME LocksAssumption, IInv, NEW t \in Txs, CommitPublication(t)
  PROVE  IInv'
<1>1. TablesOK /\ Whole /\ TypeOK /\ \A u \in Txs : InOrder(u)
  BY DEF IInv, TypeOK
<1>2. PICK j \in Jobs :
        /\ j = job[t] /\ j.kind = "publish"
        /\ At(t) = "devices" /\ InHand(t) = held[t] /\ StillSo(t) /\ SawInHand(t) /\ SelectorsInHand(t)
        /\ \A u \in Txs \ {t} : \A l \in held[u] \cap held[t] : l = Mode /\ job[u].kind # "drain"
  <2>1. Committing(t, {"publish"})
    BY DEF CommitPublication
  <2>2. PICK j \in Jobs :
           /\ j = job[t] /\ j.kind \in {"publish"}
           /\ At(t) = IF j.kind = "publish" THEN "devices" ELSE "relay"
           /\ InHand(t) = held[t] /\ StillSo(t) /\ SawInHand(t) /\ SelectorsInHand(t)
           /\ \A u \in Txs \ {t} : \A l \in held[u] \cap held[t] : l = Mode /\ "drain" \notin {j.kind, job[u].kind}
    BY <2>1, CommitHolds
  <2> QED BY <2>2
<1> DEFINE proved == {slot[f] : f \in Fleets} \ {None}
           c == j.char
           d == j.device
<1>3. /\ IF d \notin revoked /\ c \in linked /\ Cardinality(proved) = 1
         THEN \E s \in proved :
                row' = [x \in Chars |-> IF x = c THEN [device |-> d, source |-> s]
                                        ELSE IF row[x] # None /\ row[x].device = d THEN None ELSE row[x]]
         ELSE row' = row
      /\ Finish(t) /\ fleetOf' = fleetOf /\ slot' = slot /\ ended' = ended /\ revoked' = revoked /\ linked' = linked
  BY <1>2 DEF CommitPublication
<1>4. c \in Chars /\ d \in Devices
  BY <1>2, JobKinds
<1>5. \A l \in PublishLocks(j) : l \in held[t]
  <2>1. PublishLocks(j) = saw[t]
    <3>1. Route(job[t])[stage[t]] = "devices"
      BY <1>2 DEF At
    <3>2. Probe(j, "devices") = saw[t]
      BY <1>2, <3>1 DEF StillSo
    <3> QED BY <1>2, <3>2 DEF Probe
  <2>2. \A l \in PublishLocks(j) : l[1] <= 6
    BY PublishLevels
  <2>3. Top(j, "devices") = 6
    BY <1>2 DEF Top
  <2> QED BY <1>2, <2>1, <2>2, <2>3 DEF SawInHand
<1>6. /\ <<1, c>> \in held[t] /\ <<5, d>> \in held[t] /\ Mode \in held[t]
      /\ \A s \in proved : <<4, s>> \in held[t]
  <2>1. /\ \E I : c \in I /\ LocksOf("identity", I) \subseteq PublishLocks(j)
        /\ \E D : d \in D /\ LocksOf("device", D) \subseteq PublishLocks(j)
        /\ LocksOf("source", proved) \subseteq PublishLocks(j)
    <3> DEFINE X == {c} \union RowsOf({d}, {}, {c})
               D == {d} \union {row[y].device : y \in RowsOf({d}, {}, {c})} \union {ViaOf[s] : s \in proved}
               I == X \union {BossOf[s] : s \in proved}
               A == {HolderOf[y] : y \in D} \union {AccountOf[y] : y \in I} \union {OwnerOf[s] : s \in proved}
    <3>1. PublishLocks(j) = LocksOf("identity", I) \union LocksOf("account", A)
            \union LocksOf("slot", SlotsOf(proved)) \union LocksOf("source", proved)
            \union LocksOf("device", D) \union LocksOf("relay", X)
      BY DEF PublishLocks
    <3>2. c \in I /\ d \in D
      OBVIOUS
    <3> HIDE DEF I, D, A, X, proved
    <3> QED BY <3>1, <3>2
  <2> HIDE DEF proved
  <2>2. LocksOf("source", proved) = {<<4, s>> : s \in proved}
    BY LockLevels
  <2>3. /\ <<1, c>> \in PublishLocks(j) /\ <<5, d>> \in PublishLocks(j)
        /\ \A s \in proved : <<4, s>> \in PublishLocks(j)
    <3>1. <<1, c>> \in PublishLocks(j)
      BY <2>1, LockLevels
    <3>2. <<5, d>> \in PublishLocks(j)
      BY <2>1, LockLevels
    <3>3. \A s \in proved : <<4, s>> \in PublishLocks(j)
      BY <2>1, <2>2
    <3> QED BY <3>1, <3>2, <3>3
  <2> QED BY <1>2, <1>5, <2>3 DEF SelectorsInHand
<1>7. CASE row' = row
  <2>1. UNCHANGED tables
    BY <1>3, <1>7 DEF tables
  <2>2. ASSUME NEW u \in Txs \ {t}, job[u] # Idle PROVE SourcesInHand(u)' /\ RowsInHand(u)'
    <3>1. SourcesInHand(u) /\ RowsInHand(u)
      BY <1>1, <2>2 DEF InOrder
    <3>2. Untouched(u)
      BY <1>1, <1>3 DEF Untouched, Finish, TypeOK
    <3>3. ended \subseteq ended' /\ \A x \in Chars : row'[x] = None \/ row'[x] = row[x]
      BY <1>3, <1>7
    <3> QED BY <1>1, <1>3, <3>1, <3>2, <3>3, LessToLock
  <2> QED BY <1>1, <1>3, <2>1, <2>2, SameTables, CommitFrame
<1>8. ASSUME NEW s \in proved, d \notin revoked, c \in linked,
             row' = [x \in Chars |-> IF x = c THEN [device |-> d, source |-> s]
                                     ELSE IF row[x] # None /\ row[x].device = d THEN None ELSE row[x]]
      PROVE  IInv'
  <2>0. <<4, s>> \in held[t]
    BY <1>6
  <2>1. PICK f \in Fleets : slot[f] = s /\ s # None
    OBVIOUS
  <2>2. s \in Live /\ fleetOf[s] = f /\ s \in Sources
    BY <1>1, <2>1 DEF Whole, SlotsLive, Live
  <2>3. /\ row'[c] = [device |-> d, source |-> s]
        /\ row'[c].device = d /\ row'[c].source = s /\ row'[c] # None /\ row'[c] \in Rows
        /\ \A x \in Chars : x # c => row'[x] = None \/ row'[x] = row[x]
    <3>1. [device |-> d, source |-> s] \in Rows
      BY <1>4, <2>2 DEF Rows
    <3>2. row'[c] = [device |-> d, source |-> s]
      BY <1>4, <1>8
    <3>3. \A x \in Chars : x # c => row'[x] = None \/ row'[x] = row[x]
      BY <1>8
    <3> QED BY <3>1, <3>2, <3>3 DEF LocksAssumption
  <2> HIDE DEF proved, c, d
  <2>4. TablesOK'
    <3>1. \A x \in Chars : row'[x] \in Rows \union {None}
      BY <1>1, <2>3 DEF TablesOK
    <3>2. row' = [x \in Chars |-> row'[x]]
      BY <1>8
    <3>3. row' \in [Chars -> Rows \union {None}]
      BY <3>1, <3>2
    <3> QED BY <1>1, <1>3, <3>3 DEF TablesOK
  <2>5. Whole'
    <3>1. SlotsLive'
      BY <1>1, <1>3 DEF Whole, SlotsLive, Live
    <3>2. RowsUnderSlots'
      BY <1>1, <1>3, <2>1, <2>2, <2>3 DEF Whole, RowsUnderSlots
    <3>3. RevokedGone'
      BY <1>1, <1>3, <1>8, <2>3 DEF Whole, RevokedGone
    <3>4. UnlinkedGone'
      BY <1>1, <1>3, <1>8, <2>3 DEF Whole, UnlinkedGone
    <3> QED BY <3>1, <3>2, <3>3, <3>4 DEF Whole
  <2>6. ASSUME NEW u \in Txs \ {t}, job[u] # Idle PROVE SourcesInHand(u)' /\ RowsInHand(u)'
    <3>1. PICK k \in Jobs : k = job[u]
      BY <1>1, <2>6 DEF TypeOK
    <3>2. Untouched(u)
      BY <1>1, <1>3 DEF Untouched, Finish, TypeOK
    <3>3. At(u)' = At(u) /\ InHand(u)' = InHand(u) /\ job'[u] = k /\ held'[u] = held[u]
      BY <3>1, <3>2 DEF Untouched, At, InHand
    <3>4. /\ Live' = Live /\ \A i : Reached(i)' = Reached(i) /\ SourceSet(i)' = SourceSet(i)
                                     /\ DevicesOf(i)' = DevicesOf(i) /\ CharsOf(i)' = CharsOf(i)
      BY <1>3 DEF Live, Reached, SourceSet, DevicesOf, CharsOf
    <3>5. SourcesInHand(u) /\ RowsInHand(u) /\ SelectorsInHand(u)
      BY <1>1, <2>6 DEF InOrder
    <3>6. SourcesInHand(u)'
      BY <1>3, <3>1, <3>3, <3>4, <3>5 DEF SourcesInHand
    \* Whatever covered the new row would be a lock that both have.
    <3>7. ASSUME At(u) = "relay", k.kind \in Withdrawing
          PROVE  d \notin DevicesOf(k) /\ s \notin Reached(k) /\ c \notin CharsOf(k)
      <4>1. /\ Mode \in held[u] /\ \A i : (<<1, i>> \in InHand(u) => <<1, i>> \in held[u])
                                         /\ (<<5, i>> \in InHand(u) => <<5, i>> \in held[u])
            /\ \A i : <<4, i>> \in InHand(u) => <<4, i>> \in held[u]
        BY <2>6, <3>1, <3>5, <3>7, OthersHold DEF SelectorsInHand, Withdrawing
      <4>2. \A i : <<1, i>> # Mode /\ <<4, i>> # Mode /\ <<5, i>> # Mode
        BY DEF Mode
      <4>3. k.kind # "drain"
        BY <1>2, <1>6, <3>1, <4>1
      <4>4. d \notin DevicesOf(k)
        <5>1. k.kind = "withdraw" => \A x \in DevicesOf(k) : <<5, x>> \in InHand(u)
          BY <3>1, <3>5, <3>7 DEF SelectorsInHand
        <5>2. k.kind # "withdraw" => DevicesOf(k) = {}
          BY <4>3 DEF DevicesOf
        <5> QED BY <1>2, <1>6, <4>1, <4>2, <5>1, <5>2
      <4>5. s \notin Reached(k)
        <5>1. \A x \in Reached(k) : <<4, x>> \in InHand(u)
          BY <3>1, <3>5, <3>7 DEF SourcesInHand
        <5> QED BY <1>2, <2>0, <4>1, <4>2, <5>1
      <4>6. c \notin CharsOf(k)
        <5>1. k.kind = "unlink" => <<1, k.char>> \in InHand(u)
          BY <3>1, <3>5, <3>7 DEF SelectorsInHand
        <5>2. k.kind # "unlink" => CharsOf(k) = {}
          BY <3>7, <4>3 DEF CharsOf, Withdrawing
        <5>3. k.kind = "unlink" => CharsOf(k) = {k.char}
          BY DEF CharsOf
        <5> QED BY <1>2, <1>6, <4>1, <4>2, <5>1, <5>2, <5>3
      <4> QED BY <4>4, <4>5, <4>6
    <3>8. ASSUME At(u) = "relay", k.kind = "observe" PROVE s # k.source
      <4>1. <<4, k.source>> \in InHand(u)
        BY <3>1, <3>5, <3>8 DEF SourcesInHand
      <4>2. <<4, k.source>> \in held[u] /\ <<4, k.source>> # Mode
        <5>1. \A i : <<4, i>> \in InHand(u) => <<4, i>> \in held[u]
          BY <2>6, <3>8, OthersHold
        <5> QED BY <4>1, <5>1 DEF Mode
      <4> QED BY <1>2, <2>0, <4>2
    <3>9. RowsInHand(u)'
      <4>1. ASSUME At(u) = "relay", k.kind \in Withdrawing
            PROVE  RowsOf(DevicesOf(k), Reached(k), CharsOf(k))' \subseteq RowsOf(DevicesOf(k), Reached(k), CharsOf(k))
        BY <2>3, <3>4, <3>7, <4>1 DEF RowsOf
      <4>2. ASSUME At(u) = "relay", k.kind = "observe"
            PROVE  RowsOf({}, {k.source}, {})' \subseteq RowsOf({}, {k.source}, {})
        BY <2>3, <3>8, <4>2 DEF RowsOf
      <4>3. At(u) = "relay" =>
              /\ k.kind \in Withdrawing =>
                   \A x \in RowsOf(DevicesOf(k), Reached(k), CharsOf(k)) : <<6, x>> \in InHand(u)
              /\ k.kind = "observe" => \A x \in RowsOf({}, {k.source}, {}) : <<6, x>> \in InHand(u)
        BY <3>1, <3>5 DEF RowsInHand
      <4> QED BY <3>3, <4>1, <4>2, <4>3 DEF RowsInHand, Withdrawing
    <3> QED BY <3>6, <3>9
  <2> QED BY <1>3, <2>4, <2>5, <2>6, CommitFrame
<1> QED BY <1>3, <1>7, <1>8

\* Every step keeps the invariant.
LEMMA StepKeeps == LocksAssumption /\ IInv /\ [Next]_vars => IInv'
<1> SUFFICES ASSUME LocksAssumption, IInv, [Next]_vars PROVE IInv'
  OBVIOUS
<1>1. ASSUME NEW t \in Txs, Take(t) PROVE IInv'
  BY <1>1, TakeStep
<1>2. ASSUME NEW t \in Txs, Advance(t) PROVE IInv'
  BY <1>2, AdvanceStep
<1>3. ASSUME NEW t \in Txs, StartOver(t) PROVE IInv'
  BY <1>3, StartOverStep
<1>4. ASSUME NEW t \in Txs, CommitWithdrawal(t) PROVE IInv'
  BY <1>4, CommitWithdrawalStep
<1>5. ASSUME NEW t \in Txs, CommitRun(t) PROVE IInv'
  BY <1>5, CommitRunStep
<1>6. ASSUME NEW t \in Txs, CommitPublication(t) PROVE IInv'
  BY <1>6, CommitPublicationStep
<1>7. CASE UNCHANGED vars
  <2>1. UNCHANGED tables /\ job' = job /\ stage' = stage /\ todo' = todo /\ held' = held /\ saw' = saw /\ tries' = tries
    BY <1>7 DEF vars
  <2>2. TypeOK' /\ Whole' /\ Exclusive'
    BY <2>1, SameTables DEF IInv, TypeOK, Exclusive, Conflicts
  <2>3. ASSUME NEW u \in Txs PROVE InOrder(u)'
    <3>1. Untouched(u) /\ InOrder(u) /\ At(u)' = At(u) /\ InHand(u)' = InHand(u) /\ job'[u] = job[u]
      BY <2>1 DEF IInv, Untouched, At, InHand
    <3>2. job[u] # Idle => SourcesInHand(u)' /\ RowsInHand(u)'
      BY <2>1, <3>1, StillInHand DEF InOrder
    <3> QED BY <3>1, <3>2, OthersInOrder
  <2> QED BY <2>2, <2>3 DEF IInv
<1> QED BY <1>1, <1>2, <1>3, <1>4, <1>5, <1>6, <1>7 DEF Next

-----------------------------------------------------------------------------
\* The invariant of the fleet transactions: each takes its locks upwards, two
\* that exclude each other never hold the same one, what a transaction found is
\* in its hand as far as it has come, so that beyond the sources nobody else can
\* add to what it will write, and the tables are whole.
THEOREM Invariance ==
  ASSUME LocksAssumption
  PROVE  Spec => []IInv
<1>1. Init => IInv
  BY InitOK
<1>2. IInv /\ [Next]_vars => IInv'
  BY StepKeeps
<1> QED BY <1>1, <1>2, PTL DEF Spec

\* Every table and every transaction keeps its type; none starts over more
\* often than the retries allow.
THEOREM TypeCorrect ==
  ASSUME LocksAssumption
  PROVE  Spec => []TypeOK
<1>1. IInv => TypeOK
  BY DEF IInv
<1> QED BY <1>1, Invariance, PTL

\* No set of fleet transactions, however many there are, waits for itself: of
\* those that wait, the one that wants the highest lock waits for none of them,
\* since who holds that lock wants a higher one.
THEOREM NoDeadlock ==
  ASSUME LocksAssumption
  PROVE  Spec => []NoCircularWait
<1>1. IInv => NoCircularWait
  <2> SUFFICES ASSUME IInv, NEW S \in SUBSET Txs, S # {}
               PROVE  \E t \in S : \A u \in S : ~WaitsFor(t, u)
    BY DEF NoCircularWait
  <2>1. CASE \E t \in S : todo[t] = {}
    BY <2>1 DEF WaitsFor, Wanted
  <2>2. CASE \A t \in S : todo[t] # {}
    <3>1. \A t \in S : NextLock(t) \in todo[t] /\ NextLock(t) \in Nat \X Nat
      <4>1. \A t \in Txs : todo[t] \subseteq LockIds
        BY DEF IInv, TypeOK
      <4>2. LockIds \subseteq Nat \X Nat
        BY DEF LockIds, LocksAssumption
      <4>3. \A t \in S : NextLock(t) \in todo[t]
        BY <2>2, NextIsLowest DEF IInv
      <4> QED BY <4>1, <4>2, <4>3
    <3> DEFINE R == {p \in S \X S : Below(NextLock(p[2]), NextLock(p[1]))}
    <3>2. StrictOrder(S, R)
      <4>1. \A x \in S : <<x, x>> \notin R
        BY <3>1, BelowOrders
      <4>2. ASSUME NEW x \in S, NEW y \in S, NEW z \in S, <<x, y>> \in R, <<y, z>> \in R
            PROVE  <<x, z>> \in R
        <5>1. Below(NextLock(y), NextLock(x)) /\ Below(NextLock(z), NextLock(y))
          BY <4>2
        <5>2. Below(NextLock(z), NextLock(x))
          BY <3>1, <5>1, BelowOrders
        <5> QED BY <5>2
      <4> HIDE DEF R
      <4> QED BY <4>1, <4>2 DEF StrictOrder
    <3>3. IsFiniteSet(S)
      BY FS_Subset DEF LocksAssumption
    <3>4. HasLowest(S, R)
      BY <3>2, <3>3, FiniteLowest
    <3>5. PICK t \in S : \A u \in S : <<u, t>> \notin R
      BY <3>4 DEF HasLowest
    <3>6. ASSUME NEW u \in S, WaitsFor(t, u) PROVE FALSE
      <4>1. NextLock(t) \in held[u]
        BY <3>6 DEF WaitsFor, Wanted, Holders
      <4>2. Below(NextLock(t), NextLock(u))
        BY <3>1, <4>1 DEF IInv, InOrder, Upwards
      <4> QED BY <3>5, <4>2
    <3> QED BY <3>6
  <2> QED BY <2>1, <2>2
<1> QED BY <1>1, Invariance, PTL

\* A revocation, an unlinking or a drain leaves nothing behind, whatever other
\* transactions bind, prove, publish or withdraw meanwhile.
THEOREM WithdrawnWhole ==
  ASSUME LocksAssumption
  PROVE  Spec => []NothingLeftBehind
<1>1. IInv => NothingLeftBehind
  BY DEF IInv, Whole, SlotsLive, RowsUnderSlots, RevokedGone, UnlinkedGone, NothingLeftBehind
<1> QED BY <1>1, Invariance, PTL

-----------------------------------------------------------------------------
(* The status page: schedules fire by a calendar that comes round every week. *)

\* A set of numbers that is not empty has a least one.
LEMMA LeastOf ==
  ASSUME NEW S \in SUBSET Nat, S # {}
  PROVE  \E m \in S : \A x \in S : m <= x
<1>1. IsWellFoundedOn(OpToRel(<,Nat), Nat)
  BY NatLessThanWellFounded
<1>2. PICK m \in S : \A x \in S : ~(<<x, m>> \in OpToRel(<,Nat))
  BY <1>1, WFMin
<1>3. ASSUME NEW x \in S, ~(m <= x) PROVE FALSE
  <2>1. <<x, m>> \in OpToRel(<,Nat)
    BY <1>3 DEF OpToRel
  <2> QED BY <1>2, <2>1
<1> QED BY <1>3

\* One that is bounded has a greatest.
LEMMA GreatestOf ==
  ASSUME NEW S \in SUBSET Nat, S # {}, NEW b \in Nat, \A x \in S : x <= b
  PROVE  \E m \in S : \A x \in S : m >= x
<1> DEFINE R == {b - x : x \in S}
<1>1. R \in SUBSET Nat /\ R # {}
  <2>1. ASSUME NEW x \in S PROVE b - x \in Nat
    OBVIOUS
  <2> QED BY <2>1
<1>2. PICK d \in R : \A x \in R : d <= x
  BY <1>1, LeastOf
<1>3. PICK m \in S : d = b - m
  OBVIOUS
<1>4. ASSUME NEW x \in S PROVE m >= x
  <2>1. b - x \in R
    OBVIOUS
  <2> QED BY <1>2, <1>3, <2>1
<1> QED BY <1>4

\* The library's least and greatest, as the status page uses them.
LEMMA MinIs ==
  ASSUME NEW S \in SUBSET Nat, NEW b \in S, \A x \in S : b <= x
  PROVE  Health!Min(S) = b
<1> DEFINE m == CHOOSE x \in S : \A y \in S : x <= y
<1>1. m \in S /\ \A y \in S : m <= y
  OBVIOUS
<1>2. Health!Min(S) = m
  BY DEF Health!Min
<1> HIDE DEF m
<1> QED BY <1>1, <1>2

LEMMA MaxIs ==
  ASSUME NEW S \in SUBSET Nat, NEW b \in S, \A x \in S : b >= x
  PROVE  Health!Max(S) = b
<1> DEFINE m == CHOOSE x \in S : \A y \in S : x >= y
<1>1. m \in S /\ \A y \in S : m >= y
  OBVIOUS
<1>2. Health!Max(S) = m
  BY DEF Health!Max
<1> HIDE DEF m
<1> QED BY <1>1, <1>2

\* Division with remainder, and that it is unique.
LEMMA DivMod ==
  ASSUME NEW t \in Nat, NEW n \in Nat \ {0}
  PROVE  t \div n \in Nat /\ t % n \in 0..n - 1 /\ t = n * (t \div n) + (t % n)
OBVIOUS

LEMMA UniqueDiv ==
  ASSUME NEW n \in Nat \ {0}, NEW p \in Nat, NEW q \in Nat, NEW r \in 0..n - 1, NEW s \in 0..n - 1,
         n * p + r = n * q + s
  PROVE  p = q /\ r = s
<1>1. CASE p < q
  <2>1. n * (q - p) >= n
    BY <1>1
  <2>2. n * q - n * p = n * (q - p)
    OBVIOUS
  <2> QED BY <2>1, <2>2
<1>2. CASE p > q
  <2>1. n * (p - q) >= n
    BY <1>2
  <2>2. n * p - n * q = n * (p - q)
    OBVIOUS
  <2> QED BY <2>1, <2>2
<1> QED BY <1>1, <1>2

LEMMA OfDiv ==
  ASSUME NEW n \in Nat \ {0}, NEW q \in Nat, NEW r \in 0..n - 1
  PROVE  n * q + r \in Nat /\ (n * q + r) % n = r /\ (n * q + r) \div n = q
<1> DEFINE t == n * q + r
<1>1. t \in Nat
  OBVIOUS
<1>2. t \div n \in Nat /\ t % n \in 0..n - 1 /\ t = n * (t \div n) + (t % n)
  BY <1>1, DivMod
<1>3. t = n * q + r
  OBVIOUS
<1> HIDE DEF t
<1>4. t \div n = q /\ t % n = r
  BY <1>2, <1>3, UniqueDiv
<1> QED BY <1>1, <1>4 DEF t

Parsed(c) == Health!ParseCron(c)
Fires(c, t) == Health!Matches(Parsed(c), t)
Sched(c) ==
  /\ Parsed(c).minute \in SUBSET (0..HourLen - 1) /\ Parsed(c).minute # {}
  /\ Parsed(c).hour \in SUBSET (0..DayLen - 1) /\ Parsed(c).hour # {}
  /\ Parsed(c).dow \in SUBSET (0..WeekLen - 1) /\ Parsed(c).dow # {}
  /\ Parsed(c).dom = 1..MonthLen

\* What the assumptions say of the lengths of the calendar.
LEMMA Lengths ==
  /\ HourLen \in Nat \ {0} /\ DayLen \in Nat \ {0} /\ WeekLen \in Nat \ {0} /\ MonthLen \in Nat \ {0}
  /\ HourLen * DayLen \in Nat \ {0} /\ Health!Cycle \in Nat \ {0} /\ Health!Cycle = HourLen * DayLen * WeekLen
  /\ ScanWindow \in Nat /\ ScanWindow >= Health!Cycle /\ Grace \in Nat /\ StuckFloor \in Nat /\ BeatStale \in Nat
<1>1. /\ HourLen \in Nat \ {0} /\ DayLen \in Nat \ {0} /\ WeekLen \in Nat \ {0} /\ MonthLen \in Nat \ {0}
      /\ ScanWindow \in Nat /\ ScanWindow >= HourLen * DayLen * WeekLen /\ Grace \in Nat /\ StuckFloor \in Nat /\ BeatStale \in Nat
  BY SchedulesAssumption
<1>2. ASSUME NEW a \in Nat \ {0}, NEW b \in Nat \ {0} PROVE a * b \in Nat \ {0}
  OBVIOUS
<1>3. HourLen * DayLen \in Nat \ {0}
  BY <1>1, <1>2
<1>4. HourLen * DayLen * WeekLen \in Nat \ {0}
  BY <1>1, <1>2, <1>3
<1> QED BY <1>1, <1>3, <1>4 DEF Health!Cycle

\* A field is read as numbers of its range.
LEMMA FieldIn ==
  ASSUME NEW raw, NEW first \in Nat, NEW last \in Nat, raw.kind \in {"any", "step", "value", "list"}
  PROVE  Health!ParseField(raw, first, last) \in SUBSET (first..last)
<1>1. CASE raw.kind = "any"
  BY <1>1 DEF Health!ParseField
<1>2. CASE raw.kind = "step"
  BY <1>2 DEF Health!ParseField
<1>3. CASE raw.kind = "value"
  BY <1>3 DEF Health!ParseField
<1>4. CASE raw.kind = "list"
  BY <1>4 DEF Health!ParseField
<1> QED BY <1>1, <1>2, <1>3, <1>4

\* Every schedule is read as sets that are not empty, and as any day of the month.
LEMMA Schedulable == ASSUME NEW c \in Schedules PROVE Sched(c)
<1>1. Cyclic(c)
  BY SchedulesAssumption
<1>2. /\ Parsed(c).minute # {} /\ Parsed(c).hour # {} /\ Parsed(c).dow # {}
  BY <1>1 DEF Cyclic, Health!Readable, Parsed, Health!ParseCron
<1>3. Parsed(c).minute \in SUBSET (0..HourLen - 1)
  <2>1. HourLen - 1 \in Nat /\ c.minute.kind \in {"any", "step", "value", "list"}
    BY <1>1, Lengths DEF Cyclic
  <2> QED BY <2>1, FieldIn DEF Parsed, Health!ParseCron
<1>4. Parsed(c).hour \in SUBSET (0..DayLen - 1)
  <2>1. DayLen - 1 \in Nat /\ c.hour.kind \in {"any", "step", "value", "list"}
    BY <1>1, Lengths DEF Cyclic
  <2> QED BY <2>1, FieldIn DEF Parsed, Health!ParseCron
<1>5. Parsed(c).dow \in SUBSET (0..WeekLen - 1)
  <2>1. WeekLen - 1 \in Nat /\ c.dow.kind \in {"any", "step", "value", "list"}
    BY <1>1, Lengths DEF Cyclic
  <2> QED BY <2>1, FieldIn DEF Parsed, Health!ParseCron
<1>6. Parsed(c).dom = 1..MonthLen
  BY <1>1 DEF Cyclic, Parsed, Health!ParseCron, Health!ParseField
<1> QED BY <1>2, <1>3, <1>4, <1>5, <1>6 DEF Sched

\* A minute is one of an hour of a day.
Time(d, h, m) == HourLen * (DayLen * d + h) + m

\* The minute, hour and day of a time, and that every time has them.
LEMMA TimeIs ==
  ASSUME NEW d \in Nat, NEW h \in 0..DayLen - 1, NEW m \in 0..HourLen - 1
  PROVE  /\ Time(d, h, m) \in Nat
         /\ Time(d, h, m) % HourLen = m
         /\ (Time(d, h, m) \div HourLen) % DayLen = h
         /\ Health!Day(Time(d, h, m)) = d
<1>1. HourLen \in Nat \ {0} /\ DayLen \in Nat \ {0} /\ HourLen * DayLen \in Nat \ {0}
  BY Lengths
<1>2. DayLen * d + h \in Nat /\ (DayLen * d + h) % DayLen = h
  BY <1>1, OfDiv
<1>3. Time(d, h, m) \in Nat /\ Time(d, h, m) % HourLen = m /\ Time(d, h, m) \div HourLen = DayLen * d + h
  BY <1>1, <1>2, OfDiv DEF Time
<1>4. Time(d, h, m) = (HourLen * DayLen) * d + (HourLen * h + m)
  BY <1>1 DEF Time
<1>5. HourLen * h + m \in 0..(HourLen * DayLen) - 1
  <2>1. h \in Nat /\ m \in Nat /\ h <= DayLen - 1 /\ m <= HourLen - 1
    BY <1>1
  <2>2. HourLen * h \in Nat /\ HourLen * h <= HourLen * (DayLen - 1)
    BY <1>1, <2>1
  <2>3. HourLen * (DayLen - 1) = HourLen * DayLen - HourLen
    BY <1>1
  <2> QED BY <1>1, <2>1, <2>2, <2>3
<1>6. Time(d, h, m) \div (HourLen * DayLen) = d
  BY <1>1, <1>4, <1>5, OfDiv
<1> QED BY <1>2, <1>3, <1>6 DEF Health!Day

LEMMA EveryTime ==
  ASSUME NEW t \in Nat
  PROVE  \E d \in Nat, h \in 0..DayLen - 1, m \in 0..HourLen - 1 : t = Time(d, h, m)
<1>1. HourLen \in Nat \ {0} /\ DayLen \in Nat \ {0}
  BY Lengths
<1> DEFINE q == t \div HourLen
<1>2. q \in Nat /\ t % HourLen \in 0..HourLen - 1 /\ t = HourLen * q + (t % HourLen)
  BY <1>1, DivMod
<1> HIDE DEF q
<1>3. q \div DayLen \in Nat /\ q % DayLen \in 0..DayLen - 1 /\ q = DayLen * (q \div DayLen) + (q % DayLen)
  BY <1>1, <1>2, DivMod
<1>4. t = Time(q \div DayLen, q % DayLen, t % HourLen)
  BY <1>2, <1>3 DEF Time
<1> QED BY <1>2, <1>3, <1>4

\* A schedule fires by the minute, the hour and the day of the week.
LEMMA FiresAt ==
  ASSUME NEW c \in Schedules, NEW d \in Nat, NEW h \in 0..DayLen - 1, NEW m \in 0..HourLen - 1
  PROVE  Fires(c, Time(d, h, m)) <=> m \in Parsed(c).minute /\ h \in Parsed(c).hour /\ d % WeekLen \in Parsed(c).dow
<1>1. (d % MonthLen) + 1 \in Parsed(c).dom
  <2>1. d % MonthLen \in 0..MonthLen - 1 /\ MonthLen \in Nat
    BY Lengths, DivMod
  <2>2. (d % MonthLen) + 1 \in 1..MonthLen
    BY <2>1
  <2> QED BY <2>2, Schedulable DEF Sched
<1> QED BY <1>1, TimeIs DEF Fires, Health!Matches, Health!OnDay

\* What comes round comes round again.
LEMMA Again ==
  ASSUME NEW c \in Schedules, NEW t \in Nat, NEW k \in Nat
  PROVE  t + Health!Cycle * k \in Nat /\ (Fires(c, t + Health!Cycle * k) <=> Fires(c, t))
<1>1. /\ HourLen \in Nat \ {0} /\ DayLen \in Nat \ {0} /\ WeekLen \in Nat \ {0}
      /\ Health!Cycle = HourLen * DayLen * WeekLen
  BY Lengths
<1>2. PICK d \in Nat, h \in 0..DayLen - 1, m \in 0..HourLen - 1 : t = Time(d, h, m)
  BY EveryTime
<1>3. d + WeekLen * k \in Nat
  BY <1>1
<1>4. t + Health!Cycle * k = Time(d + WeekLen * k, h, m)
  <2>1. DayLen * (d + WeekLen * k) + h = (DayLen * d + h) + DayLen * WeekLen * k
    BY <1>1
  <2>2. DayLen * d + h \in Nat /\ DayLen * WeekLen * k \in Nat
    BY <1>1
  <2>3. HourLen * ((DayLen * d + h) + DayLen * WeekLen * k) = HourLen * (DayLen * d + h) + HourLen * (DayLen * WeekLen * k)
    BY <1>1, <2>2
  <2>4. HourLen * (DayLen * WeekLen * k) = Health!Cycle * k
    BY <1>1
  <2>5. HourLen * (DayLen * d + h) \in Nat /\ HourLen * (DayLen * WeekLen * k) \in Nat
    BY <1>1, <2>2
  <2> QED BY <1>2, <2>1, <2>3, <2>4, <2>5 DEF Time
<1>5. (d + WeekLen * k) % WeekLen = d % WeekLen
  <2> DEFINE q == d \div WeekLen
             r == d % WeekLen
  <2>1. q \in Nat /\ r \in 0..WeekLen - 1 /\ d = WeekLen * q + r
    BY <1>1, DivMod
  <2> HIDE DEF q, r
  <2>2. q + k \in Nat /\ d + WeekLen * k = WeekLen * (q + k) + r
    BY <1>1, <2>1
  <2>3. (WeekLen * (q + k) + r) % WeekLen = r
    BY <1>1, <2>1, <2>2, OfDiv
  <2>4. (d + WeekLen * k) % WeekLen = r
    BY <2>2, <2>3
  <2> QED BY <2>4 DEF r
<1>6. t + Health!Cycle * k \in Nat
  BY <1>3, <1>4, TimeIs
<1> QED BY <1>2, <1>3, <1>4, <1>5, <1>6, FiresAt

\* Within a week of any moment every schedule fires.
LEMMA FireWithin ==
  ASSUME NEW c \in Schedules, NEW from \in Nat
  PROVE  \E t \in from + 1..from + Health!Cycle : Fires(c, t)
<1>1. /\ HourLen \in Nat \ {0} /\ DayLen \in Nat \ {0} /\ WeekLen \in Nat \ {0} /\ Health!Cycle \in Nat \ {0}
      /\ Health!Cycle = HourLen * DayLen * WeekLen
  BY Lengths
<1>2. PICK m \in Parsed(c).minute, h \in Parsed(c).hour, w \in Parsed(c).dow : TRUE
  BY Schedulable DEF Sched
<1>3. m \in 0..HourLen - 1 /\ h \in 0..DayLen - 1 /\ w \in 0..WeekLen - 1 /\ w \in Nat
  BY <1>1, Schedulable DEF Sched
<1> DEFINE s == Time(w, h, m)
<1>4. s \in Nat /\ Fires(c, s)
  <2>1. w % WeekLen = w
    BY <1>1, <1>3
  <2> QED BY <1>2, <1>3, <2>1, FiresAt, TimeIs
<1>5. s <= Health!Cycle - 1
  <2>1. DayLen * w + h \in Nat /\ DayLen * w + h <= DayLen * WeekLen - 1
    <3>1. DayLen * w \in Nat /\ DayLen * w <= DayLen * (WeekLen - 1)
      BY <1>1, <1>3
    <3>2. DayLen * (WeekLen - 1) = DayLen * WeekLen - DayLen /\ DayLen * WeekLen \in Nat
      BY <1>1
    <3> QED BY <1>1, <1>3, <3>1, <3>2
  <2>2. HourLen * (DayLen * w + h) <= HourLen * (DayLen * WeekLen - 1)
    BY <1>1, <2>1
  <2>3. HourLen * (DayLen * WeekLen - 1) = Health!Cycle - HourLen
    BY <1>1
  <2>4. HourLen * (DayLen * w + h) \in Nat
    BY <1>1, <2>1
  <2> QED BY <1>1, <1>3, <2>2, <2>3, <2>4 DEF Time
<1> HIDE DEF s
<1> DEFINE k == from \div Health!Cycle
           r == from % Health!Cycle
<1>6. k \in Nat /\ r \in 0..Health!Cycle - 1 /\ from = Health!Cycle * k + r
  BY <1>1, DivMod
<1> HIDE DEF k, r
<1>7. Health!Cycle * k \in Nat /\ s + Health!Cycle * k \in Nat /\ Fires(c, s + Health!Cycle * k)
  BY <1>1, <1>4, <1>6, Again
<1>8. CASE s + Health!Cycle * k > from
  BY <1>1, <1>4, <1>5, <1>6, <1>7, <1>8
<1>9. CASE s + Health!Cycle * k <= from
  <2> DEFINE t == s + Health!Cycle * k
  <2>1. t \in Nat /\ t <= from /\ t + Health!Cycle > from /\ Fires(c, t)
    BY <1>1, <1>4, <1>6, <1>7, <1>9
  <2> HIDE DEF t
  <2>2. Fires(c, t + Health!Cycle * 1)
    BY <2>1, Again
  <2>3. t + Health!Cycle * 1 = t + Health!Cycle
    BY <1>1
  <2> QED BY <1>1, <2>1, <2>2, <2>3
<1> QED BY <1>1, <1>6, <1>7, <1>8, <1>9

\* The first fire after a moment, and what the code computes of it.
First(c, from, a) ==
  a > from /\ a <= from + Health!Cycle /\ Fires(c, a) /\ \A u \in Nat : u > from /\ u < a => ~Fires(c, u)

\* nextFire finds the first fire, and there is one.
LEMMA FirstIs ==
  ASSUME NEW c \in Schedules, NEW from \in Nat
  PROVE  /\ \E a \in Nat : First(c, from, a)
         /\ \A a \in Nat : First(c, from, a) => Health!NextFire(c, from) = [kind |-> "at", at |-> a]
<1>1. Health!Cycle \in Nat \ {0} /\ ScanWindow \in Nat /\ ScanWindow >= Health!Cycle
  BY Lengths
<1> DEFINE near == {t \in from + 1..from + Health!Cycle : Fires(c, t)}
<1>2. near \in SUBSET Nat /\ near # {}
  BY <1>1, FireWithin
<1>3. PICK a \in near : \A x \in near : a <= x
  BY <1>2, LeastOf
<1>4. a \in Nat /\ First(c, from, a)
  BY <1>1, <1>2, <1>3 DEF First
<1>5. ASSUME NEW b \in Nat, First(c, from, b)
      PROVE  Health!NextFire(c, from) = [kind |-> "at", at |-> b]
  <2> DEFINE hits == {t \in from + 1..from + ScanWindow : Health!Matches(Health!ParseCron(c), t)}
  <2>1. b \in hits /\ \A x \in hits : b <= x
    BY <1>1, <1>5 DEF First, Fires, Parsed
  <2>2. \A x \in hits : x \in Nat
    BY <1>1
  <2>4. Health!Readable(c)
    BY SchedulesAssumption DEF Cyclic
  <2>5. Health!NextFire(c, from) = [kind |-> "at", at |-> Health!Min(hits)]
    BY <2>1, <2>4 DEF Health!NextFire
  <2> HIDE DEF hits
  <2>6. Health!Min(hits) = b
    BY <2>1, <2>2, MinIs
  <2> QED BY <2>5, <2>6
<1> QED BY <1>4, <1>5

\* A week on or back, the first fire after a moment is the same one.
LEMMA Shifted ==
  ASSUME NEW c \in Schedules, NEW t \in Nat, NEW b \in Nat, NEW k \in Nat
  PROVE  First(c, t, b) <=> First(c, t + Health!Cycle * k, b + Health!Cycle * k)
<1> DEFINE s == Health!Cycle * k
<1>1. Health!Cycle \in Nat \ {0} /\ s \in Nat
  BY Lengths
<1>2. ASSUME NEW u \in Nat PROVE Fires(c, u + s) <=> Fires(c, u)
  BY Again
<1> HIDE DEF s
<1>3. ASSUME First(c, t, b) PROVE First(c, t + s, b + s)
  <2>1. b + s > t + s /\ b + s <= (t + s) + Health!Cycle /\ Fires(c, b + s)
    BY <1>1, <1>2, <1>3 DEF First
  <2>2. ASSUME NEW u \in Nat, u > t + s, u < b + s PROVE ~Fires(c, u)
    <3>1. u - s \in Nat /\ u - s > t /\ u - s < b /\ (u - s) + s = u
      BY <1>1, <2>2
    <3>2. ~Fires(c, u - s)
      BY <1>3, <3>1 DEF First
    <3> QED BY <1>2, <3>1, <3>2
  <2> QED BY <2>1, <2>2 DEF First
<1>4. ASSUME First(c, t + s, b + s) PROVE First(c, t, b)
  <2>1. b > t /\ b <= t + Health!Cycle /\ Fires(c, b)
    BY <1>1, <1>2, <1>4 DEF First
  <2>2. ASSUME NEW u \in Nat, u > t, u < b PROVE ~Fires(c, u)
    <3>1. u + s \in Nat /\ u + s > t + s /\ u + s < b + s
      BY <1>1, <2>2
    <3>2. ~Fires(c, u + s)
      BY <1>4, <3>1 DEF First
    <3> QED BY <1>2, <3>2
  <2> QED BY <2>1, <2>2 DEF First
<1> QED BY <1>3, <1>4 DEF s

\* The gap after a fire of the first week is one of those that are compared.
LEMMA InGaps ==
  ASSUME NEW c \in Schedules, NEW t \in 0..Health!Cycle, Fires(c, t), NEW b \in Nat, First(c, t, b)
  PROVE  Health!LargestGap(c) \in Nat /\ b - t <= Health!LargestGap(c)
<1> DEFINE fires == {u \in 0..2 * Health!Cycle : Health!Matches(Health!ParseCron(c), u)}
           gaps == {Health!Min({u \in fires : u > v}) - v : v \in {u \in fires : u <= Health!Cycle}}
<1>1. Health!Cycle \in Nat \ {0}
  BY Lengths
<1>2. Health!LargestGap(c) = Health!Max(gaps)
  BY DEF Health!LargestGap
<1>3. \A u \in Nat : u \in fires <=> u <= 2 * Health!Cycle /\ Fires(c, u)
  BY <1>1 DEF Fires, Parsed
<1>4. fires \in SUBSET Nat
  BY <1>1
<1> HIDE DEF fires
<1>5. ASSUME NEW v \in Nat, v <= Health!Cycle, NEW d \in Nat, First(c, v, d)
      PROVE  Health!Min({u \in fires : u > v}) = d
  <2> DEFINE S == {u \in fires : u > v}
  <2>1. d \in S
    BY <1>1, <1>3, <1>5 DEF First
  <2>2. ASSUME NEW x \in S PROVE d <= x
    <3>1. x \in Nat /\ x > v /\ Fires(c, x)
      BY <1>3, <1>4
    <3> QED BY <1>5, <3>1 DEF First
  <2>3. S \in SUBSET Nat
    BY <1>4
  <2> HIDE DEF S
  <2>4. Health!Min(S) = d
    BY <2>1, <2>2, <2>3, MinIs
  <2> QED BY <2>4 DEF S
<1>6. t \in fires /\ t \in Nat /\ t <= Health!Cycle
  BY <1>1, <1>3
<1>7. b - t \in gaps
  BY <1>5, <1>6
<1>8. ASSUME NEW g \in gaps PROVE g \in Nat /\ g <= Health!Cycle
  <2>1. PICK v \in fires : v <= Health!Cycle /\ g = Health!Min({u \in fires : u > v}) - v
    OBVIOUS
  <2>2. v \in Nat
    BY <1>4
  <2>3. PICK d \in Nat : First(c, v, d)
    BY <2>2, FirstIs
  <2>4. g = d - v
    BY <1>5, <2>1, <2>2, <2>3
  <2> QED BY <1>1, <2>2, <2>3, <2>4 DEF First
<1> HIDE DEF gaps
<1>9. PICK m \in gaps : \A x \in gaps : m >= x
  BY <1>1, <1>7, <1>8, GreatestOf
<1>10. Health!Max(gaps) = m
  BY <1>8, <1>9, MaxIs
<1> QED BY <1>2, <1>7, <1>8, <1>9, <1>10

\* From any moment to the next fire is no longer than the largest gap.
LEMMA WithinGap ==
  ASSUME NEW c \in Schedules, NEW from \in Nat, NEW a \in Nat, First(c, from, a)
  PROVE  Health!LargestGap(c) \in Nat /\ a - from <= Health!LargestGap(c)
<1> DEFINE C == Health!Cycle
           k == from \div C
           r == from % C
<1>1. C \in Nat \ {0}
  BY Lengths
<1>2. k \in Nat /\ r \in 0..C - 1 /\ from = C * k + r
  BY <1>1, DivMod
<1> HIDE DEF k, r
<1>14. C * k \in Nat
  BY <1>1, <1>2
<1> DEFINE b == a - C * k
<1>3. b \in Nat /\ r \in Nat /\ First(c, r, b)
  <2>1. b \in Nat /\ r \in Nat /\ b + C * k = a /\ r + C * k = from
    <3>1. a > from /\ a <= from + C
      BY DEF First
    <3> QED BY <1>1, <1>2, <1>14, <3>1
  <2> QED BY <1>2, <2>1, Shifted
<1>4. a - from = b - r
  BY <1>1, <1>2, <1>14
<1> HIDE DEF b
<1>5. b > r /\ b <= r + C /\ Fires(c, b) /\ \A u \in Nat : u > r /\ u < b => ~Fires(c, u)
  BY <1>3 DEF First
<1> DEFINE past == {t \in 0..r + C : Fires(c, t)}
<1>6. b \in past /\ past \in SUBSET Nat /\ (\A x \in past : x <= r + C) /\ r + C \in Nat
  BY <1>1, <1>3, <1>5
<1>7. PICK p \in past : \A x \in past : p >= x
  BY <1>6, GreatestOf
<1>8. p \in Nat /\ p >= b /\ p <= r + C /\ Fires(c, p)
  BY <1>6, <1>7
<1>9. ASSUME NEW u \in Nat PROVE Fires(c, u + C) <=> Fires(c, u)
  <2>1. u + C * 1 = u + C
    BY <1>1
  <2> QED BY <2>1, Again
<1>10. First(c, p, b + C)
  <2>1. b + C > p /\ b + C <= p + C /\ Fires(c, b + C)
    BY <1>1, <1>3, <1>5, <1>8, <1>9
  <2>2. ASSUME NEW u \in Nat, u > p, u < b + C PROVE ~Fires(c, u)
    <3>1. CASE u <= r + C
      <4>1. u \notin past
        BY <1>6, <1>7, <1>8, <2>2
      <4>2. u \in 0..r + C
        BY <1>1, <1>3, <3>1
      <4> QED BY <4>1, <4>2
    <3>2. CASE u > r + C
      <4>1. u - C \in Nat /\ u - C > r /\ u - C < b /\ (u - C) + C = u
        BY <1>1, <1>3, <1>8, <2>2, <3>2
      <4> QED BY <1>5, <1>9, <4>1
    <3> QED BY <1>1, <1>3, <2>2, <3>1, <3>2
  <2> QED BY <2>1, <2>2 DEF First
<1>11. b + C \in Nat /\ (b + C) - p >= b - r
  BY <1>1, <1>3, <1>8
<1>12. CASE p <= C
  <2>1. p \in 0..Health!Cycle
    BY <1>1, <1>8, <1>12
  <2>2. Health!LargestGap(c) \in Nat /\ (b + C) - p <= Health!LargestGap(c)
    BY <1>8, <1>10, <1>11, <2>1, InGaps
  <2> QED BY <1>3, <1>4, <1>8, <1>11, <2>2
<1>13. CASE p > C
  <2>1. p - C \in 0..Health!Cycle /\ p - C \in Nat /\ (p - C) + C * 1 = p /\ b + C * 1 = b + C /\ (p - C) + C = p
    BY <1>1, <1>2, <1>8, <1>13
  <2>2. First(c, p - C, b)
    BY <1>3, <1>10, <2>1, Shifted
  <2>3. Fires(c, p - C)
    BY <1>8, <1>9, <2>1
  <2>4. Health!LargestGap(c) \in Nat /\ b - (p - C) <= Health!LargestGap(c)
    BY <1>3, <2>1, <2>2, <2>3, InGaps
  <2> QED BY <1>1, <1>3, <1>4, <1>8, <1>11, <2>4
<1> QED BY <1>1, <1>8, <1>12, <1>13

-----------------------------------------------------------------------------
(* The cadence in words. *)

\* A schedule that fires at one remainder of a period fires a period later, and not before.
LEMMA Rhythm ==
  ASSUME NEW c \in Schedules, NEW P \in Nat \ {0}, P <= Health!Cycle, NEW r, \A t \in Nat : Fires(c, t) <=> t % P = r,
         NEW s \in Nat, Fires(c, s)
  PROVE  First(c, s, s + P)
<1> DEFINE q == s \div P
<1>1. q \in Nat /\ r \in 0..P - 1 /\ s = P * q + r
  BY DivMod
<1> HIDE DEF q
<1>2. Fires(c, s + P)
  <2>1. q + 1 \in Nat /\ s + P = P * (q + 1) + r /\ s + P \in Nat
    BY <1>1
  <2>2. (P * (q + 1) + r) % P = r
    BY <1>1, <2>1, OfDiv
  <2> QED BY <2>1, <2>2
<1>3. ASSUME NEW u \in Nat, u > s, u < s + P PROVE ~Fires(c, u)
  <2> DEFINE x == u - s
             k == u \div P
  <2>1. SUFFICES ASSUME u % P = r PROVE FALSE
    OBVIOUS
  <2>2. k \in Nat /\ u = P * k + r
    BY <2>1, DivMod
  <2> HIDE DEF k
  <2>3. u - s = P * (k - q) /\ k - q \in Int
    BY <1>1, <2>2
  <2>4. CASE k - q >= 1
    <3>1. P * (k - q) >= P
      BY <2>3, <2>4
    <3> QED BY <1>3, <2>3, <3>1
  <2>5. CASE k - q <= 0
    <3>1. P * (k - q) <= 0
      BY <2>3, <2>5
    <3> QED BY <1>3, <2>3, <3>1
  <2> QED BY <2>3, <2>4, <2>5
<1>4. s + P \in Nat /\ s + P > s
  OBVIOUS
<1>5. Health!Cycle \in Nat
  BY Lengths
<1>6. s + P <= s + Health!Cycle
  BY <1>5
<1> QED BY <1>2, <1>3, <1>4, <1>6 DEF First

\* A remainder by a multiple has the same remainder.
LEMMA ModMod ==
  ASSUME NEW t \in Nat, NEW n \in Nat \ {0}, NEW k \in Nat \ {0}
  PROVE  n * k \in Nat \ {0} /\ (t % (n * k)) % n = t % n
<1> DEFINE h == n * k
<1>1. h \in Nat \ {0}
  OBVIOUS
<1> DEFINE q == t \div h
           r == t % h
<1>2. q \in Nat /\ r \in 0..h - 1 /\ t = h * q + r
  BY <1>1, DivMod
<1>3. h = n * k
  OBVIOUS
<1> HIDE DEF h, q
<1>8. r \in Nat
  BY <1>1, <1>2
<1> HIDE DEF r
<1> DEFINE a == r \div n
           b == r % n
<1>4. a \in Nat /\ b \in 0..n - 1 /\ r = n * a + b
  BY <1>8, DivMod
<1> HIDE DEF a, b
<1>5. k * q + a \in Nat /\ t = n * (k * q + a) + b
  BY <1>2, <1>3, <1>4
<1>6. (n * (k * q + a) + b) % n = b
  BY <1>4, <1>5, OfDiv
<1>7. t % n = b
  BY <1>5, <1>6
<1> QED BY <1>1, <1>7 DEF b, r, h

\* Without hours or weekdays, the minute decides.
LEMMA HourlyFires ==
  ASSUME NEW c \in Schedules, c.hour.kind = "any", c.dow.kind = "any", NEW t \in Nat
  PROVE  Fires(c, t) <=> t % HourLen \in Parsed(c).minute
<1>1. PICK d \in Nat, h \in 0..DayLen - 1, m \in 0..HourLen - 1 : t = Time(d, h, m)
  BY EveryTime
<1>2. h \in Parsed(c).hour
  BY DEF Parsed, Health!ParseCron, Health!ParseField
<1>3. d % WeekLen \in Parsed(c).dow
  <2>1. d % WeekLen \in 0..WeekLen - 1
    BY Lengths, DivMod
  <2> QED BY <2>1 DEF Parsed, Health!ParseCron, Health!ParseField
<1> QED BY <1>1, <1>2, <1>3, FiresAt, TimeIs

\* An hour is within a day, and a day within a week.
LEMMA HourInCycle == HourLen <= HourLen * DayLen /\ HourLen * DayLen <= Health!Cycle
<1>1. ASSUME NEW a \in Nat \ {0}, NEW b \in Nat \ {0} PROVE a <= a * b
  OBVIOUS
<1> QED BY <1>1, Lengths

\* A field of one value is read as it.
LEMMA OneValue ==
  ASSUME NEW raw, raw.kind = "value", NEW last \in Nat, Health!ParseField(raw, 0, last) # {}
  PROVE  raw.n \in 0..last /\ Health!ParseField(raw, 0, last) = {raw.n}
BY DEF Health!ParseField

\* A step that divides the hour: the step is the period.
LEMMA StepRhythm ==
  ASSUME NEW c \in Schedules, c.hour.kind = "any", c.dow.kind = "any", c.minute.kind = "step",
         c.minute.n > 0, HourLen % c.minute.n = 0, NEW s \in Nat, Fires(c, s)
  PROVE  First(c, s, s + c.minute.n)
<1> DEFINE n == c.minute.n
<1>1. n \in Nat \ {0}
  BY SchedulesAssumption DEF Cyclic
<1>2. HourLen \in Nat \ {0}
  BY Lengths
<1>3. HourLen % n = 0
  OBVIOUS
<1>4. Parsed(c).minute = {v \in 0..HourLen - 1 : (v - 0) % n = 0}
  BY <1>1 DEF Parsed, Health!ParseCron, Health!ParseField
<1> HIDE DEF n
<1> DEFINE k == HourLen \div n
<1>5. k \in Nat /\ HourLen = n * k
  BY <1>1, <1>2, <1>3, DivMod
<1> HIDE DEF k
<1>6. k # 0
  BY <1>1, <1>2, <1>5
<1>7. n <= HourLen
  BY <1>1, <1>5, <1>6
<1>8. \A t \in Nat : Fires(c, t) <=> t % n = 0
  <2> TAKE t \in Nat
  <2>1. (t % HourLen) % n = t % n
    <3>1. k \in Nat \ {0}
      BY <1>5, <1>6
    <3>2. (t % (n * k)) % n = t % n
      BY <1>1, <3>1, ModMod
    <3> QED BY <1>5, <3>2
  <2>2. t % HourLen \in 0..HourLen - 1 /\ (t % HourLen) - 0 = t % HourLen
    BY <1>2, DivMod
  <2> QED BY <1>4, <2>1, <2>2, HourlyFires
<1>9. n <= Health!Cycle
  BY <1>1, <1>2, <1>7, HourInCycle, Lengths
<1>10. First(c, s, s + n)
  BY <1>1, <1>8, <1>9, Rhythm
<1> QED BY <1>10 DEF n

\* One minute of each hour.
LEMMA HourRhythm ==
  ASSUME NEW c \in Schedules, c.hour.kind = "any", c.dow.kind = "any", c.minute.kind = "value",
         NEW s \in Nat, Fires(c, s)
  PROVE  First(c, s, s + HourLen)
<1>1. HourLen \in Nat \ {0} /\ HourLen - 1 \in Nat
  BY Lengths
<1>2. Parsed(c).minute = {c.minute.n}
  BY <1>1, OneValue, Schedulable DEF Sched, Parsed, Health!ParseCron
<1>3. \A t \in Nat : Fires(c, t) <=> t % HourLen = c.minute.n
  BY <1>2, HourlyFires
<1>4. HourLen <= Health!Cycle
  BY <1>1, HourInCycle, Lengths
<1> QED BY <1>1, <1>3, <1>4, Rhythm

\* evenlySpacedMinutes accepts just the lists that step round the whole hour.
LEMMA Evenly ==
  ASSUME NEW v \in Seq(Nat), Health!EvenlySpaced(v)
  PROVE  LET gap == v[2] - v[1] n == Len(v) IN
         /\ gap \in Nat \ {0} /\ n \in Nat \ {0} /\ HourLen = gap * n /\ v[1] \in 0..gap - 1
         /\ \A i \in 1..n : v[i] = gap * (i - 1) + v[1]
<1> DEFINE gap == v[2] - v[1]
           n == Len(v)
<1>1. /\ n \in Nat /\ n > 1 /\ v[1] \in Nat /\ v[2] \in Nat /\ v[n] \in Nat
      /\ v[n] < HourLen /\ gap > 0 /\ HourLen - v[n] + v[1] = gap
      /\ \A i \in 1..n - 1 : v[i + 1] - v[i] = gap
      /\ \A i \in 1..n : v[i] \in Nat
  BY DEF Health!EvenlySpaced
<1>2. gap \in Nat \ {0} /\ HourLen \in Nat
  BY <1>1, Lengths
<1> HIDE DEF gap, n
<1>3. \A i \in 1..n : v[i] = gap * (i - 1) + v[1]
  <2> DEFINE bad == {i \in 1..n : v[i] # gap * (i - 1) + v[1]}
  <2>1. SUFFICES ASSUME bad # {} PROVE FALSE
    OBVIOUS
  <2>2. bad \in SUBSET Nat
    BY <1>1
  <2>3. PICK m \in bad : \A x \in bad : m <= x
    BY <2>1, <2>2, LeastOf
  <2>4. m \in 1..n /\ v[m] # gap * (m - 1) + v[1]
    OBVIOUS
  <2>5. m # 1
    BY <1>1, <1>2, <2>4
  <2>6. m - 1 \in 1..n - 1 /\ m - 1 \in 1..n /\ (m - 1) + 1 = m
    BY <1>1, <2>4, <2>5
  <2>7. m - 1 \notin bad
    BY <1>1, <2>3, <2>4
  <2>8. v[m - 1] = gap * ((m - 1) - 1) + v[1]
    BY <2>6, <2>7
  <2>9. v[m] - v[m - 1] = gap
    <3>1. v[(m - 1) + 1] - v[m - 1] = gap
      BY <1>1, <2>6
    <3> QED BY <2>6, <3>1
  <2>10. gap * ((m - 1) - 1) + gap = gap * (m - 1)
    BY <1>1, <1>2, <2>4
  <2>11. v[m] \in Nat /\ v[m - 1] \in Nat /\ gap * ((m - 1) - 1) \in Int /\ gap * (m - 1) \in Int
    BY <1>1, <1>2, <2>4, <2>6
  <2>12. v[m] = gap * (m - 1) + v[1]
    <3> DEFINE vm == v[m]
               vl == v[m - 1]
               gm == gap * (m - 1)
               gl == gap * ((m - 1) - 1)
               vf == v[1]
    <3>1. vm - vl = gap /\ gl + gap = gm /\ vl = gl + vf /\ vm \in Nat /\ vl \in Nat /\ vf \in Nat
          /\ gm \in Int /\ gl \in Int /\ gap \in Nat
      BY <1>1, <1>2, <2>8, <2>9, <2>10, <2>11
    <3> HIDE DEF vm, vl, gm, gl, vf
    <3>2. vm = gm + vf
      BY <3>1
    <3> QED BY <3>2 DEF vm, gm, vf
  <2> QED BY <2>4, <2>12
<1>4. v[n] = gap * (n - 1) + v[1]
  BY <1>1, <1>3
<1>5. gap * (n - 1) = gap * n - gap /\ gap * n \in Nat
  BY <1>1, <1>2
<1>6. HourLen = gap * n
  BY <1>1, <1>2, <1>4, <1>5
<1>7. v[1] < gap
  BY <1>1, <1>2, <1>4, <1>5, <1>6
<1>8. v[1] \in 0..gap - 1 /\ n \in Nat \ {0}
  BY <1>1, <1>2, <1>7
<1> QED BY <1>2, <1>3, <1>6, <1>8 DEF gap, n

\* A list that steps round the hour.
LEMMA ListRhythm ==
  ASSUME NEW c \in Schedules, c.hour.kind = "any", c.dow.kind = "any", c.minute.kind = "list",
         Health!EvenlySpaced(c.minute.values), NEW s \in Nat, Fires(c, s)
  PROVE  /\ c.minute.values[2] - c.minute.values[1] \in Nat
         /\ First(c, s, s + (c.minute.values[2] - c.minute.values[1]))
<1> DEFINE v == c.minute.values
           gap == v[2] - v[1]
           n == Len(v)
<1>1. v \in Seq(Nat)
  BY SchedulesAssumption DEF Cyclic
<1>2. /\ gap \in Nat \ {0} /\ n \in Nat \ {0} /\ HourLen = gap * n /\ v[1] \in 0..gap - 1
      /\ \A i \in 1..n : v[i] = gap * (i - 1) + v[1]
  BY <1>1, Evenly
<1>3. Parsed(c).minute = {v[i] : i \in 1..n}
  <2>1. Health!ToSet(v) = {v[i] : i \in 1..n}
    BY <1>1 DEF Health!ToSet
  <2>2. Parsed(c).minute # {}
    BY Schedulable DEF Sched
  <2> QED BY <2>1, <2>2 DEF Parsed, Health!ParseCron, Health!ParseField
<1> DEFINE v1 == v[1]
<1>4. v1 \in 0..gap - 1 /\ \A i \in 1..n : v[i] = gap * (i - 1) + v1
  BY <1>2
<1> HIDE DEF gap, n, v1, v
<1>5. HourLen \in Nat \ {0}
  BY Lengths
<1>6. \A t \in Nat : Fires(c, t) <=> t % gap = v1
  <2> TAKE t \in Nat
  <2> DEFINE r == t % HourLen
  <2>1. r \in 0..HourLen - 1
    BY <1>5, DivMod
  <2>2. r % gap = t % gap
    BY <1>2, ModMod
  <2> HIDE DEF r
  <2>3. r \in Nat /\ r < HourLen
    BY <1>5, <2>1
  <2>4. r \in Parsed(c).minute <=> r % gap = v1
    <3>1. ASSUME NEW i \in 1..n, r = v[i] PROVE r % gap = v1
      <4>1. i - 1 \in Nat
        BY <1>2
      <4>2. (gap * (i - 1) + v1) % gap = v1
        BY <1>2, <1>4, <4>1, OfDiv
      <4> QED BY <1>4, <3>1, <4>2
    <3>2. ASSUME r % gap = v1 PROVE \E i \in 1..n : r = v[i]
      <4> DEFINE q == r \div gap
      <4>1. q \in Nat /\ r = gap * q + v1
        BY <1>2, <2>3, <3>2, DivMod
      <4> HIDE DEF q
      <4>2. q < n
        <5>1. CASE q >= n
          <6>1. gap * q >= gap * n
            BY <1>2, <4>1, <5>1
          <6>2. v1 \in Nat /\ gap * q \in Nat
            BY <1>2, <1>4, <4>1
          <6> QED BY <1>2, <2>3, <4>1, <6>1, <6>2
        <5> QED BY <1>2, <4>1, <5>1
      <4>3. q + 1 \in 1..n /\ (q + 1) - 1 = q
        BY <1>2, <4>1, <4>2
      <4>4. v[q + 1] = gap * ((q + 1) - 1) + v1
        BY <1>4, <4>3
      <4> QED BY <4>1, <4>3, <4>4
    <3> QED BY <1>3, <3>1, <3>2
  <2> QED BY <2>2, <2>4, HourlyFires DEF r
<1>7. gap <= HourLen
  BY <1>2
<1>8. gap <= Health!Cycle
  BY <1>2, <1>5, <1>7, HourInCycle, Lengths
<1>9. First(c, s, s + gap)
  BY <1>2, <1>6, <1>8, Rhythm
<1> QED BY <1>2, <1>9 DEF gap, v

\* The minute of a day.
LEMMA MinuteOfDay ==
  ASSUME NEW h \in 0..DayLen - 1, NEW m \in 0..HourLen - 1
  PROVE  HourLen * h + m \in 0..(HourLen * DayLen) - 1
<1>1. HourLen \in Nat \ {0} /\ DayLen \in Nat \ {0} /\ HourLen * DayLen \in Nat \ {0}
  BY Lengths
<1>2. h \in Nat /\ m \in Nat /\ h <= DayLen - 1 /\ m <= HourLen - 1
  BY <1>1
<1>3. HourLen * h \in Nat /\ HourLen * h <= HourLen * (DayLen - 1)
  BY <1>1, <1>2
<1>4. HourLen * (DayLen - 1) = HourLen * DayLen - HourLen
  BY <1>1
<1> QED BY <1>1, <1>2, <1>3, <1>4

\* One minute of each day.
LEMMA DayRhythm ==
  ASSUME NEW c \in Schedules, c.hour.kind = "value", c.dow.kind = "any", c.minute.kind = "value",
         NEW s \in Nat, Fires(c, s)
  PROVE  First(c, s, s + HourLen * DayLen)
<1> DEFINE D == HourLen * DayLen
           m == c.minute.n
           h == c.hour.n
<1>1. HourLen \in Nat \ {0} /\ DayLen \in Nat \ {0} /\ D \in Nat \ {0} /\ HourLen - 1 \in Nat /\ DayLen - 1 \in Nat
  BY Lengths
<1>2. Parsed(c).minute = {m} /\ m \in 0..HourLen - 1
  BY <1>1, OneValue, Schedulable DEF Sched, Parsed, Health!ParseCron
<1>3. Parsed(c).hour = {h} /\ h \in 0..DayLen - 1
  BY <1>1, OneValue, Schedulable DEF Sched, Parsed, Health!ParseCron
<1>4. HourLen * h + m \in 0..D - 1
  BY <1>2, <1>3, MinuteOfDay
<1>5. D = HourLen * DayLen
  OBVIOUS
<1> HIDE DEF m, h, D
<1>6. \A t \in Nat : Fires(c, t) <=> t % D = HourLen * h + m
  <2> TAKE t \in Nat
  <2>1. PICK d \in Nat, g \in 0..DayLen - 1, l \in 0..HourLen - 1 : t = Time(d, g, l)
    BY EveryTime
  <2>2. d % WeekLen \in Parsed(c).dow
    <3>1. d % WeekLen \in 0..WeekLen - 1
      BY Lengths, DivMod
    <3> QED BY <3>1 DEF Parsed, Health!ParseCron, Health!ParseField
  <2>3. Fires(c, t) <=> l = m /\ g = h
    BY <1>2, <1>3, <2>1, <2>2, FiresAt
  <2>4. HourLen * g + l \in 0..D - 1
    BY <1>5, MinuteOfDay
  <2>5. t = D * d + (HourLen * g + l)
    BY <1>1, <1>5, <2>1 DEF Time
  <2>6. t % D = HourLen * g + l
    BY <1>1, <2>4, <2>5, OfDiv
  <2>7. ASSUME HourLen * g + l = HourLen * h + m PROVE l = m /\ g = h
    <3>1. g \in Nat /\ h \in Nat
      BY <1>1, <1>3
    <3> QED BY <1>1, <1>2, <2>7, <3>1, UniqueDiv
  <2> QED BY <2>3, <2>6, <2>7
<1>7. D <= Health!Cycle
  BY <1>5, HourInCycle
<1>8. First(c, s, s + D)
  BY <1>1, <1>6, <1>7, Rhythm
<1> QED BY <1>5, <1>8

\* One minute of each week.
LEMMA WeekRhythm ==
  ASSUME NEW c \in Schedules, c.hour.kind = "value", c.dow.kind = "value", c.minute.kind = "value",
         NEW s \in Nat, Fires(c, s)
  PROVE  First(c, s, s + Health!Cycle)
<1> DEFINE D == HourLen * DayLen
           C == Health!Cycle
           m == c.minute.n
           h == c.hour.n
           w == c.dow.n
           at == D * w + (HourLen * h + m)
<1>1. /\ HourLen \in Nat \ {0} /\ DayLen \in Nat \ {0} /\ WeekLen \in Nat \ {0} /\ D \in Nat \ {0} /\ C \in Nat \ {0}
      /\ C = D * WeekLen /\ HourLen - 1 \in Nat /\ DayLen - 1 \in Nat /\ WeekLen - 1 \in Nat
  BY Lengths
<1>2. Parsed(c).minute = {m} /\ m \in 0..HourLen - 1
  BY <1>1, OneValue, Schedulable DEF Sched, Parsed, Health!ParseCron
<1>3. Parsed(c).hour = {h} /\ h \in 0..DayLen - 1
  BY <1>1, OneValue, Schedulable DEF Sched, Parsed, Health!ParseCron
<1>4. Parsed(c).dow = {w} /\ w \in 0..WeekLen - 1
  BY <1>1, OneValue, Schedulable DEF Sched, Parsed, Health!ParseCron
<1>5. D = HourLen * DayLen
  OBVIOUS
<1> DEFINE y == HourLen * h + m
<1>6. y \in 0..D - 1
  BY <1>2, <1>3, MinuteOfDay
<1>15. y = HourLen * h + m
  OBVIOUS
<1> HIDE DEF m, h, w, D, C, y
<1>10. \A t \in Nat : Fires(c, t) <=> t % C = D * w + y
  <2> TAKE t \in Nat
  <2>1. PICK d \in Nat, g \in 0..DayLen - 1, l \in 0..HourLen - 1 : t = Time(d, g, l)
    BY EveryTime
  <2> DEFINE q == d \div WeekLen
             e == d % WeekLen
             x == HourLen * g + l
  <2>2. q \in Nat /\ e \in 0..WeekLen - 1 /\ d = WeekLen * q + e
    BY <1>1, DivMod
  <2>3. Fires(c, t) <=> l = m /\ g = h /\ e = w
    BY <1>2, <1>3, <1>4, <2>1, FiresAt
  <2>4. x \in 0..D - 1
    BY <1>5, MinuteOfDay
  <2>5. t = D * d + x
    BY <1>1, <1>5, <2>1 DEF Time
  <2>6. x = y => l = m /\ g = h
    <3>1. g \in Nat /\ h \in Nat
      BY <1>1, <1>3
    <3> QED BY <1>1, <1>2, <1>15, <3>1, UniqueDiv
  <2>14. l = m /\ g = h => x = y
    BY <1>15
  <2> HIDE DEF q, e, x
  <2>7. e \in Nat /\ x \in Nat /\ e <= WeekLen - 1 /\ x <= D - 1
    BY <1>1, <2>2, <2>4
  <2>8. t = C * q + (D * e + x)
    <3>1. D * d = D * (WeekLen * q) + D * e
      BY <1>1, <2>2, <2>7
    <3>2. D * (WeekLen * q) = C * q
      BY <1>1, <2>2
    <3>3. D * d \in Nat /\ C * q \in Nat /\ D * e \in Nat
      BY <1>1, <2>2, <2>7
    <3> QED BY <2>5, <2>7, <3>1, <3>2, <3>3
  <2>9. D * e + x \in 0..C - 1
    <3>1. D * e <= D * (WeekLen - 1) /\ D * e \in Nat
      BY <1>1, <2>7
    <3>2. D * (WeekLen - 1) = C - D
      BY <1>1
    <3> QED BY <1>1, <2>7, <3>1, <3>2
  <2>10. t % C = D * e + x
    BY <1>1, <2>2, <2>8, <2>9, OfDiv
  <2>11. ASSUME D * e + x = D * w + y PROVE e = w /\ x = y
    <3>1. w \in Nat
      BY <1>1, <1>4
    <3> QED BY <1>1, <1>6, <2>4, <2>7, <2>11, <3>1, UniqueDiv
  <2> QED BY <2>3, <2>6, <2>10, <2>11, <2>14
<1>11. C <= Health!Cycle
  BY <1>1 DEF C
<1>12. First(c, s, s + C)
  BY <1>1, <1>10, <1>11, Rhythm
<1> QED BY <1>12 DEF C

\* Whatever the lengths of the calendar and the schedule: a period the page puts
\* into words is the distance of every fire to the next (formatCadence, nextFire).
THEOREM CadenceHeld ==
  ASSUME NEW c \in Schedules, NEW s \in Nat, Fires(c, s), Health!FormatCadence(c) # 0
  PROVE  Health!NextFire(c, s) = [kind |-> "at", at |-> s + Health!FormatCadence(c)]
<1> DEFINE F == Health!FormatCadence(c)
<1>1. c.dom.kind = "any" /\ HourLen \in Nat /\ DayLen \in Nat /\ HourLen * DayLen \in Nat
      /\ Health!Cycle = HourLen * DayLen * WeekLen /\ Health!Cycle \in Nat
  BY SchedulesAssumption, Lengths DEF Cyclic
<1>2. F \in Nat /\ First(c, s, s + F)
  <2>1. CASE c.dow.kind = "any" /\ c.hour.kind = "any" /\ c.minute.kind = "step"
    <3>1. F = c.minute.n /\ c.minute.n > 0 /\ HourLen % c.minute.n = 0
      BY <1>1, <2>1 DEF Health!FormatCadence
    <3>2. c.minute.n \in Nat
      BY <2>1, SchedulesAssumption DEF Cyclic
    <3> HIDE DEF F
    <3> QED BY <2>1, <3>1, <3>2, StepRhythm
  <2>2. CASE c.dow.kind = "any" /\ c.hour.kind = "any" /\ c.minute.kind = "value"
    <3>1. F = HourLen
      BY <1>1, <2>2 DEF Health!FormatCadence
    <3> HIDE DEF F
    <3> QED BY <1>1, <2>2, <3>1, HourRhythm
  <2>3. CASE c.dow.kind = "any" /\ c.hour.kind = "any" /\ c.minute.kind = "list"
    <3>1. F = c.minute.values[2] - c.minute.values[1] /\ Health!EvenlySpaced(c.minute.values)
      BY <1>1, <2>3 DEF Health!FormatCadence
    <3> HIDE DEF F
    <3> QED BY <2>3, <3>1, ListRhythm
  <2>4. CASE c.hour.kind = "value" /\ c.minute.kind = "value" /\ c.dow.kind = "any"
    <3>1. F = HourLen * DayLen * 1
      BY <1>1, <2>4 DEF Health!FormatCadence
    <3>2. HourLen * DayLen * 1 = HourLen * DayLen
      BY <1>1
    <3> HIDE DEF F
    <3> QED BY <1>1, <2>4, <3>1, <3>2, DayRhythm
  <2>5. CASE c.hour.kind = "value" /\ c.minute.kind = "value" /\ c.dow.kind = "value"
    <3>1. F = HourLen * DayLen * WeekLen
      BY <1>1, <2>5 DEF Health!FormatCadence
    <3> HIDE DEF F
    <3> QED BY <1>1, <2>5, <3>1, WeekRhythm
  <2>6. \/ c.dow.kind = "any" /\ c.hour.kind = "any" /\ c.minute.kind = "step"
        \/ c.dow.kind = "any" /\ c.hour.kind = "any" /\ c.minute.kind = "value"
        \/ c.dow.kind = "any" /\ c.hour.kind = "any" /\ c.minute.kind = "list"
        \/ c.hour.kind = "value" /\ c.minute.kind = "value" /\ c.dow.kind = "any"
        \/ c.hour.kind = "value" /\ c.minute.kind = "value" /\ c.dow.kind = "value"
    BY <1>1 DEF Health!FormatCadence
  <2> QED BY <2>1, <2>2, <2>3, <2>4, <2>5, <2>6
<1> HIDE DEF F
<1>3. s + F \in Nat
  BY <1>2
<1>4. Health!NextFire(c, s) = [kind |-> "at", at |-> s + F]
  BY <1>2, <1>3, FirstIs
<1> QED BY <1>4 DEF F

-----------------------------------------------------------------------------
(* The status page: calm is recent. *)

RunRows == [job : JobTypes, scope : Narrowed \union {"everyone"}, started : Nat,
            finished : Nat \union {None}, status : {None, "ok", "partial", "failed"}]
HealthInv ==
  /\ cron \in [JobTypes -> Schedules] /\ now \in Nat /\ beat \in Nat
  /\ runs \in Seq(RunRows)
  /\ \A i \in DOMAIN runs :
       /\ runs[i].started <= now
       /\ runs[i].status # None => runs[i].finished \in Nat /\ runs[i].finished <= now

\* The rows are whole: what has a status is finished, and nothing is of the future.
LEMMA HealthStarts == ASSUME Health!Init PROVE HealthInv
<1>1. cron \in [JobTypes -> Schedules] /\ now = 0 /\ beat = 0 /\ runs = << >>
  BY DEF Health!Init
<1> QED BY <1>1 DEF HealthInv

LEMMA HealthKept == ASSUME HealthInv, Health!Next PROVE HealthInv'
<1> USE DEF HealthInv
<1>0. Len(runs) \in Nat /\ DOMAIN runs = 1..Len(runs)
  OBVIOUS
<1>1. CASE Health!Minute
  <2>1. now' = now + 1 /\ beat' \in Nat /\ UNCHANGED <<cron, runs>>
    BY <1>1 DEF Health!Minute
  <2>2. ASSUME NEW i \in DOMAIN runs PROVE runs[i].started \in Nat /\ runs[i].started <= now + 1
    <3>1. runs[i] \in RunRows
      BY <1>0
    <3>2. runs[i].started \in Nat
      BY <3>1 DEF RunRows
    <3> QED BY <3>2
  <2>3. ASSUME NEW i \in DOMAIN runs, runs[i].status # None
        PROVE  runs[i].finished \in Nat /\ runs[i].finished <= now + 1
    <3>1. runs[i].finished \in Nat /\ runs[i].finished <= now
      BY <2>3
    <3> QED BY <3>1
  <2> QED BY <2>1, <2>2, <2>3
<1>2. CASE Health!Crash \/ Health!Restart
  BY <1>2 DEF Health!Crash, Health!Restart
<1>3. ASSUME NEW j \in JobTypes, NEW scope \in Narrowed \union {Health!Everyone}, Health!StartSyncRun(j, scope)
      PROVE  HealthInv'
  <2> DEFINE new == [job |-> j, scope |-> scope, started |-> now, finished |-> None, status |-> None]
  <2>1. runs' = Append(runs, new) /\ UNCHANGED <<cron, now, beat>>
    BY <1>3 DEF Health!StartSyncRun
  <2>2. new \in RunRows /\ new.started = now /\ new.status = None
    BY <1>3 DEF RunRows, Health!Everyone
  <2> HIDE DEF new
  <2>3. runs' \in Seq(RunRows) /\ DOMAIN runs' = 1..Len(runs) + 1
    BY <2>1, <2>2
  <2>4. ASSUME NEW i \in DOMAIN runs' PROVE (i \in DOMAIN runs /\ runs'[i] = runs[i]) \/ runs'[i] = new
    BY <1>0, <2>1, <2>2, <2>3
  <2>5. ASSUME NEW i \in DOMAIN runs'
        PROVE  runs'[i].started <= now' /\ (runs'[i].status # None => runs'[i].finished \in Nat /\ runs'[i].finished <= now')
    BY <2>1, <2>2, <2>4
  <2> QED BY <2>1, <2>3, <2>5
<1>4. ASSUME NEW i \in inHand, NEW status \in {"ok", "partial", "failed"}, Health!FinishSyncRun(i, status)
      PROVE  HealthInv'
  <2>1. runs' = [runs EXCEPT ![i].finished = now, ![i].status = status] /\ UNCHANGED <<cron, now, beat>>
    BY <1>4 DEF Health!FinishSyncRun
  <2>2. DOMAIN runs' = DOMAIN runs
    BY <2>1
  <2>3. ASSUME NEW k \in DOMAIN runs
        PROVE  /\ runs'[k] \in RunRows /\ runs'[k].started <= now
               /\ runs'[k].status # None => runs'[k].finished \in Nat /\ runs'[k].finished <= now
    <3>1. runs[k] \in RunRows
      BY <1>0
    <3>2. CASE k # i
      BY <2>1, <3>1, <3>2
    <3>3. CASE k = i
      <4>1. runs'[k] = [runs[k] EXCEPT !.finished = now, !.status = status]
        BY <2>1, <3>3
      <4>2. runs'[k] \in RunRows
        BY <3>1, <4>1 DEF RunRows
      <4>3. runs'[k].started = runs[k].started /\ runs'[k].finished = now
        BY <3>1, <4>1 DEF RunRows
      <4> QED BY <4>2, <4>3
    <3> QED BY <3>2, <3>3
  <2>4. runs' \in Seq(RunRows)
    <3>1. runs' \in [1..Len(runs) -> RunRows]
      <4>1. runs' = [k \in 1..Len(runs) |-> runs'[k]]
        BY <1>0, <2>1
      <4> QED BY <1>0, <2>3, <4>1
    <3> QED BY <1>0, <3>1
  <2> QED BY <2>1, <2>2, <2>3, <2>4
<1> QED BY <1>1, <1>2, <1>3, <1>4 DEF Health!Next

\* The next fire is a time, and not further off than the largest gap.
LEMMA FireIsNear ==
  ASSUME NEW c \in Schedules, NEW from \in Nat
  PROVE  /\ Health!LargestGap(c) \in Nat
         /\ \E a \in Nat : /\ Health!NextFire(c, from) = [kind |-> "at", at |-> a]
                           /\ a > from /\ a - from <= Health!LargestGap(c)
<1>1. PICK a \in Nat : First(c, from, a)
  BY FirstIs
<1>2. Health!NextFire(c, from) = [kind |-> "at", at |-> a]
  BY <1>1, FirstIs
<1>3. a > from
  BY <1>1 DEF First
<1> QED BY <1>1, <1>2, <1>3, WithinGap

\* What is not late has been seen within the largest gap and the grace.
LEMMA NotLate ==
  ASSUME NEW c \in Schedules, NEW since \in Nat, now \in Nat, ~Health!Late(c, since)
  PROVE  now - since <= Health!LargestGap(c) + Grace
<1>1. Health!LargestGap(c) \in Nat /\ Grace \in Nat
  BY FireIsNear, Lengths
<1>2. PICK a \in Nat : /\ Health!NextFire(c, since) = [kind |-> "at", at |-> a]
                       /\ a > since /\ a - since <= Health!LargestGap(c)
  BY FireIsNear
<1>3. ~(now > a + Grace)
  BY <1>2 DEF Health!Late
<1> QED BY <1>1, <1>2, <1>3

\* The larger of two.
LEMMA Larger ==
  ASSUME NEW a \in Nat, NEW b \in Nat
  PROVE  Health!Max({a, b}) = IF a >= b THEN a ELSE b
<1>1. CASE a >= b
  <2>1. \A x \in {a, b} : a >= x
    BY <1>1
  <2>2. {a, b} \in SUBSET Nat /\ a \in {a, b}
    OBVIOUS
  <2> QED BY <1>1, <2>1, <2>2, MaxIs
<1>2. CASE ~(a >= b)
  <2>1. \A x \in {a, b} : b >= x
    BY <1>2
  <2>2. {a, b} \in SUBSET Nat /\ b \in {a, b}
    OBVIOUS
  <2> QED BY <1>2, <2>1, <2>2, MaxIs
<1> QED BY <1>1, <1>2

\* A run is called stuck within three of the largest gaps.
LEMMA StuckIsBounded ==
  ASSUME NEW c \in Schedules, NEW started \in Nat
  PROVE  /\ Health!StuckAfter(c, started) \in Nat /\ Health!Max({StuckFloor, 3 * Health!LargestGap(c)}) \in Nat
         /\ Health!StuckAfter(c, started) <= Health!Max({StuckFloor, 3 * Health!LargestGap(c)})
<1> DEFINE G == Health!LargestGap(c)
<1>1. G \in Nat /\ StuckFloor \in Nat
  BY FireIsNear, Lengths
<1>2. PICK a \in Nat : Health!NextFire(c, started) = [kind |-> "at", at |-> a]
  BY FireIsNear
<1>3. PICK b \in Nat : Health!NextFire(c, a) = [kind |-> "at", at |-> b] /\ b > a /\ b - a <= G
  BY FireIsNear
<1> DEFINE g == b - a
<1>4. Health!ReadCadence(c, started) = g
  BY <1>2, <1>3 DEF Health!ReadCadence
<1>5. g \in Nat /\ g # None /\ g <= G
  <2>1. g \in Nat /\ g <= G
    BY <1>3
  <2> QED BY <2>1, NoneAssumption
<1>6. Health!StuckAfter(c, started) = Health!Max({StuckFloor, 3 * g})
  BY <1>4, <1>5 DEF Health!StuckAfter
<1> HIDE DEF G, g
<1>7. 3 * g \in Nat /\ 3 * G \in Nat /\ 3 * g <= 3 * G
  BY <1>1, <1>5
<1>8. /\ Health!Max({StuckFloor, 3 * g}) = IF StuckFloor >= 3 * g THEN StuckFloor ELSE 3 * g
      /\ Health!Max({StuckFloor, 3 * G}) = IF StuckFloor >= 3 * G THEN StuckFloor ELSE 3 * G
  BY <1>1, <1>7, Larger
<1>9. /\ Health!Max({StuckFloor, 3 * g}) \in Nat /\ Health!Max({StuckFloor, 3 * G}) \in Nat
      /\ Health!Max({StuckFloor, 3 * g}) <= Health!Max({StuckFloor, 3 * G})
  BY <1>1, <1>7, <1>8
<1> QED BY <1>6, <1>9 DEF G

\* The evidence a page has is of a time, or it has none.
LEMMA EvidenceIsATime == ASSUME HealthInv PROVE Health!EvidenceSince \in Nat \union {None}
<1> DEFINE starts == {r.started : r \in UNION {Health!PageOf(j) : j \in JobTypes}}
<1>1. CASE ~(Health!WorkerFresh /\ starts # {})
  BY <1>1 DEF Health!EvidenceSince
<1>2. CASE Health!WorkerFresh /\ starts # {}
  <2>1. Health!EvidenceSince = Health!Min(starts)
    BY <1>2 DEF Health!EvidenceSince
  <2>2. ASSUME NEW s \in starts PROVE s \in Nat
    <3>1. PICK j \in JobTypes : \E r \in Health!PageOf(j) : s = r.started
      OBVIOUS
    <3>2. PICK r \in Health!PageOf(j) : s = r.started
      BY <3>1
    <3>3. PICK i \in Health!RunsOf(j) : r = runs[i]
      BY DEF Health!PageOf
    <3>4. i \in DOMAIN runs
      BY DEF Health!RunsOf
    <3>5. runs[i] \in RunRows
      BY <3>4 DEF HealthInv
    <3> QED BY <3>2, <3>3, <3>5 DEF RunRows
  <2> HIDE DEF starts
  <2>3. starts \in SUBSET Nat
    BY <2>2
  <2>4. PICK m \in starts : \A x \in starts : m <= x
    BY <1>2, <2>3, LeastOf
  <2>5. Health!Min(starts) = m
    BY <2>3, <2>4, MinIs
  <2> QED BY <2>1, <2>2, <2>4, <2>5
<1> QED BY <1>1, <1>2

\* The newest row of a job that has rows is one of them.
LEMMA NewestIsARow ==
  ASSUME HealthInv, NEW j \in JobTypes, Health!RunsOf(j) # {}
  PROVE  \E i \in DOMAIN runs : Health!Newest(j) = runs[i]
<1> DEFINE S == Health!RunsOf(j)
<1>1. S \in SUBSET Nat /\ S # {} /\ Len(runs) \in Nat /\ \A x \in S : x \in DOMAIN runs /\ x <= Len(runs)
  <2>1. DOMAIN runs = 1..Len(runs) /\ Len(runs) \in Nat
    BY DEF HealthInv
  <2> QED BY <2>1 DEF Health!RunsOf
<1>4. Health!Newest(j) = runs[Health!Max(S)]
  BY DEF Health!Newest
<1> HIDE DEF S
<1>2. PICK m \in S : \A x \in S : m >= x
  BY <1>1, GreatestOf
<1>3. Health!Max(S) = m
  BY <1>1, <1>2, MaxIs
<1> QED BY <1>1, <1>3, <1>4

\* A calm row is recent.
LEMMA CalmOfARow ==
  ASSUME HealthInv, NEW j \in JobTypes, Health!RowHealth(j) \in {"fresh", "inflight", "never"}
  PROVE  Health!Recent(j)
<1> DEFINE c == cron[j]
           gap == Health!LargestGap(c)
<1>1. c \in Schedules /\ now \in Nat
  BY DEF HealthInv
<1>2. gap \in Nat /\ Grace \in Nat
  BY <1>1, FireIsNear, Lengths
<1>3. CASE Health!RunsOf(j) = {}
  <2>1. CASE Health!EvidenceSince = None
    BY <1>3, <2>1 DEF Health!Recent
  <2>2. CASE Health!EvidenceSince # None
    <3>1. Health!EvidenceSince \in Nat
      BY <2>2, EvidenceIsATime
    <3>2. ~Health!Late(c, Health!EvidenceSince)
      BY <1>3, <2>2 DEF Health!RowHealth
    <3>3. now - Health!EvidenceSince <= gap + Grace
      BY <1>1, <3>1, <3>2, NotLate
    <3> QED BY <1>3, <3>3 DEF Health!Recent
  <2> QED BY <2>1, <2>2
<1>4. CASE Health!RunsOf(j) # {}
  <2> DEFINE r == Health!Newest(j)
  <2>1. PICK i \in DOMAIN runs : r = runs[i]
    BY <1>4, NewestIsARow
  <2>2. r.started \in Nat /\ (r.status # None => r.finished \in Nat)
    <3>1. runs[i] \in RunRows
      BY DEF HealthInv
    <3> QED BY <2>1, <3>1 DEF HealthInv, RunRows
  <2>3. CASE r.status = None
    <3>1. ~(now - r.started > Health!StuckAfter(c, r.started))
      BY <1>4, <2>3 DEF Health!RowHealth
    <3>2. /\ Health!StuckAfter(c, r.started) \in Nat /\ Health!Max({StuckFloor, 3 * gap}) \in Nat
          /\ Health!StuckAfter(c, r.started) <= Health!Max({StuckFloor, 3 * gap})
      BY <1>1, <2>2, StuckIsBounded
    <3>3. Health!Recent(j) <=> now - r.started <= Health!Max({StuckFloor, 3 * gap})
      BY <1>4, <2>3 DEF Health!Recent
    <3> HIDE DEF r, c, gap
    <3>4. now - r.started \in Int
      BY <1>1, <2>2
    <3> QED BY <3>1, <3>2, <3>3, <3>4
  <2>4. CASE r.status # None
    <3>1. ~Health!Late(c, r.finished)
      BY <1>4, <2>4 DEF Health!RowHealth
    <3>2. now - r.finished <= gap + Grace
      BY <1>1, <2>2, <2>4, <3>1, NotLate
    <3> QED BY <1>4, <2>4, <3>2 DEF Health!Recent
  <2> QED BY <2>3, <2>4
<1> QED BY <1>3, <1>4

\* A calm group is one of calm rows.
LEMMA CalmOfAGroup == ASSUME HealthInv PROVE Health!CalmIsRecent
<1> SUFFICES ASSUME NEW J \in (SUBSET JobTypes) \ {{}}, Health!GroupTone(J) \notin {"bad", "warn"}, NEW j \in J
             PROVE  Health!Recent(j)
  BY DEF Health!CalmIsRecent
<1> DEFINE tones == {Health!Tone(Health!RowHealth(k)) : k \in J}
<1>1. Health!Tone(Health!RowHealth(j)) \in tones
  OBVIOUS
<1>2. "bad" \notin tones /\ "warn" \notin tones
  <2>1. Health!GroupTone(J) = IF "bad" \in tones THEN "bad" ELSE IF "warn" \in tones THEN "warn"
                              ELSE IF "ok" \in tones THEN "ok" ELSE IF "off" \in tones THEN "off" ELSE "neutral"
    BY DEF Health!GroupTone
  <2> HIDE DEF tones
  <2>2. ASSUME "bad" \in tones PROVE FALSE
    BY <2>1, <2>2
  <2>3. ASSUME "warn" \in tones, "bad" \notin tones PROVE FALSE
    BY <2>1, <2>3
  <2> QED BY <2>2, <2>3
<1>3. Health!RowHealth(j) \in {"fresh", "inflight", "never"}
  <2>1. Health!Tone(Health!RowHealth(j)) \notin {"bad", "warn"}
    BY <1>1, <1>2
  <2> QED BY <2>1 DEF Health!Tone
<1> QED BY <1>3, CalmOfARow

\* What the page says of a schedule is so at every moment.
LEMMA CadenceOfHealth == ASSUME HealthInv PROVE Health!CadenceIsTrue
<1> SUFFICES ASSUME NEW j \in JobTypes, Health!FormatCadence(cron[j]) # 0, Health!Matches(Health!ParseCron(cron[j]), now)
             PROVE  Health!NextFire(cron[j], now) = [kind |-> "at", at |-> now + Health!FormatCadence(cron[j])]
  BY DEF Health!CadenceIsTrue
<1>1. cron[j] \in Schedules /\ now \in Nat
  BY DEF HealthInv
<1>2. Fires(cron[j], now)
  BY DEF Fires, Parsed
<1> QED BY <1>1, <1>2, CadenceHeld

-----------------------------------------------------------------------------
(* The access-list monitor. *)

ListRun == [at : {"discovering", "reconciling", "cataloguing", "reading", "asking", "writing"}, character : Readers,
            found : SUBSET Watched, named : SUBSET Watched, todo : SUBSET Watched,
            status : {None, "ok", "not_visible", "failed"}, seen : SUBSET Watched, reading : Contents \union {{}}]
ListsInv ==
  /\ holder \in Readers \union {None} /\ watch \in SUBSET Watched
  /\ sees \in [Readers -> SUBSET Watched] /\ content \in [Watched -> Contents]
  /\ run \in [ListRuns -> ListRun \union {NoRun}] /\ late \in [ListRuns -> {0, 1}]
  /\ \A r \in ListRuns : Lists!At(r, "cataloguing") \/ Lists!At(r, "writing") => late[r] = 0

\* The invariant of the monitor: who is about to write has no late write yet.
LEMMA ListsStart == ASSUME Lists!Init PROVE ListsInv
BY DEF Lists!Init, ListsInv, Lists!At

\* A step of one run.
LEMMA ListsKeptBy ==
  ASSUME ListsInv, NEW r \in ListRuns, UNCHANGED <<holder, watch, sees, content>>,
         NEW x \in ListRun \union {NoRun}, NEW l \in {0, 1},
         run' = [run EXCEPT ![r] = x], late' = [late EXCEPT ![r] = l],
         x # NoRun /\ x.at \in {"cataloguing", "writing"} => l = 0
  PROVE  ListsInv'
<1> USE DEF ListsInv
<1>1. run' \in [ListRuns -> ListRun \union {NoRun}] /\ late' \in [ListRuns -> {0, 1}]
  OBVIOUS
<1>2. ASSUME NEW q \in ListRuns PROVE Lists!At(q, "cataloguing")' \/ Lists!At(q, "writing")' => late'[q] = 0
  <2>1. CASE q = r
    BY <2>1 DEF Lists!At
  <2>2. CASE q # r
    BY <2>2 DEF Lists!At
  <2> QED BY <2>1, <2>2
<1> QED BY <1>1, <1>2

LEMMA ListsKept == ASSUME ListsInv, Lists!Next PROVE ListsInv'
<1>1. ASSUME NEW c \in Readers, Lists!DesignateHolder(c) \/ Lists!ScopeDropped(c) PROVE ListsInv'
  BY <1>1 DEF ListsInv, Lists!At, Lists!DesignateHolder, Lists!ScopeDropped, Lists!world
<1>2. CASE Lists!HolderGone
  BY <1>2 DEF ListsInv, Lists!At, Lists!HolderGone, Lists!world
<1>3. ASSUME NEW l \in Watched, Lists!AddWatch(l) \/ Lists!RemoveWatch(l) PROVE ListsInv'
  BY <1>3 DEF ListsInv, Lists!At, Lists!AddWatch, Lists!RemoveWatch, Lists!world
<1>4. ASSUME NEW c \in Readers, NEW S \in SUBSET Watched, Lists!Regranted(c, S) PROVE ListsInv'
  BY <1>4 DEF ListsInv, Lists!At, Lists!Regranted, Lists!tables
<1>5. ASSUME NEW l \in Watched, NEW E \in Contents, Lists!Edited(l, E) PROVE ListsInv'
  BY <1>5 DEF ListsInv, Lists!At, Lists!Edited, Lists!tables
<1>6. ASSUME NEW r \in ListRuns,
             \/ Lists!Begin(r) \/ Lists!Stopped(r) \/ Lists!Discover(r) \/ Lists!AskReconcile(r)
             \/ Lists!Reconcile(r) \/ Lists!AskWrite(r) \/ Lists!Write(r) \/ Lists!Finish(r)
             \/ \E l \in Watched : Lists!ReadList(r, l)
      PROVE  ListsInv'
  <2>0. /\ run[r] \in ListRun \union {NoRun} /\ late[r] \in {0, 1}
        /\ late' = late => late' = [late EXCEPT ![r] = late[r]]
        /\ holder \in Readers \union {None} /\ watch \in SUBSET Watched
        /\ sees \in [Readers -> SUBSET Watched] /\ content \in [Watched -> Contents]
    BY DEF ListsInv
  <2>1. CASE Lists!Begin(r)
    <3> DEFINE x == [at |-> "discovering", character |-> holder, found |-> {},
                     named |-> {}, todo |-> {}, status |-> None, seen |-> {}, reading |-> {}]
    <3>1. run' = [run EXCEPT ![r] = x] /\ late' = late /\ UNCHANGED <<holder, watch, sees, content>> /\ holder # None
      BY <2>1 DEF Lists!Begin, Lists!OnlyRun, Lists!tables, Lists!world
    <3>2. x \in ListRun /\ x.at = "discovering"
      BY <2>0, <3>1 DEF ListRun
    <3> HIDE DEF x
    <3> QED BY <2>0, <3>1, <3>2, ListsKeptBy
  <2>2. CASE Lists!Stopped(r) \/ Lists!Finish(r)
    <3>1. run' = [run EXCEPT ![r] = NoRun] /\ late' = [late EXCEPT ![r] = 0] /\ UNCHANGED <<holder, watch, sees, content>>
      BY <2>2 DEF Lists!Stopped, Lists!Finish, Lists!End, Lists!OnlyRun, Lists!tables, Lists!world
    <3> QED BY <3>1, ListsKeptBy
  <2>3. CASE Lists!Discover(r)
    <3>1. PICK missed : /\ run' = [run EXCEPT ![r].at = "reconciling", ![r].found = sees[run[r].character],
                                             ![r].named = sees[run[r].character] \ missed]
                        /\ late' = late /\ UNCHANGED <<holder, watch, sees, content>> /\ run[r] # NoRun
      BY <2>3 DEF Lists!Discover, Lists!OnlyRun, Lists!tables, Lists!world, Lists!At
    <3> DEFINE x == [run[r] EXCEPT !.at = "reconciling", !.found = sees[run[r].character],
                                   !.named = sees[run[r].character] \ missed]
    <3>2. run' = [run EXCEPT ![r] = x]
      BY <3>1 DEF ListsInv
    <3>3. run[r] \in ListRun /\ sees[run[r].character] \in SUBSET Watched
      BY <2>0, <3>1 DEF ListRun
    <3>4. x \in ListRun /\ x.at = "reconciling"
      BY <3>3 DEF ListRun
    <3> HIDE DEF x
    <3> QED BY <2>0, <3>1, <3>2, <3>4, ListsKeptBy
  <2>4. ASSUME NEW from, NEW to \in {"cataloguing", "writing"}, Lists!Ask(r, from, to) PROVE ListsInv'
    <3>1. UNCHANGED <<holder, watch, sees, content>> /\ run[r] # NoRun
      BY <2>4 DEF Lists!Ask, Lists!OnlyRun, Lists!tables, Lists!world, Lists!At
    <3>2. CASE Lists!StillHolder(r)
      <4> DEFINE x == [run[r] EXCEPT !.at = to]
      <4>1. run' = [run EXCEPT ![r] = x]
        BY <2>4, <3>2 DEF Lists!Ask, ListsInv
      <4>2. late' = [late EXCEPT ![r] = 0]
        BY <2>4, <3>2 DEF Lists!Ask, Lists!StillHolder
      <4>3. x \in ListRun
        BY <2>0, <3>1 DEF ListRun
      <4> HIDE DEF x
      <4> QED BY <3>1, <4>1, <4>2, <4>3, ListsKeptBy
    <3>3. CASE ~Lists!StillHolder(r)
      <4>1. run' = [run EXCEPT ![r] = NoRun] /\ late' = [late EXCEPT ![r] = 0]
        BY <2>4, <3>3 DEF Lists!Ask, Lists!End
      <4> QED BY <3>1, <4>1, ListsKeptBy
    <3> QED BY <3>2, <3>3
  <2>5. CASE Lists!Reconcile(r)
    <3> DEFINE x == [run[r] EXCEPT !.at = "reading", !.todo = watch]
               n == IF holder = run[r].character THEN late[r] ELSE late[r] + 1
    <3>1. /\ run' = [run EXCEPT ![r] = x] /\ late' = [late EXCEPT ![r] = n] /\ UNCHANGED <<holder, watch, sees, content>>
          /\ Lists!At(r, "cataloguing") /\ run[r] # NoRun
      BY <2>5 DEF Lists!Reconcile, Lists!Wrote, Lists!world, Lists!At, ListsInv
    <3>2. n \in {0, 1}
      BY <3>1 DEF ListsInv
    <3>3. x \in ListRun /\ x.at = "reading"
      BY <2>0, <3>1 DEF ListRun
    <3> HIDE DEF x, n
    <3> QED BY <3>1, <3>2, <3>3, ListsKeptBy
  <2>6. CASE Lists!Write(r)
    <3> DEFINE l == CHOOSE l \in run[r].seen : TRUE
               x == [run[r] EXCEPT !.at = "reading", !.todo = @ \ {l}, !.seen = {}, !.reading = {}]
               n == IF holder = run[r].character THEN late[r] ELSE late[r] + 1
    <3>1. /\ run' = [run EXCEPT ![r].at = "reading", ![r].todo = @ \ {l}, ![r].seen = {}, ![r].reading = {}]
          /\ late' = [late EXCEPT ![r] = n] /\ UNCHANGED <<holder, watch, sees, content>>
          /\ Lists!At(r, "writing") /\ run[r] # NoRun
      BY <2>6 DEF Lists!Write, Lists!Wrote, Lists!world, Lists!At, ListsInv
    <3> HIDE DEF l
    <3>4. run' = [run EXCEPT ![r] = x]
      BY <3>1 DEF ListsInv
    <3>2. n \in {0, 1}
      BY <3>1 DEF ListsInv
    <3>3. x \in ListRun /\ x.at = "reading"
      BY <2>0, <3>1 DEF ListRun
    <3> HIDE DEF x, n
    <3> QED BY <3>1, <3>2, <3>3, <3>4, ListsKeptBy
  <2>7. ASSUME NEW l \in Watched, Lists!ReadList(r, l) PROVE ListsInv'
    <3>1. PICK status \in {"ok", "not_visible", "failed"} :
            /\ run' = [run EXCEPT ![r].at = "asking", ![r].status = status, ![r].seen = {l}, ![r].reading = content[l]]
            /\ late' = late /\ UNCHANGED <<holder, watch, sees, content>> /\ run[r] # NoRun
      BY <2>7 DEF Lists!ReadList, Lists!OnlyRun, Lists!tables, Lists!world, Lists!At
    <3> DEFINE x == [run[r] EXCEPT !.at = "asking", !.status = status, !.seen = {l}, !.reading = content[l]]
    <3>2. run' = [run EXCEPT ![r] = x]
      BY <3>1 DEF ListsInv
    <3>3. x \in ListRun /\ x.at = "asking"
      <4>1. run[r] \in ListRun /\ content[l] \in Contents
        BY <2>0, <3>1
      <4> QED BY <4>1 DEF ListRun
    <3> HIDE DEF x
    <3> QED BY <2>0, <3>1, <3>2, <3>3, ListsKeptBy
  <2>8. CASE Lists!AskReconcile(r)
    BY <2>4, <2>8 DEF Lists!AskReconcile
  <2>9. CASE Lists!AskWrite(r)
    BY <2>4, <2>9 DEF Lists!AskWrite
  <2> QED BY <1>6, <2>1, <2>2, <2>3, <2>5, <2>6, <2>7, <2>8, <2>9
<1> QED BY <1>1, <1>2, <1>3, <1>4, <1>5, <1>6 DEF Lists!Next

\* So no run has two.
LEMMA ListsHold == ASSUME ListsInv PROVE Lists!SupersededWritesOnce
BY DEF ListsInv, Lists!SupersededWritesOnce

-----------------------------------------------------------------------------
(* The location job and the pages. *)

\* The library's least and greatest, as the pages use them.
LEMMA EarliestIs ==
  ASSUME NEW S \in SUBSET Nat, NEW b \in S, \A x \in S : b <= x
  PROVE  Locations!Min(S) = b
<1> DEFINE m == CHOOSE x \in S : \A y \in S : x <= y
<1>1. m \in S /\ \A y \in S : m <= y
  OBVIOUS
<1>2. Locations!Min(S) = m
  BY DEF Locations!Min
<1> HIDE DEF m
<1> QED BY <1>1, <1>2

LEMMA LatestIs ==
  ASSUME NEW S \in SUBSET Nat, NEW b \in S, \A x \in S : b >= x
  PROVE  Locations!Max(S) = b
<1> DEFINE m == CHOOSE x \in S : \A y \in S : x >= y
<1>1. m \in S /\ \A y \in S : m >= y
  OBVIOUS
<1>2. Locations!Max(S) = m
  BY DEF Locations!Max
<1> HIDE DEF m
<1> QED BY <1>1, <1>2

CharRow == [status : {"valid", "needs_reauth", "invalid"}, scoped : BOOLEAN, dock : Docks \union {None},
            at : Nat \union {None}]
Errand == [stage : {"between", "asking", "storing", "denied"}, character : Pilots \union {None},
           dock : Docks \union {None}, todo : SUBSET Pilots]
LocationTypes ==
  /\ clock \in Nat /\ char \in [Pilots -> CharRow] /\ completed \in [Pilots -> Nat \union {None}]
  /\ errand \in [Locators -> Errand \union {NoRun}]
  /\ carried \in [Locators -> SUBSET Pilots] /\ refused \in SUBSET Pilots
  /\ \A r \in Locators : errand[r] # NoRun /\ errand[r].stage # "between" => errand[r].character \in Pilots
\* What was read of a character, and when, are one write.
ReadWhole == \A c \in Pilots : completed[c] = char[c].at /\ (char[c].at # None => char[c].at <= clock)
\* A verdict that may still fall is on a grant that was refused.
RefusedFirst ==
  \A r \in Locators : Locations!On(r, "denied") /\ errand[r].character \in carried[r] => errand[r].character \in refused
LocationInv == LocationTypes /\ ReadWhole /\ RefusedFirst /\ Locations!VerdictStands

\* The invariant of the location job holds at first.
LEMMA LocationsStart == ASSUME Locations!Init PROVE LocationInv
<1>1. /\ clock = 0 /\ errand = [r \in Locators |-> NoRun] /\ carried = [r \in Locators |-> {}]
      /\ char = [c \in Pilots |-> [status |-> "valid", scoped |-> TRUE, dock |-> None, at |-> None]]
      /\ refused = {} /\ completed = [c \in Pilots |-> None]
  BY DEF Locations!Init, Locations!NoDock
<1>2. LocationTypes
  BY <1>1 DEF LocationTypes, CharRow
<1>3. ReadWhole /\ RefusedFirst /\ Locations!VerdictStands
  BY <1>1 DEF ReadWhole, RefusedFirst, Locations!On, Locations!VerdictStands
<1> QED BY <1>2, <1>3 DEF LocationInv

\* One run goes on and nothing is written of a character.
LEMMA RunGoesOn ==
  ASSUME LocationInv, NEW r \in Locators, NEW x \in Errand \union {NoRun}, errand' = [errand EXCEPT ![r] = x],
         carried' \in [Locators -> SUBSET Pilots], \A q \in Locators : q # r => carried'[q] \subseteq carried[q],
         UNCHANGED <<clock, char, completed>>, refused \subseteq refused', refused' \subseteq Pilots,
         x # NoRun /\ x.stage # "between" => x.character \in Pilots,
         x # NoRun /\ x.stage = "denied" /\ x.character \in carried'[r] => x.character \in refused'
  PROVE  LocationInv'
<1> USE DEF LocationInv, LocationTypes
<1>1. errand' \in [Locators -> Errand \union {NoRun}]
  OBVIOUS
<1>2. ASSUME NEW q \in Locators
      PROVE  /\ errand'[q] # NoRun /\ errand'[q].stage # "between" => errand'[q].character \in Pilots
             /\ Locations!On(q, "denied")' /\ errand'[q].character \in carried'[q] => errand'[q].character \in refused'
  <2>1. CASE q = r
    BY <2>1 DEF Locations!On
  <2>2. CASE q # r
    <3>1. errand'[q] = errand[q] /\ carried'[q] \subseteq carried[q]
      BY <2>2
    <3>2. errand[q] # NoRun /\ errand[q].stage = "denied" /\ errand[q].character \in carried[q] => errand[q].character \in refused
      BY DEF RefusedFirst, Locations!On
    <3> QED BY <3>1, <3>2 DEF Locations!On
  <2> QED BY <2>1, <2>2
<1>3. LocationTypes'
  BY <1>1, <1>2
<1>4. ReadWhole'
  BY DEF ReadWhole
<1>5. RefusedFirst'
  BY <1>2 DEF RefusedFirst
<1>6. Locations!VerdictStands'
  BY DEF Locations!VerdictStands
<1> QED BY <1>3, <1>4, <1>5, <1>6

\* A run leaves a character, whose row is written.
LEMMA RowIsWritten ==
  ASSUME LocationInv, NEW r \in Locators, NEW x \in Errand \union {NoRun}, errand' = [errand EXCEPT ![r] = x],
         carried' \in [Locators -> SUBSET Pilots], \A q \in Locators : carried'[q] \subseteq carried[q],
         x # NoRun => x.stage = "between", UNCHANGED <<clock, refused>>,
         NEW c \in Pilots, NEW w \in CharRow, char' = [char EXCEPT ![c] = w], NEW t \in Nat \union {None},
         completed' = [completed EXCEPT ![c] = t], t = w.at, t # None => t <= clock,
         w.status = "needs_reauth" /\ w.scoped => c \in refused
  PROVE  LocationInv'
<1> USE DEF LocationInv, LocationTypes
<1>1. errand' \in [Locators -> Errand \union {NoRun}] /\ char' \in [Pilots -> CharRow] /\ completed' \in [Pilots -> Nat \union {None}]
  OBVIOUS
<1>2. ASSUME NEW q \in Locators
      PROVE  /\ errand'[q] # NoRun /\ errand'[q].stage # "between" => errand'[q].character \in Pilots
             /\ Locations!On(q, "denied")' /\ errand'[q].character \in carried'[q] => errand'[q].character \in refused'
  <2>1. CASE q = r
    BY <2>1 DEF Locations!On
  <2>2. CASE q # r
    <3>1. errand'[q] = errand[q] /\ carried'[q] \subseteq carried[q]
      BY <2>2
    <3>2. errand[q] # NoRun /\ errand[q].stage = "denied" /\ errand[q].character \in carried[q] => errand[q].character \in refused
      BY DEF RefusedFirst, Locations!On
    <3> QED BY <3>1, <3>2 DEF Locations!On
  <2> QED BY <2>1, <2>2
<1>3. LocationTypes'
  BY <1>1, <1>2
<1>4. ReadWhole'
  <2>1. ASSUME NEW d \in Pilots PROVE completed'[d] = char'[d].at /\ (char'[d].at # None => char'[d].at <= clock)
    <3>1. CASE d = c
      BY <3>1
    <3>2. CASE d # c
      BY <3>2 DEF ReadWhole
    <3> QED BY <3>1, <3>2
  <2> QED BY <2>1 DEF ReadWhole
<1>5. RefusedFirst'
  BY <1>2 DEF RefusedFirst
<1>6. Locations!VerdictStands'
  <2>1. ASSUME NEW d \in Pilots, char'[d].status = "needs_reauth", char'[d].scoped PROVE d \in refused
    <3>1. CASE d = c
      BY <2>1, <3>1
    <3>2. CASE d # c
      BY <2>1, <3>2 DEF Locations!VerdictStands
    <3> QED BY <3>1, <3>2
  <2> QED BY <2>1 DEF Locations!VerdictStands
<1> QED BY <1>3, <1>4, <1>5, <1>6

\* Every step of a run keeps it,
LEMMA RunKept ==
  ASSUME LocationInv, NEW r \in Locators,
         \/ Locations!Begin(r) \/ Locations!End(r) \/ Locations!Store(r) \/ Locations!ReadFails(r) \/ Locations!Refused(r)
         \/ Locations!DecideReauth(r)
         \/ \E c \in Pilots : Locations!NoToken(r, c) \/ Locations!TokenDead(r, c) \/ Locations!GetFreshAccessToken(r, c)
         \/ \E dock \in Docks \union {None}, answered \in BOOLEAN : Locations!Located(r, dock, answered)
  PROVE  LocationInv'
<1>0. /\ LocationTypes /\ errand[r] \in Errand \union {NoRun} /\ carried[r] \in SUBSET Pilots /\ refused \in SUBSET Pilots
      /\ carried \in [Locators -> SUBSET Pilots]
  BY DEF LocationInv, LocationTypes
<1>1. CASE Locations!Begin(r)
  <2> DEFINE S == {c \in Pilots : Locations!CanReadLocation(c)}
             x == [stage |-> "between", character |-> None, dock |-> None, todo |-> S]
  <2>1. /\ errand' = [errand EXCEPT ![r] = x] /\ carried' = [carried EXCEPT ![r] = S]
        /\ UNCHANGED <<clock, char, completed, refused>>
    BY <1>1 DEF Locations!Begin, Locations!others, Locations!NoDock
  <2>2. S \in SUBSET Pilots
    OBVIOUS
  <2> HIDE DEF S
  <2>3. x \in Errand /\ x.stage = "between"
    BY <2>2 DEF Errand
  <2> HIDE DEF x
  <2>4. carried' \in [Locators -> SUBSET Pilots] /\ \A q \in Locators : q # r => carried'[q] \subseteq carried[q]
    BY <1>0, <2>1, <2>2
  <2> QED BY <1>0, <2>1, <2>3, <2>4, RunGoesOn
<1>2. CASE Locations!End(r)
  <2>1. /\ errand' = [errand EXCEPT ![r] = NoRun] /\ carried' = [carried EXCEPT ![r] = {}]
        /\ UNCHANGED <<clock, char, completed, refused>>
    BY <1>2 DEF Locations!End, Locations!others
  <2>4. carried' \in [Locators -> SUBSET Pilots] /\ \A q \in Locators : q # r => carried'[q] \subseteq carried[q]
    BY <1>0, <2>1
  <2> QED BY <1>0, <2>1, <2>4, RunGoesOn
<1> DEFINE c0 == errand[r].character
           left == [errand[r] EXCEPT !.stage = "between", !.character = None, !.dock = None]
<1>3. ASSUME Locations!Leaves(r), errand[r] # NoRun
      PROVE  /\ errand' = [errand EXCEPT ![r] = left] /\ carried' = [carried EXCEPT ![r] = carried[r] \ {c0}]
             /\ left \in Errand /\ left.stage = "between"
             /\ carried' \in [Locators -> SUBSET Pilots] /\ \A q \in Locators : carried'[q] \subseteq carried[q]
  <2>1. errand' = [errand EXCEPT ![r] = left]
    BY <1>0, <1>3 DEF Locations!Leaves, Locations!NoDock, LocationTypes
  <2>2. carried' = [carried EXCEPT ![r] = carried[r] \ {c0}]
    BY <1>0, <1>3 DEF Locations!Leaves, Locations!Drops, Locations!Of
  <2>3. left \in Errand /\ left.stage = "between"
    BY <1>0, <1>3 DEF Errand
  <2>4. carried' \in [Locators -> SUBSET Pilots] /\ \A q \in Locators : carried'[q] \subseteq carried[q]
    BY <1>0, <2>2
  <2> QED BY <2>1, <2>2, <2>3, <2>4
<1>4. ASSUME Locations!On(r, "storing") \/ Locations!On(r, "denied") \/ Locations!On(r, "asking")
      PROVE  errand[r] # NoRun /\ errand[r] \in Errand /\ c0 \in Pilots
  BY <1>0, <1>4 DEF Locations!On, LocationTypes
<1>5. ASSUME NEW c \in Pilots
      PROVE  /\ char[c] \in CharRow /\ completed[c] = char[c].at /\ (char[c].at # None => char[c].at <= clock)
             /\ char[c].at \in Nat \union {None} /\ completed = [completed EXCEPT ![c] = char[c].at]
             /\ (char[c].status = "needs_reauth" /\ char[c].scoped => c \in refused)
  BY DEF LocationInv, LocationTypes, ReadWhole, CharRow, Locations!VerdictStands
<1> HIDE DEF left
<1>6. CASE Locations!Store(r)
  <2> DEFINE w == [char[c0] EXCEPT !.dock = errand[r].dock, !.at = clock]
  <2>1. /\ char' = [char EXCEPT ![c0] = w] /\ completed' = [completed EXCEPT ![c0] = clock]
        /\ UNCHANGED <<clock, refused>> /\ Locations!Leaves(r) /\ Locations!On(r, "storing")
    BY <1>0, <1>6 DEF Locations!Store, Locations!others, Locations!Of, LocationTypes
  <2>2. c0 \in Pilots /\ errand[r] # NoRun /\ errand[r].dock \in Docks \union {None}
    BY <1>4, <2>1 DEF Errand
  <2>3. w \in CharRow /\ w.at = clock /\ w.status = char[c0].status /\ w.scoped = char[c0].scoped
    <3>1. char[c0] \in CharRow /\ clock \in Nat
      BY <1>0, <2>2 DEF LocationTypes
    <3> QED BY <2>2, <3>1 DEF CharRow
  <2>4. clock \in Nat /\ clock <= clock
    BY <1>0 DEF LocationTypes
  <2> HIDE DEF w, c0
  <2>5. w.status = "needs_reauth" /\ w.scoped => c0 \in refused
    BY <1>5, <2>2, <2>3
  <2>6. /\ errand' = [errand EXCEPT ![r] = left]
        /\ left \in Errand /\ left.stage = "between"
        /\ carried' \in [Locators -> SUBSET Pilots] /\ \A q \in Locators : carried'[q] \subseteq carried[q]
    BY <1>3, <2>1, <2>2
  <2> QED BY <2>1, <2>2, <2>3, <2>4, <2>5, <2>6, RowIsWritten
<1>7. CASE Locations!ReadFails(r)
  <2>1. /\ UNCHANGED <<clock, char, completed, refused>> /\ Locations!Leaves(r) /\ Locations!On(r, "asking")
    BY <1>7 DEF Locations!ReadFails, Locations!others
  <2>2. errand[r] # NoRun
    BY <1>4, <2>1
  <2> HIDE DEF c0
  <2> QED BY <1>0, <1>3, <2>1, <2>2, RunGoesOn
<1>8. CASE Locations!Refused(r)
  <2> DEFINE x == [errand[r] EXCEPT !.stage = "denied"]
  <2>1. /\ UNCHANGED <<clock, char, completed, carried>> /\ Locations!On(r, "asking")
        /\ refused' = IF c0 \in carried[r] THEN refused \union {c0} ELSE refused
    BY <1>8 DEF Locations!Refused, Locations!others, Locations!Of
  <2>2. errand[r] # NoRun /\ errand[r] \in Errand /\ c0 \in Pilots
    BY <1>4, <2>1
  <2>3. errand' = [errand EXCEPT ![r] = x]
    BY <1>0, <1>8 DEF Locations!Refused, Locations!Goes, LocationTypes
  <2>4. x \in Errand /\ x.character = c0
    BY <2>2 DEF Errand
  <2> HIDE DEF x
  <2>5. refused \subseteq refused' /\ refused' \subseteq Pilots
    BY <1>0, <2>1, <2>2
  <2>6. x.character \in carried'[r] => x.character \in refused'
    BY <2>1, <2>4
  <2>7. carried' \in [Locators -> SUBSET Pilots] /\ \A q \in Locators : q # r => carried'[q] \subseteq carried[q]
    BY <1>0, <2>1
  <2> HIDE DEF c0
  <2> QED BY <2>1, <2>2, <2>3, <2>4, <2>5, <2>6, <2>7, RunGoesOn
<1>9. CASE Locations!DecideReauth(r)
  <2>1. /\ UNCHANGED <<clock, completed, refused>> /\ Locations!Leaves(r) /\ Locations!On(r, "denied")
    BY <1>9 DEF Locations!DecideReauth, Locations!others
  <2>2. errand[r] # NoRun /\ c0 \in Pilots
    BY <1>4, <2>1
  <2>6. /\ errand' = [errand EXCEPT ![r] = left]
        /\ left \in Errand /\ left.stage = "between"
        /\ carried' \in [Locators -> SUBSET Pilots] /\ \A q \in Locators : carried'[q] \subseteq carried[q]
    BY <1>3, <2>1, <2>2
  <2>3. CASE c0 \notin carried[r]
    <3>1. char' = char
      BY <1>9, <2>3 DEF Locations!DecideReauth, Locations!Of
    <3> HIDE DEF c0
    <3> QED BY <1>0, <2>1, <2>6, <3>1, RunGoesOn
  <2>4. CASE c0 \in carried[r]
    <3> DEFINE w == [char[c0] EXCEPT !.status = "needs_reauth"]
    <3>1. char' = [char EXCEPT ![c0] = w]
      BY <1>0, <1>9, <2>4 DEF Locations!DecideReauth, Locations!Of, LocationTypes
    <3>2. w \in CharRow /\ w.at = char[c0].at
      <4>1. char[c0] \in CharRow
        BY <1>5, <2>2
      <4> QED BY <4>1 DEF CharRow
    <3>3. c0 \in refused
      BY <2>1, <2>4 DEF LocationInv, RefusedFirst
    <3> HIDE DEF w, c0
    <3>4. completed' = [completed EXCEPT ![c0] = char[c0].at] /\ char[c0].at \in Nat \union {None}
          /\ (char[c0].at # None => char[c0].at <= clock)
      BY <1>5, <2>1, <2>2
    <3> QED BY <2>1, <2>2, <2>6, <3>1, <3>2, <3>3, <3>4, RowIsWritten
  <2> QED BY <2>3, <2>4
<1>10. ASSUME NEW c \in Pilots, Locations!Skips(r, c)
       PROVE  \E x \in Errand : /\ errand' = [errand EXCEPT ![r] = x] /\ x.stage = "between" 
                                /\ carried' \in [Locators -> SUBSET Pilots] /\ \A q \in Locators : carried'[q] \subseteq carried[q]
  <2> DEFINE x == [errand[r] EXCEPT !.todo = @ \ {c}]
  <2>1. errand[r] # NoRun /\ errand[r].stage = "between" /\ carried' = [carried EXCEPT ![r] = carried[r] \ {c}]
    BY <1>0, <1>10 DEF Locations!Skips, Locations!On, Locations!Drops
  <2>2. errand' = [errand EXCEPT ![r] = x]
    BY <1>0, <1>10 DEF Locations!Skips, LocationTypes
  <2>3. x \in Errand /\ x.stage = "between"
    BY <1>0, <2>1 DEF Errand
  <2> HIDE DEF x
  <2>4. carried' \in [Locators -> SUBSET Pilots] /\ \A q \in Locators : carried'[q] \subseteq carried[q]
    BY <1>0, <2>1
  <2> QED BY <2>2, <2>3, <2>4
<1>11. ASSUME NEW c \in Pilots, Locations!NoToken(r, c) PROVE LocationInv'
  <2>1. Locations!Skips(r, c) /\ UNCHANGED <<clock, char, completed, refused>>
    BY <1>11 DEF Locations!NoToken, Locations!others
  <2> QED BY <1>0, <1>10, <2>1, RunGoesOn
<1>12. ASSUME NEW c \in Pilots, Locations!TokenDead(r, c) PROVE LocationInv'
  <2> DEFINE w == [char[c] EXCEPT !.status = "invalid"]
  <2>1. Locations!Skips(r, c) /\ UNCHANGED <<clock, completed, refused>> /\ char' = [char EXCEPT ![c] = w]
    BY <1>0, <1>12 DEF Locations!TokenDead, Locations!others, LocationTypes
  <2>2. w \in CharRow /\ w.at = char[c].at /\ w.status = "invalid"
    BY <1>5 DEF CharRow
  <2> HIDE DEF w
  <2>3. completed' = [completed EXCEPT ![c] = char[c].at] /\ char[c].at \in Nat \union {None}
        /\ (char[c].at # None => char[c].at <= clock)
    BY <1>5, <2>1
  <2>4. PICK x \in Errand : /\ errand' = [errand EXCEPT ![r] = x] /\ x.stage = "between"
                           /\ carried' \in [Locators -> SUBSET Pilots] /\ \A q \in Locators : carried'[q] \subseteq carried[q]
    BY <1>10, <2>1
  <2>5. (x # NoRun => x.stage = "between") /\ (w.status = "needs_reauth" /\ w.scoped => c \in refused)
    BY <2>2, <2>4
  <2> DEFINE t == char[c].at
  <2>6. t \in Nat \union {None} /\ completed' = [completed EXCEPT ![c] = t] /\ t = w.at /\ (t # None => t <= clock)
    BY <2>2, <2>3
  <2> HIDE DEF c0, t
  <2>7. errand' = [errand EXCEPT ![r] = x] /\ x \in Errand \union {NoRun} /\ char' = [char EXCEPT ![c] = w] /\ w \in CharRow
        /\ UNCHANGED <<clock, refused>>
        /\ carried' \in [Locators -> SUBSET Pilots] /\ \A q \in Locators : carried'[q] \subseteq carried[q]
    BY <2>1, <2>2, <2>4
  <2> QED BY <2>5, <2>6, <2>7, RowIsWritten
<1>13. ASSUME NEW c \in Pilots, Locations!GetFreshAccessToken(r, c) PROVE LocationInv'
  <2> DEFINE x == [stage |-> "asking", character |-> c, dock |-> None, todo |-> errand[r].todo \ {c}]
  <2>1. /\ errand' = [errand EXCEPT ![r] = x] /\ UNCHANGED <<clock, char, completed, refused>>
        /\ carried' = [q \in Locators |-> IF q = r THEN carried[q] ELSE carried[q] \ {c}] /\ errand[r] # NoRun
    BY <1>13 DEF Locations!GetFreshAccessToken, Locations!others, Locations!NoDock, Locations!On
  <2>2. errand[r].todo \in SUBSET Pilots
    BY <1>0, <2>1 DEF Errand
  <2>3. x \in Errand /\ x.stage = "asking" /\ x.character = c
    BY <2>2 DEF Errand
  <2> HIDE DEF x
  <2>4. carried' \in [Locators -> SUBSET Pilots] /\ \A q \in Locators : q # r => carried'[q] \subseteq carried[q]
    BY <1>0, <2>1
  <2> QED BY <1>0, <2>1, <2>3, <2>4, RunGoesOn
<1>14. ASSUME NEW dock \in Docks \union {None}, NEW answered \in BOOLEAN, Locations!Located(r, dock, answered)
       PROVE  LocationInv'
  <2> DEFINE x == [errand[r] EXCEPT !.stage = "storing", !.dock = dock]
  <2>1. UNCHANGED <<clock, char, completed, refused, carried>> /\ Locations!On(r, "asking")
    BY <1>14 DEF Locations!Located, Locations!others
  <2>2. errand' = [errand EXCEPT ![r] = x]
    BY <1>0, <1>14 DEF Locations!Located, LocationTypes
  <2>3. errand[r] \in Errand /\ c0 \in Pilots
    BY <1>4, <2>1
  <2>4. x \in Errand /\ x.stage = "storing" /\ x.character = c0
    BY <2>3 DEF Errand
  <2> HIDE DEF x, c0
  <2>5. carried' \in [Locators -> SUBSET Pilots] /\ \A q \in Locators : q # r => carried'[q] \subseteq carried[q]
    BY <1>0, <2>1
  <2> QED BY <1>0, <2>1, <2>2, <2>3, <2>4, <2>5, RunGoesOn
<1> QED BY <1>1, <1>2, <1>6, <1>7, <1>8, <1>9, <1>11, <1>12, <1>13, <1>14

\* and so do members and time.
LEMMA LocationsKept == ASSUME LocationInv, Locations!Next PROVE LocationInv'
<1>1. ASSUME NEW c \in Pilots, NEW scoped \in BOOLEAN, Locations!Regrant(c, scoped) PROVE LocationInv'
  <2> DEFINE w == [char[c] EXCEPT !.status = IF scoped THEN "valid" ELSE "needs_reauth", !.scoped = scoped]
  <2> USE DEF LocationInv, LocationTypes
  <2>1. /\ char' = [char EXCEPT ![c] = w] /\ carried' = [r \in Locators |-> carried[r] \ {c}]
        /\ refused' = refused \ {c} /\ UNCHANGED <<clock, errand, completed>>
    BY <1>1 DEF Locations!Regrant
  <2>2. w \in CharRow /\ w.at = char[c].at /\ w.scoped = scoped /\ (scoped => w.status = "valid")
    <3>1. char[c] \in CharRow
      OBVIOUS
    <3> QED BY <3>1 DEF CharRow
  <2> HIDE DEF w
  <2>3. LocationTypes'
    BY <2>1, <2>2
  <2>4. ReadWhole'
    BY <2>1, <2>2 DEF ReadWhole
  <2>5. RefusedFirst'
    BY <2>1 DEF RefusedFirst, Locations!On
  <2>6. Locations!VerdictStands'
    <3>1. ASSUME NEW d \in Pilots, char'[d].status = "needs_reauth", char'[d].scoped PROVE d \in refused'
      <4>1. CASE d = c
        BY <2>1, <2>2, <3>1, <4>1
      <4>2. CASE d # c
        BY <2>1, <3>1, <4>2 DEF Locations!VerdictStands
      <4> QED BY <4>1, <4>2
    <3> QED BY <3>1 DEF Locations!VerdictStands
  <2> QED BY <2>3, <2>4, <2>5, <2>6
<1>2. CASE Locations!Tick
  <2> USE DEF LocationInv, LocationTypes
  <2>1. clock' = clock + 1 /\ UNCHANGED <<char, errand, carried, refused, completed>>
    BY <1>2 DEF Locations!Tick
  <2>2. ReadWhole'
    <3>1. ASSUME NEW c \in Pilots, char[c].at # None PROVE char[c].at <= clock + 1
      <4>1. char[c] \in CharRow
        OBVIOUS
      <4>2. char[c].at \in Nat /\ char[c].at <= clock
        BY <3>1, <4>1 DEF CharRow, ReadWhole
      <4> QED BY <4>2
    <3> QED BY <2>1, <3>1 DEF ReadWhole
  <2>3. LocationTypes' /\ RefusedFirst' /\ Locations!VerdictStands'
    BY <2>1 DEF RefusedFirst, Locations!On, Locations!VerdictStands
  <2> QED BY <2>2, <2>3
<1> QED BY <1>1, <1>2, RunKept DEF Locations!Next, Locations!NoDock

\* The time a page gives is of none of its rows too young.
LEMMA AsOfHolds == ASSUME LocationInv PROVE Locations!AsOfIsHonest
<1> SUFFICES ASSUME NEW shown \in SUBSET Pilots, NEW c \in shown, char[c].at # None
             PROVE  LET p == [rows |-> [d \in shown |-> char[d]]] IN
                    /\ completed[c] # None /\ Locations!AsOf(p) <= completed[c]
                    /\ completed[c] + Cadence < Locations!Max(Locations!Times(p)) => Locations!Stale(p, c)
  BY DEF Locations!AsOfIsHonest
<1> DEFINE p == [rows |-> [d \in shown |-> char[d]]]
           T == Locations!Times(p)
<1>1. T = {char[d].at : d \in {e \in shown : char[e].at # None}}
  BY DEF Locations!Times, Locations!Rows
<1>2. ASSUME NEW d \in shown, char[d].at # None PROVE char[d].at \in Nat /\ char[d].at <= clock
  <2>1. char[d] \in CharRow
    BY DEF LocationInv, LocationTypes
  <2> QED BY <1>2, <2>1 DEF CharRow, LocationInv, ReadWhole
<1>3. p.rows[c] = char[c]
  OBVIOUS
<1>4. completed[c] = char[c].at /\ clock \in Nat
  BY DEF LocationInv, LocationTypes, ReadWhole
<1>5. Locations!AsOf(p) = (IF T = {} THEN None ELSE Locations!Min(T))
      /\ (Locations!Stale(p, c) <=> p.rows[c].at # None /\ Locations!Max(T) - p.rows[c].at > Cadence)
  BY DEF Locations!AsOf, Locations!Stale
<1> DEFINE t == char[c].at
<1>6. t \in T /\ T \in SUBSET Nat /\ \A x \in T : x <= clock
  BY <1>1, <1>2
<1> HIDE DEF T
<1>7. PICK lo \in T : \A x \in T : lo <= x
  BY <1>6, LeastOf
<1>8. PICK hi \in T : \A x \in T : hi >= x
  BY <1>4, <1>6, GreatestOf
<1>9. Locations!Min(T) = lo /\ Locations!Max(T) = hi
  BY <1>6, <1>7, <1>8, EarliestIs, LatestIs
<1>10. Cadence \in Nat /\ lo \in Nat /\ hi \in Nat /\ t \in Nat /\ lo <= t /\ t # None
  BY <1>6, <1>7, PeriodsAssumption
<1>11. T # {} /\ p.rows[c].at = t /\ completed[c] = t
  BY <1>3, <1>4, <1>6
<1> HIDE DEF p, t
<1>12. completed[c] + Cadence < hi => hi - t > Cadence
  BY <1>10, <1>11
<1>13. /\ completed[c] # None /\ Locations!AsOf(p) <= completed[c]
       /\ completed[c] + Cadence < Locations!Max(T) => Locations!Stale(p, c)
  BY <1>5, <1>9, <1>10, <1>11, <1>12
<1> QED BY <1>13 DEF p, T

\* Whatever the rows, the tier, the results and the times of a page are, its
\* headline, the texts under its rows and the admins' list agree.
THEOREM HeadlineOfAnyPage ==
  ASSUME NEW p, NEW S, NEW R, p.rows \in [S -> R], \A c \in S : p.rows[c].scoped \in BOOLEAN /\ p.rows[c].gone \in BOOLEAN,
         \A c \in S : p.rows[c].status \in {"valid", "needs_reauth", "invalid", "missing"},
         p.linked \in BOOLEAN, p.pushed \in Nat \union {None}, p.shown \in Nat
  PROVE  Locations!HeadlineAgrees(p)
<1> USE DEF Locations!Rows
<1>0. DOMAIN p.rows = S
  OBVIOUS
<1>1. ASSUME NEW c \in S
      PROVE  Locations!NeedsAttention(p, c) <=>
               Locations!RemedyAsks(p, c) = "the member" \/ c \in Locations!Dead(p) \union Locations!NeedsReauth(p)
  <2>1. p.rows[c].status # "valid" \/ ~p.rows[c].scoped <=> c \in Locations!Dead(p) \union Locations!NeedsReauth(p)
    BY <1>0 DEF Locations!Dead, Locations!NeedsReauth
  <2>2. Locations!RemedyAsks(p, c) = "the member" <=> Locations!IsContactsTarget(p, c) /\ p.result[c] \in Locations!MemberFixable
    <3> DEFINE x == p.result[c]
    <3>1. None \notin Locations!MemberFixable
      BY NoneAssumption
    <3>2. x \in Locations!MemberFixable <=> \/ x \in {"missing_label", "label_mismatch"}
                                           \/ x \in {"token_invalid", "missing_scope", "needs_reauth"}
      BY DEF Locations!MemberFixable
    <3>3. "ok" \notin Locations!MemberFixable
      BY DEF Locations!MemberFixable
    <3>4. Locations!HasContactRemedy(p, c) <=> Locations!IsContactsTarget(p, c) /\ x \notin {None, "ok"}
      BY DEF Locations!HasContactRemedy
    <3>5. Locations!RemedyAsks(p, c) =
            IF ~Locations!HasContactRemedy(p, c) THEN "nobody"
            ELSE CASE x \in {"missing_label", "label_mismatch"} -> "the member"
                   [] x \in {"token_invalid", "missing_scope", "needs_reauth"} -> "the member"
                   [] x \in {"token_refresh_failed", "sync_failed"} -> "nobody"
                   [] OTHER -> "an admin"
      BY DEF Locations!RemedyAsks
    <3> HIDE DEF x
    <3>6. Locations!RemedyAsks(p, c) = "the member" <=> Locations!IsContactsTarget(p, c) /\ x \in Locations!MemberFixable
      <4>1. CASE x \in Locations!MemberFixable
        BY <3>1, <3>2, <3>3, <3>4, <3>5, <4>1
      <4>2. CASE x \notin Locations!MemberFixable
        BY <3>2, <3>4, <3>5, <4>2
      <4> QED BY <4>1, <4>2
    <3> QED BY <3>6 DEF x
  <2> QED BY <2>1, <2>2 DEF Locations!NeedsAttention
<1>2. Locations!Verdict(p) = "degraded" <=> \E c \in S : Locations!NeedsAttention(p, c)
  BY <1>0 DEF Locations!Verdict
<1>3. ASSUME Locations!Verdict(p) \in {"nominal", "first-sync-pending"}
      PROVE  /\ \A c \in S : ~Locations!NeedsAttention(p, c) /\ ~Locations!IsStalled(p, c)
             /\ ~Locations!DiscordStale(p)
  BY <1>0, <1>3 DEF Locations!Verdict
<1>4. ASSUME Locations!Verdict(p) \in {"nominal", "first-sync-pending"}
      PROVE  \A c \in S : ~Locations!HasContactRemedy(p, c)
  BY <1>3, <1>4 DEF Locations!IsStalled, Locations!HasContactRemedy
<1>5. ASSUME Locations!Verdict(p) \in {"nominal", "first-sync-pending"}, p.linked, p.pushed # None
      PROVE  p.pushed + PushDue >= p.shown
  <2>1. ~(p.shown - p.pushed > PushDue)
    BY <1>3, <1>5 DEF Locations!DiscordStale
  <2>2. p.pushed \in Nat /\ PushDue \in Nat
    BY <1>5, PeriodsAssumption
  <2> QED BY <2>1, <2>2
<1>6. ASSUME Locations!Verdict(p) \in {"nominal", "first-sync-pending"}
      PROVE  Locations!TokenTone(p) \in {"ok", "off"}
  <2>1. Locations!Dead(p) \union Locations!NeedsReauth(p) = {} /\ Locations!Dead(p) = {}
    <3>1. \A c \in S : c \notin Locations!Dead(p) \union Locations!NeedsReauth(p)
      BY <1>1, <1>3, <1>6
    <3> QED BY <1>0, <3>1 DEF Locations!Dead, Locations!NeedsReauth
  <2>2. Locations!Healthy(p) = S
    BY <1>0, <2>1 DEF Locations!Healthy
  <2> QED BY <1>0, <2>1, <2>2 DEF Locations!TokenTone
<1> QED BY <1>0, <1>1, <1>2, <1>4, <1>5, <1>6 DEF Locations!HeadlineAgrees

-----------------------------------------------------------------------------
(* The audit log and its filter. *)

\* The library's cardinality and least, as the log uses them.
LEMMA SameCount == ASSUME NEW S PROVE Log!Cardinality(S) = Cardinality(S)
BY DEF Log!Cardinality, Cardinality, Log!IsFiniteSet, IsFiniteSet

LEMMA LowestIs ==
  ASSUME NEW S \in SUBSET Nat, NEW b \in S, \A x \in S : b <= x
  PROVE  Log!Min(S) = b
<1> DEFINE m == CHOOSE x \in S : \A y \in S : x <= y
<1>1. m \in S /\ \A y \in S : m <= y
  OBVIOUS
<1>2. Log!Min(S) = m
  BY DEF Log!Min
<1> HIDE DEF m
<1> QED BY <1>1, <1>2

Kinds == {"account", "character", "discord", "payout", "payout.deleted"}
AuditRow == [actor : Members \union {Log!System}, kind : Kinds, target : Members \union Pilots \union Users \union Operations,
             name : Names \union {None}]
TargetFits(r) ==
  /\ r.kind = "account" => r.target \in Members
  /\ r.kind = "character" => r.target \in Pilots
  /\ r.kind = "discord" => r.target \in Users
  /\ r.kind \in {"payout", "payout.deleted"} => r.target \in Operations
LogTypes ==
  /\ owner \in [Pilots -> Members \union {None}] /\ named \in [Pilots -> Names]
  /\ main \in [Members -> Pilots \union {None}] /\ link \in [Users -> Members \union {None}]
  /\ operation \in [Operations -> Names \union {None}]
  /\ log \in Seq(AuditRow) /\ \A i \in DOMAIN log : TargetFits(log[i])
\* A main is a character of its account.
MainsAreOwn == \A a \in Members : main[a] # None => owner[main[a]] = a
\* What is deleted has no row any more, and one name.
DeletedOnce ==
  /\ \A i \in DOMAIN log : log[i].kind = "payout.deleted" => log[i].name # None /\ operation[log[i].target] = None
  /\ \A i, k \in DOMAIN log : log[i].kind = "payout.deleted" /\ log[k].kind = "payout.deleted" /\ log[i].target = log[k].target
                              => log[i].name = log[k].name
LogInv == LogTypes /\ MainsAreOwn /\ DeletedOnce

\* The invariant of the log holds at first.
LEMMA LogStarts == ASSUME Log!Init PROVE LogInv
<1>1. /\ owner \in [Pilots -> Members \union {None}] /\ named \in [Pilots -> Names] /\ main = [a \in Members |-> None]
      /\ link = [u \in Users |-> None] /\ operation = [o \in Operations |-> None] /\ log = << >>
  BY DEF Log!Init
<1> QED BY <1>1 DEF LogInv, LogTypes, MainsAreOwn, DeletedOnce

\* A row is written that deletes nothing, or the first of its operation that does.
LEMMA RowAdded ==
  ASSUME LogInv, NEW r \in AuditRow, TargetFits(r), log' = Append(log, r), UNCHANGED <<owner, named, main, link>>,
         operation' \in [Operations -> Names \union {None}],
         \A o \in Operations : operation[o] = None => operation'[o] = None,
         r.kind = "payout.deleted" => /\ r.name # None /\ operation'[r.target] = None /\ operation[r.target] # None
  PROVE  LogInv'
<1> USE DEF LogInv, LogTypes
<1>1. log' \in Seq(AuditRow) /\ DOMAIN log' = 1..Len(log) + 1 /\ DOMAIN log = 1..Len(log) /\ Len(log) \in Nat
  OBVIOUS
<1>2. ASSUME NEW i \in DOMAIN log' PROVE (i \in DOMAIN log /\ log'[i] = log[i]) \/ log'[i] = r
  BY <1>1
<1>3. ASSUME NEW i \in DOMAIN log PROVE log[i] \in AuditRow /\ TargetFits(log[i])
  BY <1>1
<1>4. LogTypes'
  <2>1. ASSUME NEW i \in DOMAIN log' PROVE TargetFits(log'[i])
    BY <1>2, <1>3
  <2> QED BY <1>1, <2>1 DEF TargetFits
<1>5. MainsAreOwn'
  BY DEF MainsAreOwn
<1>6. ASSUME NEW i \in DOMAIN log', log'[i].kind = "payout.deleted"
      PROVE  log'[i].name # None /\ operation'[log'[i].target] = None
  <2>1. CASE log'[i] = r
    BY <1>6, <2>1
  <2>2. CASE i \in DOMAIN log /\ log'[i] = log[i]
    <3>1. log[i].name # None /\ operation[log[i].target] = None /\ log[i].target \in Operations
      BY <1>3, <1>6, <2>2 DEF DeletedOnce, TargetFits
    <3> QED BY <2>2, <3>1
  <2> QED BY <1>2, <2>1, <2>2
<1>7. ASSUME NEW i \in DOMAIN log, log[i].kind = "payout.deleted", r.kind = "payout.deleted" PROVE log[i].target # r.target
  BY <1>7 DEF DeletedOnce
<1>8. ASSUME NEW i \in DOMAIN log', NEW k \in DOMAIN log', log'[i].kind = "payout.deleted", log'[k].kind = "payout.deleted",
             log'[i].target = log'[k].target
      PROVE  log'[i].name = log'[k].name
  <2>1. CASE log'[i] = r /\ log'[k] = r
    BY <2>1
  <2>2. CASE log'[i] = r /\ k \in DOMAIN log /\ log'[k] = log[k]
    BY <1>7, <1>8, <2>2
  <2>3. CASE log'[k] = r /\ i \in DOMAIN log /\ log'[i] = log[i]
    BY <1>7, <1>8, <2>3
  <2>4. CASE i \in DOMAIN log /\ log'[i] = log[i] /\ k \in DOMAIN log /\ log'[k] = log[k]
    BY <1>8, <2>4 DEF DeletedOnce
  <2> QED BY <1>2, <2>1, <2>2, <2>3, <2>4
<1>9. DeletedOnce'
  BY <1>6, <1>8 DEF DeletedOnce
<1> QED BY <1>4, <1>5, <1>9

\* Every step keeps the invariant of the log.
LEMMA LogKept == ASSUME LogInv, Log!Next PROVE LogInv'
<1>1. ASSUME NEW a \in Members, NEW c \in Pilots, Log!SetMain(a, c) PROVE LogInv'
  <2>1. main' = [main EXCEPT ![a] = c] /\ owner[c] = a /\ UNCHANGED <<owner, named, link, operation, log>>
    BY <1>1 DEF Log!SetMain
  <2> QED BY <2>1 DEF LogInv, LogTypes, MainsAreOwn, DeletedOnce
<1>2. ASSUME NEW a \in Members \union {None}, NEW c \in Pilots, Log!Leave(c, a) PROVE LogInv'
  <2>1. /\ owner' = [owner EXCEPT ![c] = a] /\ main' = [x \in Members |-> IF main[x] = c THEN None ELSE main[x]]
        /\ UNCHANGED <<named, link, operation, log>>
    BY <1>2 DEF Log!Leave
  <2>2. LogTypes'
    BY <2>1 DEF LogInv, LogTypes
  <2>3. MainsAreOwn'
    BY <2>1 DEF LogInv, LogTypes, MainsAreOwn
  <2> QED BY <2>1, <2>2, <2>3 DEF LogInv, DeletedOnce
<1>3. ASSUME NEW a \in Members \union {None}, NEW u \in Users, Log!Link(u, a) PROVE LogInv'
  <2>1. link' \in [Users -> Members \union {None}] /\ UNCHANGED <<owner, named, main, operation, log>>
    BY <1>3 DEF Log!Link, LogInv, LogTypes
  <2> QED BY <2>1 DEF LogInv, LogTypes, MainsAreOwn, DeletedOnce
<1>4. ASSUME NEW o \in Operations, NEW n \in Names, Log!NameOperation(o, n) PROVE LogInv'
  <2>1. /\ operation' = [operation EXCEPT ![o] = n] /\ UNCHANGED <<owner, named, main, link, log>>
        /\ \A i \in DOMAIN log : log[i].kind = "payout.deleted" => log[i].target # o
    BY <1>4 DEF Log!NameOperation, Log!people, Log!Deletions
  <2>2. LogTypes' /\ MainsAreOwn'
    BY <2>1 DEF LogInv, LogTypes, MainsAreOwn
  <2>3. DeletedOnce'
    BY <2>1 DEF LogInv, LogTypes, DeletedOnce
  <2> QED BY <2>2, <2>3 DEF LogInv
<1>5. ASSUME NEW a \in Members, NEW o \in Operations, Log!DeleteOperation(a, o) PROVE LogInv'
  <2> DEFINE r == Log!Row(a, "payout.deleted", o, operation[o])
  <2>1. /\ log' = Append(log, r) /\ operation' = [operation EXCEPT ![o] = None] /\ operation[o] # None
        /\ UNCHANGED <<owner, named, main, link>>
    BY <1>5 DEF Log!DeleteOperation, Log!people, Log!Write
  <2>2. operation \in [Operations -> Names \union {None}]
    BY DEF LogInv, LogTypes
  <2>3. r \in AuditRow /\ TargetFits(r) /\ r.name # None /\ r.target = o
    BY <2>1, <2>2 DEF Log!Row, AuditRow, Kinds, TargetFits
  <2>4. /\ operation' \in [Operations -> Names \union {None}] /\ operation'[o] = None
        /\ \A x \in Operations : operation[x] = None => operation'[x] = None
    BY <2>1, <2>2
  <2> HIDE DEF r
  <2> QED BY <2>1, <2>3, <2>4, RowAdded
<1>6. ASSUME NEW kind \in {"account", "character", "discord", "payout"}, NEW t \in Log!Targets(kind),
             NEW actor \in Members \union {Log!System}, NEW n \in Names \union {None},
             log' = Append(log, Log!Row(actor, kind, t, n)), UNCHANGED <<owner, named, main, link, operation>>
      PROVE  LogInv'
  <2> DEFINE r == Log!Row(actor, kind, t, n)
  <2>1. r \in AuditRow /\ TargetFits(r) /\ r.kind # "payout.deleted"
    BY DEF Log!Row, AuditRow, Kinds, TargetFits, Log!Targets
  <2>2. log' = Append(log, r)
    BY <1>6
  <2>3. operation' \in [Operations -> Names \union {None}] /\ \A x \in Operations : operation[x] = None => operation'[x] = None
    BY <1>6 DEF LogInv, LogTypes
  <2> HIDE DEF r
  <2> QED BY <1>6, <2>1, <2>2, <2>3, RowAdded
<1>7. ASSUME NEW kind \in {"account", "character", "discord", "payout"}, NEW t \in Log!Targets(kind),
             NEW actor \in Members \union {Log!System}, Log!LogAudit(actor, kind, t)
      PROVE  LogInv'
  <2>1. log' = Append(log, Log!Row(actor, kind, t, None)) /\ UNCHANGED <<owner, named, main, link, operation>>
    BY <1>7 DEF Log!LogAudit, Log!Write, Log!people
  <2> QED BY <1>6, <2>1
<1>8. ASSUME NEW kind \in {"account", "character", "discord", "payout"}, NEW t \in Log!Targets(kind),
             NEW n \in Names, Log!LogAuditIfChanged(kind, t, n)
      PROVE  LogInv'
  <2>1. log' = Append(log, Log!Row(Log!System, kind, t, n)) /\ UNCHANGED <<owner, named, main, link, operation>>
    BY <1>8 DEF Log!LogAuditIfChanged, Log!Write, Log!people
  <2> QED BY <1>6, <2>1
<1> QED BY <1>1, <1>2, <1>3, <1>4, <1>5, <1>7, <1>8 DEF Log!Next

-----------------------------------------------------------------------------
(* The pages, walked to the end, hold what matches. *)

Older(field, ids, b) == {i \in Log!Matching(field, ids) : i < b}

\* What is older than a row is a finite set of rows.
LEMMA OlderIsFinite ==
  ASSUME LogInv, NEW field, NEW ids, NEW b \in Nat
  PROVE  /\ Older(field, ids, b) \in SUBSET Nat /\ IsFiniteSet(Older(field, ids, b))
         /\ \A i \in Older(field, ids, b) : i \in 1..Len(log) /\ i < b
<1>1. DOMAIN log = 1..Len(log) /\ Len(log) \in Nat
  BY DEF LogInv, LogTypes
<1>2. Older(field, ids, b) \subseteq 1..Len(log)
  BY <1>1 DEF Older, Log!Matching
<1>3. IsFiniteSet(1..Len(log))
  BY <1>1, FS_Interval
<1> QED BY <1>2, <1>3, FS_Subset DEF Older

\* A page is some of them, the newest, and none only when there is none.
LEMMA PageIs ==
  ASSUME LogInv, NEW field, NEW ids, NEW b \in Nat
  PROVE  LET p == Log!Page(field, ids, b) S == Older(field, ids, b) IN
         /\ p \subseteq S
         /\ S # {} => p # {}
         /\ \A i \in p, j \in S : j > i => j \in p
<1> DEFINE S == Older(field, ids, b)
           p == Log!Page(field, ids, b)
           After(i) == {j \in S : j > i}
<1>1. p = {i \in S : Log!Cardinality(After(i)) < PageSize}
  BY DEF Log!Page, Older
<1>2. S \in SUBSET Nat /\ IsFiniteSet(S) /\ Len(log) \in Nat /\ \A i \in S : i <= Len(log)
  <2>1. Len(log) \in Nat
    BY DEF LogInv, LogTypes
  <2> QED BY <2>1, OlderIsFinite
<1>3. p = {i \in S : Cardinality(After(i)) < PageSize}
  BY <1>1, SameCount
<1>4. PageSize \in Nat \ {0}
  BY PageAssumption
<1> HIDE DEF S, p
<1>5. ASSUME S # {} PROVE p # {}
  <2>1. PICK m \in S : \A x \in S : m >= x
    BY <1>2, <1>5, GreatestOf
  <2>2. After(m) = {}
    <3>1. ASSUME NEW x \in S, x > m PROVE FALSE
      <4>1. x \in Nat /\ m \in Nat /\ m >= x
        BY <1>2, <2>1
      <4> QED BY <3>1, <4>1
    <3> QED BY <3>1
  <2>3. Cardinality(After(m)) = 0
    BY <2>2, FS_EmptySet
  <2> QED BY <1>3, <1>4, <2>1, <2>3
<1>6. ASSUME NEW i \in p, NEW j \in S, j > i PROVE j \in p
  <2>1. i \in S /\ i \in Nat /\ j \in Nat
    BY <1>2, <1>3
  <2>2. After(j) \subseteq After(i)
    <3>1. ASSUME NEW x \in S, x > j PROVE x > i
      <4>1. x \in Nat
        BY <1>2
      <4> QED BY <1>6, <2>1, <3>1, <4>1
    <3> QED BY <3>1
  <2>3. IsFiniteSet(After(i))
    BY <1>2, FS_Subset
  <2>4. /\ Cardinality(After(i)) \in Nat /\ Cardinality(After(j)) \in Nat
        /\ Cardinality(After(j)) <= Cardinality(After(i))
    BY <2>2, <2>3, FS_Subset, FS_CardinalityType
  <2>5. Cardinality(After(i)) < PageSize
    BY <1>3
  <2> HIDE DEF After
  <2> QED BY <1>3, <1>4, <2>4, <2>5
<1>7. p \subseteq S
  BY <1>3
<1> QED BY <1>5, <1>6, <1>7 DEF S, p

IsWalk(f, field, ids) ==
  f = [b \in 1..Len(log) + 1 |->
         IF Log!Page(field, ids, b) = {} THEN {}
         ELSE Log!Page(field, ids, b) \union f[Log!Min(Log!Page(field, ids, b))]]

\* The first row of a page, from which the next is asked for.
LEMMA NextPage ==
  ASSUME LogInv, NEW field, NEW ids, NEW b \in 1..Len(log) + 1, Log!Page(field, ids, b) # {}
  PROVE  LET m == Log!Min(Log!Page(field, ids, b)) IN
         /\ m \in 1..Len(log) /\ m < b
         /\ Older(field, ids, b) = Log!Page(field, ids, b) \union Older(field, ids, m)
<1> DEFINE S == Older(field, ids, b)
           p == Log!Page(field, ids, b)
           m == Log!Min(p)
<1>1. b \in Nat /\ Len(log) \in Nat
  BY DEF LogInv, LogTypes
<1>2. p \subseteq S /\ \A i \in p, j \in S : j > i => j \in p
  BY <1>1, PageIs
<1>3. S \in SUBSET Nat /\ \A i \in S : i \in 1..Len(log) /\ i < b
  BY <1>1, OlderIsFinite
<1>10. p # {}
  OBVIOUS
<1> HIDE DEF p
<1>4. PICK k \in p : \A x \in p : k <= x
  BY <1>2, <1>3, <1>10, LeastOf
<1>5. m = k
  BY <1>2, <1>3, <1>4, LowestIs
<1> HIDE DEF m
<1>6. m \in p /\ m \in S /\ m \in 1..Len(log) /\ m < b /\ m \in Nat
  BY <1>2, <1>3, <1>4, <1>5
<1>7. ASSUME NEW i \in S PROVE i \in p \/ i \in Older(field, ids, m)
  <2>1. i \in Nat
    BY <1>3
  <2>2. CASE i < m
    BY <2>2 DEF Older
  <2>3. CASE i >= m
    BY <1>2, <1>6, <2>1, <2>3
  <2> QED BY <1>6, <2>1, <2>2, <2>3
<1>8. ASSUME NEW i \in Older(field, ids, m) PROVE i \in S
  <2>1. i \in Nat /\ i < m /\ i \in Log!Matching(field, ids)
    BY <1>6, OlderIsFinite DEF Older
  <2> QED BY <1>1, <1>6, <2>1 DEF Older
<1>9. S = p \union Older(field, ids, m)
  BY <1>2, <1>7, <1>8
<1> QED BY <1>6, <1>9 DEF p, m

\* Walking the pages yields what is older,
LEMMA WalkExists ==
  ASSUME LogInv, NEW field, NEW ids
  PROVE  IsWalk([b \in 1..Len(log) + 1 |-> Older(field, ids, b)], field, ids)
<1> DEFINE f == [b \in 1..Len(log) + 1 |-> Older(field, ids, b)]
           p(b) == Log!Page(field, ids, b)
           g == [b \in 1..Len(log) + 1 |-> IF p(b) = {} THEN {} ELSE p(b) \union f[Log!Min(p(b))]]
<1>1. Len(log) \in Nat
  BY DEF LogInv, LogTypes
<1>2. ASSUME NEW b \in 1..Len(log) + 1
      PROVE  f[b] = IF p(b) = {} THEN {} ELSE p(b) \union f[Log!Min(p(b))]
  <2>1. CASE p(b) = {}
    <3>1. b \in Nat
      BY <1>1
    <3>2. Older(field, ids, b) = {}
      BY <2>1, <3>1, PageIs
    <3> QED BY <2>1, <3>2
  <2>2. CASE p(b) # {}
    <3> DEFINE m == Log!Min(p(b))
    <3>1. m \in 1..Len(log) /\ Older(field, ids, b) = p(b) \union Older(field, ids, m)
      BY <2>2, NextPage
    <3> HIDE DEF m, p
    <3>2. f[m] = Older(field, ids, m)
      BY <1>1, <3>1
    <3>3. f[b] = p(b) \union f[m]
      BY <3>1, <3>2
    <3> QED BY <2>2, <3>3 DEF m
  <2> QED BY <2>1, <2>2
<1>3. f = g
  <2> HIDE DEF p
  <2>1. \A b \in 1..Len(log) + 1 : f[b] = g[b]
    BY <1>2
  <2> QED BY <2>1
<1> QED BY <1>3 DEF IsWalk

\* and nothing else,
LEMMA WalkUnique ==
  ASSUME LogInv, NEW field, NEW ids, NEW g, IsWalk(g, field, ids)
  PROVE  g[Len(log) + 1] = Older(field, ids, Len(log) + 1)
<1> DEFINE bad == {b \in 1..Len(log) + 1 : g[b] # Older(field, ids, b)}
<1>1. Len(log) \in Nat
  BY DEF LogInv, LogTypes
<1>2. SUFFICES ASSUME bad # {} PROVE FALSE
  BY <1>1
<1>3. bad \in SUBSET Nat
  BY <1>1
<1>4. PICK b \in bad : \A x \in bad : b <= x
  BY <1>2, <1>3, LeastOf
<1> DEFINE p == Log!Page(field, ids, b)
<1>5. b \in 1..Len(log) + 1 /\ b \in Nat /\ g[b] # Older(field, ids, b)
  BY <1>3
<1>6. g[b] = IF p = {} THEN {} ELSE p \union g[Log!Min(p)]
  BY <1>5 DEF IsWalk
<1>7. CASE p = {}
  <2>1. Older(field, ids, b) = {}
    BY <1>5, <1>7, PageIs
  <2> QED BY <1>5, <1>6, <1>7, <2>1
<1>8. CASE p # {}
  <2> DEFINE m == Log!Min(p)
  <2>1. m \in 1..Len(log) /\ m < b /\ Older(field, ids, b) = p \union Older(field, ids, m)
    BY <1>5, <1>8, NextPage
  <2>2. g[b] = p \union g[m]
    BY <1>6, <1>8
  <2> HIDE DEF m, p
  <2>3. m \in Nat /\ m \in 1..Len(log) + 1 /\ ~(b <= m)
    BY <1>1, <1>5, <2>1
  <2>4. m \notin bad
    BY <1>4, <2>3
  <2>5. g[m] = Older(field, ids, m)
    BY <2>3, <2>4
  <2> QED BY <1>5, <2>1, <2>2, <2>5
<1> QED BY <1>7, <1>8

\* so that all pages of the log together are the rows that match, for every page
\* size (queryAuditLog).
THEOREM PagesHoldAll == ASSUME LogInv, NEW field, NEW ids PROVE Log!Pages(field, ids) = Log!Matching(field, ids)
<1> DEFINE W == CHOOSE f : IsWalk(f, field, ids)
<1>1. IsWalk(W, field, ids)
  BY WalkExists
<1>2. Log!Pages(field, ids) = W[Len(log) + 1]
  BY DEF Log!Pages, IsWalk
<1> HIDE DEF W
<1>3. W[Len(log) + 1] = Older(field, ids, Len(log) + 1)
  BY <1>1, WalkUnique
<1>4. Older(field, ids, Len(log) + 1) = Log!Matching(field, ids)
  <2>1. DOMAIN log = 1..Len(log) /\ Len(log) \in Nat
    BY DEF LogInv, LogTypes
  <2> QED BY <2>1 DEF Older, Log!Matching
<1> QED BY <1>2, <1>3, <1>4

-----------------------------------------------------------------------------
(* What matches is what is shown. *)

\* The name of an account's main.
LEMMA MainShown ==
  ASSUME LogInv, NEW n \in Names, NEW a \in Members
  PROVE  Log!MainNameOf(a) = n <=> a \in Log!Displaying(n)
<1>1. a # None /\ n # None /\ None \notin Pilots
  BY IdsAssumption
<1>2. CASE main[a] = None
  BY <1>1, <1>2 DEF Log!MainNameOf, Log!Displaying, Log!Called
<1>3. CASE main[a] # None
  <2>1. main[a] \in Pilots /\ owner[main[a]] # None
    BY <1>1, <1>3 DEF LogInv, LogTypes, MainsAreOwn
  <2> QED BY <1>1, <1>3, <2>1 DEF Log!MainNameOf, Log!Displaying, Log!Called
<1> QED BY <1>2, <1>3

\* The name of an operation, or of one that was deleted.
LEMMA OperationShown ==
  ASSUME LogInv, NEW n \in Names, NEW o \in Operations
  PROVE  Log!OperationName(o) = n <=> o \in Log!OperationsCalled(n)
<1> DEFINE D == {d \in Log!Deletions : d.target = o}
<1>1. n # None
  BY IdsAssumption
<1>2. \A d \in Log!Deletions : \E i \in DOMAIN log : d = log[i] /\ log[i].kind = "payout.deleted"
  BY DEF Log!Deletions
<1>3. ASSUME NEW d \in D PROVE d.name # None /\ operation[o] = None /\ \A e \in D : e.name = d.name
  BY <1>2 DEF LogInv, DeletedOnce
<1>4. Log!OperationName(o) = IF operation[o] # None THEN operation[o] ELSE IF D = {} THEN None ELSE (CHOOSE d \in D : TRUE).name
  BY DEF Log!OperationName
<1>5. o \in Log!OperationsCalled(n) <=> operation[o] = n \/ \E d \in D : d.name = n
  BY DEF Log!OperationsCalled
<1> HIDE DEF D
<1>6. CASE D = {}
  BY <1>1, <1>4, <1>5, <1>6
<1>7. CASE D # {}
  <2> DEFINE c == CHOOSE d \in D : TRUE
  <2>1. c \in D
    BY <1>7
  <2>2. Log!OperationName(o) = c.name
    BY <1>3, <1>4, <1>7, <2>1
  <2> HIDE DEF c
  <2> QED BY <1>1, <1>3, <1>5, <2>1, <2>2
<1> QED BY <1>6, <1>7

\* An actor that is displayed under a name is one the name is resolved to.
LEMMA ActorShown ==
  ASSUME LogInv, NEW n \in Names, NEW i \in DOMAIN log
  PROVE  log[i].actor \in Log!ActorIds(n) <=> Log!ActorName(log[i]) = n
<1>1. log[i] \in AuditRow
  BY DEF LogInv, LogTypes
<1>2. log[i].actor \in Members \union {Log!System}
  BY <1>1 DEF AuditRow
<1>3. CASE log[i].actor = Log!System
  BY <1>3, IdsAssumption DEF Log!ActorIds, Log!ActorName, Log!Displaying
<1>4. CASE log[i].actor \in Members
  <2>1. log[i].actor # Log!System
    BY <1>4, IdsAssumption
  <2> QED BY <1>4, <2>1, MainShown DEF Log!ActorIds, Log!ActorName
<1> QED BY <1>2, <1>3, <1>4

\* A target that is displayed under a name is one the name is resolved to.
LEMMA TargetShown ==
  ASSUME LogInv, NEW n \in Names, NEW i \in DOMAIN log
  PROVE  log[i].target \in Log!TargetIds(n) <=> Log!TargetName(log[i]) = n
<1> DEFINE t == log[i].target
           kind == log[i].kind
<1>1. kind \in Kinds /\ TargetFits(log[i])
  <2>1. log[i] \in AuditRow /\ TargetFits(log[i])
    BY DEF LogInv, LogTypes
  <2> QED BY <2>1 DEF AuditRow
<1>2. /\ Log!Displaying(n) \subseteq Members /\ Log!Called(n) \subseteq Pilots /\ Log!Linked(n) \subseteq Users
      /\ Log!OperationsCalled(n) \subseteq Operations
  <2>1. ASSUME NEW d \in Log!Deletions PROVE d.target \in Operations
    BY DEF Log!Deletions, LogInv, LogTypes, TargetFits
  <2> QED BY <2>1 DEF Log!Displaying, Log!Called, Log!Linked, Log!OperationsCalled
<1>3. t \in Log!TargetIds(n) <=> \/ t \in Log!Displaying(n) \/ t \in Log!Called(n) \/ t \in Log!Linked(n)
                                 \/ t \in Log!OperationsCalled(n)
  BY DEF Log!TargetIds
<1>4. CASE kind = "account"
  <2>1. t \in Members /\ t \notin Pilots /\ t \notin Users /\ t \notin Operations
    BY <1>1, <1>4, IdsAssumption DEF TargetFits
  <2>2. Log!TargetName(log[i]) = Log!MainNameOf(t)
    BY <1>4 DEF Log!TargetName
  <2> HIDE DEF t, kind
  <2> QED BY <1>2, <1>3, <2>1, <2>2, MainShown DEF t
<1>5. CASE kind = "character"
  <2>1. t \in Pilots /\ t \notin Members /\ t \notin Users /\ t \notin Operations /\ n # None
    BY <1>1, <1>5, IdsAssumption DEF TargetFits
  <2>2. Log!TargetName(log[i]) = IF owner[t] = None THEN None ELSE named[t]
    BY <1>5 DEF Log!TargetName
  <2> HIDE DEF t, kind
  <2>3. t \in Log!TargetIds(n) <=> t \in Log!Called(n)
    BY <1>2, <1>3, <2>1
  <2>4. t \in Log!Called(n) <=> Log!TargetName(log[i]) = n
    BY <2>1, <2>2 DEF Log!Called
  <2> QED BY <2>3, <2>4 DEF t
<1>6. CASE kind = "discord"
  <2>1. t \in Users /\ t \notin Members /\ t \notin Pilots /\ t \notin Operations /\ n # None
    BY <1>1, <1>6, IdsAssumption DEF TargetFits
  <2>2. Log!TargetName(log[i]) = Log!MainNameOf(link[t])
    BY <1>6 DEF Log!TargetName
  <2> HIDE DEF t, kind
  <2>3. t \in Log!TargetIds(n) <=> t \in Log!Linked(n)
    BY <1>2, <1>3, <2>1
  <2>4. link[t] \in Members \union {None}
    BY <2>1 DEF LogInv, LogTypes
  <2>5. t \in Log!Linked(n) <=> link[t] \in Log!Displaying(n)
    BY <2>1 DEF Log!Linked
  <2>6. CASE link[t] = None
    <3>1. link[t] \notin Log!Displaying(n)
      BY <1>2, <2>6, IdsAssumption
    <3>2. Log!MainNameOf(link[t]) = None
      BY <2>6 DEF Log!MainNameOf
    <3>3. (t \in Log!TargetIds(n)) <=> (Log!TargetName(log[i]) = n)
      BY <2>1, <2>2, <2>3, <2>5, <3>1, <3>2
    <3> QED BY <3>3 DEF t
  <2>7. CASE link[t] # None
    <3>1. (t \in Log!TargetIds(n)) <=> (Log!TargetName(log[i]) = n)
      BY <2>2, <2>3, <2>4, <2>5, <2>7, MainShown
    <3> QED BY <3>1 DEF t
  <2> QED BY <2>6, <2>7
<1>7. CASE kind \in {"payout", "payout.deleted"}
  <2>1. t \in Operations /\ t \notin Members /\ t \notin Pilots /\ t \notin Users
    BY <1>1, <1>7, IdsAssumption DEF TargetFits
  <2>2. Log!TargetName(log[i]) = Log!OperationName(t)
    BY <1>7 DEF Log!TargetName
  <2> HIDE DEF t, kind
  <2> QED BY <1>2, <1>3, <2>1, <2>2, OperationShown DEF t
<1> QED BY <1>1, <1>4, <1>5, <1>6, <1>7 DEF Kinds

\* The filter is the inverse of the display.
LEMMA FilterHolds == ASSUME LogInv PROVE Log!FilterInvertsDisplay
<1> SUFFICES ASSUME NEW n \in Names
             PROVE  /\ Log!Pages("actor", Log!ActorIds(n)) = {i \in DOMAIN log : Log!ActorName(log[i]) = n}
                    /\ Log!Pages("target", Log!TargetIds(n)) = {i \in DOMAIN log : Log!TargetName(log[i]) = n}
  BY DEF Log!FilterInvertsDisplay
<1>1. Log!Matching("actor", Log!ActorIds(n)) = {i \in DOMAIN log : Log!ActorName(log[i]) = n}
  <2>1. Log!Matching("actor", Log!ActorIds(n)) = {i \in DOMAIN log : log[i].actor \in Log!ActorIds(n)}
    BY DEF Log!Matching
  <2> QED BY <2>1, ActorShown
<1>2. Log!Matching("target", Log!TargetIds(n)) = {i \in DOMAIN log : Log!TargetName(log[i]) = n}
  <2>1. Log!Matching("target", Log!TargetIds(n)) = {i \in DOMAIN log : log[i].target \in Log!TargetIds(n)}
    BY DEF Log!Matching
  <2> QED BY <2>1, TargetShown
<1> QED BY <1>1, <1>2, PagesHoldAll

-----------------------------------------------------------------------------
(* All the pages. *)

PagesInv ==
  /\ moving = "health" => HealthInv
  /\ moving = "lists" => ListsInv
  /\ moving = "log" => LogInv
  /\ moving \in {"locations", "overlap"} => LocationInv
  /\ moving = "page" => page \in Pages

\* The pages of the run are among those.
LEMMA HeadlineHolds == ASSUME NEW p \in Pages PROVE Locations!HeadlineAgrees(p)
<1> DEFINE R == [status : {"valid", "needs_reauth", "invalid"}, scoped : BOOLEAN, gone : BOOLEAN]
<1>1. p.rows \in [Pilots -> R] /\ p.linked \in BOOLEAN
  BY DEF Pages
<1>2. p.pushed \in Nat \union {None} /\ p.shown \in Nat
  <2>1. p.pushed \in PushTimes \union {None} /\ p.shown = ShownAt
    BY DEF Pages
  <2> QED BY <2>1, PeriodsAssumption
<1>3. ASSUME NEW c \in Pilots
      PROVE  /\ p.rows[c].scoped \in BOOLEAN /\ p.rows[c].gone \in BOOLEAN
             /\ p.rows[c].status \in {"valid", "needs_reauth", "invalid", "missing"}
  <2>1. p.rows[c] \in R
    BY <1>1
  <2> QED BY <2>1
<1> HIDE DEF R
<1> QED BY <1>1, <1>2, <1>3, HeadlineOfAnyPage

\* What moves has its invariant,
LEMMA PagesStart == ASSUME MCInit PROVE PagesInv
<1>1. Health!Init /\ Lists!Init /\ Log!Init /\ Locations!Init /\ page \in IF moving = "page" THEN Pages ELSE {None}
  BY DEF MCInit
<1> QED BY <1>1, HealthStarts, ListsStart, LogStarts, LocationsStart DEF PagesInv

\* which each step keeps,
LEMMA PagesKept == ASSUME PagesInv, [MCNext]_allvars PROVE PagesInv'
<1>1. CASE HealthMoves
  BY <1>1, HealthKept DEF HealthMoves, PagesInv
<1>2. CASE ListsMove
  BY <1>2, ListsKept DEF ListsMove, PagesInv
<1>3. CASE LogMoves
  BY <1>3, LogKept DEF LogMoves, PagesInv
<1>4. CASE LocationsMove
  BY <1>4, LocationsKept DEF LocationsMove, PagesInv
<1>5. CASE OverlapMoves
  BY <1>5, LocationsKept DEF OverlapMoves, PagesInv
<1>6. CASE LocksMove
  BY <1>6 DEF LocksMove, PagesInv
<1>7. CASE UNCHANGED allvars
  <2>1. UNCHANGED <<moving, page, cron, now, beat, runs, holder, watch, sees, content, run, late,
                    owner, named, main, link, operation, log, clock, char, errand, carried, refused, completed>>
    BY <1>7 DEF allvars, healthVars, listVars, logVars, locationVars
  <2>2. HealthInv => HealthInv'
    BY <2>1 DEF HealthInv
  <2>3. ListsInv => ListsInv'
    BY <2>1 DEF ListsInv, Lists!At
  <2>4. LogInv => LogInv'
    BY <2>1 DEF LogInv, LogTypes, MainsAreOwn, DeletedOnce
  <2>5. LocationInv => LocationInv'
    BY <2>1 DEF LocationInv, LocationTypes, ReadWhole, RefusedFirst, Locations!On, Locations!VerdictStands
  <2> QED BY <2>1, <2>2, <2>3, <2>4, <2>5 DEF PagesInv
<1> QED BY <1>1, <1>2, <1>3, <1>4, <1>5, <1>6, <1>7 DEF MCNext

\* and which says that the pages are true.
LEMMA PagesHold == ASSUME PagesInv PROVE PagesAreTrue
<1>1. CASE moving = "health"
  BY <1>1, CalmOfAGroup, CadenceOfHealth DEF PagesInv, PagesAreTrue
<1>2. CASE moving = "log"
  BY <1>2, FilterHolds DEF PagesInv, PagesAreTrue
<1>3. CASE moving = "lists"
  BY <1>3, ListsHold DEF PagesInv, PagesAreTrue
<1>4. CASE moving = "locations"
  BY <1>4, AsOfHolds DEF PagesInv, PagesAreTrue, LocationInv
<1>5. CASE moving = "overlap"
  BY <1>5 DEF PagesInv, PagesAreTrue, LocationInv
<1>6. CASE moving = "page"
  BY <1>6, HeadlineHolds DEF PagesInv, PagesAreTrue
<1>7. CASE moving \notin {"health", "log", "lists", "locations", "overlap", "page"}
  BY <1>7 DEF PagesAreTrue
<1> QED BY <1>1, <1>2, <1>3, <1>4, <1>5, <1>6, <1>7

\* What the pages show is so, for any calendar, schedules, jobs, lists, members
\* and characters, and however long the worker, the admins and the members go on.
THEOREM PagesAlwaysTrue == MCSpec => []PagesAreTrue
<1>1. MCInit => PagesInv
  BY PagesStart
<1>2. PagesInv /\ [MCNext]_allvars => PagesInv'
  BY PagesKept
<1>3. PagesInv => PagesAreTrue
  BY PagesHold
<1> QED BY <1>1, <1>2, <1>3, PTL DEF MCSpec
=============================================================================
