---------------------------- MODULE FleetSource -----------------------------
(* Fleet sources: a member's consent to let authGD read a fleet's roster    *)
(* with the boss's credential (services/fleet-source.ts).  A worker run      *)
(* claims a due source, asks EVE outside any transaction, binds the source   *)
(* to the fleet, reads the roster and commits what it saw                    *)
(* (jobs/fleet-source.ts, services/fleet-source-observation.ts); a proof     *)
(* fills the fleet's authority slot, under which devices publish rows        *)
(* (services/fleet-relay.ts).  Everything that ends a consent withdraws the  *)
(* slot and the rows with it (services/fleet-lifecycle.ts).                  *)
(*                                                                          *)
(* Every transaction locks the sources, the slots and the rows it reads in   *)
(* one global order and checks its selectors again under the locks, so it is *)
(* one step here.  Time is kept as ages and times left.                      *)
EXTENDS Naturals, FiniteSets

CONSTANTS
  Chars, Fleets, Sources, Runs,
  MaxGeneration,   \* the last usable generation (2147483646 in the code)
  ClaimTime,       \* ticks a fetch claim lives (30 s in the code)
  EvidenceTime,    \* ticks a roster stays evidence (10 s)
  IntentTime,      \* ticks a pending source may wait for its first proof (60 s)
  MaxEpoch,        \* bound: times a character is linked anew
  NoFleet, NoChar, NoRow, NoTicket, NoClaim, Nobody

ASSUME FleetSourceAssumption ==
  /\ MaxGeneration \in Nat \ {0}
  /\ ClaimTime \in Nat \ {0} /\ EvidenceTime \in Nat \ {0} /\ IntentTime \in Nat \ {0}
  /\ MaxEpoch \in Nat
  /\ NoFleet \notin Fleets /\ NoChar \notin Chars
  /\ NoClaim \notin Nat
  /\ Nobody \notin Sources /\ Nobody \notin Sources \X (1..2)

(* src: fleet_source_intent; auth: fleet_source_authority; row: the lease    *)
(* and telemetry row of a character, always written together; epoch:         *)
(* character.fleet_link_epoch; enabled: the sharing mode; ticket: the runs   *)
(* of the job.  overtaken and newest are history: the runs whose slot        *)
(* changed hands since they were bound, and the last run to claim a source.  *)
VARIABLES src, auth, row, epoch, enabled, ticket, overtaken, newest
vars == <<src, auth, row, epoch, enabled, ticket, overtaken, newest>>

Links == Chars \X (0..MaxEpoch)
Live  == {"pending", "active", "paused"}

SourceType ==
  [state : {"none", "pending", "active", "paused", "ended"},
   boss : Chars \union {NoChar}, epoch : 0..MaxEpoch, fleet : Fleets \union {NoFleet},
   gen : 1..2, fetchGen : 0..(MaxGeneration + 1),
   claim : (0..ClaimTime) \union {NoClaim}, activated : BOOLEAN,
   left : 0..IntentTime, due : BOOLEAN]
SlotType ==
  [source : Sources \union {Nobody}, sgen : 1..2, agen : 0..(MaxGeneration + 1),
   links : SUBSET Links, age : 0..EvidenceTime]
RowType ==
  [fleet : Fleets, source : Sources, sgen : 1..2, agen : 0..(MaxGeneration + 1),
   epoch : 0..MaxEpoch]
Answer ==
  [kind : {"none"}] \union [kind : {"failure"}, terminal : BOOLEAN]
    \union [kind : {"verified"}, members : SUBSET Chars, age : 0..EvidenceTime]
TicketType ==
  [source : Sources, gen : 1..2, fetchGen : 0..(MaxGeneration + 1),
   stage : {"claimed", "token", "bound", "answered"}, proven : BOOLEAN,
   settled : BOOLEAN, fleet : Fleets \union {NoFleet}, links : SUBSET Links,
   expect : 0..(MaxGeneration + 1), answer : Answer]

ASSUME TicketAssumption == NoTicket \notin TicketType

NewSource == [state |-> "none", boss |-> NoChar, epoch |-> 0, fleet |-> NoFleet,
              gen |-> 1, fetchGen |-> 0, claim |-> NoClaim, activated |-> FALSE,
              left |-> IntentTime, due |-> FALSE]
EmptySlot == [source |-> Nobody, sgen |-> 1, agen |-> 0, links |-> {},
              age |-> EvidenceTime]

Init ==
  /\ src = [s \in Sources |-> NewSource]
  /\ auth = [f \in Fleets |-> EmptySlot]
  /\ row = [c \in Chars |-> NoRow]
  /\ epoch = [c \in Chars |-> 0]
  /\ enabled = TRUE
  /\ ticket = [r \in Runs |-> NoTicket]
  /\ overtaken = {}
  /\ newest = [s \in Sources |-> Nobody]

-----------------------------------------------------------------------------
(* Parts of the transactions.                                               *)

\* Variant, not the code: the counters run up to the column's last value.
LastOfTheColumn == MaxGeneration + 1
\* One value below the column's, kept for the step that ends the counter's use.
LastUsable == MaxGeneration

Owns(s, f) == auth[f].source = s /\ auth[f].sgen = src[s].gen
OfSource(s, c) == row[c] # NoRow /\ row[c].source = s /\ row[c].sgen = src[s].gen

\* Variant, not the code: emptying a slot does not fence its readers.
EmptiedQuietly(slot) == [EmptySlot EXCEPT !.agen = slot.agen]
\* The slot is emptied, and its generation fences whoever still expects it.
Emptied(slot) == [EmptySlot EXCEPT !.agen = slot.agen + 1]
\* Variants, not the code: the slots, the rows are left as they are.
SlotsKept(S) == auth
RowsKept(S)  == row
AuthWithout(S) ==
  [f \in Fleets |-> IF \E s \in S : Owns(s, f) THEN Emptied(auth[f]) ELSE auth[f]]
RowsWithout(S) ==
  [c \in Chars |-> IF \E s \in S : OfSource(s, c) THEN NoRow ELSE row[c]]

\* invalidateFleetSources: the consent is over, in a generation of its own.
Ended(s) == [src[s] EXCEPT !.state = "ended", !.gen = @ + 1, !.fetchGen = @ + 1,
                           !.claim = NoClaim, !.due = FALSE]
SourcesEnded(S) == [s \in Sources |-> IF s \in S THEN Ended(s) ELSE src[s]]
LiveOf(S)       == {s \in S : src[s].state \in Live}

\* History: a bound run is overtaken when its slot changes hands.
Bound(r) == ticket[r] # NoTicket /\ ticket[r].stage \in {"bound", "answered"}
Holder(slot) == <<slot.source, slot.sgen>>
Overtake ==
  overtaken' = overtaken \union
    {r \in Runs : Bound(r) /\ ticket[r].fleet # NoFleet
                  /\ Holder(auth'[ticket[r].fleet]) # Holder(auth[ticket[r].fleet])}

EndAll(S) ==
  /\ src' = SourcesEnded(S)
  /\ auth' = AuthWithout(S)
  /\ row' = RowsWithout(S)
  /\ Overtake

\* Variant, not the code: the intent's expiry is not looked at.
LossOnly(s) == ~enabled \/ epoch[src[s].boss] # src[s].epoch
\* validConsent: the link the consent was given for is current, sharing is on,
\* and a source without a proof has not outlived its intent.
ConsentLost(s) ==
  \/ ~enabled
  \/ epoch[src[s].boss] # src[s].epoch
  \/ ~src[s].activated /\ src[s].left = 0

Finished(r) == ticket' = [ticket EXCEPT ![r] = NoTicket]
Unclaimed(s) == src[s].claim \in {NoClaim, 0}

-----------------------------------------------------------------------------
(* A device's commands and the losses that end a consent.                   *)

\* The device made the intent some time ago, and never twice.
StartSource(s, c, left) ==
  /\ src[s].state = "none"
  /\ enabled
  /\ src' = [src EXCEPT ![s].state = "pending", ![s].boss = c,
                        ![s].epoch = epoch[c], ![s].left = left, ![s].due = TRUE]
  /\ UNCHANGED <<auth, row, epoch, enabled, ticket, overtaken, newest>>

\* A stop that overtakes its start leaves a tombstone for the start to find.
StopUnknown(s) ==
  /\ src[s].state = "none"
  /\ src' = [src EXCEPT ![s].state = "ended"]
  /\ UNCHANGED <<auth, row, epoch, enabled, ticket, overtaken, newest>>

StopSource(s) ==
  /\ src[s].state \in Live
  /\ EndAll({s})
  /\ UNCHANGED <<epoch, enabled, ticket, newest>>

\* The boss's grant is lost: its sources end, its own rows stay.
GrantLost(c) ==
  /\ LiveOf({s \in Sources : src[s].boss = c}) # {}
  /\ EndAll(LiveOf({s \in Sources : src[s].boss = c}))
  /\ UNCHANGED <<epoch, enabled, ticket, newest>>

\* The character's link is lost and made again: a new epoch, no row survives.
LinkLost(c) ==
  LET S == LiveOf({s \in Sources : src[s].boss = c}) IN
  /\ epoch[c] < MaxEpoch
  /\ epoch' = [epoch EXCEPT ![c] = @ + 1]
  /\ src' = SourcesEnded(S)
  /\ auth' = AuthWithout(S)
  /\ row' = [RowsWithout(S) EXCEPT ![c] = NoRow]
  /\ Overtake
  /\ UNCHANGED <<enabled, ticket, newest>>

\* transitionFleetSharingMode drains every source, slot and row.
TransitionMode ==
  /\ enabled' = ~enabled
  /\ src' = SourcesEnded(LiveOf(Sources))
  /\ auth' = [f \in Fleets |->
                IF auth[f].source # Nobody THEN Emptied(auth[f]) ELSE auth[f]]
  /\ row' = [c \in Chars |-> NoRow]
  /\ Overtake
  /\ UNCHANGED <<epoch, ticket, newest>>

-----------------------------------------------------------------------------
(* A run of the job.  Its wake-ups are delivered at any time and any number  *)
(* of times, each for the generation the source had when it was sent.        *)

ClaimFetch(r, s, g) ==
  /\ ticket[r] = NoTicket
  /\ src[s].state \in Live
  /\ src[s].gen = g
  /\ \/ /\ ConsentLost(s)
        /\ EndAll({s})
        /\ UNCHANGED <<ticket, newest>>
     \/ /\ ~ConsentLost(s)
        /\ src[s].due /\ Unclaimed(s)
        /\ src[s].fetchGen >= LastUsable
        /\ EndAll({s})
        /\ UNCHANGED <<ticket, newest>>
     \/ /\ ~ConsentLost(s)
        /\ src[s].due /\ Unclaimed(s)
        /\ src[s].fetchGen < LastUsable
        /\ src' = [src EXCEPT ![s].fetchGen = @ + 1, ![s].claim = ClaimTime]
        /\ ticket' = [ticket EXCEPT ![r] =
             [source |-> s, gen |-> g, fetchGen |-> src[s].fetchGen + 1,
              stage |-> "claimed", proven |-> FALSE, settled |-> TRUE,
              fleet |-> src[s].fleet, links |-> {}, expect |-> 0,
              answer |-> [kind |-> "none"]]]
        /\ newest' = [newest EXCEPT ![s] = r]
        /\ UNCHANGED <<auth, row, overtaken>>
  /\ UNCHANGED <<epoch, enabled>>

SameBoss(r, q) == /\ ticket[q] # NoTicket
                  /\ src[ticket[q].source].boss = src[ticket[r].source].boss

\* An access token is to hand: one the worker remembers, or a refresh that
\* swaps the stored credential the run read and so unsettles the boss's others.
GetToken(r, refreshed) ==
  /\ ticket[r] # NoTicket
  /\ ticket[r].stage = "claimed"
  /\ refreshed => ticket[r].settled
  /\ ticket' = [q \in Runs |->
       IF q = r THEN [ticket[r] EXCEPT !.stage = "token", !.proven = TRUE]
       ELSE IF refreshed /\ SameBoss(r, q) THEN [ticket[q] EXCEPT !.settled = FALSE]
       ELSE ticket[q]]
  /\ UNCHANGED <<src, auth, row, epoch, enabled, overtaken, newest>>

\* The access token runs out while the run waits for EVE or for a lock.
TokenExpires(r) ==
  /\ ticket[r] # NoTicket
  /\ ticket[r].proven
  /\ ticket' = [ticket EXCEPT ![r].proven = FALSE]
  /\ UNCHANGED <<src, auth, row, epoch, enabled, overtaken, newest>>

\* Some other job rotates the credential of a character.
Rotate(c) ==
  /\ \E q \in Runs : ticket[q] # NoTicket /\ src[ticket[q].source].boss = c
                                           /\ ticket[q].settled
  /\ ticket' = [q \in Runs |->
       IF ticket[q] # NoTicket /\ src[ticket[q].source].boss = c
       THEN [ticket[q] EXCEPT !.settled = FALSE] ELSE ticket[q]]
  /\ UNCHANGED <<src, auth, row, epoch, enabled, overtaken, newest>>

Answered(r, answer) ==
  ticket' = [ticket EXCEPT ![r].stage = "answered", ![r].answer = answer]

\* EVE does not answer, or answers that the consent has no ground any more.
UpstreamFails(r, terminal) ==
  /\ ticket[r] # NoTicket
  /\ ticket[r].stage # "answered"
  /\ terminal => ticket[r].proven
  /\ Answered(r, [kind |-> "failure", terminal |-> terminal])
  /\ UNCHANGED <<src, auth, row, epoch, enabled, overtaken, newest>>

\* Variant, not the code: any claim standing is taken for the run's own.
SomeClaimStands(r) ==
  LET s == src[ticket[r].source] IN
  s.state \in Live /\ s.gen = ticket[r].gen /\ s.claim # NoClaim
Current(r) ==
  LET t == ticket[r] s == src[ticket[r].source] IN
  /\ s.state \in Live
  /\ s.gen = t.gen /\ s.fetchGen = t.fetchGen /\ s.claim # NoClaim

InTime(r)       == src[ticket[r].source].claim # 0
CurrentProof(r) == InTime(r) /\ ticket[r].proven /\ ticket[r].settled

\* bindPendingFleet, for the fleet f that EVE or the worker's memory named.
BindFleet(r, f) ==
  LET s == ticket[r].source IN
  /\ ticket[r] # NoTicket
  /\ ticket[r].stage = "token"
  /\ \/ /\ ~Current(r) \/ (~ConsentLost(s) /\ ~CurrentProof(r))
        /\ Finished(r)
        /\ UNCHANGED <<src, auth, row, overtaken>>
     \/ /\ Current(r)
        /\ \/ ConsentLost(s)
           \/ CurrentProof(r) /\ src[s].fleet \notin {NoFleet, f}
        /\ EndAll({s})
        /\ Finished(r)
     \/ /\ Current(r) /\ ~ConsentLost(s) /\ CurrentProof(r)
        /\ src[s].fleet \in {NoFleet, f}
        /\ src' = [src EXCEPT ![s].fleet = f]
        /\ ticket' = [ticket EXCEPT ![r].stage = "bound", ![r].fleet = f,
             ![r].links = {<<c, epoch[c]>> : c \in Chars}, ![r].expect = auth[f].agen]
        /\ overtaken' = overtaken \ {r}
        /\ UNCHANGED <<auth, row>>
  /\ UNCHANGED <<epoch, enabled, newest>>

\* The roster, as some cache of EVE's saw it a while ago.
ReadRoster(r, members, age) ==
  /\ ticket[r] # NoTicket
  /\ ticket[r].stage = "bound"
  /\ age < EvidenceTime
  /\ Answered(r, [kind |-> "verified", members |-> members, age |-> age])
  /\ UNCHANGED <<src, auth, row, epoch, enabled, overtaken, newest>>

\* The worker dies, or its run is abandoned, with the claim still standing.
Die(r) ==
  /\ ticket[r] # NoTicket
  /\ Finished(r)
  /\ UNCHANGED <<src, auth, row, epoch, enabled, overtaken, newest>>

-----------------------------------------------------------------------------
(* commitFleetSourceObservation: what a finished run may still do.          *)

Retained(r) == {l \in ticket[r].links : l[1] \in ticket[r].answer.members}
Verified(r) == ticket[r].answer.kind = "verified"

\* The answer proves nothing: too late, by a credential that is not the stored
\* one any more, or with evidence that is no longer fresh.
Unusable(r) ==
  Verified(r) => ~CurrentProof(r) \/ ticket[r].answer.age >= EvidenceTime

Terminal(r) == ~Verified(r) /\ ticket[r].answer.terminal /\ CurrentProof(r)
BossGone(r) ==
  ~Unusable(r) /\ src[ticket[r].source].boss \notin ticket[r].answer.members

Pause(s) ==
  /\ auth' = AuthWithout({s})
  /\ row' = RowsWithout({s})
  /\ src' = [src EXCEPT ![s].state = "paused", ![s].claim = NoClaim, ![s].due = FALSE]
  /\ Overtake

Replaces(s, f) == ~Owns(s, f)
GenerationOnInstall(s, f) == auth[f].agen + (IF Replaces(s, f) THEN 1 ELSE 0)

\* Variants, not the code: only the freshness is compared, or only the
\* generation and an equal observation accepted.
FreshEnough(r) ==
  LET slot == auth[ticket[r].fleet] IN
  slot.source # Nobody => slot.age > ticket[r].answer.age
AsSeenOrReplayed(r) == auth[ticket[r].fleet].agen = ticket[r].expect
\* The slot is as the run saw it at bind, and holds no evidence as fresh.
SlotAsSeen(r) ==
  LET t == ticket[r] slot == auth[t.fleet] IN
  /\ slot.agen = t.expect
  /\ slot.source # Nobody => slot.age > t.answer.age

\* Variant, not the code: a paused predecessor is overlooked.
DisplacedActive(s, f) ==
  {o \in Sources \ {s} : src[o].fleet = f /\ src[o].state = "active"}
\* Everyone whose consent was ever proved for this fleet makes way.
Displaced(s, f) == {o \in Sources \ {s} : /\ src[o].fleet = f
                                          /\ src[o].activated
                                          /\ src[o].state \in Live}

\* applyFleetAuthorityProof.
Install(r) ==
  LET t == ticket[r] s == t.source f == t.fleet D == Displaced(s, f) IN
  /\ auth' = [AuthWithout(D) EXCEPT ![f] =
       [source |-> s, sgen |-> src[s].gen, agen |-> GenerationOnInstall(s, f),
        links |-> {l \in Retained(r) : epoch[l[1]] = l[2]}, age |-> t.answer.age]]
  /\ row' = RowsWithout(D)
  /\ src' = [SourcesEnded(D) EXCEPT ![s].state = "active", ![s].activated = TRUE,
                                    ![s].claim = NoClaim, ![s].due = FALSE]
  /\ Overtake

\* The boss's own link is among those retained whenever the consent stands: it
\* was current at bind, and a link that is lost ends the source.
CommitObservation(r) ==
  LET t == ticket[r] s == t.source IN
  /\ t # NoTicket
  /\ t.stage = "answered"
  /\ Finished(r)
  /\ \/ ~Current(r) /\ UNCHANGED <<src, auth, row, overtaken>>
     \/ /\ Current(r)
        /\ ConsentLost(s) \/ Terminal(r) \/ BossGone(r)
        /\ EndAll({s})
     \/ /\ Current(r) /\ ~ConsentLost(s) /\ ~Terminal(r) /\ Unusable(r)
        /\ Pause(s)
     \/ /\ Current(r) /\ ~ConsentLost(s) /\ ~Unusable(r) /\ ~BossGone(r)
        /\ \/ /\ ~SlotAsSeen(r)
              /\ src' = [src EXCEPT ![s].claim = NoClaim, ![s].due = FALSE]
              /\ UNCHANGED <<auth, row, overtaken>>
           \/ /\ SlotAsSeen(r)
              /\ GenerationOnInstall(s, t.fleet) > LastUsable
              /\ EndAll({s})
           \/ /\ SlotAsSeen(r)
              /\ GenerationOnInstall(s, t.fleet) <= LastUsable
              /\ Install(r)
  /\ UNCHANGED <<epoch, enabled, newest>>

-----------------------------------------------------------------------------
(* Maintenance, time, and the devices that publish under the evidence.      *)

\* Variant, not the code: evidence is let go a moment after it lapsed.
LapsedAMomentAgo(s) == \E f \in Fleets : Owns(s, f) /\ auth[f].age > EvidenceTime
EvidenceLapsed(s) == \E f \in Fleets : Owns(s, f) /\ auth[f].age >= EvidenceTime

\* Variant, not the code: only lapsed evidence is looked for.
MaintainEvidence(s) ==
  /\ src[s].state \in Live
  /\ \/ ConsentLost(s) /\ EndAll({s})
     \/ /\ ~ConsentLost(s) /\ EvidenceLapsed(s)
        /\ auth' = AuthWithout({s})
        /\ row' = RowsWithout({s})
        /\ src' = [src EXCEPT ![s].state = "paused"]
        /\ Overtake
  /\ UNCHANGED <<epoch, enabled, ticket, newest>>
Maintain(s) ==
  /\ src[s].state \in Live
  /\ \/ ConsentLost(s) /\ EndAll({s})
     \/ /\ ~ConsentLost(s)
        /\ src[s].claim = 0 /\ src[s].fetchGen >= LastUsable
        /\ EndAll({s})
     \/ /\ ~ConsentLost(s)
        /\ src[s].claim = 0 => src[s].fetchGen < LastUsable
        /\ src[s].claim = 0 \/ EvidenceLapsed(s)
        /\ auth' = AuthWithout({s})
        /\ row' = RowsWithout({s})
        /\ src' = [src EXCEPT ![s] =
             IF src[s].claim = 0
             THEN [@ EXCEPT !.state = "paused", !.claim = NoClaim,
                            !.fetchGen = src[s].fetchGen + 1]
             ELSE [@ EXCEPT !.state = "paused"]]
        /\ Overtake
  /\ UNCHANGED <<epoch, enabled, ticket, newest>>

\* The next attempt falls due: at once after a start, later after an answer.
FetchDue(s) ==
  /\ src[s].state \in Live
  /\ ~src[s].due
  /\ src' = [src EXCEPT ![s].due = TRUE]
  /\ UNCHANGED <<auth, row, epoch, enabled, ticket, overtaken, newest>>

Older(age)   == IF age < EvidenceTime THEN age + 1 ELSE age
Shorter(left) == IF left = 0 THEN 0 ELSE left - 1

Tick ==
  /\ src' = [s \in Sources |->
       [src[s] EXCEPT !.claim = IF @ = NoClaim THEN NoClaim ELSE Shorter(@),
                      !.left  = IF src[s].state \in Live THEN Shorter(@) ELSE @]]
  /\ auth' = [f \in Fleets |-> [auth[f] EXCEPT !.age = Older(@)]]
  /\ ticket' = [r \in Runs |->
       IF ticket[r] # NoTicket /\ ticket[r].answer.kind = "verified"
       THEN [ticket[r] EXCEPT !.answer.age = Older(@)] ELSE ticket[r]]
  /\ UNCHANGED <<row, epoch, enabled, overtaken, newest>>

\* currentSourceEvidence, for the character's current link.
Evidence(f, c) ==
  LET slot == auth[f] s == src[slot.source] IN
  /\ enabled
  /\ slot.source # Nobody
  /\ s.state = "active" /\ s.activated
  /\ s.gen = slot.sgen /\ s.fleet = f /\ epoch[s.boss] = s.epoch
  /\ slot.age < EvidenceTime
  /\ <<c, epoch[c]>> \in slot.links

\* sharedCharacterEligibility: a character in two fleets is in none.
Eligible(c, f) == Evidence(f, c) /\ \A g \in Fleets \ {f} : ~Evidence(g, c)

Publish(c, f) ==
  /\ Eligible(c, f)
  /\ row' = [row EXCEPT ![c] =
       [fleet |-> f, source |-> auth[f].source, sgen |-> auth[f].sgen,
        agen |-> auth[f].agen, epoch |-> epoch[c]]]
  /\ row' # row
  /\ UNCHANGED <<src, auth, epoch, enabled, ticket, overtaken, newest>>

\* Left out of the device's next publication, or past its hard expiry.
RowLeaves(c) ==
  /\ row[c] # NoRow
  /\ row' = [row EXCEPT ![c] = NoRow]
  /\ UNCHANGED <<src, auth, epoch, enabled, ticket, overtaken, newest>>

-----------------------------------------------------------------------------
DeviceStep == \/ \E s \in Sources, c \in Chars, left \in 1..IntentTime :
                   StartSource(s, c, left)
              \/ \E s \in Sources : StopUnknown(s) \/ StopSource(s)
              \/ \E c \in Chars, f \in Fleets : Publish(c, f)
LossStep   == (\E c \in Chars : GrantLost(c) \/ LinkLost(c) \/ Rotate(c)) \/ TransitionMode
RunStep(r) == \/ \E s \in Sources, g \in 1..2 : ClaimFetch(r, s, g)
              \/ \E refreshed \in BOOLEAN : GetToken(r, refreshed)
              \/ \E terminal \in BOOLEAN : UpstreamFails(r, terminal)
              \/ \E f \in Fleets : BindFleet(r, f)
              \/ \E members \in SUBSET Chars, age \in 0..(EvidenceTime - 1) :
                   ReadRoster(r, members, age)
              \/ TokenExpires(r) \/ Die(r) \/ CommitObservation(r)
WorkerStep == \/ \E s \in Sources : Maintain(s) \/ FetchDue(s)
              \/ \E c \in Chars : RowLeaves(c)

Next == DeviceStep \/ LossStep \/ (\E r \in Runs : RunStep(r)) \/ WorkerStep \/ Tick

Spec == Init /\ [][Next]_vars

\* The scheduler looks for lapsed claims, evidence and intents twice a second,
\* and time passes; nothing obliges a run, EVE or a device to do anything.
Fairness == WF_vars(Tick) /\ \A s \in Sources : WF_vars(Maintain(s))
LiveSpec == Spec /\ Fairness

-----------------------------------------------------------------------------
(* What the fleet's readers and the members rely on.                        *)

\* Every counter fits its column: the last value is kept for the withdrawal
\* that ends a source or a slot at its limit (int4 in the schema).
TypeOK ==
  /\ src \in [Sources -> SourceType]
  /\ auth \in [Fleets -> SlotType]
  /\ row \in [Chars -> RowType \union {NoRow}]
  /\ epoch \in [Chars -> 0..MaxEpoch]
  /\ enabled \in BOOLEAN
  /\ ticket \in [Runs -> TicketType \union {NoTicket}]
  /\ overtaken \subseteq Runs
  /\ newest \in [Sources -> Runs \union {Nobody}]

\* A slot that is held is held by a source that is active for this fleet, in
\* the very generation that proved it: whatever ends, pauses or supersedes a
\* consent leaves no authority behind.
SlotBacked ==
  \A f \in Fleets : auth[f].source # Nobody =>
    LET s == src[auth[f].source] IN
    /\ s.state = "active" /\ s.activated
    /\ s.fleet = f /\ s.gen = auth[f].sgen

\* A fleet has one proved consent at most, the paused ones included: a handover
\* ends its predecessor even when the slot had been emptied in between.
OneProvedSource ==
  \A s, o \in Sources :
    /\ src[s].activated /\ src[s].state \in Live
    /\ src[o].activated /\ src[o].state \in Live
    /\ src[s].fleet = src[o].fleet
    => s = o

\* A published row names the slot's present holder and generation and the
\* character's present link: no row outlives the authority it was published
\* under, so nothing comes back to life when a slot is filled again.
RowsBacked ==
  \A c \in Chars : row[c] # NoRow =>
    LET slot == auth[row[c].fleet] IN
    /\ slot.source = row[c].source /\ slot.sgen = row[c].sgen
    /\ slot.agen = row[c].agen
    /\ row[c].epoch = epoch[c]

\* A run that asked EVE while its slot was held by someone else, or was
\* withdrawn, never fills it with what it was told before that.
OvertakenRunsInstallNothing ==
  [][\A r \in overtaken :
       (Bound(r) /\ ticket[r].fleet # NoFleet /\ ticket'[r] = NoTicket) =>
       LET f == ticket[r].fleet IN auth'[f].source # Nobody => auth'[f] = auth[f]]_vars

\* Two runs may be at work on a source, for a claim expires under a slow one.
\* Only the one that claimed last has any effect when it ends.
OnlyLatestClaimCounts ==
  [][\A r \in Runs :
       (/\ ticket[r] # NoTicket /\ ticket'[r] = NoTicket
        /\ <<src, auth, row>>' # <<src, auth, row>>)
       => newest[ticket[r].source] = r]_vars

\* Evidence only ages: while a slot has its holder, nothing but a roster seen
\* later replaces it, so a cached answer given twice never extends a lease.
NoEvidenceReplayed ==
  [][Tick \/ \A f \in Fleets :
       /\ auth[f].source # Nobody
       /\ auth'[f].source = auth[f].source /\ auth'[f].sgen = auth[f].sgen
       /\ auth'[f] # auth[f]
       => auth'[f].age < auth[f].age]_vars

\* A claim does not wedge its source: it is settled or lapses, whatever became
\* of the run that took it.
ClaimsLapse == \A s \in Sources : src[s].claim # NoClaim ~> src[s].claim = NoClaim

\* A consent that never gets its first proof is over after its minute.
PendingSettles ==
  \A s \in Sources : src[s].state = "pending" ~> src[s].activated \/ src[s].state = "ended"

\* No source stays as a dead worker left it: maintenance alone frees its claim
\* and ends an intent nobody proved.
NothingWedges == ClaimsLapse /\ PendingSettles

\* Authority does not outlast its evidence, though nobody reads it.
EvidenceWithdrawn ==
  \A f \in Fleets :
    auth[f].source # Nobody /\ auth[f].age >= EvidenceTime ~> auth[f].age < EvidenceTime \/ auth[f].source = Nobody

\* The slots are what devices and runs take them for.
Fenced == INSTANCE FencedSlot WITH
  Slots <- Fleets, Holders <- Sources \X (1..2), Last <- MaxGeneration + 1,
  holder <- [f \in Fleets |-> IF auth[f].source = Nobody THEN Nobody
                               ELSE <<auth[f].source, auth[f].sgen>>],
  generation <- [f \in Fleets |-> auth[f].agen]
SlotsAreFenced == Fenced!Spec
=============================================================================
