--------------------------- MODULE FleetAutomatic ---------------------------
(* Automatic fleet sharing of one account (services/fleet-automatic.ts,       *)
(* core/fleet-automatic.ts, jobs/fleet-automatic.ts): a device switches a     *)
(* consent on; a scheduler reserves one discovery per character and hands it  *)
(* to the queue, which may lose or repeat it; a job claims the reservation,   *)
(* asks EVE with the character's token, binds to the fleet it found, reads    *)
(* the roster and commits a fleet source.  Between any two of these steps the *)
(* consent may be closed or replaced, the device revoked, the character       *)
(* linked anew, its token rotated.                                            *)
(*                                                                            *)
(* Each transaction locks everything it reads and starts over when its        *)
(* selectors changed, so it is one step; deadlines are a bit that time may    *)
(* clear at any moment, and the pacing of retries only says when a step may   *)
(* happen.  What a source does once it exists is FleetSource's.               *)
EXTENDS Naturals, FiniteSets

CONSTANTS
  Chars, Devices, Fleets, Requests, Workers,
  MaxIds,      \* bound: reservations ever made
  MaxChanges,  \* bound: links renewed, tokens rotated, slots taken by others
  NoChar, NoDevice, NoFleet, Idle

Ids == 1..MaxIds

(* consent, cand: fleet_automatic_consent and _candidate; src: the automatic  *)
(* sources by the reservation they came from; queue: discoveries handed to    *)
(* the queue; receipt: commands remembered.  boss, revoked, member, on and    *)
(* slot are the world around; job, what a worker holds; sent, the commands    *)
(* clients retry.  applied is history: how often a command took effect.       *)
VARIABLES consent, cand, src, queue, receipt, boss, revoked, member, on, slot, job,
          sent, applied, ids, changes
vars == <<consent, cand, src, queue, receipt, boss, revoked, member, on, slot, job,
          sent, applied, ids, changes>>
world == <<boss, revoked, member, on, slot, changes>>
commands == <<receipt, sent, applied>>

MaxGen == Cardinality(Requests)
MaxRev == 2 * Cardinality(Requests)
ConsentType == [gen : 0..MaxGen, rev : 0..MaxRev, enabled : BOOLEAN,
                by : Devices \union {NoDevice}]
\* cb: the reservation or claim outstanding, live until its deadline.
CandType == [gen : 0..(MaxGen + MaxChanges + 1), cgen : 0..MaxGen, epoch : 0..MaxChanges,
             latch : BOOLEAN, cb : {"none", "reserved", "claimed"}, live : BOOLEAN,
             id : 0..MaxIds, claims : 0..MaxIds, source : 0..MaxIds]
SourceType == [state : {"none", "live", "ended"}, char : Chars \union {NoChar}, epoch : 0..MaxChanges,
               cgen : 0..MaxGen, by : Devices \union {NoDevice}, fleet : Fleets \union {NoFleet}]
TaskType == [char : Chars, cgen : 0..MaxGen, gen : 0..(MaxGen + MaxChanges + 1), id : Ids]
JobType == [stage : {"claimed", "admitted", "bound", "refused"}, task : TaskType,
            rev : 0..MaxRev, by : Devices, epoch : 0..MaxChanges, claims : 0..MaxIds,
            token : 0..MaxChanges, fleet : Fleets \union {NoFleet}, seen : Nat]

NoSource == [state |-> "none", char |-> NoChar, epoch |-> 0, cgen |-> 0,
             by |-> NoDevice, fleet |-> NoFleet]
NewCand == [gen |-> 0, cgen |-> 0, epoch |-> 0, latch |-> FALSE, cb |-> "none",
            live |-> FALSE, id |-> 0, claims |-> 0, source |-> 0]

Init ==
  /\ consent = [gen |-> 0, rev |-> 0, enabled |-> FALSE, by |-> NoDevice]
  /\ cand = [c \in Chars |-> NewCand]
  /\ src = [i \in Ids |-> NoSource]
  /\ queue = {} /\ receipt = {}
  /\ boss = [c \in Chars |-> [epoch |-> 0, token |-> 0, grant |-> TRUE]]
  /\ revoked = {} /\ member = TRUE /\ on = TRUE
  /\ slot = [f \in Fleets |-> 0]
  /\ job = [w \in Workers |-> Idle]
  /\ sent = {} /\ applied = [q \in Requests |-> 0]
  /\ ids = 0 /\ changes = 0

-----------------------------------------------------------------------------
Cleared(c) == [cand[c] EXCEPT !.cb = "none", !.live = FALSE, !.id = 0, !.source = 0]
Live(i)    == src[i].state = "live"
Ended(S)   == [i \in Ids |-> IF i \in S /\ Live(i) THEN [src[i] EXCEPT !.state = "ended"] ELSE src[i]]
OfGeneration(g) == {i \in Ids : src[i].cgen = g}
OfBoss(c)  == {i \in Ids : src[i].char = c}

Suspended(c) == cand[c].latch /\ cand[c].epoch = boss[c].epoch
Working == on /\ member /\ consent.enabled /\ consent.by \notin revoked

-----------------------------------------------------------------------------
(* Closing and opening the consent.                                           *)

\* Variant, not the code: the sources of a closed consent run on.
SourcesRunOn(S) == src
\* closeGeneration ends exactly the sources of the generation it closes.
EndedBy(S) == Ended(S)

\* The consent is off and its candidates have nothing outstanding.
Closed ==
  /\ consent' = [consent EXCEPT !.enabled = FALSE, !.rev = @ + 1]
  /\ cand' = [c \in Chars |-> IF cand[c].cgen = consent.gen THEN Cleared(c) ELSE cand[c]]
  /\ src' = EndedBy(OfGeneration(consent.gen))

\* A new generation, in place of the one before it; no discovery starts yet.
Opened(d) ==
  /\ consent' = [gen |-> consent.gen + 1, rev |-> consent.rev + 1, enabled |-> TRUE, by |-> d]
  /\ cand' = [c \in Chars |-> Cleared(c)]
  /\ src' = IF consent.enabled THEN EndedBy(OfGeneration(consent.gen)) ELSE src

\* A device, or for Off a browser, sends what it decided on the state it saw,
\* and sends it again until it hears the answer.
Send(q, onOff, d) ==
  /\ \A m \in sent : m.id # q
  /\ onOff => d \in Devices
  /\ sent' = sent \union {[id |-> q, on |-> onOff, by |-> d, gen |-> consent.gen, rev |-> consent.rev]}
  /\ UNCHANGED <<consent, cand, src, queue, receipt, world, job, applied, ids>>

\* validateNewCommand: what the client saw must still hold.
AsSeen(m) == m.gen = consent.gen /\ m.rev = consent.rev

\* applyFleetAutomaticCommand.  A replay, a conflict or an Off that finds it
\* off changes nothing.
Command(m) ==
  /\ m.id \notin receipt
  /\ AsSeen(m)
  /\ m.by \notin revoked
  /\ \/ m.on /\ member /\ on /\ Opened(m.by)
     \/ ~m.on /\ consent.enabled /\ Closed
  /\ receipt' = receipt \union {m.id}
  /\ applied' = [applied EXCEPT ![m.id] = IF @ < 2 THEN @ + 1 ELSE @]
  /\ UNCHANGED <<queue, world, job, sent, ids>>

\* Receipts are kept for a day.
ReceiptExpires(q) ==
  /\ q \in receipt
  /\ receipt' = receipt \ {q}
  /\ UNCHANGED <<consent, cand, src, queue, world, job, sent, applied, ids>>

\* The owner stops a source: of the current generation it closes the consent.
StopSource(i) ==
  /\ Live(i)
  /\ IF consent.enabled /\ src[i].cgen = consent.gen THEN Closed
     ELSE src' = Ended({i}) /\ UNCHANGED <<consent, cand>>
  /\ UNCHANGED <<queue, commands, world, job, ids>>

\* revokeFleetAutomaticApproval: the consent goes with the device it hangs on.
Revoke(d) ==
  /\ d \notin revoked
  /\ revoked' = revoked \union {d}
  /\ IF consent.enabled /\ consent.by = d THEN Closed
     ELSE src' = Ended({i \in Ids : src[i].by = d}) /\ UNCHANGED <<consent, cand>>
  /\ UNCHANGED <<queue, commands, boss, member, on, slot, changes, job, ids>>

-----------------------------------------------------------------------------
(* What else happens meanwhile: it ends sources, never the consent.           *)

Counted == changes < MaxChanges /\ changes' = changes + 1

\* The character is linked anew: another epoch, another token.
Relink(c) ==
  /\ Counted
  /\ boss' = [boss EXCEPT ![c] = [epoch |-> @.epoch + 1, token |-> @.token + 1, grant |-> TRUE]]
  /\ src' = Ended(OfBoss(c))
  /\ UNCHANGED <<consent, cand, queue, commands, revoked, member, on, slot, job, ids>>

\* The token rotates, or the grant is lost with the sources read through it.
Rotate(c, grant) ==
  /\ Counted
  /\ boss' = [boss EXCEPT ![c].token = @ + 1, ![c].grant = grant]
  /\ src' = IF grant THEN src ELSE Ended(OfBoss(c))
  /\ UNCHANGED <<consent, cand, queue, commands, revoked, member, on, slot, job, ids>>

\* Membership or the sharing mode is lost, with every source, or comes back.
Suspend(m, o) ==
  /\ <<m, o>> # <<member, on>>
  /\ Counted
  /\ member' = m /\ on' = o
  /\ src' = IF m /\ o THEN src ELSE Ended(Ids)
  /\ UNCHANGED <<consent, cand, queue, commands, boss, revoked, slot, job, ids>>

\* Somebody else's source takes the fleet's slot.
Overtake(f) ==
  /\ Counted
  /\ slot' = [slot EXCEPT ![f] = @ + 1]
  /\ src' = Ended({i \in Ids : src[i].fleet = f})
  /\ UNCHANGED <<consent, cand, queue, commands, boss, revoked, member, on, job, ids>>

\* A source of ours ends on its own.
SourceEnds(i) ==
  /\ Live(i)
  /\ src' = Ended({i})
  /\ UNCHANGED <<consent, cand, queue, commands, world, job, ids>>

Lapse(c) ==
  /\ cand[c].live
  /\ cand' = [cand EXCEPT ![c].live = FALSE]
  /\ UNCHANGED <<consent, src, queue, commands, world, job, ids>>

-----------------------------------------------------------------------------
(* The scheduler.                                                             *)

\* Variant, not the code: a new consent pardons what was refused before.
Pardoned(c) ==
  [Cleared(c) EXCEPT !.gen = @ + 1, !.cgen = consent.gen, !.epoch = boss[c].epoch, !.latch = FALSE]
\* reconcileAutomaticCandidateBinding: only another identity clears the latch.
Rebound(c) ==
  [Cleared(c) EXCEPT !.gen = @ + 1, !.cgen = consent.gen, !.epoch = boss[c].epoch,
                     !.latch = @ /\ cand[c].epoch = boss[c].epoch]
Reconciled(c) ==
  IF cand[c].gen > 0 /\ cand[c].epoch = boss[c].epoch /\ cand[c].cgen = consent.gen
  THEN cand[c] ELSE Rebound(c)

LiveSources(c) ==
  {i \in Ids : Live(i) /\ src[i].char = c /\ src[i].cgen = consent.gen
                /\ src[i].by = consent.by /\ src[i].epoch = boss[c].epoch}

\* pruneAutomaticOutbox: what no live reservation stands behind is dropped.
Pruned == {t \in queue : LET k == cand[t.char] IN
             /\ k.cb = "reserved" /\ k.live /\ k.id = t.id
             /\ k.cgen = t.cgen /\ k.gen = t.gen}

\* No callback, and nothing to wait for.
Rests(k) == [k EXCEPT !.cb = "none", !.live = FALSE, !.id = 0]

\* A new reservation, and the task that carries it.
Reservation(c, k) ==
  /\ ids < MaxIds /\ ids' = ids + 1
  /\ cand' = [cand EXCEPT ![c] = [k EXCEPT !.source = 0, !.cb = "reserved", !.live = TRUE, !.id = ids + 1]]
  /\ queue' = Pruned \union {[char |-> c, cgen |-> k.cgen, gen |-> k.gen, id |-> ids + 1]}

\* reserveAutomaticAccount, for one character: refused, served already, without
\* a grant, or to be looked for, unless its callback is still awaited.
Reserve(c) ==
  LET k == Reconciled(c) IN
  /\ \/ /\ k.latch \/ LiveSources(c) # {} \/ ~boss[c].grant
        /\ cand' = [cand EXCEPT ![c] = [Rests(k) EXCEPT !.source =
             IF k.latch \/ LiveSources(c) = {} THEN 0 ELSE CHOOSE i \in LiveSources(c) : TRUE]]
        /\ queue' = Pruned /\ UNCHANGED ids
     \/ /\ ~k.latch /\ LiveSources(c) = {} /\ boss[c].grant
        /\ k.live => k.cb = "none"
        /\ Reservation(c, k)
  /\ <<cand', queue'>> # <<cand, queue>>
  /\ UNCHANGED <<consent, src, commands, world, job>>

\* reserveDueFleetAutomatic, whose share of the budget may be any character.
ReserveDue == Working /\ \E c \in Chars : Reserve(c)

-----------------------------------------------------------------------------
(* The job.                                                                   *)

\* prepareAutomaticDiscovery: the task still names the consent, the candidate
\* and the character as they are.
Admitted(t) ==
  LET c == t.char IN
  /\ Working
  /\ consent.gen = t.cgen
  /\ cand[c].cgen = t.cgen /\ cand[c].gen = t.gen /\ cand[c].epoch = boss[c].epoch
  /\ boss[c].grant
  /\ ~Suspended(c)

\* Delivered once or more; only the first finds its reservation.
Claim(w, t) ==
  LET c == t.char IN
  /\ job[w] = Idle
  /\ Admitted(t)
  /\ cand[c].cb = "reserved" /\ cand[c].live /\ cand[c].id = t.id /\ cand[c].source = 0
  /\ cand' = [cand EXCEPT ![c].cb = "claimed", ![c].claims = @ + 1]
  /\ job' = [job EXCEPT ![w] =
       [stage |-> "claimed", task |-> t, rev |-> consent.rev, by |-> consent.by,
        epoch |-> boss[c].epoch, claims |-> cand[c].claims + 1, token |-> 0,
        fleet |-> NoFleet, seen |-> 0]]
  /\ UNCHANGED <<consent, src, queue, commands, world, ids>>

\* currentAutomaticClaim
CurrentClaim(j) ==
  LET k == cand[j.task.char] IN
  /\ Admitted(j.task)
  /\ consent.rev = j.rev /\ consent.by = j.by
  /\ boss[j.task.char].epoch = j.epoch
  /\ k.cb = "claimed" /\ k.live /\ k.id = j.task.id /\ k.claims = j.claims /\ k.source = 0
\* currentAutomaticToken
CurrentToken(j) == CurrentClaim(j) /\ boss[j.task.char].token = j.token

\* EVE is asked outside any transaction, with the token of that moment.
GetToken(w) ==
  /\ job[w] # Idle /\ job[w].stage = "claimed"
  /\ job' = [job EXCEPT ![w].stage = "admitted", ![w].token = boss[job[w].task.char].token]
  /\ UNCHANGED <<consent, cand, src, queue, commands, world, ids>>

Bind(w, f) ==
  /\ job[w] # Idle /\ job[w].stage = "admitted"
  /\ job' = [job EXCEPT ![w] =
       IF CurrentToken(job[w]) THEN [@ EXCEPT !.stage = "bound", !.fleet = f, !.seen = slot[f]]
       ELSE Idle]
  /\ UNCHANGED <<consent, cand, src, queue, commands, world, ids>>

\* Variant, not the code: the claim checked when it bound is not checked again.
AsBound(j) == TRUE
\* The whole claim and its token, once more, under the locks of the commit.
Committable(j) == CurrentToken(j)

\* Variant, not the code: the fleet's other sources stay.
NoneDisplaced(f) == src
Displaced(f) == Ended({i \in Ids : src[i].fleet = f})

\* The binding has a live source: its own run refreshes it, in its own fleet only.
Reuse(w, i) ==
  LET j == job[w] c == j.task.char IN
  /\ IF src[i].fleet = j.fleet
     THEN /\ cand' = [cand EXCEPT ![c] = [Cleared(c) EXCEPT !.source = i]]
          /\ job' = [job EXCEPT ![w] = Idle]
     ELSE UNCHANGED cand /\ job' = [job EXCEPT ![w].stage = "refused"]
  /\ UNCHANGED <<src, slot>>

\* A new source takes the slot, if nobody has taken it since it was looked at.
Create(w) ==
  LET j == job[w] c == j.task.char IN
  IF slot[j.fleet] # j.seen
  THEN job' = [job EXCEPT ![w].stage = "refused"] /\ UNCHANGED <<cand, src, slot>>
  ELSE /\ src' = [Displaced(j.fleet) EXCEPT ![j.task.id] =
            [state |-> "live", char |-> c, epoch |-> j.epoch, cgen |-> j.task.cgen,
             by |-> j.by, fleet |-> j.fleet]]
       /\ slot' = [slot EXCEPT ![j.fleet] = @ + 1]
       /\ cand' = [cand EXCEPT ![c] = [Cleared(c) EXCEPT !.source = j.task.id]]
       /\ job' = [job EXCEPT ![w] = Idle]

\* commitFleetAutomaticDiscovery: a source is created, or the binding's live
\* one is used again, or it is refused and the claim released next.
Commit(w) ==
  LET j == job[w] same == LiveSources(j.task.char) IN
  /\ j # Idle /\ j.stage = "bound"
  /\ IF ~Committable(j)
     THEN job' = [job EXCEPT ![w].stage = "refused"] /\ UNCHANGED <<cand, src, slot>>
     ELSE IF same # {} THEN Reuse(w, CHOOSE s \in same : TRUE) ELSE Create(w)
  /\ UNCHANGED <<consent, queue, commands, boss, revoked, member, on, changes, ids>>

\* settleAutomaticCommit: only its own outstanding claim, however stale.
Release(w) ==
  LET j == job[w] c == j.task.char k == cand[c] IN
  /\ j # Idle /\ j.stage = "refused"
  /\ cand' = IF /\ k.cgen = j.task.cgen /\ k.gen = j.task.gen /\ k.epoch = j.epoch
                /\ k.cb = "claimed" /\ k.id = j.task.id /\ k.claims = j.claims /\ k.source = 0
             THEN [cand EXCEPT ![c] = Cleared(c)] ELSE cand
  /\ job' = [job EXCEPT ![w] = Idle]
  /\ UNCHANGED <<consent, src, queue, commands, world, ids>>

\* settleFleetAutomaticDiscovery and ...AuthorizationLoss: EVE's answer was no
\* fleet, no answer, or that the token is refused, which suspends the character.
Settle(w, refused) ==
  LET j == job[w] c == j.task.char IN
  /\ j # Idle /\ j.stage \in {"claimed", "admitted", "bound"}
  /\ refused => j.stage # "claimed"
  /\ cand' = IF IF j.stage = "claimed" THEN CurrentClaim(j) ELSE CurrentToken(j)
             THEN [cand EXCEPT ![c] = [Cleared(c) EXCEPT !.latch = refused]] ELSE cand
  /\ job' = [job EXCEPT ![w] = Idle]
  /\ UNCHANGED <<consent, src, queue, commands, world, ids>>

\* The worker dies, or its job times out, at any stage.
Die(w) ==
  /\ job[w] # Idle
  /\ job' = [job EXCEPT ![w] = Idle]
  /\ UNCHANGED <<consent, cand, src, queue, commands, world, ids>>

-----------------------------------------------------------------------------
Control == \/ \E q \in Requests, d \in Devices \union {NoDevice}, o \in BOOLEAN : Send(q, o, d)
           \/ \E m \in sent : Command(m)
           \/ \E q \in Requests : ReceiptExpires(q)
           \/ \E i \in Ids : StopSource(i)
           \/ \E d \in Devices : Revoke(d)
World == \/ \E c \in Chars : Relink(c) \/ Lapse(c) \/ \E g \in BOOLEAN : Rotate(c, g)
         \/ \E m, o \in BOOLEAN : Suspend(m, o)
         \/ \E f \in Fleets : Overtake(f)
         \/ \E i \in Ids : SourceEnds(i)
Work == \/ ReserveDue
        \/ \E w \in Workers : \/ \E t \in queue : Claim(w, t)
                              \/ GetToken(w) \/ Commit(w) \/ Release(w) \/ Die(w)
                              \/ \E f \in Fleets : Bind(w, f)
                              \/ \E r \in BOOLEAN : Settle(w, r)
Next == Control \/ World \/ Work
Spec == Init /\ [][Next]_vars

-----------------------------------------------------------------------------
TypeOK ==
  /\ consent \in ConsentType /\ cand \in [Chars -> CandType] /\ src \in [Ids -> SourceType]
  /\ queue \subseteq TaskType /\ receipt \subseteq Requests
  /\ job \in [Workers -> JobType \union {Idle}]
  /\ ids \in 0..MaxIds /\ changes \in 0..MaxChanges

\* A source that is live was made under the consent that is on now, by its
\* device and for the character as it is linked now, whatever changed between
\* the first question to EVE and the commit.
SourcesHaveConsent ==
  \A i \in Ids : Live(i) =>
    /\ Working
    /\ src[i].cgen = consent.gen /\ src[i].by = consent.by
    /\ src[i].epoch = boss[src[i].char].epoch /\ boss[src[i].char].grant

\* A token EVE refused is not tried again under any later consent or claim, nor
\* is the refusal undone by a job that comes late: only a new link forgets it.
RefusalStays ==
  [][\A c \in Chars : Suspended(c) /\ boss'[c].epoch = boss[c].epoch =>
       cand'[c].latch /\ cand'[c].cb # "claimed"]_vars

\* A command takes effect once, though its client repeats it, and though the
\* receipt that would recognise it has expired.
CommandsOnce == \A q \in Requests : applied[q] <= 1
=============================================================================
