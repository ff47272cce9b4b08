----------------------------- MODULE FleetRelay -----------------------------
(* The signed requests of paired devices (services/fleet-relay.ts,            *)
(* fleet-device.ts, fleet-participation.ts, the admission of                  *)
(* fleet-shared-admission.ts and the eligibility of fleet-eligibility.ts):    *)
(* what a device publishes of its characters, and who reads it.               *)
(*                                                                            *)
(* A request carries a revision and may arrive late, twice or never.  One     *)
(* request is one step: every transaction locks its devices and sessions, and *)
(* starts over if what it had to lock changed while it waited.  Every refusal *)
(* rolls back and leaves no trace, so one for a reason the model has no clock *)
(* for (too early, too old a sample, a lock timeout) is a request that never  *)
(* arrives.  The proofs of fleet membership come from FleetSource, pairing    *)
(* and recovery of devices from FleetDevices; here they come and go.          *)
EXTENDS Naturals, FiniteSets

CONSTANTS
  Accounts, Devices, Sessions, Chars, Fleets,
  AccountOf, DeviceOf,   \* of a device, of a session: neither ever changes
  MaxMessages, MaxGen,   \* bounds on requests sent and on generations
  NoRow

Caps == {"shared", "combat"}

(* slot: per fleet the authority generation and the characters its roster     *)
(* proved; part: a device's participation; sess: its sessions; row: lease and *)
(* telemetry row of a character, always written together; wire: requests      *)
(* sent.  History: newest, the latest revision applied per session, and late, *)
(* the sessions where one was applied after a later one or twice; latest,     *)
(* what the last accepted publication of a device held; and of a row, whether *)
(* anything it was published under has ended since.                           *)
VARIABLES owner, slot, part, sess, row, wire, newest, late, latest
vars == <<owner, slot, part, sess, row, wire, newest, late, latest>>

RowType ==
  [device : Devices, session : Sessions, fleet : Fleets, authority : 0..MaxGen,
   participation : 0..MaxGen, ended : BOOLEAN]
MessageType ==
  [session : Sessions, rev : 1..MaxMessages,
   op : [op : {"publish"}, rows : SUBSET Chars]
     \union [op : {"participate"}, on : BOOLEAN, expected : 0..MaxGen]
     \union [op : {"acknowledge"}, caps : SUBSET Caps]
     \union [op : {"read", "control"}]]

Init ==
  /\ owner \in [Chars -> Accounts]
  /\ slot = [f \in Fleets |-> [gen |-> 0, links |-> {}]]
  /\ \E p \in {[on |-> FALSE, gen |-> 0], [on |-> TRUE, gen |-> 1]} : part = [d \in Devices |-> p]
  /\ \E caps \in {{}, Caps} : sess = [s \in Sessions |-> [live |-> TRUE, rev |-> 0, ack |-> caps]]
  /\ row = [c \in Chars |-> NoRow]
  /\ wire = {}
  /\ newest = [s \in Sessions |-> 0] /\ late = {}
  /\ latest = [d \in Devices |-> {}]

-----------------------------------------------------------------------------
(* Admission.                                                                 *)

RowsOf(d) == {c \in Chars : row[c] # NoRow /\ row[c].device = d}

\* A character in the rosters of two fleets is eligible in none.
EligibleFleet(c) ==
  LET F == {f \in Fleets : c \in slot[f].links} IN IF Cardinality(F) = 1 THEN F ELSE {}

Allowed(s)      == sess[s].live /\ "shared" \in sess[s].ack
Participant(s)  == Allowed(s) /\ part[DeviceOf[s]].on
Publisher(s)    == Participant(s) /\ "combat" \in sess[s].ack

\* One counter per session for every kind of request.
Newer(s, rev) == rev > sess[s].rev

\* Variant, not the code: an accepted request leaves the counter alone.
NotCommitted(s, rev) == sess
\* commitSessionCadence; every accepted request ends with it.
Committed(s, rev) == [sess EXCEPT ![s].rev = rev]

Logged(s, rev) ==
  /\ newest' = [newest EXCEPT ![s] = IF rev > @ THEN rev ELSE @]
  /\ late' = IF rev > newest[s] THEN late ELSE late \union {s}

\* What a change ends of the consent rows were published under.
Ending(C) == [c \in Chars |-> IF c \in C THEN [row[c] EXCEPT !.ended = TRUE] ELSE row[c]]
Deleting(C) == [c \in Chars |-> IF c \in C THEN NoRow ELSE row[c]]

-----------------------------------------------------------------------------
(* The world: rosters, links and sessions change between two requests.        *)

\* A roster read proves who is in the fleet; the generation stays.
Prove(f, L) ==
  /\ L # slot[f].links
  /\ slot' = [slot EXCEPT ![f].links = L]
  /\ UNCHANGED <<owner, part, sess, row, wire, newest, late, latest>>

\* The source ends, or its evidence does.
Disprove(f) ==
  /\ slot[f].links # {} /\ slot[f].gen < MaxGen
  /\ slot' = [slot EXCEPT ![f] = [gen |-> @.gen + 1, links |-> {}]]
  /\ row' = Deleting({c \in Chars : row[c] # NoRow /\ row[c].fleet = f})
  /\ UNCHANGED <<owner, part, sess, wire, newest, late, latest>>

\* A new owner, a new link epoch: no proof and no row of the old one counts.
Move(c, a) ==
  /\ owner[c] # a
  /\ owner' = [owner EXCEPT ![c] = a]
  /\ slot' = [f \in Fleets |-> [slot[f] EXCEPT !.links = @ \ {c}]]
  /\ row' = Deleting({c})
  /\ UNCHANGED <<part, sess, wire, newest, late, latest>>

\* A session's time is over; its rows stay until they are pruned.
SessionEnds(s) ==
  /\ sess[s].live
  /\ sess' = [sess EXCEPT ![s].live = FALSE]
  /\ row' = Ending({c \in Chars : row[c] # NoRow /\ row[c].session = s})
  /\ UNCHANGED <<owner, slot, part, wire, newest, late, latest>>

\* Expired rows are invisible, whether a maintenance pass has come by or not.
Prune(c) ==
  /\ row[c] # NoRow
  /\ row' = Deleting({c})
  /\ UNCHANGED <<owner, slot, part, sess, wire, newest, late, latest>>

-----------------------------------------------------------------------------
(* Requests.  A client numbers them; the network delivers them in any order.  *)

Send(s, op) ==
  LET sent == {m \in wire : m.session = s} IN
  /\ Cardinality(wire) < MaxMessages
  /\ wire' = wire \union {[session |-> s, rev |-> Cardinality(sent) + 1, op |-> op]}
  /\ UNCHANGED <<owner, slot, part, sess, row, newest, late, latest>>

SendAny(s) ==
  \/ \E P \in SUBSET Chars : Send(s, [op |-> "publish", rows |-> P])
  \/ \E on \in BOOLEAN : Send(s, [op |-> "participate", on |-> on,
                                  expected |-> part[DeviceOf[s]].gen])
  \/ Send(s, [op |-> "acknowledge", caps |-> Caps])
  \/ \E op \in {"read", "control"} : Send(s, [op |-> op])

Take(m, op) == m.op.op = op /\ sess[m.session].live /\ Newer(m.session, m.rev)

\* Variant, not the code: what this publication omits is left as it was.
NoneOmitted(d, P) == {}
\* A publication replaces everything of its device, whichever session sent it.
Omitted(d, P) == RowsOf(d) \ P

\* replaceDeviceProjection: all of it or nothing.
Publish(m) ==
  LET s == m.session d == DeviceOf[s] P == m.op.rows IN
  /\ Take(m, "publish")
  /\ Allowed(s)
  /\ P # {} => Publisher(s)
  /\ \A c \in P : /\ owner[c] = AccountOf[d]
                  /\ EligibleFleet(c) # {}
                  /\ row[c] # NoRow => row[c].device = d \/ ~sess[row[c].session].live
  /\ row' = [c \in Chars |->
       IF c \in P
       THEN LET f == CHOOSE g \in EligibleFleet(c) : TRUE IN
            [device |-> d, session |-> s, fleet |-> f, authority |-> slot[f].gen,
             participation |-> part[d].gen, ended |-> FALSE]
       ELSE IF c \in Omitted(d, P) THEN NoRow ELSE row[c]]
  /\ sess' = Committed(s, m.rev)
  /\ latest' = [latest EXCEPT ![d] = P]
  /\ Logged(s, m.rev)
  /\ UNCHANGED <<owner, slot, part, wire>>

\* Variant, not the code: rows stay when participation is switched off.
RowsStay(d, on) == Ending(RowsOf(d))
\* Off takes the rows along; any change ends what they were published under.
AfterParticipation(d, on) == IF on THEN Ending(RowsOf(d)) ELSE Deleting(RowsOf(d))

\* setFleetParticipation: compare and set on the device's generation.
Participate(m) ==
  LET s == m.session d == DeviceOf[s] IN
  /\ Take(m, "participate")
  /\ Allowed(s)
  /\ part[d].gen = m.op.expected /\ part[d].gen < MaxGen
  /\ row' = AfterParticipation(d, m.op.on)
  /\ part' = [part EXCEPT ![d] = [on |-> m.op.on, gen |-> @.gen + 1]]
  /\ sess' = Committed(s, m.rev)
  /\ Logged(s, m.rev)
  /\ UNCHANGED <<owner, slot, wire, latest>>

\* acknowledgeFleetCapabilities: needs no participation.
Acknowledge(m) ==
  LET s == m.session IN
  /\ Take(m, "acknowledge")
  /\ sess' = [Committed(s, m.rev) EXCEPT ![s].ack = m.op.caps]
  /\ Logged(s, m.rev)
  /\ UNCHANGED <<owner, slot, part, row, wire, latest>>

\* Variant, not the code: the participation of the publication is not compared.
AuthorityOnly(r) == r.authority = slot[r.fleet].gen
\* The lease and the row must still name precisely what holds now.
StillNamed(r) ==
  /\ r.authority = slot[r.fleet].gen
  /\ r.participation = part[r.device].gen

\* readFleetProjection: rows of the fleets the reader's own characters are in.
Projection(s) ==
  LET mine == UNION {EligibleFleet(c) : c \in {x \in Chars : owner[x] = AccountOf[DeviceOf[s]]}} IN
  {c \in Chars :
     /\ row[c] # NoRow
     /\ EligibleFleet(c) = {row[c].fleet} /\ row[c].fleet \in mine
     /\ owner[c] = AccountOf[row[c].device]
     /\ Publisher(row[c].session)
     /\ StillNamed(row[c])}

Read(m) ==
  LET s == m.session IN
  /\ Take(m, "read")
  /\ Participant(s)
  /\ \E c \in Chars : owner[c] = AccountOf[DeviceOf[s]] /\ EligibleFleet(c) # {}
  /\ sess' = Committed(s, m.rev)
  /\ Logged(s, m.rev)
  /\ UNCHANGED <<owner, slot, part, row, wire, latest>>

\* The catalogue, the device's state, a renewal: setup before any consent.
Control(m) ==
  /\ Take(m, "control")
  /\ sess' = Committed(m.session, m.rev)
  /\ Logged(m.session, m.rev)
  /\ UNCHANGED <<owner, slot, part, row, wire, latest>>

-----------------------------------------------------------------------------
World  == \/ \E f \in Fleets : Disprove(f) \/ \E L \in SUBSET Chars : Prove(f, L)
          \/ \E c \in Chars : Prune(c) \/ \E a \in Accounts : Move(c, a)
          \/ \E s \in Sessions : SessionEnds(s)
Client == \E s \in Sessions : SendAny(s)
Server == \E m \in wire : \/ Publish(m) \/ Participate(m) \/ Acknowledge(m)
                          \/ Read(m) \/ Control(m)
Next == World \/ Client \/ Server
Spec == Init /\ [][Next]_vars

-----------------------------------------------------------------------------
TypeOK ==
  /\ owner \in [Chars -> Accounts]
  /\ slot \in [Fleets -> [gen : 0..MaxGen, links : SUBSET Chars]]
  /\ part \in [Devices -> [on : BOOLEAN, gen : 0..MaxGen]]
  /\ sess \in [Sessions -> [live : BOOLEAN, rev : 0..MaxMessages, ack : SUBSET Caps]]
  /\ row \in [Chars -> RowType \union {NoRow}]
  /\ wire \subseteq MessageType
  /\ newest \in [Sessions -> 0..MaxMessages] /\ late \subseteq Sessions
  /\ latest \in [Devices -> SUBSET Chars]

\* Late, repeated and overtaken requests do nothing: each takes effect once at
\* most, in the order its device sent them, whatever kinds they are.
RequestsOnceInOrder == late = {}

\* A device's rows are those of its latest accepted publication, never a mix of
\* two, though several of its sessions publish; and none while it is switched off.
LatestPublicationWins ==
  \A d \in Devices : RowsOf(d) \subseteq (IF part[d].on THEN latest[d] ELSE {})

\* What was published under a consent, a session or an authority that has ended
\* since is not shown to anybody, even when everything is granted again.
EndedStaysHidden == \A s \in Sessions : \A c \in Projection(s) : ~row[c].ended
=============================================================================
