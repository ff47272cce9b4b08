---------------------------- MODULE FleetDevices ----------------------------
(* The desktop devices that relay fleet telemetry: their registration by a    *)
(* signed-in account (services/fleet-pairing.ts), the index of canonical keys *)
(* (services/fleet-key-identity.ts), the recovery of a lost session by a      *)
(* signed challenge (services/fleet-recovery.ts) and the mode that drains     *)
(* them all (services/fleet-sharing-mode.ts).  What a device says in its      *)
(* sessions is FleetRelay's.                                                  *)
(*                                                                            *)
(* Everything that registers or recovers holds the mode lock, shared, and     *)
(* once the index is ready the lock of the key; a deletion of an account      *)
(* holds neither and takes its devices along.  So an approval and a           *)
(* completion are two steps: what the transaction read of the key, and what   *)
(* it does once it has waited for the rows.  Deadlines are a bit that time    *)
(* may clear at any moment.                                                   *)
EXTENDS Naturals, FiniteSets

CONSTANTS
  Accounts, Devices, Requests, Sessions, Challenges, Workers,
  Keys, Canonical,  \* encodings of public keys, and the canonical form of each
  Caps,             \* capabilities a browser may approve
  Batch,            \* devices indexed in one transaction (100 in the code)
  PerKey,           \* open challenges of one key (4 in the code)
  NoAccount, NoDevice, Idle

ASSUME FleetDevicesAssumption ==
  /\ Canonical \in [Keys -> Keys] /\ \A k \in Keys : Canonical[Canonical[k]] = Canonical[k]
  /\ Keys # {} /\ IsFiniteSet(Devices)
  /\ Batch \in Nat \ {0} /\ PerKey \in Nat
  /\ NoAccount \notin Accounts /\ NoDevice \notin Devices
  /\ Devices \intersect {"free", "conflicted", "deleted"} = {}

(* mode: the sharing gate; indexed: devices the reconciliation has passed;    *)
(* tier: who is a member, who is deleted; index: fleet_device_key_identity by *)
(* canonical key; work: transactions and recoveries in flight.  The rest is   *)
(* history: binding is the account a canonical key was first registered for   *)
(* since the index is ready, spent how often a challenge gave a session.      *)
VARIABLES mode, indexed, tier, device, index, request, session, challenge, work,
          binding, spent
vars == <<mode, indexed, tier, device, index, request, session, challenge, work,
          binding, spent>>

CanonicalKeys == {Canonical[k] : k \in Keys}
Phases == {"pending", "reconciling", "ready"}

DeviceType ==
  [state : {"none", "active", "revoked", "deleted"}, owner : Accounts \union {NoAccount},
   key : Keys, caps : SUBSET Caps]
RequestType ==
  [state : {"none", "open", "approved", "over"}, key : Keys, caps : SUBSET Caps,
   by : Accounts \union {NoAccount}]
SessionType == [device : Devices \union {NoDevice}, caps : SUBSET Caps]
ChallengeType == [state : {"none", "open", "consumed", "expired", "purged"}, key : Keys]
WorkType ==
  [op : {"approve", "complete"}, request : Requests, account : Accounts,
   dev : Devices \union {NoDevice}, owner : Accounts \union {NoAccount}]
    \union [op : {"recover"}, challenge : Challenges]

SomeKey == CHOOSE k \in Keys : TRUE
NewDevice == [state |-> "none", owner |-> NoAccount, key |-> SomeKey, caps |-> {}]
NewRequest == [state |-> "none", key |-> SomeKey, caps |-> {}, by |-> NoAccount]
NoSession == [device |-> NoDevice, caps |-> {}]
NewChallenge == [state |-> "none", key |-> SomeKey]

Init ==
  /\ mode = [enabled |-> FALSE, phase |-> "pending"]
  /\ indexed = {}
  /\ tier \in [Accounts -> {"member", "other"}]
  /\ device = [d \in Devices |-> NewDevice]
  /\ index = [k \in CanonicalKeys |-> "free"]
  /\ request = [q \in Requests |-> NewRequest]
  /\ session = [s \in Sessions |-> NoSession]
  /\ challenge = [c \in Challenges |-> NewChallenge]
  /\ work = [w \in Workers |-> Idle]
  /\ binding = [k \in CanonicalKeys |-> NoAccount]
  /\ spent = [c \in Challenges |-> 0]

-----------------------------------------------------------------------------
(* Locks, and what they protect.                                              *)

Busy      == {w \in Workers : work[w] # Idle}
InTx      == {w \in Busy : work[w].op \in {"approve", "complete"}}
Ready     == mode.phase = "ready"
Available == mode.phase = "ready" \/ (mode.phase = "pending" /\ ~mode.enabled)

ModeFree        == InTx = {}
KeyFree(k)      == Ready => \A w \in InTx : Canonical[request[work[w].request].key] # Canonical[k]
RequestFree(q)  == \A w \in InTx : work[w].request # q
AccountFree(a)  == \A w \in InTx : work[w].account # a

Registered(d) == device[d].state \in {"active", "revoked"}
Live(s)       == session[s].device # NoDevice
Lanes(d)      == {s \in Sessions : session[s].device = d}

\* Lookup by raw text before the index is ready, by canonical form afterwards.
DeviceOfKey(k) ==
  IF Ready THEN (IF index[Canonical[k]] \in Devices THEN {index[Canonical[k]]} ELSE {})
  ELSE {d \in Devices : Registered(d) /\ device[d].key = k}
\* A key that is in the index without a device is never free again.
Unavailable(k) == Ready /\ index[Canonical[k]] \in {"conflicted", "deleted"}
FoundBy(k) == IF DeviceOfKey(k) = {} THEN NoDevice ELSE CHOOSE d \in DeviceOfKey(k) : TRUE
StoredKey(k) == IF Ready THEN Canonical[k] ELSE k

\* Variant, not the code: the sessions outlive what they were issued for.
SessionsKept(S) == session
SessionsWithout(S) == [s \in Sessions |-> IF s \in S THEN NoSession ELSE session[s]]

-----------------------------------------------------------------------------
(* The mode, the index, and the accounts.                                     *)

\* Variant, not the code: switching leaves the sessions there are.
DrainNothing == session' = session
Drain == session' = SessionsWithout(Sessions)

\* First use: nothing is registered, so the index is complete as it stands.
Bootstrap ==
  /\ ModeFree
  /\ mode = [enabled |-> FALSE, phase |-> "pending"]
  /\ \A d \in Devices : device[d].state = "none"
  /\ \A q \in Requests : request[q].state = "none"
  /\ mode' = [enabled |-> TRUE, phase |-> "ready"]
  /\ UNCHANGED <<indexed, tier, device, index, request, session, challenge, work,
                 binding, spent>>

\* An operator switches sharing; every session ends with the mode it was in.
TransitionMode(on) ==
  /\ ModeFree
  /\ on => /\ mode.phase = "ready"
           /\ \A c \in Challenges : challenge[c].state # "expired"
  /\ mode' = [mode EXCEPT !.enabled = on]
  /\ Drain
  /\ UNCHANGED <<indexed, tier, device, index, request, challenge, work, binding, spent>>

StartReconciliation ==
  /\ ModeFree
  /\ ~mode.enabled /\ mode.phase = "pending"
  /\ mode' = [mode EXCEPT !.phase = "reconciling"]
  /\ UNCHANGED <<indexed, tier, device, index, request, session, challenge, work, binding, spent>>

\* Variant, not the code: of two devices with one key, the later one is indexed.
LastOfBatch(k, B) ==
  LET D == {d \in B : Canonical[device[d].key] = k} IN
  IF D = {} THEN index[k] ELSE CHOOSE d \in D : TRUE
\* Two registrations of one key are a conflict, and stay one.
IndexedWith(k, B) ==
  LET D == {d \in B : Canonical[device[d].key] = k} IN
  IF D = {} THEN index[k]
  ELSE IF index[k] = "free" /\ Cardinality(D) = 1 THEN CHOOSE d \in D : TRUE
  ELSE "conflicted"

\* The operator has stopped whatever deletes accounts, so no row is lost here.
ReconcileBatch(B) ==
  LET rest == {d \in Devices \ indexed : Registered(d)} IN
  /\ ModeFree
  /\ ~mode.enabled /\ mode.phase = "reconciling"
  /\ B \subseteq rest
  /\ Cardinality(B) = Batch \/ (B = rest /\ Cardinality(B) < Batch)
  /\ index' = [k \in CanonicalKeys |-> IndexedWith(k, B)]
  /\ indexed' = indexed \union B
  /\ mode' = [mode EXCEPT !.phase = IF Cardinality(B) < Batch THEN "ready" ELSE @]
  /\ binding' = [k \in CanonicalKeys |->
       LET D == {d \in Devices : Registered(d) /\ Canonical[device[d].key] = k} IN
       IF Cardinality(D) = 1 THEN device[CHOOSE d \in D : TRUE].owner ELSE NoAccount]
  /\ UNCHANGED <<tier, device, request, session, challenge, work, spent>>

\* Membership comes and goes; the row lock of a transaction in flight holds it.
SetTier(a) ==
  /\ tier[a] # "gone" /\ AccountFree(a)
  /\ tier' = [tier EXCEPT ![a] = IF @ = "member" THEN "other" ELSE "member"]
  /\ UNCHANGED <<mode, indexed, device, index, request, session, challenge, work, binding, spent>>

\* A merge deletes an account, and the database its devices, their sessions
\* and its approvals with it.  What is left in the index is a tombstone.
DeleteAccount(a) ==
  LET D == {d \in Devices : Registered(d) /\ device[d].owner = a} IN
  /\ tier[a] # "gone" /\ AccountFree(a)
  /\ mode.phase # "reconciling"
  /\ tier' = [tier EXCEPT ![a] = "gone"]
  /\ device' = [d \in Devices |->
       IF d \in D THEN [device[d] EXCEPT !.state = "deleted"] ELSE device[d]]
  /\ index' = [k \in CanonicalKeys |-> IF index[k] \in D THEN "deleted" ELSE index[k]]
  /\ session' = SessionsWithout(UNION {Lanes(d) : d \in D})
  /\ request' = [q \in Requests |->
       IF request[q].by = a THEN [request[q] EXCEPT !.state = "over"] ELSE request[q]]
  /\ UNCHANGED <<mode, indexed, challenge, work, binding, spent>>

-----------------------------------------------------------------------------
(* Pairing.                                                                   *)

\* Unauthenticated: anybody asks for a key and for capabilities.
BeginPairing(q, k, caps) ==
  /\ request[q].state = "none"
  /\ Available /\ KeyFree(k)
  /\ caps # {} => mode.enabled
  /\ ~Unavailable(k)
  /\ \A d \in DeviceOfKey(k) : device[d].state # "revoked"
  /\ request' = [request EXCEPT ![q] = [state |-> "open", key |-> StoredKey(k),
                                        caps |-> caps, by |-> NoAccount]]
  /\ UNCHANGED <<mode, indexed, tier, device, index, session, challenge, work, binding, spent>>

RequestExpires(q) ==
  /\ request[q].state \in {"open", "approved"}
  /\ request' = [request EXCEPT ![q].state = "over"]
  /\ UNCHANGED <<mode, indexed, tier, device, index, session, challenge, work, binding, spent>>

\* lockPairingRequest and the first reads: the request, the account that acts
\* and what the key leads to.
Start(w, op, q, a) ==
  LET k == request[q].key d == FoundBy(k) IN
  /\ work[w] = Idle
  /\ Available
  /\ KeyFree(k) /\ RequestFree(q) /\ AccountFree(a)
  /\ tier[a] = "member"
  /\ request[q].caps # {} => mode.enabled
  /\ ~Unavailable(k)
  /\ work' = [work EXCEPT ![w] =
       [op |-> op, request |-> q, account |-> a, dev |-> d,
        owner |-> IF d # NoDevice /\ device[d].state = "active" THEN device[d].owner
                  ELSE NoAccount]]
  /\ UNCHANGED <<mode, indexed, tier, device, index, request, session, challenge, binding, spent>>

StartApprove(w, q, a)  == request[q].state = "open" /\ Start(w, "approve", q, a)
StartComplete(w, q) ==
  /\ request[q].state = "approved"
  /\ Start(w, "complete", q, request[q].by)

Stopped(w) == work' = [work EXCEPT ![w] = Idle]

\* Variant, not the code: the index is not read again after the wait.
AsResolved(w) == TRUE
\* The index is read again after the wait: a deletion does not hold the locks.
StillResolves(w) ==
  LET k == request[work[w].request].key IN
  Ready => ~Unavailable(k) /\ FoundBy(k) = work[w].dev

\* Every refusal rolls back: expired meanwhile, revoked, bound to another.
Refuse(w) ==
  /\ w \in InTx
  /\ Stopped(w)
  /\ UNCHANGED <<mode, indexed, tier, device, index, request, session, challenge, binding, spent>>

FinishApprove(w) ==
  LET q == work[w].request a == work[w].account d == work[w].dev IN
  /\ w \in InTx /\ work[w].op = "approve"
  /\ request[q].state = "open"
  /\ StillResolves(w)
  /\ Ready /\ d # NoDevice => device[d].state = "active"
  /\ work[w].owner \in {NoAccount, a}
  /\ request' = [request EXCEPT ![q].state = "approved", ![q].by = a]
  /\ Stopped(w)
  /\ UNCHANGED <<mode, indexed, tier, device, index, session, challenge, binding,
                 spent>>

Usable(d) == device[d].state = "active"

\* The device named by the key is used again, or a new one is registered; the
\* session gets what the browser saw for this request, nothing more.
FinishComplete(w, d, s) ==
  LET q == work[w].request a == work[w].account seen == work[w].dev
      found == seen # NoDevice /\ Registered(seen)
      key == StoredKey(request[q].key) IN
  /\ w \in InTx /\ work[w].op = "complete"
  /\ request[q].state = "approved"
  /\ StillResolves(w)
  /\ ~Live(s)
  /\ \/ /\ found /\ d = seen /\ Usable(d)
        /\ device[d].owner = a
        /\ device' = [device EXCEPT ![d].caps = @ \union request[q].caps]
        /\ UNCHANGED <<index, binding>>
     \/ /\ ~found /\ device[d].state = "none"
        /\ \A e \in Devices : Registered(e) => device[e].key # key
        /\ device' = [device EXCEPT ![d] =
             [state |-> "active", owner |-> a, key |-> key, caps |-> request[q].caps]]
        /\ index' = IF Ready THEN [index EXCEPT ![key] = d] ELSE index
        /\ binding' = IF Ready /\ binding[key] = NoAccount
                      THEN [binding EXCEPT ![key] = a] ELSE binding
  /\ request' = [request EXCEPT ![q].state = "over"]
  /\ session' = [session EXCEPT ![s] = [device |-> d, caps |-> request[q].caps]]
  /\ Stopped(w)
  /\ UNCHANGED <<mode, indexed, tier, challenge, spent>>

\* By its owner, whenever: the device keeps its row and its key for ever.
Revoke(d) ==
  /\ device[d].state = "active"
  /\ AccountFree(device[d].owner)
  /\ device' = [device EXCEPT ![d].state = "revoked"]
  /\ session' = SessionsWithout(Lanes(d))
  /\ UNCHANGED <<mode, indexed, tier, index, request, challenge, work, binding, spent>>

-----------------------------------------------------------------------------
(* The end of a session's time.                                               *)

SessionExpires(s) ==
  /\ Live(s)
  /\ session' = SessionsWithout({s})
  /\ UNCHANGED <<mode, indexed, tier, device, index, request, challenge, work, binding, spent>>

-----------------------------------------------------------------------------
(* Recovery: a device that lost its session proves its key.                   *)

\* Consumed challenges count until they expire; their number is bounded.
HeldFor(k) == {c \in Challenges : /\ challenge[c].key = k
                                  /\ challenge[c].state \in {"open", "consumed"}}

BeginRecovery(c, k) ==
  /\ challenge[c].state = "none"
  /\ mode.enabled /\ Ready /\ KeyFree(k)
  /\ index[Canonical[k]] \in Devices \union {"conflicted"}
  /\ Cardinality(HeldFor(Canonical[k])) < PerKey
  /\ challenge' = [challenge EXCEPT ![c] = [state |-> "open", key |-> Canonical[k]]]
  /\ UNCHANGED <<mode, indexed, tier, device, index, request, session, work, binding, spent>>

ChallengeExpires(c) ==
  /\ challenge[c].state \in {"open", "consumed"}
  /\ challenge' = [challenge EXCEPT ![c].state = "expired"]
  /\ UNCHANGED <<mode, indexed, tier, device, index, request, session, work, binding, spent>>

\* By the daily purge, or when the next challenge is begun.
PurgeChallenge(c) ==
  /\ challenge[c].state = "expired"
  /\ challenge' = [challenge EXCEPT ![c].state = "purged"]
  /\ UNCHANGED <<mode, indexed, tier, device, index, request, session, work, binding, spent>>

\* A challenge is answered: the proof is first checked under no lock at all.
Present(w, c) ==
  /\ work[w] = Idle
  /\ challenge[c].state = "open"
  /\ work' = [work EXCEPT ![w] = [op |-> "recover", challenge |-> c]]
  /\ UNCHANGED <<mode, indexed, tier, device, index, request, session, challenge, binding, spent>>

\* Variant, not the code: what the unlocked read saw is believed.
ProvedBefore(c) == TRUE
\* The same proof, read again under the locks.
StillProves(c) == challenge[c].state = "open"

\* The one thing a recovery grants: a new session in place of all the old ones,
\* with the device's standing grant.
Reconnect(d, s) ==
  session' = [SessionsWithout(Lanes(d)) EXCEPT ![s] = [device |-> d, caps |-> device[d].caps]]

\* The challenge is consumed whether or not its device may have a session: it
\* may be in conflict, deleted, revoked, or its account no member, or the
\* issuance may fail.
Answer(w, s) ==
  LET c == work[w].challenge k == challenge[c].key d == index[k] IN
  /\ w \in Busy /\ work[w].op = "recover"
  /\ mode.enabled /\ Ready /\ KeyFree(k)
  /\ StillProves(c)
  /\ challenge' = [challenge EXCEPT ![c].state = "consumed"]
  /\ \/ /\ d \in Devices
        /\ device[d].state = "active" /\ tier[device[d].owner] = "member"
        /\ AccountFree(device[d].owner)
        /\ ~Live(s) \/ s \in Lanes(d)
        /\ Reconnect(d, s)
        /\ spent' = [spent EXCEPT ![c] = IF @ < 2 THEN @ + 1 ELSE @]
     \/ UNCHANGED <<session, spent>>
  /\ Stopped(w)
  /\ UNCHANGED <<mode, indexed, tier, device, index, request, binding>>

\* Refused before the proof counts, a timeout, or a death: nothing is consumed.
GiveUp(w) ==
  /\ w \in Busy /\ work[w].op = "recover"
  /\ Stopped(w)
  /\ UNCHANGED <<mode, indexed, tier, device, index, request, session, challenge, binding, spent>>

-----------------------------------------------------------------------------
OperatorStep == \/ Bootstrap \/ StartReconciliation
                \/ \E on \in BOOLEAN : TransitionMode(on)
                \/ \E B \in SUBSET Devices : ReconcileBatch(B)
AccountStep  == \E a \in Accounts : SetTier(a) \/ DeleteAccount(a)
PairingStep  == \/ \E q \in Requests, k \in Keys, caps \in SUBSET Caps : BeginPairing(q, k, caps)
                \/ \E q \in Requests : RequestExpires(q)
                \/ \E w \in Workers, q \in Requests :
                     \/ StartComplete(w, q)
                     \/ \E a \in Accounts : StartApprove(w, q, a)
                \/ \E w \in Workers : Refuse(w) \/ FinishApprove(w)
                \/ \E w \in Workers, d \in Devices, s \in Sessions : FinishComplete(w, d, s)
                \/ \E d \in Devices : Revoke(d)
                \/ \E s \in Sessions : SessionExpires(s)
RecoveryStep == \/ \E c \in Challenges, k \in Keys : BeginRecovery(c, k)
                \/ \E c \in Challenges : ChallengeExpires(c) \/ PurgeChallenge(c)
                \/ \E w \in Workers, c \in Challenges : Present(w, c)
                \/ \E w \in Workers, s \in Sessions : Answer(w, s)
                \/ \E w \in Workers : GiveUp(w)

Next == OperatorStep \/ AccountStep \/ PairingStep \/ RecoveryStep
Spec == Init /\ [][Next]_vars

-----------------------------------------------------------------------------
TypeOK ==
  /\ mode \in [enabled : BOOLEAN, phase : Phases]
  /\ indexed \subseteq Devices
  /\ tier \in [Accounts -> {"member", "other", "gone"}]
  /\ device \in [Devices -> DeviceType]
  /\ index \in [CanonicalKeys -> Devices \union {"free", "conflicted", "deleted"}]
  /\ request \in [Requests -> RequestType]
  /\ session \in [Sessions -> SessionType]
  /\ challenge \in [Challenges -> ChallengeType]
  /\ work \in [Workers -> WorkType \union {Idle}]
  /\ binding \in [CanonicalKeys -> Accounts \union {NoAccount}]
  /\ spent \in [Challenges -> 0..2]

\* Revocation and deletion are final: no session is left of such a device, and
\* none is issued afterwards, though a pairing or a recovery was under way.
\* While sharing is off no session carries a grant: the transition drains them
\* and holds off a pairing in flight.
SessionsBacked ==
  \A s \in Sessions : Live(s) =>
    device[session[s].device].state = "active" /\ (session[s].caps # {} => mode.enabled)

\* Once the index is ready, a key stays with the account it was first
\* registered for, even if that account is deleted while a completion waits.
KeysStayBound ==
  [][Ready => \A s \in Sessions : session'[s] # session[s] /\ session'[s].device # NoDevice =>
       LET d == session'[s].device IN
       binding'[Canonical[device'[d].key]] = device'[d].owner]_vars

\* A challenge yields one session at most, however often it is answered at once.
ChallengeSpentOnce == \A c \in Challenges : spent[c] <= 1
=============================================================================
