---------------------------- MODULE ClientsProofs ---------------------------
(* Proofs about the desktop clients, for any number of devices, keys,         *)
(* challenges, characters, sources, checks and requests, and any bounds.      *)
(*                                                                            *)
(* Each part has an inductive invariant of its own, for they share no state:  *)
(* DevInv, AutoInv, AccessInv and ControlInv.  A step of the clients is one   *)
(* of a part and leaves the others alone, so the four hold together.          *)
EXTENDS MCClients, FiniteSetTheorems, TLAPS

-----------------------------------------------------------------------------
(* Devices and their keys (FleetDevices).                                     *)

(* A pairing in flight holds the mode lock, shared: no reconciliation is on,  *)
(* and what its request asks for is still allowed.                            *)
PairingHeld ==
  \A w \in InTx : /\ mode.phase # "reconciling"
                  /\ request[work[w].request].state # "none"
                  /\ request[work[w].request].caps # {} => mode.enabled
ApprovedBySomeone == \A q \in Requests : request[q].state = "approved" => request[q].by \in Accounts
OpenIsUnspent ==
  \A c \in Challenges : /\ challenge[c].state \in {"none", "open"} => spent[c] = 0
                        /\ spent[c] <= 1
ChallengeKeys == \A c \in Challenges : challenge[c].state # "none" => challenge[c].key \in CanonicalKeys

(* The index: empty before the reconciliation, true of the devices it has     *)
(* passed while it runs, and of all devices when it is ready; then a key that *)
(* is free was never bound, and one with a device is bound to its owner.      *)
Unindexed ==
  mode.phase = "pending" =>
    indexed = {} /\ \A k \in CanonicalKeys : index[k] = "free" /\ binding[k] = NoAccount
HalfIndexed ==
  mode.phase = "reconciling" =>
    /\ \A d \in indexed : Registered(d)
    /\ \A k \in CanonicalKeys :
         /\ index[k] = "free" => \A d \in indexed : Canonical[device[d].key] # k
         /\ index[k] \in Devices =>
              /\ index[k] \in indexed /\ Canonical[device[index[k]].key] = k
              /\ \A d \in indexed : Canonical[device[d].key] = k => d = index[k]
BoundAsIndexed ==
  Ready => \A k \in CanonicalKeys :
    /\ index[k] = "free" => binding[k] = NoAccount
    /\ index[k] \in Devices =>
         /\ Registered(index[k]) /\ Canonical[device[index[k]].key] = k
         /\ binding[k] = device[index[k]].owner
DevInv == /\ TypeOK /\ SessionsBacked /\ PairingHeld /\ ApprovedBySomeone /\ OpenIsUnspent
          /\ ChallengeKeys /\ Unindexed /\ HalfIndexed /\ BoundAsIndexed
USE FleetDevicesAssumption

\* The reading of a key that is stored is the same key.
LEMMA KeysCanonical == /\ SomeKey \in Keys
                       /\ \A k \in Keys : Canonical[k] \in CanonicalKeys /\ Canonical[k] \in Keys
                       /\ \A k \in CanonicalKeys : k \in Keys /\ Canonical[k] = k
  BY DEF SomeKey, CanonicalKeys

\* The devices start well typed.
LEMMA DevTypedInit == Init => TypeOK
  BY KeysCanonical DEF Init, TypeOK, Phases, DeviceType, RequestType, SessionType, ChallengeType, NewDevice,
     NewRequest, NoSession, NewChallenge

\* What the index of a key leads to is a device, or none.
LEMMA Found == TypeOK => \A k \in Keys : FoundBy(k) \in Devices \union {NoDevice}
  BY KeysCanonical DEF TypeOK, FoundBy, DeviceOfKey

\* Sessions that are ended leave sessions.
LEMMA Ended ==
  ASSUME TypeOK, NEW S
  PROVE  SessionsWithout(S) \in [Sessions -> SessionType]
  BY DEF TypeOK, SessionsWithout, NoSession, SessionType

\* A step of the devices leaves the state well typed.
LEMMA DevTyped ==
  ASSUME TypeOK, ApprovedBySomeone, [Next]_vars
  PROVE  TypeOK'
<1> USE DEF TypeOK
<1>1. CASE Bootstrap \/ StartReconciliation
  <2>1. mode' \in [enabled : BOOLEAN, phase : Phases]
    <3>1. mode \in [enabled : BOOLEAN, phase : Phases]
      OBVIOUS
    <3>2. mode' = [enabled |-> TRUE, phase |-> "ready"] \/ mode' = [mode EXCEPT !.phase = "reconciling"]
      BY <1>1 DEF Bootstrap, StartReconciliation
    <3>3. mode' = [enabled |-> TRUE, phase |-> "ready"] => mode' \in [enabled : BOOLEAN, phase : Phases]
      BY ONLY DEF Phases
    <3>4. [mode EXCEPT !.phase = "reconciling"] \in [enabled : BOOLEAN, phase : Phases]
      BY ONLY <3>1 DEF Phases
    <3> QED BY ONLY <3>2, <3>3, <3>4
  <2> QED BY <1>1, <2>1 DEF Bootstrap, StartReconciliation
<1>2. ASSUME NEW open \in BOOLEAN, TransitionMode(open) PROVE TypeOK'
  BY <1>2, Ended DEF TransitionMode, Drain
<1>3. ASSUME NEW B \in SUBSET Devices, ReconcileBatch(B) PROVE TypeOK'
  <2>1. mode' \in [enabled : BOOLEAN, phase : Phases] /\ indexed' \subseteq Devices
    BY <1>3 DEF ReconcileBatch, Phases
  <2>2. ASSUME NEW k \in CanonicalKeys PROVE IndexedWith(k, B) \in Devices \union {"free", "conflicted", "deleted"}
    <3> DEFINE D == {d \in B : Canonical[device[d].key] = k}
    <3>1. D # {} => (CHOOSE d \in D : TRUE) \in Devices
      OBVIOUS
    <3> QED BY <3>1 DEF IndexedWith
  <2>3. index' \in [CanonicalKeys -> Devices \union {"free", "conflicted", "deleted"}]
    BY <1>3, <2>2 DEF ReconcileBatch
  <2>4. ASSUME NEW k \in CanonicalKeys
        PROVE  LET D == {d \in Devices : Registered(d) /\ Canonical[device[d].key] = k} IN
               (IF Cardinality(D) = 1 THEN device[CHOOSE d \in D : TRUE].owner ELSE NoAccount)
                 \in Accounts \union {NoAccount}
    <3> DEFINE D == {d \in Devices : Registered(d) /\ Canonical[device[d].key] = k}
    <3>1. ASSUME Cardinality(D) = 1 PROVE (CHOOSE d \in D : TRUE) \in Devices
      <4>1. D \subseteq Devices
        OBVIOUS
      <4> HIDE DEF D
      <4>2. D # {}
        BY ONLY <3>1, FS_EmptySet
      <4> QED BY ONLY <4>1, <4>2
    <3>2. \A d \in Devices : device[d].owner \in Accounts \union {NoAccount}
      BY DEF DeviceType
    <3> QED BY <3>1, <3>2
  <2>5. binding' \in [CanonicalKeys -> Accounts \union {NoAccount}]
    BY <1>3, <2>4 DEF ReconcileBatch
  <2> QED BY <1>3, <2>1, <2>3, <2>5 DEF ReconcileBatch
<1>4. ASSUME NEW a \in Accounts, SetTier(a) PROVE TypeOK'
  BY <1>4 DEF SetTier
<1>5. ASSUME NEW a \in Accounts, DeleteAccount(a) PROVE TypeOK'
  <2> DEFINE D == {d \in Devices : Registered(d) /\ device[d].owner = a}
  <2>1. device' \in [Devices -> DeviceType]
    <3>1. device' = [d \in Devices |-> IF d \in D THEN [device[d] EXCEPT !.state = "deleted"] ELSE device[d]]
      BY <1>5 DEF DeleteAccount
    <3>2. \A d \in Devices : device[d] \in DeviceType
      OBVIOUS
    <3> HIDE DEF D
    <3> QED BY ONLY <3>1, <3>2 DEF DeviceType
  <2>2. request' \in [Requests -> RequestType]
    <3>1. request' = [q \in Requests |-> IF request[q].by = a THEN [request[q] EXCEPT !.state = "over"]
                                         ELSE request[q]]
      BY <1>5 DEF DeleteAccount
    <3>2. \A q \in Requests : request[q] \in RequestType
      OBVIOUS
    <3> QED BY ONLY <3>1, <3>2 DEF RequestType
  <2>3. session' \in [Sessions -> SessionType]
    BY <1>5, Ended DEF DeleteAccount
  <2>4. index' \in [CanonicalKeys -> Devices \union {"free", "conflicted", "deleted"}]
    BY <1>5 DEF DeleteAccount
  <2>5. tier' \in [Accounts -> {"member", "other", "gone"}]
    BY <1>5 DEF DeleteAccount
  <2> QED BY <1>5, <2>1, <2>2, <2>3, <2>4, <2>5 DEF DeleteAccount
<1>6. ASSUME NEW q \in Requests, NEW k \in Keys, NEW caps \in SUBSET Caps, BeginPairing(q, k, caps)
      PROVE  TypeOK'
  <2>1. request' \in [Requests -> RequestType]
    BY <1>6, KeysCanonical DEF BeginPairing, RequestType, StoredKey
  <2> QED BY <1>6, <2>1 DEF BeginPairing
<1>7. ASSUME NEW q \in Requests, RequestExpires(q) PROVE TypeOK'
  BY <1>7 DEF RequestExpires, RequestType
<1>8. ASSUME NEW w \in Workers, NEW q \in Requests, NEW a \in Accounts, NEW op \in {"approve", "complete"},
             Start(w, op, q, a)
      PROVE  TypeOK'
  <2>1. FoundBy(request[q].key) \in Devices \union {NoDevice}
    BY Found DEF RequestType
  <2>2. \A d \in Devices : device[d].owner \in Accounts \union {NoAccount}
    BY DEF DeviceType
  <2>3. work' \in [Workers -> WorkType \union {Idle}]
    BY <1>8, <2>1, <2>2 DEF Start, WorkType
  <2> QED BY <1>8, <2>3 DEF Start
<1>9. ASSUME NEW w \in Workers, NEW q \in Requests, StartComplete(w, q) PROVE TypeOK'
  <2>1. request[q].by \in Accounts
    BY <1>9 DEF StartComplete, ApprovedBySomeone
  <2> QED BY <1>8, <1>9, <2>1 DEF StartComplete
<1>10. ASSUME NEW w \in Workers, NEW q \in Requests, NEW a \in Accounts, StartApprove(w, q, a) PROVE TypeOK'
  BY <1>8, <1>10 DEF StartApprove
<1>11. ASSUME NEW w \in Workers, Stopped(w) PROVE work' \in [Workers -> WorkType \union {Idle}]
  BY <1>11 DEF Stopped
<1>12. ASSUME NEW w \in Workers, Refuse(w) \/ GiveUp(w) PROVE TypeOK'
  BY <1>11, <1>12 DEF Refuse, GiveUp
<1>13. ASSUME NEW w \in InTx
       PROVE  /\ work[w].request \in Requests /\ work[w].account \in Accounts
              /\ work[w].dev \in Devices \union {NoDevice}
  BY DEF InTx, Busy, WorkType
<1>14. ASSUME NEW w \in Workers, FinishApprove(w) PROVE TypeOK'
  <2>1. w \in InTx
    BY <1>14 DEF FinishApprove
  <2>2. request' \in [Requests -> RequestType]
    BY <1>13, <1>14, <2>1 DEF FinishApprove, RequestType
  <2> QED BY <1>11, <1>14, <2>2 DEF FinishApprove
<1>15. ASSUME NEW w \in Workers, NEW d \in Devices, NEW s \in Sessions, FinishComplete(w, d, s)
       PROVE  TypeOK'
  <2> DEFINE q == work[w].request
             key == StoredKey(request[q].key)
  <2>1. w \in InTx /\ q \in Requests /\ work[w].account \in Accounts
    BY <1>13, <1>15 DEF FinishComplete
  <2>2. key \in Keys /\ (Ready => key \in CanonicalKeys) /\ request[q].caps \in SUBSET Caps
    BY <2>1, KeysCanonical DEF StoredKey, RequestType
  <2> HIDE DEF q, key
  <2>3. request' \in [Requests -> RequestType]
    BY <1>15, <2>1 DEF FinishComplete, RequestType, q
  <2>4. session' \in [Sessions -> SessionType]
    BY <1>15, <2>1, <2>2 DEF FinishComplete, SessionType, q
  <2>5. device' \in [Devices -> DeviceType]
    <3>1. \/ device' = [device EXCEPT ![d].caps = @ \union request[q].caps]
          \/ device' = [device EXCEPT ![d] = [state |-> "active", owner |-> work[w].account, key |-> key,
                                              caps |-> request[q].caps]]
      BY ONLY <1>15 DEF FinishComplete, q, key
    <3>2. device \in [Devices -> DeviceType]
      OBVIOUS
    <3> QED BY ONLY <2>1, <2>2, <3>1, <3>2 DEF DeviceType
  <2>6. index' \in [CanonicalKeys -> Devices \union {"free", "conflicted", "deleted"}]
    BY <1>15, <2>1, <2>2 DEF FinishComplete, q, key
  <2>7. binding' \in [CanonicalKeys -> Accounts \union {NoAccount}]
    BY <1>15, <2>1, <2>2 DEF FinishComplete, q, key
  <2> QED BY <1>11, <1>15, <2>3, <2>4, <2>5, <2>6, <2>7 DEF FinishComplete
<1>16. ASSUME NEW d \in Devices, Revoke(d) PROVE TypeOK'
  <2>1. device' \in [Devices -> DeviceType]
    BY <1>16 DEF Revoke, DeviceType
  <2> QED BY <1>16, <2>1, Ended DEF Revoke
<1>17. ASSUME NEW s \in Sessions, SessionExpires(s) PROVE TypeOK'
  BY <1>17, Ended DEF SessionExpires
<1>18. ASSUME NEW c \in Challenges, NEW k \in Keys, BeginRecovery(c, k) PROVE TypeOK'
  BY <1>18, KeysCanonical DEF BeginRecovery, ChallengeType
<1>19. ASSUME NEW c \in Challenges, ChallengeExpires(c) \/ PurgeChallenge(c) PROVE TypeOK'
  BY <1>19 DEF ChallengeExpires, PurgeChallenge, ChallengeType
<1>20. ASSUME NEW w \in Workers, NEW c \in Challenges, Present(w, c) PROVE TypeOK'
  BY <1>20 DEF Present, WorkType
<1>21. ASSUME NEW w \in Workers, NEW s \in Sessions, Answer(w, s) PROVE TypeOK'
  <2> DEFINE c == work[w].challenge
             d == index[challenge[c].key]
  <2>1. c \in Challenges
    <3>1. work[w] \in WorkType /\ work[w].op = "recover"
      BY <1>21 DEF Answer, Busy
    <3> QED BY ONLY <3>1 DEF WorkType
  <2>2. challenge' \in [Challenges -> ChallengeType]
    <3>1. challenge' = [challenge EXCEPT ![c] = [challenge[c] EXCEPT !.state = "consumed"]]
      BY <1>21 DEF Answer
    <3>2. challenge \in [Challenges -> ChallengeType]
      OBVIOUS
    <3> HIDE DEF c
    <3> QED BY ONLY <2>1, <3>1, <3>2 DEF ChallengeType
  <2>3. spent' \in [Challenges -> 0..2]
    <3>1. spent' = spent \/ spent' = [spent EXCEPT ![c] = IF @ < 2 THEN @ + 1 ELSE @]
      BY <1>21 DEF Answer
    <3>2. spent \in [Challenges -> 0..2]
      OBVIOUS
    <3> HIDE DEF c
    <3> QED BY ONLY <2>1, <3>1, <3>2
  <2>4. d \in Devices => [device |-> d, caps |-> device[d].caps] \in SessionType
    BY DEF SessionType, DeviceType
  <2>5. session' \in [Sessions -> SessionType]
    <3>1. \/ session' = session
          \/ d \in Devices /\ session' = [SessionsWithout(Lanes(d)) EXCEPT
                                           ![s] = [device |-> d, caps |-> device[d].caps]]
      BY <1>21 DEF Answer, Reconnect
    <3>2. session \in [Sessions -> SessionType] /\ SessionsWithout(Lanes(d)) \in [Sessions -> SessionType]
      BY Ended
    <3> HIDE DEF d
    <3> QED BY ONLY <2>4, <3>1, <3>2
  <2> QED BY <1>11, <1>21, <2>2, <2>3, <2>5 DEF Answer
<1>22. CASE UNCHANGED vars
  BY <1>22 DEF vars
<1> QED
  BY <1>1, <1>2, <1>3, <1>4, <1>5, <1>6, <1>7, <1>9, <1>10, <1>12, <1>14, <1>15, <1>16, <1>17, <1>18, <1>19,
     <1>20, <1>21, <1>22
  DEF Next, OperatorStep, AccountStep, PairingStep, RecoveryStep

\* Of the steps of pairing only the last one of a completion, a revocation and an expiry touch a
\* device or a session.
LEMMA PairingFrame ==
  ASSUME PairingStep
  PROVE  \/ UNCHANGED <<mode, indexed, device, index, binding, session, challenge, spent>>
         \/ \E w \in Workers, d \in Devices, s \in Sessions : FinishComplete(w, d, s)
         \/ \E d \in Devices : Revoke(d)
         \/ \E s \in Sessions : SessionExpires(s)
<1> DEFINE Same == UNCHANGED <<mode, indexed, device, index, binding, session, challenge, spent>>
<1>1. ASSUME NEW q \in Requests, NEW k \in Keys, NEW caps \in SUBSET Caps, BeginPairing(q, k, caps) PROVE Same
  BY <1>1 DEF BeginPairing
<1>2. ASSUME NEW q \in Requests, RequestExpires(q) PROVE Same
  BY <1>2 DEF RequestExpires
<1>3. ASSUME NEW w, NEW op, NEW q, NEW a, Start(w, op, q, a) PROVE Same
  BY <1>3 DEF Start
<1>4. ASSUME NEW w \in Workers, NEW q \in Requests,
             StartComplete(w, q) \/ \E a \in Accounts : StartApprove(w, q, a)
      PROVE  Same
  <2> HIDE DEF Same
  <2> QED BY <1>3, <1>4 DEF StartComplete, StartApprove
<1>5. ASSUME NEW w \in Workers, Refuse(w) PROVE Same
  BY <1>5 DEF Refuse
<1>6. ASSUME NEW w \in Workers, FinishApprove(w) PROVE Same
  BY <1>6 DEF FinishApprove
<1> HIDE DEF Same
<1>7. \/ Same
      \/ \E w \in Workers, d \in Devices, s \in Sessions : FinishComplete(w, d, s)
      \/ \E d \in Devices : Revoke(d)
      \/ \E s \in Sessions : SessionExpires(s)
  BY <1>1, <1>2, <1>4, <1>5, <1>6 DEF PairingStep
<1> QED BY <1>7 DEF Same

\* No step of the operator, of an account or of pairing touches a challenge.
LEMMA ChallengeFrame ==
  ASSUME OperatorStep \/ AccountStep \/ PairingStep
  PROVE  UNCHANGED <<challenge, spent>>
<1>1. ASSUME Bootstrap \/ StartReconciliation PROVE UNCHANGED <<challenge, spent>>
  BY <1>1 DEF Bootstrap, StartReconciliation
<1>2. ASSUME NEW b \in BOOLEAN, TransitionMode(b) PROVE UNCHANGED <<challenge, spent>>
  BY <1>2 DEF TransitionMode
<1>3. ASSUME NEW B \in SUBSET Devices, ReconcileBatch(B) PROVE UNCHANGED <<challenge, spent>>
  BY <1>3 DEF ReconcileBatch
<1>4. ASSUME NEW a \in Accounts, SetTier(a) PROVE UNCHANGED <<challenge, spent>>
  BY <1>4 DEF SetTier
<1>5. ASSUME NEW a \in Accounts, DeleteAccount(a) PROVE UNCHANGED <<challenge, spent>>
  BY <1>5 DEF DeleteAccount
<1>6. ASSUME NEW w \in Workers, NEW d \in Devices, NEW s \in Sessions, FinishComplete(w, d, s)
      PROVE  UNCHANGED <<challenge, spent>>
  BY <1>6 DEF FinishComplete
<1>7. ASSUME NEW d \in Devices, Revoke(d) PROVE UNCHANGED <<challenge, spent>>
  BY <1>7 DEF Revoke
<1>8. ASSUME NEW s \in Sessions, SessionExpires(s) PROVE UNCHANGED <<challenge, spent>>
  BY <1>8 DEF SessionExpires
<1>9. CASE OperatorStep
  BY <1>1, <1>2, <1>3, <1>9 DEF OperatorStep
<1>10. CASE AccountStep
  BY <1>4, <1>5, <1>10 DEF AccountStep
<1>11. CASE PairingStep
  BY <1>6, <1>7, <1>8, <1>11, PairingFrame
<1> QED BY <1>9, <1>10, <1>11

\* A worker that is in a transaction is at work.
LEMMA BusyOnly ==
  ASSUME \A w \in Workers : work'[w] \in {work[w], Idle}
  PROVE  InTx' \subseteq InTx /\ \A w \in InTx' : work'[w] = work[w]
  BY DEF InTx, Busy

\* No step leaves a session on a device that is gone or, while sharing is off, with a grant.
LEMMA SessionsStayBacked ==
  ASSUME TypeOK, SessionsBacked, PairingHeld, [Next]_vars
  PROVE  SessionsBacked'
<1>0. /\ mode \in [enabled : BOOLEAN, phase : Phases] /\ device \in [Devices -> DeviceType]
      /\ session \in [Sessions -> SessionType]
  BY DEF TypeOK
<1>1. ASSUME UNCHANGED <<device, session>>, mode.enabled => mode'.enabled PROVE SessionsBacked'
  BY <1>1 DEF SessionsBacked, Live
<1>2. ASSUME NEW S, session' = SessionsWithout(S), mode' = mode,
             \A s \in Sessions \ S : Live(s) => device'[session[s].device].state = "active"
      PROVE  SessionsBacked'
  BY <1>2 DEF SessionsBacked, Live, SessionsWithout, NoSession
<1>3. CASE OperatorStep
  <2>1. CASE Bootstrap \/ StartReconciliation
    BY <1>0, <1>1, <2>1 DEF Bootstrap, StartReconciliation
  <2>2. ASSUME NEW open \in BOOLEAN, TransitionMode(open) PROVE SessionsBacked'
    BY <2>2 DEF TransitionMode, Drain, SessionsBacked, SessionsWithout, NoSession, Live
  <2>3. ASSUME NEW B \in SUBSET Devices, ReconcileBatch(B) PROVE SessionsBacked'
    <3>1. mode'.enabled = mode.enabled
      BY <1>0, <2>3 DEF ReconcileBatch
    <3> QED BY <1>1, <2>3, <3>1 DEF ReconcileBatch
  <2> QED BY <1>3, <2>1, <2>2, <2>3 DEF OperatorStep
<1>4. CASE AccountStep
  <2>1. ASSUME NEW a \in Accounts, SetTier(a) PROVE SessionsBacked'
    BY <1>1, <2>1 DEF SetTier
  <2>2. ASSUME NEW a \in Accounts, DeleteAccount(a) PROVE SessionsBacked'
    <3> DEFINE D == {d \in Devices : Registered(d) /\ device[d].owner = a}
               S == UNION {Lanes(d) : d \in D}
    <3>1. /\ device' = [d \in Devices |-> IF d \in D THEN [device[d] EXCEPT !.state = "deleted"] ELSE device[d]]
          /\ session' = SessionsWithout(S) /\ mode' = mode
      BY <2>2 DEF DeleteAccount
    <3>2. \A s \in Sessions \ S : Live(s) => session[s].device \in Devices \ D
      BY <1>0 DEF Lanes, Live, SessionType
    <3> HIDE DEF D, S
    <3>3. \A s \in Sessions \ S : Live(s) => device'[session[s].device].state = "active"
      BY <3>1, <3>2 DEF SessionsBacked
    <3> QED BY <1>2, <3>1, <3>3
  <2> QED BY <1>4, <2>1, <2>2 DEF AccountStep
<1>5. CASE PairingStep
  <2>1. ASSUME NEW w \in Workers, NEW d \in Devices, NEW s \in Sessions, FinishComplete(w, d, s)
        PROVE  SessionsBacked'
    <3> DEFINE q == work[w].request
    <3>1. w \in InTx /\ ~Live(s) /\ mode' = mode
      BY <2>1 DEF FinishComplete
    <3>2. request[q].caps # {} => mode.enabled
      BY <3>1 DEF PairingHeld
    <3>3. session' = [session EXCEPT ![s] = [device |-> d, caps |-> request[q].caps]]
      BY <2>1 DEF FinishComplete
    <3>4. device'[d].state = "active" /\ \A e \in Devices \ {d} : device'[e] = device[e]
      BY <1>0, <2>1 DEF FinishComplete, DeviceType, Usable
    <3> HIDE DEF q
    <3>5. ASSUME NEW t \in Sessions, Live(t)'
          PROVE  /\ device'[session'[t].device].state = "active"
                 /\ session'[t].caps # {} => mode'.enabled
      <4>1. CASE t = s
        BY <1>0, <3>1, <3>2, <3>3, <3>4, <4>1
      <4>2. CASE t # s
        <5>1. session'[t] = session[t] /\ Live(t) /\ session[t].device \in Devices
          BY <1>0, <3>3, <3>5, <4>2 DEF Live, SessionType
        <5> QED BY <3>1, <3>4, <5>1 DEF SessionsBacked
      <4> QED BY <4>1, <4>2
    <3> QED BY <3>5 DEF SessionsBacked
  <2>2. ASSUME NEW d \in Devices, Revoke(d) PROVE SessionsBacked'
    <3>1. session' = SessionsWithout(Lanes(d)) /\ mode' = mode /\ \A e \in Devices \ {d} : device'[e] = device[e]
      BY <1>0, <2>2 DEF Revoke
    <3>2. \A s \in Sessions \ Lanes(d) : Live(s) => session[s].device \in Devices \ {d}
      BY <1>0 DEF Lanes, Live, SessionType
    <3>3. \A s \in Sessions \ Lanes(d) : Live(s) => device'[session[s].device].state = "active"
      BY <3>1, <3>2 DEF SessionsBacked
    <3> QED BY <1>2, <3>1, <3>3
  <2>3. ASSUME NEW s \in Sessions, SessionExpires(s) PROVE SessionsBacked'
    <3>1. session' = SessionsWithout({s}) /\ mode' = mode /\ device' = device
      BY <2>3 DEF SessionExpires
    <3> QED BY <1>2, <3>1 DEF SessionsBacked
  <2>4. CASE UNCHANGED <<mode, device, session>>
    BY <1>1, <2>4
  <2> QED BY <1>5, <2>1, <2>2, <2>3, <2>4, PairingFrame
<1>6. CASE RecoveryStep
  <2>1. ASSUME NEW w \in Workers, NEW s \in Sessions, Answer(w, s) PROVE SessionsBacked'
    <3> DEFINE d == index[challenge[work[w].challenge].key]
    <3>1. mode' = mode /\ device' = device /\ mode.enabled
      BY <2>1 DEF Answer
    <3>2. \/ session' = session
          \/ /\ d \in Devices /\ device[d].state = "active"
             /\ session' = [SessionsWithout(Lanes(d)) EXCEPT ![s] = [device |-> d, caps |-> device[d].caps]]
      BY <2>1 DEF Answer, Reconnect
    <3> HIDE DEF d
    <3>3. ASSUME NEW t \in Sessions, Live(t)'
          PROVE  /\ device'[session'[t].device].state = "active"
                 /\ session'[t].caps # {} => mode'.enabled
      <4>1. CASE session'[t] = session[t]
        BY <3>1, <3>3, <4>1 DEF SessionsBacked, Live
      <4>2. CASE session'[t] # session[t]
        <5>1. /\ d \in Devices /\ device[d].state = "active"
              /\ session' = [SessionsWithout(Lanes(d)) EXCEPT ![s] = [device |-> d, caps |-> device[d].caps]]
          BY <3>2, <4>2
        <5>2. SessionsWithout(Lanes(d))[t] \in {session[t], NoSession}
          BY DEF SessionsWithout
        <5>3. session'[t] \in {session[t], NoSession, [device |-> d, caps |-> device[d].caps]}
          <6>1. SessionsWithout(Lanes(d)) = [u \in Sessions |-> SessionsWithout(Lanes(d))[u]]
            BY DEF SessionsWithout
          <6> QED BY ONLY <5>1, <5>2, <6>1
        <5>4. session'[t] # NoSession
          BY <3>3 DEF Live, NoSession
        <5>5. session'[t].device = d
          BY <4>2, <5>3, <5>4
        <5> QED BY <3>1, <5>1, <5>5
      <4> QED BY <4>1, <4>2
    <3> QED BY <3>3 DEF SessionsBacked
  <2> QED BY <1>1, <1>6, <2>1
      DEF RecoveryStep, BeginRecovery, ChallengeExpires, PurgeChallenge, Present, GiveUp
<1>7. CASE UNCHANGED vars
  BY <1>1, <1>7 DEF vars
<1> QED BY <1>3, <1>4, <1>5, <1>6, <1>7 DEF Next

\* No step lets the mode change under a pairing in flight.
LEMMA PairingStaysHeld ==
  ASSUME TypeOK, PairingHeld, [Next]_vars
  PROVE  PairingHeld'
<1>0. /\ mode \in [enabled : BOOLEAN, phase : Phases] /\ request \in [Requests -> RequestType]
      /\ work \in [Workers -> WorkType \union {Idle}]
  BY DEF TypeOK
<1>1. ASSUME NEW w \in InTx PROVE work[w].request \in Requests
  <2>1. work[w] \in WorkType /\ work[w].op \in {"approve", "complete"}
    BY <1>0 DEF InTx, Busy
  <2> QED BY ONLY <2>1 DEF WorkType
<1>2. ASSUME \A w \in Workers : work'[w] \in {work[w], Idle},
             mode' = mode \/ InTx = {},
             \A q \in Requests : /\ request'[q].state = "none" => request[q].state = "none"
                                 /\ request[q].state # "none" => request'[q].caps = request[q].caps
      PROVE  PairingHeld'
  <2>1. InTx' \subseteq InTx /\ \A w \in InTx' : work'[w] = work[w]
    BY <1>2, BusyOnly
  <2> QED BY <1>1, <1>2, <2>1 DEF PairingHeld
<1>3. CASE OperatorStep
  BY <1>2, <1>3 DEF OperatorStep, Bootstrap, StartReconciliation, TransitionMode, ReconcileBatch, ModeFree
<1>4. CASE AccountStep
  <2>1. ASSUME NEW a \in Accounts, DeleteAccount(a) PROVE PairingHeld'
    <3>1. \A q \in Requests : request'[q] \in {request[q], [request[q] EXCEPT !.state = "over"]}
      BY <2>1 DEF DeleteAccount
    <3>2. \A q \in Requests : /\ request'[q].state = "none" => request[q].state = "none"
                              /\ request'[q].caps = request[q].caps
      BY <1>0, <3>1 DEF RequestType
    <3> QED BY <1>2, <2>1, <3>2 DEF DeleteAccount
  <2> QED BY <1>2, <1>4, <2>1 DEF AccountStep, SetTier
<1>5. CASE PairingStep
  <2>1. ASSUME NEW q \in Requests, NEW k \in Keys, NEW caps \in SUBSET Caps, BeginPairing(q, k, caps)
        PROVE  PairingHeld'
    <3>1. \A p \in Requests : /\ request'[p].state = "none" => request[p].state = "none"
                              /\ request[p].state # "none" => request'[p] = request[p]
      BY <1>0, <2>1 DEF BeginPairing
    <3> QED BY <1>2, <2>1, <3>1 DEF BeginPairing
  <2>2. ASSUME NEW q \in Requests, RequestExpires(q) PROVE PairingHeld'
    <3>1. \A p \in Requests : /\ request'[p].state = "none" => request[p].state = "none"
                              /\ request'[p].caps = request[p].caps
      BY <1>0, <2>2 DEF RequestExpires, RequestType
    <3> QED BY <1>2, <2>2, <3>1 DEF RequestExpires
  <2>3. ASSUME NEW w \in Workers, NEW q \in Requests, NEW a, NEW op \in {"approve", "complete"},
               request[q].state # "none", Start(w, op, q, a)
        PROVE  PairingHeld'
    <3>1. mode.phase # "reconciling" /\ (request[q].caps # {} => mode.enabled)
      BY <2>3 DEF Start, Available
    <3>2. \A v \in Workers \ {w} : work'[v] = work[v]
      BY <1>0, <2>3 DEF Start
    <3>3. work'[w].request = q
      BY <1>0, <2>3 DEF Start
    <3>4. mode' = mode /\ request' = request
      BY <2>3 DEF Start
    <3>5. \A v \in InTx' : v = w \/ v \in InTx
      BY <3>2 DEF InTx, Busy
    <3> QED BY <2>3, <3>1, <3>2, <3>3, <3>4, <3>5 DEF PairingHeld, InTx, Busy
  <2>4. ASSUME NEW w \in Workers, NEW q \in Requests, StartComplete(w, q) PROVE PairingHeld'
    BY <2>3, <2>4 DEF StartComplete
  <2>5. ASSUME NEW w \in Workers, NEW q \in Requests, NEW a \in Accounts, StartApprove(w, q, a) PROVE PairingHeld'
    BY <2>3, <2>5 DEF StartApprove
  <2>6. ASSUME NEW w \in Workers, Refuse(w) PROVE PairingHeld'
    BY <1>0, <1>2, <2>6 DEF Refuse, Stopped
  <2>7. ASSUME NEW w \in Workers, NEW st \in {"approved", "over"}, w \in InTx, Stopped(w), mode' = mode,
               \/ request' = [request EXCEPT ![work[w].request].state = st]
               \/ \E a : request' = [request EXCEPT ![work[w].request].state = st, ![work[w].request].by = a]
        PROVE  PairingHeld'
    <3>1. PICK q \in Requests : q = work[w].request
      BY <1>1, <2>7
    <3>2. \/ request' = [request EXCEPT ![q].state = st]
          \/ \E a : request' = [request EXCEPT ![q].state = st, ![q].by = a]
      BY <2>7, <3>1
    <3>3. \A p \in Requests : /\ request'[p].state = "none" => request[p].state = "none"
                              /\ request'[p].caps = request[p].caps
      BY ONLY <1>0, <2>7, <3>2 DEF RequestType
    <3>4. \A v \in Workers : work'[v] \in {work[v], Idle}
      BY <1>0, <2>7 DEF Stopped
    <3> QED BY <1>2, <2>7, <3>3, <3>4
  <2>8. ASSUME NEW w \in Workers, FinishApprove(w) PROVE PairingHeld'
    BY <2>7, <2>8 DEF FinishApprove
  <2>9. ASSUME NEW w \in Workers, NEW d \in Devices, NEW s \in Sessions, FinishComplete(w, d, s)
        PROVE  PairingHeld'
    BY <2>7, <2>9 DEF FinishComplete
  <2> QED BY <1>2, <1>5, <2>1, <2>2, <2>4, <2>5, <2>6, <2>8, <2>9 DEF PairingStep, Revoke, SessionExpires
<1>6. CASE RecoveryStep
  <2>1. ASSUME NEW w \in Workers, NEW c \in Challenges, Present(w, c) PROVE PairingHeld'
    <3>1. mode' = mode /\ request' = request /\ \A v \in Workers \ {w} : work'[v] = work[v]
      BY <1>0, <2>1 DEF Present
    <3>2. work'[w].op = "recover"
      BY <1>0, <2>1 DEF Present
    <3> QED BY <3>1, <3>2 DEF PairingHeld, InTx, Busy
  <2>2. ASSUME NEW w \in Workers, NEW s \in Sessions, Answer(w, s) PROVE PairingHeld'
    BY <1>0, <1>2, <2>2 DEF Answer, Stopped
  <2>3. ASSUME NEW w \in Workers, GiveUp(w) PROVE PairingHeld'
    BY <1>0, <1>2, <2>3 DEF GiveUp, Stopped
  <2> QED BY <1>2, <1>6, <2>1, <2>2, <2>3 DEF RecoveryStep, BeginRecovery, ChallengeExpires, PurgeChallenge
<1>7. CASE UNCHANGED vars
  BY <1>2, <1>7 DEF vars
<1> QED BY <1>3, <1>4, <1>5, <1>6, <1>7 DEF Next

\* What is approved was approved by an account.
LEMMA ApprovalsStaySomeones ==
  ASSUME TypeOK, ApprovedBySomeone, [Next]_vars
  PROVE  ApprovedBySomeone'
<1>0. /\ request \in [Requests -> RequestType] /\ work \in [Workers -> WorkType \union {Idle}]
  BY DEF TypeOK
<1>1. ASSUME \A q \in Requests : request'[q].state = "approved" => request'[q] = request[q]
      PROVE  ApprovedBySomeone'
  BY <1>1 DEF ApprovedBySomeone
<1>2. ASSUME NEW w \in Workers, w \in InTx
      PROVE  work[w].request \in Requests /\ work[w].account \in Accounts
  <2>1. work[w] \in WorkType /\ work[w].op \in {"approve", "complete"}
    BY <1>0, <1>2 DEF InTx, Busy
  <2> QED BY ONLY <2>1 DEF WorkType
<1>3. ASSUME NEW a \in Accounts, DeleteAccount(a) PROVE ApprovedBySomeone'
  <2>1. \A q \in Requests : request'[q] \in {request[q], [request[q] EXCEPT !.state = "over"]}
    BY <1>3 DEF DeleteAccount
  <2>2. \A q \in Requests : request'[q].state = "approved" => request'[q] = request[q]
    BY ONLY <1>0, <2>1 DEF RequestType
  <2> QED BY <1>1, <2>2
<1>4. ASSUME NEW q \in Requests, NEW k \in Keys, NEW caps \in SUBSET Caps, BeginPairing(q, k, caps)
      PROVE  ApprovedBySomeone'
  BY <1>0, <1>1, <1>4 DEF BeginPairing
<1>5. ASSUME NEW q \in Requests, RequestExpires(q) PROVE ApprovedBySomeone'
  <2>1. request' = [request EXCEPT ![q] = [request[q] EXCEPT !.state = "over"]]
    BY <1>5 DEF RequestExpires
  <2>2. \A p \in Requests : request'[p].state = "approved" => request'[p] = request[p]
    BY ONLY <1>0, <2>1 DEF RequestType
  <2> QED BY <1>1, <2>2
<1>6. ASSUME NEW w \in Workers, FinishApprove(w) PROVE ApprovedBySomeone'
  <2> DEFINE q == work[w].request
             a == work[w].account
  <2>1. q \in Requests /\ a \in Accounts
    BY <1>2, <1>6 DEF FinishApprove
  <2>2. request' = [request EXCEPT ![q].state = "approved", ![q].by = a]
    BY <1>6 DEF FinishApprove
  <2> HIDE DEF q, a
  <2>3. \A p \in Requests : p # q => request'[p] = request[p]
    BY <1>0, <2>2
  <2>4. request'[q].by = a
    BY ONLY <1>0, <2>1, <2>2 DEF RequestType
  <2> QED BY <2>1, <2>3, <2>4 DEF ApprovedBySomeone
<1>7. ASSUME NEW w \in Workers, NEW d \in Devices, NEW s \in Sessions, FinishComplete(w, d, s)
      PROVE  ApprovedBySomeone'
  <2> DEFINE q == work[w].request
  <2>1. q \in Requests
    BY <1>2, <1>7 DEF FinishComplete
  <2>2. request' = [request EXCEPT ![q] = [request[q] EXCEPT !.state = "over"]]
    BY <1>7 DEF FinishComplete
  <2> HIDE DEF q
  <2>3. \A p \in Requests : request'[p].state = "approved" => request'[p] = request[p]
    BY ONLY <1>0, <2>1, <2>2 DEF RequestType
  <2> QED BY <1>1, <2>3
<1>8. CASE UNCHANGED request
  BY <1>1, <1>8
<1> QED
  BY <1>3, <1>4, <1>5, <1>6, <1>7, <1>8
  DEF Next, vars, OperatorStep, Bootstrap, StartReconciliation, TransitionMode, ReconcileBatch, AccountStep,
      SetTier, PairingStep, StartComplete, StartApprove, Start, Refuse, Revoke, SessionExpires, RecoveryStep,
      BeginRecovery, ChallengeExpires, PurgeChallenge, Present, Answer, GiveUp

\* A challenge that is open was not spent, and none is spent twice.
LEMMA ChallengesStay ==
  ASSUME TypeOK, OpenIsUnspent, ChallengeKeys, [Next]_vars
  PROVE  OpenIsUnspent' /\ ChallengeKeys'
<1>0. /\ challenge \in [Challenges -> ChallengeType] /\ spent \in [Challenges -> 0..2]
      /\ work \in [Workers -> WorkType \union {Idle}]
  BY DEF TypeOK
<1>1. CASE UNCHANGED <<challenge, spent>>
  BY <1>1 DEF OpenIsUnspent, ChallengeKeys
<1>2. ASSUME NEW c \in Challenges, NEW k \in Keys, BeginRecovery(c, k)
      PROVE  OpenIsUnspent' /\ ChallengeKeys'
  BY <1>0, <1>2, KeysCanonical DEF BeginRecovery, OpenIsUnspent, ChallengeKeys
<1>3. ASSUME NEW c \in Challenges, NEW st \in {"consumed", "expired", "purged"},
             challenge[c].state # "none",
             challenge' = [challenge EXCEPT ![c].state = st],
             spent' = spent \/ (challenge[c].state = "open"
                                 /\ spent' = [spent EXCEPT ![c] = IF @ < 2 THEN @ + 1 ELSE @])
      PROVE  OpenIsUnspent' /\ ChallengeKeys'
  <2>1. /\ challenge'[c].state = st /\ challenge'[c].key = challenge[c].key
        /\ \A e \in Challenges \ {c} : challenge'[e] = challenge[e]
    BY ONLY <1>0, <1>3 DEF ChallengeType
  <2>2. spent'[c] <= 1 /\ \A e \in Challenges \ {c} : spent'[e] = spent[e]
    BY <1>0, <1>3 DEF OpenIsUnspent
  <2> QED BY <1>3, <2>1, <2>2 DEF OpenIsUnspent, ChallengeKeys
<1>4. ASSUME NEW c \in Challenges, ChallengeExpires(c) \/ PurgeChallenge(c)
      PROVE  OpenIsUnspent' /\ ChallengeKeys'
  BY <1>3, <1>4 DEF ChallengeExpires, PurgeChallenge
<1>5. ASSUME NEW w \in Workers, NEW s \in Sessions, Answer(w, s)
      PROVE  OpenIsUnspent' /\ ChallengeKeys'
  <2>1. PICK c \in Challenges : c = work[w].challenge
    <3>1. work[w] \in WorkType /\ work[w].op = "recover"
      BY <1>0, <1>5 DEF Answer, Busy
    <3> QED BY ONLY <3>1 DEF WorkType
  <2>2. /\ challenge[c].state = "open"
        /\ challenge' = [challenge EXCEPT ![c].state = "consumed"]
        /\ spent' = spent \/ spent' = [spent EXCEPT ![c] = IF @ < 2 THEN @ + 1 ELSE @]
    BY <1>5, <2>1 DEF Answer, StillProves
  <2> QED BY <1>3, <2>2
<1>6. ASSUME NEW w \in Workers, NEW c \in Challenges, Present(w, c) PROVE UNCHANGED <<challenge, spent>>
  BY <1>6 DEF Present
<1>7. ASSUME NEW w \in Workers, GiveUp(w) PROVE UNCHANGED <<challenge, spent>>
  BY <1>7 DEF GiveUp
<1>8. CASE OperatorStep \/ AccountStep \/ PairingStep
  BY <1>1, <1>8, ChallengeFrame
<1>9. CASE RecoveryStep
  BY <1>1, <1>2, <1>4, <1>5, <1>6, <1>7, <1>9 DEF RecoveryStep
<1>10. CASE UNCHANGED vars
  BY <1>1, <1>10 DEF vars
<1> QED BY <1>8, <1>9, <1>10 DEF Next

\* The index stays true of the devices: of those reconciled while it is built, of all of them after.
LEMMA IndexStays ==
  ASSUME TypeOK, SessionsBacked, PairingHeld, Unindexed, HalfIndexed, BoundAsIndexed, [Next]_vars
  PROVE  Unindexed' /\ HalfIndexed' /\ BoundAsIndexed'
<1> DEFINE Goal == Unindexed' /\ HalfIndexed' /\ BoundAsIndexed'
<1>0. /\ mode \in [enabled : BOOLEAN, phase : Phases] /\ device \in [Devices -> DeviceType]
      /\ indexed \subseteq Devices
      /\ index \in [CanonicalKeys -> Devices \union {"free", "conflicted", "deleted"}]
      /\ binding \in [CanonicalKeys -> Accounts \union {NoAccount}]
  BY DEF TypeOK
\* Nothing of the index moves, and no registered device leaves or changes hands.
<1>1. ASSUME UNCHANGED <<index, binding, indexed>>, mode'.phase = mode.phase,
             \A d \in Devices : Registered(d) =>
               Registered(d)' /\ device'[d].key = device[d].key /\ device'[d].owner = device[d].owner
      PROVE  Goal
  <2>1. Unindexed'
    BY <1>1 DEF Unindexed
  <2>2. HalfIndexed'
    BY <1>0, <1>1 DEF HalfIndexed
  <2>3. BoundAsIndexed'
    BY <1>0, <1>1 DEF BoundAsIndexed, Ready
  <2> QED BY <2>1, <2>2, <2>3
<1>2. CASE Bootstrap
  <2>1. mode.phase = "pending" /\ mode'.phase = "ready" /\ UNCHANGED <<index, binding, indexed>>
    BY <1>2 DEF Bootstrap
  <2>2. \A k \in CanonicalKeys : index[k] = "free" /\ binding[k] = NoAccount
    BY <2>1 DEF Unindexed
  <2>3. "free" \notin Devices
    OBVIOUS
  <2> QED BY <2>1, <2>2, <2>3 DEF Unindexed, HalfIndexed, BoundAsIndexed, Ready
<1>3. CASE StartReconciliation
  <2>1. mode.phase = "pending" /\ mode'.phase = "reconciling" /\ UNCHANGED <<index, binding, indexed>>
    BY <1>0, <1>3 DEF StartReconciliation
  <2>2. indexed = {} /\ \A k \in CanonicalKeys : index[k] = "free"
    BY <2>1 DEF Unindexed
  <2>3. "free" \notin Devices
    OBVIOUS
  <2> QED BY <2>1, <2>2, <2>3 DEF Unindexed, HalfIndexed, BoundAsIndexed, Ready
<1>4. ASSUME NEW open \in BOOLEAN, TransitionMode(open) PROVE Goal
  <2>1. mode'.phase = mode.phase
    BY <1>0, <1>4 DEF TransitionMode
  <2> QED BY <1>1, <1>4, <2>1 DEF TransitionMode, Registered
<1>5. ASSUME NEW B \in SUBSET Devices, ReconcileBatch(B) PROVE Goal
  <2> DEFINE All(k) == {d \in Devices : Registered(d) /\ Canonical[device[d].key] = k}
             Here(k) == {d \in B : Canonical[device[d].key] = k}
  <2>1. /\ mode.phase = "reconciling" /\ device' = device /\ indexed' = indexed \union B
        /\ B \subseteq Devices \ indexed /\ \A d \in B : Registered(d)
        /\ index' = [k \in CanonicalKeys |-> IndexedWith(k, B)]
    BY <1>5 DEF ReconcileBatch
  <2>2. /\ mode'.phase \in {"reconciling", "ready"}
        /\ mode'.phase = "ready" => B = {d \in Devices \ indexed : Registered(d)}
    <3>1. mode' = [mode EXCEPT !.phase = IF Cardinality(B) < Batch THEN "ready" ELSE @]
      BY <1>5 DEF ReconcileBatch
    <3>2. IsFiniteSet(B) => Cardinality(B) \in Nat
      BY ONLY FS_CardinalityType
    <3>3. Cardinality(B) < Batch => B = {d \in Devices \ indexed : Registered(d)}
      <4>1. Cardinality(B) = Batch \/ B = {d \in Devices \ indexed : Registered(d)}
        BY <1>5 DEF ReconcileBatch
      <4>2. Batch \in Nat
        OBVIOUS
      <4> QED BY ONLY <4>1, <4>2
    <3>4. mode'.phase = IF Cardinality(B) < Batch THEN "ready" ELSE "reconciling"
      BY ONLY <1>0, <2>1, <3>1
    <3> QED BY <3>3, <3>4
  <2>3. ASSUME NEW k \in CanonicalKeys
        PROVE  /\ index'[k] = "free" => \A d \in indexed' : Canonical[device[d].key] # k
               /\ index'[k] \in Devices =>
                    /\ index'[k] \in indexed' /\ Canonical[device[index'[k]].key] = k
                    /\ \A d \in indexed' : Canonical[device[d].key] = k => d = index'[k]
    <3>1. /\ index[k] = "free" => \A d \in indexed : Canonical[device[d].key] # k
          /\ index[k] \in Devices =>
               /\ index[k] \in indexed /\ Canonical[device[index[k]].key] = k
               /\ \A d \in indexed : Canonical[device[d].key] = k => d = index[k]
      BY <2>1 DEF HalfIndexed
    <3>2. index'[k] = IF Here(k) = {} THEN index[k]
                      ELSE IF index[k] = "free" /\ Cardinality(Here(k)) = 1 THEN CHOOSE d \in Here(k) : TRUE
                      ELSE "conflicted"
      BY <2>1 DEF IndexedWith
    <3>3. CASE Here(k) = {}
      BY <2>1, <3>1, <3>2, <3>3
    <3>4. CASE index[k] = "free" /\ Cardinality(Here(k)) = 1
      <4>1. IsFiniteSet(Here(k))
        BY FS_Subset
      <4>2. PICK e : Here(k) = {e}
        <5> HIDE DEF Here
        <5> QED BY ONLY <3>4, <4>1, FS_Singleton
      <4>3. (CHOOSE d \in Here(k) : TRUE) = e /\ e \in B /\ Canonical[device[e].key] = k
        BY <4>2
      <4>4. index'[k] = e
        BY <3>2, <3>4, <4>2, <4>3
      <4>5. \A d \in indexed' : Canonical[device[d].key] = k => d = e
        BY <2>1, <3>1, <3>4, <4>2
      <4>6. e \in Devices /\ e # "free"
        BY <4>3
      <4> QED BY <2>1, <4>3, <4>4, <4>5, <4>6
    <3>5. CASE Here(k) # {} /\ ~(index[k] = "free" /\ Cardinality(Here(k)) = 1)
      <4>1. index'[k] = "conflicted"
        BY <3>2, <3>5
      <4> QED BY <4>1
    <3> QED BY <3>3, <3>4, <3>5
  <2>4. \A d \in indexed' : Registered(d)'
    <3>1. \A d \in indexed : Registered(d)
      BY <2>1 DEF HalfIndexed
    <3> QED BY <2>1, <3>1 DEF Registered
  <2>5. Unindexed' /\ HalfIndexed'
    BY <2>1, <2>2, <2>3, <2>4 DEF Unindexed, HalfIndexed
  <2>6. ASSUME mode'.phase = "ready" PROVE BoundAsIndexed'
    <3>1. indexed' = {d \in Devices : Registered(d)}
      <4>1. \A d \in indexed : Registered(d)
        BY <2>1 DEF HalfIndexed
      <4> QED BY <1>0, <2>1, <2>2, <2>6, <4>1
    <3>2. ASSUME NEW k \in CanonicalKeys
          PROVE  /\ index'[k] = "free" => binding'[k] = NoAccount
                 /\ index'[k] \in Devices => binding'[k] = device[index'[k]].owner
      <4>1. binding'[k] = IF Cardinality(All(k)) = 1 THEN device[CHOOSE d \in All(k) : TRUE].owner ELSE NoAccount
        BY <1>5 DEF ReconcileBatch
      <4>2. ASSUME index'[k] = "free" PROVE binding'[k] = NoAccount
        <5>1. All(k) = {}
          BY <2>3, <3>1, <4>2
        <5>2. Cardinality(All(k)) = 0
          <6> HIDE DEF All
          <6> QED BY ONLY <5>1, FS_EmptySet
        <5> QED BY ONLY <4>1, <5>2
      <4>3. ASSUME index'[k] \in Devices PROVE binding'[k] = device[index'[k]].owner
        <5>1. PICK e : e = index'[k]
          OBVIOUS
        <5>2. All(k) = {e}
          BY <2>3, <3>1, <4>3, <5>1
        <5>3. Cardinality(All(k)) = 1 /\ (CHOOSE d \in All(k) : TRUE) = e
          <6> HIDE DEF All
          <6> QED BY ONLY <5>2, FS_Singleton
        <5> QED BY ONLY <4>1, <5>1, <5>3
      <4> QED BY <4>2, <4>3
    <3>3. ASSUME NEW k \in CanonicalKeys, index'[k] \in Devices
          PROVE  device'[index'[k]].state \in {"active", "revoked"} /\ Canonical[device[index'[k]].key] = k
      BY <2>3, <2>4, <3>3 DEF Registered
    <3> QED BY <2>1, <3>2, <3>3 DEF BoundAsIndexed, Registered
  <2>7. ASSUME mode'.phase = "reconciling" PROVE BoundAsIndexed'
    BY <2>7 DEF BoundAsIndexed, Ready
  <2> QED BY <2>2, <2>5, <2>6, <2>7
<1>6. ASSUME NEW a \in Accounts, SetTier(a) PROVE Goal
  BY <1>1, <1>6 DEF SetTier, Registered
<1>7. ASSUME NEW a \in Accounts, DeleteAccount(a) PROVE Goal
  <2> DEFINE D == {d \in Devices : Registered(d) /\ device[d].owner = a}
  <2>1. /\ mode' = mode /\ mode.phase # "reconciling" /\ UNCHANGED <<indexed, binding>>
        /\ device' = [d \in Devices |-> IF d \in D THEN [device[d] EXCEPT !.state = "deleted"] ELSE device[d]]
        /\ index' = [k \in CanonicalKeys |-> IF index[k] \in D THEN "deleted" ELSE index[k]]
    BY <1>7 DEF DeleteAccount
  <2>2. D \subseteq Devices /\ "free" \notin D /\ "deleted" \notin Devices
    OBVIOUS
  <2> HIDE DEF D
  <2>3. \A k \in CanonicalKeys : /\ index[k] = "free" <=> index'[k] = "free"
                                 /\ index'[k] \in Devices => index'[k] = index[k] /\ index[k] \notin D
    BY <2>1, <2>2
  <2>4. \A d \in Devices \ D : device'[d] = device[d]
    BY <2>1
  <2>5. Unindexed' /\ HalfIndexed'
    BY <2>1, <2>3 DEF Unindexed, HalfIndexed
  <2>6. BoundAsIndexed'
    BY <2>1, <2>3, <2>4 DEF BoundAsIndexed, Ready, Registered
  <2> QED BY <2>5, <2>6
<1>8. ASSUME NEW w \in Workers, NEW d \in Devices, NEW s \in Sessions, FinishComplete(w, d, s) PROVE Goal
  <2> DEFINE q == work[w].request
             a == work[w].account
             seen == work[w].dev
             found == seen # NoDevice /\ Registered(seen)
             key == StoredKey(request[q].key)
  <2>1. w \in InTx /\ mode' = mode /\ indexed' = indexed /\ mode.phase # "reconciling"
    BY <1>8 DEF FinishComplete, PairingHeld
  <2>2. work[w].request \in Requests
    <3>1. work[w] \in WorkType /\ work[w].op \in {"approve", "complete"}
      BY <2>1 DEF InTx, Busy, TypeOK
    <3> QED BY ONLY <3>1 DEF WorkType
  <2>3. request[q].key \in Keys
    BY <2>2 DEF TypeOK, RequestType
  <2>4. CASE found /\ device' = [device EXCEPT ![d].caps = @ \union request[q].caps] /\ UNCHANGED <<index, binding>>
    <3>1. \A e \in Devices : /\ device'[e].state = device[e].state /\ device'[e].key = device[e].key
                             /\ device'[e].owner = device[e].owner
      BY ONLY <1>0, <2>4 DEF DeviceType
    <3> QED BY <1>1, <2>1, <2>4, <3>1 DEF Registered
  <2>5. CASE /\ ~found /\ device[d].state = "none"
             /\ device' = [device EXCEPT ![d] =
                  [state |-> "active", owner |-> a, key |-> key, caps |-> request[q].caps]]
             /\ index' = IF Ready THEN [index EXCEPT ![key] = d] ELSE index
             /\ binding' = IF Ready /\ binding[key] = NoAccount THEN [binding EXCEPT ![key] = a] ELSE binding
    <3>1. /\ device'[d].state = "active" /\ device'[d].key = key /\ device'[d].owner = a
          /\ \A e \in Devices \ {d} : device'[e] = device[e]
      BY ONLY <1>0, <2>5
    <3>2. CASE ~Ready
      <4>1. mode.phase = "pending" /\ UNCHANGED <<index, binding>>
        BY <1>0, <2>1, <2>5, <3>2 DEF Ready, Phases
      <4> QED BY <2>1, <4>1 DEF Unindexed, HalfIndexed, BoundAsIndexed, Ready
    <3>3. CASE Ready
      <4>1. key \in CanonicalKeys /\ key = Canonical[request[q].key] /\ Canonical[key] = key
        BY <2>3, <3>3, KeysCanonical DEF StoredKey
      <4>2. index[key] = "free"
        <5>1. index[key] \notin {"conflicted", "deleted"} /\ FoundBy(request[q].key) = seen
          BY <1>8, <3>3, <4>1 DEF FinishComplete, StillResolves, Unavailable
        <5>2. ASSUME index[key] \in Devices PROVE FALSE
          <6>1. FoundBy(request[q].key) = index[key]
            BY <3>3, <4>1, <5>2 DEF FoundBy, DeviceOfKey
          <6>2. Registered(index[key])
            BY <3>3, <4>1, <5>2 DEF BoundAsIndexed
          <6>3. index[key] # NoDevice
            BY <5>2
          <6> QED BY <2>5, <5>1, <6>1, <6>2, <6>3
        <5> QED BY <1>0, <4>1, <5>1, <5>2
      <4>3. binding[key] = NoAccount
        BY <3>3, <4>1, <4>2 DEF BoundAsIndexed
      <4>4. index' = [index EXCEPT ![key] = d] /\ binding' = [binding EXCEPT ![key] = a]
        BY <2>5, <3>3, <4>3
      <4> HIDE DEF key
      <4>5. index'[key] = d /\ binding'[key] = a
        BY <1>0, <4>1, <4>4
      <4>6. \A k \in CanonicalKeys \ {key} : index'[k] = index[k] /\ binding'[k] = binding[k]
        BY <1>0, <4>4
      <4>7. ASSUME NEW k \in CanonicalKeys \ {key}, index[k] \in Devices PROVE index[k] # d
        <5>1. Registered(index[k])
          BY <3>3, <4>7 DEF BoundAsIndexed
        <5> QED BY <2>5, <5>1 DEF Registered
      <4>8. d # "free"
        OBVIOUS
      <4>9. ASSUME NEW k \in CanonicalKeys
            PROVE  /\ index'[k] = "free" => binding'[k] = NoAccount
                   /\ index'[k] \in Devices =>
                        /\ device'[index'[k]].state \in {"active", "revoked"} /\ Canonical[device'[index'[k]].key] = k
                        /\ binding'[k] = device'[index'[k]].owner
        <5>1. CASE k = key
          BY <3>1, <4>1, <4>5, <4>8, <5>1 DEF Registered
        <5>2. CASE k # key
          BY <3>1, <3>3, <4>6, <4>7, <5>2 DEF BoundAsIndexed, Registered
        <5> QED BY <5>1, <5>2
      <4>10. BoundAsIndexed'
        BY <4>9 DEF BoundAsIndexed, Registered
      <4> QED BY <2>1, <3>3, <4>10 DEF Unindexed, HalfIndexed, Ready
    <3> QED BY <3>2, <3>3
  <2> HIDE DEF Goal
  <2> QED BY <1>8, <2>4, <2>5 DEF FinishComplete
<1>9. ASSUME NEW d \in Devices, Revoke(d) PROVE Goal
  <2>1. device' = [device EXCEPT ![d] = [device[d] EXCEPT !.state = "revoked"]]
    BY <1>9 DEF Revoke
  <2>2. \A e \in Devices : /\ device'[e].key = device[e].key /\ device'[e].owner = device[e].owner
                           /\ device'[e].state \in {device[e].state, "revoked"}
    BY ONLY <1>0, <2>1 DEF DeviceType
  <2> QED BY <1>1, <1>9, <2>2 DEF Revoke, Registered
<1>10. CASE UNCHANGED <<mode, indexed, device, index, binding>>
  BY <1>1, <1>10 DEF Registered
<1>11. CASE OperatorStep \/ AccountStep
  BY <1>2, <1>3, <1>4, <1>5, <1>6, <1>7, <1>11 DEF OperatorStep, AccountStep
<1>12. ASSUME PairingStep PROVE Goal
  <2>1. ASSUME NEW s \in Sessions, SessionExpires(s) PROVE Goal
    BY <1>10, <2>1 DEF SessionExpires
  <2>2. ASSUME UNCHANGED <<mode, indexed, device, index, binding>> PROVE Goal
    BY <1>10, <2>2
  <2> HIDE DEF Goal
  <2> QED BY <1>8, <1>9, <1>12, <2>1, <2>2, PairingFrame
<1>13. CASE RecoveryStep \/ UNCHANGED vars
  BY <1>10, <1>13 DEF RecoveryStep, BeginRecovery, ChallengeExpires, PurgeChallenge, Present, Answer, GiveUp, vars
<1>14. Goal
  BY <1>11, <1>12, <1>13 DEF Next
<1> QED BY <1>14

\* The invariant of the devices holds at first.
LEMMA DevInvInit == Init => DevInv
<1> SUFFICES ASSUME Init PROVE DevInv
  OBVIOUS
<1>1. TypeOK
  BY DevTypedInit
<1>2. SessionsBacked /\ PairingHeld /\ ApprovedBySomeone /\ OpenIsUnspent /\ ChallengeKeys
  BY DEF Init, SessionsBacked, Live, NoSession, PairingHeld, InTx, Busy, ApprovedBySomeone, NewRequest,
         OpenIsUnspent, NewChallenge, ChallengeKeys
<1>3. Unindexed /\ HalfIndexed /\ BoundAsIndexed
  BY DEF Init, Unindexed, HalfIndexed, BoundAsIndexed, Ready
<1> QED BY <1>1, <1>2, <1>3 DEF DevInv

\* A step of the devices keeps their invariant.
LEMMA DevInvStep == DevInv /\ [Next]_vars => DevInv'
  BY DevTyped, SessionsStayBacked, PairingStaysHeld, ApprovalsStaySomeones, ChallengesStay, IndexStays DEF DevInv

\* A session that is issued is for a device of the account its key is bound to.
LEMMA KeysStayBoundStep ==
  ASSUME DevInv, [Next]_vars, Ready, NEW s \in Sessions, session'[s] # session[s], session'[s].device # NoDevice
  PROVE  LET d == session'[s].device IN binding'[Canonical[device'[d].key]] = device'[d].owner
<1>0. /\ TypeOK /\ mode \in [enabled : BOOLEAN, phase : Phases] /\ device \in [Devices -> DeviceType]
      /\ session \in [Sessions -> SessionType] /\ challenge \in [Challenges -> ChallengeType]
      /\ index \in [CanonicalKeys -> Devices \union {"free", "conflicted", "deleted"}]
      /\ work \in [Workers -> WorkType \union {Idle}] /\ request \in [Requests -> RequestType]
      /\ BoundAsIndexed /\ BoundAsIndexed'
  BY DevInvStep DEF DevInv, TypeOK
<1>1. ASSUME NEW S, session' = SessionsWithout(S) PROVE FALSE
  BY <1>1 DEF SessionsWithout, NoSession
\* A session of the device the index has for a key is of the account the key is bound to.
<1>2. ASSUME NEW k \in CanonicalKeys, Ready', index'[k] = session'[s].device, index'[k] \in Devices
      PROVE  LET d == session'[s].device IN binding'[Canonical[device'[d].key]] = device'[d].owner
  BY <1>0, <1>2 DEF BoundAsIndexed
<1>3. ASSUME NEW w \in Workers, NEW d \in Devices, NEW t \in Sessions, FinishComplete(w, d, t)
      PROVE  LET e == session'[s].device IN binding'[Canonical[device'[e].key]] = device'[e].owner
  <2> DEFINE q == work[w].request
             key == StoredKey(request[q].key)
  <2>1. mode' = mode /\ session' = [session EXCEPT ![t] = [device |-> d, caps |-> request[q].caps]]
    BY <1>3 DEF FinishComplete
  <2>2. q \in Requests
    <3>1. work[w] \in WorkType /\ work[w].op \in {"approve", "complete"}
      BY <1>0, <1>3 DEF FinishComplete, InTx, Busy
    <3> QED BY ONLY <3>1 DEF WorkType
  <2>3. session'[s].device = d
    <3> HIDE DEF q
    <3> QED BY <1>0, <2>1
  <2>4. key \in CanonicalKeys /\ key = Canonical[request[q].key]
    BY <1>0, <2>2, KeysCanonical DEF StoredKey, RequestType
  <2>5. index'[key] = d
    <3>1. CASE d = work[w].dev /\ UNCHANGED index
      <4>1. FoundBy(request[q].key) = d
        BY <1>3, <3>1 DEF FinishComplete, StillResolves
      <4>2. d # NoDevice
        OBVIOUS
      <4> QED BY <2>4, <3>1, <4>1, <4>2 DEF FoundBy, DeviceOfKey
    <3>2. CASE index' = [index EXCEPT ![key] = d]
      BY <1>0, <2>4, <3>2
    <3> QED BY <1>3, <3>1, <3>2 DEF FinishComplete
  <2> QED BY <1>2, <2>1, <2>3, <2>4, <2>5 DEF Ready
<1>4. ASSUME NEW w \in Workers, NEW t \in Sessions, Answer(w, t)
      PROVE  LET d == session'[s].device IN binding'[Canonical[device'[d].key]] = device'[d].owner
  <2>1. PICK c \in Challenges : c = work[w].challenge
    <3>1. work[w] \in WorkType /\ work[w].op = "recover"
      BY <1>0, <1>4 DEF Answer, Busy
    <3> QED BY ONLY <3>1 DEF WorkType
  <2>2. PICK k : k = challenge[c].key
    OBVIOUS
  <2>3. challenge[c].state = "open" /\ mode' = mode /\ index' = index
    BY <1>4, <2>1 DEF Answer, StillProves
  <2>4. k \in CanonicalKeys
    BY <2>2, <2>3 DEF DevInv, ChallengeKeys
  <2>5. PICK d : d = index[k]
    OBVIOUS
  <2>6. d \in Devices /\ session' = [SessionsWithout(Lanes(d)) EXCEPT ![t] = [device |-> d, caps |-> device[d].caps]]
    BY <1>4, <2>1, <2>2, <2>5 DEF Answer, Reconnect
  <2>7. session'[s].device = d
    <3>1. /\ SessionsWithout(Lanes(d)) = [u \in Sessions |-> SessionsWithout(Lanes(d))[u]]
          /\ SessionsWithout(Lanes(d))[s] \in {session[s], NoSession} /\ NoSession.device = NoDevice
      BY DEF SessionsWithout, NoSession
    <3>2. session'[s] \in {session[s], NoSession, [device |-> d, caps |-> device[d].caps]}
      BY ONLY <2>6, <3>1
    <3> QED BY <3>1, <3>2
  <2> QED BY <1>2, <2>3, <2>4, <2>5, <2>6, <2>7 DEF Ready
<1> QED
  BY <1>1, <1>3, <1>4
  DEF Next, vars, OperatorStep, Bootstrap, StartReconciliation, TransitionMode, Drain, ReconcileBatch,
      AccountStep, SetTier, DeleteAccount, PairingStep, BeginPairing, RequestExpires, StartComplete,
      StartApprove, Start, Refuse, FinishApprove, Revoke, SessionExpires, RecoveryStep, BeginRecovery,
      ChallengeExpires, PurgeChallenge, Present, GiveUp

-----------------------------------------------------------------------------
(* Automatic sharing (FleetAutomatic).                                        *)
HIDE FleetDevicesAssumption
USE ClientsAssumption

AutoConsents == [gen : Nat, rev : Nat, enabled : BOOLEAN, by : Consenting \union {NoDevice}]
AutoCands == [gen : Nat, cgen : Nat, epoch : Nat, latch : BOOLEAN, cb : {"none", "reserved", "claimed"},
              live : BOOLEAN, id : Nat, claims : Nat, source : Nat]
AutoSources == [state : {"none", "live", "ended"}, char : Chars \union {NoChar}, epoch : Nat, cgen : Nat,
                by : Consenting \union {NoDevice}, fleet : Fleets \union {NoFleet}]
AutoTasks == [char : Chars, cgen : Nat, gen : Nat, id : Nat]
AutoJobs == [stage : {"claimed", "admitted", "bound", "refused"}, task : AutoTasks, rev : Nat,
             by : Consenting \union {NoDevice}, epoch : Nat, claims : Nat, token : Nat,
             fleet : Fleets \union {NoFleet}, seen : Nat]
AutoTyped ==
  /\ consent \in AutoConsents
  /\ cand \in [Chars -> AutoCands]
  /\ src \in [Automatic!Ids -> AutoSources]
  /\ \A i \in Automatic!Ids : Automatic!Live(i) => src[i].char \in Chars
  /\ boss \in [Chars -> [epoch : Nat, token : Nat, grant : BOOLEAN]]
  /\ queue \subseteq AutoTasks
  /\ slot \in [Fleets -> Nat]
  /\ job \in [Workers -> AutoJobs \union {Idle}]
  /\ ids \in Nat
  /\ applied \in [Requests -> 0..2]
  /\ \A m \in sent : m.id \in Requests /\ m.rev \in Nat /\ m.by \in Consenting \union {NoDevice}
\* What a client sent says what the consent was then; a command that took effect is of a consent
\* that has been replaced since.
AppliedOnce ==
  /\ \A m, n \in sent : m.id = n.id => m = n
  /\ \A m \in sent : m.rev <= consent.rev
  /\ \A q \in Requests : /\ applied[q] <= 1
                         /\ applied[q] = 1 => \E m \in sent : m.id = q /\ m.rev < consent.rev
\* What is claimed is not refused.
ClaimedIsFree == \A c \in Chars : cand[c].cb = "claimed" => ~cand[c].latch
AutoInv == AutoTyped /\ Automatic!SourcesHaveConsent /\ AppliedOnce /\ ClaimedIsFree

\* The invariant of automatic sharing holds at first.
LEMMA AutoInvInit == Automatic!Init => AutoInv
<1> SUFFICES ASSUME Automatic!Init PROVE AutoInv
  OBVIOUS
<1>1. AutoTyped
  BY DEF Automatic!Init, AutoTyped, AutoConsents, AutoCands, AutoSources, Automatic!NoSource, Automatic!NewCand,
         Automatic!Live
<1>2. Automatic!SourcesHaveConsent
  BY DEF Automatic!Init, Automatic!SourcesHaveConsent, Automatic!NoSource, Automatic!Live
<1>3. AppliedOnce /\ ClaimedIsFree
  BY DEF Automatic!Init, AppliedOnce, ClaimedIsFree, Automatic!NewCand
<1> QED BY <1>1, <1>2, <1>3 DEF AutoInv

\* Sources that are ended leave sources, and no live one but those that were.
LEMMA AutoEnded ==
  ASSUME AutoTyped, NEW S
  PROVE  /\ Automatic!Ended(S) \in [Automatic!Ids -> AutoSources]
         /\ \A i \in Automatic!Ids : Automatic!Ended(S)[i].state = "live" =>
              i \notin S /\ Automatic!Live(i) /\ Automatic!Ended(S)[i] = src[i]
<1>1. src \in [Automatic!Ids -> AutoSources]
  BY DEF AutoTyped
<1>2. Automatic!Ended(S) = [i \in Automatic!Ids |-> IF i \in S /\ src[i].state = "live" THEN [src[i] EXCEPT !.state = "ended"]
                                          ELSE src[i]]
  BY DEF Automatic!Ended, Automatic!Live
<1>3. Automatic!Ended(S) \in [Automatic!Ids -> AutoSources]
  BY ONLY <1>1, <1>2 DEF AutoSources
<1>4. ASSUME NEW i \in Automatic!Ids, Automatic!Ended(S)[i].state = "live"
      PROVE  i \notin S /\ src[i].state = "live" /\ Automatic!Ended(S)[i] = src[i]
  BY ONLY <1>1, <1>2, <1>4 DEF AutoSources
<1> QED BY <1>3, <1>4 DEF Automatic!Live

\* Of the work only a commit touches what the consent, the links and the sources are.
LEMMA WorkFrame ==
  ASSUME Automatic!Work
  PROVE  /\ UNCHANGED <<consent, sent, applied, receipt, boss, revoked, member, on>>
         /\ src' = src \/ \E w \in Workers : Automatic!Commit(w)
<1> DEFINE Same == UNCHANGED <<consent, sent, applied, receipt, boss, revoked, member, on>>
<1>1. ASSUME NEW c \in Chars, Automatic!Reserve(c) PROVE Same /\ src' = src
  BY <1>1 DEF Automatic!Reserve, Automatic!commands, Automatic!world
<1>2. ASSUME Automatic!ReserveDue PROVE Same /\ src' = src
  <2> HIDE DEF Same
  <2> QED BY <1>1, <1>2 DEF Automatic!ReserveDue
<1>3. ASSUME NEW w \in Workers, NEW t \in queue, Automatic!Claim(w, t) PROVE Same /\ src' = src
  BY <1>3 DEF Automatic!Claim, Automatic!commands, Automatic!world
<1>4. ASSUME NEW w \in Workers, Automatic!GetToken(w) PROVE Same /\ src' = src
  BY <1>4 DEF Automatic!GetToken, Automatic!commands, Automatic!world
<1>5. ASSUME NEW w \in Workers, Automatic!Commit(w) PROVE Same
  BY <1>5 DEF Automatic!Commit, Automatic!commands
<1>6. ASSUME NEW w \in Workers, Automatic!Release(w) PROVE Same /\ src' = src
  BY <1>6 DEF Automatic!Release, Automatic!commands, Automatic!world
<1>7. ASSUME NEW w \in Workers, Automatic!Die(w) PROVE Same /\ src' = src
  BY <1>7 DEF Automatic!Die, Automatic!commands, Automatic!world
<1>8. ASSUME NEW w \in Workers, NEW f \in Fleets, Automatic!Bind(w, f) PROVE Same /\ src' = src
  BY <1>8 DEF Automatic!Bind, Automatic!commands, Automatic!world
<1>9. ASSUME NEW w \in Workers, NEW r \in BOOLEAN, Automatic!Settle(w, r) PROVE Same /\ src' = src
  BY <1>9 DEF Automatic!Settle, Automatic!commands, Automatic!world
<1> HIDE DEF Same
<1>10. Same /\ (src' = src \/ \E w \in Workers : Automatic!Commit(w))
  BY <1>2, <1>3, <1>4, <1>5, <1>6, <1>7, <1>8, <1>9 DEF Automatic!Work
<1> QED BY <1>10 DEF Same

\* What the sources say after a step that ends those of S.
AutoHeld(i) == /\ src[i].char \in Chars
               /\ Automatic!Working
               /\ src[i].cgen = consent.gen /\ src[i].by = consent.by
               /\ src[i].epoch = boss[src[i].char].epoch /\ boss[src[i].char].grant

\* A source that is live after a step was made under the consent of then.
LEMMA SourcesStep ==
  ASSUME AutoTyped, Automatic!SourcesHaveConsent, [Automatic!Next]_automatic
  PROVE  /\ src' \in [Automatic!Ids -> AutoSources]
         /\ \A i \in Automatic!Ids : Automatic!Live(i)' => AutoHeld(i)'
<1> DEFINE Goal == /\ src' \in [Automatic!Ids -> AutoSources]
                   /\ \A i \in Automatic!Ids : Automatic!Live(i)' => AutoHeld(i)'
<1>0. /\ src \in [Automatic!Ids -> AutoSources] /\ consent \in AutoConsents
      /\ boss \in [Chars -> [epoch : Nat, token : Nat, grant : BOOLEAN]]
  BY DEF AutoTyped
<1>1. \A i \in Automatic!Ids : Automatic!Live(i) => AutoHeld(i)
  BY DEF AutoTyped, Automatic!SourcesHaveConsent, AutoHeld
<1>2. CASE UNCHANGED <<src, consent, boss, revoked, member, on>>
  BY <1>0, <1>1, <1>2 DEF AutoHeld, Automatic!Live, Automatic!Working
<1>3. ASSUME NEW S, src' = Automatic!Ended(S),
             \A i \in Automatic!Ids : i \notin S /\ Automatic!Live(i) =>
                /\ Automatic!Working'
                /\ src[i].cgen = consent'.gen /\ src[i].by = consent'.by
                /\ src[i].epoch = boss'[src[i].char].epoch /\ boss'[src[i].char].grant
      PROVE  Goal
  <2>1. src' \in [Automatic!Ids -> AutoSources]
    BY <1>3, AutoEnded
  <2>2. ASSUME NEW i \in Automatic!Ids, src'[i].state = "live" PROVE AutoHeld(i)'
    <3>1. i \notin S /\ Automatic!Live(i) /\ src'[i] = src[i]
      BY <1>3, <2>2, AutoEnded
    <3>2. src[i].char \in Chars
      BY <1>1, <3>1 DEF AutoHeld
    <3> QED BY <1>3, <3>1, <3>2 DEF AutoHeld
  <2> QED BY <2>1, <2>2 DEF Automatic!Live
\* Some sources end; what the others rest on stays.
<1>4. ASSUME NEW S, src' = Automatic!Ended(S), UNCHANGED <<consent, boss, revoked, member, on>> PROVE Goal
  BY <1>1, <1>3, <1>4 DEF AutoHeld, Automatic!Working
<1>5. ASSUME Automatic!Closed PROVE Goal
  <2>1. src' = Automatic!Ended(Automatic!OfGeneration(consent.gen))
    BY <1>5 DEF Automatic!Closed, Automatic!EndedBy
  <2>2. \A i \in Automatic!Ids : Automatic!Live(i) => i \in Automatic!OfGeneration(consent.gen)
    BY <1>1 DEF AutoHeld, Automatic!OfGeneration
  <2> QED BY <1>3, <2>1, <2>2
<1>6. CASE Automatic!Control
  <2>1. ASSUME NEW m \in sent, Automatic!Command(m) PROVE Goal
    <3>1. CASE Automatic!Opened(m.by)
      <4>1. \/ src' = Automatic!Ended(Automatic!OfGeneration(consent.gen))
            \/ src' = src /\ ~consent.enabled
        BY <3>1 DEF Automatic!Opened, Automatic!EndedBy
      <4>2. \A i \in Automatic!Ids : Automatic!Live(i) => i \in Automatic!OfGeneration(consent.gen) /\ consent.enabled
        BY <1>1 DEF AutoHeld, Automatic!OfGeneration, Automatic!Working
      <4>3. CASE src' = src /\ ~consent.enabled
        BY <1>0, <4>2, <4>3 DEF Automatic!Live
      <4> QED BY <1>3, <4>1, <4>2, <4>3
    <3> QED BY <1>5, <2>1, <3>1 DEF Automatic!Command
  <2>2. ASSUME NEW i \in Automatic!Ids, Automatic!StopSource(i) PROVE Goal
    BY <1>4, <1>5, <2>2 DEF Automatic!StopSource, Automatic!world
  <2>3. ASSUME NEW d \in Consenting, Automatic!Revoke(d) PROVE Goal
    <3>1. CASE consent' = consent /\ src' = Automatic!Ended({i \in Automatic!Ids : src[i].by = d})
               /\ ~(consent.enabled /\ consent.by = d)
      <4>1. revoked' = revoked \union {d} /\ UNCHANGED <<boss, member, on>>
        BY <2>3 DEF Automatic!Revoke
      <4> QED BY <1>1, <1>3, <3>1, <4>1 DEF AutoHeld, Automatic!Working
    <3> QED BY <1>5, <2>3, <3>1 DEF Automatic!Revoke
  <2> QED BY <1>2, <1>6, <2>1, <2>2, <2>3 DEF Automatic!Control, Automatic!Send, Automatic!ReceiptExpires, Automatic!world
<1>7. CASE Automatic!World
  <2>1. ASSUME NEW c \in Chars, Automatic!Relink(c) PROVE Goal
    <3>1. /\ src' = Automatic!Ended(Automatic!OfBoss(c)) /\ UNCHANGED <<consent, revoked, member, on>>
          /\ \A d \in Chars \ {c} : boss'[d] = boss[d]
      BY <1>0, <2>1 DEF Automatic!Relink
    <3>2. \A i \in Automatic!Ids : i \notin Automatic!OfBoss(c) => src[i].char # c
      BY DEF Automatic!OfBoss
    <3> QED BY <1>1, <1>3, <3>1, <3>2 DEF AutoHeld, Automatic!Working
  <2>2. ASSUME NEW c \in Chars, NEW g \in BOOLEAN, Automatic!Rotate(c, g) PROVE Goal
    <3>1. UNCHANGED <<consent, revoked, member, on>> /\ \A d \in Chars \ {c} : boss'[d] = boss[d]
      BY <1>0, <2>2 DEF Automatic!Rotate
    <3>2. boss'[c].epoch = boss[c].epoch /\ boss'[c].grant = g
      BY <1>0, <2>2 DEF Automatic!Rotate
    <3>3. CASE src' = Automatic!Ended(Automatic!OfBoss(c))
      <4>1. \A i \in Automatic!Ids : i \notin Automatic!OfBoss(c) => src[i].char # c
        BY DEF Automatic!OfBoss
      <4> QED BY <1>1, <1>3, <3>1, <3>3, <4>1 DEF AutoHeld, Automatic!Working
    <3>4. CASE src' = src /\ g
      <4>1. \A d \in Chars : boss'[d].epoch = boss[d].epoch /\ (boss[d].grant => boss'[d].grant)
        BY <3>1, <3>2, <3>4
      <4> QED BY <1>0, <1>1, <3>1, <3>4, <4>1 DEF AutoHeld, Automatic!Working, Automatic!Live
    <3> QED BY <2>2, <3>3, <3>4 DEF Automatic!Rotate
  <2>3. ASSUME NEW m \in BOOLEAN, NEW o \in BOOLEAN, Automatic!Suspend(m, o) PROVE Goal
    <3>1. member' = m /\ on' = o /\ UNCHANGED <<consent, boss, revoked>>
      BY <2>3 DEF Automatic!Suspend
    <3>2. CASE src' = Automatic!Ended(Automatic!Ids)
      BY <1>3, <3>2
    <3>3. CASE src' = src /\ m /\ o
      BY <1>0, <1>1, <3>1, <3>3 DEF AutoHeld, Automatic!Working, Automatic!Live
    <3> QED BY <2>3, <3>2, <3>3 DEF Automatic!Suspend
  <2>4. ASSUME NEW f \in Fleets, Automatic!Overtake(f) PROVE Goal
    BY <1>4, <2>4 DEF Automatic!Overtake
  <2>5. ASSUME NEW i \in Automatic!Ids, Automatic!SourceEnds(i) PROVE Goal
    BY <1>4, <2>5 DEF Automatic!SourceEnds, Automatic!world
  <2>6. ASSUME NEW c \in Chars, Automatic!Lapse(c) PROVE Goal
    BY <1>2, <2>6 DEF Automatic!Lapse, Automatic!world
  <2> QED BY <1>7, <2>1, <2>2, <2>3, <2>4, <2>5, <2>6 DEF Automatic!World
<1>8. ASSUME Automatic!Work PROVE Goal
  <2>1. ASSUME NEW w \in Workers, Automatic!Commit(w) PROVE Goal
    <3>0. UNCHANGED <<consent, boss, revoked, member, on>>
      BY <2>1 DEF Automatic!Commit
    <3>1. CASE src' = src
      BY <1>2, <3>0, <3>1
    <3>2. CASE src' # src
      <4> DEFINE j == job[w]
                 new == [state |-> "live", char |-> j.task.char, epoch |-> j.epoch, cgen |-> j.task.cgen,
                         by |-> j.by, fleet |-> j.fleet]
                 S == {i \in Automatic!Ids : src[i].fleet = j.fleet}
      <4>1. j \in AutoJobs /\ Automatic!Committable(j) /\ Automatic!Create(w)
        BY <2>1, <3>2 DEF Automatic!Commit, Automatic!Reuse, AutoTyped
      <4>2. src' = [Automatic!Ended(S) EXCEPT ![j.task.id] = new]
        BY <3>2, <4>1 DEF Automatic!Create, Automatic!Displaced
      <4>3. /\ j.task.char \in Chars /\ Automatic!Working /\ consent.gen = j.task.cgen /\ consent.by = j.by
            /\ boss[j.task.char].epoch = j.epoch /\ boss[j.task.char].grant
        <5>1. j.task.char \in Chars
          BY ONLY <4>1 DEF AutoJobs, AutoTasks
        <5> QED BY <4>1, <5>1 DEF Automatic!Committable, Automatic!CurrentToken, Automatic!CurrentClaim, Automatic!Admitted
      <4>4. new \in AutoSources
        BY ONLY <4>1 DEF AutoJobs, AutoTasks, AutoSources
      <4>5. /\ Automatic!Ended(S) \in [Automatic!Ids -> AutoSources]
            /\ \A i \in Automatic!Ids : Automatic!Ended(S)[i].state = "live" =>
                 i \notin S /\ Automatic!Live(i) /\ Automatic!Ended(S)[i] = src[i]
        BY AutoEnded
      <4>6. /\ new.char = j.task.char /\ new.epoch = j.epoch /\ new.cgen = j.task.cgen /\ new.by = j.by
        OBVIOUS
      <4> HIDE DEF new, S, j
      <4>7. src' \in [Automatic!Ids -> AutoSources]
        BY ONLY <4>2, <4>4, <4>5
      <4>8. ASSUME NEW i \in Automatic!Ids, src'[i].state = "live" PROVE AutoHeld(i)'
        <5>1. CASE src'[i] = new
          BY <3>0, <4>3, <4>6, <5>1 DEF AutoHeld, Automatic!Working
        <5>2. CASE src'[i] = Automatic!Ended(S)[i]
          <6>1. Automatic!Live(i) /\ src'[i] = src[i]
            BY <4>5, <4>8, <5>2
          <6> QED BY <1>1, <3>0, <6>1 DEF AutoHeld, Automatic!Working
        <5>3. src'[i] = new \/ src'[i] = Automatic!Ended(S)[i]
          BY ONLY <4>2, <4>5
        <5> QED BY <5>1, <5>2, <5>3
      <4> QED BY <4>7, <4>8 DEF Automatic!Live
    <3> QED BY <3>1, <3>2
  <2>2. ASSUME src' = src PROVE Goal
    BY <1>2, <1>8, <2>2, WorkFrame
  <2> HIDE DEF Goal
  <2> QED BY <1>8, <2>1, <2>2, WorkFrame
<1>9. CASE UNCHANGED automatic
  BY <1>2, <1>9 DEF automatic
<1>10. Goal
  BY <1>6, <1>7, <1>8, <1>9 DEF Automatic!Next
<1> QED BY <1>10

\* Sources are numbered.
LEMMA SourcesIdsNat == Automatic!Ids \subseteq Nat
  BY DEF Automatic!Ids

\* A candidate that is cleared is one.
LEMMA CandCleared ==
  ASSUME NEW k \in AutoCands, NEW e, e = [k EXCEPT !.cb = "none", !.live = FALSE, !.id = 0, !.source = 0]
  PROVE  e \in AutoCands /\ e.cb = "none" /\ e.latch = k.latch /\ e.epoch = k.epoch
  BY DEF AutoCands

\* A candidate that was refused is one.
LEMMA CandLatched ==
  ASSUME NEW k \in AutoCands, NEW l \in BOOLEAN, NEW e, e = [k EXCEPT !.latch = l]
  PROVE  e \in AutoCands /\ e.cb = k.cb /\ e.latch = l
  BY DEF AutoCands

\* A candidate that was served is one.
LEMMA CandServed ==
  ASSUME NEW k \in AutoCands, NEW i \in Nat, NEW e, e = [k EXCEPT !.source = i]
  PROVE  e \in AutoCands /\ e.cb = k.cb /\ e.latch = k.latch
  BY DEF AutoCands

\* A candidate that a job has reserved is one.
LEMMA CandReserved ==
  ASSUME NEW k \in AutoCands, NEW i \in Nat, NEW e,
         e = [k EXCEPT !.source = 0, !.cb = "reserved", !.live = TRUE, !.id = i]
  PROVE  e \in AutoCands /\ e.cb = "reserved" /\ e.latch = k.latch
  BY DEF AutoCands

\* A candidate that is claimed is one, and not refused.
LEMMA CandClaimed ==
  ASSUME NEW k \in AutoCands, NEW i \in Nat, NEW e, e = [k EXCEPT !.cb = "claimed", !.claims = i]
  PROVE  e \in AutoCands /\ e.cb = "claimed" /\ e.latch = k.latch
  BY DEF AutoCands
\* One step for the candidates: typed, nothing refused is claimed, and what is refused stays so.
CandStep ==
  /\ cand' \in [Chars -> AutoCands]
  /\ \A c \in Chars : cand'[c].cb = "claimed" => ~cand'[c].latch
  /\ \A c \in Chars : cand[c].latch /\ cand[c].epoch = boss[c].epoch /\ boss'[c].epoch = boss[c].epoch =>
       cand'[c].latch

\* What a step does to a candidate: it is claimed only if not refused, and the refusal goes only with a new link.
LEMMA CandidatesStep ==
  ASSUME AutoTyped, ClaimedIsFree, [Automatic!Next]_automatic
  PROVE  CandStep
<1>0. /\ cand \in [Chars -> AutoCands] /\ consent \in AutoConsents
      /\ boss \in [Chars -> [epoch : Nat, token : Nat, grant : BOOLEAN]]
      /\ ids \in Nat /\ job \in [Workers -> AutoJobs \union {Idle}] /\ queue \subseteq AutoTasks
  BY DEF AutoTyped
<1>1. CASE UNCHANGED cand
  BY <1>0, <1>1 DEF CandStep, ClaimedIsFree
\* Some candidates lose what was outstanding, and keep their latch.
<1>2. ASSUME NEW S, cand' = [c \in Chars |-> IF c \in S THEN Automatic!Cleared(c) ELSE cand[c]] PROVE CandStep
  <2>1. ASSUME NEW c \in Chars
        PROVE  /\ cand'[c] \in AutoCands /\ cand'[c].latch = cand[c].latch
               /\ cand'[c].cb = "claimed" => cand[c].cb = "claimed"
    <3>1. cand[c] \in AutoCands
      BY <1>0
    <3>2. Automatic!Cleared(c) = [cand[c] EXCEPT !.cb = "none", !.live = FALSE, !.id = 0, !.source = 0]
      BY DEF Automatic!Cleared
    <3>3. Automatic!Cleared(c) \in AutoCands /\ Automatic!Cleared(c).cb = "none" /\ Automatic!Cleared(c).latch = cand[c].latch
      BY <3>1, <3>2, CandCleared
    <3> QED BY <1>2, <3>1, <3>3
  <2>2. cand' \in [Chars -> AutoCands]
    BY <1>2, <2>1
  <2> QED BY <2>1, <2>2 DEF CandStep, ClaimedIsFree
\* One candidate changes.
<1>3. ASSUME NEW c \in Chars, NEW e \in AutoCands, cand' = [cand EXCEPT ![c] = e], e.cb = "claimed" => ~e.latch,
             cand[c].latch /\ cand[c].epoch = boss[c].epoch /\ boss'[c].epoch = boss[c].epoch => e.latch
      PROVE  CandStep
  BY <1>0, <1>3 DEF CandStep, ClaimedIsFree
<1>4. ASSUME NEW c \in Chars
      PROVE  /\ cand[c] \in AutoCands /\ Automatic!Cleared(c) \in AutoCands /\ Automatic!Cleared(c).cb = "none"
             /\ Automatic!Cleared(c).latch = cand[c].latch
             /\ \A l \in BOOLEAN : LET e == [Automatic!Cleared(c) EXCEPT !.latch = l] IN
                  e \in AutoCands /\ e.cb = "none" /\ e.latch = l
             /\ \A i \in Nat : LET e == [Automatic!Cleared(c) EXCEPT !.source = i] IN
                  e \in AutoCands /\ e.cb = "none" /\ e.latch = cand[c].latch
  <2>1. cand[c] \in AutoCands
    BY <1>0
  <2>2. Automatic!Cleared(c) = [cand[c] EXCEPT !.cb = "none", !.live = FALSE, !.id = 0, !.source = 0]
    BY DEF Automatic!Cleared
  <2>3. /\ Automatic!Cleared(c) \in AutoCands /\ Automatic!Cleared(c).cb = "none"
        /\ Automatic!Cleared(c).latch = cand[c].latch
    BY ONLY <2>1, <2>2, CandCleared
  <2>4. ASSUME NEW l \in BOOLEAN
        PROVE  LET e == [Automatic!Cleared(c) EXCEPT !.latch = l] IN e \in AutoCands /\ e.cb = "none" /\ e.latch = l
    <3>1. PICK e : e = [Automatic!Cleared(c) EXCEPT !.latch = l]
      OBVIOUS
    <3> QED BY <2>3, <3>1, CandLatched
  <2>5. ASSUME NEW i \in Nat
        PROVE  LET e == [Automatic!Cleared(c) EXCEPT !.source = i] IN
               e \in AutoCands /\ e.cb = "none" /\ e.latch = cand[c].latch
    <3>1. PICK e : e = [Automatic!Cleared(c) EXCEPT !.source = i]
      OBVIOUS
    <3> QED BY <2>3, <3>1, CandServed
  <2> QED BY <2>1, <2>3, <2>4, <2>5
<1>5. ASSUME Automatic!Closed PROVE CandStep
  <2>1. cand' = [c \in Chars |-> IF c \in {d \in Chars : cand[d].cgen = consent.gen}
                                 THEN Automatic!Cleared(c) ELSE cand[c]]
    BY <1>5 DEF Automatic!Closed
  <2> QED BY <1>2, <2>1
<1>6. ASSUME NEW d, Automatic!Opened(d) PROVE CandStep
  <2>1. cand' = [c \in Chars |-> IF c \in Chars THEN Automatic!Cleared(c) ELSE cand[c]]
    BY <1>6 DEF Automatic!Opened
  <2> QED BY <1>2, <2>1
<1>7. CASE Automatic!Control
  BY <1>1, <1>5, <1>6, <1>7
  DEF Automatic!Control, Automatic!Send, Automatic!Command, Automatic!ReceiptExpires, Automatic!StopSource,
      Automatic!Revoke
<1>8. CASE Automatic!World
  <2>1. ASSUME NEW c \in Chars, Automatic!Lapse(c) PROVE CandStep
    <3>1. cand' = [cand EXCEPT ![c] = [cand[c] EXCEPT !.live = FALSE]]
      BY <2>1 DEF Automatic!Lapse
    <3>2. LET e == [cand[c] EXCEPT !.live = FALSE] IN e \in AutoCands /\ e.cb = cand[c].cb /\ e.latch = cand[c].latch
      BY ONLY <1>0 DEF AutoCands
    <3> QED BY <1>3, <3>1, <3>2 DEF ClaimedIsFree
  <2> QED BY <1>1, <1>8, <2>1
      DEF Automatic!World, Automatic!Relink, Automatic!Rotate, Automatic!Suspend, Automatic!Overtake,
          Automatic!SourceEnds
<1>9. ASSUME NEW c \in Chars, Automatic!Reserve(c) PROVE CandStep
  <2> DEFINE k == Automatic!Reconciled(c)
  <2>1. k \in AutoCands /\ (k.cb = "claimed" => ~k.latch)
        /\ (cand[c].latch /\ cand[c].epoch = boss[c].epoch => k.latch)
    <3>1. Automatic!Rebound(c) =
            [Automatic!Cleared(c) EXCEPT !.gen = Automatic!Cleared(c).gen + 1, !.cgen = consent.gen,
               !.epoch = boss[c].epoch, !.latch = Automatic!Cleared(c).latch /\ cand[c].epoch = boss[c].epoch]
      BY DEF Automatic!Rebound
    <3>2. /\ consent.gen \in Nat /\ boss[c].epoch \in Nat /\ Automatic!Cleared(c) \in AutoCands
          /\ Automatic!Cleared(c).gen + 1 \in Nat
          /\ (Automatic!Cleared(c).latch /\ cand[c].epoch = boss[c].epoch) \in BOOLEAN
      BY <1>0, <1>4 DEF AutoConsents, AutoCands
    <3>3. /\ Automatic!Rebound(c) \in AutoCands /\ Automatic!Rebound(c).cb = "none"
          /\ Automatic!Rebound(c).latch = (Automatic!Cleared(c).latch /\ cand[c].epoch = boss[c].epoch)
      <4>1. PICK r : r = Automatic!Cleared(c)
        OBVIOUS
      <4>2. PICK h : h = r.gen + 1
        OBVIOUS
      <4>3. PICK l : l = (r.latch /\ cand[c].epoch = boss[c].epoch)
        OBVIOUS
      <4>4. PICK e : e = Automatic!Rebound(c)
        OBVIOUS
      <4>5. PICK g : g = consent.gen
        OBVIOUS
      <4>6. PICK p : p = boss[c].epoch
        OBVIOUS
      <4>7. e = [r EXCEPT !.gen = h, !.cgen = g, !.epoch = p, !.latch = l]
        BY <3>1, <4>1, <4>2, <4>3, <4>4, <4>5, <4>6
      <4>8. r \in AutoCands /\ h \in Nat /\ l \in BOOLEAN /\ g \in Nat /\ p \in Nat
        BY <3>2, <4>1, <4>2, <4>3, <4>5, <4>6
      <4>9. e \in AutoCands /\ e.cb = r.cb /\ e.latch = l
        BY ONLY <4>7, <4>8 DEF AutoCands
      <4> QED BY <1>4, <4>1, <4>3, <4>4, <4>9
    <3>4. k = cand[c] \/ k = Automatic!Rebound(c)
      BY DEF Automatic!Reconciled
    <3>5. k \in AutoCands
      BY <1>4, <3>3, <3>4
    <3>6. k.cb = "claimed" => ~k.latch
      BY <3>3, <3>4 DEF ClaimedIsFree
    <3>7. cand[c].latch /\ cand[c].epoch = boss[c].epoch => k.latch
      BY <1>4, <3>3, <3>4
    <3> QED BY <3>5, <3>6, <3>7
  <2>2. boss' = boss
    BY <1>9 DEF Automatic!Reserve, Automatic!world
  <2> HIDE DEF k
  <2>3. ASSUME NEW i \in Nat, cand' = [cand EXCEPT ![c] = [Automatic!Rests(k) EXCEPT !.source = i]] PROVE CandStep
    <3>1. LET e == [Automatic!Rests(k) EXCEPT !.source = i] IN
            e \in AutoCands /\ e.cb = "none" /\ e.latch = k.latch
      BY ONLY <2>1 DEF Automatic!Rests, AutoCands
    <3> QED BY <1>3, <2>1, <2>3, <3>1
  <2>4. ASSUME ~k.latch, cand' = [cand EXCEPT ![c] = [k EXCEPT !.source = 0, !.cb = "reserved", !.live = TRUE,
                                                              !.id = ids + 1]]
        PROVE  CandStep
    <3>1. PICK e : e = [k EXCEPT !.source = 0, !.cb = "reserved", !.live = TRUE, !.id = ids + 1]
      OBVIOUS
    <3>2. ids + 1 \in Nat
      BY <1>0
    <3>3. e \in AutoCands /\ e.cb = "reserved" /\ e.latch = k.latch
      BY <2>1, <3>1, <3>2, CandReserved
    <3> QED BY <1>3, <2>1, <2>4, <3>1, <3>3
  <2>5. (IF k.latch \/ Automatic!LiveSources(c) = {} THEN 0 ELSE CHOOSE i \in Automatic!LiveSources(c) : TRUE) \in Nat
    BY SourcesIdsNat DEF Automatic!LiveSources
  <2>6. \/ cand' = [cand EXCEPT ![c] = [Automatic!Rests(k) EXCEPT !.source =
             IF k.latch \/ Automatic!LiveSources(c) = {} THEN 0 ELSE CHOOSE i \in Automatic!LiveSources(c) : TRUE]]
        \/ ~k.latch /\ cand' = [cand EXCEPT ![c] = [k EXCEPT !.source = 0, !.cb = "reserved", !.live = TRUE,
                                                             !.id = ids + 1]]
    BY <1>9 DEF Automatic!Reserve, Automatic!Reservation, k
  <2> QED BY <2>3, <2>4, <2>5, <2>6
<1>10. ASSUME NEW w \in Workers, NEW t \in queue, Automatic!Claim(w, t) PROVE CandStep
  <2> DEFINE c == t.char
  <2>1. t \in AutoTasks
    BY <1>0
  <2>2. c \in Chars
    BY ONLY <2>1 DEF AutoTasks
  <2>3. cand' = [cand EXCEPT ![c] = [cand[c] EXCEPT !.cb = "claimed", !.claims = cand[c].claims + 1]]
    BY <1>10 DEF Automatic!Claim
  <2>4. ~(cand[c].latch /\ cand[c].epoch = boss[c].epoch) /\ cand[c].epoch = boss[c].epoch
    BY <1>10 DEF Automatic!Claim, Automatic!Admitted, Automatic!Suspended
  <2> HIDE DEF c
  <2>5. PICK e : e = [cand[c] EXCEPT !.cb = "claimed", !.claims = cand[c].claims + 1]
    OBVIOUS
  <2>6. cand[c] \in AutoCands /\ cand[c].claims + 1 \in Nat
    BY <1>0, <2>2 DEF AutoCands
  <2>7. e \in AutoCands /\ e.latch = cand[c].latch
    <3>1. PICK k : k = cand[c]
      OBVIOUS
    <3>2. PICK i : i = cand[c].claims + 1
      OBVIOUS
    <3>3. e = [k EXCEPT !.cb = "claimed", !.claims = i] /\ k \in AutoCands /\ i \in Nat
      BY <2>5, <2>6, <3>1, <3>2
    <3>4. e \in AutoCands /\ e.latch = k.latch
      BY ONLY <3>3, CandClaimed
    <3> QED BY <3>1, <3>4
  <2> QED BY <1>3, <2>2, <2>3, <2>4, <2>5, <2>7
<1>11. ASSUME NEW w \in Workers, job[w] # Idle PROVE job[w].task.char \in Chars /\ job[w].task.id \in Nat
  <2>1. job[w] \in AutoJobs
    BY <1>0, <1>11
  <2> QED BY ONLY <2>1 DEF AutoJobs, AutoTasks
\* A claim that is current is not refused.
<1>12. ASSUME NEW j, j.task.char \in Chars, Automatic!CurrentClaim(j) \/ Automatic!CurrentToken(j)
       PROVE  ~cand[j.task.char].latch
  BY <1>12 DEF Automatic!CurrentToken, Automatic!CurrentClaim, ClaimedIsFree
<1>13. ASSUME NEW w \in Workers, Automatic!Commit(w) PROVE CandStep
  <2>1. PICK j : j = job[w]
    OBVIOUS
  <2>2. PICK c : c = j.task.char
    OBVIOUS
  <2>3. c \in Chars /\ j.task.id \in Nat
    BY <1>11, <1>13, <2>1, <2>2 DEF Automatic!Commit
  <2>4. ASSUME NEW i \in Nat, cand' = [cand EXCEPT ![c] = [Automatic!Cleared(c) EXCEPT !.source = i]] PROVE CandStep
    BY <1>3, <1>4, <2>3, <2>4
  <2>5. \/ cand' = cand
        \/ cand' = [cand EXCEPT ![c] = [Automatic!Cleared(c) EXCEPT !.source = j.task.id]]
        \/ /\ Automatic!LiveSources(c) # {}
           /\ cand' = [cand EXCEPT ![c] = [Automatic!Cleared(c) EXCEPT
                        !.source = CHOOSE s \in Automatic!LiveSources(c) : TRUE]]
    BY <1>13, <2>1, <2>2 DEF Automatic!Commit, Automatic!Reuse, Automatic!Create
  <2>6. Automatic!LiveSources(c) # {} => (CHOOSE s \in Automatic!LiveSources(c) : TRUE) \in Nat
    BY SourcesIdsNat DEF Automatic!LiveSources
  <2> QED BY <1>1, <2>3, <2>4, <2>5, <2>6
<1>14. ASSUME NEW w \in Workers, Automatic!Release(w) PROVE CandStep
  <2>1. PICK c \in Chars : c = job[w].task.char
    BY <1>11, <1>14 DEF Automatic!Release
  <2>2. cand' = cand \/ cand' = [cand EXCEPT ![c] = Automatic!Cleared(c)]
    BY <1>14, <2>1 DEF Automatic!Release
  <2> QED BY <1>1, <1>3, <1>4, <2>2
<1>15. ASSUME NEW w \in Workers, NEW r \in BOOLEAN, Automatic!Settle(w, r) PROVE CandStep
  <2>1. PICK c \in Chars : c = job[w].task.char
    BY <1>11, <1>15 DEF Automatic!Settle
  <2>2. \/ cand' = cand
        \/ /\ Automatic!CurrentClaim(job[w]) \/ Automatic!CurrentToken(job[w])
           /\ cand' = [cand EXCEPT ![c] = [Automatic!Cleared(c) EXCEPT !.latch = r]]
    BY <1>15, <2>1 DEF Automatic!Settle
  <2>3. CASE /\ Automatic!CurrentClaim(job[w]) \/ Automatic!CurrentToken(job[w])
             /\ cand' = [cand EXCEPT ![c] = [Automatic!Cleared(c) EXCEPT !.latch = r]]
    <3>1. ~cand[c].latch
      BY <1>12, <2>1, <2>3
    <3> QED BY <1>3, <1>4, <2>3, <3>1
  <2> QED BY <1>1, <2>2, <2>3
<1>16. CASE Automatic!Work
  BY <1>1, <1>9, <1>10, <1>13, <1>14, <1>15, <1>16
  DEF Automatic!Work, Automatic!ReserveDue, Automatic!GetToken, Automatic!Die, Automatic!Bind
<1>17. CASE UNCHANGED automatic
  BY <1>1, <1>17 DEF automatic
<1> QED BY <1>7, <1>8, <1>16, <1>17 DEF Automatic!Next

\* A command that took effect is of a consent that has been replaced, and so takes none again.
LEMMA CommandsStep ==
  ASSUME AutoTyped, AppliedOnce, [Automatic!Next]_automatic
  PROVE  /\ consent' \in AutoConsents
         /\ applied' \in [Requests -> 0..2]
         /\ \A m \in sent' : m.id \in Requests /\ m.rev \in Nat /\ m.by \in Consenting \union {NoDevice}
         /\ AppliedOnce'
<1> DEFINE Goal == /\ consent' \in AutoConsents
                   /\ applied' \in [Requests -> 0..2]
                   /\ \A m \in sent' : m.id \in Requests /\ m.rev \in Nat /\ m.by \in Consenting \union {NoDevice}
                   /\ AppliedOnce'
<1>0. /\ consent \in AutoConsents /\ applied \in [Requests -> 0..2] /\ consent.rev \in Nat /\ consent.gen \in Nat
      /\ \A m \in sent : m.id \in Requests /\ m.rev \in Nat /\ m.by \in Consenting \union {NoDevice}
  BY DEF AutoTyped, AutoConsents
<1>1. CASE UNCHANGED <<consent, applied, sent>>
  BY <1>0, <1>1 DEF AppliedOnce
<1>2. ASSUME Automatic!Closed PROVE consent' \in AutoConsents /\ consent'.rev = consent.rev + 1
  <2>1. consent' = [consent EXCEPT !.enabled = FALSE, !.rev = consent.rev + 1]
    BY <1>2 DEF Automatic!Closed
  <2>2. PICK r : r = consent.rev + 1
    OBVIOUS
  <2>3. consent' = [consent EXCEPT !.enabled = FALSE, !.rev = r] /\ consent \in AutoConsents /\ r \in Nat
    BY <1>0, <2>1, <2>2
  <2>4. consent' \in AutoConsents /\ consent'.rev = r
    BY ONLY <2>3 DEF AutoConsents
  <2> QED BY <2>2, <2>4
<1>3. ASSUME NEW d \in Consenting \union {NoDevice}, Automatic!Opened(d)
      PROVE  consent' \in AutoConsents /\ consent'.rev = consent.rev + 1
  BY <1>0, <1>3 DEF Automatic!Opened, AutoConsents
\* The consent may be replaced without a command.
<1>4. ASSUME consent' \in AutoConsents, consent'.rev = consent.rev + 1, UNCHANGED <<sent, applied>> PROVE Goal
  <2>1. \A m \in sent : m.rev < consent.rev => m.rev < consent'.rev
    BY <1>0, <1>4
  <2>2. \A m \in sent : m.rev <= consent'.rev
    BY <1>0, <1>4 DEF AppliedOnce
  <2> QED BY <1>0, <1>4, <2>1, <2>2 DEF AppliedOnce
<1>5. ASSUME NEW q \in Requests, NEW d \in Consenting \union {NoDevice}, NEW o \in BOOLEAN, Automatic!Send(q, o, d)
      PROVE  Goal
  <2> DEFINE n == [id |-> q, on |-> o, by |-> d, gen |-> consent.gen, rev |-> consent.rev]
  <2>1. sent' = sent \union {n} /\ UNCHANGED <<consent, applied>> /\ \A m \in sent : m.id # q
    BY <1>5 DEF Automatic!Send
  <2>2. n.id = q /\ n.rev = consent.rev /\ n.by = d
    OBVIOUS
  <2> HIDE DEF n
  <2> QED BY <1>0, <2>1, <2>2 DEF AppliedOnce
<1>6. ASSUME NEW m \in sent, Automatic!Command(m) PROVE Goal
  <2>1. consent' \in AutoConsents /\ consent'.rev = consent.rev + 1
    BY <1>0, <1>2, <1>3, <1>6 DEF Automatic!Command
  <2>2. /\ m.rev = consent.rev /\ sent' = sent
        /\ applied' = [applied EXCEPT ![m.id] = IF @ < 2 THEN @ + 1 ELSE @]
    BY <1>6 DEF Automatic!Command, Automatic!AsSeen
  <2>3. applied[m.id] = 0
    <3>1. ASSUME applied[m.id] = 1 PROVE FALSE
      <4>1. PICK n \in sent : n.id = m.id /\ n.rev < consent.rev
        BY <1>0, <3>1 DEF AppliedOnce
      <4>2. n = m
        BY <4>1 DEF AppliedOnce
      <4> QED BY <1>0, <2>2, <4>1, <4>2
    <3>2. applied[m.id] \in 0..2 /\ applied[m.id] <= 1
      BY <1>0 DEF AppliedOnce
    <3> QED BY <3>1, <3>2
  <2>4. applied' = [applied EXCEPT ![m.id] = 1]
    BY <2>2, <2>3
  <2>5. \A n \in sent : (n.rev < consent.rev => n.rev < consent'.rev) /\ n.rev <= consent'.rev /\ m.rev < consent'.rev
    BY <1>0, <2>1, <2>2 DEF AppliedOnce
  <2>6. applied' \in [Requests -> 0..2]
    BY <1>0, <2>4
  <2>7. ASSUME NEW q \in Requests
        PROVE  applied'[q] <= 1 /\ (applied'[q] = 1 => \E n \in sent' : n.id = q /\ n.rev < consent'.rev)
    <3>1. CASE q = m.id
      BY <1>0, <2>2, <2>4, <2>5, <3>1
    <3>2. CASE q # m.id
      BY <1>0, <2>2, <2>4, <2>5, <3>2 DEF AppliedOnce
    <3> QED BY <3>1, <3>2
  <2>8. AppliedOnce'
    BY <2>2, <2>5, <2>7 DEF AppliedOnce
  <2> QED BY <1>0, <2>1, <2>2, <2>6, <2>8
<1>7. ASSUME NEW i \in Automatic!Ids, Automatic!StopSource(i) PROVE Goal
  BY <1>1, <1>2, <1>4, <1>7 DEF Automatic!StopSource, Automatic!commands
<1>8. ASSUME NEW d \in Consenting, Automatic!Revoke(d) PROVE Goal
  BY <1>1, <1>2, <1>4, <1>8 DEF Automatic!Revoke, Automatic!commands
<1>9. CASE Automatic!Control
  BY <1>1, <1>5, <1>6, <1>7, <1>8, <1>9 DEF Automatic!Control, Automatic!ReceiptExpires
<1>10. CASE Automatic!World
  BY <1>1, <1>10
  DEF Automatic!World, Automatic!Relink, Automatic!Rotate, Automatic!Suspend, Automatic!Overtake,
      Automatic!SourceEnds, Automatic!Lapse, Automatic!commands
<1>11. CASE Automatic!Work
  BY <1>1, <1>11, WorkFrame
<1>12. CASE UNCHANGED automatic
  BY <1>1, <1>12 DEF automatic
<1>13. Goal
  BY <1>9, <1>10, <1>11, <1>12 DEF Automatic!Next
<1> QED BY <1>13

\* The links and what the world has stay well typed.
LEMMA BossStep ==
  ASSUME AutoTyped, [Automatic!Next]_automatic
  PROVE  /\ boss' \in [Chars -> [epoch : Nat, token : Nat, grant : BOOLEAN]]
         /\ slot' \in [Fleets -> Nat]
<1>0. /\ boss \in [Chars -> [epoch : Nat, token : Nat, grant : BOOLEAN]] /\ slot \in [Fleets -> Nat]
      /\ \A c \in Chars : boss[c].epoch \in Nat /\ boss[c].token \in Nat
  BY DEF AutoTyped
<1>1. CASE UNCHANGED <<boss, slot>>
  BY <1>0, <1>1
<1>2. CASE Automatic!Control
  BY <1>1, <1>2
  DEF Automatic!Control, Automatic!Send, Automatic!Command, Automatic!ReceiptExpires, Automatic!StopSource,
      Automatic!Revoke, Automatic!world
<1>3. CASE Automatic!World
  <2>1. ASSUME NEW c \in Chars, Automatic!Relink(c)
        PROVE  boss' \in [Chars -> [epoch : Nat, token : Nat, grant : BOOLEAN]] /\ slot' = slot
    <3>1. boss' = [boss EXCEPT ![c] = [epoch |-> boss[c].epoch + 1, token |-> boss[c].token + 1, grant |-> TRUE]]
      BY <2>1 DEF Automatic!Relink
    <3>2. slot' = slot
      BY <2>1 DEF Automatic!Relink
    <3> QED BY ONLY <1>0, <3>1, <3>2
  <2>2. ASSUME NEW c \in Chars, NEW g \in BOOLEAN, Automatic!Rotate(c, g)
        PROVE  boss' \in [Chars -> [epoch : Nat, token : Nat, grant : BOOLEAN]] /\ slot' = slot
    <3>1. boss' = [boss EXCEPT ![c] = [boss[c] EXCEPT !.token = boss[c].token + 1, !.grant = g]]
      BY <2>2 DEF Automatic!Rotate
    <3>2. slot' = slot
      BY <2>2 DEF Automatic!Rotate
    <3>3. PICK r : r = boss[c].token + 1
      OBVIOUS
    <3>4. /\ boss' = [boss EXCEPT ![c] = [boss[c] EXCEPT !.token = r, !.grant = g]] /\ r \in Nat
          /\ boss \in [Chars -> [epoch : Nat, token : Nat, grant : BOOLEAN]]
      BY <1>0, <3>1, <3>3
    <3>5. boss' \in [Chars -> [epoch : Nat, token : Nat, grant : BOOLEAN]]
      BY ONLY <3>4
    <3> QED BY <3>2, <3>5
  <2>3. ASSUME NEW f \in Fleets, Automatic!Overtake(f) PROVE slot' \in [Fleets -> Nat] /\ boss' = boss
    BY <1>0, <2>3 DEF Automatic!Overtake
  <2> QED BY <1>0, <1>1, <1>3, <2>1, <2>2, <2>3
      DEF Automatic!World, Automatic!Suspend, Automatic!SourceEnds, Automatic!Lapse, Automatic!world
<1>4. CASE Automatic!Work
  <2>1. ASSUME NEW w \in Workers, Automatic!Commit(w) PROVE slot' \in [Fleets -> Nat] /\ boss' = boss
    <3>1. boss' = boss /\ (slot' = slot \/ slot' = [slot EXCEPT ![job[w].fleet] = @ + 1])
      BY <2>1 DEF Automatic!Commit, Automatic!Reuse, Automatic!Create
    <3> QED BY ONLY <1>0, <3>1
  <2> QED BY <1>0, <1>1, <1>4, <2>1
      DEF Automatic!Work, Automatic!ReserveDue, Automatic!Reserve, Automatic!Claim, Automatic!GetToken,
          Automatic!Release, Automatic!Die, Automatic!Bind, Automatic!Settle, Automatic!world
<1>5. CASE UNCHANGED automatic
  BY <1>1, <1>5 DEF automatic
<1> QED BY <1>2, <1>3, <1>4, <1>5 DEF Automatic!Next

\* The jobs and the queue stay well typed.
LEMMA JobsStep ==
  ASSUME AutoTyped, [Automatic!Next]_automatic
  PROVE  /\ queue' \subseteq AutoTasks /\ ids' \in Nat
         /\ job' \in [Workers -> AutoJobs \union {Idle}]
<1> DEFINE Goal == /\ queue' \subseteq AutoTasks /\ ids' \in Nat
                   /\ job' \in [Workers -> AutoJobs \union {Idle}]
<1>0. /\ queue \subseteq AutoTasks /\ ids \in Nat /\ job \in [Workers -> AutoJobs \union {Idle}]
      /\ consent \in AutoConsents /\ cand \in [Chars -> AutoCands] /\ slot \in [Fleets -> Nat]
      /\ boss \in [Chars -> [epoch : Nat, token : Nat, grant : BOOLEAN]]
  BY DEF AutoTyped
<1>1. CASE UNCHANGED <<queue, ids, job>>
  BY <1>0, <1>1
<1>2. ASSUME NEW w \in Workers, NEW e \in AutoJobs \union {Idle}, job' = [job EXCEPT ![w] = e],
             UNCHANGED <<queue, ids>>
      PROVE  Goal
  BY <1>0, <1>2
<1>3. CASE Automatic!Control \/ Automatic!World
  BY <1>1, <1>3
  DEF Automatic!Control, Automatic!Send, Automatic!Command, Automatic!ReceiptExpires, Automatic!StopSource,
      Automatic!Revoke, Automatic!World, Automatic!Relink, Automatic!Rotate, Automatic!Suspend,
      Automatic!Overtake, Automatic!SourceEnds, Automatic!Lapse
<1>4. ASSUME NEW c \in Chars, Automatic!Reserve(c) PROVE Goal
  <2> DEFINE k == Automatic!Reconciled(c)
  <2>1. Automatic!Pruned \subseteq AutoTasks
    BY <1>0 DEF Automatic!Pruned
  <2>2. job' = job
    BY <1>4 DEF Automatic!Reserve
  <2>3. k.gen \in Nat /\ k.cgen \in Nat
    <3>1. cand[c] \in AutoCands /\ consent.gen \in Nat /\ boss[c].epoch \in Nat
      BY <1>0 DEF AutoConsents
    <3>2. Automatic!Cleared(c) = [cand[c] EXCEPT !.cb = "none", !.live = FALSE, !.id = 0, !.source = 0]
      BY DEF Automatic!Cleared
    <3>3. Automatic!Cleared(c) \in AutoCands
      BY ONLY <3>1, <3>2, CandCleared
    <3>4. Automatic!Rebound(c) = [Automatic!Cleared(c) EXCEPT
            !.gen = Automatic!Cleared(c).gen + 1, !.cgen = consent.gen, !.epoch = boss[c].epoch,
            !.latch = Automatic!Cleared(c).latch /\ cand[c].epoch = boss[c].epoch]
      BY DEF Automatic!Rebound
    <3>5. Automatic!Rebound(c).gen \in Nat /\ Automatic!Rebound(c).cgen \in Nat
      BY ONLY <3>1, <3>3, <3>4 DEF AutoCands
    <3>6. cand[c].gen \in Nat /\ cand[c].cgen \in Nat
      BY ONLY <3>1 DEF AutoCands
    <3> QED BY <3>5, <3>6 DEF Automatic!Reconciled
  <2> HIDE DEF k
  <2>4. \/ queue' = Automatic!Pruned /\ ids' = ids
        \/ /\ ids' = ids + 1
           /\ queue' = Automatic!Pruned \union {[char |-> c, cgen |-> k.cgen, gen |-> k.gen, id |-> ids + 1]}
    BY <1>4 DEF Automatic!Reserve, Automatic!Reservation, k
  <2>5. [char |-> c, cgen |-> k.cgen, gen |-> k.gen, id |-> ids + 1] \in AutoTasks /\ ids + 1 \in Nat
    BY <1>0, <2>3 DEF AutoTasks
  <2> QED BY <1>0, <2>1, <2>2, <2>4, <2>5
<1>5. ASSUME NEW w \in Workers, NEW t \in queue, Automatic!Claim(w, t) PROVE Goal
  <2>1. t \in AutoTasks /\ t.char \in Chars
    BY <1>0 DEF AutoTasks
  <2>2. /\ consent.rev \in Nat /\ consent.by \in Consenting \union {NoDevice} /\ boss[t.char].epoch \in Nat
        /\ cand[t.char].claims + 1 \in Nat
    BY <1>0, <2>1 DEF AutoConsents, AutoCands
  <2> DEFINE e == [stage |-> "claimed", task |-> t, rev |-> consent.rev, by |-> consent.by,
                   epoch |-> boss[t.char].epoch, claims |-> cand[t.char].claims + 1, token |-> 0,
                   fleet |-> NoFleet, seen |-> 0]
  <2>3. e \in AutoJobs
    BY ONLY <2>1, <2>2 DEF AutoJobs
  <2>4. job' = [job EXCEPT ![w] = e] /\ UNCHANGED <<queue, ids>>
    BY <1>5 DEF Automatic!Claim
  <2> QED BY <1>2, <2>3, <2>4
<1>6. ASSUME NEW w \in Workers, Automatic!GetToken(w) PROVE Goal
  <2>1. job[w] \in AutoJobs
    BY <1>0, <1>6 DEF Automatic!GetToken
  <2>2. boss[job[w].task.char].token \in Nat
    BY <1>0, <2>1 DEF AutoJobs, AutoTasks
  <2>3. job' = [job EXCEPT ![w] = [job[w] EXCEPT !.stage = "admitted", !.token = boss[job[w].task.char].token]]
    BY <1>6 DEF Automatic!GetToken
  <2>4. [job[w] EXCEPT !.stage = "admitted", !.token = boss[job[w].task.char].token] \in AutoJobs
    BY ONLY <2>1, <2>2 DEF AutoJobs
  <2> QED BY <1>2, <1>6, <2>3, <2>4 DEF Automatic!GetToken
<1>7. ASSUME NEW w \in Workers, NEW f \in Fleets, Automatic!Bind(w, f) PROVE Goal
  <2>1. job[w] \in AutoJobs /\ slot[f] \in Nat
    BY <1>0, <1>7 DEF Automatic!Bind
  <2>2. [job[w] EXCEPT !.stage = "bound", !.fleet = f, !.seen = slot[f]] \in AutoJobs
    BY ONLY <1>7, <2>1 DEF AutoJobs
  <2>3. \/ job' = [job EXCEPT ![w] = [job[w] EXCEPT !.stage = "bound", !.fleet = f, !.seen = slot[f]]]
        \/ job' = [job EXCEPT ![w] = Idle]
    BY <1>7 DEF Automatic!Bind
  <2> QED BY <1>2, <1>7, <2>2, <2>3 DEF Automatic!Bind
<1>8. ASSUME NEW w \in Workers, Automatic!Commit(w) PROVE Goal
  <2>1. job[w] \in AutoJobs /\ UNCHANGED <<queue, ids>>
    BY <1>0, <1>8 DEF Automatic!Commit
  <2>2. \/ job' = [job EXCEPT ![w] = [job[w] EXCEPT !.stage = "refused"]]
        \/ job' = [job EXCEPT ![w] = Idle]
    BY <1>8 DEF Automatic!Commit, Automatic!Reuse, Automatic!Create
  <2>3. [job[w] EXCEPT !.stage = "refused"] \in AutoJobs
    BY ONLY <2>1 DEF AutoJobs
  <2> QED BY <1>2, <2>1, <2>2, <2>3
<1>9. CASE Automatic!Work
  BY <1>2, <1>4, <1>5, <1>6, <1>7, <1>8, <1>9
  DEF Automatic!Work, Automatic!ReserveDue, Automatic!Release, Automatic!Die, Automatic!Settle
<1>10. CASE UNCHANGED automatic
  BY <1>1, <1>10 DEF automatic
<1>11. Goal
  BY <1>3, <1>9, <1>10 DEF Automatic!Next
<1> QED BY <1>11

\* A step of automatic sharing keeps its invariant.
LEMMA AutoInvStep == AutoInv /\ [Automatic!Next]_automatic => AutoInv'
<1> SUFFICES ASSUME AutoInv, [Automatic!Next]_automatic PROVE AutoInv'
  OBVIOUS
<1>1. AutoTyped /\ Automatic!SourcesHaveConsent /\ AppliedOnce /\ ClaimedIsFree
  BY DEF AutoInv
<1>2. CandStep
  BY <1>1, CandidatesStep
<1>3. /\ src' \in [Automatic!Ids -> AutoSources]
      /\ \A i \in Automatic!Ids : Automatic!Live(i)' => AutoHeld(i)'
  BY <1>1, SourcesStep
<1>4. /\ consent' \in AutoConsents
      /\ applied' \in [Requests -> 0..2]
      /\ \A m \in sent' : m.id \in Requests /\ m.rev \in Nat /\ m.by \in Consenting \union {NoDevice}
      /\ AppliedOnce'
  BY <1>1, CommandsStep
<1>5. AutoTyped'
  BY <1>1, <1>2, <1>3, <1>4, BossStep, JobsStep DEF AutoTyped, CandStep, AutoHeld, Automatic!Ids
<1>6. Automatic!SourcesHaveConsent'
  BY <1>3 DEF AutoHeld, Automatic!SourcesHaveConsent, Automatic!Ids
<1>7. ClaimedIsFree'
  BY <1>2 DEF CandStep, ClaimedIsFree
<1> QED BY <1>4, <1>5, <1>6, <1>7 DEF AutoInv

\* A candidate EVE refused stays refused, and is not claimed, under the same link.
LEMMA RefusalStaysStep ==
  ASSUME AutoInv, [Automatic!Next]_automatic, NEW c \in Chars, Automatic!Suspended(c), boss'[c].epoch = boss[c].epoch
  PROVE  cand'[c].latch /\ cand'[c].cb # "claimed"
<1>1. CandStep
  BY CandidatesStep DEF AutoInv
<1> QED BY <1>1 DEF CandStep, Automatic!Suspended

-----------------------------------------------------------------------------
(* The check of fleet access (FleetAccess).                                   *)

AccessStages == {"idle", "claim", "refresh", "rotated", "denied", "membership", "roster", "after", "extend", "done"}
AccessCodes == {"timed_out", "service_unavailable", "not_eligible", "not_authorized", "cooldown", "identity_changed",
                "authorization_rejected", "roster_unavailable", "not_in_fleet", "checked", NoFleet}
AccessChecks == [stage : AccessStages, token : Nat, owner : Nat, touched : Nat, until : Nat, arrived : BOOLEAN,
                 saved : BOOLEAN, boundary : Nat, code : AccessCodes, seen : Nat]
AccessTyped ==
  /\ account \in {"member", "below", "gone"}
  /\ link \in [here : BOOLEAN, owner : Nat, token : Nat, authorized : BOOLEAN]
  /\ touched \in Nat /\ latest \in Nat /\ gate \in Nat \union {NoFleet} /\ promised \in Nat /\ minute \in Nat
  /\ check \in [Workers -> AccessChecks]

\* What is true of a check whatever else happens: it says nothing before it is over, and a token that
\* arrived was saved before EVE is asked with it.
CheckHolds(e) ==
  /\ e.stage \notin {"extend", "done"} => e.code \notin {"checked", "timed_out"}
  /\ e.code = "checked" => e.seen = e.touched
  /\ e.code = "timed_out" /\ e.arrived => e.saved
  /\ e.stage \in {"idle", "claim", "refresh", "denied"} => ~e.arrived
  /\ e.stage \in {"membership", "roster", "after"} => e.saved

\* The token a check takes the anchor to have, and the one it has got for it and not stored yet.
Active(e) == e.stage \in {"claim", "refresh", "rotated", "membership", "roster", "after"}
Rotated(e) == e.stage = "rotated"
Base(e) == IF e.stage = "rotated" THEN e.seen ELSE e.token
\* While the anchor has that token it has not been touched, for no token comes twice.
TokensHold ==
  /\ link.token <= latest
  /\ \A c \in Workers : /\ Active(check[c]) => Base(check[c]) <= latest
                        /\ Rotated(check[c]) => 1 <= check[c].token /\ check[c].token <= latest
  /\ \A c \in Workers : Active(check[c]) /\ link.here /\ link.token = Base(check[c]) => touched = check[c].touched
  /\ \A c \in Workers : Rotated(check[c]) =>
       /\ link.token # check[c].token
       /\ \A d \in Workers : d # c => /\ Active(check[d]) => Base(check[d]) # check[c].token
                                      /\ Rotated(check[d]) => check[d].token # check[c].token
\* The gate is not before the time anybody was told.
GateHolds ==
  /\ gate # NoFleet => promised <= gate
  /\ gate = NoFleet /\ account # "gone" => promised = 0
  /\ account = "gone" => gate = NoFleet
AccessInv == AccessTyped /\ (\A c \in Workers : CheckHolds(check[c])) /\ TokensHold /\ GateHolds

\* The larger of two numbers.
LEMMA MaxOfTwo ==
  ASSUME NEW a \in Nat, NEW b \in Nat
  PROVE  Access!Max({a, b}) \in {a, b} /\ a <= Access!Max({a, b}) /\ b <= Access!Max({a, b})
<1>1. Access!Max({a, b}) = CHOOSE x \in {a, b} : \A y \in {a, b} : x >= y
  BY DEF Access!Max
<1>2. \E x \in {a, b} : \A y \in {a, b} : x >= y
  <2>1. a >= b \/ b >= a
    OBVIOUS
  <2> QED BY <2>1
<1> QED BY <1>1, <1>2

\* The invariant of the checks of access holds at first.
LEMMA AccessInvInit == Access!Init => AccessInv
<1> SUFFICES ASSUME Access!Init PROVE AccessInv
  OBVIOUS
<1>1. Access!AtRest \in AccessChecks /\ Access!AtRest.stage = "idle" /\ Access!AtRest.code = NoFleet
      /\ ~Access!AtRest.arrived
  BY DEF Access!AtRest, AccessChecks, AccessStages, AccessCodes
<1>2. \A c \in Workers : check[c] = Access!AtRest
  BY DEF Access!Init
<1>3. AccessTyped
  BY <1>1 DEF Access!Init, AccessTyped
<1>4. \A c \in Workers : CheckHolds(check[c])
  BY <1>1, <1>2 DEF CheckHolds
<1>5. TokensHold
  BY <1>1, <1>2 DEF Access!Init, TokensHold, Active, Rotated
<1>6. GateHolds
  BY DEF Access!Init, GateHolds
<1> QED BY <1>3, <1>4, <1>5, <1>6 DEF AccessInv

\* How an answer ends a check: it says the code, and keeps what it says it of.
Over(e, r, code) == /\ r \in AccessChecks
                    /\ r.stage \in {"extend", "done"} /\ r.code = code
                    /\ r.arrived = e.arrived /\ r.saved = e.saved /\ r.touched = e.touched /\ r.seen = e.seen

\* A check that answers is over, and its answer is not that of a check that was made.
LEMMA Answering ==
  ASSUME NEW c, NEW e \in AccessChecks, NEW code \in AccessCodes, Access!Answer(c, e, code)
  PROVE  \E r : Over(e, r, code) /\ check' = [check EXCEPT ![c] = r]
<1> DEFINE r == [e EXCEPT !.code = code, !.stage = "done", !.token = 0, !.owner = 0, !.until = 0, !.boundary = 0]
<1>1. Over(e, r, code)
  BY DEF Over, AccessChecks, AccessStages
<1>2. check' = [check EXCEPT ![c] = r]
  BY DEF Access!Answer, Access!Put
<1> QED BY <1>1, <1>2

\* A check that concludes waits for the gate to be put off.
LEMMA Concluding ==
  ASSUME NEW c, NEW e \in AccessChecks, NEW code \in AccessCodes, Access!Conclude(c, e, code)
  PROVE  \E r : Over(e, r, code) /\ check' = [check EXCEPT ![c] = r]
<1>1. CASE Access!Answer(c, e, code)
  BY <1>1, Answering
<1>2. CASE Access!Put(c, [e EXCEPT !.code = code, !.stage = "extend"])
  <2> DEFINE r == [e EXCEPT !.code = code, !.stage = "extend"]
  <2>1. Over(e, r, code)
    BY DEF Over, AccessChecks, AccessStages
  <2>2. check' = [check EXCEPT ![c] = r]
    BY <1>2 DEF Access!Put
  <2> QED BY <2>1, <2>2
<1> QED BY <1>1, <1>2 DEF Access!Conclude

\* A check that was made answers what it saw.
LEMMA Hearing ==
  ASSUME AccessTyped, NEW c \in Workers, NEW wait \in Nat
  PROVE  LET h == Access!Hear(c, wait) e == check[c] IN
         /\ h \in AccessChecks
         /\ h.stage = e.stage /\ h.token = e.token /\ h.touched = e.touched /\ h.arrived = e.arrived
         /\ h.saved = e.saved /\ h.code = e.code /\ h.seen = e.seen
<1> DEFINE b == IF wait = 0 THEN check[c].boundary ELSE Access!Max({check[c].boundary, minute + wait})
<1>1. check[c] \in AccessChecks /\ minute \in Nat
  BY DEF AccessTyped
<1>2. check[c].boundary \in Nat
  BY <1>1 DEF AccessChecks
<1>3. b \in Nat
  BY <1>1, <1>2, MaxOfTwo
<1>4. Access!Hear(c, wait) = [check[c] EXCEPT !.boundary = b]
  BY DEF Access!Hear
<1> HIDE DEF b
<1> QED BY ONLY <1>1, <1>3, <1>4 DEF AccessChecks

\* One check moves, and the anchor does not: what it holds then must be what it held, or what the
\* anchor has, or a token nobody has.
TokenKept(e, f) ==
  /\ Active(f) => Active(e) /\ Base(f) = Base(e) /\ f.touched = e.touched
  /\ Rotated(f) => Rotated(e) /\ f.token = e.token

\* A step that touches neither the link nor the checks leaves the tokens as they are.
LEMMA TokensUndisturbed ==
  ASSUME AccessTyped, TokensHold, NEW c \in Workers, NEW f, check' = [check EXCEPT ![c] = f],
         TokenKept(check[c], f), UNCHANGED <<link, touched, latest>>
  PROVE  TokensHold'
<1>1. \A d \in Workers : check'[d] = IF d = c THEN f ELSE check[d]
  BY DEF AccessTyped
<1> QED BY <1>1 DEF TokensHold, TokenKept

\* What all the steps of one check have in common.
LEMMA CheckMoves ==
  ASSUME AccessTyped, \A c \in Workers : CheckHolds(check[c]), TokensHold,
         NEW c \in Workers, NEW f \in AccessChecks, check' = [check EXCEPT ![c] = f],
         CheckHolds(f), TokenKept(check[c], f), UNCHANGED <<link, touched, latest>>
  PROVE  /\ check' \in [Workers -> AccessChecks]
         /\ \A d \in Workers : CheckHolds(check'[d])
         /\ TokensHold'
<1>1. check \in [Workers -> AccessChecks]
  BY DEF AccessTyped
<1>2. \A d \in Workers : check'[d] = IF d = c THEN f ELSE check[d]
  BY <1>1
<1> QED BY <1>1, <1>2, TokensUndisturbed

\* A check that ends leaves the tokens alone, and keeps to what it may say.
LEMMA CheckEnds ==
  ASSUME AccessTyped, \A c \in Workers : CheckHolds(check[c]), TokensHold, UNCHANGED <<link, touched, latest>>,
         NEW c \in Workers, NEW e \in AccessChecks, NEW code \in AccessCodes,
         code = "checked" => e.seen = e.touched,
         code = "timed_out" /\ e.arrived => e.saved,
         \E r : Over(e, r, code) /\ check' = [check EXCEPT ![c] = r]
  PROVE  /\ check' \in [Workers -> AccessChecks]
         /\ \A d \in Workers : CheckHolds(check'[d])
         /\ TokensHold'
<1>1. PICK r : Over(e, r, code) /\ check' = [check EXCEPT ![c] = r]
  OBVIOUS
<1>2. r \in AccessChecks /\ CheckHolds(r) /\ TokenKept(check[c], r)
  BY <1>1 DEF Over, CheckHolds, TokenKept, Active, Rotated
<1> QED BY <1>1, <1>2, CheckMoves

\* A step leaves the checks well typed and true, and no token comes twice.
LEMMA ChecksStep ==
  ASSUME AccessTyped, \A c \in Workers : CheckHolds(check[c]), TokensHold, [Access!Next]_accessVars
  PROVE  /\ check' \in [Workers -> AccessChecks]
         /\ \A c \in Workers : CheckHolds(check'[c])
         /\ TokensHold'
         /\ link' \in [here : BOOLEAN, owner : Nat, token : Nat, authorized : BOOLEAN]
         /\ touched' \in Nat /\ latest' \in Nat
<1> DEFINE Links == [here : BOOLEAN, owner : Nat, token : Nat, authorized : BOOLEAN]
           Checked == /\ check' \in [Workers -> AccessChecks]
                      /\ \A c \in Workers : CheckHolds(check'[c])
                      /\ TokensHold'
           Goal == Checked /\ link' \in Links /\ touched' \in Nat /\ latest' \in Nat
<1>0. /\ check \in [Workers -> AccessChecks] /\ link \in Links /\ touched \in Nat /\ latest \in Nat
      /\ minute \in Nat /\ link.token \in Nat /\ link.owner \in Nat
  BY DEF AccessTyped
<1>00. ASSUME NEW c \in Workers
       PROVE  /\ check[c] \in AccessChecks /\ CheckHolds(check[c])
              /\ check[c].token \in Nat /\ check[c].seen \in Nat /\ Base(check[c]) \in Nat
  <2>1. check[c] \in AccessChecks
    BY <1>0
  <2> QED BY <2>1 DEF AccessChecks, Base
<1>1. CASE UNCHANGED <<check, link, touched, latest>>
  BY <1>0, <1>1 DEF TokensHold
\* The anchor moves: its token is new, or it is not here.
<1>2. ASSUME UNCHANGED check, link' \in Links, touched' \in Nat, latest' \in Nat,
             \/ latest' = latest + 1 /\ link'.token = latest'
             \/ latest' = latest /\ link'.token \in {0, link.token} /\ ~link'.here
      PROVE  Goal
  <2>1. latest <= latest' /\ link'.token <= latest'
    BY <1>0, <1>2 DEF TokensHold
  <2>2. \A c \in Workers : /\ Active(check[c]) => Base(check[c]) <= latest'
                           /\ Rotated(check[c]) => 1 <= check[c].token /\ check[c].token <= latest'
    BY <1>0, <1>00, <1>2, <2>1 DEF TokensHold
  <2>3. \A c \in Workers : Active(check[c]) /\ link'.here => link'.token # Base(check[c])
    BY <1>0, <1>00, <1>2 DEF TokensHold
  <2>4. \A c \in Workers : Rotated(check[c]) => link'.token # check[c].token
    BY <1>0, <1>00, <1>2 DEF TokensHold
  <2>5. TokensHold'
    BY <1>2, <2>1, <2>2, <2>3, <2>4 DEF TokensHold
  <2> QED BY <1>0, <1>2, <2>5
<1>3. ASSUME NEW here \in BOOLEAN, NEW sold \in BOOLEAN, Access!Authorize(here, sold) PROVE Goal
  <2>1. /\ link' = [here |-> here, owner |-> IF sold THEN link.owner + 1 ELSE link.owner, token |-> latest + 1,
                    authorized |-> TRUE]
        /\ latest' = latest + 1 /\ touched' = touched + 1 /\ check' = check
    BY <1>3 DEF Access!Authorize, Access!World
  <2>2. link' \in Links /\ link'.token = latest + 1
    BY ONLY <1>0, <2>1
  <2> QED BY <1>0, <1>2, <2>1, <2>2
<1>4. CASE Access!Unlink
  <2>1. /\ link' = [link EXCEPT !.here = FALSE, !.token = 0, !.authorized = FALSE]
        /\ latest' = latest /\ touched' = touched + 1 /\ check' = check
    BY <1>4 DEF Access!Unlink, Access!World, Access!sso
  <2>2. link' \in Links /\ link'.token = 0 /\ ~link'.here
    BY ONLY <1>0, <2>1
  <2> QED BY <1>0, <1>2, <2>1, <2>2
<1>5. CASE Access!RotatedByJob
  <2>1. /\ link' = [link EXCEPT !.token = latest + 1] /\ latest' = latest + 1 /\ touched' = touched /\ check' = check
    BY <1>5 DEF Access!RotatedByJob, Access!World
  <2>2. link' \in Links /\ link'.token = latest + 1
    BY ONLY <1>0, <2>1
  <2> QED BY <1>0, <1>2, <2>1, <2>2
<1>6. CASE Access!MergedAway
  <2>1. /\ link' = [link EXCEPT !.here = FALSE] /\ latest' = latest /\ check' = check
        /\ touched' \in {touched, touched + 1}
    BY <1>6 DEF Access!MergedAway, Access!sso
  <2>2. link' \in Links /\ link'.token = link.token /\ ~link'.here
    BY ONLY <1>0, <2>1
  <2> QED BY <1>0, <1>2, <2>1, <2>2
<1>7. ASSUME Access!Tick \/ \E tier0 \in {"member", "below"} : Access!Retiered(tier0) PROVE Goal
  BY <1>1, <1>7 DEF Access!Tick, Access!Retiered, Access!World, Access!world, Access!sso
\* One check goes on, with what it held.
<1>8. ASSUME NEW c \in Workers, NEW f \in AccessChecks, check' = [check EXCEPT ![c] = f], CheckHolds(f),
             TokenKept(check[c], f), UNCHANGED <<link, touched, latest>>
      PROVE  Goal
  BY <1>0, <1>8, CheckMoves
<1>9. ASSUME UNCHANGED <<link, touched, latest>>,
             NEW c \in Workers, NEW e \in AccessChecks, NEW code \in AccessCodes,
             code = "checked" => e.seen = e.touched,
             code = "timed_out" /\ e.arrived => e.saved,
             Access!Conclude(c, e, code) \/ Access!Answer(c, e, code)
      PROVE  Goal
  <2>1. \E r : Over(e, r, code) /\ check' = [check EXCEPT ![c] = r]
    BY <1>9, Concluding, Answering
  <2> QED BY <1>0, <1>9, <2>1, CheckEnds
<1>10. ASSUME NEW c \in Workers, Access!Before(c) PROVE Goal
  <2> DEFINE f == [check[c] EXCEPT !.stage = "claim", !.token = link.token, !.owner = link.owner, !.touched = touched]
  <2>0. UNCHANGED <<link, touched, latest>> /\ check[c].stage = "idle"
    BY <1>10 DEF Access!Before, Access!world, Access!sso, Access!At
  <2>1. CASE check' = [check EXCEPT ![c] = f]
    <3>1. /\ f \in AccessChecks /\ f.stage = "claim" /\ f.token = link.token /\ f.touched = touched
          /\ f.code = check[c].code /\ f.arrived = check[c].arrived
      BY ONLY <1>0, <1>00 DEF AccessChecks, AccessStages
    <3>2. CheckHolds(f)
      BY <1>00, <2>0, <3>1 DEF CheckHolds
    <3> HIDE DEF f
    <3>3. \A d \in Workers : check'[d] = IF d = c THEN f ELSE check[d]
      BY <1>0, <2>1
    <3>4. TokensHold'
      BY <1>0, <2>0, <3>1, <3>3 DEF TokensHold, Active, Rotated, Base
    <3>5. check' \in [Workers -> AccessChecks]
      BY <1>0, <2>1, <3>1
    <3> QED BY <1>0, <1>00, <2>0, <3>2, <3>3, <3>4, <3>5
  <2>2. CASE Access!Refuse(c, "not_eligible") \/ Access!Refuse(c, "not_authorized")
    BY <1>9, <1>00, <2>0, <2>2 DEF Access!Refuse, AccessCodes
  <2> QED BY <1>10, <2>1, <2>2 DEF Access!Before, Access!Put
<1>11. ASSUME NEW c \in Workers, Access!Claim(c) PROVE Goal
  <2>0. UNCHANGED <<link, touched, latest>> /\ check[c].stage = "claim"
    BY <1>11 DEF Access!Claim, Access!world, Access!sso, Access!At
  <2>1. CASE Access!Put(c, [check[c] EXCEPT !.stage = "refresh", !.until = minute + Budget])
    <3>1. PICK u : u = minute + Budget
      OBVIOUS
    <3>2. PICK f : f = [check[c] EXCEPT !.stage = "refresh", !.until = u]
      OBVIOUS
    <3>3. u \in Nat /\ check[c] \in AccessChecks
      BY <1>0, <1>00, <3>1
    <3>4. /\ f \in AccessChecks /\ f.stage = "refresh" /\ f.token = check[c].token /\ f.touched = check[c].touched
          /\ f.code = check[c].code /\ f.arrived = check[c].arrived
      BY ONLY <3>2, <3>3 DEF AccessChecks, AccessStages
    <3>5. CheckHolds(f) /\ TokenKept(check[c], f)
      BY <1>00, <2>0, <3>4 DEF CheckHolds, TokenKept, Active, Rotated, Base
    <3> QED BY <1>8, <2>0, <2>1, <3>1, <3>2, <3>4, <3>5 DEF Access!Put
  <2>2. CASE Access!Refuse(c, "service_unavailable") \/ Access!Refuse(c, "cooldown")
    BY <1>9, <1>00, <2>0, <2>2 DEF Access!Refuse, AccessCodes
  <2> QED BY <1>11, <2>1, <2>2 DEF Access!Claim
<1>12. ASSUME NEW c \in Workers, Access!Unserved(c) PROVE Goal
  BY <1>9, <1>00, <1>12 DEF Access!Unserved, Access!Refuse, AccessCodes, Access!world, Access!sso
<1>13. ASSUME NEW c \in Workers, NEW arrives \in BOOLEAN, NEW wait \in Waits, Access!Exchange(c, arrives, wait)
       PROVE  Goal
  <2> DEFINE h == Access!Hear(c, wait)
  <2>0. UNCHANGED <<link, touched>> /\ check[c].stage = "refresh" /\ latest' = latest + 1
    BY <1>13 DEF Access!Exchange, Access!world, Access!At
  <2>1. /\ h \in AccessChecks
        /\ h.stage = "refresh" /\ h.token = check[c].token /\ h.touched = check[c].touched /\ ~h.arrived
        /\ h.saved = check[c].saved /\ h.code = check[c].code /\ h.seen = check[c].seen
    BY <1>00, <2>0, Hearing DEF CheckHolds
  <2> HIDE DEF h
  <2>2. CASE arrives
    <3>1. PICK n : n = latest + 1
      OBVIOUS
    <3>2. PICK f : f = [h EXCEPT !.stage = "rotated", !.token = n, !.arrived = TRUE, !.seen = check[c].token]
      OBVIOUS
    <3>3. check' = [check EXCEPT ![c] = f] /\ n \in Nat /\ check[c].token \in Nat
      BY <1>0, <1>00, <1>13, <2>2, <3>1, <3>2 DEF Access!Exchange, Access!Put, h
    <3>4. /\ f \in AccessChecks /\ f.stage = "rotated" /\ f.token = n /\ f.seen = check[c].token
          /\ f.touched = h.touched /\ f.code = h.code
      BY ONLY <2>1, <3>2, <3>3 DEF AccessChecks, AccessStages
    <3>5. CheckHolds(f)
      BY <1>00, <2>0, <2>1, <3>4 DEF CheckHolds
    <3>6. \A d \in Workers : check'[d] = IF d = c THEN f ELSE check[d]
      BY <1>0, <3>3
    <3>7. Active(check[c]) /\ Base(check[c]) = check[c].token /\ Rotated(f) /\ Active(f) /\ Base(f) = check[c].token
      BY <2>0, <3>4 DEF Active, Rotated, Base
    <3>8. \A d \in Workers : /\ Active(check[d]) => Base(check[d]) # n /\ Base(check[d]) <= n
                             /\ Rotated(check[d]) => check[d].token # n /\ check[d].token <= n
      BY <1>0, <1>00, <3>1 DEF TokensHold
    <3>9. link.token # n /\ link.token <= n /\ 1 <= n
      BY <1>0, <3>1 DEF TokensHold
    <3>10. ASSUME NEW d \in Workers
           PROVE  /\ Active(check'[d]) => Base(check'[d]) <= n
                  /\ Rotated(check'[d]) => 1 <= check'[d].token /\ check'[d].token <= n
      <4>1. CASE d = c
        <5>1. check'[d] = f /\ Base(f) <= n
          BY <3>6, <3>7, <3>8, <4>1
        <5>2. n <= n
          BY <3>3
        <5> QED BY <3>4, <3>9, <5>1, <5>2
      <4>2. CASE d # c
        <5>1. check'[d] = check[d]
          BY <3>6, <4>2
        <5> QED BY <3>8, <5>1 DEF TokensHold
      <4> QED BY <4>1, <4>2
    <3>11. \A d \in Workers : Active(check'[d]) /\ link.here /\ link.token = Base(check'[d]) => touched = check'[d].touched
      BY <2>1, <3>4, <3>6, <3>7 DEF TokensHold
    <3>12. ASSUME NEW d \in Workers, Rotated(check'[d]), NEW e \in Workers, e # d
           PROVE  /\ link.token # check'[d].token
                  /\ Active(check'[e]) => Base(check'[e]) # check'[d].token
                  /\ Rotated(check'[e]) => check'[e].token # check'[d].token
      <4>1. CASE d = c
        BY <3>4, <3>6, <3>8, <3>9, <3>12, <4>1
      <4>2. CASE d # c /\ e = c
        BY <3>4, <3>6, <3>7, <3>8, <3>12, <4>2 DEF TokensHold
      <4>3. CASE d # c /\ e # c
        BY <3>6, <3>12, <4>3 DEF TokensHold
      <4> QED BY <4>1, <4>2, <4>3
    <3>13. ASSUME NEW d \in Workers, Rotated(check'[d]) PROVE link.token # check'[d].token
      BY <3>4, <3>6, <3>9, <3>13 DEF TokensHold
    <3>14. TokensHold'
      BY <2>0, <3>1, <3>9, <3>10, <3>11, <3>12, <3>13 DEF TokensHold
    <3>15. check' \in [Workers -> AccessChecks]
      BY <1>0, <3>3, <3>4
    <3> QED BY <1>0, <1>00, <2>0, <3>5, <3>6, <3>14, <3>15
  <2>3. CASE ~arrives
    <3>1. PICK code \in {"timed_out", "service_unavailable"} : Access!Conclude(c, h, code)
      BY <1>13, <2>3 DEF Access!Exchange, h
    <3>2. PICK r : Over(h, r, code) /\ check' = [check EXCEPT ![c] = r]
      BY <2>1, <3>1, Concluding DEF AccessCodes
    <3>3. r \in AccessChecks /\ CheckHolds(r) /\ ~Active(r) /\ ~Rotated(r)
      BY <2>1, <3>1, <3>2 DEF Over, CheckHolds, Active, Rotated
    <3>4. \A d \in Workers : check'[d] = IF d = c THEN r ELSE check[d]
      BY <1>0, <3>2
    <3>5. latest <= latest' /\ latest' \in Nat /\ \A n \in Nat : n <= latest => n <= latest'
      BY <1>0, <2>0
    <3>6. TokensHold'
      <4>1. link'.token <= latest'
        BY <1>0, <2>0, <3>5 DEF TokensHold
      <4>2. \A d \in Workers : /\ Active(check'[d]) => Base(check'[d]) <= latest'
                               /\ Rotated(check'[d]) => 1 <= check'[d].token /\ check'[d].token <= latest'
        BY <1>00, <3>3, <3>4, <3>5 DEF TokensHold
      <4> QED BY <2>0, <3>3, <3>4, <4>1, <4>2 DEF TokensHold
    <3>7. check' \in [Workers -> AccessChecks]
      BY <1>0, <3>2, <3>3
    <3> QED BY <1>0, <1>00, <2>0, <3>3, <3>4, <3>5, <3>6, <3>7
  <2> QED BY <2>2, <2>3
<1>14. ASSUME NEW c \in Workers, NEW wait \in Waits, Access!Denied(c, wait) PROVE Goal
  <2> DEFINE h == Access!Hear(c, wait)
  <2>0. UNCHANGED <<link, touched, latest>> /\ check[c].stage = "refresh"
    BY <1>14 DEF Access!Denied, Access!world, Access!sso, Access!At
  <2>1. h \in AccessChecks /\ ~h.arrived /\ h.code = check[c].code
    BY <1>00, <2>0, Hearing DEF CheckHolds
  <2> HIDE DEF h
  <2>2. PICK f : f = [h EXCEPT !.stage = "denied"]
    OBVIOUS
  <2>3. f \in AccessChecks /\ f.stage = "denied" /\ ~f.arrived /\ f.code = h.code
    BY ONLY <2>1, <2>2 DEF AccessChecks, AccessStages
  <2>4. CheckHolds(f) /\ TokenKept(check[c], f)
    BY <1>00, <2>0, <2>1, <2>3 DEF CheckHolds, TokenKept, Active, Rotated
  <2> QED BY <1>8, <1>14, <2>0, <2>2, <2>3, <2>4 DEF Access!Denied, Access!Put, h
<1>15. ASSUME NEW c \in Workers, NEW wait \in Waits, Access!NotExchanged(c, wait) PROVE Goal
  <2> DEFINE v == IF Access!Expired(c) THEN 0 ELSE wait
             code == IF Access!Expired(c) THEN "timed_out" ELSE "service_unavailable"
  <2>0. UNCHANGED <<link, touched, latest>> /\ check[c].stage = "refresh"
    BY <1>15 DEF Access!NotExchanged, Access!world, Access!sso, Access!At
  <2>1. v \in Nat /\ code \in AccessCodes /\ code # "checked"
    BY DEF AccessCodes
  <2>2. Access!Conclude(c, Access!Hear(c, v), code)
    BY <1>15 DEF Access!NotExchanged
  <2> HIDE DEF v, code
  <2>3. Access!Hear(c, v) \in AccessChecks /\ ~Access!Hear(c, v).arrived
    BY <1>00, <2>0, <2>1, Hearing DEF CheckHolds
  <2> QED BY <1>9, <2>0, <2>1, <2>2, <2>3
<1>16. ASSUME NEW c \in Workers, NEW works \in BOOLEAN, Access!Settle(c, works) PROVE Goal
  <2>0. UNCHANGED <<touched, latest>> /\ check[c].stage = "rotated"
    BY <1>16 DEF Access!Settle, Access!sso, Access!At
  <2>1. ASSUME link' = link, Access!Conclude(c, check[c], Access!SettlementFailed(c)) PROVE Goal
    <3>1. Access!SettlementFailed(c) \in AccessCodes /\ Access!SettlementFailed(c) # "checked"
          /\ (Access!SettlementFailed(c) = "timed_out" => ~check[c].arrived)
      BY DEF Access!SettlementFailed, AccessCodes
    <3> QED BY <1>9, <1>00, <2>0, <2>1, <3>1
  <2>2. ASSUME link' = link, Access!Conclude(c, check[c], "identity_changed") PROVE Goal
    BY <1>9, <1>00, <2>0, <2>2 DEF AccessCodes
  <2>3. ASSUME link.token = check[c].seen, link' = [link EXCEPT !.token = check[c].token],
               Access!Put(c, [check[c] EXCEPT !.stage = "membership", !.saved = TRUE])
        PROVE  Goal
    <3>1. PICK t : t = check[c].token
      OBVIOUS
    <3>2. PICK f : f = [check[c] EXCEPT !.stage = "membership", !.saved = TRUE]
      OBVIOUS
    <3>3. check' = [check EXCEPT ![c] = f] /\ t \in Nat /\ check[c] \in AccessChecks
      BY <1>00, <2>3, <3>1, <3>2 DEF Access!Put
    <3>4. /\ f \in AccessChecks /\ f.stage = "membership" /\ f.token = t /\ f.touched = check[c].touched /\ f.saved
          /\ f.code = check[c].code
      BY ONLY <3>1, <3>2, <3>3 DEF AccessChecks, AccessStages
    <3>5. link' \in Links /\ link'.token = t /\ link'.here = link.here
      <4>1. link' = [link EXCEPT !.token = t]
        BY <2>3, <3>1
      <4> QED BY ONLY <1>0, <3>3, <4>1
    <3>6. CheckHolds(f)
      BY <1>00, <2>0, <3>4 DEF CheckHolds
    <3>7. \A d \in Workers : check'[d] = IF d = c THEN f ELSE check[d]
      BY <1>0, <3>3
    <3>8. Rotated(check[c]) /\ Active(check[c]) /\ Base(check[c]) = link.token /\ Active(f) /\ ~Rotated(f) /\ Base(f) = t
      BY <2>0, <2>3, <3>4 DEF Active, Rotated, Base
    <3>9. \A d \in Workers : d # c => /\ Active(check[d]) => Base(check[d]) # t
                                      /\ Rotated(check[d]) => check[d].token # t
      BY <3>1, <3>8 DEF TokensHold
    <3>10. t <= latest
      BY <3>1, <3>8 DEF TokensHold
    <3>11. \A d \in Workers : Active(check'[d]) /\ link'.here /\ link'.token = Base(check'[d])
                                => touched = check'[d].touched
      BY <3>4, <3>5, <3>7, <3>8, <3>9 DEF TokensHold
    <3>12. \A d \in Workers : /\ Active(check'[d]) => Base(check'[d]) <= latest
                              /\ Rotated(check'[d]) => 1 <= check'[d].token /\ check'[d].token <= latest
      BY <3>7, <3>8, <3>10 DEF TokensHold
    <3>13. ASSUME NEW d \in Workers, Rotated(check'[d])
           PROVE  /\ link'.token # check'[d].token
                  /\ \A e \in Workers : e # d => /\ Active(check'[e]) => Base(check'[e]) # check'[d].token
                                                 /\ Rotated(check'[e]) => check'[e].token # check'[d].token
      <4>1. d # c /\ check'[d] = check[d] /\ Rotated(check[d])
        BY <3>7, <3>8, <3>13
      <4>2. check[d].token # t
        BY <3>9, <4>1
      <4> QED BY <3>5, <3>7, <3>8, <4>1, <4>2 DEF TokensHold
    <3>14. TokensHold'
      BY <2>0, <3>5, <3>10, <3>11, <3>12, <3>13 DEF TokensHold
    <3>15. check' \in [Workers -> AccessChecks]
      BY <1>0, <3>3, <3>4
    <3> QED BY <1>0, <1>00, <2>0, <3>5, <3>6, <3>7, <3>14, <3>15
  <2> QED BY <1>16, <2>1, <2>2, <2>3 DEF Access!Settle
<1>17. ASSUME NEW c \in Workers, NEW works \in BOOLEAN, Access!Condemn(c, works) PROVE Goal
  <2>0. UNCHANGED <<touched, latest>> /\ check[c].stage = "denied"
    BY <1>17 DEF Access!Condemn, Access!sso, Access!At
  <2>1. PICK code \in AccessCodes \ {"checked"} : Access!Conclude(c, check[c], code)
    BY <1>17 DEF Access!Condemn, AccessCodes
  <2>2. PICK r : Over(check[c], r, code) /\ check' = [check EXCEPT ![c] = r]
    BY <1>00, <2>1, Concluding
  <2>3. r \in AccessChecks /\ CheckHolds(r) /\ ~Active(r) /\ ~Rotated(r)
    BY <1>00, <2>0, <2>1, <2>2 DEF Over, CheckHolds, Active, Rotated
  <2>4. link' \in Links /\ link'.token = link.token /\ link'.here = link.here
    <3>1. link' = link \/ link' = [link EXCEPT !.authorized = FALSE]
      BY <1>17 DEF Access!Condemn
    <3> QED BY ONLY <1>0, <3>1
  <2>5. \A d \in Workers : check'[d] = IF d = c THEN r ELSE check[d]
    BY <1>0, <2>2
  <2>6. TokensHold'
    BY <2>0, <2>3, <2>4, <2>5 DEF TokensHold
  <2>7. check' \in [Workers -> AccessChecks]
    BY <1>0, <2>2, <2>3
  <2> QED BY <1>0, <1>00, <2>0, <2>3, <2>4, <2>5, <2>6, <2>7
<1>18. ASSUME NEW c \in Workers, Access!OutOfTime(c) PROVE Goal
  BY <1>9, <1>00, <1>18 DEF Access!OutOfTime, Access!Asking, AccessCodes, CheckHolds, Access!world, Access!sso
<1>19. ASSUME NEW c \in Workers, NEW code \in Access!Codes(c), NEW wait \in Waits, Access!NotAnswered(c, code, wait)
       PROVE  Goal
  <2>1. code \in AccessCodes /\ code \notin {"checked", "timed_out"}
    BY DEF Access!Codes, AccessCodes
  <2>2. Access!Hear(c, wait) \in AccessChecks
    BY Hearing
  <2> QED BY <1>9, <1>19, <2>1, <2>2 DEF Access!NotAnswered, Access!world, Access!sso
<1>20. ASSUME NEW c \in Workers, NEW wait \in Waits, Access!Answered(c, wait) PROVE Goal
  <2> DEFINE h == Access!Hear(c, wait)
  <2>0. UNCHANGED <<link, touched, latest>> /\ check[c].stage \in {"membership", "roster"}
    BY <1>20 DEF Access!Answered, Access!Asking, Access!world, Access!sso
  <2>1. /\ h \in AccessChecks /\ h.code = check[c].code /\ h.saved = check[c].saved /\ h.token = check[c].token
        /\ h.touched = check[c].touched /\ h.stage = check[c].stage
    BY Hearing
  <2> HIDE DEF h
  <2>2. PICK s : s = IF h.stage = "membership" THEN "roster" ELSE "after"
    OBVIOUS
  <2>3. PICK f : f = [h EXCEPT !.stage = s]
    OBVIOUS
  <2>4. check' = [check EXCEPT ![c] = f]
    BY <1>20, <2>2, <2>3 DEF Access!Answered, Access!Put, h
  <2>5. s \in {"roster", "after"}
    BY <2>2
  <2>6. /\ f \in AccessChecks /\ f.stage = s /\ f.token = h.token /\ f.touched = h.touched /\ f.saved = h.saved
        /\ f.code = h.code
    BY ONLY <2>1, <2>3, <2>5 DEF AccessChecks, AccessStages
  <2>7. CheckHolds(f) /\ TokenKept(check[c], f)
    BY <1>00, <2>0, <2>1, <2>5, <2>6 DEF CheckHolds, TokenKept, Active, Rotated, Base
  <2> QED BY <1>8, <2>0, <2>4, <2>6, <2>7
<1>21. ASSUME NEW c \in Workers, NEW works \in BOOLEAN, Access!After(c, works) PROVE Goal
  <2> DEFINE e == [check[c] EXCEPT !.seen = touched]
             code == IF ~works THEN (IF Access!Expired(c) THEN "timed_out" ELSE "service_unavailable")
                     ELSE IF account = "member" /\ Access!Unmoved(c) THEN "checked" ELSE "identity_changed"
  <2>0. UNCHANGED <<link, touched, latest>> /\ check[c].stage = "after" /\ Access!Conclude(c, e, code)
    BY <1>21 DEF Access!After, Access!world, Access!sso, Access!At
  <2>1. e \in AccessChecks /\ e.seen = touched /\ e.touched = check[c].touched /\ e.saved = check[c].saved
    BY ONLY <1>0, <1>00 DEF AccessChecks
  <2>2. code \in AccessCodes /\ (code = "checked" => Access!Unmoved(c))
    BY DEF AccessCodes
  <2> HIDE DEF e, code
  <2>3. ASSUME code = "checked" PROVE e.seen = e.touched
    <3>1. link.here /\ link.token = check[c].token
      BY <2>2, <2>3 DEF Access!Unmoved, Access!Authorized
    <3>2. Active(check[c]) /\ Base(check[c]) = check[c].token
      BY <2>0 DEF Active, Base
    <3> QED BY <2>1, <3>1, <3>2 DEF TokensHold
  <2>4. e.saved
    BY <1>00, <2>0, <2>1 DEF CheckHolds
  <2> QED BY <1>9, <2>0, <2>1, <2>2, <2>3, <2>4
<1>22. ASSUME NEW c \in Workers, NEW works \in BOOLEAN, Access!Extend(c, works) PROVE Goal
  <2>1. UNCHANGED <<link, touched, latest>>
    BY <1>22 DEF Access!Extend, Access!world, Access!sso
  <2>2. PICK code : code = check[c].code
    OBVIOUS
  <2>3. code \in AccessCodes
    BY <1>00, <2>2 DEF AccessChecks
  <2>4. \/ Access!Answer(c, check[c], code)
        \/ Access!Answer(c, check[c], "service_unavailable") \/ Access!Answer(c, check[c], "identity_changed")
    BY <1>22, <2>2 DEF Access!Extend, Access!Refuse
  <2>5. CASE Access!Answer(c, check[c], code)
    BY <1>9, <1>00, <2>1, <2>2, <2>3, <2>5 DEF CheckHolds
  <2>6. CASE Access!Answer(c, check[c], "service_unavailable") \/ Access!Answer(c, check[c], "identity_changed")
    BY <1>9, <1>00, <2>1, <2>6 DEF AccessCodes
  <2> QED BY <2>4, <2>5, <2>6
<1>23. CASE UNCHANGED accessVars
  BY <1>1, <1>23 DEF accessVars
<1>24. Goal
  BY <1>3, <1>4, <1>5, <1>6, <1>7, <1>10, <1>11, <1>12, <1>13, <1>14, <1>15, <1>16, <1>17, <1>18, <1>19, <1>20,
     <1>21, <1>22, <1>23 DEF Access!Next
<1> QED BY <1>24

\* What a step does to the gate; no check is admitted before the time anybody was told.
GateMoves ==
  /\ account' \in {"member", "below", "gone"} /\ gate' \in Nat \union {NoFleet} /\ promised' \in Nat /\ minute' \in Nat
  /\ GateHolds'
  /\ gate' # NoFleet => promised' <= gate'
  /\ \A c \in Workers : Access!At(c, "claim") /\ check'[c].stage = "refresh" => promised <= minute

\* A step moves the gate of an account on, never back before what a caller was told.
LEMMA GateStep ==
  ASSUME AccessTyped, GateHolds, [Access!Next]_accessVars
  PROVE  GateMoves
<1>0. /\ account \in {"member", "below", "gone"} /\ gate \in Nat \union {NoFleet} /\ promised \in Nat /\ minute \in Nat
      /\ check \in [Workers -> AccessChecks]
  BY DEF AccessTyped
\* The gate stays, and nobody who waits for it is let in.
<1>1. /\ gate' = gate /\ promised' = promised /\ minute' = minute
      /\ account' = account \/ (account # "gone" /\ account' \in {"member", "below"})
      /\ \A c \in Workers : Access!At(c, "claim") => check'[c].stage # "refresh"
      => GateMoves
  BY <1>0 DEF GateMoves, GateHolds
<1>2. ASSUME UNCHANGED check PROVE \A c \in Workers : Access!At(c, "claim") => check'[c].stage # "refresh"
  BY <1>2 DEF Access!At
<1>3. ASSUME NEW c \in Workers, NEW e, e.stage # "refresh" \/ ~Access!At(c, "claim"), check' = [check EXCEPT ![c] = e]
      PROVE  \A d \in Workers : Access!At(d, "claim") => check'[d].stage # "refresh"
  BY <1>0, <1>3 DEF Access!At
<1>4. ASSUME NEW c \in Workers, NEW e, ~Access!At(c, "claim"), \/ Access!Put(c, e)
             \/ \E code : Access!Conclude(c, e, code) \/ Access!Answer(c, e, code)
      PROVE  \A d \in Workers : Access!At(d, "claim") => check'[d].stage # "refresh"
  <2>1. \E f : check' = [check EXCEPT ![c] = f]
    BY <1>4 DEF Access!Put, Access!Conclude, Access!Answer
  <2> QED BY <1>3, <1>4, <2>1
<1>5. CASE Access!Tick
  <2>1. minute' = minute + 1 /\ UNCHANGED <<account, gate, promised, check>>
    BY <1>5 DEF Access!Tick, Access!world
  <2>2. \A c \in Workers : Access!At(c, "claim") => check'[c].stage # "refresh"
    BY <1>2, <2>1
  <2> QED BY <1>0, <2>1, <2>2 DEF GateMoves, GateHolds
<1>6. CASE Access!MergedAway
  <2>1. account' = "gone" /\ gate' = NoFleet /\ UNCHANGED <<promised, minute, check>>
    BY <1>6 DEF Access!MergedAway
  <2>2. \A c \in Workers : Access!At(c, "claim") => check'[c].stage # "refresh"
    BY <1>2, <2>1
  <2> QED BY <1>0, <2>1, <2>2 DEF GateMoves, GateHolds
<1>7. ASSUME NEW c \in Workers, Access!Claim(c) PROVE GateMoves
  <2>0. UNCHANGED <<account, minute>>
    BY <1>7 DEF Access!Claim, Access!world
  <2>1. CASE account = "gone" /\ Access!Refuse(c, "service_unavailable") /\ UNCHANGED <<gate, promised>>
    <3>1. PICK f : f = [check[c] EXCEPT !.code = "service_unavailable", !.stage = "done", !.token = 0, !.owner = 0,
                                        !.until = 0, !.boundary = 0]
      OBVIOUS
    <3>2. check[c] \in AccessChecks
      BY <1>0
    <3>3. f.stage = "done"
      BY ONLY <3>1, <3>2 DEF AccessChecks
    <3>4. check' = [check EXCEPT ![c] = f]
      BY <2>1, <3>1 DEF Access!Refuse, Access!Answer, Access!Put
    <3>5. \A d \in Workers : Access!At(d, "claim") => check'[d].stage # "refresh"
      BY <1>3, <3>3, <3>4
    <3>6. account' = account
      BY <2>0
    <3> QED BY <1>1, <2>0, <2>1, <3>5, <3>6
  <2>2. CASE /\ account # "gone" /\ Access!Open /\ gate' = minute + Cooldown
             /\ promised' = Access!Max({promised, gate'})
             /\ Access!Put(c, [check[c] EXCEPT !.stage = "refresh", !.until = minute + Budget])
    <3>1. promised <= minute
      BY <1>0, <2>2 DEF Access!Open, GateHolds
    <3>2. PICK g : g = minute + Cooldown
      OBVIOUS
    <3>3. g \in Nat /\ gate' = g /\ minute <= g
      BY <1>0, <2>2, <3>2
    <3>4. promised' = g
      <4>1. promised <= g
        BY <1>0, <3>1, <3>3
      <4>2. promised' = Access!Max({promised, g})
        BY <2>2, <3>3
      <4>3. Access!Max({promised, g}) \in {promised, g} /\ g <= Access!Max({promised, g})
        BY <1>0, <3>3, MaxOfTwo
      <4> QED BY <1>0, <3>3, <4>1, <4>2, <4>3
    <3>5. g <= g /\ g # NoFleet
      BY <3>3
    <3> QED BY <1>0, <2>0, <2>2, <3>1, <3>3, <3>4, <3>5 DEF GateMoves, GateHolds
  <2>3. CASE /\ account # "gone" /\ ~Access!Open /\ promised' = Access!Max({promised, gate})
             /\ Access!Refuse(c, "cooldown") /\ gate' = gate
    <3>1. gate \in Nat /\ gate # NoFleet /\ promised <= gate
      BY <1>0, <2>3 DEF Access!Open, GateHolds
    <3>2. promised' \in Nat /\ promised' <= gate
      <4>1. Access!Max({promised, gate}) \in {promised, gate}
        BY <1>0, <3>1, MaxOfTwo
      <4> QED BY <1>0, <2>3, <3>1, <4>1
    <3>3. PICK f : f = [check[c] EXCEPT !.code = "cooldown", !.stage = "done", !.token = 0, !.owner = 0,
                                        !.until = 0, !.boundary = 0]
      OBVIOUS
    <3>4. check[c] \in AccessChecks
      BY <1>0
    <3>5. f.stage = "done"
      BY ONLY <3>3, <3>4 DEF AccessChecks
    <3>6. check' = [check EXCEPT ![c] = f]
      BY <2>3, <3>3 DEF Access!Refuse, Access!Answer, Access!Put
    <3>7. \A d \in Workers : Access!At(d, "claim") => check'[d].stage # "refresh"
      BY <1>3, <3>5, <3>6
    <3> QED BY <1>0, <2>0, <2>3, <3>1, <3>2, <3>7 DEF GateMoves, GateHolds
  <2> QED BY <1>7, <2>1, <2>2, <2>3 DEF Access!Claim
<1>8. ASSUME NEW c \in Workers, NEW works \in BOOLEAN, Access!Extend(c, works) PROVE GateMoves
  <2>0. UNCHANGED <<account, minute>> /\ check[c].stage = "extend" /\ ~Access!At(c, "claim")
    BY <1>8 DEF Access!Extend, Access!world, Access!At
  <2>1. \A d \in Workers : Access!At(d, "claim") => check'[d].stage # "refresh"
    <3>1. \E code : Access!Answer(c, check[c], code)
      BY <1>8 DEF Access!Extend, Access!Refuse
    <3> QED BY <1>4, <2>0, <3>1
  <2>2. CASE UNCHANGED <<gate, promised>>
    BY <1>1, <2>0, <2>1, <2>2
  <2>3. CASE /\ gate # NoFleet /\ gate' = Access!Later(gate, check[c].boundary)
             /\ promised' = Access!Max({promised, gate'})
    <3>1. gate \in Nat /\ check[c].boundary \in Nat /\ promised <= gate
      <4>1. check[c] \in AccessChecks
        BY <1>0
      <4> QED BY <1>0, <2>3, <4>1 DEF AccessChecks, GateHolds
    <3>2. PICK g : g = Access!Max({gate, check[c].boundary})
      OBVIOUS
    <3>3. g \in Nat /\ gate <= g /\ gate' = g
      <4>1. g \in {gate, check[c].boundary} /\ gate <= g
        BY <3>1, <3>2, MaxOfTwo
      <4> QED BY <2>3, <3>1, <3>2, <4>1 DEF Access!Later
    <3>4. promised' \in Nat /\ promised' <= g
      <4>1. promised <= g /\ g <= g
        BY <1>0, <3>1, <3>3
      <4>2. Access!Max({promised, g}) \in {promised, g}
        BY <1>0, <3>3, MaxOfTwo
      <4> QED BY <1>0, <2>3, <3>3, <4>1, <4>2
    <3>5. g # NoFleet /\ account # "gone"
      BY <2>3, <3>3 DEF GateHolds
    <3> QED BY <1>0, <2>0, <2>1, <3>3, <3>4, <3>5 DEF GateMoves, GateHolds
  <2> QED BY <1>8, <2>2, <2>3 DEF Access!Extend
<1>9. ASSUME NEW c \in Workers, Access!Before(c) PROVE GateMoves
  <2>1. ~Access!At(c, "claim") /\ UNCHANGED <<gate, promised, minute, account>>
    BY <1>9 DEF Access!Before, Access!At, Access!world
  <2>2. \/ \E e : Access!Put(c, e)
        \/ \E code : Access!Answer(c, check[c], code)
    BY <1>9 DEF Access!Before, Access!Refuse
  <2>3. \A d \in Workers : Access!At(d, "claim") => check'[d].stage # "refresh"
    <3>1. CASE \E e : Access!Put(c, e)
      BY <1>4, <2>1, <3>1
    <3>2. CASE \E code : Access!Answer(c, check[c], code)
      BY <1>4, <2>1, <3>2
    <3> QED BY <2>2, <3>1, <3>2
  <2>4. account' = account
    BY <2>1
  <2> QED BY <1>1, <2>1, <2>3, <2>4
<1>10. ASSUME NEW c \in Workers, Access!Unserved(c) PROVE GateMoves
  <2>1. PICK f : f = [check[c] EXCEPT !.code = "service_unavailable", !.stage = "done", !.token = 0, !.owner = 0,
                                      !.until = 0, !.boundary = 0]
    OBVIOUS
  <2>2. check[c] \in AccessChecks
    BY <1>0
  <2>3. f.stage = "done"
    BY ONLY <2>1, <2>2 DEF AccessChecks
  <2>4. check' = [check EXCEPT ![c] = f] /\ UNCHANGED <<gate, promised, minute, account>>
    BY <1>10, <2>1 DEF Access!Unserved, Access!Refuse, Access!Answer, Access!Put, Access!world
  <2>5. \A d \in Workers : Access!At(d, "claim") => check'[d].stage # "refresh"
    BY <1>3, <2>3, <2>4
  <2>6. account' = account
    BY <2>4
  <2> QED BY <1>1, <2>4, <2>5, <2>6
\* The stages in which EVE is asked.
<1>11. ASSUME NEW c \in Workers, ~Access!At(c, "claim"), UNCHANGED <<gate, promised, minute, account>>,
              \E e : Access!Put(c, e) \/ \E code : Access!Conclude(c, e, code)
       PROVE  GateMoves
  <2>1. \A d \in Workers : Access!At(d, "claim") => check'[d].stage # "refresh"
    <3>1. CASE \E e : Access!Put(c, e)
      BY <1>4, <1>11, <3>1
    <3>2. CASE \E code, e : Access!Conclude(c, e, code)
      BY <1>4, <1>11, <3>2
    <3> QED BY <1>11, <3>1, <3>2
  <2>2. account' = account
    BY <1>11
  <2> QED BY <1>1, <1>11, <2>1, <2>2
<1>12. ASSUME NEW c \in Workers, NEW arrives \in BOOLEAN, NEW wait \in Waits, Access!Exchange(c, arrives, wait)
       PROVE  GateMoves
  <2>1. ~Access!At(c, "claim") /\ UNCHANGED <<gate, promised, minute, account>>
    BY <1>12 DEF Access!Exchange, Access!At, Access!world
  <2>2. \E e : Access!Put(c, e) \/ \E code : Access!Conclude(c, e, code)
    BY <1>12 DEF Access!Exchange
  <2> QED BY <1>11, <2>1, <2>2
<1>13. ASSUME NEW c \in Workers, NEW wait \in Waits, Access!Denied(c, wait) \/ Access!NotExchanged(c, wait)
       PROVE  GateMoves
  BY <1>11, <1>13 DEF Access!Denied, Access!NotExchanged, Access!At, Access!world
<1>14. ASSUME NEW c \in Workers, NEW works \in BOOLEAN, Access!Settle(c, works) PROVE GateMoves
  <2>1. ~Access!At(c, "claim") /\ UNCHANGED <<gate, promised, minute, account>>
    BY <1>14 DEF Access!Settle, Access!At
  <2>2. \E e : Access!Put(c, e) \/ \E code : Access!Conclude(c, e, code)
    BY <1>14 DEF Access!Settle
  <2> QED BY <1>11, <2>1, <2>2
<1>15. ASSUME NEW c \in Workers, NEW works \in BOOLEAN, Access!Condemn(c, works) PROVE GateMoves
  <2>1. ~Access!At(c, "claim") /\ UNCHANGED <<gate, promised, minute, account>>
    BY <1>15 DEF Access!Condemn, Access!At
  <2>2. \E e : Access!Put(c, e) \/ \E code : Access!Conclude(c, e, code)
    BY <1>15 DEF Access!Condemn
  <2> QED BY <1>11, <2>1, <2>2
<1>16. ASSUME NEW c \in Workers, Access!OutOfTime(c) PROVE GateMoves
  BY <1>11, <1>16 DEF Access!OutOfTime, Access!Asking, Access!At, Access!world
<1>17. ASSUME NEW c \in Workers, NEW code, NEW wait \in Waits, Access!NotAnswered(c, code, wait) \/ Access!Answered(c, wait)
       PROVE  GateMoves
  BY <1>11, <1>17 DEF Access!NotAnswered, Access!Answered, Access!Asking, Access!At, Access!world
<1>18. ASSUME NEW c \in Workers, NEW works \in BOOLEAN, Access!After(c, works) PROVE GateMoves
  <2>1. ~Access!At(c, "claim") /\ UNCHANGED <<gate, promised, minute, account>>
    BY <1>18 DEF Access!After, Access!At, Access!world
  <2>2. \E e : Access!Put(c, e) \/ \E code : Access!Conclude(c, e, code)
    BY <1>18 DEF Access!After
  <2> QED BY <1>11, <2>1, <2>2
<1>19. ASSUME \/ \E here, sold \in BOOLEAN : Access!Authorize(here, sold)
              \/ Access!Unlink \/ Access!RotatedByJob \/ \E t \in {"member", "below"} : Access!Retiered(t)
       PROVE  GateMoves
  <2>1. UNCHANGED <<gate, promised, minute, check>>
    BY <1>19 DEF Access!Authorize, Access!Unlink, Access!RotatedByJob, Access!Retiered, Access!World
  <2>2. account' = account \/ (account # "gone" /\ account' \in {"member", "below"})
    BY <1>19 DEF Access!Authorize, Access!Unlink, Access!RotatedByJob, Access!Retiered
  <2>3. UNCHANGED check
    BY <2>1
  <2>4. \A d \in Workers : Access!At(d, "claim") => check'[d].stage # "refresh"
    BY <1>2, <2>3
  <2> QED BY <1>1, <2>1, <2>2, <2>4
<1>20. CASE UNCHANGED accessVars
  <2>1. UNCHANGED <<account, gate, promised, minute, check>>
    BY <1>20 DEF accessVars
  <2>2. UNCHANGED check
    BY <2>1
  <2>3. \A d \in Workers : Access!At(d, "claim") => check'[d].stage # "refresh"
    BY <1>2, <2>2
  <2> QED BY <1>1, <2>1, <2>3
<1> QED
  BY <1>5, <1>6, <1>7, <1>8, <1>9, <1>10, <1>12, <1>13, <1>14, <1>15, <1>16, <1>17, <1>18, <1>19, <1>20
  DEF Access!Next

\* A step of the checks keeps their invariant.
LEMMA AccessInvStep == AccessInv /\ [Access!Next]_accessVars => AccessInv' /\ GateMoves
  BY ChecksStep, GateStep DEF AccessInv, AccessTyped, GateMoves

-----------------------------------------------------------------------------
(* What control answers (FleetControl).                                       *)

Times == Nat \union {NoFleet}
GivenConsents == [gen : Nat, rev : Nat, on : BOOLEAN, by : Workers \union {NoFleet}, at : Times, off : Times]
AutoReceipts == [kind : {"automatic"}, cmd : [id : Requests, on : BOOLEAN, intent : Nat, gen : Nat, rev : Nat],
                 at : Nat, until : Nat, consent : GivenConsents]
StopReceipts == [kind : {"source_stop"},
                 cmd : [id : Requests, intent : Nat, source : Fleets, gen : Nat, auto : Nat],
                 at : Nat, until : Nat, consent : GivenConsents,
                 effect : {"manual_only", "unknown_cancelled", "disabled_current", "current_already_off",
                           "older_generation_only"},
                 view : [state : {"ended"}, gen : Nat, cgen : Nat]]
SourceRows == [state : {"none", "live", "ended"}, cgen : Nat, gen : Nat, stopped : BOOLEAN, until : Nat,
               stop : StopReceipts \union {NoFleet}]
ControlTyped ==
  /\ given \in GivenConsents /\ Control!ValidConsent(given)
  /\ hour \in Nat
  /\ given.at # NoFleet => given.at <= hour
  /\ given.off # NoFleet => given.off <= hour
  /\ rows \in [Fleets -> SourceRows]
  /\ kept \subseteq AutoReceipts
  /\ started \in [Fleets -> Nat \union {NoChar, NoFleet}]
  /\ \A s \in Fleets : started[s] \in Nat => started[s] <= hour
  /\ halted \subseteq Fleets

\* What the row of a source says of the consent.
RowFits(c, row) ==
  /\ row.state = "none" => row.gen = 0 /\ row.cgen = 0
  /\ row.state # "none" => row.gen > 0
  /\ row.cgen <= c.gen
  /\ row.stopped => row.state = "ended" /\ (row.cgen = c.gen => row.cgen = 0 \/ ~c.on)
  /\ ~row.stopped => row.stop = NoFleet
  /\ row.stop # NoFleet => Control!After(c, row.stop.consent)
\* A row outlives the Start that may still come for its source, which then finds it.
StartFits(row, start, stopped, time) ==
  /\ row.state # "none" => start # NoFleet /\ (start \in Nat => start + IntentTTL <= row.until)
  /\ stopped => /\ row.state # "live" /\ start # NoFleet
                /\ row.state = "none" /\ start \in Nat => start + IntentTTL <= time
\* The receipts that are still valid have each their own command.
Receipts == kept \union Control!Stops
OneOfEach == \A r, q \in Receipts : r.until > hour /\ q.until > hour /\ r.cmd.id = q.cmd.id => r = q

ControlInv ==
  /\ ControlTyped
  /\ \A s \in Fleets : RowFits(given, rows[s]) /\ StartFits(rows[s], started[s], s \in halted, hour)
  /\ \A r \in kept : Control!After(given, r.consent)
  /\ OneOfEach
  /\ ~unanswered

\* A status whose parts agree passes the check of the answer.
LEMMA StatusFits ==
  ASSUME NEW c \in GivenConsents, Control!ValidConsent(c), NEW r, NEW approver, NEW readiness, NEW action, NEW retry,
         NEW sources,
         (c.gen = 0) = (approver = "none"),
         ~c.on => readiness = "off" /\ action = "none" /\ retry = NoFleet /\ sources = {},
         c.on => /\ readiness # "off"
                 /\ \A s \in sources : r[s].cgen = c.gen
                 /\ approver = "revoked" => readiness \in {"global_disabled", "member_required", "authorization_required"}
                 /\ retry # NoFleet => readiness \in {"global_disabled", "capacity_limited", "reconnecting"}
                 /\ action = CASE readiness \in {"global_disabled", "capacity_limited", "reconnecting"} -> "wait"
                               [] readiness = "member_required" -> "restore_membership"
                               [] readiness = "waiting_for_grant" -> "authorize_fleet_read"
                               [] readiness = "authorization_required" ->
                                    IF approver = "revoked" THEN "reauthorize_automatic" ELSE "authorize_fleet_read"
                               [] OTHER -> "none"
  PROVE  Control!ValidStatus([consent |-> c, approver |-> approver, readiness |-> readiness, action |-> action,
                              retry |-> retry, sources |-> sources], r)
  BY DEF Control!ValidStatus

\* Every status of a consent that fits its schema passes, also as the browser is shown it.
LEMMA StatusPasses ==
  ASSUME NEW c \in GivenConsents, Control!ValidConsent(c), NEW r, NEW a, NEW f \in Control!Conditions, NEW d,
         NEW st, st = Control!Status(c, r, gone, a, f, d)
  PROVE  Control!ValidStatus(st, r) /\ Control!ValidStatus(Control!BrowserView(st), r)
<1>1. c.gen = 0 => ~c.on
  BY DEF Control!ValidConsent, Control!Absent
<1>2. PICK ap : ap = IF c.gen = 0 THEN "none" ELSE IF c.by \in gone THEN "revoked"
                     ELSE IF c.by = a THEN "this_device" ELSE "other_device"
  OBVIOUS
<1>3. PICK so : so = {s \in Fleets : r[s].state = "live" /\ r[s].cgen = c.gen}
  OBVIOUS
<1>4. PICK bp : bp = IF ap \in {"none", "revoked"} THEN ap ELSE "account_device"
  OBVIOUS
<1>5. (c.gen = 0) = (ap = "none") /\ (c.gen = 0) = (bp = "none") /\ (ap = "revoked") = (bp = "revoked")
  BY <1>2, <1>4
<1>6. ASSUME NEW re, NEW ac, NEW rt, NEW src2,
             st = [consent |-> c, approver |-> ap, readiness |-> re, action |-> ac, retry |-> rt, sources |-> src2],
             ~c.on => re = "off" /\ ac = "none" /\ rt = NoFleet /\ src2 = {},
             c.on => /\ re # "off" /\ src2 = so
                     /\ ap = "revoked" => re \in {"global_disabled", "member_required", "authorization_required"}
                     /\ rt # NoFleet => re \in {"global_disabled", "capacity_limited", "reconnecting"}
                     /\ ac = CASE re \in {"global_disabled", "capacity_limited", "reconnecting"} -> "wait"
                               [] re = "member_required" -> "restore_membership"
                               [] re = "waiting_for_grant" -> "authorize_fleet_read"
                               [] re = "authorization_required" ->
                                    IF ap = "revoked" THEN "reauthorize_automatic" ELSE "authorize_fleet_read"
                               [] OTHER -> "none"
      PROVE  Control!ValidStatus(st, r) /\ Control!ValidStatus(Control!BrowserView(st), r)
  <2>1. \A s \in so : r[s].cgen = c.gen
    BY <1>3
  <2>2. Control!ValidStatus(st, r)
    BY <1>5, <1>6, <2>1, StatusFits
  <2>3. Control!BrowserView(st) = [consent |-> c, approver |-> bp, readiness |-> re, action |-> ac, retry |-> rt,
                                   sources |-> src2]
    BY <1>4, <1>6 DEF Control!BrowserView
  <2>4. Control!ValidStatus(Control!BrowserView(st), r)
    BY <1>5, <1>6, <2>1, <2>3, StatusFits
  <2> QED BY <2>2, <2>4
<1>7. CASE ~c.on
  <2>1. st = [consent |-> c, approver |-> ap, readiness |-> "off", action |-> "none", retry |-> NoFleet, sources |-> {}]
    BY <1>2, <1>3, <1>7 DEF Control!Status
  <2> QED BY <1>6, <1>7, <2>1
<1>8. ASSUME c.on, NEW re, NEW ac, NEW rt,
             st = [consent |-> c, approver |-> ap, readiness |-> re, action |-> ac, retry |-> rt, sources |-> so],
             \/ ap = "revoked" /\ re = "authorization_required" /\ ac = "reauthorize_automatic" /\ rt = NoFleet
             \/ re = "member_required" /\ ac = "restore_membership" /\ rt = NoFleet
             \/ re \in {"global_disabled", "capacity_limited"} /\ ac = "wait" /\ rt = NoFleet
                /\ (ap = "revoked" => re = "global_disabled")
             \/ ap # "revoked" /\ re = "reconnecting" /\ ac = "wait"
             \/ ap # "revoked" /\ re \in {"waiting_for_grant", "authorization_required"}
                /\ ac = "authorize_fleet_read" /\ rt = NoFleet
             \/ ap # "revoked" /\ re \in {"ready", "verifying", "waiting_for_fleet"} /\ ac = "none" /\ rt = NoFleet
      PROVE  Control!ValidStatus(st, r) /\ Control!ValidStatus(Control!BrowserView(st), r)
  <2>1. /\ re # "off"
        /\ ap = "revoked" => re \in {"global_disabled", "member_required", "authorization_required"}
        /\ rt # NoFleet => re \in {"global_disabled", "capacity_limited", "reconnecting"}
        /\ ac = CASE re \in {"global_disabled", "capacity_limited", "reconnecting"} -> "wait"
                  [] re = "member_required" -> "restore_membership"
                  [] re = "waiting_for_grant" -> "authorize_fleet_read"
                  [] re = "authorization_required" ->
                       IF ap = "revoked" THEN "reauthorize_automatic" ELSE "authorize_fleet_read"
                  [] OTHER -> "none"
    BY <1>8
  <2> QED BY <1>6, <1>8, <2>1
<1>9. CASE c.on /\ ap = "revoked" /\ f \notin {"global_disabled", "member_required"}
  <2>1. st = [consent |-> c, approver |-> ap, readiness |-> "authorization_required", action |-> "reauthorize_automatic",
              retry |-> NoFleet, sources |-> so]
    BY <1>2, <1>3, <1>9 DEF Control!Status
  <2> QED BY <1>8, <1>9, <2>1
<1>10. CASE c.on /\ ~(ap = "revoked" /\ f \notin {"global_disabled", "member_required"})
  <2>0. c.on /\ ~(ap = "revoked" /\ f \notin {"global_disabled", "member_required"})
    BY <1>10
  <2>1. CASE f = "member_required"
    <3>1. st = [consent |-> c, approver |-> ap, readiness |-> f, action |-> "restore_membership",
                retry |-> NoFleet, sources |-> so]
      BY <1>2, <1>3, <2>0, <2>1 DEF Control!Status
    <3> QED BY <1>8, <2>0, <2>1, <3>1
  <2>2. CASE f = "refused"
    <3>1. st = [consent |-> c, approver |-> ap, readiness |-> "authorization_required", action |-> "authorize_fleet_read",
                retry |-> NoFleet, sources |-> so]
      BY <1>2, <1>3, <2>0, <2>2 DEF Control!Status
    <3> QED BY <1>8, <2>0, <2>2, <3>1
  <2>3. CASE f = "waiting_for_grant"
    <3>1. st = [consent |-> c, approver |-> ap, readiness |-> f, action |-> "authorize_fleet_read",
                retry |-> NoFleet, sources |-> so]
      BY <1>2, <1>3, <2>0, <2>3 DEF Control!Status
    <3> QED BY <1>8, <2>0, <2>3, <3>1
  <2>4. CASE f = "reconnecting"
    <3>1. st = [consent |-> c, approver |-> ap, readiness |-> f, action |-> "wait", retry |-> d, sources |-> so]
      BY <1>2, <1>3, <2>0, <2>4 DEF Control!Status
    <3> QED BY <1>8, <2>0, <2>4, <3>1
  <2>5. CASE f \in {"global_disabled", "capacity_limited"}
    <3>1. st = [consent |-> c, approver |-> ap, readiness |-> f, action |-> "wait", retry |-> NoFleet, sources |-> so]
      BY <1>2, <1>3, <2>0, <2>5 DEF Control!Status
    <3> QED BY <1>8, <2>0, <2>5, <3>1
  <2>6. CASE f \in {"ready", "verifying", "waiting_for_fleet"}
    <3>1. st = [consent |-> c, approver |-> ap, readiness |-> f, action |-> "none", retry |-> NoFleet, sources |-> so]
      BY <1>2, <1>3, <2>0, <2>6 DEF Control!Status
    <3> QED BY <1>8, <2>0, <2>6, <3>1
  <2> QED BY <2>1, <2>2, <2>3, <2>4, <2>5, <2>6 DEF Control!Conditions
<1> QED BY <1>7, <1>9, <1>10

\* So do all that an answer may hold.
LEMMA AllPass ==
  ASSUME NEW c \in GivenConsents, Control!ValidConsent(c), NEW r, NEW a
  PROVE  /\ Control!Passes(c, r, a)
         /\ \A st \in Control!Statuses(c, r, a) : Control!ValidStatus(Control!BrowserView(st), r)
<1>1. ASSUME NEW st \in Control!Statuses(c, r, a)
      PROVE  Control!ValidStatus(st, r) /\ Control!ValidStatus(Control!BrowserView(st), r)
  <2>1. PICK f \in Control!Conditions, d \in {NoFleet, hour} : st = Control!Status(c, r, gone, a, f, d)
    BY <1>1 DEF Control!Statuses
  <2> QED BY <2>1, StatusPasses
<1> QED BY <1>1 DEF Control!Passes

\* The consent of one step.
ConsentMoves ==
  \/ given' = given
  \/ given.on /\ given' = Control!ClosedAt(hour)
  \/ \E d \in Workers : given' = Control!OpenedAt(hour, d)
\* What the consent leaves true of what was said before.
Onward(c, e) ==
  /\ c.gen <= e.gen
  /\ e.gen = c.gen /\ ~c.on => ~e.on
  /\ \A h \in GivenConsents : Control!After(c, h) => Control!After(e, h)
\* A consent of now: it fits the schema, and its times have come.
Stands(c) ==
  /\ c \in GivenConsents /\ Control!ValidConsent(c)
  /\ c.at # NoFleet => c.at <= hour
  /\ c.off # NoFleet => c.off <= hour

\* A consent that is closed fits its schema and follows the one it closes.
LEMMA Closed ==
  ASSUME ControlTyped, given.on, NEW c, c = Control!ClosedAt(hour)
  PROVE  /\ Stands(c) /\ Onward(given, c)
         /\ ~c.on /\ c.gen = given.gen /\ c.rev = given.rev + 1
<1>1. given \in GivenConsents /\ Control!ValidConsent(given) /\ hour \in Nat /\ (given.at # NoFleet => given.at <= hour)
  BY DEF ControlTyped
<1>2. /\ c \in GivenConsents /\ ~c.on /\ c.gen = given.gen /\ c.rev = given.rev + 1
      /\ c.off = hour /\ c.at = given.at /\ c.by = given.by
  <2>1. PICK n : n = given.rev + 1
    OBVIOUS
  <2>2. c = [given EXCEPT !.on = FALSE, !.rev = n, !.off = hour]
    BY <2>1 DEF Control!ClosedAt
  <2>3. n \in Nat /\ given \in GivenConsents /\ hour \in Times
    BY <1>1, <2>1 DEF GivenConsents, Times
  <2>4. /\ c \in GivenConsents /\ ~c.on /\ c.gen = given.gen /\ c.rev = n
        /\ c.off = hour /\ c.at = given.at /\ c.by = given.by
    BY ONLY <2>2, <2>3 DEF GivenConsents
  <2> QED BY <2>1, <2>4
<1>3. /\ given.gen \in Nat /\ given.gen # 0 /\ given.rev \in Nat /\ given.rev >= given.gen
      /\ given.by # NoFleet /\ given.at # NoFleet /\ given.at \in Nat
  BY <1>1 DEF Control!ValidConsent, Control!Absent, GivenConsents, Times
<1>4. Stands(c)
  BY <1>1, <1>2, <1>3 DEF Stands, Control!ValidConsent
<1>5. ASSUME NEW h \in GivenConsents, Control!After(given, h) PROVE Control!After(c, h)
  <2>1. h.gen \in Nat /\ h.rev \in Nat
    BY DEF GivenConsents
  <2>2. CASE given.rev = h.rev
    <3>1. given = h
      BY <1>5, <2>2 DEF Control!After
    <3> QED BY <1>2, <1>3, <2>1, <3>1 DEF Control!After
  <2>3. CASE given.rev > h.rev
    <3>1. given.gen # h.gen /\ given.gen >= h.gen
      BY <1>5, <2>3 DEF Control!After
    <3> QED BY <1>2, <1>3, <2>1, <2>3, <3>1 DEF Control!After
  <2> QED BY <1>3, <1>5, <2>1, <2>2, <2>3 DEF Control!After
<1> QED BY <1>2, <1>3, <1>4, <1>5 DEF Onward

\* A consent that is opened fits its schema and follows the one before.
LEMMA Opened ==
  ASSUME ControlTyped, NEW d \in Workers, NEW c, c = Control!OpenedAt(hour, d)
  PROVE  /\ Stands(c) /\ Onward(given, c)
         /\ c.on /\ c.gen = given.gen + 1 /\ c.rev = given.rev + 1
<1>1. given \in GivenConsents /\ Control!ValidConsent(given) /\ hour \in Nat
  BY DEF ControlTyped
<1>2. given.gen \in Nat /\ given.rev \in Nat /\ given.rev >= given.gen
  BY <1>1 DEF Control!ValidConsent, Control!Absent, GivenConsents
<1>3. c = [gen |-> given.gen + 1, rev |-> given.rev + 1, on |-> TRUE, by |-> d, at |-> hour, off |-> NoFleet]
  BY DEF Control!OpenedAt
<1>4. c \in GivenConsents
  BY <1>1, <1>2, <1>3 DEF GivenConsents, Times
<1>5. Stands(c)
  BY <1>1, <1>2, <1>3, <1>4 DEF Stands, Control!ValidConsent
<1>6. ASSUME NEW h \in GivenConsents, Control!After(given, h) PROVE Control!After(c, h)
  <2>1. h.gen \in Nat /\ h.rev \in Nat /\ given.gen >= h.gen /\ given.rev >= h.rev
    BY <1>6 DEF GivenConsents, Control!After
  <2>2. c.gen \in Nat /\ c.rev \in Nat /\ c.gen > h.gen /\ c.rev > h.rev
    BY <1>2, <1>3, <2>1
  <2>3. c.rev >= h.rev /\ c.gen >= h.gen /\ c.rev # h.rev /\ c.gen # h.gen
    BY <2>1, <2>2
  <2> QED BY ONLY <2>3 DEF Control!After
<1>7. c.on /\ c.gen = given.gen + 1 /\ c.rev = given.rev + 1
  BY <1>3
<1>8. given.gen <= c.gen /\ c.gen # given.gen
  BY <1>2, <1>7
<1> QED BY <1>5, <1>6, <1>7, <1>8 DEF Onward

\* The consent of a step stands, and what was said before stays true of it.
LEMMA ConsentOnward ==
  ASSUME ControlTyped, ConsentMoves
  PROVE  Stands(given') /\ Onward(given, given')
<1>1. Stands(given) /\ Onward(given, given)
  BY DEF ControlTyped, Stands, Onward, GivenConsents
<1> QED BY <1>1, Closed, Opened DEF ConsentMoves

\* A consent follows itself.
LEMMA SelfAfter ==
  ASSUME NEW c \in GivenConsents PROVE Control!After(c, c)
  BY DEF Control!After, GivenConsents

\* The later of two times.
LEMMA LaterOf ==
  ASSUME NEW a \in Nat, NEW b \in Nat, NEW u, u = Control!Later(a, b)
  PROVE  u \in Nat /\ a <= u /\ b <= u
  BY DEF Control!Later

\* The row of a source that ends.
LEMMA RowEnds ==
  ASSUME NEW row \in SourceRows, NEW t \in Nat, NEW e, e = Control!EndedRow(row, t)
  PROVE  /\ e \in SourceRows /\ e.state = "ended" /\ e.gen = row.gen + 1 /\ e.cgen = row.cgen
         /\ e.stopped = row.stopped /\ e.stop = row.stop /\ row.until <= e.until
<1>1. PICK u : u = Control!Later(row.until, t + Retention)
  OBVIOUS
<1>2. row.until \in Nat /\ t + Retention \in Nat
  BY DEF SourceRows
<1>3. u \in Nat /\ row.until <= u
  BY <1>1, <1>2, LaterOf
<1>4. PICK n : n = row.gen + 1
  OBVIOUS
<1>5. e = [row EXCEPT !.state = "ended", !.gen = n, !.until = u]
  BY <1>1, <1>4 DEF Control!EndedRow
<1>6. n \in Nat /\ row \in SourceRows /\ u \in Nat
  BY <1>3, <1>4 DEF SourceRows
<1>7. /\ e \in SourceRows /\ e.state = "ended" /\ e.gen = n /\ e.cgen = row.cgen
      /\ e.stopped = row.stopped /\ e.stop = row.stop /\ e.until = u
  BY ONLY <1>5, <1>6 DEF SourceRows
<1> QED BY <1>3, <1>4, <1>7

\* A row that stays, or ends, fits a consent that went onward.
LEMMA RowStays ==
  ASSUME NEW c \in GivenConsents, NEW d \in GivenConsents, Onward(c, d), NEW row \in SourceRows, RowFits(c, row)
  PROVE  RowFits(d, row)
<1>1. c.gen \in Nat /\ d.gen \in Nat /\ row.cgen \in Nat
  BY DEF GivenConsents, SourceRows
<1>2. row.stop # NoFleet => Control!After(d, row.stop.consent)
  <2>1. row.stop # NoFleet => row.stop.consent \in GivenConsents
    BY DEF SourceRows, StopReceipts
  <2> QED BY <2>1 DEF RowFits, Onward
<1> QED BY <1>1, <1>2 DEF RowFits, Onward

\* A live row that ends fits the consent.
LEMMA EndedFits ==
  ASSUME NEW c \in GivenConsents, NEW row \in SourceRows, RowFits(c, row), row.state = "live",
         NEW t \in Nat, NEW e, e = Control!EndedRow(row, t)
  PROVE  RowFits(c, e)
<1>1. ~row.stopped /\ row.gen > 0 /\ row.gen \in Nat
  BY DEF RowFits, SourceRows
<1>2. /\ e.state = "ended" /\ e.gen = row.gen + 1 /\ e.cgen = row.cgen /\ e.stopped = row.stopped /\ e.stop = row.stop
  BY RowEnds
<1> QED BY <1>1, <1>2 DEF RowFits

\* Of the receipts that are valid there is still one for each command.
LEMMA OneMore ==
  ASSUME OneOfEach, hour' = hour, NEW r, NEW t, t = hour, Control!Found(r.cmd.id, t) = {},
         Receipts' \subseteq Receipts \union {r}
  PROVE  OneOfEach'
<1>1. \A q \in Receipts : ~(q.until > hour /\ q.cmd.id = r.cmd.id)
  BY DEF Control!Found, Receipts
<1>2. ASSUME NEW x \in Receipts', NEW y \in Receipts', x.until > hour, y.until > hour, x.cmd.id = y.cmd.id PROVE x = y
  BY <1>1, <1>2 DEF OneOfEach
<1> QED BY <1>2 DEF OneOfEach

\* No receipt more leaves one for each command.
LEMMA NoMore ==
  ASSUME OneOfEach, hour' = hour, Receipts' \subseteq Receipts
  PROVE  OneOfEach'
  BY DEF OneOfEach

\* The rows of a step in which sources do no more than end.
RowsEnd == \A s \in Fleets : \/ rows'[s] = rows[s]
                             \/ rows[s].state = "live" /\ rows'[s] = Control!EndedRow(rows[s], hour)

\* To end the sources of a consent is to end live rows.
LEMMA EndedOfEnds ==
  ASSUME NEW g, rows' = Control!EndedOf(g, hour)
  PROVE  RowsEnd /\ rows' = [s \in Fleets |-> rows'[s]]
  BY DEF RowsEnd, Control!EndedOf

\* A row that stays or ends fits the consent as it goes on, and the Start that may come.
LEMMA RowEndFits ==
  ASSUME ControlInv, NEW c \in GivenConsents, Onward(given, c), NEW s \in Fleets,
         NEW x, x = rows[s] \/ (rows[s].state = "live" /\ x = Control!EndedRow(rows[s], hour))
  PROVE  /\ x \in SourceRows /\ RowFits(c, x) /\ x.stop = rows[s].stop
         /\ StartFits(x, started[s], s \in halted, hour)
<1>1. /\ given \in GivenConsents /\ hour \in Nat
      /\ rows[s] \in SourceRows /\ RowFits(given, rows[s]) /\ StartFits(rows[s], started[s], s \in halted, hour)
  BY DEF ControlInv, ControlTyped
<1>2. CASE x = rows[s]
  BY <1>1, <1>2, RowStays
<1>3. CASE rows[s].state = "live" /\ x = Control!EndedRow(rows[s], hour)
  <2>1. x \in SourceRows /\ x.state = "ended" /\ x.stop = rows[s].stop /\ rows[s].until <= x.until
    BY <1>1, <1>3, RowEnds
  <2>4. rows[s].until \in Nat /\ x.until \in Nat
    BY <1>1, <2>1 DEF SourceRows
  <2>2. RowFits(c, x)
    BY <1>1, <1>3, <2>1, EndedFits, RowStays
  <2>3. StartFits(x, started[s], s \in halted, hour)
    BY <1>1, <1>3, <2>1, <2>4 DEF StartFits
  <2> QED BY <2>1, <2>2, <2>3
<1> QED BY <1>2, <1>3

\* So do all rows of such a step.
LEMMA RowsEndFit ==
  ASSUME ControlInv, ConsentMoves, RowsEnd, rows' = [s \in Fleets |-> rows'[s]], hour' = hour,
         started' = started, halted' = halted
  PROVE  /\ rows' \in [Fleets -> SourceRows]
         /\ \A s \in Fleets : /\ RowFits(given', rows'[s]) /\ rows'[s].stop = rows[s].stop
                              /\ StartFits(rows'[s], started'[s], s \in halted', hour')
<1>1. given' \in GivenConsents /\ Onward(given, given')
  BY ConsentOnward DEF ControlInv, Stands
<1>2. ASSUME NEW s \in Fleets
      PROVE  /\ rows'[s] \in SourceRows /\ RowFits(given', rows'[s]) /\ rows'[s].stop = rows[s].stop
             /\ StartFits(rows'[s], started[s], s \in halted, hour)
  <2>1. PICK x : x = rows'[s]
    OBVIOUS
  <2>2. x = rows[s] \/ (rows[s].state = "live" /\ x = Control!EndedRow(rows[s], hour))
    BY <2>1 DEF RowsEnd
  <2> QED BY <1>1, <2>1, <2>2, RowEndFits
<1> QED BY <1>2

\* The receipts of a step are those that were and those it writes.
LEMMA StopsFrom ==
  ASSUME NEW R, \A s \in Fleets : rows'[s].stop = rows[s].stop \/ rows'[s].stop \in R \union {NoFleet},
         kept' \subseteq kept \union R
  PROVE  Receipts' \subseteq Receipts \union R
  BY DEF Receipts, Control!Stops

\* A step that touches none of this keeps the invariant.
LEMMA ControlUnmoved ==
  ASSUME ControlInv, given' = given, rows' = rows, kept' = kept, started' = started, hour' = hour, halted' = halted,
         unanswered' = unanswered
  PROVE  ControlInv'
<1>1. Receipts' = Receipts
  BY DEF Receipts, Control!Stops
<1> QED BY <1>1 DEF ControlInv, ControlTyped, OneOfEach

\* What is known of the consent: it stands, a status of it passes, and every receipt comes before it.
LEMMA GivenStands ==
  ASSUME ControlInv
  PROVE  /\ Stands(given) /\ given \in GivenConsents /\ Control!ValidConsent(given) /\ hour \in Nat
         /\ \A r, a : Control!Passes(given, r, a)
         /\ \A r \in Receipts : Control!After(given, r.consent)
<1>1. Stands(given) /\ given \in GivenConsents /\ Control!ValidConsent(given) /\ hour \in Nat
  BY DEF ControlInv, ControlTyped, Stands
<1>2. ASSUME NEW r \in Control!Stops PROVE Control!After(given, r.consent)
  <2>1. PICK s \in Fleets : r = rows[s].stop /\ r # NoFleet
    BY <1>2 DEF Control!Stops
  <2> QED BY <2>1 DEF ControlInv, RowFits
<1>3. \A r \in kept : Control!After(given, r.consent)
  BY DEF ControlInv
<1> QED BY <1>1, <1>2, <1>3, AllPass DEF Receipts

\* The answers that change nothing.
LEMMA ReadSteps ==
  ASSUME ControlInv,
         \/ \E m, a, t : Control!Replay(m, a, t)
         \/ \E q \in Requests : \E d, t : t = hour /\ Control!ReadReceipt(q, d, t)
         \/ Control!ReadView
         \/ \E d : Control!ReadStatus(d)
         \/ \E s \in Fleets : \E d, t : Control!StopAgain(s, d, t)
  PROVE  ControlInv'
<1>0. /\ \A r, a : Control!Passes(given, r, a)
      /\ \A r \in Receipts : Control!After(given, r.consent)
  BY GivenStands
<1>1. ASSUME NEW m, NEW a, NEW t, Control!Replay(m, a, t) PROVE ControlInv'
  <2>1. PICK r \in Control!Found(m.id, t) :
          Control!Answer(Control!Passes(given, rows, a) /\ Control!After(given, r.consent), given, rows, kept)
    BY <1>1 DEF Control!Replay
  <2>2. r \in Receipts
    BY DEF Control!Found, Receipts
  <2>3. Control!Passes(given, rows, a) /\ Control!After(given, r.consent)
    BY <1>0, <2>2
  <2>4. given' = given /\ rows' = rows /\ kept' = kept /\ unanswered' = unanswered
    BY <2>1, <2>3 DEF Control!Answer
  <2>5. UNCHANGED <<started, halted, hour>>
    BY <1>1 DEF Control!Replay
  <2> QED BY <2>4, <2>5, ControlUnmoved
<1>2. ASSUME NEW q \in Requests, NEW d, NEW t, t = hour, Control!ReadReceipt(q, d, t) PROVE ControlInv'
  <2>1. Control!Found(q, t) # {} /\ Control!Found(q, t) \subseteq Receipts
    BY <1>2 DEF Control!ReadReceipt, Control!Found, Receipts
  <2>2. Cardinality(Control!Found(q, t)) = 1
    <3>1. PICK r : r \in Control!Found(q, t)
      BY <2>1
    <3>2. \A x, y \in Control!Found(q, t) : x = y
      BY <1>2 DEF Control!Found, Receipts, ControlInv, OneOfEach
    <3>3. Control!Found(q, t) = {r}
      BY <3>1, <3>2
    <3> QED BY <3>3, FS_Singleton
  <2>3. /\ Control!Passes(given, rows, d) /\ Cardinality(Control!Found(q, t)) = 1
        /\ \A r \in Control!Found(q, t) : Control!After(given, r.consent)
    BY <1>0, <2>1, <2>2
  <2>4. Control!Answer(/\ Control!Passes(given, rows, d) /\ Cardinality(Control!Found(q, t)) = 1
                       /\ \A r \in Control!Found(q, t) : Control!After(given, r.consent), given, rows, kept)
    BY <1>2 DEF Control!ReadReceipt, Control!Cardinality, Cardinality
  <2>6. given' = given /\ rows' = rows /\ kept' = kept /\ unanswered' = unanswered
    BY ONLY <2>3, <2>4 DEF Control!Answer
  <2>5. UNCHANGED <<started, halted, hour>>
    BY <1>2 DEF Control!ReadReceipt
  <2> QED BY <2>5, <2>6, ControlUnmoved
<1>3. CASE Control!ReadView
  <2>1. \A st \in Control!Statuses(given, rows, NoDevice) : Control!ValidStatus(Control!BrowserView(st), rows)
    BY GivenStands, AllPass
  <2>2. given' = given /\ rows' = rows /\ kept' = kept /\ unanswered' = unanswered
    BY <1>3, <2>1 DEF Control!ReadView, Control!Answer
  <2>3. UNCHANGED <<started, halted, hour>>
    BY <1>3 DEF Control!ReadView
  <2> QED BY <2>2, <2>3, ControlUnmoved
<1>4. ASSUME NEW d, Control!ReadStatus(d) PROVE ControlInv'
  <2>1. given' = given /\ rows' = rows /\ kept' = kept /\ unanswered' = unanswered
    BY <1>0, <1>4 DEF Control!ReadStatus, Control!Answer
  <2>2. UNCHANGED <<started, halted, hour>>
    BY <1>4 DEF Control!ReadStatus
  <2> QED BY <2>1, <2>2, ControlUnmoved
<1>5. ASSUME NEW s \in Fleets, NEW d, NEW t, Control!StopAgain(s, d, t) PROVE ControlInv'
  <2>1. rows[s].stop \in Receipts
    BY <1>5 DEF Control!StopAgain, Receipts, Control!Stops
  <2>2. Control!After(given, rows[s].stop.consent) /\ Control!Passes(given, rows, d)
    BY <1>0, <2>1
  <2>3. given' = given /\ rows' = rows /\ kept' = kept /\ unanswered' = unanswered
    BY <1>5, <2>2 DEF Control!StopAgain, Control!Answer
  <2>4. UNCHANGED <<started, halted, hour>>
    BY <1>5 DEF Control!StopAgain
  <2> QED BY <2>3, <2>4, ControlUnmoved
<1> QED BY <1>1, <1>2, <1>3, <1>4, <1>5

\* A step that moves the consent, ends rows and writes receipts of the new consent keeps the invariant.
LEMMA ConsentMoved ==
  ASSUME ControlInv, ConsentMoves, RowsEnd, rows' = [s \in Fleets |-> rows'[s]],
         UNCHANGED <<started, halted, hour, unanswered>>,
         NEW R \in SUBSET AutoReceipts, kept' \subseteq kept \union R,
         \A r \in R : r.consent = given',
         OneOfEach'
  PROVE  ControlInv'
<1>1. Stands(given') /\ given' \in GivenConsents /\ Onward(given, given')
  BY ConsentOnward DEF ControlInv, Stands
<1>2. /\ rows' \in [Fleets -> SourceRows]
      /\ \A s \in Fleets : /\ RowFits(given', rows'[s])
                           /\ StartFits(rows'[s], started'[s], s \in halted', hour')
  BY RowsEndFit
<1>3. ControlTyped'
  BY <1>1, <1>2 DEF ControlInv, ControlTyped, Stands
<1>4. ASSUME NEW r \in kept' PROVE Control!After(given', r.consent)
  <2>1. CASE r \in kept
    <3>1. r.consent \in GivenConsents /\ Control!After(given, r.consent)
      BY <2>1 DEF ControlInv, ControlTyped, AutoReceipts
    <3> QED BY <1>1, <3>1 DEF Onward
  <2>2. CASE r \in R
    BY <1>1, <2>2, SelfAfter
  <2> QED BY <2>1, <2>2
<1> QED BY <1>2, <1>3, <1>4 DEF ControlInv

\* The receipt of a command fits its schema.
LEMMA CommandReceipt ==
  ASSUME NEW c \in GivenConsents, Stands(c), hour \in Nat,
         NEW m \in [id : Requests, on : BOOLEAN, intent : Nat, gen : Nat, rev : Nat],
         m.intent <= hour, m.on => hour - m.intent < IntentTTL,
         c.on = m.on, c.gen = m.gen + (IF m.on THEN 1 ELSE 0), c.rev = m.rev + 1,
         NEW r, r = [kind |-> "automatic", cmd |-> m, at |-> hour, until |-> hour + ReceiptTTL, consent |-> c]
  PROVE  r \in AutoReceipts /\ Control!ValidReceipt(r) /\ r.consent = c /\ r.cmd = m
<1>1. PICK u : u = hour + ReceiptTTL
  OBVIOUS
<1>2. u \in Nat /\ r = [kind |-> "automatic", cmd |-> m, at |-> hour, until |-> u, consent |-> c]
  BY <1>1
<1>3. /\ r \in AutoReceipts /\ r.consent = c /\ r.cmd = m /\ r.at = hour /\ r.until = u
  BY <1>2 DEF AutoReceipts
<1>4. Control!ValidTimes(r, r.cmd.on)
  BY <1>1, <1>3 DEF Control!ValidTimes, Stands
<1>5. Control!ValidReceipt(r)
  BY <1>3, <1>4 DEF Control!ValidReceipt, Stands
<1> QED BY <1>3, <1>5

\* A new command passes its answer and keeps the invariant.
LEMMA ApplyStep ==
  ASSUME ControlInv, NEW q \in Requests, NEW o \in BOOLEAN, NEW i \in Nat, NEW d, o => d \in Workers, NEW t, t = hour,
         Control!Apply(Control!Fresh(q, o, i), d, t), hour' = hour
  PROVE  ControlInv'
<1>0. /\ given \in GivenConsents /\ hour \in Nat /\ ControlTyped /\ kept \subseteq AutoReceipts
      /\ given.gen \in Nat /\ given.rev \in Nat
  BY GivenStands DEF ControlInv, ControlTyped, GivenConsents
<1>1. PICK m : m = Control!Fresh(q, o, i)
  OBVIOUS
<1>2. /\ m \in [id : Requests, on : BOOLEAN, intent : Nat, gen : Nat, rev : Nat]
      /\ m.on = o /\ m.gen = given.gen /\ m.rev = given.rev
  <2>1. m = [id |-> q, on |-> o, intent |-> i, gen |-> given.gen, rev |-> given.rev]
    BY <1>1 DEF Control!Fresh
  <2> QED BY <1>0, <2>1
<1>3. /\ Control!Found(m.id, t) = {} /\ m.intent <= t /\ (m.on => t - m.intent < IntentTTL)
      /\ UNCHANGED <<started, halted>>
  BY <1>1 DEF Control!Apply
<1>4. CASE ~m.on /\ ~given.on
  <2>1. Control!Answer(Control!Passes(given, rows, d), given, rows, kept)
    BY <1>1, <1>4 DEF Control!Apply
  <2>2. given' = given /\ rows' = rows /\ kept' = kept /\ unanswered' = unanswered
    BY <2>1, GivenStands DEF Control!Answer
  <2> QED BY <1>3, <2>2, ControlUnmoved
<1>5. CASE m.on \/ given.on
  <2>1. PICK c : c = IF m.on THEN Control!OpenedAt(t, d) ELSE Control!ClosedAt(t)
    OBVIOUS
  <2>2. PICK R : R = IF given.on THEN Control!EndedOf(given.gen, t) ELSE rows
    OBVIOUS
  <2>3. PICK r : r = [kind |-> "automatic", cmd |-> m, at |-> t, until |-> t + ReceiptTTL, consent |-> c]
    OBVIOUS
  <2>4. PICK K : K = {k \in kept : k.until > t} \union {r}
    OBVIOUS
  <2>5. Control!Answer(Control!ValidReceipt(r) /\ Control!Passes(c, R, d) /\ Control!After(c, c), c, R, K)
    BY <1>1, <1>5, <2>1, <2>2, <2>3, <2>4 DEF Control!Apply, Control!StatusAfter
  <2>6. /\ Stands(c) /\ c \in GivenConsents /\ c.on = m.on
        /\ c.gen = m.gen + (IF m.on THEN 1 ELSE 0) /\ c.rev = m.rev + 1
    <3>1. CASE m.on
      <4>1. d \in Workers /\ c = Control!OpenedAt(hour, d)
        BY <1>2, <2>1, <3>1
      <4> QED BY <1>0, <1>2, <3>1, <4>1, Opened DEF Stands
    <3>2. CASE ~m.on
      <4>1. given.on /\ c = Control!ClosedAt(hour)
        BY <1>5, <2>1, <3>2
      <4>2. Stands(c) /\ ~c.on /\ c.gen = given.gen /\ c.rev = given.rev + 1
        BY <1>0, <4>1, Closed
      <4>3. c \in GivenConsents /\ c.on = m.on
        BY <1>2, <3>2, <4>2 DEF Stands, GivenConsents
      <4>4. c.gen = m.gen + 0 /\ c.rev = m.rev + 1
        BY <1>0, <1>2, <4>2
      <4> QED BY <3>2, <4>2, <4>3, <4>4
    <3> QED BY <3>1, <3>2
  <2>7. r \in AutoReceipts /\ Control!ValidReceipt(r) /\ r.consent = c /\ r.cmd = m
    BY <1>0, <1>2, <1>3, <2>3, <2>6, CommandReceipt
  <2>8. Control!Passes(c, R, d) /\ Control!After(c, c)
    BY <2>6, AllPass, SelfAfter DEF Stands
  <2>9. given' = c /\ rows' = R /\ kept' = K /\ unanswered' = unanswered
    BY ONLY <2>5, <2>7, <2>8 DEF Control!Answer
  <2>10. ConsentMoves
    <3>1. CASE m.on
      BY <1>2, <2>1, <2>9, <3>1 DEF ConsentMoves
    <3>2. CASE ~m.on
      BY <1>5, <2>1, <2>9, <3>2 DEF ConsentMoves
    <3> QED BY <3>1, <3>2
  <2>11. RowsEnd /\ rows' = [s \in Fleets |-> rows'[s]]
    <3>1. CASE given.on
      BY <2>2, <2>9, <3>1, EndedOfEnds
    <3>2. CASE ~given.on
      BY <1>0, <2>2, <2>9, <3>2 DEF RowsEnd, ControlTyped
    <3> QED BY <3>1, <3>2
  <2>12. kept' \subseteq kept \union {r}
    BY <2>4, <2>9
  <2>13. OneOfEach'
    <3>1. \A s \in Fleets : rows'[s].stop = rows[s].stop
      BY <1>0, <1>3, <2>10, <2>11, RowsEndFit
    <3>2. Receipts' \subseteq Receipts \union {r}
      BY <2>12, <3>1, StopsFrom
    <3>3. OneOfEach /\ Control!Found(r.cmd.id, t) = {}
      BY <1>3, <2>7 DEF ControlInv
    <3> QED BY <3>2, <3>3, OneMore
  <2>14. {r} \in SUBSET AutoReceipts /\ \A x \in {r} : x.consent = given'
    BY <2>7, <2>9
  <2>15. UNCHANGED <<started, halted, hour, unanswered>>
    BY <1>3, <2>9
  <2> QED BY <2>10, <2>11, <2>12, <2>13, <2>14, <2>15, ConsentMoved
<1> QED BY <1>2, <1>4, <1>5

\* So does the revocation of a device.
LEMMA RevokeStep ==
  ASSUME ControlInv, NEW d \in Workers, NEW t, t = hour, Control!Revoke(d, t), hour' = hour
  PROVE  ControlInv'
<1>1. CASE given.on /\ given.by = d
  <2>1. given' = Control!ClosedAt(hour) /\ rows' = Control!EndedOf(given.gen, hour)
        /\ kept' = kept /\ UNCHANGED <<started, halted, hour, unanswered>>
    BY <1>1 DEF Control!Revoke
  <2>2. ConsentMoves /\ RowsEnd /\ rows' = [s \in Fleets |-> rows'[s]]
    BY <1>1, <2>1, EndedOfEnds DEF ConsentMoves
  <2>3. OneOfEach'
    <3>1. \A s \in Fleets : rows'[s].stop = rows[s].stop
      BY <2>1, <2>2, RowsEndFit
    <3>2. Receipts' \subseteq Receipts \union {}
      BY <2>1, <3>1, StopsFrom
    <3> QED BY <3>2, NoMore DEF ControlInv
  <2>4. {} \in SUBSET AutoReceipts /\ kept' \subseteq kept \union {}
    BY <2>1
  <2> QED BY <2>1, <2>2, <2>3, <2>4, ConsentMoved
<1>2. CASE ~(given.on /\ given.by = d)
  <2>1. given' = given /\ rows' = rows /\ kept' = kept /\ UNCHANGED <<started, halted, hour, unanswered>>
    BY <1>2 DEF Control!Revoke
  <2> QED BY <2>1, ControlUnmoved
<1> QED BY <1>1, <1>2

\* A step that moves one source, and neither the consent nor a receipt, keeps the invariant.
LEMMA SourceMoved ==
  ASSUME ControlInv, NEW s \in Fleets, NEW row \in SourceRows, rows' = [rows EXCEPT ![s] = row],
         UNCHANGED <<given, kept, hour, halted, unanswered>>,
         started' \in [Fleets -> Nat \union {NoChar, NoFleet}], started'[s] \in Nat => started'[s] <= hour,
         \A z \in Fleets : z # s => started'[z] = started[z],
         RowFits(given, row), row.stop \in {NoFleet, rows[s].stop},
         StartFits(row, started'[s], s \in halted, hour)
  PROVE  ControlInv'
<1>0. rows \in [Fleets -> SourceRows]
  BY DEF ControlInv, ControlTyped
<1>1. rows' \in [Fleets -> SourceRows] /\ rows'[s] = row /\ \A z \in Fleets : z # s => rows'[z] = rows[z]
  BY <1>0
<1>2. ControlTyped'
  <2>1. \A z \in Fleets : started'[z] \in Nat => started'[z] <= hour'
    BY DEF ControlInv, ControlTyped
  <2> QED BY <1>1, <2>1 DEF ControlInv, ControlTyped
<1>3. ASSUME NEW z \in Fleets PROVE RowFits(given', rows'[z]) /\ StartFits(rows'[z], started'[z], z \in halted', hour')
  <2>1. CASE z = s
    BY <1>1, <2>1
  <2>2. CASE z # s
    <3>1. RowFits(given, rows[z]) /\ StartFits(rows[z], started[z], z \in halted, hour)
      BY DEF ControlInv
    <3>2. rows'[z] = rows[z] /\ started'[z] = started[z] /\ given' = given /\ halted' = halted /\ hour' = hour
      BY <1>1, <2>2
    <3> QED BY <3>1, <3>2
  <2> QED BY <2>1, <2>2
<1>4. OneOfEach'
  <2>1. \A z \in Fleets : rows'[z].stop = rows[z].stop \/ rows'[z].stop \in {} \union {NoFleet}
    BY <1>1
  <2>2. Receipts' \subseteq Receipts \union {}
    BY <2>1, StopsFrom
  <2> QED BY <2>2, NoMore DEF ControlInv
<1>5. \A r \in kept' : Control!After(given', r.consent)
  BY DEF ControlInv
<1> QED BY <1>2, <1>3, <1>4, <1>5 DEF ControlInv

\* Sources that are decided on, start, arrive, end or are purged keep the invariant; a Start after a Stop is too old.
LEMMA SourceSteps ==
  ASSUME ControlInv, NEW s \in Fleets, hour' = hour,
         Control!Decide(s) \/ Control!Arrive(s) \/ Control!Ends(s) \/ Control!Purge(s)
           \/ \E t : t = hour /\ Control!Start(s, t)
  PROVE  ControlInv'
<1>0. /\ rows \in [Fleets -> SourceRows] /\ hour \in Nat /\ given \in GivenConsents /\ given.gen \in Nat
      /\ started \in [Fleets -> Nat \union {NoChar, NoFleet}] /\ (started[s] \in Nat => started[s] <= hour)
      /\ rows[s] \in SourceRows /\ RowFits(given, rows[s]) /\ rows[s].until \in Nat
      /\ StartFits(rows[s], started[s], s \in halted, hour)
  BY DEF ControlInv, ControlTyped, GivenConsents, SourceRows
<1>1. CASE Control!Decide(s)
  <2>1. /\ UNCHANGED <<given, kept, hour, halted, unanswered>> /\ started' = [started EXCEPT ![s] = hour]
        /\ rows' = [rows EXCEPT ![s] = rows[s]] /\ rows[s].state = "none" /\ started[s] = NoFleet
    BY <1>0, <1>1 DEF Control!Decide
  <2>2. StartFits(rows[s], hour, s \in halted, hour)
    BY <1>0, <2>1 DEF StartFits
  <2>3. /\ started' \in [Fleets -> Nat \union {NoChar, NoFleet}] /\ started'[s] = hour /\ hour <= hour
        /\ \A z \in Fleets : z # s => started'[z] = started[z]
    BY <1>0, <2>1
  <2> QED BY <1>0, <2>1, <2>2, <2>3, SourceMoved
<1>2. CASE Control!Arrive(s)
  <2>1. PICK u : u = hour + IntentTTL + Retention
    OBVIOUS
  <2>2. u \in Nat
    BY <1>0, <2>1
  <2>3. PICK row : row = [Control!NoRow EXCEPT !.state = "live", !.gen = 1, !.cgen = given.gen,
                                               !.until = hour + IntentTTL + Retention]
    OBVIOUS
  <2>9. row = [state |-> "live", cgen |-> given.gen, gen |-> 1, stopped |-> FALSE, until |-> u, stop |-> NoFleet]
    BY <2>1, <2>3 DEF Control!NoRow
  <2>4. /\ UNCHANGED <<given, kept, hour, halted, unanswered>> /\ started' = [started EXCEPT ![s] = NoChar]
        /\ rows' = [rows EXCEPT ![s] = row] /\ rows[s].state = "none" /\ started[s] = NoFleet
    BY <1>2, <2>3 DEF Control!Arrive
  <2>5. /\ row \in SourceRows /\ row.state = "live" /\ row.gen = 1 /\ row.cgen = given.gen
        /\ ~row.stopped /\ row.stop = NoFleet
    <3>1. given.gen \in Nat
      BY <1>0
    <3> QED BY ONLY <2>2, <2>9, <3>1 DEF SourceRows
  <2>6. RowFits(given, row)
    BY <1>0, <2>5 DEF RowFits
  <2>7. StartFits(row, NoChar, s \in halted, hour)
    BY <1>0, <2>4, <2>5 DEF StartFits
  <2>8. /\ started' \in [Fleets -> Nat \union {NoChar, NoFleet}] /\ started'[s] = NoChar /\ NoChar \notin Nat
        /\ \A z \in Fleets : z # s => started'[z] = started[z]
    BY <1>0, <2>4
  <2> QED BY <2>4, <2>5, <2>6, <2>7, <2>8, SourceMoved
<1>3. CASE Control!Ends(s)
  <2>1. PICK row : row = Control!EndedRow(rows[s], hour)
    OBVIOUS
  <2>2. /\ UNCHANGED <<given, kept, started, hour, halted, unanswered>> /\ rows' = [rows EXCEPT ![s] = row]
        /\ rows[s].state = "live"
    BY <1>3, <2>1 DEF Control!Ends
  <2>3. /\ row \in SourceRows /\ row.state = "ended" /\ row.stop = rows[s].stop /\ rows[s].until <= row.until
        /\ row.until \in Nat
    BY <1>0, <2>1, RowEnds DEF SourceRows
  <2>4. RowFits(given, row)
    BY <1>0, <2>1, <2>2, EndedFits
  <2>5. StartFits(row, started[s], s \in halted, hour)
    BY <1>0, <2>2, <2>3 DEF StartFits
  <2> QED BY <1>0, <2>2, <2>3, <2>4, <2>5, SourceMoved
<1>4. CASE Control!Purge(s)
  <2>1. PICK row : row = [state |-> "none", cgen |-> 0, gen |-> 0, stopped |-> FALSE, until |-> 0, stop |-> NoFleet]
    OBVIOUS
  <2>2. /\ UNCHANGED <<given, kept, started, hour, halted, unanswered>> /\ rows' = [rows EXCEPT ![s] = row]
        /\ rows[s].state = "ended" /\ rows[s].until <= hour
    BY <1>4, <2>1 DEF Control!Purge, Control!NoRow
  <2>3. row \in SourceRows /\ row.state = "none" /\ row.gen = 0 /\ row.cgen = 0 /\ ~row.stopped /\ row.stop = NoFleet
    BY ONLY <2>1 DEF SourceRows
  <2>4. RowFits(given, row)
    BY <1>0, <2>3 DEF RowFits
  <2>5. StartFits(row, started[s], s \in halted, hour)
    BY <1>0, <2>2, <2>3 DEF StartFits
  <2> QED BY <1>0, <2>2, <2>3, <2>4, <2>5, SourceMoved
<1>5. ASSUME NEW t, t = hour, Control!Start(s, t) PROVE ControlInv'
  <2>0. started[s] \in Nat /\ rows[s].state = "none" /\ hour - started[s] < IntentTTL
    BY <1>0, <1>5 DEF Control!Start, Control!FreshAt
  <2>1. PICK u : u = started[s] + IntentTTL + Retention
    OBVIOUS
  <2>2. u \in Nat /\ started[s] + IntentTTL <= u
    BY <2>0, <2>1
  <2>3. PICK row : row = [Control!NoRow EXCEPT !.state = "live", !.gen = 1, !.until = started[s] + IntentTTL + Retention]
    OBVIOUS
  <2>9. row = [state |-> "live", cgen |-> 0, gen |-> 1, stopped |-> FALSE, until |-> u, stop |-> NoFleet]
    BY <2>1, <2>3 DEF Control!NoRow
  <2>4. UNCHANGED <<given, kept, started, hour, halted, unanswered>> /\ rows' = [rows EXCEPT ![s] = row]
    BY <1>5, <2>3 DEF Control!Start
  <2>5. /\ row \in SourceRows /\ row.state = "live" /\ row.gen = 1 /\ row.cgen = 0 /\ row.until = u
        /\ ~row.stopped /\ row.stop = NoFleet
    BY ONLY <2>2, <2>9 DEF SourceRows
  <2>6. RowFits(given, row)
    BY <1>0, <2>5 DEF RowFits
  <2>7. s \notin halted
    BY <1>0, <2>0 DEF StartFits
  <2>8. StartFits(row, started[s], s \in halted, hour)
    BY <2>0, <2>2, <2>5, <2>7 DEF StartFits
  <2> QED BY <1>0, <2>4, <2>5, <2>6, <2>8, SourceMoved
<1> QED BY <1>1, <1>2, <1>3, <1>4, <1>5

\* The clock keeps the invariant.
LEMMA TickStep ==
  ASSUME ControlInv, Control!Tick
  PROVE  ControlInv'
<1>1. /\ hour' = hour + 1 /\ hour \in Nat /\ UNCHANGED <<given, rows, kept, started, halted, unanswered>>
  BY DEF Control!Tick, ControlInv, ControlTyped
<1>2. Receipts' = Receipts
  BY <1>1 DEF Receipts, Control!Stops
<1>3. OneOfEach'
  <2>1. \A r \in Receipts : r.until \in Nat
    BY DEF Receipts, Control!Stops, ControlInv, ControlTyped, SourceRows, StopReceipts, AutoReceipts
  <2>2. \A r \in Receipts : r.until > hour' => r.until > hour
    BY <1>1, <2>1
  <2> QED BY <1>2, <2>2 DEF ControlInv, OneOfEach
<1>4. ControlTyped'
  <2>1. /\ given'.at # NoFleet => given'.at <= hour'
        /\ given'.off # NoFleet => given'.off <= hour'
    BY <1>1 DEF ControlInv, ControlTyped, GivenConsents, Times
  <2>2. \A s \in Fleets : started'[s] \in Nat => started'[s] <= hour'
    BY <1>1 DEF ControlInv, ControlTyped
  <2> QED BY <1>1, <2>1, <2>2 DEF ControlInv, ControlTyped
<1>5. ASSUME NEW s \in Fleets PROVE RowFits(given', rows'[s]) /\ StartFits(rows'[s], started'[s], s \in halted', hour')
  <2>1. RowFits(given, rows[s]) /\ StartFits(rows[s], started[s], s \in halted, hour)
    BY DEF ControlInv
  <2>2. StartFits(rows[s], started[s], s \in halted, hour')
    BY <1>1, <2>1 DEF StartFits
  <2> QED BY <1>1, <2>1, <2>2
<1>6. \A r \in kept' : Control!After(given', r.consent)
  BY <1>1 DEF ControlInv
<1> QED BY <1>1, <1>3, <1>4, <1>5, <1>6 DEF ControlInv

StopEffects == {"manual_only", "unknown_cancelled", "disabled_current", "current_already_off", "older_generation_only"}

\* The receipt of a Stop fits its schema.
LEMMA StopReceipt ==
  ASSUME NEW c \in GivenConsents, Stands(c), hour \in Nat,
         NEW q \in Requests, NEW s \in Fleets, NEW i \in Nat, i <= hour, hour - i < IntentTTL,
         NEW old \in SourceRows, NEW g \in Nat, NEW effect \in StopEffects,
         NEW v, v = [state |-> "ended", gen |-> g, cgen |-> old.cgen],
         Control!ValidEffect(effect, v, c),
         IF effect = "unknown_cancelled" THEN old.gen = 0 /\ old.cgen = 0 /\ g = 1
         ELSE old.gen > 0 /\ g \in {old.gen, old.gen + 1},
         NEW m, m = [id |-> q, intent |-> i, source |-> s, gen |-> old.gen, auto |-> old.cgen],
         NEW r, r = [kind |-> "source_stop", cmd |-> m, at |-> hour, until |-> hour + ReceiptTTL, consent |-> c,
                     effect |-> effect, view |-> v]
  PROVE  r \in StopReceipts /\ Control!ValidStop(r) /\ r.consent = c /\ r.cmd.id = q
<1>1. PICK u : u = hour + ReceiptTTL
  OBVIOUS
<1>2. u \in Nat /\ r = [kind |-> "source_stop", cmd |-> m, at |-> hour, until |-> u, consent |-> c,
                        effect |-> effect, view |-> v]
  BY <1>1
<1>3. /\ m \in [id : Requests, intent : Nat, source : Fleets, gen : Nat, auto : Nat]
      /\ m.intent = i /\ m.gen = old.gen /\ m.auto = old.cgen /\ m.id = q
  BY DEF SourceRows
<1>4. /\ v \in [state : {"ended"}, gen : Nat, cgen : Nat] /\ v.gen = g /\ v.cgen = old.cgen
  BY DEF SourceRows
<1>5. /\ r.consent = c /\ r.cmd = m /\ r.at = hour /\ r.until = u /\ r.effect = effect /\ r.view = v
  BY <1>2
<1>6. r \in StopReceipts
  BY ONLY <1>2, <1>3, <1>4, hour \in Nat, c \in GivenConsents, effect \in StopEffects DEF StopReceipts, StopEffects
<1>7. Control!ValidTimes(r, TRUE)
  BY <1>1, <1>3, <1>5 DEF Control!ValidTimes, Stands
<1>8. /\ Control!ValidConsent(r.consent) /\ r.cmd.auto = r.view.cgen /\ Control!ValidEffect(r.effect, r.view, r.consent)
  BY <1>3, <1>4, <1>5 DEF Stands
<1>9. IF r.effect = "unknown_cancelled" THEN r.cmd.gen = 0 /\ r.cmd.auto = 0 /\ r.view.gen = 1
      ELSE r.cmd.gen > 0 /\ r.view.gen \in {r.cmd.gen, r.cmd.gen + 1}
  BY <1>3, <1>4, <1>5
<1>10. Control!ValidStop(r)
  BY ONLY <1>7, <1>8, <1>9 DEF Control!ValidStop
<1> QED BY <1>3, <1>5, <1>6, <1>10

\* The row of a source that is stopped is kept as long as the receipt in it.
LEMMA RowKept ==
  ASSUME NEW f \in SourceRows, NEW t \in Nat, NEW e, e = Control!KeptForReceipt(f, t)
  PROVE  /\ e \in SourceRows /\ e.state = f.state /\ e.gen = f.gen /\ e.cgen = f.cgen
         /\ e.stopped = f.stopped /\ e.stop = f.stop /\ f.until <= e.until
<1>1. PICK u : u = Control!Later(f.until, t + ReceiptTTL)
  OBVIOUS
<1>2. f.until \in Nat /\ t + ReceiptTTL \in Nat
  BY DEF SourceRows
<1>3. u \in Nat /\ f.until <= u
  BY <1>1, <1>2, LaterOf
<1>4. e = [f EXCEPT !.until = u]
  BY <1>1 DEF Control!KeptForReceipt
<1>5. /\ e \in SourceRows /\ e.state = f.state /\ e.gen = f.gen /\ e.cgen = f.cgen
      /\ e.stopped = f.stopped /\ e.stop = f.stop /\ e.until = u
  BY ONLY f \in SourceRows, <1>3, <1>4 DEF SourceRows
<1> QED BY <1>3, <1>5

\* What an effect says of the source that was stopped.
LEMMA EffectIs ==
  ASSUME given \in GivenConsents, NEW old \in SourceRows, RowFits(given, old), NEW effect, effect = Control!Effect(old)
  PROVE  /\ effect \in StopEffects \ {"unknown_cancelled"}
         /\ effect = "manual_only" => old.cgen = 0
         /\ effect = "older_generation_only" => old.cgen # 0 /\ old.cgen < given.gen
         /\ effect \in {"disabled_current", "current_already_off"} => old.cgen # 0 /\ old.cgen = given.gen
         /\ effect = "disabled_current" => given.on
         /\ effect = "current_already_off" => ~given.on
<1>1. old.cgen \in Nat /\ given.gen \in Nat /\ old.cgen <= given.gen
  BY DEF GivenConsents, SourceRows, RowFits
<1>2. effect = IF old.cgen = 0 THEN "manual_only" ELSE IF old.cgen < given.gen THEN "older_generation_only"
               ELSE IF given.on THEN "disabled_current" ELSE "current_already_off"
  BY DEF Control!Effect
<1> QED BY ONLY <1>1, <1>2 DEF StopEffects

\* A source that was stopped already is stopped again to the same effect.
LEMMA StoppedAlready ==
  ASSUME ControlInv, NEW s \in Fleets, rows[s].stopped, NEW effect, effect = Control!Effect(rows[s])
  PROVE  effect # "disabled_current" /\ Control!ValidEffect(effect, rows[s], given) /\ rows[s].state = "ended"
<1>1. given \in GivenConsents /\ rows[s] \in SourceRows /\ RowFits(given, rows[s])
  BY DEF ControlInv, ControlTyped
<1>2. rows[s].state = "ended" /\ (rows[s].cgen = given.gen => rows[s].cgen = 0 \/ ~given.on)
  BY <1>1 DEF RowFits
<1> QED BY <1>1, <1>2, EffectIs DEF Control!ValidEffect, StopEffects

\* A Stop of a source that is over keeps the invariant.
LEMMA HaltedMoved ==
  ASSUME ControlInv, NEW s \in Fleets, rows[s].state = "ended",
         UNCHANGED <<given, rows, kept, started, hour, unanswered>>, halted' = halted \union {s}
  PROVE  ControlInv'
<1>1. Receipts' = Receipts
  BY DEF Receipts, Control!Stops
<1>2. ASSUME NEW z \in Fleets PROVE StartFits(rows[z], started[z], z \in halted', hour)
  <2>1. StartFits(rows[z], started[z], z \in halted, hour)
    BY DEF ControlInv
  <2>2. CASE z = s
    BY <2>1, <2>2 DEF StartFits
  <2>3. CASE z # s
    BY <2>1, <2>3
  <2> QED BY <2>2, <2>3
<1>3. halted' \subseteq Fleets
  BY DEF ControlInv, ControlTyped
<1> QED BY <1>1, <1>2, <1>3 DEF ControlInv, ControlTyped, OneOfEach

\* A Stop passes its answer and keeps the invariant: its row outlives the Start that may come.
LEMMA StopStep ==
  ASSUME ControlInv, NEW q \in Requests, NEW s \in Fleets, NEW i \in Nat, NEW d, NEW t, t = hour,
         Control!Stop(q, s, i, d, t), hour' = hour
  PROVE  ControlInv'
<1> DEFINE Old == rows[s]
           Unknown == Old.state = "none"
           Row == IF Unknown THEN [Control!NoRow EXCEPT !.state = "ended", !.gen = 1, !.until = t + IntentTTL + Retention]
                  ELSE Old
           Msg == [id |-> q, intent |-> i, source |-> s, gen |-> Old.gen, auto |-> Old.cgen]
           Eff == IF Unknown THEN "unknown_cancelled" ELSE Control!Effect(Old)
           Closes == Eff = "disabled_current"
           Con == IF Closes THEN Control!ClosedAt(t) ELSE given
           Rws == IF Closes THEN Control!EndedOf(given.gen, t) ELSE rows
           End == IF Row.state = "live" THEN Control!EndedRow(Row, t) ELSE Row
           Rec == [kind |-> "source_stop", cmd |-> Msg, at |-> t, until |-> t + ReceiptTTL, consent |-> Con,
                   effect |-> Eff, view |-> [state |-> "ended", gen |-> End.gen, cgen |-> End.cgen]]
           New == Control!KeptForReceipt([End EXCEPT !.stopped = TRUE, !.stop = Rec], t)
<1>14. /\ Old.stopped => Control!Answer(/\ ~Closes /\ Control!ValidEffect(Eff, Old, given)
                                        /\ Control!Passes(given, rows, d), given, rows, kept)
       /\ ~Old.stopped =>
            Control!Answer(Control!ValidStop(Rec) /\ Control!Passes(Con, Rws, d) /\ Control!After(Con, Con), Con,
                           [Rws EXCEPT ![s] = New], kept)
  BY DEF Control!Stop, Control!StatusAfter
<1>15. PICK old : old = Old
  OBVIOUS
<1>16. PICK row : row = Row
  OBVIOUS
<1>17. PICK m : m = Msg
  OBVIOUS
<1>18. PICK effect : effect = Eff
  OBVIOUS
<1>19. PICK c : c = Con
  OBVIOUS
<1>20. PICK R : R = Rws
  OBVIOUS
<1>21. PICK ended : ended = End
  OBVIOUS
<1>22. PICK r : r = Rec
  OBVIOUS
<1>23. PICK e : e = New
  OBVIOUS
<1>24. PICK v : v = [state |-> "ended", gen |-> ended.gen, cgen |-> ended.cgen]
  OBVIOUS
<1>25. old = rows[s] /\ m = [id |-> q, intent |-> i, source |-> s, gen |-> old.gen, auto |-> old.cgen]
  BY <1>15, <1>17
<1>26. row = IF old.state = "none" THEN [Control!NoRow EXCEPT !.state = "ended", !.gen = 1,
                                                              !.until = t + IntentTTL + Retention] ELSE old
  BY <1>15, <1>16
<1>27. effect = IF old.state = "none" THEN "unknown_cancelled" ELSE Control!Effect(old)
  BY <1>15, <1>18
<1>28. /\ c = IF effect = "disabled_current" THEN Control!ClosedAt(t) ELSE given
       /\ R = IF effect = "disabled_current" THEN Control!EndedOf(given.gen, t) ELSE rows
  BY <1>18, <1>19, <1>20
<1>29. ended = IF row.state = "live" THEN Control!EndedRow(row, t) ELSE row
  BY <1>16, <1>21
<1>30. /\ r = [kind |-> "source_stop", cmd |-> m, at |-> t, until |-> t + ReceiptTTL, consent |-> c,
               effect |-> effect, view |-> v]
       /\ e = Control!KeptForReceipt([ended EXCEPT !.stopped = TRUE, !.stop = r], t)
  BY <1>17, <1>18, <1>19, <1>21, <1>22, <1>23, <1>24
<1>31. /\ old.stopped => Control!Answer(/\ ~(effect = "disabled_current") /\ Control!ValidEffect(effect, old, given)
                                        /\ Control!Passes(given, rows, d), given, rows, kept)
       /\ ~old.stopped =>
            Control!Answer(Control!ValidStop(r) /\ Control!Passes(c, R, d) /\ Control!After(c, c), c,
                           [R EXCEPT ![s] = e], kept)
  BY <1>14, <1>15, <1>18, <1>19, <1>20, <1>22, <1>23
<1> HIDE DEF Old, Unknown, Row, Msg, Eff, Closes, Con, Rws, End, Rec, New
<1>32. /\ Control!Found(q, t) = {} /\ i <= hour /\ hour - i < IntentTTL
       /\ started[s] # NoFleet \/ old.state # "none"
       /\ UNCHANGED <<gone, started, hour>>
       /\ halted' = IF unanswered' THEN halted ELSE halted \union {s}
  BY <1>25 DEF Control!Stop, Control!FreshAt
<1>33. /\ ControlTyped /\ rows \in [Fleets -> SourceRows] /\ hour \in Nat
       /\ given \in GivenConsents /\ given.gen \in Nat /\ Stands(given) /\ OneOfEach
  BY GivenStands DEF ControlInv, ControlTyped, GivenConsents
<1>34. /\ old \in SourceRows /\ RowFits(given, old) /\ StartFits(old, started[s], s \in halted, hour)
       /\ old.gen \in Nat /\ old.cgen \in Nat /\ old.until \in Nat
       /\ (started[s] \in Nat => started[s] <= hour)
  BY <1>25, <1>33 DEF ControlInv, ControlTyped, SourceRows
<1>35. CASE old.stopped
  <2>1. effect = Control!Effect(old) /\ old.state = "ended"
    BY <1>27, <1>34, <1>35 DEF RowFits
  <2>2. effect # "disabled_current" /\ Control!ValidEffect(effect, old, given)
    BY <1>25, <1>35, <2>1, StoppedAlready
  <2>3. Control!Passes(given, rows, d)
    BY GivenStands
  <2>4. given' = given /\ rows' = rows /\ kept' = kept /\ unanswered' = unanswered
    BY <1>31, <1>35, <2>2, <2>3 DEF Control!Answer
  <2>5. halted' = halted \union {s}
    BY <1>32, <2>4 DEF ControlInv
  <2> QED BY <1>25, <1>32, <2>1, <2>4, <2>5, HaltedMoved
<1>36. CASE ~old.stopped
  <2>1. /\ effect \in StopEffects
        /\ old.state = "none" => effect = "unknown_cancelled" /\ old.gen = 0 /\ old.cgen = 0
        /\ old.state # "none" => effect # "unknown_cancelled" /\ old.gen > 0
    BY <1>27, <1>33, <1>34, EffectIs DEF RowFits, StopEffects
  <2>2. /\ effect = "manual_only" => old.cgen = 0
        /\ effect = "older_generation_only" => old.cgen # 0 /\ old.cgen < given.gen
        /\ effect \in {"disabled_current", "current_already_off"} => old.cgen # 0 /\ old.cgen = given.gen
        /\ effect = "disabled_current" => given.on
        /\ effect = "current_already_off" => ~given.on
    BY <1>27, <1>33, <1>34, EffectIs
  \* The consent.
  <2>3. /\ Stands(c) /\ Onward(given, c) /\ c \in GivenConsents /\ c.gen = given.gen
        /\ effect = "disabled_current" => ~c.on
        /\ effect # "disabled_current" => c = given
    <3>1. CASE effect = "disabled_current"
      <4>1. c = Control!ClosedAt(hour) /\ given.on
        BY <1>28, <2>2, <3>1
      <4> QED BY <1>33, <3>1, <4>1, Closed DEF Stands
    <3>2. CASE effect # "disabled_current"
      BY <1>28, <1>33, <3>2 DEF Onward
    <3> QED BY <3>1, <3>2
  \* The row of the source, as it ends.
  <2>4. /\ ended \in SourceRows /\ ended.state = "ended" /\ ended.cgen = old.cgen /\ ended.gen > 0
        /\ effect = "unknown_cancelled" => ended.gen = 1
        /\ effect # "unknown_cancelled" => ended.gen \in {old.gen, old.gen + 1}
        /\ started[s] \in Nat => started[s] + IntentTTL <= ended.until
        /\ started[s] # NoFleet
    <3>1. CASE old.state = "none"
      <4>1. PICK u : u = hour + IntentTTL + Retention
        OBVIOUS
      <4>2. row = [state |-> "ended", cgen |-> 0, gen |-> 1, stopped |-> FALSE, until |-> u, stop |-> NoFleet] /\ u \in Nat
        <5>1. row = [Control!NoRow EXCEPT !.state = "ended", !.gen = 1, !.until = u]
          BY <1>26, <3>1, <4>1
        <5>2. u \in Nat
          BY <1>33, <4>1
        <5> QED BY ONLY <5>1, <5>2 DEF Control!NoRow
      <4>3. row \in SourceRows /\ row.state = "ended" /\ row.cgen = 0 /\ row.gen = 1 /\ row.until = u
        BY ONLY <4>2 DEF SourceRows
      <4>4. ended = row
        BY <1>29, <4>3
      <4>5. started[s] \in Nat => started[s] + IntentTTL <= u
        BY <1>33, <1>34, <4>1
      <4> QED BY <1>32, <2>1, <3>1, <4>3, <4>4, <4>5
    <3>2. CASE old.state = "live"
      <4>1. row = old /\ ended = Control!EndedRow(old, hour)
        BY <1>26, <1>29, <3>2
      <4>2. /\ ended \in SourceRows /\ ended.state = "ended" /\ ended.gen = old.gen + 1 /\ ended.cgen = old.cgen
            /\ old.until <= ended.until
        <5>1. old \in SourceRows /\ hour \in Nat /\ ended = Control!EndedRow(old, hour)
          BY <1>33, <1>34, <4>1
        <5> QED BY ONLY <5>1, RowEnds
      <4>3. ended.until \in Nat
        BY <4>2 DEF SourceRows
      <4>4. started[s] # NoFleet /\ (started[s] \in Nat => started[s] + IntentTTL <= old.until)
        BY <1>34, <3>2 DEF StartFits
      <4>5. started[s] \in Nat => started[s] + IntentTTL <= ended.until
        BY <1>34, <4>2, <4>3, <4>4
      <4> QED BY <1>34, <2>1, <3>2, <4>2, <4>4, <4>5
    <3>3. CASE old.state = "ended"
      <4>1. row = old /\ ended = old
        BY <1>26, <1>29, <3>3
      <4>2. started[s] # NoFleet /\ (started[s] \in Nat => started[s] + IntentTTL <= old.until)
        BY <1>34, <3>3 DEF StartFits
      <4> QED BY <1>34, <2>1, <3>3, <4>1, <4>2
    <3> QED BY <1>34, <3>1, <3>2, <3>3 DEF SourceRows
  <2>5. PICK g : g = ended.gen
    OBVIOUS
  <2>6. g \in Nat /\ v = [state |-> "ended", gen |-> g, cgen |-> old.cgen]
    BY <1>24, <2>4, <2>5 DEF SourceRows
  <2>7. Control!ValidEffect(effect, v, c)
    <3>1. v.state = "ended" /\ v.cgen = old.cgen
      BY <2>6
    <3> QED BY <2>1, <2>2, <2>3, <3>1 DEF Control!ValidEffect, StopEffects
  <2>8. IF effect = "unknown_cancelled" THEN old.gen = 0 /\ old.cgen = 0 /\ g = 1
        ELSE old.gen > 0 /\ g \in {old.gen, old.gen + 1}
    BY <2>1, <2>4, <2>5
  <2>9. r \in StopReceipts /\ Control!ValidStop(r) /\ r.consent = c /\ r.cmd.id = q
    BY <1>25, <1>30, <1>32, <1>33, <1>34, <2>1, <2>3, <2>6, <2>7, <2>8, StopReceipt
  <2>10. Control!Passes(c, R, d) /\ Control!After(c, c)
    BY <2>3, AllPass, SelfAfter DEF Stands
  <2>11. given' = c /\ rows' = [R EXCEPT ![s] = e] /\ kept' = kept /\ unanswered' = unanswered
    BY <1>31, <1>36, <2>9, <2>10 DEF Control!Answer
  <2>12. halted' = halted \union {s}
    BY <1>32, <2>11 DEF ControlInv
  \* The row as it is kept.
  <2>13. /\ e \in SourceRows /\ e.state = "ended" /\ e.gen > 0 /\ e.cgen = old.cgen /\ e.stopped /\ e.stop = r
         /\ ended.until <= e.until /\ ended.until \in Nat /\ e.until \in Nat
    <3>1. /\ e \in SourceRows /\ e.state = ended.state /\ e.gen = ended.gen /\ e.cgen = ended.cgen
          /\ e.stopped /\ e.stop = r /\ ended.until <= e.until
      <4>3. PICK f : f = [ended EXCEPT !.stopped = TRUE, !.stop = r]
        OBVIOUS
      <4>1. e = Control!KeptForReceipt(f, hour)
        BY <1>30, <4>3
      <4>2. ended \in SourceRows /\ hour \in Nat /\ r \in StopReceipts
        BY <1>33, <2>4, <2>9
      <4>4. /\ f \in SourceRows /\ f.state = ended.state /\ f.gen = ended.gen /\ f.cgen = ended.cgen
            /\ f.stopped /\ f.stop = r /\ f.until = ended.until
        BY ONLY <4>2, <4>3 DEF SourceRows
      <4>6. PICK then : then = hour
        OBVIOUS
      <4>7. f \in SourceRows /\ then \in Nat /\ e = Control!KeptForReceipt(f, then)
        BY ONLY <4>1, <4>2, <4>4, <4>6
      <4>5. /\ e \in SourceRows /\ e.state = f.state /\ e.gen = f.gen /\ e.cgen = f.cgen
            /\ e.stopped = f.stopped /\ e.stop = f.stop /\ f.until <= e.until
        BY ONLY <4>7, RowKept
      <4> QED BY <4>4, <4>5
    <3>2. ended.until \in Nat /\ e.until \in Nat
      BY <2>4, <3>1 DEF SourceRows
    <3> QED BY <2>4, <3>1, <3>2
  <2>14. RowFits(c, e)
    <3>1. e.cgen <= c.gen /\ (e.cgen = c.gen => e.cgen = 0 \/ ~c.on)
      BY <1>33, <1>34, <2>1, <2>2, <2>3, <2>13 DEF RowFits, StopEffects
    <3> QED BY <2>9, <2>10, <2>13, <3>1 DEF RowFits
  <2>15. StartFits(e, started[s], s \in halted', hour)
    <3>1. started[s] \in Nat => started[s] + IntentTTL <= e.until
      BY <2>4, <2>13
    <3> QED BY <2>4, <2>13, <3>1 DEF StartFits
  \* The other rows.
  <2>16. ASSUME NEW z \in Fleets
         PROVE  R[z] = rows[z] \/ (rows[z].state = "live" /\ R[z] = Control!EndedRow(rows[z], hour))
    BY <1>28 DEF Control!EndedOf
  <2>17. R = [z \in Fleets |-> R[z]]
    BY <1>28, <1>33 DEF Control!EndedOf
  <2>18. rows' = [z \in Fleets |-> IF z = s THEN e ELSE R[z]]
    BY <2>11, <2>17
  <2>19. ASSUME NEW z \in Fleets
         PROVE  /\ rows'[z] \in SourceRows /\ RowFits(c, rows'[z]) /\ StartFits(rows'[z], started[z], z \in halted', hour)
                /\ rows'[z].stop = rows[z].stop \/ rows'[z].stop \in {r} \union {NoFleet}
    <3>1. CASE z = s
      <4>1. rows'[z] = e
        BY <2>18, <3>1
      <4> QED BY <2>13, <2>14, <2>15, <3>1, <4>1
    <3>2. CASE z # s
      <4>1. PICK x : x = rows'[z]
        OBVIOUS
      <4>2. x = R[z]
        BY <2>18, <3>2, <4>1
      <4>3. /\ x \in SourceRows /\ RowFits(c, x) /\ x.stop = rows[z].stop
            /\ StartFits(x, started[z], z \in halted, hour)
        BY <2>3, <2>16, <4>2, RowEndFits
      <4>4. (z \in halted) = (z \in halted')
        BY <2>12, <3>2
      <4> QED BY <4>1, <4>3, <4>4
    <3> QED BY <3>1, <3>2
  <2>20. OneOfEach'
    <3>1. Receipts' \subseteq Receipts \union {r}
      BY <2>11, <2>19, StopsFrom
    <3> QED BY <1>32, <1>33, <2>9, <3>1, OneMore
  <2>21. ControlTyped'
    <3>1. rows' \in [Fleets -> SourceRows]
      BY <2>18, <2>19
    <3>2. halted' \subseteq Fleets
      BY <2>12 DEF ControlInv, ControlTyped
    <3> QED BY <1>32, <2>3, <2>11, <3>1, <3>2 DEF ControlInv, ControlTyped, Stands
  <2>22. ASSUME NEW k \in kept' PROVE Control!After(given', k.consent)
    <3>1. k.consent \in GivenConsents /\ Control!After(given, k.consent)
      BY <2>11 DEF ControlInv, ControlTyped, AutoReceipts
    <3> QED BY <2>3, <2>11, <3>1 DEF Onward
  <2>23. \A z \in Fleets : RowFits(given', rows'[z]) /\ StartFits(rows'[z], started'[z], z \in halted', hour')
    BY <1>32, <2>11, <2>19
  <2>24. ~unanswered'
    BY <2>11 DEF ControlInv
  <2> QED BY <2>20, <2>21, <2>22, <2>23, <2>24 DEF ControlInv
<1> QED BY <1>35, <1>36

\* The invariant of control holds at first.
LEMMA ControlInvInit == Control!Init => ControlInv
<1> SUFFICES ASSUME Control!Init PROVE ControlInv
  OBVIOUS
<1>1. /\ given = [gen |-> 0, rev |-> 0, on |-> FALSE, by |-> NoFleet, at |-> NoFleet, off |-> NoFleet]
      /\ rows = [s \in Fleets |-> [state |-> "none", cgen |-> 0, gen |-> 0, stopped |-> FALSE, until |-> 0,
                                   stop |-> NoFleet]]
      /\ kept = {} /\ halted = {} /\ started = [s \in Fleets |-> NoFleet] /\ hour = 0 /\ unanswered = FALSE
  BY DEF Control!Init, Control!Absent, Control!NoRow
<1>2. given \in GivenConsents
  BY <1>1 DEF GivenConsents, Times
<1>3. Control!ValidConsent(given) /\ given.gen = 0
  BY <1>1 DEF Control!ValidConsent, Control!Absent
<1>4. rows \in [Fleets -> SourceRows]
  BY <1>1 DEF SourceRows
<1>5. ControlTyped
  BY <1>1, <1>2, <1>3, <1>4 DEF ControlTyped
<1>6. \A s \in Fleets : RowFits(given, rows[s]) /\ StartFits(rows[s], started[s], s \in halted, hour)
  BY <1>1, <1>3 DEF RowFits, StartFits
<1>7. Receipts = {}
  BY <1>1 DEF Receipts, Control!Stops
<1> QED BY <1>1, <1>5, <1>6, <1>7 DEF ControlInv, OneOfEach

\* A step of control keeps its invariant.
LEMMA ControlInvStep == ControlInv /\ [Control!Next]_controlVars => ControlInv'
<1> SUFFICES ASSUME ControlInv, [Control!Next]_controlVars PROVE ControlInv'
  OBVIOUS
<1>0. hour \in Nat /\ Control!Live \subseteq Workers /\ 0..hour \subseteq Nat
  BY GivenStands DEF Control!Live
<1>1. ASSUME NEW q \in Requests, NEW i \in 0..hour, NEW t \in Control!Clock, NEW d, NEW o \in BOOLEAN, o => d \in Workers,
             Control!Apply(Control!Fresh(q, o, i), d, t)
      PROVE  ControlInv'
  <2>1. t = hour /\ i \in Nat
    BY <1>0, <1>1 DEF Control!Clock
  <2>2. hour' = hour
    BY <1>1 DEF Control!Apply
  <2> QED BY <1>1, <2>1, <2>2, ApplyStep
<1>2. ASSUME NEW q \in Requests, NEW i \in 0..hour, NEW t \in Control!Clock,
             \/ \E d \in Control!Live, o \in BOOLEAN : (o => given.gen < MaxGiven) /\ Control!ControlAutomatic(q, o, i, d, t)
             \/ Control!TurnOff(q, i, t)
      PROVE  ControlInv'
  <2>1. ASSUME NEW d \in Control!Live, NEW o \in BOOLEAN, Control!ControlAutomatic(q, o, i, d, t) PROVE ControlInv'
    BY <1>0, <1>1, <2>1 DEF Control!ControlAutomatic
  <2>2. CASE Control!TurnOff(q, i, t)
    BY <1>1, <2>2 DEF Control!TurnOff
  <2> QED BY <1>2, <2>1, <2>2
<1>3. ASSUME NEW s \in Fleets, NEW d \in Control!Live, NEW t \in Control!Clock, Control!ControlFleetSource(s, d, t)
      PROVE  ControlInv'
  <2>0. t = hour
    BY <1>3 DEF Control!Clock
  <2>1. CASE Control!Start(s, t)
    <3>1. hour' = hour
      BY <2>1 DEF Control!Start
    <3> QED BY <2>0, <2>1, <3>1, SourceSteps
  <2>2. CASE Control!StopAgain(s, d, t)
    BY <2>2, ReadSteps
  <2>3. ASSUME NEW q \in Requests, NEW i \in 0..hour, Control!Stop(q, s, i, d, t) PROVE ControlInv'
    <3>1. hour' = hour /\ i \in Nat
      BY <1>0, <2>3 DEF Control!Stop
    <3> QED BY <2>0, <2>3, <3>1, StopStep
  <2> QED BY <1>3, <2>1, <2>2, <2>3 DEF Control!ControlFleetSource
<1>4. ASSUME NEW s \in Fleets, Control!Decide(s) \/ Control!Arrive(s) \/ Control!Ends(s) \/ Control!Purge(s)
      PROVE  ControlInv'
  <2>1. hour' = hour
    BY <1>4 DEF Control!Decide, Control!Arrive, Control!Ends, Control!Purge
  <2> QED BY <1>4, <2>1, SourceSteps
<1>5. ASSUME NEW d \in Control!Live, NEW t \in Control!Clock, Control!Revoke(d, t) PROVE ControlInv'
  <2>1. t = hour /\ hour' = hour /\ d \in Workers
    BY <1>0, <1>5 DEF Control!Clock, Control!Revoke
  <2> QED BY <1>5, <2>1, RevokeStep
<1>6. ASSUME NEW q \in Requests, NEW d \in Control!Live, NEW t \in Control!Clock, Control!ReadReceipt(q, d, t)
      PROVE  ControlInv'
  <2>1. t = hour
    BY <1>6 DEF Control!Clock
  <2> QED BY <1>6, <2>1, ReadSteps
<1>7. ASSUME \/ \E r \in kept, d \in Control!Live \union {NoDevice}, t \in Control!Clock :
                  (d = NoDevice => ~r.cmd.on) /\ Control!Replay(r.cmd, d, t)
             \/ Control!ReadView
             \/ \E d \in Control!Live : Control!ReadStatus(d)
      PROVE  ControlInv'
  BY <1>7, ReadSteps
<1>8. CASE Control!Tick
  BY <1>8, TickStep
<1>9. CASE UNCHANGED controlVars
  BY <1>9, ControlUnmoved DEF controlVars
<1> QED BY <1>2, <1>3, <1>4, <1>5, <1>6, <1>7, <1>8, <1>9 DEF Control!Next

\* The invariant of control says what is wanted of it.
LEMMA ControlInvHolds == ControlInv => Control!AnswersPass /\ Control!StopIsFinal
  BY DEF ControlInv, Control!AnswersPass, Control!StopIsFinal, StartFits, ControlTyped

-----------------------------------------------------------------------------
(* The clients.                                                               *)

\* The parts share no state, and their invariants hold side by side.
ClientsInv == DevInv /\ AutoInv /\ AccessInv /\ ControlInv

\* A step of the clients is a step of each part, or leaves it alone.
LEMMA ClientsMove ==
  [MCNext]_allvars => /\ [Next]_vars /\ [Automatic!Next]_automatic
                      /\ [Access!Next]_accessVars /\ [Control!Next]_controlVars
<1>1. ASSUME [MCNext]_allvars PROVE [Next]_vars
  BY <1>1 DEF MCNext, DevicesMove, AutomaticMoves, AccessMoves, ControlMoves, allvars
<1>2. ASSUME [MCNext]_allvars PROVE [Automatic!Next]_automatic
  BY <1>2 DEF MCNext, DevicesMove, AutomaticMoves, AccessMoves, ControlMoves, allvars
<1>3. ASSUME [MCNext]_allvars PROVE [Access!Next]_accessVars
  BY <1>3 DEF MCNext, DevicesMove, AutomaticMoves, AccessMoves, ControlMoves, allvars
<1>4. ASSUME [MCNext]_allvars PROVE [Control!Next]_controlVars
  BY <1>4 DEF MCNext, DevicesMove, AutomaticMoves, AccessMoves, ControlMoves, allvars
<1> QED BY <1>1, <1>2, <1>3, <1>4

\* A step of the clients keeps the invariant of every part.
LEMMA ClientsInvStep == ClientsInv /\ [MCNext]_allvars => ClientsInv'
  BY ClientsMove, DevInvStep, AutoInvStep, AccessInvStep, ControlInvStep DEF ClientsInv

\* The invariants of all four parts hold of the clients.
THEOREM ClientsHold == MCSpec => []ClientsInv
<1>1. MCInit => ClientsInv
  BY DevInvInit, AutoInvInit, AccessInvInit, ControlInvInit DEF MCInit, ClientsInv
<1> QED BY <1>1, ClientsInvStep, PTL DEF MCSpec

\* The state of every part is well typed.
THEOREM TypeCorrect == MCSpec => [](TypeOK /\ AutoTyped /\ AccessTyped /\ ControlTyped)
<1>1. ClientsInv => TypeOK /\ AutoTyped /\ AccessTyped /\ ControlTyped
  BY DEF ClientsInv, DevInv, AutoInv, AccessInv, ControlInv
<1> QED BY <1>1, ClientsHold, PTL

\* No session stands on a pairing that was revoked, deleted or, while sharing is off, that carries a grant;
\* and no automatic source is live but under the consent, the device and the link it was made under.
THEOREM EverythingBacked == MCSpec => []AllBacked
<1>1. ClientsInv => AllBacked
  BY DEF ClientsInv, DevInv, AutoInv, AllBacked
<1> QED BY <1>1, ClientsHold, PTL

\* A recovery challenge yields one session at most and a command takes effect once at most; no answer of control
\* contradicts itself, its receipt or the consent, and a source that was stopped is not started by what comes late.
THEOREM EverythingOnce == MCSpec => []OnceEach
<1>1. ClientsInv => OnceEach
  BY ControlInvHolds
  DEF ClientsInv, DevInv, OpenIsUnspent, ChallengeSpentOnce, AutoInv, AppliedOnce, Automatic!CommandsOnce, OnceEach
<1> QED BY <1>1, ClientsHold, PTL

\* A check that says it was made saw the token the character has kept since, and a timeout hides no token that was
\* rotated and not saved.
THEOREM ChecksTrue == MCSpec => []CheckedStayed
<1>1. ClientsInv => CheckedStayed
  BY DEF ClientsInv, AccessInv, CheckHolds, CheckedStayed, Access!CheckedStayed, Access!TimeoutHidesNothing
<1> QED BY <1>1, ClientsHold, PTL

\* A key stays with the account it was registered for, a candidate EVE refused is not tried again under the same
\* link, and no check is admitted before the time its callers were told.
THEOREM DecidedStays == MCSpec => DecisionsStay
<1>1. ClientsInv /\ [MCNext]_allvars =>
        [Ready => \A s \in Sessions : session'[s] # session[s] /\ session'[s].device # NoDevice =>
           LET d == session'[s].device IN binding'[Canonical[device'[d].key]] = device'[d].owner]_vars
  BY ClientsMove, KeysStayBoundStep DEF ClientsInv
<1>2. ClientsInv /\ [MCNext]_allvars =>
        [\A c \in Chars : Automatic!Suspended(c) /\ boss'[c].epoch = boss[c].epoch =>
           cand'[c].latch /\ cand'[c].cb # "claimed"]_(Automatic!vars)
  BY ClientsMove, RefusalStaysStep DEF ClientsInv
<1>3. ClientsInv /\ [MCNext]_allvars =>
        [/\ gate' # NoFleet => promised' <= gate'
         /\ \A c \in Workers : Access!At(c, "claim") /\ check'[c].stage = "refresh" => promised <= minute]_(Access!vars)
  BY ClientsMove, AccessInvStep DEF ClientsInv, GateMoves
<1> QED BY <1>1, <1>2, <1>3, ClientsHold, PTL
        DEF MCSpec, DecisionsStay, KeysStayBound, Automatic!RefusalStays, Access!ToldHolds
=============================================================================
