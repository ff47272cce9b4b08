-------------------------- MODULE ServicesProofs --------------------------
(***************************************************************************)
(* What is proved about the parts of MCServices, each for every value of    *)
(* its constants, and about the composition.                               *)
(*                                                                         *)
(* Credentials.  IInv is the inductive invariant.  RowIsOfLastGrant alone  *)
(* is not: a replacement is stored by a worker that read the row long      *)
(* before, and the compare of the blob says only that the row still holds  *)
(* the token it started from.  What makes that enough is HeldOfOneGrant:   *)
(* the token a worker got is of the same grant as the one it spent.  A     *)
(* grant is stored from a flow whose token is its own (CalledOwnsToken),   *)
(* and what was granted last no longer changes (GrantIsOver).              *)
(*                                                                         *)
(* FleetRelay.  RelayInv adds to what is to be shown why a row that is     *)
(* over stays hidden (RowsExplained) and why no request comes twice        *)
(* (CountersCover).                                                        *)
(*                                                                         *)
(* Provisioning.  PushInv says of everything a job is responsible for that *)
(* it is as due, or has drifted, or a wake-up that reaches it waits, or it *)
(* is on the way of the run: still to be visited, missed, or with the      *)
(* calls that mend it planned.                                             *)
(*                                                                         *)
(* StructureWatch.  WatchInv says what a run knows: what it read of a      *)
(* roster holds for every structure that still stands, and what it is      *)
(* about to mark it has posted.                                            *)
(***************************************************************************)
EXTENDS MCServices, FiniteSetTheorems, TLAPS

-----------------------------------------------------------------------------
(* Credentials. *)

HeldOfOneGrant ==
  \A w \in Workers : work[w] # Idle =>
    /\ work[w].enc \in 1..Issued
    /\ work[w].at \in {"answered", "holding"} =>
         work[w].new \in 1..Issued /\ issued[work[w].new] = issued[work[w].enc]

CalledOwnsToken ==
  \A f \in Flows : flow[f].state = "called" =>
    flow[f].token \in 1..Issued /\ issued[flow[f].token] = f

GrantIsOver ==
  /\ authorized # NoFlow => flow[authorized].state = "over"
  /\ row.enc # 0 => authorized # NoFlow /\ row.enc \in 1..Issued

IInv == TypeOK /\ HeldOfOneGrant /\ CalledOwnsToken /\ GrantIsOver /\ RowIsOfLastGrant

USE CredentialsAssumption

-----------------------------------------------------------------------------
(* A token keeps its number and its grant when EVE issues another one. *)
LEMMA IssuedKept ==
  ASSUME TypeOK, NEW f \in Flows, IssueFor(f)
  PROVE  /\ issued' \in Seq(Flows) /\ Issued' = Issued + 1 /\ Issued' \in 1..MaxTokens
         /\ Issued + 1 \in Tokens
         /\ issued'[Issued + 1] = f
         /\ \A t \in 1..Issued : t \in 1..Issued' /\ issued'[t] = issued[t]
BY DEF IssueFor, TypeOK, Issued, Tokens

LEMMA InitOK == Init => IInv
BY DEF Init, IInv, TypeOK, HeldOfOneGrant, CalledOwnsToken, GrantIsOver, RowIsOfLastGrant,
       NoRow, RowType, FlowType, Issued, Statuses

-----------------------------------------------------------------------------
(* The member's steps. *)

LEMMA BeginFlowKeepsIInv ==
  ASSUME IInv, NEW f \in Flows, NEW i \in {"login", "grant-fleet-read"}, BeginFlow(f, i)
  PROVE  IInv'
<1>1. /\ flow \in [Flows -> FlowType] /\ flow[f].state = "none"
      /\ flow' = [flow EXCEPT ![f] = [[flow[f] EXCEPT !.state = "open"] EXCEPT !.intent = i]]
      /\ UNCHANGED <<row, issued, live, work, authorized, verdicts>>
  BY DEF IInv, TypeOK, BeginFlow
<1>2. flow' \in [Flows -> FlowType]
  <2>1. [flow[f] EXCEPT !.state = "open"] \in FlowType
    BY <1>1 DEF FlowType
  <2>2. [[flow[f] EXCEPT !.state = "open"] EXCEPT !.intent = i] \in FlowType
    BY <2>1 DEF FlowType
  <2> QED
    BY <1>1, <2>2
<1>3. TypeOK'
  BY <1>1, <1>2 DEF IInv, TypeOK, Issued
<1>4. HeldOfOneGrant' /\ CalledOwnsToken' /\ GrantIsOver' /\ RowIsOfLastGrant'
  BY <1>1 DEF IInv, HeldOfOneGrant, CalledOwnsToken, GrantIsOver, RowIsOfLastGrant, FlowType, Issued
<1> QED BY <1>3, <1>4 DEF IInv

LEMMA CallbackKeepsIInv ==
  ASSUME IInv, NEW f \in Flows, NEW s \in Consents, Callback(f, s)
  PROVE  IInv'
<1>1. /\ issued' \in Seq(Flows) /\ Issued' = Issued + 1 /\ Issued' \in 1..MaxTokens
      /\ Issued + 1 \in Tokens /\ issued'[Issued + 1] = f
      /\ \A t \in 1..Issued : t \in 1..Issued' /\ issued'[t] = issued[t]
  BY IssuedKept DEF IInv, Callback
<1>2. /\ flow \in [Flows -> FlowType] /\ flow[f].state = "open" /\ s \in SUBSET Scopes
      /\ flow' = [flow EXCEPT ![f] = [flow[f] EXCEPT !.state = "called", !.scopes = s,
                                                     !.token = Issued + 1]]
  BY DEF IInv, TypeOK, Callback
<1>3. authorized # f
  BY <1>2 DEF IInv, GrantIsOver
<1>4. TypeOK'
  <2>0. Issued + 1 \in 0..MaxTokens
    BY <1>1 DEF Tokens
  <2>1. [flow[f] EXCEPT !.state = "called", !.scopes = s, !.token = Issued + 1] \in FlowType
    <3> DEFINE e == flow[f]  n == Issued + 1
    <3>1. e \in FlowType /\ n \in 0..MaxTokens /\ s \in SUBSET Scopes
      BY <1>2, <2>0
    <3> HIDE DEF e, n
    <3>2. [e EXCEPT !.state = "called", !.scopes = s, !.token = n] \in FlowType
      BY <3>1 DEF FlowType
    <3> QED
      BY <3>2 DEF e, n
  <2>2. flow' \in [Flows -> FlowType]
    BY <1>2, <2>1
  <2>3. live' \subseteq 1..Issued'
    BY <1>1 DEF IInv, TypeOK, Callback
  <2> QED
    BY <1>1, <2>2, <2>3 DEF IInv, TypeOK, Callback
<1>5. HeldOfOneGrant'
  BY <1>1 DEF IInv, HeldOfOneGrant, Callback
<1>6. CalledOwnsToken'
  BY <1>1, <1>2 DEF IInv, CalledOwnsToken, FlowType
<1>7. GrantIsOver' /\ RowIsOfLastGrant'
  BY <1>1, <1>2, <1>3 DEF IInv, GrantIsOver, RowIsOfLastGrant, Callback
<1> QED BY <1>4, <1>5, <1>6, <1>7 DEF IInv

LEMMA FlowFailsKeepsIInv ==
  ASSUME IInv, NEW f \in Flows, FlowFails(f)
  PROVE  IInv'
<1>1. /\ flow \in [Flows -> FlowType] /\ flow' = [flow EXCEPT ![f].state = "over"]
      /\ UNCHANGED <<row, issued, live, work, authorized, verdicts>>
  BY DEF IInv, TypeOK, FlowFails
<1>2. flow' \in [Flows -> FlowType]
  BY <1>1 DEF FlowType
<1>3. TypeOK'
  BY <1>1, <1>2 DEF IInv, TypeOK, Issued
<1>4. HeldOfOneGrant' /\ CalledOwnsToken' /\ GrantIsOver' /\ RowIsOfLastGrant'
  BY <1>1 DEF IInv, HeldOfOneGrant, CalledOwnsToken, GrantIsOver, RowIsOfLastGrant, FlowType, Issued
<1> QED BY <1>3, <1>4 DEF IInv

LEMMA StoreGrantKeepsIInv ==
  ASSUME IInv, NEW f \in Flows, StoreGrant(f)
  PROVE  IInv'
<1>1. /\ flow[f] \in FlowType /\ flow[f].token \in 1..Issued /\ issued[flow[f].token] = f
      /\ row' = [enc |-> flow[f].token, status |-> StatusFor(flow[f].scopes),
                 scopes |-> flow[f].scopes]
      /\ flow \in [Flows -> FlowType] /\ flow' = [flow EXCEPT ![f].state = "over"]
      /\ authorized' = f /\ UNCHANGED <<issued, live, work, verdicts>>
  BY DEF IInv, TypeOK, CalledOwnsToken, StoreGrant
<1>2. TypeOK'
  <2>1. row' \in RowType
    BY <1>1 DEF IInv, TypeOK, FlowType, RowType, Statuses, StatusFor
  <2>2. flow' \in [Flows -> FlowType]
    BY <1>1 DEF FlowType
  <2> QED
    BY <1>1, <2>1, <2>2 DEF IInv, TypeOK, Issued
<1>3. HeldOfOneGrant' /\ CalledOwnsToken'
  BY <1>1 DEF IInv, HeldOfOneGrant, CalledOwnsToken, FlowType, Issued
<1>4. GrantIsOver' /\ RowIsOfLastGrant'
  BY <1>1 DEF FlowType, GrantIsOver, RowIsOfLastGrant, StatusFor, Issued
<1> QED BY <1>2, <1>3, <1>4 DEF IInv

-----------------------------------------------------------------------------
(* The workers' steps. *)

LEMMA ReadKeepsIInv ==
  ASSUME IInv, NEW w \in Workers, NEW k \in Kinds, Read(w, k)
  PROVE  IInv'
<1>1. row.enc \in 1..Issued /\ row.enc \in Tokens
  BY DEF IInv, Read, Usable, GrantIsOver, TypeOK, Tokens, RowType
<1>2. TypeOK'
  BY <1>1 DEF IInv, Read, TypeOK, WorkType, Issued
<1>3. HeldOfOneGrant' /\ CalledOwnsToken' /\ GrantIsOver' /\ RowIsOfLastGrant'
  BY <1>1 DEF IInv, Read, TypeOK, HeldOfOneGrant, CalledOwnsToken, GrantIsOver,
              RowIsOfLastGrant, Issued
<1> QED BY <1>2, <1>3 DEF IInv

LEMMA RotateKeepsIInv ==
  ASSUME IInv, NEW w \in Workers, NEW arrives \in BOOLEAN, Rotate(w, arrives)
  PROVE  IInv'
<1> DEFINE t == work[w].enc
<1>0. /\ work \in [Workers -> WorkType \union {Idle}]
      /\ work[w] # Idle /\ work[w] \in WorkType /\ t \in 1..Issued /\ issued[t] \in Flows
  BY DEF IInv, Rotate, At, TypeOK, HeldOfOneGrant, Issued
<1>1. /\ issued' \in Seq(Flows) /\ Issued' = Issued + 1 /\ Issued' \in 1..MaxTokens
      /\ Issued + 1 \in Tokens /\ issued'[Issued + 1] = issued[t]
      /\ \A u \in 1..Issued : u \in 1..Issued' /\ issued'[u] = issued[u]
  BY <1>0, IssuedKept DEF IInv, Rotate
<1>2. work' = [work EXCEPT ![w] =
         IF arrives THEN [work[w] EXCEPT !.at = "answered", !.new = Issued + 1] ELSE Idle]
  BY DEF Rotate
<1>3. /\ work'[w] # Idle => /\ work'[w] \in WorkType /\ work'[w].enc = t
                            /\ work'[w].new = Issued + 1
      /\ \A v \in Workers \ {w} : work'[v] = work[v]
  <2>1. Issued + 1 \in 0..MaxTokens
    BY <1>1 DEF Tokens
  <2> QED
    BY <1>0, <1>2, <2>1 DEF WorkType
<1>4. TypeOK'
  <2>1. work' \in [Workers -> WorkType \union {Idle}]
    BY <1>2, <1>3 DEF IInv, TypeOK
  <2>2. live' \subseteq 1..Issued'
    BY <1>1 DEF IInv, TypeOK, Rotate
  <2> QED
    BY <1>1, <2>1, <2>2 DEF IInv, Rotate, TypeOK
<1>5. HeldOfOneGrant'
  <2> SUFFICES ASSUME NEW v \in Workers, work'[v] # Idle
               PROVE  /\ work'[v].enc \in 1..Issued'
                      /\ work'[v].at \in {"answered", "holding"} =>
                           /\ work'[v].new \in 1..Issued'
                           /\ issued'[work'[v].new] = issued'[work'[v].enc]
    BY DEF HeldOfOneGrant
  <2>1. CASE v = w
    BY <1>0, <1>1, <1>3, <2>1
  <2>2. CASE v # w
    <3>1. work'[v] = work[v] /\ work[v] # Idle
      BY <1>3, <2>2
    <3>2. /\ work[v].enc \in 1..Issued
          /\ work[v].at \in {"answered", "holding"} =>
               work[v].new \in 1..Issued /\ issued[work[v].new] = issued[work[v].enc]
      BY <3>1 DEF IInv, HeldOfOneGrant
    <3>3. \A u \in 1..Issued : u \in 1..Issued' /\ issued'[u] = issued[u]
      BY <1>1
    <3> QED
      BY ONLY <3>1, <3>2, <3>3
  <2> QED BY <2>1, <2>2
<1>6. CalledOwnsToken' /\ GrantIsOver' /\ RowIsOfLastGrant'
  BY <1>1 DEF IInv, Rotate, TypeOK, CalledOwnsToken, GrantIsOver, RowIsOfLastGrant
<1> QED BY <1>4, <1>5, <1>6 DEF IInv

LEMMA PersistKeepsIInv ==
  ASSUME IInv, NEW w \in Workers, Persist(w)
  PROVE  IInv'
<1>1. /\ work \in [Workers -> WorkType \union {Idle}] /\ row \in RowType
      /\ work[w] # Idle /\ work[w] \in WorkType /\ work[w].at = "answered"
      /\ work[w].enc \in 1..Issued /\ work[w].new \in 1..Issued
      /\ issued[work[w].new] = issued[work[w].enc]
      /\ UNCHANGED <<flow, issued, live, authorized, verdicts>>
  BY DEF IInv, TypeOK, HeldOfOneGrant, Persist, At
<1>0. /\ row' = row \/ (row.enc = work[w].enc /\ row' = [row EXCEPT !.enc = work[w].new])
      /\ work' = [work EXCEPT ![w] = Idle] 
         \/ work' = [work EXCEPT ![w] = [work[w] EXCEPT !.at = "holding"]]
  <2>1. CASE row.enc = work[w].enc
    BY <2>1 DEF Persist, StillStored
  <2>2. CASE row.enc # work[w].enc
    BY <2>2 DEF Persist, StillStored
  <2> QED
    BY <2>1, <2>2
<1>2. TypeOK'
  <2>1. row' \in RowType
    BY <1>0, <1>1 DEF RowType, WorkType
  <2>2. work' \in [Workers -> WorkType \union {Idle}]
    BY <1>0, <1>1 DEF WorkType
  <2> QED
    BY <1>1, <2>1, <2>2 DEF IInv, TypeOK, Issued
<1>3. HeldOfOneGrant'
  BY <1>0, <1>1 DEF IInv, HeldOfOneGrant, WorkType, Issued
<1>4. CalledOwnsToken' /\ GrantIsOver' /\ RowIsOfLastGrant'
  BY <1>0, <1>1 DEF IInv, CalledOwnsToken, GrantIsOver, RowIsOfLastGrant, RowType, Issued
<1> QED BY <1>2, <1>3, <1>4 DEF IInv

(* A verdict, an answer to the scopes asked, or none: the row keeps its      *)
(* token, and the worker is done with its own.                               *)
LEMMA WorkEndsKeepsIInv ==
  ASSUME IInv, NEW w \in Workers, Deny(w) \/ GiveUp(w) \/ Condemn(w) \/ Unverified(w) \/ Refused(w)
  PROVE  IInv'
<1>1. /\ work[w] # Idle /\ work[w] \in WorkType
      /\ UNCHANGED <<flow, issued, live, authorized>>
  BY DEF IInv, TypeOK, Deny, GiveUp, Condemn, Unverified, Refused, At, Stopped
<1>2. /\ row' \in RowType /\ row'.enc = row.enc /\ row'.scopes = row.scopes
      /\ row'.status = "valid" => row.status = "valid"
  BY DEF IInv, TypeOK, Deny, GiveUp, Condemn, Unverified, Refused, Invalidated, RowType, Statuses
<1>3. /\ work' \in [Workers -> WorkType \union {Idle}]
      /\ \A v \in Workers : work'[v] # Idle =>
           /\ work[v] # Idle /\ work'[v].enc = work[v].enc
           /\ work'[v].at \in {"answered", "holding"} => work'[v] = work[v]
  BY <1>1 DEF IInv, TypeOK, Deny, GiveUp, Condemn, Unverified, Refused, Stopped, At, WorkType
<1>4. verdicts' \subseteq Tokens
  BY <1>1 DEF IInv, TypeOK, Deny, GiveUp, Condemn, Unverified, Refused, At, WorkType,
              HeldOfOneGrant, Tokens
<1>5. TypeOK'
  BY <1>1, <1>2, <1>3, <1>4 DEF IInv, TypeOK, Issued
<1>6. HeldOfOneGrant' /\ CalledOwnsToken' /\ GrantIsOver' /\ RowIsOfLastGrant'
  BY <1>1, <1>2, <1>3 DEF IInv, TypeOK, HeldOfOneGrant, CalledOwnsToken, GrantIsOver,
                          RowIsOfLastGrant, Issued
<1> QED BY <1>5, <1>6 DEF IInv

(* What token-health learns of a token the row still holds is what the       *)
(* member granted last.                                                      *)
LEMMA VerifiedKeepsIInv ==
  ASSUME IInv, NEW w \in Workers, Verified(w)
  PROVE  IInv'
<1> DEFINE g == issued[work[w].new]
<1>1. /\ work[w] # Idle /\ work[w] \in WorkType /\ work[w].new \in 1..Issued
      /\ g \in Flows /\ flow[g] \in FlowType
      /\ UNCHANGED <<flow, issued, live, authorized, verdicts>>
  BY DEF IInv, TypeOK, HeldOfOneGrant, Verified, At, Issued
<1>2. /\ row' \in RowType /\ row'.enc = row.enc
      /\ row' = row \/ (row.enc = work[w].new /\ row'.scopes = flow[g].scopes
                        /\ row'.status = StatusFor(flow[g].scopes))
  BY <1>1 DEF IInv, TypeOK, Verified, StillStored, RowType, FlowType, Statuses, StatusFor
<1>3. work' = [work EXCEPT ![w] = Idle]
  BY DEF Verified, Stopped
<1>4. TypeOK'
  BY <1>1, <1>2, <1>3 DEF IInv, TypeOK, Issued
<1>5. HeldOfOneGrant' /\ CalledOwnsToken' /\ GrantIsOver'
  BY <1>1, <1>2, <1>3 DEF IInv, TypeOK, HeldOfOneGrant, CalledOwnsToken, GrantIsOver, Issued
<1>6. RowIsOfLastGrant'
  BY <1>1, <1>2 DEF IInv, TypeOK, RowIsOfLastGrant, GrantIsOver, StatusFor
<1> QED BY <1>4, <1>5, <1>6 DEF IInv

-----------------------------------------------------------------------------
LEMMA StepKeepsIInv == IInv /\ [Next]_vars => IInv'
<1> SUFFICES ASSUME IInv, [Next]_vars PROVE IInv'
  OBVIOUS
<1>1. ASSUME NEW f \in Flows, NEW i \in {"login", "grant-fleet-read"}, BeginFlow(f, i) PROVE IInv'
  BY <1>1, BeginFlowKeepsIInv
<1>2. ASSUME NEW f \in Flows, NEW s \in Consents, Callback(f, s) PROVE IInv'
  BY <1>2, CallbackKeepsIInv
<1>3. ASSUME NEW f \in Flows, FlowFails(f) PROVE IInv'
  BY <1>3, FlowFailsKeepsIInv
<1>4. ASSUME NEW f \in Flows, StoreGrant(f) PROVE IInv'
  BY <1>4, StoreGrantKeepsIInv
<1>5. ASSUME NEW f \in Flows, Withdraw(f) PROVE IInv'
  BY <1>5 DEF Withdraw, IInv, TypeOK, HeldOfOneGrant, CalledOwnsToken, GrantIsOver,
              RowIsOfLastGrant, Issued
<1>6. ASSUME Unlink PROVE IInv'
  BY <1>6 DEF Unlink, IInv, TypeOK, HeldOfOneGrant, CalledOwnsToken, GrantIsOver,
              RowIsOfLastGrant, Issued, NoRow, RowType, Statuses
<1>7. ASSUME NEW w \in Workers, NEW k \in Kinds, Read(w, k) PROVE IInv'
  BY <1>7, ReadKeepsIInv
<1>8. ASSUME NEW w \in Workers, NEW a \in BOOLEAN, Rotate(w, a) PROVE IInv'
  BY <1>8, RotateKeepsIInv
<1>9. ASSUME NEW w \in Workers, Persist(w) PROVE IInv'
  BY <1>9, PersistKeepsIInv
<1>10. ASSUME NEW w \in Workers, Verified(w) PROVE IInv'
  BY <1>10, VerifiedKeepsIInv
<1>11. ASSUME NEW w \in Workers,
              Deny(w) \/ GiveUp(w) \/ Condemn(w) \/ Unverified(w) \/ Refused(w)
       PROVE  IInv'
  BY <1>11, WorkEndsKeepsIInv
<1>12. CASE UNCHANGED vars
  BY <1>12 DEF vars, IInv, TypeOK, HeldOfOneGrant, CalledOwnsToken, GrantIsOver,
               RowIsOfLastGrant, Issued
<1> QED
  BY <1>1, <1>2, <1>3, <1>4, <1>5, <1>6, <1>7, <1>8, <1>9, <1>10, <1>11, <1>12 DEF Next

LEMMA Invariance == Spec => []IInv
BY InitOK, StepKeepsIInv, PTL DEF Spec

(* The columns of the token, the flows and the workers keep their types. *)
THEOREM TypeCorrect == Spec => []TypeOK
<1>1. IInv => TypeOK
  BY DEF IInv
<1> QED
  BY <1>1, Invariance, PTL

(* For any number of jobs and requests that rotate one character's token,    *)
(* and however long they hold what they read, the row holds a token of the   *)
(* grant the member gave last, with its scopes, and "valid" only when they   *)
(* are enough (services/tokens.ts, services/token-health.ts).                *)
THEOREM RowKeepsTheLastGrant == Spec => []RowIsOfLastGrant
<1>1. IInv => RowIsOfLastGrant
  BY DEF IInv
<1> QED
  BY <1>1, Invariance, PTL

-----------------------------------------------------------------------------
(* The relay. *)

\* No request was applied at or above a revision its session has not reached.
CountersCover == late = {} /\ \A s \in Sessions : newest[s] <= sess[s].rev

\* A row is of the device its session is of, under a generation that device has reached; what
\* it was published under ended with the session or with the generation.
RowsExplained ==
  \A c \in Chars : lease[c] # NoLease =>
    /\ lease[c].device = DeviceOf[lease[c].session]
    /\ lease[c].participation <= part[lease[c].device].gen
    /\ lease[c].ended => \/ ~sess[lease[c].session].live
                         \/ lease[c].participation < part[lease[c].device].gen

RelayInv == /\ Relay!TypeOK /\ IsFiniteSet(wire)
            /\ CountersCover /\ RowsExplained /\ Relay!LatestPublicationWins

\* The invariant says what is to be shown.
LEMMA RelayShows == ASSUME RelayConstants, RelayInv PROVE RelayKeepsOrder
<1>1. ASSUME NEW s \in Sessions, NEW c \in Relay!Projection(s) PROVE ~lease[c].ended
  <2>1. /\ c \in Chars /\ lease[c] # NoLease /\ Relay!Publisher(lease[c].session) /\ Relay!StillNamed(lease[c])
    BY <1>1 DEF Relay!Projection
  <2>2. sess[lease[c].session].live /\ lease[c].participation = part[lease[c].device].gen
    BY <2>1 DEF Relay!Publisher, Relay!Participant, Relay!Allowed, Relay!StillNamed
  <2>3. lease[c] \in Relay!RowType /\ part[lease[c].device].gen \in Nat
    BY <2>1 DEF RelayInv, Relay!TypeOK, Relay!RowType, RelayConstants
  <2> QED BY <2>1, <2>2, <2>3 DEF RelayInv, RowsExplained
<1> QED
  BY <1>1 DEF RelayKeepsOrder, RelayInv, CountersCover, Relay!RequestsOnceInOrder, Relay!EndedStaysHidden

\* No session has published.
LEMMA RelayInit == ASSUME RelayConstants, Relay!Init PROVE RelayInv
<1>1. \A c \in Chars : lease[c] = NoLease
  BY DEF Relay!Init
<1>2. IsFiniteSet(wire)
  BY FS_EmptySet DEF Relay!Init
<1>3. Relay!TypeOK
  <2>1. 0 \in 0..MaxMessages /\ 0 \in 0..MaxGen /\ 1 \in 0..MaxGen
    BY DEF RelayConstants
  <2>2. slot \in [Fleets -> [gen : 0..MaxGen, links : SUBSET Chars]]
    BY <2>1 DEF Relay!Init
  <2>3. part \in [Devices -> [on : BOOLEAN, gen : 0..MaxGen]]
    <3>1. PICK p \in {[on |-> FALSE, gen |-> 0], [on |-> TRUE, gen |-> 1]} : part = [d \in Devices |-> p]
      <4>1. \E p \in {[on |-> FALSE, gen |-> 0], [on |-> TRUE, gen |-> 1]} : part = [d \in Devices |-> p]
        BY ZenonT(20) DEF Relay!Init
      <4> QED BY <4>1
    <3>2. p \in [on : BOOLEAN, gen : 0..MaxGen]
      <4>1. CASE p = [on |-> FALSE, gen |-> 0]
        BY ONLY <2>1, <4>1
      <4>2. CASE p = [on |-> TRUE, gen |-> 1]
        BY ONLY <2>1, <4>2
      <4> QED BY <4>1, <4>2
    <3> QED BY <3>1, <3>2
  <2>4. sess \in [Sessions -> [live : BOOLEAN, rev : 0..MaxMessages, ack : SUBSET Relay!Caps]]
    <3>1. PICK caps \in {{}, Relay!Caps} : sess = [s \in Sessions |-> [live |-> TRUE, rev |-> 0, ack |-> caps]]
      BY DEF Relay!Init
    <3> QED BY <2>1, <3>1
  <2>5. /\ owner \in [Chars -> Accounts] /\ lease \in [Chars -> Relay!RowType \union {NoLease}]
        /\ wire \subseteq Relay!MessageType /\ late \subseteq Sessions
        /\ newest \in [Sessions -> 0..MaxMessages] /\ latest \in [Devices -> SUBSET Chars]
    BY <2>1 DEF Relay!Init
  <2> QED BY <2>2, <2>3, <2>4, <2>5 DEF Relay!TypeOK
<1>4. CountersCover
  BY DEF Relay!Init, CountersCover
<1>5. RowsExplained /\ Relay!LatestPublicationWins
  BY <1>1 DEF RowsExplained, Relay!LatestPublicationWins, Relay!RowsOf
<1> QED BY <1>2, <1>3, <1>4, <1>5 DEF RelayInv

\* Rows are only taken away or marked; no session comes back to life and no generation is lowered.
LEMMA RowsOnlyGo ==
  ASSUME RelayConstants, RelayInv,
         \A c \in Chars : lease'[c] \in {NoLease, lease[c]}
                          \/ /\ lease[c] # NoLease /\ lease'[c] = [lease[c] EXCEPT !.ended = TRUE]
                             /\ \/ ~sess'[lease[c].session].live
                                \/ lease[c].participation < part'[lease[c].device].gen,
         lease' \in [Chars -> Relay!RowType \union {NoLease}],
         \A s \in Sessions : sess'[s].live => sess[s].live,
         \A d \in Devices : part'[d].gen \in Nat /\ part[d].gen <= part'[d].gen
  PROVE  RowsExplained' /\ \A d \in Devices : Relay!RowsOf(d)' \subseteq Relay!RowsOf(d)
<1>1. ASSUME NEW c \in Chars, lease'[c] # NoLease
      PROVE  /\ lease[c] # NoLease /\ lease'[c].device = lease[c].device
             /\ lease'[c].device = DeviceOf[lease'[c].session]
             /\ lease'[c].participation <= part'[lease'[c].device].gen
             /\ lease'[c].ended => \/ ~sess'[lease'[c].session].live
                                   \/ lease'[c].participation < part'[lease'[c].device].gen
  <2>1. lease[c] # NoLease /\ lease[c] \in Relay!RowType
    BY <1>1 DEF RelayInv, Relay!TypeOK
  <2>2. /\ lease[c].device = DeviceOf[lease[c].session]
        /\ lease[c].participation <= part[lease[c].device].gen
        /\ lease[c].ended => \/ ~sess[lease[c].session].live
                             \/ lease[c].participation < part[lease[c].device].gen
    BY <2>1 DEF RelayInv, RowsExplained
  <2>3. lease[c].device \in Devices /\ lease[c].session \in Sessions /\ lease[c].participation \in Nat
    BY <2>1, RelayConstants DEF Relay!RowType, RelayConstants
  <2>4. part[lease[c].device].gen \in Nat
    BY <2>3 DEF RelayInv, Relay!TypeOK, RelayConstants
  <2>5. CASE lease'[c] = lease[c]
    BY <2>1, <2>2, <2>3, <2>4, <2>5
  <2>6. CASE /\ lease'[c] = [lease[c] EXCEPT !.ended = TRUE]
             /\ ~sess'[lease[c].session].live \/ lease[c].participation < part'[lease[c].device].gen
    <3>1. /\ lease'[c].device = lease[c].device /\ lease'[c].session = lease[c].session
          /\ lease'[c].participation = lease[c].participation
      BY <2>1, <2>6 DEF Relay!RowType
    <3> QED BY <2>1, <2>2, <2>3, <2>4, <2>6, <3>1
  <2> QED BY <1>1, <2>5, <2>6
<1> QED BY <1>1 DEF RowsExplained, Relay!RowsOf

\* A step that leaves the requests, the counters and the publications alone.
LEMMA RowsGo ==
  ASSUME RelayConstants, RelayInv, UNCHANGED <<wire, newest, late, latest>>,
         owner' \in [Chars -> Accounts],
         slot' \in [Fleets -> [gen : 0..MaxGen, links : SUBSET Chars]],
         UNCHANGED part,
         sess' \in [Sessions -> [live : BOOLEAN, rev : 0..MaxMessages, ack : SUBSET Relay!Caps]],
         \A s \in Sessions : sess'[s].rev = sess[s].rev /\ (sess'[s].live => sess[s].live),
         lease' \in [Chars -> Relay!RowType \union {NoLease}],
         \A c \in Chars : lease'[c] \in {NoLease, lease[c]}
                          \/ /\ lease[c] # NoLease /\ lease'[c] = [lease[c] EXCEPT !.ended = TRUE]
                             /\ ~sess'[lease[c].session].live
  PROVE  RelayInv'
<1>1. Relay!TypeOK'
  BY DEF RelayInv, Relay!TypeOK
<1>2. \A d \in Devices : part'[d].gen \in Nat /\ part[d].gen <= part'[d].gen
  BY DEF RelayInv, Relay!TypeOK, RelayConstants
<1>3. RowsExplained' /\ \A d \in Devices : Relay!RowsOf(d)' \subseteq Relay!RowsOf(d)
  BY <1>2, RowsOnlyGo
<1>4. Relay!LatestPublicationWins'
  BY <1>3 DEF RelayInv, Relay!LatestPublicationWins
<1>5. CountersCover'
  BY DEF RelayInv, CountersCover
<1>6. IsFiniteSet(wire)'
  BY DEF RelayInv
<1> QED BY <1>1, <1>3, <1>4, <1>5, <1>6 DEF RelayInv

\* What members, devices and the clock do ends sessions and generations, and revives none.
LEMMA RelayWorld == ASSUME RelayConstants, RelayInv, Relay!World PROVE RelayInv'
<1>0. Relay!TypeOK
  BY DEF RelayInv
<1>1. \A C \in SUBSET Chars :
        /\ Relay!Deleting(C) \in [Chars -> Relay!RowType \union {NoLease}]
        /\ \A c \in Chars : Relay!Deleting(C)[c] \in {NoLease, lease[c]}
  BY <1>0 DEF Relay!Deleting, Relay!TypeOK
<1>2. UNCHANGED sess =>
        /\ sess' \in [Sessions -> [live : BOOLEAN, rev : 0..MaxMessages, ack : SUBSET Relay!Caps]]
        /\ \A s \in Sessions : sess'[s].rev = sess[s].rev /\ (sess'[s].live => sess[s].live)
  BY <1>0 DEF Relay!TypeOK
<1>3. ASSUME NEW f \in Fleets, Relay!Disprove(f) PROVE RelayInv'
  <2>1. slot' = [slot EXCEPT ![f] = [gen |-> slot[f].gen + 1, links |-> {}]]
        /\ slot[f].gen < MaxGen
    BY <1>3 DEF Relay!Disprove
  <2>2. slot[f].gen \in 0..MaxGen
    BY <1>0 DEF Relay!TypeOK
  <2>3. slot[f].gen + 1 \in 0..MaxGen
    BY <2>1, <2>2 DEF RelayConstants
  <2>4. slot' \in [Fleets -> [gen : 0..MaxGen, links : SUBSET Chars]]
    BY <1>0, <2>1, <2>3 DEF Relay!TypeOK
  <2>5. \E C \in SUBSET Chars : lease' = Relay!Deleting(C)
    BY <1>3 DEF Relay!Disprove
  <2>6. UNCHANGED <<owner, part, sess, wire, newest, late, latest>>
    BY <1>3 DEF Relay!Disprove
  <2>7. owner' \in [Chars -> Accounts]
    BY <1>0, <2>6 DEF Relay!TypeOK
  <2> QED BY <1>1, <1>2, <2>4, <2>5, <2>6, <2>7, RowsGo
<1>4. ASSUME NEW f \in Fleets, NEW L \in SUBSET Chars, Relay!Prove(f, L) PROVE RelayInv'
  <2>1. slot' = [slot EXCEPT ![f] = [slot[f] EXCEPT !.links = L]]
    BY <1>4 DEF Relay!Prove
  <2>2. slot' \in [Fleets -> [gen : 0..MaxGen, links : SUBSET Chars]]
    BY <1>0, <2>1 DEF Relay!TypeOK
  <2>3. UNCHANGED <<owner, part, sess, lease, wire, newest, late, latest>>
    BY <1>4 DEF Relay!Prove
  <2>4. owner' \in [Chars -> Accounts] /\ lease' \in [Chars -> Relay!RowType \union {NoLease}]
    BY <1>0, <2>3 DEF Relay!TypeOK
  <2> QED BY <1>2, <2>2, <2>3, <2>4, RowsGo
<1>5. ASSUME NEW c \in Chars, NEW a \in Accounts, Relay!Move(c, a) PROVE RelayInv'
  <2>1. /\ owner' = [owner EXCEPT ![c] = a]
        /\ slot' = [f \in Fleets |-> [slot[f] EXCEPT !.links = slot[f].links \ {c}]]
        /\ lease' = Relay!Deleting({c})
        /\ UNCHANGED <<part, sess, wire, newest, late, latest>>
    BY <1>5 DEF Relay!Move
  <2>2. slot' \in [Fleets -> [gen : 0..MaxGen, links : SUBSET Chars]]
    <3>1. \A f \in Fleets : [slot[f] EXCEPT !.links = slot[f].links \ {c}] \in [gen : 0..MaxGen, links : SUBSET Chars]
      BY <1>0 DEF Relay!TypeOK
    <3> QED BY <2>1, <3>1
  <2>3. owner' \in [Chars -> Accounts]
    BY <1>0, <2>1 DEF Relay!TypeOK
  <2> QED BY <1>1, <1>2, <2>1, <2>2, <2>3, RowsGo
<1>6. ASSUME NEW s \in Sessions, Relay!SessionEnds(s) PROVE RelayInv'
  <2> DEFINE C == {c \in Chars : lease[c] # NoLease /\ lease[c].session = s}
  <2>1. /\ sess' = [sess EXCEPT ![s] = [sess[s] EXCEPT !.live = FALSE]]
        /\ lease' = Relay!Ending(C)
        /\ UNCHANGED <<owner, slot, part, wire, newest, late, latest>>
    BY <1>6 DEF Relay!SessionEnds
  <2>2. sess' \in [Sessions -> [live : BOOLEAN, rev : 0..MaxMessages, ack : SUBSET Relay!Caps]]
    BY <1>0, <2>1 DEF Relay!TypeOK
  <2>3. /\ ~sess'[s].live
        /\ \A t \in Sessions : sess'[t].rev = sess[t].rev /\ (sess'[t].live => sess[t].live)
    BY <1>0, <2>1 DEF Relay!TypeOK
  <2>4. \A c \in Chars : lease[c] \in Relay!RowType => [lease[c] EXCEPT !.ended = TRUE] \in Relay!RowType
    BY DEF Relay!RowType
  <2>5. \A c \in C : lease[c] # NoLease /\ lease[c] \in Relay!RowType /\ lease[c].session = s
    BY <1>0 DEF Relay!TypeOK
  <2> HIDE DEF C
  <2>6. lease' = [c \in Chars |-> IF c \in C THEN [lease[c] EXCEPT !.ended = TRUE] ELSE lease[c]]
    BY <2>1 DEF Relay!Ending
  <2>7. lease' \in [Chars -> Relay!RowType \union {NoLease}]
    BY <1>0, <2>4, <2>5, <2>6 DEF Relay!TypeOK
  <2>8. \A c \in Chars : lease'[c] \in {NoLease, lease[c]}
          \/ /\ lease[c] # NoLease /\ lease'[c] = [lease[c] EXCEPT !.ended = TRUE]
             /\ ~sess'[lease[c].session].live
    BY <2>3, <2>5, <2>6
  <2>9. /\ owner' \in [Chars -> Accounts]
        /\ slot' \in [Fleets -> [gen : 0..MaxGen, links : SUBSET Chars]]
    BY <1>0, <2>1 DEF Relay!TypeOK
  <2> QED BY <2>1, <2>2, <2>3, <2>7, <2>8, <2>9, RowsGo
<1>7. ASSUME NEW c \in Chars, Relay!Prune(c) PROVE RelayInv'
  <2>1. lease' = Relay!Deleting({c}) /\ UNCHANGED <<owner, slot, part, sess, wire, newest, late, latest>>
    BY <1>7 DEF Relay!Prune
  <2>2. /\ owner' \in [Chars -> Accounts]
        /\ slot' \in [Fleets -> [gen : 0..MaxGen, links : SUBSET Chars]]
    BY <1>0, <2>1 DEF Relay!TypeOK
  <2> QED BY <1>1, <1>2, <2>1, <2>2, RowsGo
<1> QED BY <1>3, <1>4, <1>5, <1>6, <1>7 DEF Relay!World

\* A client numbers its requests as it sends them.
LEMMA RelaySends == ASSUME RelayConstants, RelayInv, Relay!Client PROVE RelayInv'
<1>0. Relay!TypeOK /\ IsFiniteSet(wire)
  BY DEF RelayInv
<1> DEFINE Ops == [op : {"publish"}, rows : SUBSET Chars]
             \union [op : {"participate"}, on : BOOLEAN, expected : 0..MaxGen]
             \union [op : {"acknowledge"}, caps : SUBSET Relay!Caps]
             \union [op : {"read", "control"}]
<1>1. ASSUME NEW s \in Sessions, NEW op \in Ops, Relay!Send(s, op) PROVE RelayInv'
  <2> DEFINE own == {m \in wire : m.session = s}
  <2>1. /\ Cardinality(wire) < MaxMessages
        /\ wire' = wire \union {[session |-> s, rev |-> Cardinality(own) + 1, op |-> op]}
        /\ UNCHANGED <<owner, slot, part, sess, lease, newest, late, latest>>
    BY <1>1 DEF Relay!Send, Relay!Cardinality, Cardinality
  <2>2. Cardinality(own) \in Nat /\ Cardinality(own) <= Cardinality(wire) /\ Cardinality(wire) \in Nat
    BY <1>0, FS_Subset, FS_CardinalityType
  <2>3. Cardinality(own) + 1 \in 1..MaxMessages
    BY <2>1, <2>2 DEF RelayConstants
  <2> HIDE DEF own
  <2>4. [session |-> s, rev |-> Cardinality(own) + 1, op |-> op] \in Relay!MessageType
    BY <2>3 DEF Relay!MessageType
  <2>5. Relay!TypeOK'
    BY <1>0, <2>1, <2>4 DEF Relay!TypeOK
  <2>6. IsFiniteSet(wire')
    <3>1. PICK x : wire' = wire \union {x}
      BY <2>1
    <3>2. IsFiniteSet(wire \union {x})
      BY ONLY <1>0, FS_AddElement
    <3> QED BY <3>1, <3>2
  <2> QED
    BY <2>1, <2>5, <2>6 DEF RelayInv, CountersCover, RowsExplained, Relay!LatestPublicationWins, Relay!RowsOf
<1>2. PICK s \in Sessions : Relay!SendAny(s)
  BY DEF Relay!Client
<1>3. part[DeviceOf[s]].gen \in 0..MaxGen
  BY <1>0 DEF Relay!TypeOK, RelayConstants
<1>4. \E op \in Ops : Relay!Send(s, op)
  <2>1. ASSUME NEW P \in SUBSET Chars, Relay!Send(s, [op |-> "publish", rows |-> P]) PROVE \E op \in Ops : Relay!Send(s, op)
    BY <2>1
  <2>2. ASSUME NEW b \in BOOLEAN,
               Relay!Send(s, [op |-> "participate", on |-> b, expected |-> part[DeviceOf[s]].gen])
        PROVE  \E op \in Ops : Relay!Send(s, op)
    BY <1>3, <2>2
  <2>3. ASSUME Relay!Send(s, [op |-> "acknowledge", caps |-> Relay!Caps]) PROVE \E op \in Ops : Relay!Send(s, op)
    BY <2>3
  <2>4. ASSUME NEW o \in {"read", "control"}, Relay!Send(s, [op |-> o]) PROVE \E op \in Ops : Relay!Send(s, op)
    BY <2>4
  <2> HIDE DEF Ops
  <2> QED BY <1>2, <2>1, <2>2, <2>3, <2>4 DEF Relay!SendAny
<1> HIDE DEF Ops
<1> QED BY <1>1, <1>4

-----------------------------------------------------------------------------
\* A request of a kind carries what the kind carries.
LEMMA RequestTyped ==
  ASSUME RelayConstants, RelayInv, NEW m \in wire, NEW op, Relay!Take(m, op)
  PROVE  /\ m.session \in Sessions /\ m.rev \in 1..MaxMessages /\ DeviceOf[m.session] \in Devices
         /\ sess[m.session].rev < m.rev /\ m.op.op = op
         /\ op = "publish" => m.op.rows \in SUBSET Chars
         /\ op = "participate" => m.op.on \in BOOLEAN
         /\ op = "acknowledge" => m.op.caps \in SUBSET Relay!Caps
<1>1. m \in Relay!MessageType
  BY DEF RelayInv, Relay!TypeOK
<1>2. m.session \in Sessions /\ m.rev \in 1..MaxMessages
  BY <1>1 DEF Relay!MessageType
<1>3. sess[m.session].rev \in Nat
  BY <1>2 DEF RelayInv, Relay!TypeOK, RelayConstants
<1>4. m.op.op = op /\ m.rev > sess[m.session].rev
  BY DEF Relay!Take, Relay!Newer
<1>5. /\ op = "publish" => m.op.rows \in SUBSET Chars
      /\ op = "participate" => m.op.on \in BOOLEAN
      /\ op = "acknowledge" => m.op.caps \in SUBSET Relay!Caps
  BY <1>1, <1>4 DEF Relay!MessageType
<1> QED BY <1>2, <1>3, <1>4, <1>5 DEF RelayConstants

\* A request that is accepted raises the counter of its session to its own revision.
LEMMA RequestCounts ==
  ASSUME RelayConstants, RelayInv, NEW m \in wire, NEW op, Relay!Take(m, op),
         Relay!Logged(m.session, m.rev),
         \/ sess' = Relay!Committed(m.session, m.rev)
         \/ \E caps \in SUBSET Relay!Caps : sess' = [Relay!Committed(m.session, m.rev) EXCEPT ![m.session].ack = caps]
  PROVE  /\ CountersCover'
         /\ newest' \in [Sessions -> 0..MaxMessages] /\ late' \subseteq Sessions
         /\ sess' \in [Sessions -> [live : BOOLEAN, rev : 0..MaxMessages, ack : SUBSET Relay!Caps]]
         /\ \A s \in Sessions : sess'[s].live = sess[s].live
<1> DEFINE s == m.session
           new == Relay!Committed(s, m.rev)
           Sess == [live : BOOLEAN, rev : 0..MaxMessages, ack : SUBSET Relay!Caps]
<1>1. s \in Sessions /\ m.rev \in 1..MaxMessages /\ sess[s].rev < m.rev
  BY RequestTyped
<1>2. sess \in [Sessions -> Sess] /\ newest \in [Sessions -> 0..MaxMessages] /\ late = {}
      /\ \A t \in Sessions : newest[t] <= sess[t].rev
  BY DEF RelayInv, Relay!TypeOK, CountersCover
<1>3. newest[s] < m.rev
  BY <1>1, <1>2 DEF RelayConstants
<1>4. newest' = [newest EXCEPT ![s] = m.rev] /\ late' = {}
  BY <1>1, <1>2, <1>3 DEF Relay!Logged
<1>5. new = [sess EXCEPT ![s] = [sess[s] EXCEPT !.rev = m.rev]]
  BY DEF Relay!Committed
<1>6. \/ sess' = new
      \/ \E caps \in SUBSET Relay!Caps : sess' = [new EXCEPT ![s] = [new[s] EXCEPT !.ack = caps]]
  OBVIOUS
<1> HIDE DEF new
<1>7. m.rev \in 0..MaxMessages
  BY <1>1 DEF RelayConstants
<1> HIDE DEF s
<1>8. new \in [Sessions -> Sess] /\ \A t \in Sessions : new[t].live = sess[t].live /\ new[t].rev = IF t = s THEN m.rev ELSE sess[t].rev
  BY <1>1, <1>2, <1>5, <1>7
<1>9. sess' \in [Sessions -> Sess] /\ \A t \in Sessions : sess'[t].live = new[t].live /\ sess'[t].rev = new[t].rev
  BY ONLY <1>1, <1>6, <1>8
<1>10. newest' \in [Sessions -> 0..MaxMessages]
  BY <1>1, <1>2, <1>4, <1>7
<1>11. \A t \in Sessions : newest'[t] <= sess'[t].rev
  BY <1>1, <1>2, <1>4, <1>8, <1>9
<1> QED BY <1>4, <1>8, <1>9, <1>10, <1>11 DEF CountersCover

\* A request that changes no row and no participation.
LEMMA RequestAlone ==
  ASSUME RelayConstants, RelayInv, NEW m \in wire, NEW op, Relay!Take(m, op),
         Relay!Logged(m.session, m.rev),
         \/ sess' = Relay!Committed(m.session, m.rev)
         \/ \E caps \in SUBSET Relay!Caps : sess' = [Relay!Committed(m.session, m.rev) EXCEPT ![m.session].ack = caps],
         UNCHANGED <<owner, slot, part, lease, wire, latest>>
  PROVE  RelayInv'
<1>1. /\ CountersCover'
      /\ newest' \in [Sessions -> 0..MaxMessages] /\ late' \subseteq Sessions
      /\ sess' \in [Sessions -> [live : BOOLEAN, rev : 0..MaxMessages, ack : SUBSET Relay!Caps]]
      /\ \A s \in Sessions : sess'[s].live = sess[s].live
  BY RequestCounts
<1>2. Relay!TypeOK' /\ IsFiniteSet(wire)'
  BY <1>1 DEF RelayInv, Relay!TypeOK
<1>3. lease' \in [Chars -> Relay!RowType \union {NoLease}]
      /\ \A d \in Devices : part'[d].gen \in Nat /\ part[d].gen <= part'[d].gen
  BY <1>2 DEF RelayInv, Relay!TypeOK, RelayConstants
<1>4. RowsExplained' /\ \A d \in Devices : Relay!RowsOf(d)' \subseteq Relay!RowsOf(d)
  BY <1>1, <1>3, RowsOnlyGo
<1>5. Relay!LatestPublicationWins'
  BY <1>4 DEF RelayInv, Relay!LatestPublicationWins
<1> QED BY <1>1, <1>2, <1>4, <1>5 DEF RelayInv

\* A publication replaces the rows of its device by those of its own generation.
LEMMA RelayPublishes ==
  ASSUME RelayConstants, RelayInv, NEW m \in wire, Relay!Publish(m)
  PROVE  RelayInv'
<1> DEFINE s == m.session
           d == DeviceOf[s]
           P == m.op.rows
<1>1. /\ CountersCover'
      /\ newest' \in [Sessions -> 0..MaxMessages] /\ late' \subseteq Sessions
      /\ sess' \in [Sessions -> [live : BOOLEAN, rev : 0..MaxMessages, ack : SUBSET Relay!Caps]]
      /\ \A t \in Sessions : sess'[t].live = sess[t].live
  <2>1. Relay!Take(m, "publish") /\ Relay!Logged(m.session, m.rev) /\ sess' = Relay!Committed(m.session, m.rev)
    BY DEF Relay!Publish
  <2> QED BY <2>1, RequestCounts
<1>2. s \in Sessions /\ d \in Devices /\ P \in SUBSET Chars
  BY RequestTyped DEF Relay!Publish
<1>3. /\ \A c \in P : Relay!EligibleFleet(c) # {}
      /\ lease' = [c \in Chars |->
           IF c \in P
           THEN [device |-> d, session |-> s, fleet |-> CHOOSE g \in Relay!EligibleFleet(c) : TRUE,
                 authority |-> slot[CHOOSE g \in Relay!EligibleFleet(c) : TRUE].gen,
                 participation |-> part[d].gen, ended |-> FALSE]
           ELSE IF c \in Relay!Omitted(d, P) THEN NoLease ELSE lease[c]]
      /\ latest' = [latest EXCEPT ![d] = P]
      /\ UNCHANGED <<owner, slot, part, wire>>
  BY DEF Relay!Publish
<1>4. P # {} => part[d].on
  BY DEF Relay!Publish, Relay!Publisher, Relay!Participant
<1>5. \A c \in Chars : Relay!EligibleFleet(c) \subseteq Fleets
  BY DEF Relay!EligibleFleet
<1>6. Relay!TypeOK
  BY DEF RelayInv
<1>7. part[d].gen \in 0..MaxGen /\ \A f \in Fleets : slot[f].gen \in 0..MaxGen
  BY <1>2, <1>6 DEF Relay!TypeOK
<1> HIDE DEF P, d, s
\* A row that is written anew, and one that stays.
<1>8. ASSUME NEW c \in P
      PROVE  /\ lease'[c] \in Relay!RowType
             /\ lease'[c].device = d /\ lease'[c].session = s
             /\ lease'[c].participation = part[d].gen /\ ~lease'[c].ended
  <2>1. PICK f \in Fleets : f = CHOOSE g \in Relay!EligibleFleet(c) : TRUE
    BY <1>2, <1>3, <1>5
  <2>2. lease'[c] = [device |-> d, session |-> s, fleet |-> f, authority |-> slot[f].gen,
                     participation |-> part[d].gen, ended |-> FALSE]
    BY <1>2, <1>3, <2>1
  <2>3. lease'[c] \in Relay!RowType
    BY <1>2, <1>7, <2>2 DEF Relay!RowType
  <2> QED BY <2>2, <2>3
<1>9. \A c \in Chars \ P : \/ lease'[c] = NoLease
                           \/ lease'[c] = lease[c] /\ c \notin Relay!RowsOf(d)
  BY <1>3 DEF Relay!Omitted
<1>10. lease' \in [Chars -> Relay!RowType \union {NoLease}]
  <2>1. \A c \in Chars : lease'[c] \in Relay!RowType \union {NoLease}
    BY <1>6, <1>8, <1>9 DEF Relay!TypeOK
  <2>2. lease' = [c \in Chars |-> lease'[c]]
    BY <1>3
  <2> QED BY <2>1, <2>2
<1>11. Relay!TypeOK' /\ IsFiniteSet(wire)'
  <2>1. latest' \in [Devices -> SUBSET Chars]
    BY <1>2, <1>3, <1>6 DEF Relay!TypeOK
  <2> QED BY <1>1, <1>3, <1>6, <1>10, <2>1 DEF RelayInv, Relay!TypeOK
<1>12. RowsExplained'
  <2> SUFFICES ASSUME NEW c \in Chars, lease'[c] # NoLease
               PROVE  /\ lease'[c].device = DeviceOf[lease'[c].session]
                      /\ lease'[c].participation <= part'[lease'[c].device].gen
                      /\ lease'[c].ended => \/ ~sess'[lease'[c].session].live
                                            \/ lease'[c].participation < part'[lease'[c].device].gen
    BY DEF RowsExplained
  <2>1. CASE c \in P
    <3>1. part[d].gen <= part[d].gen
      BY <1>7 DEF RelayConstants
    <3> QED BY <1>3, <1>8, <2>1, <3>1 DEF d
  <2>2. CASE c \notin P
    <3>1. lease'[c] = lease[c] /\ lease[c] \in Relay!RowType
      BY <1>6, <1>9, <2>2 DEF Relay!TypeOK
    <3>2. lease[c].session \in Sessions
      BY <3>1 DEF Relay!RowType
    <3> QED BY <1>1, <1>3, <3>1, <3>2 DEF RelayInv, RowsExplained
  <2> QED BY <2>1, <2>2
<1>13. Relay!LatestPublicationWins'
  <2> SUFFICES ASSUME NEW e \in Devices, NEW c \in Chars, lease'[c] # NoLease, lease'[c].device = e
               PROVE  part'[e].on /\ c \in latest'[e]
    BY DEF Relay!LatestPublicationWins, Relay!RowsOf
  <2>1. CASE c \in P
    <3>1. e = d /\ latest'[d] = P
      BY <1>2, <1>3, <1>6, <1>8, <2>1 DEF Relay!TypeOK
    <3> QED BY <1>3, <1>4, <2>1, <3>1
  <2>2. CASE c \notin P
    <3>1. c \in Relay!RowsOf(e) /\ e # d
      BY <1>9, <2>2 DEF Relay!RowsOf
    <3>2. latest'[e] = latest[e] /\ part'[e] = part[e]
      BY <1>3, <1>6, <3>1 DEF Relay!TypeOK
    <3> QED BY <3>1, <3>2 DEF RelayInv, Relay!LatestPublicationWins
  <2> QED BY <2>1, <2>2
<1> QED BY <1>1, <1>11, <1>12, <1>13 DEF RelayInv

\* A switch of the participation begins a generation, and ends what was published under the old.
LEMMA RelayParticipates ==
  ASSUME RelayConstants, RelayInv, NEW m \in wire, Relay!Participate(m)
  PROVE  RelayInv'
<1> DEFINE s == m.session
           d == DeviceOf[s]
           b == m.op.on
<1>1. /\ CountersCover'
      /\ newest' \in [Sessions -> 0..MaxMessages] /\ late' \subseteq Sessions
      /\ sess' \in [Sessions -> [live : BOOLEAN, rev : 0..MaxMessages, ack : SUBSET Relay!Caps]]
      /\ \A t \in Sessions : sess'[t].live = sess[t].live
  <2>1. Relay!Take(m, "participate") /\ Relay!Logged(m.session, m.rev) /\ sess' = Relay!Committed(m.session, m.rev)
    BY DEF Relay!Participate
  <2> QED BY <2>1, RequestCounts
<1>2. d \in Devices /\ b \in BOOLEAN
  BY RequestTyped DEF Relay!Participate
<1>3. /\ part[d].gen < MaxGen
      /\ lease' = Relay!AfterParticipation(d, b)
      /\ part' = [part EXCEPT ![d] = [on |-> b, gen |-> part[d].gen + 1]]
      /\ UNCHANGED <<owner, slot, wire, latest>>
  BY DEF Relay!Participate
<1>4. Relay!TypeOK
  BY DEF RelayInv
<1> HIDE DEF b, d, s
<1>5. part[d].gen \in 0..MaxGen /\ part[d].gen + 1 \in 0..MaxGen
  <2>1. part[d].gen \in 0..MaxGen
    BY <1>2, <1>4 DEF Relay!TypeOK
  <2> QED BY <1>3, <2>1 DEF RelayConstants
<1>6. part' \in [Devices -> [on : BOOLEAN, gen : 0..MaxGen]]
  BY <1>2, <1>3, <1>4, <1>5 DEF Relay!TypeOK
<1>7. \A e \in Devices : part[e].gen \in Nat /\ part'[e].gen \in Nat /\ part[e].gen <= part'[e].gen
  BY <1>2, <1>3, <1>4, <1>5 DEF Relay!TypeOK, RelayConstants
<1>8. part[d].gen < part'[d].gen /\ part'[d].on = b
  BY <1>2, <1>3, <1>4, <1>5 DEF Relay!TypeOK, RelayConstants
\* The rows of the device go, or are marked as of a generation that is over.
<1> DEFINE R == Relay!RowsOf(d)
<1>20. R \subseteq Chars
  BY DEF Relay!RowsOf
<1>21. \/ b = TRUE /\ lease' = [c \in Chars |-> IF c \in R THEN [lease[c] EXCEPT !.ended = TRUE] ELSE lease[c]]
       \/ b = FALSE /\ lease' = [c \in Chars |-> IF c \in R THEN NoLease ELSE lease[c]]
  <2>1. CASE b = TRUE
    BY <1>3, <2>1 DEF Relay!AfterParticipation, Relay!Ending
  <2>2. CASE b = FALSE
    BY <1>3, <2>2 DEF Relay!AfterParticipation, Relay!Deleting
  <2> QED BY <1>2, <2>1, <2>2
<1> HIDE DEF R
<1>9. \A c \in R : \/ b = FALSE /\ lease'[c] = NoLease
                   \/ b = TRUE /\ lease'[c] = [lease[c] EXCEPT !.ended = TRUE]
  BY ONLY <1>20, <1>21
<1>10. \A c \in Chars \ R : lease'[c] = lease[c]
  BY ONLY <1>21
<1>22. lease' = [c \in Chars |-> lease'[c]]
  BY ONLY <1>21
<1>11. \A c \in R :
         /\ c \in Chars /\ lease[c] # NoLease /\ lease[c] \in Relay!RowType /\ lease[c].device = d
         /\ lease[c].participation <= part[d].gen /\ lease[c].participation \in 0..MaxGen
  BY <1>4 DEF R, Relay!RowsOf, Relay!TypeOK, RelayInv, RowsExplained, Relay!RowType
<1>12. \A c \in R : lease[c].participation < part'[lease[c].device].gen
  BY <1>2, <1>5, <1>7, <1>8, <1>11 DEF RelayConstants
<1>13. lease' \in [Chars -> Relay!RowType \union {NoLease}]
  <2>1. lease' = [c \in Chars |-> lease'[c]]
    BY <1>22
  <2>2. \A c \in R : [lease[c] EXCEPT !.ended = TRUE] \in Relay!RowType
    BY <1>11 DEF Relay!RowType
  <2>3. \A c \in Chars : lease[c] \in Relay!RowType \union {NoLease}
    BY <1>4 DEF Relay!TypeOK
  <2>4. \A c \in Chars : lease'[c] \in Relay!RowType \union {NoLease}
    BY ONLY <1>9, <1>10, <2>2, <2>3
  <2> QED BY <2>1, <2>4
<1>14. Relay!TypeOK' /\ IsFiniteSet(wire)'
  BY <1>1, <1>3, <1>4, <1>6, <1>13 DEF RelayInv, Relay!TypeOK
<1>15. RowsExplained' /\ \A e \in Devices : Relay!RowsOf(e)' \subseteq Relay!RowsOf(e)
  <2>1. \A c \in Chars : lease'[c] \in {NoLease, lease[c]}
          \/ /\ lease[c] # NoLease /\ lease'[c] = [lease[c] EXCEPT !.ended = TRUE]
             /\ \/ ~sess'[lease[c].session].live
                \/ lease[c].participation < part'[lease[c].device].gen
    BY <1>9, <1>10, <1>11, <1>12
  <2> QED BY <1>1, <1>7, <1>13, <2>1, RowsOnlyGo
<1>16. Relay!LatestPublicationWins'
  <2>1. ASSUME NEW e \in Devices, NEW c \in Relay!RowsOf(e)' PROVE part'[e].on /\ c \in latest'[e]
    <3>1. c \in Relay!RowsOf(e)
      BY <1>15, <2>1
    <3>2. part[e].on /\ c \in latest'[e]
      BY <1>3, <3>1 DEF RelayInv, Relay!LatestPublicationWins
    <3>3. CASE e = d
      <4>1. lease'[c] # NoLease
        BY <2>1 DEF Relay!RowsOf
      <4> QED BY <1>8, <1>9, <3>1, <3>2, <3>3, <4>1 DEF R
    <3>4. CASE e # d
      BY <1>2, <1>3, <1>4, <3>2, <3>4 DEF Relay!TypeOK
    <3> QED BY <3>3, <3>4
  <2> QED BY <2>1 DEF Relay!LatestPublicationWins
<1> QED BY <1>1, <1>14, <1>15, <1>16 DEF RelayInv

\* Every step keeps the invariant.
LEMMA RelayStep == ASSUME RelayConstants, RelayInv, [Relay!Next]_relayVars PROVE RelayInv'
<1>1. ASSUME NEW m \in wire, Relay!Acknowledge(m) PROVE RelayInv'
  <2>1. /\ Relay!Take(m, "acknowledge") /\ Relay!Logged(m.session, m.rev)
        /\ sess' = [Relay!Committed(m.session, m.rev) EXCEPT ![m.session].ack = m.op.caps]
        /\ UNCHANGED <<owner, slot, part, lease, wire, latest>>
    BY <1>1 DEF Relay!Acknowledge
  <2>2. m.op.caps \in SUBSET Relay!Caps
    BY <2>1, RequestTyped
  <2> QED BY <2>1, <2>2, RequestAlone
<1>2. ASSUME NEW m \in wire, Relay!Read(m) PROVE RelayInv'
  BY <1>2, RequestAlone DEF Relay!Read
<1>3. ASSUME NEW m \in wire, Relay!Control(m) PROVE RelayInv'
  BY <1>3, RequestAlone DEF Relay!Control
<1>4. CASE Relay!Server
  BY <1>1, <1>2, <1>3, <1>4, RelayPublishes, RelayParticipates DEF Relay!Server
<1>5. CASE UNCHANGED relayVars
  BY <1>5 DEF relayVars, RelayInv, Relay!TypeOK, CountersCover, RowsExplained, Relay!LatestPublicationWins, Relay!RowsOf
<1> QED BY <1>4, <1>5, RelayWorld, RelaySends DEF Relay!Next

\* The relay applies each request once and in order, a device's rows are those of its latest
\* publication, and nothing of a session or a consent that has ended is shown, however requests,
\* switches and expiries are interleaved (services/fleet-relay.ts, fleet-participation.ts).
THEOREM RelayOrder == Relay!Spec => [](Relay!TypeOK /\ RelayKeepsOrder)
<1>0. RelayConstants
  BY ServicesAssumption
<1>1. Relay!Init => RelayInv
  BY <1>0, RelayInit
<1>2. RelayInv /\ [Relay!Next]_relayVars => RelayInv'
  BY <1>0, RelayStep
<1>3. RelayInv => Relay!TypeOK /\ RelayKeepsOrder
  BY <1>0, RelayShows DEF RelayInv
<1> QED BY <1>1, <1>2, <1>3, PTL DEF Relay!Spec, Relay!vars, relayVars

-----------------------------------------------------------------------------
(* The jobs that push. *)
LinkUnique == \A a, b \in Accounts : link[a] = link[b] /\ link[a] # NoUser => a = b

\* The roles a user is due, and the wake-ups that make the job look at the user.
Due(u) == UNION {Push!RolesDue(tier[a]) : a \in Push!LinkedTo(u)}
Reaches(w, u) ==
  /\ w.job = "roles"
  /\ \/ w.scope = "all" /\ Push!LinkedTo(u) # {}
     \/ w.scope = "account" /\ w.who \in Push!LinkedTo(u)
     \/ w.scope = "user" /\ w.who = u /\ Push!LinkedTo(u) = {}
Untold(u)    == \A w \in queue : ~Reaches(w, u)
NoneFor(j)   == \A w \in queue : w.job # j

Mends(r, u) == /\ Due(u) \subseteq roles[u] \union r.add /\ roles[u] \subseteq Due(u) \union r.remove
               /\ r.add \subseteq Due(u) /\ r.remove \intersect Due(u) = {}
RolesVisit(r, u) ==
  /\ \A x \in r.todo : x.user = u => Push!RolesDue(x.tier) = Due(u) /\ Reaches(r.wake, u)
  /\ r.at # Idle /\ r.at.user = u => Reaches(r.wake, u)
  /\ u \in r.missed => Reaches(r.wake, u)
RolesOnWay(r, u) ==
  \/ \E x \in r.todo : x.user = u
  \/ u \in r.missed
  \/ r.at # Idle /\ r.at.user = u /\ Mends(r, u)
  \/ (r.at # Idle => r.at.user # u) /\ roles[u] = Due(u)
\* While nothing waits that would look at a user, whoever is not as due is on the way of the
\* run, or has drifted.
RolesPart ==
  /\ run["roles"] # Idle => run["roles"].third = {}
  /\ \A u \in Users : Untold(u) =>
       IF run["roles"] = Idle THEN u \notin drift => roles[u] = Due(u)
       ELSE RolesVisit(run["roles"], u) /\ (u \notin drift => RolesOnWay(run["roles"], u))

Listed(c) == acl[c] \in IF c \in Push!Wanted THEN {"viewer", "admin"} ELSE {"none", "admin", "blocked"}
AclMends(r, c) == /\ c \in Push!Wanted => /\ acl[c] = "none" => c \in r.add
                                          /\ acl[c] = "blocked" => c \in r.third
                  /\ c \notin Push!Wanted /\ acl[c] = "viewer" => c \in r.remove
                  /\ r.seen # Idle => r.seen[c] = acl[c]
AclOnWay(r, c) ==
  \/ r.todo # {}
  \/ Characters \subseteq r.missed
  \/ r.at # Idle /\ AclMends(r, c)
  \/ r.at = Idle /\ Listed(c) /\ observed[c] = acl[c]
AclRun(r) ==
  /\ r.wanted = Push!Wanted
  /\ r.at # Idle => /\ r.todo = {}
                    /\ r.add \union r.third \subseteq Push!Wanted
                    /\ r.remove \intersect Push!Wanted = {}
  /\ \A c \in Characters \ drift : AclOnWay(r, c)
AclPart ==
  NoneFor("acl") =>
    IF run["acl"] = Idle THEN \A c \in Characters \ drift : Listed(c) /\ observed[c] = acl[c]
    ELSE AclRun(run["acl"])

Kept(c, d) == IF d \in Push!Wanted \ {c} THEN book[c][d] = "ours" ELSE book[c][d] \notin {"ours", "restanding"}
BookMends(r, c, d) ==
  IF d \in Push!Wanted \ {c}
  THEN (book[c][d] = "absent" => d \in r.add) /\ (book[c][d] \in {"foreign", "restanding"} => d \in r.third)
  ELSE book[c][d] \in {"ours", "restanding"} => d \in r.remove
ContactsRun(r) ==
  /\ r.wanted = Push!Wanted
  /\ r.at # Idle => /\ r.add \union r.third \subseteq Push!Wanted \ {r.at}
                    /\ r.remove \intersect (Push!Wanted \ {r.at}) = {}
                    /\ ~r.clean => ~result[r.at]
                    /\ r.clean => \A d \in Characters : <<r.at, d>> \notin drift => BookMends(r, r.at, d)
  /\ \A c \in Push!Wanted, d \in Characters :
       result[c] /\ <<c, d>> \notin drift /\ r.at # c => c \in r.todo \/ Kept(c, d)
ContactsPart ==
  NoneFor("contacts") =>
    IF run["contacts"] = Idle
    THEN \A c \in Push!Wanted, d \in Characters : result[c] /\ <<c, d>> \notin drift => Kept(c, d)
    ELSE ContactsRun(run["contacts"])

PushInv == Push!TypeOK /\ LinkUnique /\ RolesPart /\ AclPart /\ ContactsPart

\* The invariant says what the run checks: with no job waiting or running, each target follows.
LEMMA PushShows == ASSUME PushConstants, PushInv PROVE TargetsFollow
<1>1. Push!RolesFollow
  <2> SUFFICES ASSUME NEW u \in Users \ drift, run["roles"] = Idle, \A w \in queue : ~Push!Concerns(w, u)
               PROVE  roles[u] = UNION {Push!RolesDue(tier[a]) : a \in Push!LinkedTo(u)}
    BY DEF Push!RolesFollow
  <2>1. \A w \in queue : ~Reaches(w, u)
    BY DEF Reaches, Push!Concerns
  <2> QED BY <2>1 DEF PushInv, RolesPart, Untold, Due
<1>2. Push!AclFollows
  BY DEF Push!AclFollows, Push!Settled, PushInv, AclPart, NoneFor, Listed
<1>3. Push!ContactsFollow
  <2> SUFFICES ASSUME Push!Settled("contacts"), NEW c \in Push!Wanted, NEW d \in Characters, result[c], <<c, d>> \notin drift
               PROVE  (book[c][d] = "ours") = (d \in Push!Wanted \ {c}) /\ (d \notin Push!Wanted => book[c][d] # "restanding")
    BY DEF Push!ContactsFollow
  <2>1. Kept(c, d)
    BY DEF Push!Settled, PushInv, ContactsPart, NoneFor
  <2> QED BY <2>1 DEF Kept
<1> QED BY <1>1, <1>2, <1>3 DEF TargetsFollow, Push!TargetsFollow

\* Before anybody is linked or admitted, everything is as due.
LEMMA PushInit == ASSUME PushConstants, Push!Init PROVE PushInv
<1>1. \A u \in Users : Push!LinkedTo(u) = {}
  BY DEF Push!Init, Push!LinkedTo, PushConstants
<1>2. \A u \in Users : Due(u) = {}
  BY <1>1 DEF Due
<1>3. Push!Wanted = {}
  BY DEF Push!Init, Push!Wanted, PushConstants
<1>4. RolesPart
  BY <1>2 DEF RolesPart, Push!Init, PushJobs
<1>5. AclPart
  BY <1>3 DEF AclPart, Push!Init, Listed, PushJobs
<1>6. ContactsPart
  BY <1>3 DEF ContactsPart, Push!Init, PushJobs
<1>7. LinkUnique
  BY DEF LinkUnique, Push!Init
<1>8. Push!TypeOK
  BY DEF Push!Init, Push!TypeOK, PushConstants, Push!AclRoles, Push!Contacts
<1> QED BY <1>4, <1>5, <1>6, <1>7, <1>8 DEF PushInv

\* What a part of the invariant rests on is as it was, or the job has been told.
LEMMA RolesFrame ==
  ASSUME RolesPart, run'["roles"] = run["roles"], roles' = roles,
         \A u \in Users : Untold(u)' => Untold(u) /\ Push!LinkedTo(u)' = Push!LinkedTo(u) /\ Due(u)' = Due(u),
         \A u \in Users : u \in drift => u \in drift'
  PROVE  RolesPart'
<1> SUFFICES ASSUME NEW u \in Users, Untold(u)'
             PROVE  IF run'["roles"] = Idle THEN u \notin drift' => roles'[u] = Due(u)'
                    ELSE RolesVisit(run["roles"], u)' /\ (u \notin drift' => RolesOnWay(run["roles"], u)')
  BY DEF RolesPart
<1>1. Untold(u) /\ Push!LinkedTo(u)' = Push!LinkedTo(u) /\ Due(u)' = Due(u)
  OBVIOUS
<1>2. \A w : Reaches(w, u)' <=> Reaches(w, u)
  BY <1>1 DEF Reaches
<1>3. CASE run["roles"] = Idle
  BY <1>1, <1>3 DEF RolesPart
<1>4. CASE run["roles"] # Idle
  <2>1. PICK r : r = run["roles"]
    OBVIOUS
  <2>2. RolesVisit(r, u) /\ (u \notin drift => RolesOnWay(r, u)) /\ run'["roles"] = r
    BY <1>1, <1>4, <2>1 DEF RolesPart
  <2>3. RolesVisit(r, u)'
    BY <1>1, <1>2, <2>2 DEF RolesVisit
  <2>4. u \notin drift' => RolesOnWay(r, u)'
    BY <1>1, <2>2 DEF RolesOnWay, Mends
  <2> QED BY <1>4, <2>1, <2>2, <2>3, <2>4
<1> QED BY <1>3, <1>4

\* The same of the access list.
LEMMA AclFrame ==
  ASSUME AclPart, run'["acl"] = run["acl"], acl' = acl, observed' = observed,
         NoneFor("acl")' => NoneFor("acl") /\ Push!Wanted' = Push!Wanted,
         \A c \in Characters : c \in drift => c \in drift'
  PROVE  AclPart'
<1> SUFFICES ASSUME NoneFor("acl")'
             PROVE  IF run'["acl"] = Idle THEN \A c \in Characters \ drift' : Listed(c)' /\ observed'[c] = acl'[c]
                    ELSE AclRun(run["acl"])'
  BY DEF AclPart
<1>1. \A c \in Characters \ drift' : c \in Characters \ drift
  OBVIOUS
<1>2. CASE run["acl"] = Idle
  BY <1>1, <1>2 DEF AclPart, Listed
<1>3. CASE run["acl"] # Idle
  <2>1. PICK r : r = run["acl"]
    OBVIOUS
  <2>2. AclRun(r) /\ run'["acl"] = r
    BY <1>3, <2>1 DEF AclPart
  <2>3. AclRun(r)'
    BY <1>1, <2>2 DEF AclRun, AclOnWay, AclMends, Listed
  <2> QED BY <1>3, <2>1, <2>2, <2>3
<1> QED BY <1>2, <1>3

\* The same of the contacts.
LEMMA ContactsFrame ==
  ASSUME ContactsPart, run'["contacts"] = run["contacts"], book' = book, result' = result,
         NoneFor("contacts")' => NoneFor("contacts") /\ Push!Wanted' = Push!Wanted,
         \A c, d \in Characters : <<c, d>> \in drift => <<c, d>> \in drift',
         run["contacts"] # Idle => run["contacts"].at \in Characters \union {Idle}
  PROVE  ContactsPart'
<1> SUFFICES ASSUME NoneFor("contacts")'
             PROVE  IF run'["contacts"] = Idle
                    THEN \A c \in Push!Wanted', d \in Characters : result'[c] /\ <<c, d>> \notin drift' => Kept(c, d)'
                    ELSE ContactsRun(run["contacts"])'
  BY DEF ContactsPart
<1>1. Push!Wanted' = Push!Wanted /\ Push!Wanted \subseteq Characters
  BY DEF Push!Wanted
<1>2. CASE run["contacts"] = Idle
  BY <1>1, <1>2 DEF ContactsPart, Kept
<1>3. CASE run["contacts"] # Idle
  <2>1. PICK r : r = run["contacts"]
    OBVIOUS
  <2>2. ContactsRun(r) /\ run'["contacts"] = r /\ r.at \in Characters \union {Idle}
    BY <1>3, <2>1 DEF ContactsPart
  <2>3. \A c \in Push!Wanted, d \in Characters :
          result'[c] /\ <<c, d>> \notin drift' /\ r.at # c => c \in r.todo \/ Kept(c, d)'
    BY <1>1, <2>2 DEF ContactsRun, Kept
  <2>4. ASSUME r.at # Idle, r.clean, NEW d \in Characters, <<r.at, d>> \notin drift' PROVE BookMends(r, r.at, d)'
    BY <1>1, <2>2, <2>4 DEF ContactsRun, BookMends
  <2>5. ContactsRun(r)'
    BY <1>1, <2>2, <2>3, <2>4 DEF ContactsRun
  <2> QED BY <1>3, <2>1, <2>2, <2>5
<1> QED BY <1>2, <1>3

\* What is due rests on tiers, links and characters alone.
LEMMA SameFacts ==
  ASSUME UNCHANGED <<tier, link, invalid>>
  PROVE  /\ \A u : Push!LinkedTo(u)' = Push!LinkedTo(u) /\ Due(u)' = Due(u)
         /\ \A w, u : Reaches(w, u)' <=> Reaches(w, u)
         /\ Push!Wanted' = Push!Wanted
<1>1. \A u : Push!LinkedTo(u)' = Push!LinkedTo(u)
  BY DEF Push!LinkedTo
<1>2. \A u : Due(u)' = Due(u)
  BY <1>1 DEF Due
<1>3. \A w, u : Reaches(w, u)' <=> Reaches(w, u)
  BY <1>1 DEF Reaches
<1>4. Push!Wanted' = Push!Wanted
  BY DEF Push!Wanted
<1> QED BY <1>1, <1>2, <1>3, <1>4

\* No part of the invariant notices a step of another job.
LEMMA OtherJob ==
  ASSUME PushConstants, PushInv, UNCHANGED <<tier, link, invalid>>, NEW j \in PushJobs,
         \A k \in PushJobs \ {j} : run'[k] = run[k],
         \A w \in queue : w.job # j => w \in queue',
         j # "roles" => roles' = roles,
         j # "acl" => acl' = acl /\ observed' = observed,
         j # "contacts" => book' = book /\ result' = result,
         \A x \in drift : x \in Push!Things(j) \/ x \in drift'
  PROVE  (j # "roles" => RolesPart') /\ (j # "acl" => AclPart') /\ (j # "contacts" => ContactsPart')
<1>1. /\ \A u : Push!LinkedTo(u)' = Push!LinkedTo(u) /\ Due(u)' = Due(u)
      /\ \A w, u : Reaches(w, u)' <=> Reaches(w, u)
      /\ Push!Wanted' = Push!Wanted
  BY SameFacts
<1>2. /\ \A k \in Users : k \in Push!Things(j) => j = "roles"
      /\ \A k \in Characters : k \in Push!Things(j) => j = "acl"
      /\ \A c, d \in Characters : <<c, d>> \in Push!Things(j) => j = "contacts"
  BY DEF Push!Things, PushConstants, PushJobs
<1>3. ASSUME j # "roles" PROVE RolesPart'
  <2>1. \A u \in Users : Untold(u)' => Untold(u)
    BY <1>1, <1>3 DEF Untold, Reaches
  <2>2. run'["roles"] = run["roles"]
    BY <1>3 DEF PushJobs
  <2> QED BY <1>1, <1>2, <1>3, <2>1, <2>2, RolesFrame DEF PushInv
<1>4. ASSUME j # "acl" PROVE AclPart'
  <2>1. NoneFor("acl")' => NoneFor("acl")
    BY <1>4 DEF NoneFor
  <2>2. run'["acl"] = run["acl"]
    BY <1>4 DEF PushJobs
  <2> QED BY <1>1, <1>2, <1>4, <2>1, <2>2, AclFrame DEF PushInv
<1>5. ASSUME j # "contacts" PROVE ContactsPart'
  <2>1. NoneFor("contacts")' => NoneFor("contacts")
    BY <1>5 DEF NoneFor
  <2>2. run'["contacts"] = run["contacts"]
    BY <1>5 DEF PushJobs
  <2>3. run["contacts"] # Idle => run["contacts"].at \in Characters \union {Idle}
    BY DEF PushInv, Push!TypeOK, Push!RunType, Push!Targets, PushJobs
  <2> QED BY <1>1, <1>2, <1>5, <2>1, <2>2, <2>3, ContactsFrame DEF PushInv
<1> QED BY <1>3, <1>4, <1>5

-----------------------------------------------------------------------------
(* What members change, each with its wake-ups. *)

\* Every wake-up a change enqueues is one of the jobs'.
LEMMA WakesTyped ==
  ASSUME PushConstants
  PROVE  /\ \A a \in Accounts : Push!AccountWakes(a) \subseteq Push!AllWakes \union Push!RoleWakes
         /\ \A u \in Users : Push!UserWake(u) \subseteq Push!RoleWakes
         /\ \A j \in PushJobs : Push!Wake(j, "all", "all") \in Push!AllWakes \union Push!RoleWakes
         /\ \A w \in Push!AllWakes \union Push!RoleWakes : w.job \in PushJobs
<1>1. \A a \in Accounts : Push!AccountWakes(a) \subseteq Push!AllWakes \union Push!RoleWakes
  BY DEF Push!AccountWakes, Push!AllWakes, Push!RoleWakes
<1>2. \A u \in Users : Push!UserWake(u) \subseteq Push!RoleWakes
  BY DEF Push!UserWake, Push!RoleWakes
<1>3. \A j \in PushJobs : Push!Wake(j, "all", "all") \in Push!AllWakes \union Push!RoleWakes
  BY DEF Push!AllWakes, Push!RoleWakes, PushJobs
<1>4. /\ \A w \in Push!AllWakes : w.job \in {"acl", "contacts"}
      /\ \A w \in Push!RoleWakes : w.job = "roles"
  BY DEF Push!AllWakes, Push!RoleWakes, Push!Wake
<1> QED BY <1>1, <1>2, <1>3, <1>4 DEF PushJobs

\* All of them are looked at.
LEMMA Enqueues ==
  ASSUME PushConstants, NEW W \in SUBSET (Push!AllWakes \union Push!RoleWakes)
  PROVE  Push!Enqueued(W) = queue \union W
  BY WakesTyped DEF Push!Enqueued

\* A change keeps the invariant if whoever it concerns has been told.
LEMMA MembersFrame ==
  ASSUME PushConstants, PushInv, UNCHANGED <<guild, run, roles, acl, book, observed, result, drift>>,
         tier' \in [Accounts -> Tiers], link' \in [Accounts -> Users \union {NoUser}],
         invalid' \subseteq Characters, LinkUnique',
         NEW W \in SUBSET (Push!AllWakes \union Push!RoleWakes), queue' = Push!Enqueued(W),
         \A u \in Users : Untold(u)' => Push!LinkedTo(u)' = Push!LinkedTo(u) /\ Due(u)' = Due(u),
         \A j \in {"acl", "contacts"} : NoneFor(j)' => Push!Wanted' = Push!Wanted
  PROVE  PushInv'
<1>1. queue' = queue \union W
  BY Enqueues
<1>2. Push!TypeOK'
  BY <1>1, WakesTyped DEF PushInv, Push!TypeOK
<1>3. \A u \in Users : Untold(u)' => Untold(u)
  BY <1>1 DEF Untold, Reaches
<1>4. \A j \in {"acl", "contacts"} : NoneFor(j)' => NoneFor(j)
  BY <1>1 DEF NoneFor
<1>5. RolesPart'
  BY <1>3, RolesFrame DEF PushInv
<1>6. AclPart'
  BY <1>4, AclFrame DEF PushInv
<1>7. run["contacts"] # Idle => run["contacts"].at \in Characters \union {Idle}
  BY DEF PushInv, Push!TypeOK, Push!RunType, Push!Targets, PushJobs
<1>8. ContactsPart'
  BY <1>4, <1>7, ContactsFrame DEF PushInv
<1> QED BY <1>2, <1>5, <1>6, <1>8 DEF PushInv

\* What is due to a user rests on the tiers of the accounts linked to it.
LEMMA SameDue ==
  ASSUME NEW u, Push!LinkedTo(u)' = Push!LinkedTo(u), \A a \in Push!LinkedTo(u) : tier'[a] = tier[a]
  PROVE  Due(u)' = Due(u)
<1>1. {Push!RolesDue(tier'[a]) : a \in Push!LinkedTo(u)} = {Push!RolesDue(tier[a]) : a \in Push!LinkedTo(u)}
  OBVIOUS
<1> QED BY <1>1 DEF Due

\* Who enqueues the wake-ups of an account has told the user linked to it, and both lists.
LEMMA AccountTold ==
  ASSUME NEW a \in Accounts, Push!AccountWakes(a) \subseteq queue'
  PROVE  /\ \A u \in Users : Untold(u)' => a \notin Push!LinkedTo(u)'
         /\ ~NoneFor("acl")' /\ ~NoneFor("contacts")'
<1>1. /\ Push!Wake("roles", "account", a) \in queue' /\ Push!Wake("acl", "all", "all") \in queue'
      /\ Push!Wake("contacts", "all", "all") \in queue'
  BY DEF Push!AccountWakes
<1>2. /\ Push!Wake("roles", "account", a).job = "roles" /\ Push!Wake("roles", "account", a).scope = "account"
      /\ Push!Wake("roles", "account", a).who = a
      /\ Push!Wake("acl", "all", "all").job = "acl" /\ Push!Wake("contacts", "all", "all").job = "contacts"
  BY DEF Push!Wake
<1> QED BY <1>1, <1>2 DEF Untold, Reaches, NoneFor

\* Who enqueues the wake-up of a user has told the user, unless it is linked.
LEMMA UserTold ==
  ASSUME NEW u \in Users, Push!UserWake(u) \subseteq queue', Untold(u)'
  PROVE  Push!LinkedTo(u)' # {}
<1>1. Push!Wake("roles", "user", u) \in queue'
  BY DEF Push!UserWake
<1>2. /\ Push!Wake("roles", "user", u).job = "roles" /\ Push!Wake("roles", "user", u).scope = "user"
      /\ Push!Wake("roles", "user", u).who = u
  BY DEF Push!Wake
<1> QED BY <1>1, <1>2 DEF Untold, Reaches

\* Each change by a member or by the membership job tells whom it concerns.
LEMMA MembersStep == ASSUME PushConstants, PushInv, Push!Members PROVE PushInv'
<1>0. /\ tier \in [Accounts -> Tiers] /\ link \in [Accounts -> Users \union {NoUser}]
      /\ invalid \subseteq Characters /\ LinkUnique
  BY DEF PushInv, Push!TypeOK
<1>1. ASSUME NEW a \in Accounts, NEW t \in Tiers, Push!SetTier(a, t) PROVE PushInv'
  <2>1. /\ tier' = [tier EXCEPT ![a] = t] /\ queue' = Push!Enqueued(Push!AccountWakes(a))
        /\ UNCHANGED <<link, invalid, guild, run, roles, acl, book, observed, result, drift>>
    BY <1>1 DEF Push!SetTier, Push!remotes, Push!records
  <2>2. Push!AccountWakes(a) \subseteq queue' /\ Push!AccountWakes(a) \subseteq Push!AllWakes \union Push!RoleWakes
    BY <2>1, WakesTyped, Enqueues
  <2>3. \A u \in Users : Push!LinkedTo(u)' = Push!LinkedTo(u)
    BY <2>1 DEF Push!LinkedTo
  <2>4. ASSUME NEW u \in Users, Untold(u)' PROVE Due(u)' = Due(u)
    <3>1. a \notin Push!LinkedTo(u)
      BY <2>2, <2>3, <2>4, AccountTold
    <3>2. \A b \in Push!LinkedTo(u) : tier'[b] = tier[b]
      BY <1>0, <2>1, <3>1 DEF Push!LinkedTo
    <3> QED BY <2>3, <3>2, SameDue
  <2>5. ~NoneFor("acl")' /\ ~NoneFor("contacts")'
    BY <2>2, AccountTold
  <2>6. tier' \in [Accounts -> Tiers] /\ LinkUnique'
    BY <1>0, <2>1 DEF LinkUnique
  <2> QED BY <1>0, <2>1, <2>2, <2>3, <2>4, <2>5, <2>6, MembersFrame
<1>2. ASSUME NEW c \in Characters, Push!Biomass(c) PROVE PushInv'
  <2>1. /\ invalid' = invalid \union {c} /\ queue' = Push!Enqueued(Push!AccountWakes(OwnerOf[c]))
        /\ UNCHANGED <<tier, link, guild, run, roles, acl, book, observed, result, drift>>
    BY <1>2 DEF Push!Biomass, Push!remotes, Push!records
  <2>2. OwnerOf[c] \in Accounts
    BY DEF PushConstants
  <2>3. /\ Push!AccountWakes(OwnerOf[c]) \subseteq queue'
        /\ Push!AccountWakes(OwnerOf[c]) \subseteq Push!AllWakes \union Push!RoleWakes
    BY <2>1, <2>2, WakesTyped, Enqueues
  <2>4. \A u \in Users : Push!LinkedTo(u)' = Push!LinkedTo(u)
    BY <2>1 DEF Push!LinkedTo
  <2>5. \A u \in Users : Due(u)' = Due(u)
    BY <2>1, <2>4, SameDue
  <2>6. ~NoneFor("acl")' /\ ~NoneFor("contacts")'
    BY <2>2, <2>3, AccountTold
  <2>7. invalid' \subseteq Characters /\ LinkUnique'
    BY <1>0, <2>1 DEF LinkUnique
  <2> QED BY <1>0, <2>1, <2>3, <2>4, <2>5, <2>6, <2>7, MembersFrame
<1>3. ASSUME NEW a \in Accounts, NEW u \in Users, Push!LinkDiscord(a, u) PROVE PushInv'
  <2> DEFINE replaced == {link[a]} \ {NoUser, u}
             W == Push!AccountWakes(a) \union UNION {Push!UserWake(p) : p \in replaced}
  <2>1. /\ Push!LinkedTo(u) \subseteq {a} /\ queue' = Push!Enqueued(W) /\ link' = [link EXCEPT ![a] = u]
        /\ UNCHANGED <<tier, invalid, guild, run, roles, acl, book, observed, result, drift>>
    BY <1>3 DEF Push!LinkDiscord, Push!remotes, Push!records
  <2>2. replaced \subseteq Users
    BY <1>0
  <2>3. W \subseteq Push!AllWakes \union Push!RoleWakes
    BY <2>2, WakesTyped
  <2>4. W \subseteq queue'
    BY <2>1, <2>3, Enqueues
  <2>5. Push!AccountWakes(a) \subseteq queue' /\ \A p \in replaced : Push!UserWake(p) \subseteq queue'
    BY <2>4
  <2> HIDE DEF W
  <2>6. link' \in [Accounts -> Users \union {NoUser}]
    BY <1>0, <2>1
  <2>7. LinkUnique'
    BY <1>0, <2>1 DEF LinkUnique, Push!LinkedTo
  <2>8. ASSUME NEW v \in Users, Untold(v)' PROVE Push!LinkedTo(v)' = Push!LinkedTo(v) /\ Due(v)' = Due(v)
    <3>1. v # u
      <4>1. a \notin Push!LinkedTo(v)'
        BY <2>5, <2>8, AccountTold
      <4> QED BY <1>0, <2>1, <4>1 DEF Push!LinkedTo
    <3>2. link[a] # v
      <4>1. SUFFICES ASSUME link[a] = v PROVE FALSE
        OBVIOUS
      <4>2. v \in replaced
        BY <3>1, <4>1 DEF PushConstants
      <4>3. Push!LinkedTo(v)' # {}
        BY <2>5, <2>8, <4>2, UserTold
      <4>4. PICK b \in Accounts : link'[b] = v
        BY <4>3 DEF Push!LinkedTo
      <4>5. b # a /\ link[b] = v
        BY <1>0, <2>1, <3>1, <4>4
      <4> QED BY <1>0, <4>1, <4>5 DEF LinkUnique, PushConstants
    <3>3. Push!LinkedTo(v)' = Push!LinkedTo(v)
      BY <1>0, <2>1, <3>1, <3>2 DEF Push!LinkedTo
    <3> QED BY <2>1, <3>3, SameDue
  <2>9. ~NoneFor("acl")' /\ ~NoneFor("contacts")'
    BY <2>5, AccountTold
  <2> QED BY <1>0, <2>1, <2>3, <2>6, <2>7, <2>8, <2>9, MembersFrame
<1>4. ASSUME NEW a \in Accounts, Push!UnlinkDiscord(a) PROVE PushInv'
  <2>1. PICK u : u = link[a]
    OBVIOUS
  <2>2. /\ u # NoUser /\ queue' = Push!Enqueued(Push!UserWake(u)) /\ link' = [link EXCEPT ![a] = NoUser]
        /\ UNCHANGED <<tier, invalid, guild, run, roles, acl, book, observed, result, drift>>
    BY <1>4, <2>1 DEF Push!UnlinkDiscord, Push!remotes, Push!records
  <2>3. u \in Users
    BY <1>0, <2>1, <2>2
  <2>4. Push!UserWake(u) \subseteq queue' /\ Push!UserWake(u) \subseteq Push!AllWakes \union Push!RoleWakes
    BY <2>2, <2>3, WakesTyped, Enqueues
  <2>5. link' \in [Accounts -> Users \union {NoUser}] /\ LinkUnique'
    BY <1>0, <2>2 DEF LinkUnique
  <2>6. ASSUME NEW v \in Users, Untold(v)' PROVE Push!LinkedTo(v)' = Push!LinkedTo(v) /\ Due(v)' = Due(v)
    <3>1. v # u
      <4>1. SUFFICES ASSUME v = u PROVE FALSE
        OBVIOUS
      <4>2. PICK b \in Accounts : link'[b] = u
        BY <2>4, <2>6, <4>1, UserTold DEF Push!LinkedTo
      <4>3. b # a /\ link[b] = u
        BY <1>0, <2>2, <2>3, <4>2 DEF PushConstants
      <4> QED BY <1>0, <2>1, <2>2, <4>3 DEF LinkUnique
    <3>2. Push!LinkedTo(v)' = Push!LinkedTo(v)
      BY <1>0, <2>1, <2>2, <3>1 DEF Push!LinkedTo, PushConstants
    <3> QED BY <2>2, <3>2, SameDue
  <2>7. Push!Wanted' = Push!Wanted
    BY <2>2 DEF Push!Wanted
  <2> QED BY <1>0, <2>2, <2>4, <2>5, <2>6, <2>7, MembersFrame
<1> QED BY <1>1, <1>2, <1>3, <1>4 DEF Push!Members

\* A tick only adds a wake-up.
LEMMA SyncAllStep == ASSUME PushConstants, PushInv, NEW j \in PushJobs, Push!SyncAll(j) PROVE PushInv'
<1>1. /\ queue' = Push!Enqueued({Push!Wake(j, "all", "all")})
      /\ UNCHANGED <<tier, link, invalid, guild, run, roles, acl, book, observed, result, drift>>
  BY DEF Push!SyncAll, Push!facts, Push!remotes, Push!records
<1>2. {Push!Wake(j, "all", "all")} \subseteq Push!AllWakes \union Push!RoleWakes
  BY WakesTyped
<1>3. /\ \A u : Push!LinkedTo(u)' = Push!LinkedTo(u) /\ Due(u)' = Due(u)
      /\ Push!Wanted' = Push!Wanted
  BY <1>1, SameFacts
<1>4. /\ tier' \in [Accounts -> Tiers] /\ link' \in [Accounts -> Users \union {NoUser}]
      /\ invalid' \subseteq Characters /\ LinkUnique'
  BY <1>1 DEF PushInv, Push!TypeOK, LinkUnique
<1> QED BY <1>1, <1>2, <1>3, <1>4, MembersFrame

-----------------------------------------------------------------------------
(* What others change at the remotes. *)

\* A run whose target somebody else edits has drifted there.
LEMMA OthersStep == ASSUME PushConstants, PushInv, Push!Others PROVE PushInv'
<1>0. /\ Push!TypeOK /\ LinkUnique
  BY DEF PushInv
<1>1. ASSUME UNCHANGED <<tier, link, invalid, queue, run, observed, result>>, guild' \subseteq Users,
             NEW j \in PushJobs, NEW x \in Push!Things(j), drift' = drift \union {x},
             IF j = "roles" THEN /\ roles' \in [Users -> SUBSET Push!Managed]
                                 /\ \A u \in Users : u # x => roles'[u] = roles[u]
             ELSE roles' = roles,
             IF j = "acl" THEN /\ acl' \in [Characters -> Push!AclRoles]
                               /\ \A c \in Characters : c # x => acl'[c] = acl[c]
             ELSE acl' = acl,
             IF j = "contacts" THEN /\ book' \in [Characters -> [Characters -> Push!Contacts]]
                                    /\ \A c, d \in Characters : <<c, d>> # x => book'[c][d] = book[c][d]
             ELSE book' = book
      PROVE  PushInv'
  <2>1. Push!TypeOK' /\ LinkUnique'
    BY <1>0, <1>1 DEF Push!TypeOK, LinkUnique
  <2>2. (j # "roles" => RolesPart') /\ (j # "acl" => AclPart') /\ (j # "contacts" => ContactsPart')
    <3>1. /\ \A k \in PushJobs \ {j} : run'[k] = run[k]
          /\ \A w \in queue : w.job # j => w \in queue'
          /\ \A y \in drift : y \in Push!Things(j) \/ y \in drift'
          /\ j # "roles" => roles' = roles
          /\ j # "acl" => acl' = acl /\ observed' = observed
          /\ j # "contacts" => book' = book /\ result' = result
      BY <1>1
    <3> QED BY <1>1, <3>1, OtherJob
  <2>3. /\ \A u : Push!LinkedTo(u)' = Push!LinkedTo(u) /\ Due(u)' = Due(u)
        /\ \A w, u : Reaches(w, u)' <=> Reaches(w, u)
        /\ Push!Wanted' = Push!Wanted
    BY <1>1, SameFacts
  <2>4. ASSUME j = "roles" PROVE RolesPart'
    <3> SUFFICES ASSUME NEW u \in Users, Untold(u)'
                 PROVE  IF run'["roles"] = Idle THEN u \notin drift' => roles'[u] = Due(u)'
                        ELSE RolesVisit(run["roles"], u)' /\ (u \notin drift' => RolesOnWay(run["roles"], u)')
      BY <1>0, <1>1 DEF RolesPart, PushInv
    <3>1. Untold(u)
      BY <1>1, <2>3 DEF Untold
    <3>2. u \notin drift' => u \notin drift /\ roles'[u] = roles[u]
      BY <1>1, <2>4
    <3>3. CASE run["roles"] = Idle
      BY <1>1, <2>3, <3>1, <3>2, <3>3 DEF PushInv, RolesPart
    <3>4. CASE run["roles"] # Idle
      <4>1. PICK r : r = run["roles"]
        OBVIOUS
      <4>2. RolesVisit(r, u) /\ (u \notin drift => RolesOnWay(r, u)) /\ run'["roles"] = r
        BY <1>1, <3>1, <3>4, <4>1 DEF PushInv, RolesPart
      <4>3. RolesVisit(r, u)'
        BY <2>3, <4>2 DEF RolesVisit
      <4>4. u \notin drift' => RolesOnWay(r, u)'
        BY <2>3, <3>2, <4>2 DEF RolesOnWay, Mends
      <4> QED BY <3>4, <4>1, <4>2, <4>3, <4>4
    <3> QED BY <3>3, <3>4
  <2>5. ASSUME j = "acl" PROVE AclPart'
    <3> SUFFICES ASSUME NoneFor("acl")'
                 PROVE  IF run'["acl"] = Idle THEN \A c \in Characters \ drift' : Listed(c)' /\ observed'[c] = acl'[c]
                        ELSE AclRun(run["acl"])'
      BY <1>1 DEF AclPart
    <3>1. NoneFor("acl")
      BY <1>1 DEF NoneFor
    <3>2. \A c \in Characters \ drift' : c \in Characters \ drift /\ acl'[c] = acl[c]
      BY <1>1, <2>5
    <3>3. CASE run["acl"] = Idle
      BY <1>1, <2>3, <3>1, <3>2, <3>3 DEF PushInv, AclPart, Listed
    <3>4. CASE run["acl"] # Idle
      <4>1. PICK r : r = run["acl"]
        OBVIOUS
      <4>2. AclRun(r) /\ run'["acl"] = r
        BY <1>1, <3>1, <3>4, <4>1 DEF PushInv, AclPart
      <4>3. AclRun(r)'
        BY <1>1, <2>3, <3>2, <4>2 DEF AclRun, AclOnWay, AclMends, Listed
      <4> QED BY <3>4, <4>1, <4>2, <4>3
    <3> QED BY <3>3, <3>4
  <2>6. ASSUME j = "contacts" PROVE ContactsPart'
    <3> SUFFICES ASSUME NoneFor("contacts")'
                 PROVE  IF run'["contacts"] = Idle
                        THEN \A c \in Push!Wanted', d \in Characters : result'[c] /\ <<c, d>> \notin drift' => Kept(c, d)'
                        ELSE ContactsRun(run["contacts"])'
      BY <1>1 DEF ContactsPart
    <3>1. NoneFor("contacts") /\ Push!Wanted \subseteq Characters
      BY <1>1 DEF NoneFor, Push!Wanted
    <3>2. \A c, d \in Characters : <<c, d>> \notin drift' => <<c, d>> \notin drift /\ book'[c][d] = book[c][d]
      BY <1>1, <2>6
    <3>3. CASE run["contacts"] = Idle
      BY <1>1, <2>3, <3>1, <3>2, <3>3 DEF PushInv, ContactsPart, Kept
    <3>4. CASE run["contacts"] # Idle
      <4>1. PICK r : r = run["contacts"]
        OBVIOUS
      <4>2. ContactsRun(r) /\ run'["contacts"] = r
        BY <1>1, <3>1, <3>4, <4>1 DEF PushInv, ContactsPart
      <4>3. r.at \in Characters \union {Idle}
        BY <1>0, <3>4, <4>1 DEF Push!TypeOK, Push!RunType, Push!Targets, PushJobs
      <4>4. \A c \in Push!Wanted, d \in Characters :
              result'[c] /\ <<c, d>> \notin drift' /\ r.at # c => c \in r.todo \/ Kept(c, d)'
        BY <1>1, <2>3, <3>1, <3>2, <4>2 DEF ContactsRun, Kept
      <4>5. ASSUME r.at # Idle, r.clean, NEW d \in Characters, <<r.at, d>> \notin drift' PROVE BookMends(r, r.at, d)'
        BY <2>3, <3>2, <4>2, <4>3, <4>5 DEF ContactsRun, BookMends
      <4>6. ContactsRun(r)'
        BY <1>1, <2>3, <4>2, <4>4, <4>5 DEF ContactsRun
      <4> QED BY <3>4, <4>1, <4>2, <4>6
    <3> QED BY <3>3, <3>4
  <2> QED BY <2>1, <2>2, <2>4, <2>5, <2>6 DEF PushInv
<1>2. ASSUME NEW u \in Users, Push!JoinsOrLeaves(u) PROVE PushInv'
  <2>1. /\ guild' = (guild \ {u}) \union ({u} \ guild) /\ roles' = [roles EXCEPT ![u] = {}]
        /\ drift' = drift \union {u}
        /\ UNCHANGED <<tier, link, invalid, queue, run, acl, book, observed, result>>
    BY <1>2 DEF Push!JoinsOrLeaves, Push!records
  <2>2. guild' \subseteq Users /\ roles' \in [Users -> SUBSET Push!Managed] /\ \A v \in Users : v # u => roles'[v] = roles[v]
    BY <1>0, <2>1 DEF Push!TypeOK
  <2>3. "roles" \in PushJobs /\ u \in Push!Things("roles")
    BY DEF PushJobs, Push!Things
  <2> QED BY <1>1, <2>1, <2>2, <2>3
<1>3. ASSUME NEW u \in Users, NEW R \in SUBSET Push!Managed, Push!EditedRoles(u, R) PROVE PushInv'
  <2>1. /\ roles' = [roles EXCEPT ![u] = R] /\ drift' = drift \union {u}
        /\ UNCHANGED <<tier, link, invalid, guild, queue, run, acl, book, observed, result>>
    BY <1>3 DEF Push!EditedRoles, Push!facts, Push!records
  <2>2. guild' \subseteq Users /\ roles' \in [Users -> SUBSET Push!Managed] /\ \A v \in Users : v # u => roles'[v] = roles[v]
    BY <1>0, <2>1 DEF Push!TypeOK
  <2>3. "roles" \in PushJobs /\ u \in Push!Things("roles")
    BY DEF PushJobs, Push!Things
  <2> QED BY <1>1, <2>1, <2>2, <2>3
<1>4. ASSUME NEW c \in Characters, NEW k \in Push!AclRoles, Push!EditedAcl(c, k) PROVE PushInv'
  <2>1. /\ acl' = [acl EXCEPT ![c] = k] /\ drift' = drift \union {c}
        /\ UNCHANGED <<tier, link, invalid, guild, queue, run, roles, book, observed, result>>
    BY <1>4 DEF Push!EditedAcl, Push!facts, Push!records
  <2>2. guild' \subseteq Users /\ acl' \in [Characters -> Push!AclRoles] /\ \A d \in Characters : d # c => acl'[d] = acl[d]
    BY <1>0, <2>1 DEF Push!TypeOK
  <2>3. "acl" \in PushJobs /\ c \in Push!Things("acl")
    BY DEF PushJobs, Push!Things
  <2> QED BY <1>1, <2>1, <2>2, <2>3
<1>5. ASSUME NEW c \in Characters, NEW d \in Characters, NEW k \in Push!Contacts, Push!EditedContact(c, d, k) PROVE PushInv'
  <2>1. /\ book' = [book EXCEPT ![c] = [book[c] EXCEPT ![d] = k]] /\ drift' = drift \union {<<c, d>>}
        /\ UNCHANGED <<tier, link, invalid, guild, queue, run, roles, acl, observed, result>>
    BY <1>5 DEF Push!EditedContact, Push!facts, Push!records
  <2>2. /\ guild' \subseteq Users /\ book' \in [Characters -> [Characters -> Push!Contacts]]
        /\ \A e, f \in Characters : <<e, f>> # <<c, d>> => book'[e][f] = book[e][f]
    BY <1>0, <2>1 DEF Push!TypeOK
  <2>3. "contacts" \in PushJobs /\ <<c, d>> \in Push!Things("contacts")
    BY DEF PushJobs, Push!Things
  <2> QED BY <1>1, <2>1, <2>2, <2>3
<1> QED BY <1>2, <1>3, <1>4, <1>5 DEF Push!Others

-----------------------------------------------------------------------------
(* The runs. *)

\* A step of a job changes its own run, queue, remote and records: the rest of the invariant stays.
LEMMA OwnStep ==
  ASSUME PushConstants, PushInv, NEW j \in PushJobs, UNCHANGED <<tier, link, invalid, guild>>,
         DOMAIN run' = PushJobs, run'[j] \in Push!RunType(j) \union {Idle},
         \A k \in PushJobs \ {j} : run'[k] = run[k],
         queue' \subseteq Push!AllWakes \union Push!RoleWakes, \A w \in queue : w.job # j => w \in queue',
         IF j = "roles" THEN roles' \in [Users -> SUBSET Push!Managed] ELSE roles' = roles,
         IF j = "acl" THEN acl' \in [Characters -> Push!AclRoles] /\ observed' \in [Characters -> Push!AclRoles]
         ELSE acl' = acl /\ observed' = observed,
         IF j = "contacts"
         THEN book' \in [Characters -> [Characters -> Push!Contacts]] /\ result' \in [Characters -> BOOLEAN]
         ELSE book' = book /\ result' = result,
         \A x \in drift : x \in Push!Things(j) \/ x \in drift',
         j = "roles" => RolesPart', j = "acl" => AclPart', j = "contacts" => ContactsPart'
  PROVE  PushInv'
<1>1. (j # "roles" => RolesPart') /\ (j # "acl" => AclPart') /\ (j # "contacts" => ContactsPart')
  BY OtherJob
<1>2. LinkUnique'
  BY DEF PushInv, LinkUnique
<1>3. \A k \in PushJobs : run'[k] \in Push!RunType(k) \union {Idle}
  BY DEF PushInv, Push!TypeOK
<1>4. \A w \in queue' : w.job \in PushJobs
  BY WakesTyped
<1>5. /\ tier' \in [Accounts -> Tiers] /\ link' \in [Accounts -> Users \union {NoUser}]
      /\ invalid' \subseteq Characters /\ guild' \subseteq Users
  BY DEF PushInv, Push!TypeOK
<1>6. /\ roles' \in [Users -> SUBSET Push!Managed]
      /\ acl' \in [Characters -> Push!AclRoles] /\ observed' \in [Characters -> Push!AclRoles]
      /\ book' \in [Characters -> [Characters -> Push!Contacts]] /\ result' \in [Characters -> BOOLEAN]
  BY DEF PushInv, Push!TypeOK
<1>7. Push!TypeOK'
  BY <1>3, <1>4, <1>5, <1>6 DEF Push!TypeOK
<1> QED BY <1>1, <1>2, <1>7 DEF PushInv

\* The fields of a run.
LEMMA RunHas ==
  ASSUME NEW j, NEW r \in Push!RunType(j)
  PROVE  /\ r.wake \in Push!WakesOf(j) /\ r.todo \subseteq Push!Targets(j) /\ r.wanted \subseteq Characters
         /\ r.at \in Push!Targets(j) \union {Idle} /\ r.seen \in {Idle} \union [Characters -> Push!AclRoles]
         /\ r.add \subseteq Push!Items(j) /\ r.remove \subseteq Push!Items(j) /\ r.third \subseteq Characters
         /\ r.clean \in BOOLEAN /\ r.missed \subseteq Push!Things(j)
  BY DEF Push!RunType

\* A busy job has a run.
LEMMA BusyRun ==
  ASSUME PushInv, NEW j \in PushJobs, Push!Busy(j)
  PROVE  run[j] \in Push!RunType(j) /\ run[j] # Idle
  BY DEF PushInv, Push!TypeOK, Push!Busy

\* What a visit looks at, for each job.
LEMMA TouchedIs ==
  ASSUME NEW x
  PROVE  /\ Push!Touched("roles", x) = {x.user} /\ Push!Touched("acl", x) = Characters
         /\ Push!Touched("contacts", x) = {<<x, d>> : d \in Characters}
         /\ \A j \in PushJobs : x \in Push!Targets(j) => Push!Touched(j, x) \subseteq Push!Things(j)
<1>1. /\ Push!Touched("roles", x) = {x.user} /\ Push!Touched("acl", x) = Characters
      /\ Push!Touched("contacts", x) = {<<x, d>> : d \in Characters}
  BY DEF Push!Touched
<1>2. ASSUME x \in Push!Targets("roles") PROVE Push!Touched("roles", x) \subseteq Push!Things("roles")
  BY <1>1, <1>2 DEF Push!Targets, Push!Things
<1>3. Push!Touched("acl", x) \subseteq Push!Things("acl")
  BY <1>1 DEF Push!Things
<1>4. ASSUME x \in Push!Targets("contacts") PROVE Push!Touched("contacts", x) \subseteq Push!Things("contacts")
  BY <1>1, <1>4 DEF Push!Targets, Push!Things
<1> QED BY <1>1, <1>2, <1>3, <1>4 DEF PushJobs

\* The run of the roles goes on: what is to be shown is who is on its way.
LEMMA RolesOwn ==
  ASSUME PushInv, UNCHANGED <<tier, link, invalid>>, queue \subseteq queue',
         run["roles"] # Idle, run'["roles"] # Idle, NEW r, NEW q, r = run["roles"], q = run'["roles"],
         q.third = {}, q.wake = r.wake, q.todo \subseteq r.todo, q.at \in {Idle, r.at} \union r.todo,
         \A u \in q.missed : \/ u \in r.missed \/ \E x \in r.todo : x.user = u
                             \/ r.at # Idle /\ r.at.user = u,
         \A u \in Users : /\ Due(u)' = Due(u)
                          /\ RolesVisit(r, u) /\ (u \notin drift => RolesOnWay(r, u)) /\ u \notin drift'
                             => RolesOnWay(q, u)'
  PROVE  RolesPart'
<1>1. /\ \A u : Push!LinkedTo(u)' = Push!LinkedTo(u) /\ Due(u)' = Due(u)
      /\ \A w, u : Reaches(w, u)' <=> Reaches(w, u)
  BY SameFacts
<1> SUFFICES ASSUME NEW u \in Users, Untold(u)'
             PROVE  RolesVisit(q, u)' /\ (u \notin drift' => RolesOnWay(q, u)')
  BY DEF RolesPart
<1>2. Untold(u)
  BY <1>1 DEF Untold
<1>3. RolesVisit(r, u) /\ (u \notin drift => RolesOnWay(r, u))
  BY <1>2 DEF PushInv, RolesPart
<1>4. RolesVisit(q, u)'
  BY <1>1, <1>3 DEF RolesVisit
<1> QED BY <1>3, <1>4

\* The same of the run of the access list.
LEMMA AclOwn ==
  ASSUME PushInv, queue \subseteq queue', run["acl"] # Idle, run'["acl"] # Idle,
         NEW r, NEW q, r = run["acl"], q = run'["acl"], AclRun(r) => AclRun(q)'
  PROVE  AclPart'
<1>1. NoneFor("acl")' => NoneFor("acl")
  BY DEF NoneFor
<1> QED BY <1>1 DEF PushInv, AclPart

\* The same of the run of the contacts.
LEMMA ContactsOwn ==
  ASSUME PushInv, queue \subseteq queue', run["contacts"] # Idle, run'["contacts"] # Idle,
         NEW r, NEW q, r = run["contacts"], q = run'["contacts"], ContactsRun(r) => ContactsRun(q)'
  PROVE  ContactsPart'
<1>1. NoneFor("contacts")' => NoneFor("contacts")
  BY DEF NoneFor
<1> QED BY <1>1 DEF PushInv, ContactsPart

-----------------------------------------------------------------------------
(* A visit begins. *)

\* A plan is the difference between what was wanted and what is there.
LEMMA PlanIs ==
  ASSUME PushInv, NEW j \in PushJobs, NEW x \in Push!Targets(j), NEW p, p = Push!Plan(j, x),
         run[j] \in Push!RunType(j)
  PROVE  /\ p.add \subseteq Push!Items(j) /\ p.remove \subseteq Push!Items(j) /\ p.third \subseteq Characters
         /\ j = "roles" => /\ p.third = {} /\ p.add = Push!RolesDue(x.tier) \ roles[x.user]
                           /\ p.remove = (Push!Managed \ Push!RolesDue(x.tier)) \intersect roles[x.user]
         /\ j = "acl" => /\ p.add = {c \in run[j].wanted : acl[c] = "none"}
                         /\ p.remove = {c \in Characters \ run[j].wanted : acl[c] \notin {"none", "admin", "blocked"}}
                         /\ p.third = {c \in run[j].wanted : acl[c] = "blocked"}
         /\ j = "contacts" =>
              /\ p.add = {d \in run[j].wanted \ {x} : book[x][d] = "absent"}
              /\ p.remove = {d \in Characters \ (run[j].wanted \ {x}) : book[x][d] \in {"ours", "restanding"}}
              /\ p.third = {d \in run[j].wanted \ {x} : book[x][d] \in {"foreign", "restanding"}}
<1>0. run[j].wanted \subseteq Characters
  BY RunHas
<1>1. CASE j = "roles"
  <2>1. p = Push!DiffRoles(x)
    BY <1>1 DEF Push!Plan
  <2>2. x.tier \in Tiers
    BY <1>1 DEF Push!Targets
  <2>3. Push!RolesDue(x.tier) \subseteq Push!Managed
    BY <2>2 DEF Push!RolesDue, Push!Managed
  <2>4. /\ p.third = {} /\ p.add = Push!RolesDue(x.tier) \ roles[x.user]
        /\ p.remove = (Push!Managed \ Push!RolesDue(x.tier)) \intersect roles[x.user]
    BY <2>1 DEF Push!DiffRoles
  <2> QED BY <1>1, <2>3, <2>4 DEF Push!Items
<1>2. CASE j = "acl"
  <2>1. p = Push!DiffAcl(run[j].wanted)
    BY <1>2 DEF Push!Plan
  <2> QED BY <1>0, <1>2, <2>1 DEF Push!DiffAcl, Push!Items
<1>3. CASE j = "contacts"
  <2>1. p = Push!DiffContacts(x, run[j].wanted \ {x})
    BY <1>3 DEF Push!Plan
  <2> QED BY <1>0, <1>3, <2>1 DEF Push!DiffContacts, Push!Items
<1> QED BY <1>1, <1>2, <1>3 DEF PushJobs

\* A visit forgives the drift of what it reads, and its plan mends all of it.
LEMMA VisitStep ==
  ASSUME PushConstants, PushInv, NEW j \in PushJobs, NEW x, Push!Visit(j, x)
  PROVE  PushInv'
<1>1. PICK p : p = Push!Plan(j, x)
  OBVIOUS
<1>2. PICK r : r = run[j]
  OBVIOUS
<1>3. PICK q : q = run'[j]
  OBVIOUS
<1>4. /\ r \in Push!RunType(j) /\ r # Idle /\ r.at = Idle /\ x \in r.todo /\ x \in Push!Targets(j) /\ x # Idle
      /\ q \in Push!RunType(j) /\ q # Idle /\ DOMAIN run' = PushJobs
      /\ \A k \in PushJobs \ {j} : run'[k] = run[k]
      /\ q.wake = r.wake /\ q.wanted = r.wanted /\ q.missed = r.missed
      /\ q.at = x /\ q.todo = r.todo \ {x} /\ q.clean = TRUE
      /\ q.add = p.add /\ q.remove = p.remove /\ q.third = p.third
      /\ j = "acl" => q.seen = acl
  <2>1. r \in Push!RunType(j) /\ r # Idle /\ r.at = Idle /\ x \in r.todo
    BY <1>2, BusyRun DEF Push!Visit, Push!Visiting
  <2>2. x \in Push!Targets(j) /\ x # Idle
    BY <2>1, RunHas DEF PushConstants
  <2>3. p.add \subseteq Push!Items(j) /\ p.remove \subseteq Push!Items(j) /\ p.third \subseteq Characters
    BY <1>1, <1>2, <2>1, <2>2, PlanIs
  <2>4. PICK s : s = IF j = "acl" THEN acl ELSE Idle
    OBVIOUS
  <2>5. s \in {Idle} \union [Characters -> Push!AclRoles]
    BY <2>4 DEF PushInv, Push!TypeOK
  <2>6. run' = [run EXCEPT ![j] = [r EXCEPT !.at = x, !.todo = r.todo \ {x}, !.clean = TRUE, !.seen = s,
                                            !.add = p.add, !.remove = p.remove, !.third = p.third]]
    <3>1. run' = [run EXCEPT ![j] =
                   [run[j] EXCEPT !.at = x, !.todo = run[j].todo \ {x}, !.clean = TRUE,
                                  !.seen = IF j = "acl" THEN acl ELSE Idle, !.add = Push!Plan(j, x).add,
                                  !.remove = Push!Plan(j, x).remove, !.third = Push!Plan(j, x).third]]
      BY DEF Push!Visit
    <3> QED BY ONLY <2>4, <3>1, <1>1, <1>2
  <2>7. DOMAIN run = PushJobs
    BY DEF PushInv, Push!TypeOK
  <2>8. /\ q = [r EXCEPT !.at = x, !.todo = r.todo \ {x}, !.clean = TRUE, !.seen = s,
                         !.add = p.add, !.remove = p.remove, !.third = p.third]
        /\ DOMAIN run' = PushJobs /\ \A k \in PushJobs \ {j} : run'[k] = run[k]
    BY <1>2, <1>3, <2>6, <2>7
  <2>9. /\ q \in Push!RunType(j)
        /\ q.wake = r.wake /\ q.wanted = r.wanted /\ q.missed = r.missed
        /\ q.at = x /\ q.todo = r.todo \ {x} /\ q.clean = TRUE
        /\ q.add = p.add /\ q.remove = p.remove /\ q.third = p.third /\ q.seen = s
    BY ONLY <2>1, <2>2, <2>3, <2>5, <2>8 DEF Push!RunType
  <2> QED BY <2>1, <2>2, <2>4, <2>8, <2>9 DEF PushConstants
<1>5. /\ UNCHANGED <<tier, link, invalid, guild, queue, roles, acl, book, observed, result>>
      /\ drift' = drift \ Push!Touched(j, x)
  BY DEF Push!Visit, Push!facts, Push!remotes, Push!records
<1>6. \A y \in drift : y \in Push!Things(j) \/ y \in drift'
  BY <1>4, <1>5, TouchedIs
<1>7. /\ \A u : Push!LinkedTo(u)' = Push!LinkedTo(u) /\ Due(u)' = Due(u)
      /\ Push!Wanted' = Push!Wanted /\ Push!Wanted \subseteq Characters
  BY <1>5, SameFacts DEF Push!Wanted
<1>8. Push!TypeOK
  BY DEF PushInv
<1>9. ASSUME j = "roles" PROVE RolesPart'
  <2>1. /\ p.third = {} /\ p.add = Push!RolesDue(x.tier) \ roles[x.user]
        /\ p.remove = (Push!Managed \ Push!RolesDue(x.tier)) \intersect roles[x.user]
    BY <1>1, <1>2, <1>4, <1>9, PlanIs
  <2>2. x.user \in Users /\ roles[x.user] \subseteq Push!Managed
    BY <1>4, <1>8, <1>9 DEF Push!Targets, Push!TypeOK
  <2>3. \A u \in Users : u # x.user /\ u \notin drift' => u \notin drift
    BY <1>5, <1>9, TouchedIs
  <2>4. ASSUME NEW u \in Users, RolesVisit(r, u), u \notin drift => RolesOnWay(r, u), u \notin drift'
        PROVE  RolesOnWay(q, u)'
    <3>1. CASE u = x.user
      <4>1. Push!RolesDue(x.tier) = Due(u)
        BY <1>4, <2>4, <3>1 DEF RolesVisit
      <4>2. Mends(q, u)'
        BY <1>4, <1>5, <1>7, <2>1, <2>2, <3>1, <4>1 DEF Mends
      <4> QED BY <1>4, <3>1, <4>2 DEF RolesOnWay
    <3>2. CASE u # x.user
      BY <1>4, <1>5, <1>7, <2>3, <2>4, <3>2 DEF RolesOnWay
    <3> QED BY <3>1, <3>2
  <2> QED BY <1>2, <1>3, <1>4, <1>5, <1>7, <1>9, <2>1, <2>4, RolesOwn
<1>10. ASSUME j = "acl" PROVE AclPart'
  <2>1. /\ p.add = {c \in r.wanted : acl[c] = "none"}
        /\ p.remove = {c \in Characters \ r.wanted : acl[c] \notin {"none", "admin", "blocked"}}
        /\ p.third = {c \in r.wanted : acl[c] = "blocked"}
    BY <1>1, <1>2, <1>4, <1>10, PlanIs
  <2>2. ASSUME AclRun(r) PROVE AclRun(q)'
    <3>1. r.wanted = Push!Wanted
      BY <2>2 DEF AclRun
    <3>2. q.todo = {}
      BY <1>4, <1>10, RunHas DEF Push!Targets
    <3>3. q.add \union q.third \subseteq Push!Wanted /\ q.remove \intersect Push!Wanted = {}
      BY <1>4, <2>1, <3>1
    <3>4. \A c \in Characters : AclMends(q, c)'
      BY <1>4, <1>5, <1>7, <1>10, <2>1, <3>1 DEF AclMends
    <3> QED BY <1>4, <1>7, <3>1, <3>2, <3>3, <3>4 DEF AclRun, AclOnWay
  <2> QED BY <1>2, <1>3, <1>4, <1>5, <1>10, <2>2, AclOwn
<1>11. ASSUME j = "contacts" PROVE ContactsPart'
  <2>1. /\ p.add = {d \in r.wanted \ {x} : book[x][d] = "absent"}
        /\ p.remove = {d \in Characters \ (r.wanted \ {x}) : book[x][d] \in {"ours", "restanding"}}
        /\ p.third = {d \in r.wanted \ {x} : book[x][d] \in {"foreign", "restanding"}}
    BY <1>1, <1>2, <1>4, <1>11, PlanIs
  <2>2. ASSUME ContactsRun(r) PROVE ContactsRun(q)'
    <3>1. r.wanted = Push!Wanted
      BY <2>2 DEF ContactsRun
    <3>2. q.add \union q.third \subseteq Push!Wanted \ {x} /\ q.remove \intersect (Push!Wanted \ {x}) = {}
      BY <1>4, <2>1, <3>1
    <3>3. \A d \in Characters : BookMends(q, x, d)'
      BY <1>4, <1>5, <1>7, <2>1, <3>1 DEF BookMends
    <3>4. \A c, d \in Characters : <<c, d>> \notin drift' /\ c # x => <<c, d>> \notin drift
      BY <1>5, <1>11, TouchedIs
    <3>5. \A c \in Push!Wanted, d \in Characters :
            result'[c] /\ <<c, d>> \notin drift' /\ q.at # c => c \in q.todo \/ Kept(c, d)'
      <4> SUFFICES ASSUME NEW c \in Push!Wanted, NEW d \in Characters, result'[c], <<c, d>> \notin drift', x # c
                   PROVE  c \in q.todo \/ Kept(c, d)'
        BY <1>4
      <4>0. c \in Characters /\ r.at # c
        BY <1>4, <1>7, <1>11 DEF PushConstants, Push!Targets
      <4>1. c \in r.todo \/ Kept(c, d)
        BY <1>4, <1>5, <1>7, <2>2, <3>4, <4>0 DEF ContactsRun
      <4>2. Kept(c, d) => Kept(c, d)'
        BY <1>5, <1>7 DEF Kept
      <4> QED BY <1>4, <4>1, <4>2
    <3> QED BY <1>4, <1>7, <3>1, <3>2, <3>3, <3>5 DEF ContactsRun
  <2> QED BY <1>2, <1>3, <1>4, <1>5, <1>11, <2>2, ContactsOwn
<1>12. /\ roles' \in [Users -> SUBSET Push!Managed]
       /\ acl' \in [Characters -> Push!AclRoles] /\ observed' \in [Characters -> Push!AclRoles]
       /\ book' \in [Characters -> [Characters -> Push!Contacts]] /\ result' \in [Characters -> BOOLEAN]
       /\ queue' \subseteq Push!AllWakes \union Push!RoleWakes
  BY <1>5, <1>8 DEF Push!TypeOK
<1> QED BY <1>3, <1>4, <1>5, <1>6, <1>9, <1>10, <1>11, <1>12, OwnStep

\* The other runs stay as they are.
LEMMA OneRun ==
  ASSUME PushInv, NEW j \in PushJobs, NEW q, run' = [run EXCEPT ![j] = q]
  PROVE  /\ run'[j] = q /\ DOMAIN run' = PushJobs
         /\ \A k \in PushJobs \ {j} : run'[k] = run[k]
  BY DEF PushInv, Push!TypeOK

\* A run is not the absence of one.
LEMMA NotIdle == ASSUME PushConstants, NEW j \in PushJobs, NEW q \in Push!RunType(j) PROVE q # Idle
  BY DEF PushConstants

\* A run that goes on wakes nobody it has not to, and is still a run.
LEMMA GoesOn ==
  ASSUME PushConstants, PushInv, NEW j \in PushJobs, UNCHANGED <<tier, link, invalid, guild>>,
         NEW q \in Push!RunType(j), run' = [run EXCEPT ![j] = q],
         queue \subseteq queue', queue' \subseteq Push!AllWakes \union Push!RoleWakes,
         IF j = "roles" THEN roles' \in [Users -> SUBSET Push!Managed] ELSE roles' = roles,
         IF j = "acl" THEN acl' \in [Characters -> Push!AclRoles] /\ observed' \in [Characters -> Push!AclRoles]
         ELSE acl' = acl /\ observed' = observed,
         IF j = "contacts"
         THEN book' \in [Characters -> [Characters -> Push!Contacts]] /\ result' \in [Characters -> BOOLEAN]
         ELSE book' = book /\ result' = result,
         drift \subseteq drift',
         j = "roles" => RolesPart', j = "acl" => AclPart', j = "contacts" => ContactsPart'
  PROVE  PushInv'
<1>1. run'[j] = q /\ DOMAIN run' = PushJobs /\ \A k \in PushJobs \ {j} : run'[k] = run[k]
  BY OneRun
<1>2. /\ run'[j] \in Push!RunType(j) \union {Idle}
      /\ \A w \in queue : w.job # j => w \in queue'
      /\ \A x \in drift : x \in Push!Things(j) \/ x \in drift'
  BY <1>1
<1> QED BY <1>1, <1>2, OwnStep

\* The types of the remotes and of the queue.
LEMMA Remotes ==
  ASSUME PushInv
  PROVE  /\ roles \in [Users -> SUBSET Push!Managed]
         /\ acl \in [Characters -> Push!AclRoles] /\ observed \in [Characters -> Push!AclRoles]
         /\ book \in [Characters -> [Characters -> Push!Contacts]] /\ result \in [Characters -> BOOLEAN]
         /\ queue \subseteq Push!AllWakes \union Push!RoleWakes
  BY DEF PushInv, Push!TypeOK

\* What fails is tried again, or is drift.
LEMMA FailedIs ==
  ASSUME PushInv, NEW j \in PushJobs, NEW x \in Push!Targets(j), NEW r \in Push!RunType(j), NEW again \in BOOLEAN,
         Push!Failed(j, x, r, again)
  PROVE  \E q \in Push!RunType(j) :
           /\ run' = [run EXCEPT ![j] = q]
           /\ q.wake = r.wake /\ q.wanted = r.wanted /\ q.todo = r.todo /\ q.at = r.at /\ q.clean = r.clean
           /\ q.add = r.add /\ q.remove = r.remove /\ q.third = r.third /\ q.seen = r.seen
           /\ q.missed = r.missed \union (IF again THEN Push!Touched(j, x) ELSE {})
           /\ drift \subseteq drift' /\ (~again => Push!Touched(j, x) \subseteq drift')
           /\ IF j = "contacts" THEN result' = [result EXCEPT ![x] = FALSE] ELSE result' = result
<1>1. PICK q : q = [r EXCEPT !.missed = r.missed \union (IF again THEN Push!Touched(j, x) ELSE {})]
  OBVIOUS
<1>2. r.missed \union (IF again THEN Push!Touched(j, x) ELSE {}) \in SUBSET Push!Things(j)
  BY TouchedIs, RunHas
<1>3. /\ q \in Push!RunType(j)
      /\ q.wake = r.wake /\ q.wanted = r.wanted /\ q.todo = r.todo /\ q.at = r.at /\ q.clean = r.clean
      /\ q.add = r.add /\ q.remove = r.remove /\ q.third = r.third /\ q.seen = r.seen
      /\ q.missed = r.missed \union (IF again THEN Push!Touched(j, x) ELSE {})
  BY ONLY <1>1, <1>2, r \in Push!RunType(j) DEF Push!RunType
<1>4. run' = [run EXCEPT ![j] = q]
  BY <1>1 DEF Push!Failed
<1>5. /\ drift' = IF again THEN drift ELSE drift \union Push!Touched(j, x)
      /\ result' = IF j = "contacts" THEN [result EXCEPT ![x] = FALSE] ELSE result
  BY DEF Push!Failed
<1>6. drift \subseteq drift' /\ (~again => Push!Touched(j, x) \subseteq drift')
  BY <1>5
<1> QED BY <1>3, <1>4, <1>5, <1>6

-----------------------------------------------------------------------------
\* A target that cannot be read is missed, or is drift.
LEMMA UnreadStep ==
  ASSUME PushConstants, PushInv, NEW j \in PushJobs, NEW x, NEW again \in BOOLEAN, Push!Unread(j, x, again)
  PROVE  PushInv'
<1>1. PICK r : r = run[j]
  OBVIOUS
<1>2. /\ r \in Push!RunType(j) /\ r # Idle /\ r.at = Idle /\ x \in r.todo
      /\ x \in Push!Targets(j) /\ x # Idle
  <2>1. r \in Push!RunType(j) /\ r # Idle /\ r.at = Idle /\ x \in r.todo
    BY <1>1, BusyRun DEF Push!Unread, Push!Visiting
  <2> QED BY <2>1, RunHas DEF PushConstants
<1>3. PICK s : s = [r EXCEPT !.todo = r.todo \ {x}]
  OBVIOUS
<1>4. /\ s \in Push!RunType(j)
      /\ s.wake = r.wake /\ s.wanted = r.wanted /\ s.todo = r.todo \ {x} /\ s.at = r.at /\ s.clean = r.clean
      /\ s.add = r.add /\ s.remove = r.remove /\ s.third = r.third /\ s.seen = r.seen /\ s.missed = r.missed
  BY ONLY <1>2, <1>3 DEF Push!RunType
<1>5. /\ Push!Failed(j, x, s, again)
      /\ UNCHANGED <<tier, link, invalid, guild, queue, roles, acl, book, observed>>
  BY <1>1, <1>3 DEF Push!Unread, Push!facts, Push!remotes
<1>6. PICK q \in Push!RunType(j) :
           /\ run' = [run EXCEPT ![j] = q]
           /\ q.wake = s.wake /\ q.wanted = s.wanted /\ q.todo = s.todo /\ q.at = s.at /\ q.clean = s.clean
           /\ q.add = s.add /\ q.remove = s.remove /\ q.third = s.third /\ q.seen = s.seen
           /\ q.missed = s.missed \union (IF again THEN Push!Touched(j, x) ELSE {})
           /\ drift \subseteq drift' /\ (~again => Push!Touched(j, x) \subseteq drift')
           /\ IF j = "contacts" THEN result' = [result EXCEPT ![x] = FALSE] ELSE result' = result
  BY <1>2, <1>4, <1>5, FailedIs
<1>7. run'[j] = q /\ q # Idle
  <2>1. run'[j] = q
    BY <1>6, OneRun
  <2> QED BY <1>6, <2>1, NotIdle
<1>8. /\ \A u : Push!LinkedTo(u)' = Push!LinkedTo(u) /\ Due(u)' = Due(u)
      /\ Push!Wanted' = Push!Wanted /\ Push!Wanted \subseteq Characters
  BY <1>5, SameFacts DEF Push!Wanted
<1>9. ASSUME j = "roles" PROVE RolesPart'
  <2>1. Push!Touched(j, x) = {x.user}
    BY <1>9, TouchedIs
  <2>2. ASSUME NEW u \in Users, u \notin drift => RolesOnWay(r, u), u \notin drift'
        PROVE  RolesOnWay(q, u)'
    <3>1. u = x.user => again
      BY <1>6, <2>1, <2>2
    <3>2. x.user \in q.missed \/ u # x.user
      BY <1>6, <2>1, <3>1
    <3> QED BY <1>2, <1>4, <1>5, <1>6, <1>8, <2>2, <3>2 DEF RolesOnWay
  <2>3. r.third = {}
    BY <1>1, <1>2, <1>9 DEF PushInv, RolesPart
  <2>4. \A u \in q.missed : u \in r.missed \/ \E y \in r.todo : y.user = u
    BY <1>2, <1>4, <1>6, <2>1
  <2> QED BY <1>1, <1>2, <1>4, <1>5, <1>6, <1>7, <1>8, <1>9, <2>2, <2>3, <2>4, RolesOwn
<1>10. ASSUME j = "acl" PROVE AclPart'
  <2>1. Push!Touched(j, x) = Characters
    BY <1>10, TouchedIs
  <2>2. ASSUME AclRun(r) PROVE AclRun(q)'
    <3>1. \A c \in Characters \ drift' : AclOnWay(q, c)'
      BY <1>6, <2>1 DEF AclOnWay
    <3> QED BY <1>2, <1>4, <1>6, <1>8, <2>2, <3>1 DEF AclRun
  <2> QED BY <1>1, <1>2, <1>5, <1>7, <1>10, <2>2, AclOwn
<1>11. ASSUME j = "contacts" PROVE ContactsPart'
  <2>1. ASSUME ContactsRun(r) PROVE ContactsRun(q)'
    <3>1. \A c \in Push!Wanted, d \in Characters :
            result'[c] /\ <<c, d>> \notin drift' /\ q.at # c => c \in q.todo \/ Kept(c, d)'
      <4> SUFFICES ASSUME NEW c \in Push!Wanted, NEW d \in Characters, result'[c], <<c, d>> \notin drift', q.at # c
                   PROVE  c \in q.todo \/ Kept(c, d)'
        OBVIOUS
      <4>1. x # c /\ result[c]
        BY <1>6, <1>8, <1>11, Remotes
      <4>2. c \in r.todo \/ Kept(c, d)
        BY <1>4, <1>6, <2>1, <4>1 DEF ContactsRun
      <4>3. Kept(c, d) => Kept(c, d)'
        BY <1>5, <1>8 DEF Kept
      <4> QED BY <1>4, <1>6, <4>1, <4>2, <4>3
    <3> QED BY <1>2, <1>4, <1>6, <1>8, <2>1, <3>1 DEF ContactsRun
  <2> QED BY <1>1, <1>2, <1>5, <1>7, <1>11, <2>1, ContactsOwn
<1>12. result' \in [Characters -> BOOLEAN]
  BY <1>6, Remotes
<1> QED BY <1>5, <1>6, <1>9, <1>10, <1>11, <1>12, Remotes, GoesOn

-----------------------------------------------------------------------------
(* The calls of a visit. *)

\* A batch is of what the stage calls for.
LEMMA Batch ==
  ASSUME NEW j \in PushJobs, NEW r \in Push!RunType(j), r = run[j], NEW B \in Push!Batches(j)
  PROVE  IF Push!Stage(j) = "remove" THEN B \subseteq r.remove ELSE B \subseteq r.add \/ B \subseteq r.third
<1>1. B \subseteq Push!InStage(j, Push!Stage(j))
  BY DEF Push!Batches
<1>2. Push!Stage(j) \in {"add", "remove", "third"}
  BY DEF Push!Stage
<1> QED BY <1>1, <1>2 DEF Push!InStage

\* A call made is no longer to be made.
LEMMA SpentIs ==
  ASSUME NEW j \in PushJobs, NEW r \in Push!RunType(j), r = run[j], NEW B, NEW q, q = Push!Spent(j, B)
  PROVE  /\ q \in Push!RunType(j)
         /\ q.wake = r.wake /\ q.wanted = r.wanted /\ q.todo = r.todo /\ q.at = r.at /\ q.clean = r.clean
         /\ q.missed = r.missed /\ q.seen = Idle
         /\ q.add = r.add \ B /\ q.remove = r.remove \ B /\ q.third = r.third \ B
<1>1. q = [r EXCEPT !.add = r.add \ B, !.remove = r.remove \ B, !.third = r.third \ B, !.seen = Idle]
  BY DEF Push!Spent
<1>2. r.add \ B \in SUBSET Push!Items(j) /\ r.remove \ B \in SUBSET Push!Items(j) /\ r.third \ B \in SUBSET Characters
  BY RunHas
<1> QED BY ONLY <1>1, <1>2, r \in Push!RunType(j) DEF Push!RunType

\* Each call of a visit brings the remote nearer to what its plan mends, and undoes nothing.
LEMMA CallStep ==
  ASSUME PushConstants, PushInv, NEW j \in PushJobs, NEW B, Push!Call(j, B)
  PROVE  PushInv'
<1>1. PICK r : r = run[j]
  OBVIOUS
<1>2. PICK removing \in BOOLEAN : removing = (Push!Stage(j) = "remove")
  OBVIOUS
<1>3. PICK x : x = r.at
  OBVIOUS
<1>4. PICK q : q = Push!Spent(j, B)
  OBVIOUS
<1>5. /\ r \in Push!RunType(j) /\ r # Idle /\ x # Idle /\ x \in Push!Targets(j) /\ B \in Push!Batches(j)
  <2>1. r \in Push!RunType(j) /\ r # Idle /\ x # Idle /\ B \in Push!Batches(j)
    BY <1>1, <1>3, BusyRun DEF Push!Call, Push!Visiting
  <2> QED BY <1>3, <2>1, RunHas
<1>6. IF removing THEN B \subseteq r.remove ELSE B \subseteq r.add \/ B \subseteq r.third
  BY <1>1, <1>2, <1>5, Batch
<1>7. /\ q \in Push!RunType(j)
      /\ q.wake = r.wake /\ q.wanted = r.wanted /\ q.todo = r.todo /\ q.at = r.at /\ q.clean = r.clean
      /\ q.missed = r.missed /\ q.seen = Idle
      /\ q.add = r.add \ B /\ q.remove = r.remove \ B /\ q.third = r.third \ B
  BY <1>1, <1>4, <1>5, SpentIs
<1>8. /\ roles' = IF j = "roles" THEN Push!RolesAfter(x.user, B, removing) ELSE roles
      /\ acl'   = IF j = "acl" THEN Push!AclAfter(B, removing) ELSE acl
      /\ book'  = IF j = "contacts" THEN Push!BookAfter(x, B, removing) ELSE book
      /\ run' = [run EXCEPT ![j] = q]
      /\ UNCHANGED <<tier, link, invalid, guild, queue, observed, result, drift>>
  BY <1>1, <1>2, <1>3, <1>4 DEF Push!Call, Push!facts, Push!records
<1>9. run'[j] = q /\ q # Idle
  <2>1. run'[j] = q
    BY <1>7, <1>8, OneRun
  <2> QED BY <1>7, <1>8, <2>1, NotIdle
<1>10. /\ \A u : Push!LinkedTo(u)' = Push!LinkedTo(u) /\ Due(u)' = Due(u)
       /\ Push!Wanted' = Push!Wanted /\ Push!Wanted \subseteq Characters
  BY <1>8, SameFacts DEF Push!Wanted
<1>11. ASSUME j = "roles" PROVE RolesPart' /\ roles' \in [Users -> SUBSET Push!Managed]
  <2>1. /\ x.user \in Users /\ r.third = {} /\ r.add \subseteq Push!Managed /\ r.remove \subseteq Push!Managed
    BY <1>1, <1>5, <1>11, RunHas DEF PushInv, RolesPart, Push!Targets, Push!Items
  <2>2. B \subseteq Push!Managed
    BY <1>6, <2>1
  <2>3. roles' = [roles EXCEPT ![x.user] = IF removing THEN roles[x.user] \ B ELSE roles[x.user] \union B]
    BY <1>8, <1>11 DEF Push!RolesAfter
  <2>4. /\ roles' \in [Users -> SUBSET Push!Managed] /\ \A u \in Users : u # x.user => roles'[u] = roles[u]
        /\ roles'[x.user] = IF removing THEN roles[x.user] \ B ELSE roles[x.user] \union B
    BY <2>1, <2>2, <2>3, Remotes
  <2>5. ASSUME Mends(r, x.user) PROVE Mends(q, x.user)'
    <3>1. CASE removing
      BY <1>6, <1>7, <1>10, <2>4, <2>5, <3>1 DEF Mends
    <3>2. CASE ~removing
      BY <1>6, <1>7, <1>10, <2>1, <2>4, <2>5, <3>2 DEF Mends
    <3> QED BY <3>1, <3>2
  <2>6. ASSUME NEW u \in Users, RolesOnWay(r, u) PROVE RolesOnWay(q, u)'
    <3>1. CASE r.at.user = u /\ Mends(r, u)
      BY <1>3, <1>5, <1>7, <2>5, <3>1 DEF RolesOnWay
    <3>2. CASE \/ \E y \in r.todo : y.user = u
               \/ u \in r.missed
               \/ r.at.user # u /\ roles[u] = Due(u)
      BY <1>3, <1>7, <1>10, <2>4, <3>2 DEF RolesOnWay
    <3> QED BY <1>3, <1>5, <2>6, <3>1, <3>2 DEF RolesOnWay
  <2>7. RolesPart'
    BY <1>1, <1>5, <1>7, <1>8, <1>9, <1>10, <1>11, <2>1, <2>6, RolesOwn
  <2> QED BY <2>4, <2>7
<1>12. ASSUME j = "acl" PROVE AclPart' /\ acl' \in [Characters -> Push!AclRoles]
  <2>1. acl' = [c \in Characters |-> IF c \notin B THEN acl[c] ELSE IF removing THEN "none" ELSE "viewer"]
    BY <1>8, <1>12 DEF Push!AclAfter
  <2>2. acl' \in [Characters -> Push!AclRoles]
    BY <2>1, Remotes DEF Push!AclRoles
  <2>3. ASSUME AclRun(r) PROVE AclRun(q)'
    <3>1. /\ r.wanted = Push!Wanted /\ r.todo = {} /\ r.add \union r.third \subseteq Push!Wanted
          /\ r.remove \intersect Push!Wanted = {}
      BY <1>3, <1>5, <2>3 DEF AclRun
    <3>2. ASSUME NEW c \in Characters, AclMends(r, c) PROVE AclMends(q, c)'
      <4>1. CASE removing
        BY <1>6, <1>7, <1>10, <2>1, <3>1, <3>2, <4>1 DEF AclMends
      <4>2. CASE ~removing
        BY <1>6, <1>7, <1>10, <2>1, <3>1, <3>2, <4>2 DEF AclMends
      <4> QED BY <4>1, <4>2
    <3>3. ASSUME NEW c \in Characters \ drift' PROVE AclOnWay(q, c)'
      <4>1. Characters \subseteq r.missed \/ AclMends(r, c)
        BY <1>3, <1>5, <1>8, <2>3, <3>1 DEF AclRun, AclOnWay
      <4> QED BY <1>3, <1>5, <1>7, <3>2, <4>1 DEF AclOnWay
    <3> QED BY <1>7, <1>10, <3>1, <3>3 DEF AclRun
  <2>4. AclPart'
    BY <1>1, <1>5, <1>8, <1>9, <1>12, <2>3, AclOwn
  <2> QED BY <2>2, <2>4
<1>13. ASSUME j = "contacts" PROVE ContactsPart' /\ book' \in [Characters -> [Characters -> Push!Contacts]]
  <2>1. x \in Characters
    BY <1>5, <1>13 DEF Push!Targets
  <2>2. book' = [book EXCEPT ![x] =
                   [d \in Characters |-> IF d \notin B THEN book[x][d] ELSE IF removing THEN "absent" ELSE "ours"]]
    BY <1>8, <1>13 DEF Push!BookAfter
  <2>3. /\ \A c \in Characters : c # x => book'[c] = book[c]
        /\ \A d \in Characters :
             book'[x][d] = IF d \notin B THEN book[x][d] ELSE IF removing THEN "absent" ELSE "ours"
    BY <2>1, <2>2, Remotes
  <2>4. book' \in [Characters -> [Characters -> Push!Contacts]]
    <3>1. \A d \in Characters :
            (IF d \notin B THEN book[x][d] ELSE IF removing THEN "absent" ELSE "ours") \in Push!Contacts
      BY <2>1, Remotes DEF Push!Contacts
    <3> QED BY <2>1, <2>2, <3>1, Remotes
  <2>5. ASSUME ContactsRun(r) PROVE ContactsRun(q)'
    <3>1. /\ r.wanted = Push!Wanted /\ r.add \union r.third \subseteq Push!Wanted \ {x}
          /\ r.remove \intersect (Push!Wanted \ {x}) = {}
      BY <1>3, <1>5, <2>5 DEF ContactsRun
    <3>2. ASSUME r.clean, NEW d \in Characters, <<x, d>> \notin drift' PROVE BookMends(q, x, d)'
      <4>1. BookMends(r, x, d)
        BY <1>3, <1>5, <1>8, <2>5, <3>2 DEF ContactsRun
      <4>2. book'[x][d] = IF d \notin B THEN book[x][d] ELSE IF removing THEN "absent" ELSE "ours"
        BY <2>3
      <4>3. CASE removing
        BY <1>6, <1>7, <1>10, <3>1, <4>1, <4>2, <4>3 DEF BookMends
      <4>4. CASE ~removing
        BY <1>6, <1>7, <1>10, <3>1, <4>1, <4>2, <4>4 DEF BookMends
      <4> QED BY <4>3, <4>4
    <3>3. \A c \in Push!Wanted, d \in Characters :
            result'[c] /\ <<c, d>> \notin drift' /\ q.at # c => c \in q.todo \/ Kept(c, d)'
      <4> SUFFICES ASSUME NEW c \in Push!Wanted, NEW d \in Characters, result'[c], <<c, d>> \notin drift', q.at # c
                   PROVE  c \in q.todo \/ Kept(c, d)'
        OBVIOUS
      <4>1. c \in q.todo \/ Kept(c, d)
        BY <1>7, <1>8, <2>5 DEF ContactsRun
      <4>2. book'[c][d] = book[c][d]
        BY <1>3, <1>7, <1>10, <2>3
      <4> QED BY <1>10, <4>1, <4>2 DEF Kept
    <3>4. q.clean = FALSE => result'[x] = FALSE
      BY <1>3, <1>5, <1>7, <1>8, <2>1, <2>5, Remotes DEF ContactsRun
    <3> QED BY <1>3, <1>7, <1>8, <1>10, <2>5, <3>1, <3>2, <3>3 DEF ContactsRun
  <2>6. ContactsPart'
    BY <1>1, <1>5, <1>8, <1>9, <1>13, <2>5, ContactsOwn
  <2> QED BY <2>4, <2>6
<1>14. queue' = queue /\ drift \subseteq drift'
  BY <1>8
<1> QED BY <1>7, <1>8, <1>11, <1>12, <1>13, <1>14, Remotes, GoesOn

\* What is given up after a failed call leaves no call that was not planned.
LEMMA GivenUpIs ==
  ASSUME NEW j \in PushJobs, NEW r \in Push!RunType(j), r = run[j], NEW B, NEW g, g = Push!GivenUp(j, B)
  PROVE  /\ g \in Push!RunType(j)
         /\ g.wake = r.wake /\ g.wanted = r.wanted /\ g.todo = r.todo /\ g.at = r.at /\ g.missed = r.missed
         /\ g.add \subseteq r.add /\ g.remove \subseteq r.remove /\ g.third \subseteq r.third
<1>1. CASE g = [r EXCEPT !.add = {}, !.remove = {}]
  BY ONLY <1>1, r \in Push!RunType(j) DEF Push!RunType
<1>2. CASE g = [r EXCEPT !.add = {}, !.third = {}]
  BY ONLY <1>2, r \in Push!RunType(j) DEF Push!RunType
<1>3. CASE g = Push!Spent(j, B)
  BY <1>3, SpentIs
<1>4. \/ g = [r EXCEPT !.add = {}, !.remove = {}]
      \/ g = [r EXCEPT !.add = {}, !.third = {}]
      \/ g = Push!Spent(j, B)
  BY DEF Push!GivenUp
<1> QED BY <1>1, <1>2, <1>3, <1>4

\* What a failed call leaves undone is missed, or is drift, or is not "ok".
LEMMA CallFailsStep ==
  ASSUME PushConstants, PushInv, NEW j \in PushJobs, NEW B, NEW again \in BOOLEAN, Push!CallFails(j, B, again)
  PROVE  PushInv'
<1>1. PICK r : r = run[j]
  OBVIOUS
<1>2. PICK x : x = r.at
  OBVIOUS
<1>3. r \in Push!RunType(j) /\ r # Idle /\ x # Idle /\ x \in Push!Targets(j)
  <2>1. r \in Push!RunType(j) /\ r # Idle /\ x # Idle
    BY <1>1, <1>2, BusyRun DEF Push!CallFails, Push!Visiting
  <2> QED BY <1>2, <2>1, RunHas
<1>4. PICK s : s = [Push!GivenUp(j, B) EXCEPT !.clean = FALSE, !.seen = Idle]
  OBVIOUS
<1>5. /\ s \in Push!RunType(j)
      /\ s.wake = r.wake /\ s.wanted = r.wanted /\ s.todo = r.todo /\ s.at = r.at /\ s.clean = FALSE
      /\ s.missed = r.missed /\ s.seen = Idle
      /\ s.add \subseteq r.add /\ s.remove \subseteq r.remove /\ s.third \subseteq r.third
  <2>1. PICK g : g = Push!GivenUp(j, B)
    OBVIOUS
  <2>2. /\ g \in Push!RunType(j)
        /\ g.wake = r.wake /\ g.wanted = r.wanted /\ g.todo = r.todo /\ g.at = r.at /\ g.missed = r.missed
        /\ g.add \subseteq r.add /\ g.remove \subseteq r.remove /\ g.third \subseteq r.third
    BY <1>1, <1>3, <2>1, GivenUpIs
  <2>3. s = [g EXCEPT !.clean = FALSE, !.seen = Idle]
    BY <1>4, <2>1
  <2>4. /\ s \in Push!RunType(j)
        /\ s.wake = g.wake /\ s.wanted = g.wanted /\ s.todo = g.todo /\ s.at = g.at /\ s.clean = FALSE
        /\ s.missed = g.missed /\ s.seen = Idle /\ s.add = g.add /\ s.remove = g.remove /\ s.third = g.third
    BY ONLY <2>2, <2>3 DEF Push!RunType
  <2> QED BY <2>2, <2>4
<1>6. /\ Push!Failed(j, x, s, again)
      /\ UNCHANGED <<tier, link, invalid, guild, queue, roles, acl, book, observed>>
  BY <1>1, <1>2, <1>4 DEF Push!CallFails, Push!facts, Push!remotes
<1>7. PICK q \in Push!RunType(j) :
           /\ run' = [run EXCEPT ![j] = q]
           /\ q.wake = s.wake /\ q.wanted = s.wanted /\ q.todo = s.todo /\ q.at = s.at /\ q.clean = s.clean
           /\ q.add = s.add /\ q.remove = s.remove /\ q.third = s.third /\ q.seen = s.seen
           /\ q.missed = s.missed \union (IF again THEN Push!Touched(j, x) ELSE {})
           /\ drift \subseteq drift' /\ (~again => Push!Touched(j, x) \subseteq drift')
           /\ IF j = "contacts" THEN result' = [result EXCEPT ![x] = FALSE] ELSE result' = result
  BY <1>3, <1>5, <1>6, FailedIs
<1>8. run'[j] = q /\ q # Idle
  <2>1. run'[j] = q
    BY <1>7, OneRun
  <2> QED BY <1>7, <2>1, NotIdle
<1>9. /\ \A u : Push!LinkedTo(u)' = Push!LinkedTo(u) /\ Due(u)' = Due(u)
      /\ Push!Wanted' = Push!Wanted /\ Push!Wanted \subseteq Characters
  BY <1>6, SameFacts DEF Push!Wanted
<1>10. ASSUME j = "roles" PROVE RolesPart'
  <2>1. Push!Touched(j, x) = {x.user}
    BY <1>10, TouchedIs
  <2>2. ASSUME NEW u \in Users, u \notin drift => RolesOnWay(r, u), u \notin drift'
        PROVE  RolesOnWay(q, u)'
    <3>1. u = x.user => again
      BY <1>7, <2>1, <2>2
    <3>2. x.user \in q.missed \/ u # x.user
      BY <1>7, <2>1, <3>1
    <3>3. CASE u = x.user
      BY <3>2, <3>3 DEF RolesOnWay
    <3>4. CASE u # x.user
      BY <1>2, <1>5, <1>6, <1>7, <1>9, <2>2, <3>4 DEF RolesOnWay
    <3> QED BY <3>3, <3>4
  <2>3. r.third = {} /\ q.third = {}
    BY <1>1, <1>3, <1>5, <1>7, <1>10 DEF PushInv, RolesPart
  <2>4. \A u \in q.missed : u \in r.missed \/ (r.at # Idle /\ r.at.user = u)
    BY <1>2, <1>3, <1>5, <1>7, <2>1
  <2> QED BY <1>1, <1>3, <1>5, <1>6, <1>7, <1>8, <1>9, <1>10, <2>2, <2>3, <2>4, RolesOwn
<1>11. ASSUME j = "acl" PROVE AclPart'
  <2>1. Push!Touched(j, x) = Characters
    BY <1>11, TouchedIs
  <2>2. ASSUME AclRun(r) PROVE AclRun(q)'
    <3>1. \A c \in Characters \ drift' : AclOnWay(q, c)'
      BY <1>7, <2>1 DEF AclOnWay
    <3>2. /\ r.wanted = Push!Wanted /\ r.todo = {} /\ r.add \union r.third \subseteq Push!Wanted
          /\ r.remove \intersect Push!Wanted = {}
      BY <1>2, <1>3, <2>2 DEF AclRun
    <3> QED BY <1>5, <1>7, <1>9, <3>1, <3>2 DEF AclRun
  <2> QED BY <1>1, <1>3, <1>6, <1>8, <1>11, <2>2, AclOwn
<1>12. ASSUME j = "contacts" PROVE ContactsPart'
  <2>1. /\ x \in Characters /\ result'[x] = FALSE
        /\ \A c \in Characters : c # x => result'[c] = result[c]
    BY <1>3, <1>7, <1>12, Remotes DEF Push!Targets
  <2>2. ASSUME ContactsRun(r) PROVE ContactsRun(q)'
    <3>1. \A c \in Push!Wanted, d \in Characters :
            result'[c] /\ <<c, d>> \notin drift' /\ q.at # c => c \in q.todo \/ Kept(c, d)'
      <4> SUFFICES ASSUME NEW c \in Push!Wanted, NEW d \in Characters, result'[c], <<c, d>> \notin drift', q.at # c
                   PROVE  c \in q.todo \/ Kept(c, d)'
        OBVIOUS
      <4>1. r.at # c /\ result[c] /\ <<c, d>> \notin drift
        BY <1>2, <1>5, <1>7, <1>9, <2>1
      <4>2. c \in r.todo \/ Kept(c, d)
        BY <2>2, <4>1 DEF ContactsRun
      <4>3. Kept(c, d) => Kept(c, d)'
        BY <1>6, <1>9 DEF Kept
      <4> QED BY <1>5, <1>7, <4>2, <4>3
    <3>2. /\ r.wanted = Push!Wanted /\ r.add \union r.third \subseteq Push!Wanted \ {x}
          /\ r.remove \intersect (Push!Wanted \ {x}) = {}
      BY <1>2, <1>3, <2>2 DEF ContactsRun
    <3>3. q.at = x /\ q.clean = FALSE /\ q.add \union q.third \subseteq Push!Wanted \ {x}
          /\ q.remove \intersect (Push!Wanted \ {x}) = {}
      BY <1>2, <1>5, <1>7, <3>2
    <3> QED BY <1>5, <1>7, <1>9, <2>1, <3>1, <3>2, <3>3 DEF ContactsRun
  <2> QED BY <1>1, <1>3, <1>6, <1>8, <1>12, <2>2, ContactsOwn
<1>13. result' \in [Characters -> BOOLEAN]
  BY <1>7, Remotes
<1> QED BY <1>6, <1>7, <1>10, <1>11, <1>12, <1>13, Remotes, GoesOn

-----------------------------------------------------------------------------
(* A visit ends. *)

\* A visit that ends has mended what it planned, and says so in its records.
LEMMA LeaveStep ==
  ASSUME PushConstants, PushInv, NEW j \in PushJobs, Push!Leave(j)
  PROVE  PushInv'
<1>1. PICK r : r = run[j]
  OBVIOUS
<1>2. PICK x : x = r.at
  OBVIOUS
<1>3. /\ r \in Push!RunType(j) /\ r # Idle /\ x # Idle /\ x \in Push!Targets(j)
      /\ r.add = {} /\ r.remove = {} /\ r.third = {}
  <2>1. r \in Push!RunType(j) /\ r # Idle /\ x # Idle /\ r.add = {} /\ r.remove = {} /\ r.third = {}
    BY <1>1, <1>2, BusyRun DEF Push!Leave, Push!Visiting, Push!Calls
  <2> QED BY <1>2, <2>1, RunHas
<1>4. PICK q : q = [r EXCEPT !.at = Idle, !.seen = Idle, !.clean = TRUE]
  OBVIOUS
<1>5. /\ q \in Push!RunType(j)
      /\ q.wake = r.wake /\ q.wanted = r.wanted /\ q.todo = r.todo /\ q.at = Idle /\ q.clean = TRUE
      /\ q.missed = r.missed /\ q.seen = Idle /\ q.add = r.add /\ q.remove = r.remove /\ q.third = r.third
  BY ONLY <1>3, <1>4 DEF Push!RunType
<1>6. /\ run' = [run EXCEPT ![j] = q]
      /\ queue' = Push!Enqueued(UNION {Push!AccountWakes(a) : a \in Push!Relinked(j)})
      /\ observed' = IF j = "acl" THEN IF r.seen # Idle THEN r.seen ELSE acl ELSE observed
      /\ result' = IF j = "contacts" THEN [result EXCEPT ![x] = r.clean] ELSE result
      /\ UNCHANGED <<tier, link, invalid, guild, roles, acl, book, drift>>
  BY <1>1, <1>2, <1>4 DEF Push!Leave, Push!Left, Push!Observation, Push!facts, Push!remotes
<1>7. run'[j] = q /\ q # Idle
  <2>1. run'[j] = q
    BY <1>5, <1>6, OneRun
  <2> QED BY <1>5, <1>6, <2>1, NotIdle
<1>8. queue \subseteq queue' /\ queue' \subseteq Push!AllWakes \union Push!RoleWakes
  <2>1. Push!Relinked(j) \subseteq Accounts
    BY DEF Push!Relinked, Push!LinkedTo
  <2>2. PICK W : W = UNION {Push!AccountWakes(a) : a \in Push!Relinked(j)}
    OBVIOUS
  <2>3. W \in SUBSET (Push!AllWakes \union Push!RoleWakes)
    BY <2>1, <2>2, WakesTyped
  <2>4. queue' = queue \union W
    BY <1>6, <2>2, <2>3, Enqueues
  <2> QED BY <2>3, <2>4, Remotes
<1>9. /\ \A u : Push!LinkedTo(u)' = Push!LinkedTo(u) /\ Due(u)' = Due(u)
      /\ Push!Wanted' = Push!Wanted /\ Push!Wanted \subseteq Characters
  BY <1>6, SameFacts DEF Push!Wanted
<1>10. ASSUME j = "roles" PROVE RolesPart'
  <2>1. \A u \in Users : Mends(r, u) => roles[u] = Due(u)
    BY <1>3 DEF Mends
  <2>2. ASSUME NEW u \in Users, RolesOnWay(r, u) PROVE RolesOnWay(q, u)'
    BY <1>2, <1>3, <1>5, <1>6, <1>9, <2>1, <2>2 DEF RolesOnWay
  <2> QED BY <1>1, <1>3, <1>5, <1>6, <1>7, <1>8, <1>9, <1>10, <2>2, RolesOwn
<1>11. ASSUME j = "acl" PROVE AclPart' /\ observed' \in [Characters -> Push!AclRoles]
  <2>1. observed' = IF r.seen # Idle THEN r.seen ELSE acl
    BY <1>6, <1>11
  <2>2. observed' \in [Characters -> Push!AclRoles]
    BY <1>3, <2>1, RunHas, Remotes
  <2>3. ASSUME AclRun(r) PROVE AclRun(q)'
    <3>1. ASSUME NEW c \in Characters, AclMends(r, c) PROVE Listed(c)' /\ observed'[c] = acl'[c]
      <4>1. acl[c] \in Push!AclRoles
        BY Remotes
      <4>2. Listed(c)
        BY <1>3, <3>1, <4>1 DEF AclMends, Listed, Push!AclRoles
      <4>3. observed'[c] = acl[c]
        BY <2>1, <3>1 DEF AclMends
      <4> QED BY <1>6, <1>9, <4>2, <4>3 DEF Listed
    <3>2. ASSUME NEW c \in Characters \ drift' PROVE AclOnWay(q, c)'
      <4>1. r.todo = {}
        BY <1>2, <1>3, <2>3 DEF AclRun
      <4>2. Characters \subseteq r.missed \/ AclMends(r, c)
        BY <1>2, <1>3, <1>6, <2>3, <4>1 DEF AclRun, AclOnWay
      <4> QED BY <1>5, <3>1, <4>2 DEF AclOnWay
    <3> QED BY <1>5, <1>9, <2>3, <3>2 DEF AclRun
  <2>4. AclPart'
    BY <1>1, <1>3, <1>7, <1>8, <1>11, <2>3, AclOwn
  <2> QED BY <2>2, <2>4
<1>12. ASSUME j = "contacts" PROVE ContactsPart' /\ result' \in [Characters -> BOOLEAN]
  <2>1. x \in Characters /\ r.clean \in BOOLEAN
    BY <1>3, <1>12, RunHas DEF Push!Targets
  <2>2. /\ result' \in [Characters -> BOOLEAN] /\ result'[x] = r.clean
        /\ \A c \in Characters : c # x => result'[c] = result[c]
    BY <1>6, <1>12, <2>1, Remotes
  <2>3. ASSUME ContactsRun(r) PROVE ContactsRun(q)'
    <3>1. \A c \in Push!Wanted, d \in Characters :
            result'[c] /\ <<c, d>> \notin drift' => c \in q.todo \/ Kept(c, d)'
      <4> SUFFICES ASSUME NEW c \in Push!Wanted, NEW d \in Characters, result'[c], <<c, d>> \notin drift'
                   PROVE  c \in q.todo \/ Kept(c, d)'
        OBVIOUS
      <4>1. Kept(c, d) => Kept(c, d)'
        BY <1>6, <1>9 DEF Kept
      <4>2. CASE c = x
        <5>1. BookMends(r, x, d)
          BY <1>2, <1>3, <1>6, <2>2, <2>3, <4>2 DEF ContactsRun
        <5>2. book[x][d] \in Push!Contacts
          BY <2>1, Remotes
        <5>3. Kept(x, d)
          BY <1>3, <5>1, <5>2 DEF BookMends, Kept, Push!Contacts
        <5> QED BY <4>1, <4>2, <5>3
      <4>3. CASE c # x
        <5>1. result[c] /\ c \in Characters /\ r.at # c /\ <<c, d>> \notin drift
          BY <1>2, <1>6, <1>9, <2>2, <4>3
        <5>2. c \in r.todo \/ Kept(c, d)
          BY <2>3, <5>1 DEF ContactsRun
        <5> QED BY <1>5, <4>1, <5>2
      <4> QED BY <4>2, <4>3
    <3> QED BY <1>5, <1>9, <2>3, <3>1 DEF ContactsRun
  <2>4. ContactsPart'
    BY <1>1, <1>3, <1>7, <1>8, <1>12, <2>3, ContactsOwn
  <2> QED BY <2>2, <2>4
<1>13. drift \subseteq drift' /\ (j # "acl" => observed' = observed) /\ (j # "contacts" => result' = result)
  BY <1>6
<1> QED BY <1>5, <1>6, <1>8, <1>10, <1>11, <1>12, <1>13, Remotes, GoesOn

\* The list is not read again: the old observation stays, and is drift or will be made good.
LEMMA UnobservedStep ==
  ASSUME PushConstants, PushInv, NEW again \in BOOLEAN, Push!Unobserved(again)
  PROVE  PushInv'
<1>0. "acl" \in PushJobs /\ "list" \in Push!Targets("acl") /\ "acl" # "contacts" /\ "acl" # "roles"
  BY DEF PushJobs, Push!Targets
<1>1. PICK r : r = run["acl"]
  OBVIOUS
<1>2. r \in Push!RunType("acl") /\ r # Idle /\ r.at # Idle
  BY <1>0, <1>1, BusyRun DEF Push!Unobserved, Push!Visiting
<1>3. PICK s : s = [r EXCEPT !.at = Idle, !.seen = Idle, !.clean = TRUE]
  OBVIOUS
<1>4. /\ s \in Push!RunType("acl")
      /\ s.wake = r.wake /\ s.wanted = r.wanted /\ s.todo = r.todo /\ s.at = Idle
      /\ s.missed = r.missed
  BY ONLY <1>2, <1>3 DEF Push!RunType
<1>5. /\ Push!Failed("acl", "list", s, again)
      /\ UNCHANGED <<tier, link, invalid, guild, queue, roles, acl, book, observed>>
  <2>1. Push!Left("acl")["acl"] = s
    BY <1>0, <1>1, <1>3 DEF Push!Left, PushInv, Push!TypeOK
  <2> QED BY <2>1 DEF Push!Unobserved, Push!facts, Push!remotes
<1>6. PICK q \in Push!RunType("acl") :
           /\ run' = [run EXCEPT !["acl"] = q]
           /\ q.wake = s.wake /\ q.wanted = s.wanted /\ q.todo = s.todo /\ q.at = s.at
           /\ q.missed = s.missed \union (IF again THEN Push!Touched("acl", "list") ELSE {})
           /\ drift \subseteq drift' /\ (~again => Push!Touched("acl", "list") \subseteq drift')
           /\ result' = result
  BY <1>0, <1>2, <1>4, <1>5, FailedIs
<1>7. run'["acl"] = q /\ q # Idle
  <2>1. run'["acl"] = q
    BY ONLY <1>0, <1>6, PushInv, OneRun
  <2> QED BY <1>0, <1>6, <2>1, NotIdle
<1>8. Push!Wanted' = Push!Wanted
  BY <1>5, SameFacts
<1>9. AclPart'
  <2>1. Push!Touched("acl", "list") = Characters
    BY TouchedIs
  <2>2. ASSUME AclRun(r) PROVE AclRun(q)'
    <3>1. \A c \in Characters \ drift' : AclOnWay(q, c)'
      BY <1>6, <2>1 DEF AclOnWay
    <3> QED BY <1>4, <1>6, <1>8, <2>2, <3>1 DEF AclRun
  <2> QED BY <1>1, <1>2, <1>5, <1>7, <2>2, AclOwn
<1>10. queue \subseteq queue' /\ queue' \subseteq Push!AllWakes \union Push!RoleWakes
  BY <1>5, Remotes
<1>11. acl' \in [Characters -> Push!AclRoles] /\ observed' \in [Characters -> Push!AclRoles]
  BY <1>5, Remotes
<1> QED BY <1>0, <1>5, <1>6, <1>9, <1>10, <1>11, GoesOn

-----------------------------------------------------------------------------
(* A run ends. *)

\* When the run of the roles ends, whoever is not as due has a wake-up or has drifted.
LEMMA RolesEnd ==
  ASSUME PushInv, UNCHANGED <<tier, link, invalid, roles>>, queue \subseteq queue', run'["roles"] = Idle,
         run["roles"] # Idle, NEW r, r = run["roles"], drift \subseteq drift',
         \A u \in Users : Untold(u)' /\ RolesVisit(r, u) /\ RolesOnWay(r, u) /\ u \notin drift' => roles[u] = Due(u)
  PROVE  RolesPart'
<1>1. /\ \A u : Due(u)' = Due(u)
      /\ \A w, u : Reaches(w, u)' <=> Reaches(w, u)
  BY SameFacts
<1> SUFFICES ASSUME NEW u \in Users, Untold(u)', u \notin drift'
             PROVE  roles'[u] = Due(u)'
  BY DEF RolesPart
<1>2. Untold(u)
  BY <1>1 DEF Untold
<1>3. RolesVisit(r, u) /\ RolesOnWay(r, u)
  BY <1>2 DEF PushInv, RolesPart
<1> QED BY <1>1, <1>3

\* The same of the run of the access list.
LEMMA AclEnd ==
  ASSUME PushInv, UNCHANGED <<tier, link, invalid, acl, observed>>, queue \subseteq queue', run'["acl"] = Idle,
         run["acl"] # Idle, NEW r, r = run["acl"], drift \subseteq drift',
         NoneFor("acl")' /\ AclRun(r) => \A c \in Characters \ drift' : Listed(c) /\ observed[c] = acl[c]
  PROVE  AclPart'
<1>1. Push!Wanted' = Push!Wanted
  BY SameFacts
<1> SUFFICES ASSUME NoneFor("acl")', NEW c \in Characters \ drift'
             PROVE  Listed(c)' /\ observed'[c] = acl'[c]
  BY DEF AclPart
<1>2. AclRun(r)
  BY DEF PushInv, AclPart, NoneFor
<1> QED BY <1>1, <1>2 DEF Listed

\* The same of the run of the contacts.
LEMMA ContactsEnd ==
  ASSUME PushInv, UNCHANGED <<tier, link, invalid, book, result>>, queue \subseteq queue', run'["contacts"] = Idle,
         run["contacts"] # Idle, NEW r, r = run["contacts"], drift \subseteq drift',
         NoneFor("contacts")' /\ ContactsRun(r) =>
           \A c \in Push!Wanted, d \in Characters : result[c] /\ <<c, d>> \notin drift' => Kept(c, d)
  PROVE  ContactsPart'
<1>1. Push!Wanted' = Push!Wanted
  BY SameFacts
<1> SUFFICES ASSUME NoneFor("contacts")', NEW c \in Push!Wanted, NEW d \in Characters, result[c], <<c, d>> \notin drift'
             PROVE  Kept(c, d)'
  BY <1>1 DEF ContactsPart
<1>2. ContactsRun(r)
  BY DEF PushInv, ContactsPart, NoneFor
<1> QED BY <1>1, <1>2 DEF Kept

\* However a run ends, the type and the other jobs are as they were.
LEMMA Ends ==
  ASSUME PushConstants, PushInv, NEW j \in PushJobs,
         UNCHANGED <<tier, link, invalid, guild, roles, acl, book, observed, result>>,
         run' = [run EXCEPT ![j] = Idle], NEW r \in Push!RunType(j), r = run[j],
         queue' \in {queue, queue \union {r.wake}},
         drift \subseteq drift',
         j = "roles" => RolesPart', j = "acl" => AclPart', j = "contacts" => ContactsPart'
  PROVE  PushInv'
<1>1. run'[j] = Idle /\ DOMAIN run' = PushJobs /\ \A k \in PushJobs \ {j} : run'[k] = run[k]
  BY OneRun
<1>2. r.wake \in Push!AllWakes \union Push!RoleWakes
  BY RunHas DEF Push!WakesOf
<1>3. /\ run'[j] \in Push!RunType(j) \union {Idle}
      /\ \A w \in queue : w.job # j => w \in queue'
      /\ \A x \in drift : x \in Push!Things(j) \/ x \in drift'
      /\ queue' \subseteq Push!AllWakes \union Push!RoleWakes
  BY <1>1, <1>2, Remotes
<1>4. /\ roles' \in [Users -> SUBSET Push!Managed]
      /\ acl' \in [Characters -> Push!AclRoles] /\ observed' \in [Characters -> Push!AclRoles]
      /\ book' \in [Characters -> [Characters -> Push!Contacts]] /\ result' \in [Characters -> BOOLEAN]
  BY Remotes
<1> QED BY <1>1, <1>3, <1>4, OwnStep

\* A run that missed something waits again.
LEMMA FinishStep ==
  ASSUME PushConstants, PushInv, NEW j \in PushJobs, Push!Finish(j)
  PROVE  PushInv'
<1>1. PICK r : r = run[j]
  OBVIOUS
<1>2. r \in Push!RunType(j) /\ r # Idle /\ r.at = Idle /\ r.todo = {}
  BY <1>1, BusyRun DEF Push!Finish, Push!Visiting
<1>3. /\ run' = [run EXCEPT ![j] = Idle]
      /\ queue' = IF r.missed = {} THEN queue ELSE queue \union {r.wake}
      /\ UNCHANGED <<tier, link, invalid, guild, roles, acl, book, observed, result, drift>>
  BY <1>1 DEF Push!Finish, Push!facts, Push!remotes, Push!records
<1>4. run'[j] = Idle /\ queue \subseteq queue' /\ drift \subseteq drift'
      /\ queue' \in {queue, queue \union {r.wake}}
  BY <1>3, OneRun
<1>5. r.wake.job = j
  BY <1>2, RunHas DEF Push!WakesOf
<1>6. ASSUME j = "roles" PROVE RolesPart'
  <2>1. ASSUME NEW u \in Users, Untold(u)', RolesVisit(r, u), RolesOnWay(r, u) PROVE roles[u] = Due(u)
    <3>1. Reaches(r.wake, u)' <=> Reaches(r.wake, u)
      BY <1>3, SameFacts
    <3>2. u \notin r.missed
      BY <1>3, <2>1, <3>1 DEF Untold, RolesVisit
    <3> QED BY <1>2, <2>1, <3>2 DEF RolesOnWay
  <2> QED BY <1>1, <1>2, <1>3, <1>4, <1>6, <2>1, RolesEnd
<1>7. ASSUME j = "acl" PROVE AclPart'
  <2>1. ASSUME NoneFor("acl")', AclRun(r) PROVE \A c \in Characters \ drift' : Listed(c) /\ observed[c] = acl[c]
    <3>1. r.missed = {}
      BY <1>3, <1>5, <1>7, <2>1 DEF NoneFor
    <3> QED BY <1>2, <1>3, <2>1, <3>1 DEF AclRun, AclOnWay
  <2> QED BY <1>1, <1>2, <1>3, <1>4, <1>7, <2>1, AclEnd
<1>8. ASSUME j = "contacts" PROVE ContactsPart'
  <2>1. ASSUME ContactsRun(r), NEW c \in Push!Wanted, NEW d \in Characters, result[c], <<c, d>> \notin drift' PROVE Kept(c, d)
    <3>1. r.at # c
      BY <1>2, <1>8 DEF Push!Wanted, PushConstants, Push!Targets
    <3> QED BY <1>2, <1>3, <2>1, <3>1 DEF ContactsRun
  <2> QED BY <1>1, <1>2, <1>3, <1>4, <1>8, <2>1, ContactsEnd
<1> QED BY <1>1, <1>2, <1>3, <1>4, <1>6, <1>7, <1>8, Ends

\* A run that died waits again.
LEMMA CrashStep ==
  ASSUME PushConstants, PushInv, NEW j \in PushJobs, Push!Crash(j)
  PROVE  PushInv'
<1>1. PICK r : r = run[j]
  OBVIOUS
<1>2. r \in Push!RunType(j) /\ r # Idle
  BY <1>1, BusyRun DEF Push!Crash
<1>3. /\ run' = [run EXCEPT ![j] = Idle] /\ queue' = queue \union {r.wake}
      /\ UNCHANGED <<tier, link, invalid, guild, roles, acl, book, observed, result, drift>>
  BY <1>1 DEF Push!Crash, Push!facts, Push!remotes, Push!records
<1>4. run'[j] = Idle /\ queue \subseteq queue' /\ drift \subseteq drift' /\ r.wake \in queue'
      /\ queue' \in {queue, queue \union {r.wake}}
  BY <1>3, OneRun
<1>5. r.wake.job = j
  BY <1>2, RunHas DEF Push!WakesOf
<1>6. ASSUME j = "roles" PROVE RolesPart'
  <2>1. ASSUME NEW u \in Users, Untold(u)', RolesVisit(r, u), RolesOnWay(r, u) PROVE roles[u] = Due(u)
    <3>1. Reaches(r.wake, u)' <=> Reaches(r.wake, u)
      BY <1>3, SameFacts
    <3>2. ~Reaches(r.wake, u)
      BY <1>4, <2>1, <3>1 DEF Untold
    <3> QED BY <2>1, <3>2 DEF RolesVisit, RolesOnWay
  <2> QED BY <1>1, <1>2, <1>3, <1>4, <1>6, <2>1, RolesEnd
<1>7. ~NoneFor(j)'
  BY <1>4, <1>5 DEF NoneFor
<1>8. (j = "acl" => AclPart') /\ (j = "contacts" => ContactsPart')
  BY <1>7 DEF AclPart, ContactsPart
<1> QED BY <1>1, <1>2, <1>3, <1>4, <1>6, <1>8, Ends

\* What the last retry leaves undone is drift.
LEMMA DeadLetterStep ==
  ASSUME PushConstants, PushInv, NEW j \in PushJobs, Push!DeadLetter(j)
  PROVE  PushInv'
<1>1. PICK r : r = run[j]
  OBVIOUS
<1>2. r \in Push!RunType(j) /\ r # Idle
  BY <1>1, BusyRun DEF Push!DeadLetter
<1>3. /\ run' = [run EXCEPT ![j] = Idle] /\ drift' = drift \union Push!Ended(j)
      /\ UNCHANGED <<tier, link, invalid, guild, queue, roles, acl, book, observed, result>>
  BY <1>1 DEF Push!DeadLetter, Push!facts, Push!remotes, Push!records
<1>4. run'[j] = Idle /\ queue \subseteq queue' /\ drift \subseteq drift'
      /\ queue' \in {queue, queue \union {r.wake}}
  BY <1>3, OneRun
<1>5. /\ r.missed \subseteq drift'
      /\ \A x \in r.todo : Push!Touched(j, x) \subseteq drift'
      /\ r.at # Idle => Push!Touched(j, r.at) \subseteq drift'
  BY <1>1, <1>3 DEF Push!Ended, Push!AllTouched
<1>6. ASSUME j = "roles" PROVE RolesPart'
  <2>1. ASSUME NEW u \in Users, RolesOnWay(r, u), u \notin drift' PROVE roles[u] = Due(u)
    BY <1>5, <1>6, <2>1, TouchedIs DEF RolesOnWay
  <2> QED BY <1>1, <1>2, <1>3, <1>4, <1>6, <2>1, RolesEnd
<1>7. ASSUME j = "acl" PROVE AclPart'
  <2>1. ASSUME AclRun(r), NEW c \in Characters \ drift' PROVE Listed(c) /\ observed[c] = acl[c]
    <3>1. r.todo = {} /\ ~(Characters \subseteq r.missed) /\ r.at = Idle
      BY <1>5, <1>7, <2>1, TouchedIs
    <3> QED BY <1>3, <2>1, <3>1 DEF AclRun, AclOnWay
  <2> QED BY <1>1, <1>2, <1>3, <1>4, <1>7, <2>1, AclEnd
<1>8. ASSUME j = "contacts" PROVE ContactsPart'
  <2>1. ASSUME ContactsRun(r), NEW c \in Push!Wanted, NEW d \in Characters, result[c], <<c, d>> \notin drift' PROVE Kept(c, d)
    <3>1. c \in Characters /\ c # Idle
      BY <1>8 DEF Push!Wanted, PushConstants, Push!Targets
    <3>2. c \notin r.todo /\ r.at # c
      BY <1>5, <1>8, <2>1, <3>1, TouchedIs
    <3> QED BY <1>3, <2>1, <3>2 DEF ContactsRun
  <2> QED BY <1>1, <1>2, <1>3, <1>4, <1>8, <2>1, ContactsEnd
<1> QED BY <1>1, <1>2, <1>3, <1>4, <1>6, <1>7, <1>8, Ends

-----------------------------------------------------------------------------
(* A run begins. *)

\* A wake-up makes the job visit a user exactly if it reaches the user, and with the tier due.
LEMMA VisitsReach ==
  ASSUME PushConstants, PushInv, NEW w \in Push!RoleWakes, NEW u \in Users
  PROVE  /\ \A x \in Push!ToVisit(w) : x.user = u => Push!RolesDue(x.tier) = Due(u) /\ Reaches(w, u)
         /\ Reaches(w, u) => \E x \in Push!ToVisit(w) : x.user = u
<1>0. /\ tier \in [Accounts -> Tiers] /\ link \in [Accounts -> Users \union {NoUser}]
      /\ LinkUnique
  BY DEF PushInv, Push!TypeOK
<1>1. w.job = "roles"
  BY DEF Push!RoleWakes, Push!Wake
<1>2. ASSUME NEW a \in Accounts, link[a] = u
      PROVE  Push!LinkedTo(u) = {a} /\ Push!RolesDue(tier[a]) = Due(u)
  <2>1. Push!LinkedTo(u) = {a}
    BY <1>0, <1>2 DEF LinkUnique, Push!LinkedTo, PushConstants
  <2> QED BY <2>1 DEF Due
<1>3. ASSUME NEW S \in SUBSET Accounts
      PROVE  /\ \A x \in Push!Linked(S) : x.user = u =>
                  Push!RolesDue(x.tier) = Due(u) /\ \E a \in S : Push!LinkedTo(u) = {a}
             /\ \A a \in S : link[a] = u => \E x \in Push!Linked(S) : x.user = u
  <2>1. ASSUME NEW x \in Push!Linked(S), x.user = u
        PROVE  Push!RolesDue(x.tier) = Due(u) /\ \E a \in S : Push!LinkedTo(u) = {a}
    <3>1. PICK a \in S : x = [account |-> a, tier |-> tier[a], user |-> link[a]]
      BY DEF Push!Linked
    <3>2. link[a] = u /\ x.tier = tier[a]
      BY <2>1, <3>1
    <3> QED BY <1>2, <3>2
  <2>2. ASSUME NEW a \in S, link[a] = u PROVE \E x \in Push!Linked(S) : x.user = u
    <3>1. [account |-> a, tier |-> tier[a], user |-> link[a]] \in Push!Linked(S)
      BY <2>2 DEF Push!Linked, PushConstants
    <3> QED BY <2>2, <3>1
  <2> QED BY <2>1, <2>2
<1>4. CASE w = Push!Wake("roles", "all", "all")
  <2>1. w.scope = "all" /\ Push!ToVisit(w) = Push!Linked(Accounts)
    BY <1>4 DEF Push!Wake, Push!ToVisit
  <2>2. Reaches(w, u) <=> Push!LinkedTo(u) # {}
    BY <1>1, <2>1 DEF Reaches
  <2> QED BY <1>3, <2>1, <2>2 DEF Push!LinkedTo
<1>5. ASSUME NEW b \in Accounts, w = Push!Wake("roles", "account", b)
      PROVE  /\ \A x \in Push!ToVisit(w) : x.user = u => Push!RolesDue(x.tier) = Due(u) /\ Reaches(w, u)
             /\ Reaches(w, u) => \E x \in Push!ToVisit(w) : x.user = u
  <2>1. w.scope = "account" /\ w.who = b /\ Push!ToVisit(w) = Push!Linked({b})
    BY <1>5 DEF Push!Wake, Push!ToVisit
  <2>2. Reaches(w, u) <=> b \in Push!LinkedTo(u)
    BY <1>1, <2>1 DEF Reaches
  <2> QED BY <1>3, <2>1, <2>2 DEF Push!LinkedTo
<1>6. ASSUME NEW v \in Users, w = Push!Wake("roles", "user", v)
      PROVE  /\ \A x \in Push!ToVisit(w) : x.user = u => Push!RolesDue(x.tier) = Due(u) /\ Reaches(w, u)
             /\ Reaches(w, u) => \E x \in Push!ToVisit(w) : x.user = u
  <2>1. w.scope = "user" /\ w.who = v /\ Push!ToVisit(w) = Push!Stripped(v)
    BY <1>6 DEF Push!Wake, Push!ToVisit
  <2>2. Reaches(w, u) <=> v = u /\ Push!LinkedTo(u) = {}
    BY <1>1, <2>1 DEF Reaches
  <2>3. /\ Push!LinkedTo(v) # {} => Push!ToVisit(w) = {}
        /\ Push!LinkedTo(v) = {} => Push!ToVisit(w) = {[account |-> NoUser, tier |-> "pending", user |-> v]}
    BY <2>1 DEF Push!Stripped
  <2>4. Push!LinkedTo(u) = {} => Due(u) = {} /\ Push!RolesDue("pending") = {}
    BY DEF Due, Push!RolesDue
  <2>5. CASE Push!LinkedTo(v) # {}
    BY <2>2, <2>3, <2>5
  <2>6. CASE Push!LinkedTo(v) = {}
    <3>1. PICK y : y = [account |-> NoUser, tier |-> "pending", user |-> v]
      OBVIOUS
    <3>2. y.user = v /\ y.tier = "pending"
      BY <3>1
    <3>3. Push!ToVisit(w) = {y}
      BY <2>3, <2>6, <3>1
    <3> QED BY <2>2, <2>4, <2>6, <3>2, <3>3
  <2> QED BY <2>5, <2>6
<1> QED BY <1>4, <1>5, <1>6 DEF Push!RoleWakes

\* What a wake-up makes a job visit, for each job.
LEMMA ToVisitIs ==
  ASSUME PushConstants, PushInv, NEW j \in PushJobs, NEW w \in Push!WakesOf(j)
  PROVE  /\ Push!ToVisit(w) \subseteq Push!Targets(j)
         /\ j = "roles" => w \in Push!RoleWakes
         /\ j = "acl" => Push!ToVisit(w) = {"list"}
         /\ j = "contacts" => Push!ToVisit(w) = Push!Wanted
<1>0. tier \in [Accounts -> Tiers] /\ link \in [Accounts -> Users \union {NoUser}]
  BY DEF PushInv, Push!TypeOK
<1>1. CASE j = "roles"
  <2>1. w \in Push!RoleWakes
    BY <1>1 DEF Push!WakesOf, Push!AllWakes, Push!Wake
  <2>2. Push!Targets(j) = [account : Accounts \union {NoUser}, tier : Tiers, user : Users]
    BY <1>1 DEF Push!Targets
  <2>3. ASSUME NEW S \in SUBSET Accounts PROVE Push!Linked(S) \subseteq Push!Targets(j)
    BY <1>0, <2>2 DEF Push!Linked
  <2>4. \A v \in Users : Push!Stripped(v) \subseteq Push!Targets(j)
    BY <2>2 DEF Push!Stripped, PushConstants
  <2>5. CASE w = Push!Wake("roles", "all", "all")
    <3>1. Push!ToVisit(w) = Push!Linked(Accounts)
      BY <2>5 DEF Push!Wake, Push!ToVisit
    <3> QED BY <1>1, <2>1, <2>3, <3>1
  <2>6. ASSUME NEW b \in Accounts, w = Push!Wake("roles", "account", b) PROVE Push!ToVisit(w) \subseteq Push!Targets(j)
    <3>1. Push!ToVisit(w) = Push!Linked({b})
      BY <2>6 DEF Push!Wake, Push!ToVisit
    <3> QED BY <2>3, <3>1
  <2>7. ASSUME NEW v \in Users, w = Push!Wake("roles", "user", v) PROVE Push!ToVisit(w) \subseteq Push!Targets(j)
    <3>1. Push!ToVisit(w) = Push!Stripped(v)
      BY <2>7 DEF Push!Wake, Push!ToVisit
    <3> QED BY <2>4, <3>1
  <2> QED BY <1>1, <2>1, <2>5, <2>6, <2>7 DEF Push!RoleWakes
<1>2. CASE j = "acl"
  <2>1. Push!ToVisit(w) = {"list"}
    BY <1>2 DEF Push!WakesOf, Push!ToVisit
  <2> QED BY <1>2, <2>1 DEF Push!Targets
<1>3. CASE j = "contacts"
  <2>1. Push!ToVisit(w) = Push!Wanted
    BY <1>3 DEF Push!WakesOf, Push!ToVisit
  <2> QED BY <1>3, <2>1 DEF Push!Targets, Push!Wanted
<1> QED BY <1>1, <1>2, <1>3 DEF PushJobs

\* A run takes over everybody its wake-up reaches.
LEMMA BeginStep ==
  ASSUME PushConstants, PushInv, NEW j \in PushJobs, NEW w \in queue, Push!Begin(j, w)
  PROVE  PushInv'
<1>1. run[j] = Idle /\ w.job = j /\ w \in Push!WakesOf(j)
  BY Remotes DEF Push!Begin, Push!WakesOf
<1>2. PICK q : q = [wake |-> w, todo |-> Push!ToVisit(w), wanted |-> Push!Wanted, at |-> Idle, seen |-> Idle,
                    add |-> {}, remove |-> {}, third |-> {}, clean |-> TRUE, missed |-> {}]
  OBVIOUS
<1>3. /\ queue' = queue \ {w} /\ run' = [run EXCEPT ![j] = q]
      /\ UNCHANGED <<tier, link, invalid, guild, roles, acl, book, observed, result, drift>>
  BY <1>2 DEF Push!Begin, Push!facts, Push!remotes, Push!records
<1>4. /\ Push!ToVisit(w) \subseteq Push!Targets(j)
      /\ j = "roles" => w \in Push!RoleWakes
      /\ j = "acl" => Push!ToVisit(w) = {"list"}
      /\ j = "contacts" => Push!ToVisit(w) = Push!Wanted
  BY <1>1, ToVisitIs
<1>5. Push!Wanted \subseteq Characters
  BY DEF Push!Wanted
<1>6. /\ q \in Push!RunType(j)
      /\ q.wake = w /\ q.todo = Push!ToVisit(w) /\ q.wanted = Push!Wanted /\ q.at = Idle
      /\ q.missed = {} /\ q.third = {}
  BY ONLY <1>1, <1>2, <1>4, <1>5 DEF Push!RunType
<1>7. run'[j] = q /\ q # Idle /\ DOMAIN run' = PushJobs /\ \A k \in PushJobs \ {j} : run'[k] = run[k]
  <2>1. run'[j] = q /\ DOMAIN run' = PushJobs /\ \A k \in PushJobs \ {j} : run'[k] = run[k]
    BY <1>3, <1>6, OneRun
  <2> QED BY <1>6, <2>1, NotIdle
<1>8. /\ \A u : Push!LinkedTo(u)' = Push!LinkedTo(u) /\ Due(u)' = Due(u)
      /\ \A v, u : Reaches(v, u)' <=> Reaches(v, u)
      /\ Push!Wanted' = Push!Wanted
  BY <1>3, SameFacts
<1>9. ASSUME j = "roles" PROVE RolesPart'
  <2> SUFFICES ASSUME NEW u \in Users, Untold(u)'
               PROVE  RolesVisit(q, u)' /\ (u \notin drift' => RolesOnWay(q, u)')
    BY <1>6, <1>7, <1>9 DEF RolesPart
  <2>1. /\ \A x \in Push!ToVisit(w) : x.user = u => Push!RolesDue(x.tier) = Due(u) /\ Reaches(w, u)
        /\ Reaches(w, u) => \E x \in Push!ToVisit(w) : x.user = u
    BY <1>4, <1>9, VisitsReach
  <2>2. RolesVisit(q, u)'
    BY <1>6, <1>8, <2>1 DEF RolesVisit
  <2>3. ASSUME u \notin drift', ~Reaches(w, u) PROVE roles'[u] = Due(u)'
    <3>1. Untold(u)
      BY <1>3, <1>8, <2>3 DEF Untold
    <3> QED BY <1>1, <1>3, <1>8, <1>9, <2>3, <3>1 DEF PushInv, RolesPart
  <2>4. u \notin drift' => RolesOnWay(q, u)'
    BY <1>6, <2>1, <2>3 DEF RolesOnWay
  <2> QED BY <2>2, <2>4
<1>10. ASSUME j = "acl" PROVE AclPart'
  <2>1. AclRun(q)'
    BY <1>4, <1>6, <1>8, <1>10 DEF AclRun, AclOnWay
  <2> QED BY <1>7, <1>10, <2>1 DEF AclPart
<1>11. ASSUME j = "contacts" PROVE ContactsPart'
  <2>1. ContactsRun(q)'
    BY <1>4, <1>6, <1>8, <1>11 DEF ContactsRun
  <2> QED BY <1>7, <1>11, <2>1 DEF ContactsPart
<1>12. /\ run'[j] \in Push!RunType(j) \union {Idle}
       /\ \A v \in queue : v.job # j => v \in queue'
       /\ \A x \in drift : x \in Push!Things(j) \/ x \in drift'
       /\ queue' \subseteq Push!AllWakes \union Push!RoleWakes
  BY <1>1, <1>3, <1>6, <1>7, Remotes
<1>13. /\ roles' \in [Users -> SUBSET Push!Managed]
       /\ acl' \in [Characters -> Push!AclRoles] /\ observed' \in [Characters -> Push!AclRoles]
       /\ book' \in [Characters -> [Characters -> Push!Contacts]] /\ result' \in [Characters -> BOOLEAN]
  BY <1>3, Remotes
<1> QED BY <1>3, <1>7, <1>9, <1>10, <1>11, <1>12, <1>13, OwnStep

\* The guild has not the roles of the configuration: everybody of the wake-up has drifted.
LEMMA MisconfiguredStep ==
  ASSUME PushConstants, PushInv, NEW w \in queue, Push!Misconfigured(w)
  PROVE  PushInv'
<1>0. "roles" \in PushJobs /\ "roles" # "acl" /\ "roles" # "contacts"
  BY DEF PushJobs
<1>1. /\ run["roles"] = Idle /\ w.job = "roles" /\ queue' = queue \ {w}
      /\ drift' = drift \union Push!AllTouched("roles", Push!ToVisit(w))
      /\ UNCHANGED <<tier, link, invalid, guild, run, roles, acl, book, observed, result>>
  BY DEF Push!Misconfigured, Push!facts, Push!remotes, Push!records
<1>2. w \in Push!WakesOf("roles")
  BY <1>1, Remotes DEF Push!WakesOf
<1>3. w \in Push!RoleWakes
  BY <1>0, <1>2, ToVisitIs
<1>4. /\ \A u : Push!LinkedTo(u)' = Push!LinkedTo(u) /\ Due(u)' = Due(u)
      /\ \A v, u : Reaches(v, u)' <=> Reaches(v, u)
  BY <1>1, SameFacts
<1>5. RolesPart'
  <2> SUFFICES ASSUME NEW u \in Users, Untold(u)', u \notin drift'
               PROVE  roles'[u] = Due(u)'
    BY <1>1 DEF RolesPart
  <2>1. Reaches(w, u) => \E x \in Push!ToVisit(w) : x.user = u
    BY <1>3, VisitsReach
  <2>2. \A x \in Push!ToVisit(w) : x.user \in drift'
    BY <1>1, TouchedIs DEF Push!AllTouched
  <2>3. ~Reaches(w, u)
    BY <2>1, <2>2
  <2>4. Untold(u)
    BY <1>1, <1>4, <2>3 DEF Untold
  <2> QED BY <1>1, <1>4, <2>4 DEF PushInv, RolesPart
<1>6. /\ run'["roles"] \in Push!RunType("roles") \union {Idle} /\ DOMAIN run' = PushJobs
      /\ \A k \in PushJobs \ {"roles"} : run'[k] = run[k]
      /\ \A v \in queue : v.job # "roles" => v \in queue'
      /\ \A x \in drift : x \in Push!Things("roles") \/ x \in drift'
      /\ queue' \subseteq Push!AllWakes \union Push!RoleWakes
  BY <1>1, Remotes DEF PushInv, Push!TypeOK
<1>7. roles' \in [Users -> SUBSET Push!Managed]
  BY <1>1, Remotes
<1> QED BY <1>0, <1>1, <1>5, <1>6, <1>7, OwnStep

-----------------------------------------------------------------------------
\* Whatever a run does next keeps the invariant.
LEMMA RunStep ==
  ASSUME PushConstants, PushInv, NEW j \in PushJobs, Push!Run(j)
  PROVE  PushInv'
<1>1. ASSUME NEW x \in IF Push!Busy(j) THEN run[j].todo ELSE {},
             Push!Visit(j, x) \/ \E again \in BOOLEAN : Push!Unread(j, x, again)
      PROVE  PushInv'
  BY <1>1, VisitStep, UnreadStep
<1>2. ASSUME NEW B \in IF Push!Visiting(j) THEN Push!Batches(j) ELSE {},
             Push!Call(j, B) \/ \E again \in BOOLEAN : Push!CallFails(j, B, again)
      PROVE  PushInv'
  BY <1>2, CallStep, CallFailsStep
<1> QED BY <1>1, <1>2, LeaveStep, FinishStep, CrashStep, DeadLetterStep DEF Push!Run

\* Every step keeps it.
LEMMA PushStep == ASSUME PushConstants, PushInv, [Push!Next]_(Push!vars) PROVE PushInv'
<1>1. CASE Push!Members
  BY <1>1, MembersStep
<1>2. CASE Push!Others
  BY <1>2, OthersStep
<1>3. ASSUME NEW j \in PushJobs, Push!SyncAll(j) \/ Push!Run(j) \/ \E w \in queue : Push!Begin(j, w) PROVE PushInv'
  BY <1>3, SyncAllStep, RunStep, BeginStep
<1>4. ASSUME NEW w \in queue, Push!Misconfigured(w) PROVE PushInv'
  BY <1>4, MisconfiguredStep
<1>5. ASSUME NEW again \in BOOLEAN, Push!Unobserved(again) PROVE PushInv'
  BY <1>5, UnobservedStep
<1>6. CASE UNCHANGED Push!vars
  <2>1. UNCHANGED <<tier, link, invalid, guild, queue, run, roles, acl, book, observed, result, drift>>
    BY <1>6 DEF Push!vars, Push!facts, Push!remotes, Push!records
  <2>2. {} \in SUBSET (Push!AllWakes \union Push!RoleWakes)
    OBVIOUS
  <2>3. queue' = Push!Enqueued({})
    BY <2>1, <2>2, Enqueues
  <2>4. /\ \A u : Push!LinkedTo(u)' = Push!LinkedTo(u) /\ Due(u)' = Due(u)
        /\ Push!Wanted' = Push!Wanted
    BY <2>1, SameFacts
  <2>5. /\ tier' \in [Accounts -> Tiers] /\ link' \in [Accounts -> Users \union {NoUser}]
        /\ invalid' \subseteq Characters /\ LinkUnique'
    BY <2>1 DEF PushInv, Push!TypeOK, LinkUnique
  <2> QED BY <2>1, <2>2, <2>3, <2>4, <2>5, MembersFrame
<1> QED BY <1>1, <1>2, <1>3, <1>4, <1>5, <1>6 DEF Push!Next

\* Whatever members, other editors, failures and crashes do while the three jobs run, once no
\* job for it waits or runs each remote is as the accounts say, but for what was edited since
\* or given up and reported (jobs/discord-roles.ts, jobs/wanderer.ts, jobs/contacts.ts).
THEOREM PushFollows == Push!Spec => [](Push!TypeOK /\ TargetsFollow)
<1>0. PushConstants
  BY ServicesAssumption
<1>1. Push!Init => PushInv
  BY <1>0, PushInit
<1>2. PushInv /\ [Push!Next]_(Push!vars) => PushInv'
  BY <1>0, PushStep
<1>3. PushInv => Push!TypeOK /\ TargetsFollow
  BY <1>0, PushShows DEF PushInv
<1> QED BY <1>1, <1>2, <1>3, PTL DEF Push!Spec

-----------------------------------------------------------------------------
(* The structure monitor. *)

Designation == [character : Characters, corp : Corps, stamp : 1..MaxDesignations, seeded : BOOLEAN]
WatcherType ==
  [job : {"events", "roster"},
   at : {"asking", "checking", "writing", "rechecking", "choosing", "posting", "marking"},
   holder : Designation, seen : SUBSET (Notes \union Structures), todo : SUBSET Notes]
WatchTypes ==
  /\ corp \in [Characters -> Corps] /\ received \in [Characters -> SUBSET Notes]
  /\ standing \subseteq Structures
  /\ designations \in 0..MaxDesignations /\ holder \in Designation \union {NoHolder}
  /\ alert \in [Notes -> Watch!AlertStatus] /\ pinned \in [Notes -> Corps \union {NoHolder}]
  /\ \A n \in Notes : (alert[n] = "none") <=> (pinned[n] = NoHolder)
  /\ roster \in [Structures -> {"unknown", "present", "missing"}]
  /\ posted \in [Notes -> Nat]

\* A run that read a roster saw every structure of the corporation that still stands, and one
\* about to mark an alert has posted it.
Chosen(w) == CHOOSE n \in w.todo : \A m \in w.todo : n <= m
WatcherOK(w) ==
  /\ w.job = "roster" /\ w.at \in {"checking", "writing"} =>
       \A s \in standing : CorpOfStructure[s] = w.holder.corp => s \in w.seen
  /\ w.at = "marking" /\ Chosen(w) \in Notes => posted[Chosen(w)] > 0
WatchersOK == /\ watcher \in [Runs -> WatcherType \union {Idle}]
              /\ \A r \in Runs : watcher[r] # Idle => WatcherOK(watcher[r])
MissingGone == \A s \in Structures : roster[s] = "missing" => s \notin standing

WatchInv == WatchTypes /\ WatchersOK /\ MissingGone

\* Nothing has been seen, recorded or posted.
LEMMA WatchInit == ASSUME WatchConstants, Watch!Init PROVE WatchInv
<1>1. WatchTypes
  BY DEF Watch!Init, WatchTypes, WatchConstants, Watch!AlertStatus
<1>2. WatchersOK
  BY DEF Watch!Init, WatchersOK
<1>3. MissingGone
  BY DEF Watch!Init, MissingGone
<1> QED BY <1>1, <1>2, <1>3 DEF WatchInv

\* Structures only go and posts only come, so what the runs know stays true.
LEMMA WatchersKeep ==
  ASSUME WatchersOK, UNCHANGED watcher, standing' \subseteq standing,
         \A n \in Notes : posted[n] > 0 => posted'[n] > 0
  PROVE  WatchersOK'
<1>1. ASSUME NEW w, WatcherOK(w) PROVE WatcherOK(w)'
  BY <1>1 DEF WatcherOK, Chosen
<1> QED BY <1>1 DEF WatchersOK

\* One run moves, and what it knows is true.
LEMMA OneWatcher ==
  ASSUME WatchersOK, NEW r \in Runs, NEW q \in WatcherType \union {Idle}, watcher' = [watcher EXCEPT ![r] = q],
         standing' \subseteq standing, \A n \in Notes : posted[n] > 0 => posted'[n] > 0,
         q # Idle => WatcherOK(q)'
  PROVE  WatchersOK'
<1>1. ASSUME NEW w, WatcherOK(w) PROVE WatcherOK(w)'
  BY <1>1 DEF WatcherOK, Chosen
<1>2. watcher' \in [Runs -> WatcherType \union {Idle}]
  BY DEF WatchersOK
<1>3. ASSUME NEW v \in Runs, NEW x, x = watcher'[v], x # Idle PROVE WatcherOK(x)'
  <2>1. CASE v = r
    <3>1. x = q
      BY <1>3, <2>1 DEF WatchersOK
    <3> QED BY <1>3, <3>1
  <2>2. CASE v # r
    <3>1. x = watcher[v]
      BY <1>3, <2>2 DEF WatchersOK
    <3>2. WatcherOK(x)
      BY <1>3, <3>1 DEF WatchersOK
    <3> QED BY <1>1, <3>2
  <2> QED BY <2>1, <2>2
<1> QED BY <1>2, <1>3 DEF WatchersOK

\* What a run does before and after it writes.
LEMMA WatcherMoves ==
  ASSUME WatchInv, NEW r \in Runs, NEW q \in WatcherType \union {Idle}, watcher' = [watcher EXCEPT ![r] = q],
         UNCHANGED <<holder, alert, pinned, roster, corp, received, standing, posted, designations>>,
         q # Idle => WatcherOK(q)'
  PROVE  WatchInv' /\ Watch!AlertsStand
<1>1. WatchersOK'
  BY OneWatcher DEF WatchInv
<1>2. WatchTypes' /\ MissingGone'
  BY DEF WatchInv, WatchTypes, MissingGone
<1>3. Watch!AlertsStand
  BY DEF Watch!AlertsStand
<1> QED BY <1>1, <1>2, <1>3 DEF WatchInv

\* What a run that is not over holds.
LEMMA WatcherHas ==
  ASSUME WatchInv, NEW r \in Runs, watcher[r] # Idle
  PROVE  watcher[r] \in WatcherType /\ WatcherOK(watcher[r])
  BY DEF WatchInv, WatchersOK

\* What admins and the game do leaves the runs' knowledge true, and retires only what is pending.
LEMMA WorldStep ==
  ASSUME WatchConstants, WatchInv,
         \/ \E c \in Characters : Watch!DesignateStructureHolder(c)
         \/ Watch!HolderGone
         \/ \E n \in Notes : Watch!Attacked(n)
         \/ \E s \in Structures : Watch!Destroyed(s)
         \/ \E c \in Characters, k \in Corps : Watch!Moves(c, k)
  PROVE  WatchInv' /\ Watch!AlertsStand
<1>0. WatchTypes /\ WatchersOK /\ MissingGone
  BY DEF WatchInv
<1>1. ASSUME NEW c \in Characters, Watch!DesignateStructureHolder(c) PROVE WatchInv' /\ Watch!AlertsStand
  <2>1. /\ designations < MaxDesignations /\ designations' = designations + 1
        /\ holder' = [character |-> c, corp |-> corp[c], stamp |-> designations + 1, seeded |-> FALSE]
        /\ alert' = [n \in Notes |-> IF n \in Watch!Retired(corp[c]) THEN "abandoned" ELSE alert[n]]
        /\ UNCHANGED <<pinned, roster, corp, received, standing, watcher, posted>>
    BY <1>1 DEF Watch!DesignateStructureHolder, Watch!world
  <2>2. \A n \in Watch!Retired(corp[c]) : alert[n] = "pending"
    BY DEF Watch!Retired
  <2>3. designations' \in 0..MaxDesignations /\ designations + 1 \in 1..MaxDesignations
    BY <1>0, <2>1 DEF WatchTypes, WatchConstants
  <2>4. holder' \in Designation
    BY <1>0, <2>1, <2>3 DEF WatchTypes, Designation
  <2>5. /\ alert' \in [Notes -> Watch!AlertStatus]
        /\ \A n \in Notes : (alert'[n] = "none") <=> (alert[n] = "none")
    BY <1>0, <2>1, <2>2 DEF WatchTypes, Watch!AlertStatus
  <2>6. WatchTypes'
    BY <1>0, <2>1, <2>3, <2>4, <2>5 DEF WatchTypes
  <2>7. WatchersOK' /\ MissingGone'
    BY <1>0, <2>1, WatchersKeep DEF MissingGone
  <2>8. Watch!AlertsStand
    BY <2>1, <2>2 DEF Watch!AlertsStand
  <2> QED BY <2>6, <2>7, <2>8 DEF WatchInv
<1>2. CASE Watch!HolderGone
  <2>1. /\ holder' = NoHolder
        /\ UNCHANGED <<alert, pinned, roster, corp, received, standing, watcher, posted, designations>>
    BY <1>2 DEF Watch!HolderGone, Watch!world
  <2>2. WatchTypes' /\ MissingGone'
    BY <1>0, <2>1 DEF WatchTypes, MissingGone
  <2> QED BY <1>0, <2>1, <2>2, WatchersKeep DEF WatchInv, Watch!AlertsStand
<1>3. ASSUME NEW n \in Notes, Watch!Attacked(n) PROVE WatchInv' /\ Watch!AlertsStand
  <2>1. /\ received' = [c \in Characters |-> IF corp[c] = CorpOfNote[n] THEN received[c] \union {n}
                                             ELSE received[c]]
        /\ UNCHANGED <<holder, alert, pinned, roster, corp, standing, watcher, posted, designations>>
    BY <1>3 DEF Watch!Attacked
  <2>2. WatchTypes' /\ MissingGone'
    BY <1>0, <2>1 DEF WatchTypes, MissingGone
  <2> QED BY <1>0, <2>1, <2>2, WatchersKeep DEF WatchInv, Watch!AlertsStand
<1>4. ASSUME NEW s \in Structures, Watch!Destroyed(s) PROVE WatchInv' /\ Watch!AlertsStand
  <2>1. /\ standing' = standing \ {s}
        /\ UNCHANGED <<holder, alert, pinned, roster, corp, received, watcher, posted, designations>>
    BY <1>4 DEF Watch!Destroyed
  <2>2. WatchTypes' /\ MissingGone'
    BY <1>0, <2>1 DEF WatchTypes, MissingGone
  <2> QED BY <1>0, <2>1, <2>2, WatchersKeep DEF WatchInv, Watch!AlertsStand
<1>5. ASSUME NEW c \in Characters, NEW k \in Corps, Watch!Moves(c, k) PROVE WatchInv' /\ Watch!AlertsStand
  <2>1. /\ corp' = [corp EXCEPT ![c] = k]
        /\ UNCHANGED <<holder, alert, pinned, roster, received, standing, watcher, posted, designations>>
    BY <1>5 DEF Watch!Moves
  <2>2. WatchTypes' /\ MissingGone'
    BY <1>0, <2>1 DEF WatchTypes, MissingGone
  <2> QED BY <1>0, <2>1, <2>2, WatchersKeep DEF WatchInv, Watch!AlertsStand
<1> QED BY <1>1, <1>2, <1>3, <1>4, <1>5

\* What a run does makes true what it comes to know; it marks what is pending and was posted.
LEMMA WatcherStep ==
  ASSUME WatchConstants, WatchInv, NEW r \in Runs, Watch!Step(r)
  PROVE  WatchInv' /\ Watch!AlertsStand
<1>0. WatchTypes /\ WatchersOK /\ MissingGone
  BY DEF WatchInv
<1>a. PICK w : w = watcher[r]
  OBVIOUS
<1>b. ASSUME w # Idle PROVE w \in WatcherType /\ WatcherOK(w)
  BY <1>a, <1>b, WatcherHas
<1>c. ASSUME watcher' = [watcher EXCEPT ![r] = Idle],
             UNCHANGED <<holder, alert, pinned, roster, corp, received, standing, posted, designations>>
      PROVE  WatchInv' /\ Watch!AlertsStand
  BY <1>c, WatcherMoves
<1>1. ASSUME NEW job \in {"events", "roster"}, Watch!Begin(r, job) PROVE WatchInv' /\ Watch!AlertsStand
  <2>1. PICK q : q = [job |-> job, at |-> "asking", holder |-> holder, seen |-> {}, todo |-> {}]
    OBVIOUS
  <2>2. /\ watcher' = [watcher EXCEPT ![r] = q] /\ holder # NoHolder
        /\ UNCHANGED <<holder, alert, pinned, roster, corp, received, standing, posted, designations>>
    BY <1>1, <2>1 DEF Watch!Begin, Watch!OnlyRun, Watch!world
  <2>3. q \in WatcherType /\ q.at = "asking"
    BY <1>0, <2>1, <2>2 DEF WatcherType, WatchTypes
  <2>4. WatcherOK(q)'
    BY <2>3 DEF WatcherOK
  <2> QED BY <2>2, <2>3, <2>4, WatcherMoves
<1>2. CASE Watch!Read(r)
  <2>1. w # Idle
    BY <1>2, <1>a DEF Watch!Read, Watch!At
  <2>2. w \in WatcherType
    BY <1>b, <2>1
  <2>3. PICK S : S = IF w.job = "events" THEN received[w.holder.character]
                     ELSE {s \in standing : CorpOfStructure[s] = w.holder.corp}
    OBVIOUS
  <2>4. S \in SUBSET (Notes \union Structures)
    BY <1>0, <2>2, <2>3 DEF WatchTypes, WatcherType, Designation
  <2>5. PICK q : q = [w EXCEPT !.at = "checking", !.seen = S]
    OBVIOUS
  <2>6. q \in WatcherType /\ q.job = w.job /\ q.at = "checking" /\ q.seen = S /\ q.holder = w.holder
    BY ONLY <2>2, <2>4, <2>5 DEF WatcherType
  <2>7. /\ watcher' = [watcher EXCEPT ![r] = q]
        /\ UNCHANGED <<holder, alert, pinned, roster, corp, received, standing, posted, designations>>
    <3>1. /\ watcher' = [watcher EXCEPT ![r].at = "checking",
                           ![r].seen = IF watcher[r].job = "events" THEN received[watcher[r].holder.character]
                                       ELSE {s \in standing : CorpOfStructure[s] = watcher[r].holder.corp}]
          /\ UNCHANGED <<holder, alert, pinned, roster, corp, received, standing, posted, designations>>
      BY <1>2 DEF Watch!Read, Watch!OnlyRun, Watch!world
    <3>2. watcher' = [watcher EXCEPT ![r].at = "checking", ![r].seen = S]
      BY <1>a, <2>3, <3>1
    <3>3. watcher' = [watcher EXCEPT ![r] = [watcher[r] EXCEPT !.at = "checking", !.seen = S]]
      BY <1>0, <3>2 DEF WatchersOK
    <3> QED BY <1>a, <2>5, <3>1, <3>3
  <2>8. WatcherOK(q)'
    BY <2>3, <2>6, <2>7 DEF WatcherOK
  <2> QED BY <2>6, <2>7, <2>8, WatcherMoves
<1>3. CASE Watch!Stopped(r)
  BY <1>3, <1>c DEF Watch!Stopped, Watch!End, Watch!OnlyRun, Watch!world
<1>4. ASSUME NEW q \in WatcherType, watcher' = [watcher EXCEPT ![r] = q], q.at \in {"rechecking", "choosing"},
             UNCHANGED <<holder, alert, pinned, roster, corp, received, standing, posted, designations>>
      PROVE  WatchInv' /\ Watch!AlertsStand
  BY <1>4, WatcherMoves DEF WatcherOK
<1>5. CASE Watch!CheckHolder(r)
  <2>1. /\ \/ watcher' = [watcher EXCEPT ![r] = [watcher[r] EXCEPT !.at = "writing"]]
           \/ watcher' = [watcher EXCEPT ![r] = Idle]
        /\ UNCHANGED <<holder, alert, pinned, roster, corp, received, standing, posted, designations>>
        /\ w # Idle /\ w.at = "checking"
    BY <1>0, <1>5, <1>a DEF Watch!CheckHolder, Watch!At, Watch!End, Watch!OnlyRun, Watch!world, WatchersOK
  <2>2. PICK q : q = [w EXCEPT !.at = "writing"]
    OBVIOUS
  <2>3. w \in WatcherType /\ WatcherOK(w)
    BY <1>b, <2>1
  <2>4. q \in WatcherType /\ q.at = "writing" /\ q.job = w.job /\ q.holder = w.holder /\ q.seen = w.seen
    BY ONLY <2>2, <2>3 DEF WatcherType
  <2>5. WatcherOK(q)'
    BY <2>1, <2>3, <2>4 DEF WatcherOK
  <2>6. CASE watcher' = [watcher EXCEPT ![r] = q]
    BY <2>1, <2>4, <2>5, <2>6, WatcherMoves
  <2> QED BY <1>a, <1>c, <2>1, <2>2, <2>6
<1>6. CASE Watch!RecordEvents(r)
  <2>0. w # Idle /\ w.at = "writing" /\ w.job = "events"
    BY <1>6, <1>a DEF Watch!RecordEvents, Watch!At
  <2>1. w \in WatcherType
    BY <1>b, <2>0
  <2>2. PICK new : new = {n \in w.seen : alert[n] = "none"}
    OBVIOUS
  <2>3. /\ alert' = [n \in Notes |-> IF n \in new THEN (IF Watch!Silent(r) THEN "seeded" ELSE "pending")
                                     ELSE alert[n]]
        /\ pinned' = [n \in Notes |-> IF n \in new THEN w.holder.corp ELSE pinned[n]]
        /\ holder' = IF w.holder.seeded \/ holder = NoHolder THEN holder ELSE [holder EXCEPT !.seeded = TRUE]
        /\ UNCHANGED <<roster, corp, received, standing, posted, designations>>
    BY <1>6, <1>a, <2>2 DEF Watch!RecordEvents, Watch!world
  <2>4. \/ watcher' = [watcher EXCEPT ![r] = Idle]
        \/ watcher' = [watcher EXCEPT ![r] = [watcher[r] EXCEPT !.at = "rechecking"]]
    BY <1>0, <1>6 DEF Watch!RecordEvents, Watch!End, WatchersOK
  <2>5. w.holder \in Designation /\ w.holder.corp \in Corps
    BY <2>1 DEF WatcherType, Designation
  <2>6. holder' \in Designation \union {NoHolder}
    BY <1>0, <2>3 DEF WatchTypes, Designation
  <2>7. /\ alert' \in [Notes -> Watch!AlertStatus] /\ pinned' \in [Notes -> Corps \union {NoHolder}]
        /\ \A n \in Notes : (alert'[n] = "none") <=> (pinned'[n] = NoHolder)
    BY <1>0, <2>3, <2>5 DEF WatchTypes, Watch!AlertStatus, WatchConstants
  <2>8. WatchTypes'
    BY <1>0, <2>3, <2>6, <2>7 DEF WatchTypes
  <2>9. WatchersOK'
    <3>1. PICK q : q = [w EXCEPT !.at = "rechecking"]
      OBVIOUS
    <3>2. q \in WatcherType /\ q.at = "rechecking"
      BY ONLY <2>1, <3>1 DEF WatcherType
    <3>3. WatcherOK(q)'
      BY <3>2 DEF WatcherOK
    <3>4. CASE watcher' = [watcher EXCEPT ![r] = q]
      BY <1>0, <2>3, <3>2, <3>3, <3>4, OneWatcher
    <3>5. CASE watcher' = [watcher EXCEPT ![r] = Idle]
      BY <1>0, <2>3, <3>5, OneWatcher
    <3> QED BY <1>a, <2>4, <3>1, <3>4, <3>5
  <2>10. MissingGone'
    BY <1>0, <2>3 DEF MissingGone
  <2>11. Watch!AlertsStand
    BY <2>2, <2>3 DEF Watch!AlertsStand
  <2> QED BY <2>8, <2>9, <2>10, <2>11 DEF WatchInv
<1>7. CASE Watch!RecordRoster(r)
  <2>0. w # Idle /\ w.at = "writing" /\ w.job = "roster"
    BY <1>7, <1>a DEF Watch!RecordRoster, Watch!At
  <2>1. w \in WatcherType /\ WatcherOK(w)
    BY <1>b, <2>0
  <2>2. /\ roster' = [s \in Structures |-> IF s \in w.seen THEN "present"
                                           ELSE IF s \in Watch!Listed(w.holder) THEN "missing" ELSE roster[s]]
        /\ watcher' = [watcher EXCEPT ![r] = Idle]
        /\ UNCHANGED <<holder, alert, pinned, corp, received, standing, posted, designations>>
    BY <1>7, <1>a DEF Watch!RecordRoster, Watch!End, Watch!world
  <2>3. WatchTypes'
    BY <1>0, <2>2 DEF WatchTypes
  <2>4. WatchersOK'
    BY <1>0, <2>2, OneWatcher
  <2>5. MissingGone'
    BY <1>0, <2>0, <2>1, <2>2 DEF MissingGone, WatcherOK, Watch!Listed
  <2>6. Watch!AlertsStand
    BY <2>2 DEF Watch!AlertsStand
  <2> QED BY <2>3, <2>4, <2>5, <2>6 DEF WatchInv
<1>8. CASE Watch!Recheck(r)
  <2>1. /\ \/ watcher' = [watcher EXCEPT ![r] = [watcher[r] EXCEPT !.at = "choosing"]]
           \/ watcher' = [watcher EXCEPT ![r] = Idle]
        /\ UNCHANGED <<holder, alert, pinned, roster, corp, received, standing, posted, designations>>
        /\ w # Idle
    BY <1>0, <1>8, <1>a DEF Watch!Recheck, Watch!At, Watch!End, Watch!OnlyRun, Watch!world, WatchersOK
  <2>2. PICK q : q = [w EXCEPT !.at = "choosing"]
    OBVIOUS
  <2>3. w \in WatcherType
    BY <1>b, <2>1
  <2>4. q \in WatcherType /\ q.at = "choosing"
    BY ONLY <2>2, <2>3 DEF WatcherType
  <2>5. CASE watcher' = [watcher EXCEPT ![r] = q]
    BY <1>4, <2>1, <2>4, <2>5
  <2> QED BY <1>a, <1>c, <2>1, <2>2, <2>5
<1>9. ASSUME NEW T \in SUBSET Notes, w # Idle,
             watcher' = [watcher EXCEPT ![r] = [watcher[r] EXCEPT !.at = "posting", !.todo = T]],
             UNCHANGED <<holder, alert, pinned, roster, corp, received, standing, posted, designations>>
      PROVE  WatchInv' /\ Watch!AlertsStand
  <2>1. PICK q : q = [w EXCEPT !.at = "posting", !.todo = T]
    OBVIOUS
  <2>2. w \in WatcherType
    BY <1>9, <1>b
  <2>3. q \in WatcherType /\ q.at = "posting"
    BY ONLY <2>1, <2>2, T \in SUBSET Notes DEF WatcherType
  <2>4. WatcherOK(q)'
    BY <2>3 DEF WatcherOK
  <2> QED BY <1>9, <1>a, <2>1, <2>3, <2>4, WatcherMoves
<1>10. CASE Watch!Choose(r)
  <2>1. PICK T : T = {n \in Notes : alert[n] = "pending" /\ pinned[n] = watcher[r].holder.corp}
    OBVIOUS
  <2>2. /\ watcher' = [watcher EXCEPT ![r].at = "posting", ![r].todo = T] /\ w # Idle
        /\ UNCHANGED <<holder, alert, pinned, roster, corp, received, standing, posted, designations>>
    BY <1>10, <1>a, <2>1 DEF Watch!Choose, Watch!At, Watch!OnlyRun, Watch!world
  <2>3. watcher' = [watcher EXCEPT ![r] = [watcher[r] EXCEPT !.at = "posting", !.todo = T]]
    BY <1>0, <2>2 DEF WatchersOK
  <2>4. T \in SUBSET Notes
    BY <2>1
  <2> QED BY <1>9, <2>2, <2>3, <2>4
<1>11. CASE Watch!Post(r)
  <2>0. w # Idle /\ w.at = "posting"
    BY <1>11, <1>a DEF Watch!Post, Watch!At
  <2>1. w \in WatcherType
    BY <1>b, <2>0
  <2>2. Watch!Next1(r) = Chosen(w)
    BY <1>a DEF Watch!Next1, Chosen
  <2>3. PICK q : q = [w EXCEPT !.at = "marking"]
    OBVIOUS
  <2>4. /\ posted' = [posted EXCEPT ![Chosen(w)] = posted[Chosen(w)] + 1]
        /\ UNCHANGED <<holder, alert, pinned, roster, corp, received, standing, designations>>
    BY <1>11, <2>2 DEF Watch!Post, Watch!world
  <2>5. watcher' = [watcher EXCEPT ![r] = q]
    BY <1>0, <1>11, <1>a, <2>3 DEF Watch!Post, WatchersOK
  <2>6. q \in WatcherType /\ q.at = "marking" /\ q.todo = w.todo
    BY ONLY <2>1, <2>3 DEF WatcherType
  <2>7. Chosen(q) = Chosen(w)
    BY <2>6 DEF Chosen
  <2>8. /\ posted' \in [Notes -> Nat] /\ \A n \in Notes : posted[n] > 0 => posted'[n] > 0
        /\ Chosen(w) \in Notes => posted'[Chosen(w)] > 0
    <3>1. PICK n : n = Chosen(w)
      OBVIOUS
    <3>2. posted' = [posted EXCEPT ![n] = posted[n] + 1]
      BY <2>4, <3>1
    <3>3. posted \in [Notes -> Nat]
      BY <1>0 DEF WatchTypes
    <3>4. /\ posted' \in [Notes -> Nat] /\ \A m \in Notes : posted[m] > 0 => posted'[m] > 0
          /\ n \in Notes => posted'[n] > 0
      <4>1. CASE n \in Notes
        <5>1. posted[n] + 1 \in Nat /\ posted[n] + 1 > 0
          BY ONLY <3>3, <4>1
        <5> QED BY ONLY <3>2, <3>3, <4>1, <5>1
      <4>2. CASE n \notin Notes
        <5>1. posted' = posted
          BY ONLY <3>2, <3>3, <4>2
        <5> QED BY ONLY <3>3, <4>2, <5>1
      <4> QED BY ONLY <4>1, <4>2
    <3> QED BY <3>1, <3>4
  <2>9. WatcherOK(q)'
    <3>1. Chosen(q)' = Chosen(q)
      BY DEF Chosen
    <3> QED BY <2>6, <2>7, <2>8, <3>1 DEF WatcherOK
  <2>10. WatchersOK'
    BY <1>0, <2>4, <2>5, <2>6, <2>8, <2>9, OneWatcher
  <2>11. WatchTypes' /\ MissingGone'
    BY <1>0, <2>4, <2>8 DEF WatchTypes, MissingGone
  <2> QED BY <2>4, <2>10, <2>11 DEF WatchInv, Watch!AlertsStand
<1>12. CASE Watch!PostFails(r)
  <2>1. PICK T : T = watcher[r].todo \ {Watch!Next1(r)}
    OBVIOUS
  <2>2. /\ watcher' = [watcher EXCEPT ![r].todo = T] /\ w # Idle /\ w.at = "posting"
        /\ UNCHANGED <<holder, alert, pinned, roster, corp, received, standing, posted, designations>>
    BY <1>12, <1>a, <2>1 DEF Watch!PostFails, Watch!At, Watch!OnlyRun, Watch!world
  <2>3. w \in WatcherType
    BY <1>b, <2>2
  <2>4. T \in SUBSET Notes
    BY <1>a, <2>1, <2>3 DEF WatcherType
  <2>5. [w EXCEPT !.todo = T] = [w EXCEPT !.at = "posting", !.todo = T]
    BY ONLY <2>2, <2>3 DEF WatcherType
  <2>6. watcher' = [watcher EXCEPT ![r] = [watcher[r] EXCEPT !.at = "posting", !.todo = T]]
    BY <1>0, <1>a, <2>2, <2>5 DEF WatchersOK
  <2> QED BY <1>9, <2>2, <2>4, <2>6
<1>13. CASE Watch!Mark(r)
  <2>0. w # Idle /\ w.at = "marking"
    BY <1>13, <1>a DEF Watch!Mark, Watch!At
  <2>1. w \in WatcherType /\ WatcherOK(w)
    BY <1>b, <2>0
  <2>2. PICK n : n = Chosen(w)
    OBVIOUS
  <2>3. Watch!Next1(r) = n
    BY <1>a, <2>2 DEF Watch!Next1, Chosen
  <2>4. PICK T : T = w.todo \ {n}
    OBVIOUS
  <2>5. /\ alert' = IF alert[n] = "pending" THEN [alert EXCEPT ![n] = "sent"] ELSE alert
        /\ UNCHANGED <<holder, pinned, roster, corp, received, standing, posted, designations>>
    BY <1>13, <2>3 DEF Watch!Mark, Watch!StillPending, Watch!world
  <2>6. PICK q : q = [w EXCEPT !.at = "posting", !.todo = T]
    OBVIOUS
  <2>7. watcher' = [watcher EXCEPT ![r] = q]
    <3>1. watcher' = [watcher EXCEPT ![r].at = "posting", ![r].todo = watcher[r].todo \ {n}]
      BY <1>13, <2>3 DEF Watch!Mark
    <3>2. watcher' = [watcher EXCEPT ![r].at = "posting", ![r].todo = T]
      BY <1>a, <2>4, <3>1
    <3> QED BY <1>0, <1>a, <2>6, <3>2 DEF WatchersOK
  <2>8. q \in WatcherType /\ q.at = "posting"
    BY ONLY <2>1, <2>4, <2>6 DEF WatcherType
  <2>9. WatcherOK(q)'
    BY <2>8 DEF WatcherOK
  <2>10. WatchersOK'
    BY <1>0, <2>5, <2>7, <2>8, <2>9, OneWatcher
  <2>11. WatchTypes' /\ MissingGone'
    BY <1>0, <2>5 DEF WatchTypes, MissingGone, Watch!AlertStatus
  <2>12. Watch!AlertsStand
    <3> SUFFICES ASSUME NEW m \in Notes, alert'[m] # alert[m]
                 PROVE  alert[m] = "pending" /\ posted[m] > 0
      BY DEF Watch!AlertsStand
    <3>1. m = n /\ alert[n] = "pending"
      BY <1>0, <2>5 DEF WatchTypes
    <3> QED BY <2>0, <2>1, <2>2, <3>1 DEF WatcherOK
  <2> QED BY <2>10, <2>11, <2>12 DEF WatchInv
<1>14. CASE Watch!Finish(r)
  BY <1>14, <1>c DEF Watch!Finish, Watch!End, Watch!OnlyRun, Watch!world
<1> QED BY <1>1, <1>2, <1>3, <1>5, <1>6, <1>7, <1>8, <1>10, <1>11, <1>12, <1>13, <1>14 DEF Watch!Step

\* For any number of runs, designations and notes: only a pending alert is sent or retired, and
\* sent only after a post; a structure is stamped missing only when it is gone
\* (jobs/structure-events.ts, jobs/structures.ts, services/structures.ts).
THEOREM WatchStands ==
  Watch!Spec => []Watch!TypeOK /\ MonitorStands
<1>0. WatchConstants
  BY ServicesAssumption
<1>1. Watch!Init => WatchInv
  BY <1>0, WatchInit
<1>2. WatchInv /\ [Watch!Next]_(Watch!vars) => WatchInv' /\ [Watch!AlertsStand]_(Watch!vars)
  <2>1. WatchInv /\ Watch!Next => WatchInv' /\ Watch!AlertsStand
    BY <1>0, WorldStep, WatcherStep DEF Watch!Next
  <2>2. ASSUME WatchInv, UNCHANGED Watch!vars PROVE WatchInv'
    <3>1. UNCHANGED <<holder, alert, pinned, roster, corp, received, standing, posted, designations, watcher>>
      BY <2>2 DEF Watch!vars, Watch!world
    <3> QED BY <2>2, <3>1, WatchersKeep DEF WatchInv, WatchTypes, MissingGone
  <2> QED BY <2>1, <2>2
<1>3. WatchInv' => Watch!RosterHonest
  BY DEF WatchInv, WatchTypes, MissingGone, Watch!RosterHonest
<1>4. WatchInv => Watch!TypeOK
  BY DEF WatchInv, WatchTypes, Designation, Watch!TypeOK
<1>5. WatchInv /\ [Watch!Next]_(Watch!vars) => [Watch!AlertsStand /\ Watch!RosterHonest]_(Watch!vars)
  BY <1>2, <1>3
<1> QED BY <1>1, <1>2, <1>4, <1>5, PTL DEF Watch!Spec, MonitorStands, Watch!MonitorStands

-----------------------------------------------------------------------------
(* The composition. *)

\* A step of the composition is a step of each part, or leaves it alone.
LEMMA PartsMove ==
  [MCNext]_allvars => /\ [Next]_vars /\ [Relay!Next]_relayVars
                      /\ [Push!Next]_(Push!vars) /\ [Watch!Next]_(Watch!vars)
<1>1. UNCHANGED provVars => UNCHANGED Push!vars
  BY DEF provVars, Push!vars, Push!facts, Push!remotes, Push!records
<1>2. UNCHANGED watchVars => UNCHANGED Watch!vars
  BY DEF watchVars, Watch!vars, Watch!world
<1>3. CredentialsMove => Next /\ UNCHANGED <<relayVars, provVars, watchVars>>
  BY DEF CredentialsMove
<1>4. RelayMoves => Relay!Next /\ UNCHANGED <<vars, provVars, watchVars>>
  BY DEF RelayMoves
<1>5. RolesMove \/ AclMoves \/ BookMoves => Push!Next /\ UNCHANGED <<vars, relayVars, watchVars>>
  BY DEF RolesMove, AclMoves, BookMoves, PushMoves
<1>6. WatchMoves => Watch!Next /\ UNCHANGED <<vars, relayVars, provVars>>
  BY DEF WatchMoves
<1>7. UNCHANGED allvars => UNCHANGED <<vars, relayVars, provVars, watchVars>>
  BY DEF allvars
<1> QED BY <1>1, <1>2, <1>3, <1>4, <1>5, <1>6, <1>7 DEF MCNext

\* The composition implements every part, so what is proved of each holds in what the run
\* checks: credentials, the relay, the jobs that push and the structure monitor.
THEOREM ServicesHold ==
  MCSpec => /\ [](RowIsOfLastGrant /\ RelayKeepsOrder /\ TargetsFollow)
            /\ MonitorStands
<1>1. MCInit => Init /\ Relay!Init /\ Push!Init /\ Watch!Init
  BY DEF MCInit
<1>2. MCSpec => Spec /\ Relay!Spec /\ Push!Spec /\ Watch!Spec
  BY <1>1, PartsMove, PTL DEF MCSpec, Spec, Relay!Spec, Push!Spec, Watch!Spec, Relay!vars, relayVars
<1> QED BY <1>2, RowKeepsTheLastGrant, RelayOrder, PushFollows, WatchStands, PTL
=============================================================================
