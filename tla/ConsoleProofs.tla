---------------------------- MODULE ConsoleProofs ----------------------------
(***************************************************************************)
(* What is proved about the parts MCConsole composes: Outbox for any       *)
(* number of rows, jobs, workers and dispatchers, for any payloads and any *)
(* number of ticks and faults; the forms of the payout pages and the       *)
(* controls of the admin pages for any forms, presses, operators, admins   *)
(* and characters.                                                         *)
(*                                                                         *)
(* IInv is the inductive invariant of NoLostWake.  NoLostWake alone is not *)
(* one: a dispatcher stamps its rows long after it sent their jobs, so it  *)
(* has to be known that every job of a claimed row that was sent is still  *)
(* taken (SentAreTaken), in which order a batch is worked off (AtItsRow),  *)
(* that what is owed for a row is what its payload plans (OwedByPayload),  *)
(* and that a job which swallowed a send waits for the same target: its    *)
(* key is its own (KeysFit) and keys tell targets apart (SameKey).         *)
(*                                                                         *)
(* FormsInv is the one of what the forms are told: a form that is not yet  *)
(* answered has changed nothing (Pending).  ConsoleInv is the one of what  *)
(* the controls are told: a press that decides holds the lock of the row,  *)
(* and the row is as it read it (Decides); it has logged nothing before it *)
(* is answered; and who is no longer pending was approved by somebody in   *)
(* the log (Approved).                                                     *)
(***************************************************************************)
EXTENDS MCConsole, Functions, FiniteSetTheorems, TLAPS

-----------------------------------------------------------------------------
(* The queues. *)

Planned ==
  {j \in PlannedJob :
     \/ j.scope = "global" /\ j.queue \in JobTypes /\ j.who = "all"
     \/ j.scope = "account" /\ j.queue \in {"membership", "discord-roles"} /\ j.who \in Accounts
     \/ j.scope = "discord-user" /\ j.queue = "discord-roles" /\ j.who \in Accounts
     \/ j.scope = "source" /\ j.queue \in FleetQueues /\ j.who \in Sources}

USE OutboxAssumption, NoJobAssumption

LEMMA GlobalPlanned == ASSUME NEW q \in JobTypes PROVE Global(q) \in Planned
BY DEF Global, Planned, PlannedJob

LEMMA AccountPlanned ==
  ASSUME NEW q \in {"membership", "discord-roles"}, NEW a \in Accounts
  PROVE  ForAccount(q, a) \in Planned
BY DEF ForAccount, Planned, PlannedJob, JobTypes

LEMMA UserPlanned ==
  ASSUME NEW u \in Accounts
  PROVE  [queue |-> "discord-roles", scope |-> "discord-user", who |-> u] \in Planned
BY DEF Planned, PlannedJob, JobTypes

LEMMA SourcePlanned ==
  ASSUME NEW q \in FleetQueues, NEW x \in Sources
  PROVE  [queue |-> q, scope |-> "source", who |-> x] \in Planned
BY DEF Planned, PlannedJob, FleetQueues

LEMMA PayloadsPlanned ==
  ASSUME NEW p \in AllPayloads
  PROVE  JobsFor(p) \in Seq(Planned) /\ Len(JobsFor(p)) \in 0..4
<1>0. {"membership", "contacts", "wanderer", "discord-roles", "membership-recheck"} \subseteq JobTypes
  BY DEF JobTypes
<1>1. CASE p.kind = "account" /\ p.account \in Accounts
  <2>1. JobsFor(p) = <<ForAccount("membership", p.account), Global("contacts"),
                       Global("wanderer"), ForAccount("discord-roles", p.account)>>
    BY <1>1 DEF JobsFor, FleetQueues
  <2>2. /\ ForAccount("membership", p.account) \in Planned /\ Global("contacts") \in Planned
        /\ Global("wanderer") \in Planned /\ ForAccount("discord-roles", p.account) \in Planned
    BY <1>0, <1>1, GlobalPlanned, AccountPlanned
  <2> QED BY <2>1, <2>2
<1>2. CASE p.kind = "discord-user" /\ p.user \in Accounts
  <2>1. JobsFor(p) = <<[queue |-> "discord-roles", scope |-> "discord-user", who |-> p.user]>>
    BY <1>2 DEF JobsFor, FleetQueues
  <2> QED BY <1>2, <2>1, UserPlanned
<1>3. CASE p.kind = "all"
  <2>1. JobsFor(p) = <<Global("membership"), Global("contacts"), Global("wanderer"),
                       Global("discord-roles")>>
    BY <1>3 DEF JobsFor, FleetQueues
  <2>2. /\ Global("membership") \in Planned /\ Global("contacts") \in Planned
        /\ Global("wanderer") \in Planned /\ Global("discord-roles") \in Planned
    BY <1>0, GlobalPlanned
  <2> QED BY <2>1, <2>2
<1>4. CASE p.kind = "membership-recheck"
  <2>1. JobsFor(p) = <<Global("membership-recheck")>>
    BY <1>4 DEF JobsFor, FleetQueues
  <2> QED BY <1>0, <2>1, GlobalPlanned
<1>5. CASE p.kind = "job"
  <2>1. CASE p.jobType \in JobTypes
    <3>1. JobsFor(p) = <<Global(p.jobType)>>
      BY <1>5, <2>1 DEF JobsFor, FleetQueues
    <3> QED BY <2>1, <3>1, GlobalPlanned
  <2>2. CASE p.jobType \notin JobTypes
    <3>1. JobsFor(p) = << >>
      BY <1>5, <2>2 DEF JobsFor, FleetQueues
    <3> QED BY <3>1
  <2> QED BY <2>1, <2>2
<1>6. CASE p.kind \in FleetQueues /\ p.source \in Sources
  <2>1. JobsFor(p) = <<[queue |-> p.kind, scope |-> "source", who |-> p.source]>>
    BY <1>6 DEF JobsFor, FleetQueues
  <2> QED BY <1>6, <2>1, SourcePlanned
<1>7. CASE p.kind = "unknown"
  <2>1. JobsFor(p) = << >>
    BY <1>7 DEF JobsFor, FleetQueues
  <2> QED BY <2>1
<1> QED
  BY <1>1, <1>2, <1>3, <1>4, <1>5, <1>6, <1>7 DEF AllPayloads

LEMMA SameKey ==
  ASSUME NEW j \in Planned, NEW k \in Planned, j.queue = k.queue,
         SingletonKey(j) = SingletonKey(k)
  PROVE  j = k
<1>1. j = [queue |-> j.queue, scope |-> j.scope, who |-> j.who]
  BY DEF Planned, PlannedJob
<1>2. k = [queue |-> k.queue, scope |-> k.scope, who |-> k.who]
  BY DEF Planned, PlannedJob
<1>3. j.scope = k.scope /\ j.who = k.who
  BY DEF SingletonKey, GlobalSingletonKey, Planned, PlannedJob, JobTypes, FleetQueues
<1> QED BY <1>1, <1>2, <1>3

-----------------------------------------------------------------------------
(* The invariant. *)

Entry == {e \in Entries : e.job \in Planned}

Typed ==
  /\ row \in [RowIds -> RowState] /\ payload \in [RowIds -> AllPayloads]
  /\ claim \in [Dispatchers -> SUBSET RowIds]
  /\ unsent \in [Dispatchers -> SUBSET ((1..4) \X RowIds)]
  /\ sent \in [Dispatchers -> 0..3]
  /\ jobs \in [Places -> Entry \union {NoJob}]
  /\ deadLetter \subseteq Planned /\ owed \subseteq RowIds \X Planned

\* A job waits under its own key, and no two jobs wait for the same.
KeysFit == \A s \in Places : jobs[s] # NoJob => jobs[s].key = SingletonKey(jobs[s].job)

\* What is owed for a row is what its payload says, once it is committed, and
\* only committed rows are claimed.
Seen(r) == row[r] \notin {"none", "open"}
OwedByPayload == \A o \in owed : Seen(o[1]) /\ o[2] \in Targets(payload[o[1]])
ClaimSeen(d) == /\ \A r \in claim[d] : Seen(r)
                /\ \A t \in unsent[d] : t[2] \in claim[d]
ClaimsSeen == \A d \in Dispatchers : ClaimSeen(d)

\* A dispatcher that has sent some jobs of a row is still at that row.
AtRow(d) ==
  sent[d] # 0 =>
    \E t \in unsent[d] : NextInTurn(d, t) /\ sent[d] < Len(JobsFor(payload[t[2]]))
AtItsRow == \A d \in Dispatchers : AtRow(d)

\* A job of the target waits, is to be retried, runs for the row, or is dead.
Taken(r, j) ==
  \/ \E s \in Places : jobs[s] # NoJob /\ jobs[s].job = j /\ jobs[s].state \in {"created", "retry"}
  \/ \E s \in Places : jobs[s] # NoJob /\ jobs[s].job = j /\ jobs[s].state = "active" /\ r \in jobs[s].covers
  \/ j \in deadLetter

\* Of the jobs of a claimed row, those that were sent are taken.
ToSend(d, r, i) == \E t \in unsent[d] : t[2] = r /\ (NextInTurn(d, t) => sent[d] < i)
JobOf(r, i) == JobsFor(payload[r])[i]
SentTaken(d) ==
  \A r \in claim[d] : \A i \in 1..Len(JobsFor(payload[r])) :
    <<r, JobOf(r, i)>> \in owed /\ Durable(JobOf(r, i)) => Taken(r, JobOf(r, i)) \/ ToSend(d, r, i)
SentAreTaken == \A d \in Dispatchers : SentTaken(d)

IInv == Typed /\ KeysFit /\ Coalesced /\ OwedByPayload /\ ClaimsSeen /\ AtItsRow /\ SentAreTaken
        /\ NoLostWake

-----------------------------------------------------------------------------
(* Facts about the places and the turns. *)

OwedInHand == \A o \in owed : Durable(o[2]) => row[o[1]] = "pending" \/ Taken(o[1], o[2])
WaitingDiffer ==
  \A s, q \in Places :
    /\ jobs[s] # NoJob /\ jobs[s].state = "created"
    /\ jobs[q] # NoJob /\ jobs[q].state = "created"
    /\ jobs[s].job = jobs[q].job
    => s = q
LEMMA ByPlaces ==
  /\ (NoLostWake <=> OwedInHand) /\ (NoLostWake' <=> OwedInHand')
  /\ (Coalesced <=> WaitingDiffer) /\ (Coalesced' <=> WaitingDiffer')
BY DEF NoLostWake, InHand, OwedInHand, Taken, Coalesced, WaitingDiffer, Held

LEMMA OneNext ==
  ASSUME Typed, NEW d \in Dispatchers, NEW t \in unsent[d], NEW u \in unsent[d],
         NextInTurn(d, t), NextInTurn(d, u)
  PROVE  t = u
<1>1. /\ t \in (1..4) \X RowIds /\ u \in (1..4) \X RowIds
  BY DEF Typed
<1>2. t[1] \in Nat /\ t[2] \in Nat /\ u[1] \in Nat /\ u[2] \in Nat /\ t = <<t[1], t[2]>> /\ u = <<u[1], u[2]>>
  BY <1>1 DEF RowIds
<1>3. t[1] < u[1] \/ (t[1] = u[1] /\ t[2] <= u[2])
  BY DEF NextInTurn
<1>4. u[1] < t[1] \/ (u[1] = t[1] /\ u[2] <= t[2])
  BY DEF NextInTurn
<1> QED BY <1>2, <1>3, <1>4

(* What a send leaves: the job waits, as before or newly.  *)
LEMMA AfterSend ==
  ASSUME IInv, NEW j \in Planned, BossSend(j, SingletonKey(j))
  PROVE  /\ jobs' \in [Places -> Entry \union {NoJob}]
         /\ \A s \in Places : jobs[s] # NoJob => jobs'[s] = jobs[s]
         /\ \A s \in Places : jobs'[s] # NoJob /\ jobs'[s] # jobs[s] =>
              /\ jobs'[s] = NewJob(j, SingletonKey(j))
              /\ ~Waiting(j, SingletonKey(j))
         /\ \A s, q \in Places : jobs'[s] # jobs[s] /\ jobs'[q] # jobs[q] => s = q
         /\ \E s \in Places : jobs'[s] # NoJob /\ jobs'[s].job = j /\ jobs'[s].state = "created"
<1>1. NewJob(j, SingletonKey(j)) \in Entry
  BY DEF NewJob, Entry, Entries, Planned
<1>2. CASE Waiting(j, SingletonKey(j))
  <2>1. jobs' = jobs
    BY <1>2 DEF BossSend
  <2>2. PICK s \in Places : /\ jobs[s] # NoJob /\ jobs[s].state = "created"
                            /\ jobs[s].job.queue = j.queue /\ jobs[s].key = SingletonKey(j)
    BY <1>2 DEF Waiting, Held
  <2>3. jobs[s].job \in Planned /\ SingletonKey(jobs[s].job) = SingletonKey(j)
    BY <2>2 DEF IInv, Typed, Entry, KeysFit
  <2>4. jobs[s].job = j
    BY <2>2, <2>3, SameKey
  <2> QED BY <2>1, <2>2, <2>4 DEF IInv, Typed
<1>3. CASE ~Waiting(j, SingletonKey(j))
  <2>1. PICK s \in Free : jobs' = [jobs EXCEPT ![s] = NewJob(j, SingletonKey(j))]
    BY <1>3 DEF BossSend
  <2>2. s \in Places /\ jobs[s] = NoJob
    BY <2>1 DEF Free
  <2>3. jobs \in [Places -> Entry \union {NoJob}]
    BY DEF IInv, Typed
  <2>4. /\ jobs'[s] = NewJob(j, SingletonKey(j)) /\ \A q \in Places \ {s} : jobs'[q] = jobs[q]
        /\ jobs' \in [Places -> Entry \union {NoJob}]
    BY <1>1, <2>1, <2>2, <2>3
  <2>5. jobs'[s].job = j /\ jobs'[s].state = "created"
    BY <2>4 DEF NewJob
  <2>6. NoJob # NewJob(j, SingletonKey(j))
    BY <1>1 DEF Entry
  <2> QED BY <1>3, <2>2, <2>4, <2>5, <2>6
<1> QED BY <1>2, <1>3

-----------------------------------------------------------------------------
(* Steps that leave pg-boss alone. *)

LEMMA InitOK == Init => IInv
<1> SUFFICES ASSUME Init PROVE IInv
  OBVIOUS
<1>1. Typed
  <2>1. [kind |-> "unknown"] \in AllPayloads
    BY DEF AllPayloads
  <2> QED BY <2>1 DEF Init, Typed, RowState
<1>2. KeysFit /\ WaitingDiffer /\ OwedByPayload /\ ClaimsSeen /\ AtItsRow /\ SentAreTaken /\ OwedInHand
  BY DEF Init, KeysFit, WaitingDiffer, OwedByPayload, ClaimsSeen, ClaimSeen, AtItsRow, AtRow,
         SentAreTaken, SentTaken, OwedInHand
<1> QED BY <1>1, <1>2, ByPlaces DEF IInv

LEMMA RowStep ==
  ASSUME IInv, NEW r \in RowIds, NEW st \in RowState, row' = [row EXCEPT ![r] = st],
         row[r] = "none" => st = "open",
         row[r] \in {"none", "open"} \/ (row[r] # "pending" /\ st = "gone"),
         \/ row[r] = "none" /\ \E p \in AllPayloads : payload' = [payload EXCEPT ![r] = p]
         \/ payload' = payload,
         \/ owed' = owed
         \/ row[r] = "open" /\ st = "pending" /\ owed' = owed \union ({r} \X Targets(payload[r])),
         UNCHANGED <<claim, unsent, sent, jobs, deadLetter>>
  PROVE  IInv'
<1>1. /\ row \in [RowIds -> RowState] /\ payload \in [RowIds -> AllPayloads]
      /\ owed \subseteq RowIds \X Planned
      /\ ClaimsSeen /\ OwedByPayload /\ AtItsRow /\ SentAreTaken /\ OwedInHand
  BY ByPlaces DEF IInv, Typed
<1>2. Targets(payload[r]) \subseteq Planned
  BY <1>1, PayloadsPlanned DEF Targets
<1>3. /\ row'[r] = st /\ \A q \in RowIds \ {r} : row'[q] = row[q] /\ payload'[q] = payload[q]
      /\ row[r] # "none" => payload' = payload
      /\ row' \in [RowIds -> RowState] /\ payload' \in [RowIds -> AllPayloads]
  BY <1>1
<1>4. Typed'
  <2>1. owed' \subseteq RowIds \X Planned
    BY <1>1, <1>2
  <2> QED BY <1>3, <2>1 DEF IInv, Typed
<1>5. \A q \in RowIds : Seen(q) => payload'[q] = payload[q] /\ Seen(q)'
  BY <1>3 DEF Seen
<1>6. KeysFit' /\ WaitingDiffer'
  BY ByPlaces DEF IInv, KeysFit, WaitingDiffer
<1>7. OwedByPayload'
  <2> SUFFICES ASSUME NEW o \in owed' PROVE Seen(o[1])' /\ o[2] \in Targets(payload[o[1]])'
    BY DEF OwedByPayload
  <2>1. CASE o \in owed
    <3>1. o[1] \in RowIds /\ Seen(o[1]) /\ o[2] \in Targets(payload[o[1]])
      BY <1>1, <2>1 DEF OwedByPayload
    <3> QED BY <1>5, <3>1 DEF Targets
  <2>2. CASE o \notin owed
    <3>1. o[1] = r /\ o[2] \in Targets(payload[r]) /\ st = "pending" /\ row[r] = "open"
      BY <2>2
    <3> QED BY <1>3, <3>1 DEF Seen, Targets
  <2> QED BY <2>1, <2>2
<1>8. ClaimsSeen'
  BY <1>5 DEF IInv, Typed, ClaimsSeen, ClaimSeen
<1>9. \A d \in Dispatchers : \A t \in unsent[d] : payload'[t[2]] = payload[t[2]]
  BY <1>1, <1>5 DEF IInv, Typed, ClaimsSeen, ClaimSeen
<1>10. AtItsRow'
  <2> SUFFICES ASSUME NEW d \in Dispatchers, sent[d] # 0
               PROVE  \E t \in unsent[d] : NextInTurn(d, t)' /\ sent[d] < Len(JobsFor(payload'[t[2]]))
    BY DEF AtItsRow, AtRow
  <2>1. PICK t \in unsent[d] : NextInTurn(d, t) /\ sent[d] < Len(JobsFor(payload[t[2]]))
    BY <1>1 DEF AtItsRow, AtRow
  <2> QED BY <1>9, <2>1 DEF NextInTurn
<1>11. \A q \in RowIds, j \in Planned : Taken(q, j) <=> Taken(q, j)'
  BY DEF Taken
<1>12. \A d \in Dispatchers, q \in RowIds, i \in Nat : ToSend(d, q, i) <=> ToSend(d, q, i)'
  BY DEF ToSend, NextInTurn
<1>13. SentAreTaken'
  <2> SUFFICES ASSUME NEW d \in Dispatchers, NEW q \in claim[d],
                      NEW i \in 1..Len(JobsFor(payload'[q])),
                      <<q, JobOf(q, i)'>> \in owed', Durable(JobOf(q, i)')
               PROVE  Taken(q, JobOf(q, i))' \/ ToSend(d, q, i)'
    BY DEF SentAreTaken, SentTaken, Durable
  <2>1. q \in RowIds /\ Seen(q) /\ payload'[q] = payload[q]
    BY <1>1, <1>5 DEF IInv, Typed, ClaimsSeen, ClaimSeen
  <2>2. JobOf(q, i)' = JobOf(q, i) /\ i \in 1..Len(JobsFor(payload[q])) /\ i \in Nat
    BY <2>1, <1>1, PayloadsPlanned DEF JobOf
  <2>3. JobOf(q, i) \in Planned
    BY <1>1, <2>1, <2>2, PayloadsPlanned DEF JobOf
  <2>4. <<q, JobOf(q, i)>> \in owed
    BY <2>1, <2>2 DEF Seen
  <2>5. Taken(q, JobOf(q, i)) \/ ToSend(d, q, i)
    BY <1>1, <2>2, <2>4 DEF SentAreTaken, SentTaken
  <2> QED BY <1>11, <1>12, <2>1, <2>2, <2>3, <2>5
<1>14. OwedInHand'
  <2> SUFFICES ASSUME NEW o \in owed', Durable(o[2])
               PROVE  row'[o[1]] = "pending" \/ Taken(o[1], o[2])'
    BY DEF OwedInHand
  <2>1. CASE o \in owed
    <3>1. /\ o[1] \in RowIds /\ o[2] \in Planned /\ Seen(o[1])
          /\ row[o[1]] = "pending" \/ Taken(o[1], o[2])
      BY <1>1, <2>1 DEF OwedByPayload, OwedInHand
    <3>2. row[o[1]] = "pending" => row'[o[1]] = "pending"
      BY <1>3, <3>1
    <3> QED BY <1>11, <3>1, <3>2
  <2>2. CASE o \notin owed
    BY <1>3, <2>2
  <2> QED BY <2>1, <2>2
<1> QED BY <1>4, <1>6, <1>7, <1>8, <1>10, <1>13, <1>14, ByPlaces DEF IInv

-----------------------------------------------------------------------------
(* Every other step: what it must show for pg-boss and for each dispatcher. *)

Fresh(d) == /\ sent[d] = 0
            /\ \A t \in unsent[d] : t[2] \in claim[d]
            /\ \A r \in claim[d] : Seen(r) /\ \E t \in unsent[d] : t[2] = r

LEMMA Frame ==
  ASSUME IInv, Typed', KeysFit', WaitingDiffer', payload' = payload, owed' \subseteq owed,
         \A r \in RowIds : Seen(r) => Seen(r)',
         \A r \in RowIds, j \in Planned :
            <<r, j>> \in owed' /\ Durable(j) /\ Taken(r, j) => Taken(r, j)',
         \A r \in RowIds : row[r] = "pending" /\ row'[r] # "pending" =>
            \A j \in Planned : <<r, j>> \in owed' /\ Durable(j) => Taken(r, j)',
         \A d \in Dispatchers :
            \/ claim'[d] = claim[d] /\ unsent'[d] = unsent[d] /\ sent'[d] = sent[d]
            \/ Fresh(d)'
            \/ ClaimSeen(d)' /\ AtRow(d)' /\ SentTaken(d)'
  PROVE  IInv'
<1>1. /\ claim \in [Dispatchers -> SUBSET RowIds] /\ claim' \in [Dispatchers -> SUBSET RowIds]
      /\ payload \in [RowIds -> AllPayloads] /\ owed \subseteq RowIds \X Planned
      /\ ClaimsSeen /\ OwedByPayload /\ AtItsRow /\ SentAreTaken /\ OwedInHand
  BY ByPlaces DEF IInv, Typed
<1>2. OwedByPayload'
  <2> SUFFICES ASSUME NEW o \in owed' PROVE Seen(o[1])' /\ o[2] \in Targets(payload[o[1]])
    BY DEF OwedByPayload
  <2> QED BY <1>1 DEF OwedByPayload
<1>3. ASSUME NEW d \in Dispatchers PROVE ClaimSeen(d)' /\ AtRow(d)' /\ SentTaken(d)'
  <2>1. CASE claim'[d] = claim[d] /\ unsent'[d] = unsent[d] /\ sent'[d] = sent[d]
    <3>1. ClaimSeen(d)' /\ AtRow(d)'
      BY <1>1, <2>1 DEF ClaimsSeen, ClaimSeen, AtItsRow, AtRow, NextInTurn
    <3>2. \A q, i : ToSend(d, q, i) <=> ToSend(d, q, i)'
      BY <2>1 DEF ToSend, NextInTurn
    <3>3. SentTaken(d)'
      <4> SUFFICES ASSUME NEW q \in claim'[d], NEW i \in 1..Len(JobsFor(payload[q])),
                          <<q, JobOf(q, i)>> \in owed', Durable(JobOf(q, i))
                   PROVE  Taken(q, JobOf(q, i))' \/ ToSend(d, q, i)'
        BY DEF SentTaken, Durable, JobOf
      <4>1. JobOf(q, i) \in Planned /\ q \in RowIds
        BY <1>1, PayloadsPlanned DEF JobOf
      <4>2. Taken(q, JobOf(q, i)) \/ ToSend(d, q, i)
        BY <1>1, <2>1 DEF SentAreTaken, SentTaken
      <4>3. JobOf(q, i)' = JobOf(q, i)
        BY DEF JobOf
      <4> QED BY <3>2, <4>1, <4>2, <4>3
    <3> QED BY <3>1, <3>3
  <2>2. CASE Fresh(d)'
    <3>1. ClaimSeen(d)' /\ AtRow(d)'
      BY <2>2 DEF Fresh, ClaimSeen, AtRow
    <3>2. SentTaken(d)'
      <4> SUFFICES ASSUME NEW q \in claim'[d], NEW i \in 1..Len(JobsFor(payload'[q]))
                   PROVE  ToSend(d, q, i)'
        BY DEF SentTaken
      <4>1. Len(JobsFor(payload'[q])) \in Nat
        BY <1>1, PayloadsPlanned
      <4> QED BY <2>2, <4>1 DEF Fresh, ToSend
    <3> QED BY <3>1, <3>2
  <2>3. CASE ClaimSeen(d)' /\ AtRow(d)' /\ SentTaken(d)'
    BY <2>3
  <2> QED BY <2>1, <2>2, <2>3
<1>4. ClaimsSeen' /\ AtItsRow' /\ SentAreTaken'
  BY <1>3 DEF ClaimsSeen, AtItsRow, SentAreTaken
<1>5. OwedInHand'
  <2> SUFFICES ASSUME NEW o \in owed', Durable(o[2])
               PROVE  row'[o[1]] = "pending" \/ Taken(o[1], o[2])'
    BY DEF OwedInHand
  <2>1. o \in owed /\ o[1] \in RowIds /\ o[2] \in Planned /\ o = <<o[1], o[2]>>
    BY <1>1
  <2>2. row[o[1]] = "pending" \/ Taken(o[1], o[2])
    BY <1>1, <2>1 DEF OwedInHand
  <2> QED BY <2>1, <2>2
<1> QED BY <1>2, <1>4, <1>5, ByPlaces DEF IInv

-----------------------------------------------------------------------------
(* The dispatcher. *)

LEMMA WhatIsTaken ==
  ASSUME NEW scope
  PROVE  TakeUndispatched(Takeable, ClaimLimit, scope) \subseteq (1..4) \X Takeable
BY DEF TakeUndispatched, Lowest

LEMMA ClaimStep ==
  ASSUME IInv, NEW d \in Dispatchers, Claim(d)
  PROVE  IInv'
<1> DEFINE taken == TakeUndispatched(Takeable, ClaimLimit, d[2])
<1>1. taken \subseteq (1..4) \X Takeable
  BY WhatIsTaken
<1>2. \A r \in Takeable : r \in RowIds /\ Seen(r)
  BY DEF Takeable, Seen
<1>3. /\ claim' = [claim EXCEPT ![d] = {t[2] : t \in taken}]
      /\ unsent' = [unsent EXCEPT ![d] = taken] /\ sent' = [sent EXCEPT ![d] = 0]
      /\ UNCHANGED <<row, payload, jobs, deadLetter, owed>>
  BY DEF Claim
<1> HIDE DEF taken
<1>4. {t[2] : t \in taken} \subseteq Takeable /\ taken \subseteq (1..4) \X RowIds
  BY <1>1, <1>2
<1>5. Typed'
  <2>1. /\ claim \in [Dispatchers -> SUBSET RowIds] /\ sent \in [Dispatchers -> 0..3]
        /\ unsent \in [Dispatchers -> SUBSET ((1..4) \X RowIds)]
    BY DEF IInv, Typed
  <2>2. /\ claim' \in [Dispatchers -> SUBSET RowIds] /\ sent' \in [Dispatchers -> 0..3]
        /\ unsent' \in [Dispatchers -> SUBSET ((1..4) \X RowIds)]
    BY <1>2, <1>3, <1>4, <2>1
  <2> QED BY <1>3, <2>2 DEF IInv, Typed
<1>6. KeysFit' /\ WaitingDiffer'
  BY <1>3, ByPlaces DEF IInv, KeysFit, WaitingDiffer
<1>7. \A r \in RowIds, j \in Planned : Taken(r, j) => Taken(r, j)'
  BY <1>3 DEF Taken
<1>8. Fresh(d)'
  <2>1. claim'[d] = {t[2] : t \in taken} /\ unsent'[d] = taken /\ sent'[d] = 0
    BY <1>3 DEF IInv, Typed
  <2> QED BY <1>2, <1>3, <1>4, <2>1 DEF Fresh, Seen
<1>9. \A e \in Dispatchers \ {d} : claim'[e] = claim[e] /\ unsent'[e] = unsent[e] /\ sent'[e] = sent[e]
  BY <1>3 DEF IInv, Typed
<1> QED BY <1>3, <1>5, <1>6, <1>7, <1>8, <1>9, Frame DEF Seen

LEMMA ReleasedFresh ==
  ASSUME IInv, NEW D \in SUBSET Dispatchers, Released(D)
  PROVE  /\ claim' \in [Dispatchers -> SUBSET RowIds] /\ sent' \in [Dispatchers -> 0..3]
         /\ unsent' \in [Dispatchers -> SUBSET ((1..4) \X RowIds)]
         /\ \A d \in Dispatchers :
              \/ claim'[d] = claim[d] /\ unsent'[d] = unsent[d] /\ sent'[d] = sent[d]
              \/ Fresh(d)'
<1>1. /\ claim \in [Dispatchers -> SUBSET RowIds] /\ sent \in [Dispatchers -> 0..3]
      /\ unsent \in [Dispatchers -> SUBSET ((1..4) \X RowIds)]
  BY DEF IInv, Typed
<1>2. /\ claim' \in [Dispatchers -> SUBSET RowIds] /\ sent' \in [Dispatchers -> 0..3]
      /\ unsent' \in [Dispatchers -> SUBSET ((1..4) \X RowIds)]
  BY <1>1 DEF Released
<1>3. \A d \in D : Fresh(d)'
  BY DEF Released, Fresh
<1>4. \A d \in Dispatchers \ D : claim'[d] = claim[d] /\ unsent'[d] = unsent[d] /\ sent'[d] = sent[d]
  BY DEF Released
<1> QED BY <1>2, <1>3, <1>4

LEMMA RollBackStep ==
  ASSUME IInv, NEW d \in Dispatchers, RollBack(d)
  PROVE  IInv'
<1>1. Released({d}) /\ UNCHANGED <<row, payload, jobs, deadLetter, owed>>
  BY DEF RollBack
<1>2. KeysFit' /\ WaitingDiffer'
  BY <1>1, ByPlaces DEF IInv, KeysFit, WaitingDiffer
<1>3. \A r \in RowIds, j \in Planned : Taken(r, j) => Taken(r, j)'
  BY <1>1 DEF Taken
<1>4. Typed'
  BY <1>1, ReleasedFresh DEF IInv, Typed
<1> QED BY <1>1, <1>2, <1>3, <1>4, ReleasedFresh, Frame DEF Seen

LEMMA DropRowStep ==
  ASSUME IInv, NEW d \in Dispatchers, DropRow(d)
  PROVE  IInv'
<1>1. PICK t \in unsent[d] : /\ NextInTurn(d, t) /\ JobsFor(payload[t[2]]) = << >>
                             /\ unsent' = [unsent EXCEPT ![d] = unsent[d] \ {t}]
  BY DEF DropRow
<1>2. UNCHANGED <<row, payload, claim, sent, jobs, deadLetter, owed>>
  BY DEF DropRow
<1>3. /\ unsent \in [Dispatchers -> SUBSET ((1..4) \X RowIds)] /\ sent \in [Dispatchers -> 0..3]
      /\ ClaimSeen(d) /\ AtRow(d) /\ SentTaken(d)
  BY DEF IInv, Typed, ClaimsSeen, AtItsRow, SentAreTaken
<1>4. /\ unsent' \in [Dispatchers -> SUBSET ((1..4) \X RowIds)]
      /\ unsent'[d] = unsent[d] \ {t} /\ \A e \in Dispatchers \ {d} : unsent'[e] = unsent[e]
  BY <1>1, <1>3
<1>5. Typed'
  BY <1>2, <1>4 DEF IInv, Typed
<1>6. KeysFit' /\ WaitingDiffer'
  BY <1>2, ByPlaces DEF IInv, KeysFit, WaitingDiffer
<1>7. \A r \in RowIds, j \in Planned : Taken(r, j) => Taken(r, j)'
  BY <1>2 DEF Taken
<1>8. sent[d] = 0
  <2> SUFFICES ASSUME sent[d] # 0 PROVE FALSE
    OBVIOUS
  <2>1. PICK u \in unsent[d] : NextInTurn(d, u) /\ sent[d] < Len(JobsFor(payload[u[2]]))
    BY <1>3 DEF AtRow
  <2>2. u = t
    BY <1>1, <2>1, OneNext DEF IInv
  <2> QED BY <1>1, <1>3, <2>1, <2>2
<1>9. ClaimSeen(d)' /\ AtRow(d)' /\ SentTaken(d)'
  <2>1. ClaimSeen(d)' /\ AtRow(d)'
    BY <1>2, <1>3, <1>4, <1>8 DEF ClaimSeen, AtRow, Seen
  <2>2. SentTaken(d)'
    <3> SUFFICES ASSUME NEW q \in claim[d], NEW i \in 1..Len(JobsFor(payload[q])),
                        <<q, JobOf(q, i)>> \in owed, Durable(JobOf(q, i))
                 PROVE  Taken(q, JobOf(q, i))' \/ ToSend(d, q, i)'
      BY <1>2 DEF SentTaken, Durable, JobOf
    <3>1. q \in RowIds /\ payload[q] \in AllPayloads
      BY DEF IInv, Typed
    <3>2. JobOf(q, i) \in Planned /\ i \in 1..4 /\ JobOf(q, i)' = JobOf(q, i)
      BY <1>2, <3>1, PayloadsPlanned DEF JobOf
    <3>3. CASE Taken(q, JobOf(q, i))
      BY <1>7, <3>1, <3>2, <3>3
    <3>4. CASE ToSend(d, q, i)
      <4>1. PICK u \in unsent[d] : u[2] = q
        BY <3>4 DEF ToSend
      <4>2. u # t
        BY <1>1, <4>1
      <4> QED BY <1>2, <1>4, <1>8, <3>2, <4>1, <4>2 DEF ToSend
    <3> QED BY <1>3, <3>3, <3>4 DEF SentTaken
  <2> QED BY <2>1, <2>2
<1> QED BY <1>2, <1>4, <1>5, <1>6, <1>7, <1>9, Frame DEF Seen

LEMMA MarkDispatchedStep ==
  ASSUME IInv, NEW d \in Dispatchers, MarkDispatched(d)
  PROVE  IInv'
<1>1. /\ unsent[d] = {} /\ claim' = [claim EXCEPT ![d] = {}]
      /\ row' = [r \in RowIds |-> IF r \in claim[d] THEN "dispatched" ELSE row[r]]
      /\ UNCHANGED <<payload, unsent, sent, jobs, deadLetter, owed>>
  BY DEF MarkDispatched
<1>2. /\ claim \in [Dispatchers -> SUBSET RowIds] /\ row \in [RowIds -> RowState]
      /\ payload \in [RowIds -> AllPayloads]
      /\ ClaimSeen(d) /\ AtRow(d) /\ SentTaken(d) /\ OwedByPayload
  BY DEF IInv, Typed, ClaimsSeen, AtItsRow, SentAreTaken
<1>3. /\ row' \in [RowIds -> RowState] /\ claim' \in [Dispatchers -> SUBSET RowIds]
      /\ claim'[d] = {} /\ \A e \in Dispatchers \ {d} : claim'[e] = claim[e]
  BY <1>1, <1>2 DEF RowState
<1>4. Typed'
  BY <1>1, <1>3 DEF IInv, Typed
<1>5. KeysFit' /\ WaitingDiffer'
  BY <1>1, ByPlaces DEF IInv, KeysFit, WaitingDiffer
<1>6. \A r \in RowIds, j \in Planned : Taken(r, j) <=> Taken(r, j)'
  BY <1>1 DEF Taken
<1>7. Fresh(d)'
  BY <1>1, <1>2, <1>3 DEF Fresh, AtRow
<1>8. \A r \in RowIds : Seen(r) => Seen(r)'
  BY <1>1 DEF Seen
<1>9. ASSUME NEW r \in RowIds, row[r] = "pending", row'[r] # "pending",
             NEW j \in Planned, <<r, j>> \in owed, Durable(j)
      PROVE  Taken(r, j)
  <2>1. r \in claim[d]
    BY <1>1, <1>9
  <2>2. j \in Targets(payload[r])
    BY <1>2, <1>9 DEF OwedByPayload
  <2>3. PICK i \in 1..Len(JobsFor(payload[r])) : j = JobOf(r, i)
    BY <2>2 DEF Targets, JobOf
  <2>4. Taken(r, j) \/ ToSend(d, r, i)
    BY <1>2, <1>9, <2>1, <2>3 DEF SentTaken
  <2> QED BY <1>1, <2>4 DEF ToSend
<1> QED BY <1>1, <1>3, <1>4, <1>5, <1>6, <1>7, <1>8, <1>9, Frame

LEMMA SendKeepsPlaces ==
  ASSUME IInv, NEW j \in Planned, BossSend(j, SingletonKey(j))
  PROVE  KeysFit' /\ WaitingDiffer'
<1>1. /\ \A s \in Places : jobs[s] # NoJob => jobs'[s] = jobs[s]
      /\ \A s \in Places : jobs'[s] # NoJob /\ jobs'[s] # jobs[s] =>
           jobs'[s] = NewJob(j, SingletonKey(j)) /\ ~Waiting(j, SingletonKey(j))
      /\ \A s, q \in Places : jobs'[s] # jobs[s] /\ jobs'[q] # jobs[q] => s = q
  BY AfterSend
<1>2. KeysFit /\ WaitingDiffer
  BY ByPlaces DEF IInv
<1>3. KeysFit'
  BY <1>1, <1>2 DEF KeysFit, NewJob
<1>4. ASSUME NEW s \in Places, jobs[s] # NoJob, jobs[s].state = "created", jobs[s].job = j
      PROVE  Waiting(j, SingletonKey(j))
  BY <1>2, <1>4 DEF KeysFit, Waiting, Held
<1>5. WaitingDiffer'
  <2> SUFFICES ASSUME NEW s \in Places, NEW q \in Places,
                      jobs'[s] # NoJob, jobs'[s].state = "created",
                      jobs'[q] # NoJob, jobs'[q].state = "created",
                      jobs'[s].job = jobs'[q].job
               PROVE  s = q
    BY DEF WaitingDiffer
  <2>1. CASE jobs'[s] = jobs[s] /\ jobs'[q] = jobs[q]
    BY <1>2, <2>1 DEF WaitingDiffer
  <2>2. CASE jobs'[s] # jobs[s] /\ jobs'[q] # jobs[q]
    BY <1>1, <2>2
  <2>3. CASE jobs'[s] # jobs[s] /\ jobs'[q] = jobs[q]
    <3>1. jobs[q].job = j /\ ~Waiting(j, SingletonKey(j))
      BY <1>1, <2>3 DEF NewJob
    <3> QED BY <1>4, <2>3, <3>1
  <2>4. CASE jobs'[s] = jobs[s] /\ jobs'[q] # jobs[q]
    <3>1. jobs[s].job = j /\ ~Waiting(j, SingletonKey(j))
      BY <1>1, <2>4 DEF NewJob
    <3> QED BY <1>4, <2>4, <3>1
  <2> QED BY <2>1, <2>2, <2>3, <2>4
<1> QED BY <1>3, <1>5

LEMMA SendStep ==
  ASSUME IInv, NEW d \in Dispatchers, Send(d)
  PROVE  IInv'
<1> DEFINE n == sent[d] + 1
<1>1. PICK t \in unsent[d] :
        /\ NextInTurn(d, t) /\ sent[d] < Len(JobsFor(payload[t[2]]))
        /\ BossSend(JobOf(t[2], n), SingletonKey(JobOf(t[2], n)))
        /\ IF n = Len(JobsFor(payload[t[2]]))
             THEN /\ unsent' = [unsent EXCEPT ![d] = unsent[d] \ {t}]
                  /\ sent' = [sent EXCEPT ![d] = 0]
             ELSE sent' = [sent EXCEPT ![d] = n] /\ unsent' = unsent
  BY DEF Send, JobOf
<1>2. UNCHANGED <<row, payload, claim, deadLetter, owed>>
  BY DEF Send
<1>3. /\ unsent \in [Dispatchers -> SUBSET ((1..4) \X RowIds)] /\ sent \in [Dispatchers -> 0..3]
      /\ payload \in [RowIds -> AllPayloads]
      /\ ClaimSeen(d) /\ AtRow(d) /\ SentTaken(d)
  BY DEF IInv, Typed, ClaimsSeen, AtItsRow, SentAreTaken
<1>4. t[2] \in RowIds /\ payload[t[2]] \in AllPayloads
  BY <1>3
<1>5. /\ JobsFor(payload[t[2]]) \in Seq(Planned) /\ Len(JobsFor(payload[t[2]])) \in 0..4
      /\ sent[d] \in 0..3 /\ n \in 1..Len(JobsFor(payload[t[2]]))
  BY <1>1, <1>3, <1>4, PayloadsPlanned
<1>6. JobOf(t[2], n) \in Planned
  BY <1>5 DEF JobOf
<1>6a. PICK j \in Planned : j = JobOf(t[2], n)
  BY <1>6
<1>7. /\ unsent' \in [Dispatchers -> SUBSET ((1..4) \X RowIds)] /\ sent' \in [Dispatchers -> 0..3]
      /\ \A e \in Dispatchers \ {d} : unsent'[e] = unsent[e] /\ sent'[e] = sent[e]
      /\ n = Len(JobsFor(payload[t[2]])) => unsent'[d] = unsent[d] \ {t} /\ sent'[d] = 0
      /\ n # Len(JobsFor(payload[t[2]])) => unsent'[d] = unsent[d] /\ sent'[d] = n
  <2>1. CASE n = Len(JobsFor(payload[t[2]]))
    <3>1. unsent' = [unsent EXCEPT ![d] = unsent[d] \ {t}] /\ sent' = [sent EXCEPT ![d] = 0]
      BY <1>1, <2>1
    <3> QED BY <1>3, <2>1, <3>1
  <2>2. CASE n # Len(JobsFor(payload[t[2]]))
    <3>1. sent' = [sent EXCEPT ![d] = n] /\ unsent' = unsent
      BY <1>1, <2>2
    <3>2. n < Len(JobsFor(payload[t[2]])) /\ n \in Nat
      BY <1>5, <2>2
    <3>3. ASSUME NEW L \in 0..4, NEW k \in Nat, k < L PROVE k \in 0..3
      BY <3>3
    <3>4. n \in 0..3
      <4>1. Len(JobsFor(payload[t[2]])) \in 0..4
        BY <1>5
      <4> HIDE DEF n
      <4> QED BY <3>2, <3>3, <4>1
    <3> HIDE DEF n
    <3> QED BY <1>3, <2>2, <3>1, <3>4
  <2> QED BY <2>1, <2>2
<1>8. BossSend(j, SingletonKey(j))
  BY <1>1, <1>6a
<1>9. j \in Planned
  OBVIOUS
<1>10. /\ jobs' \in [Places -> Entry \union {NoJob}]
       /\ \A s \in Places : jobs[s] # NoJob => jobs'[s] = jobs[s]
       /\ \A s \in Places : jobs'[s] # NoJob /\ jobs'[s] # jobs[s] =>
            jobs'[s] = NewJob(j, SingletonKey(j)) /\ ~Waiting(j, SingletonKey(j))
       /\ \A s, q \in Places : jobs'[s] # jobs[s] /\ jobs'[q] # jobs[q] => s = q
       /\ \E s \in Places : jobs'[s] # NoJob /\ jobs'[s].job = j /\ jobs'[s].state = "created"
  BY <1>8, <1>9, AfterSend
<1>11. Typed'
  BY <1>2, <1>7, <1>10 DEF IInv, Typed
<1>12. KeysFit' /\ WaitingDiffer'
  BY <1>8, <1>9, SendKeepsPlaces
<1>13. \A r \in RowIds, k \in Planned : Taken(r, k) => Taken(r, k)'
  BY <1>2, <1>10 DEF Taken
<1>14. \A r \in RowIds : Taken(r, j)'
  BY <1>10 DEF Taken
<1>15. ClaimSeen(d)' /\ AtRow(d)' /\ SentTaken(d)'
  <2>1. ClaimSeen(d)'
    BY <1>2, <1>3, <1>7 DEF ClaimSeen, Seen
  <2>2. AtRow(d)'
    <3>1. CASE n = Len(JobsFor(payload[t[2]]))
      BY <1>7, <3>1 DEF AtRow
    <3>2. CASE n # Len(JobsFor(payload[t[2]]))
      <4>1. NextInTurn(d, t)' /\ sent'[d] < Len(JobsFor(payload'[t[2]])) /\ t \in unsent'[d]
        BY <1>1, <1>2, <1>5, <1>7, <3>2 DEF NextInTurn
      <4> QED BY <4>1 DEF AtRow
    <3> QED BY <3>1, <3>2
  <2>3. SentTaken(d)'
    <3> SUFFICES ASSUME NEW q \in claim[d], NEW i \in 1..Len(JobsFor(payload[q])),
                        <<q, JobOf(q, i)>> \in owed, Durable(JobOf(q, i))
                 PROVE  Taken(q, JobOf(q, i))' \/ ToSend(d, q, i)'
      BY <1>2 DEF SentTaken, Durable, JobOf
    <3>1. q \in RowIds /\ payload[q] \in AllPayloads
      BY DEF IInv, Typed
    <3>2. JobOf(q, i) \in Planned /\ i \in 1..4 /\ JobOf(q, i)' = JobOf(q, i)
      BY <1>2, <3>1, PayloadsPlanned DEF JobOf
    <3>3. CASE Taken(q, JobOf(q, i))
      BY <1>13, <3>1, <3>2, <3>3
    <3>4. CASE ToSend(d, q, i)
      <4>1. PICK u \in unsent[d] : u[2] = q /\ (NextInTurn(d, u) => sent[d] < i)
        BY <3>4 DEF ToSend
      <4>2. CASE u # t
        <5>1. u \in unsent'[d] /\ ~NextInTurn(d, u)
          BY <1>1, <1>7, <4>2, OneNext DEF IInv
        <5>2. CASE n = Len(JobsFor(payload[t[2]]))
          BY <1>7, <3>2, <4>1, <5>1, <5>2 DEF ToSend
        <5>3. CASE n # Len(JobsFor(payload[t[2]]))
          BY <1>7, <4>1, <5>1, <5>3 DEF ToSend, NextInTurn
        <5> QED BY <5>2, <5>3
      <4>3. CASE u = t
        <5>1. q = t[2] /\ sent[d] < i /\ n <= i
          BY <1>1, <1>5, <3>2, <4>1, <4>3
        <5>2. CASE i = n
          <6>1. JobOf(q, i) = j
            BY <1>6a, <5>1, <5>2
          <6> QED BY <1>14, <3>1, <3>2, <6>1
        <5>3. CASE i # n
          <6>1. n < i /\ n # Len(JobsFor(payload[t[2]]))
            BY <1>5, <3>2, <5>1, <5>3
          <6>2. unsent'[d] = unsent[d] /\ sent'[d] = n
            BY <1>7, <6>1
          <6> QED BY <4>1, <6>1, <6>2 DEF ToSend
        <5> QED BY <5>2, <5>3
      <4> QED BY <4>2, <4>3
    <3> QED BY <1>3, <3>3, <3>4 DEF SentTaken
  <2> QED BY <2>1, <2>2, <2>3
<1> QED BY <1>2, <1>7, <1>11, <1>12, <1>13, <1>15, Frame DEF Seen

LEMMA TickStep ==
  ASSUME IInv, NEW q \in Worked \ FleetQueues, Tick(q)
  PROVE  IInv'
<1>1. q \in JobTypes /\ Global(q) \in Planned
  BY GlobalPlanned
<1>2. SingletonKey(Global(q)) = GlobalSingletonKey(q)
  BY DEF SingletonKey, Global
<1>3. BossSend(Global(q), SingletonKey(Global(q)))
      /\ UNCHANGED <<row, payload, claim, unsent, sent, deadLetter, owed>>
  BY <1>2 DEF Tick
<1> DEFINE j == Global(q)
<1> HIDE DEF j
<1>4. j \in Planned /\ BossSend(j, SingletonKey(j))
  BY <1>1, <1>3 DEF j
<1>5. /\ jobs' \in [Places -> Entry \union {NoJob}]
      /\ \A s \in Places : jobs[s] # NoJob => jobs'[s] = jobs[s]
  BY <1>4, AfterSend
<1>6. KeysFit' /\ WaitingDiffer'
  BY <1>4, SendKeepsPlaces
<1>7. Typed'
  BY <1>3, <1>5 DEF IInv, Typed
<1>8. \A r \in RowIds, k \in Planned : Taken(r, k) => Taken(r, k)'
  BY <1>3, <1>5 DEF Taken
<1> QED BY <1>3, <1>6, <1>7, <1>8, Frame DEF Seen

-----------------------------------------------------------------------------
(* pg-boss and the handlers: one entry moves. *)

LEMMA EntryMoves ==
  ASSUME IInv, NEW s \in Places, NEW e \in Entry \union {NoJob},
         e # NoJob => e.key = SingletonKey(e.job) /\ e.state # "created",
         jobs' = [jobs EXCEPT ![s] = e]
  PROVE  /\ KeysFit' /\ WaitingDiffer' /\ jobs' \in [Places -> Entry \union {NoJob}]
         /\ jobs'[s] = e /\ \A q \in Places \ {s} : jobs'[q] = jobs[q]
<1>1. jobs \in [Places -> Entry \union {NoJob}] /\ KeysFit /\ WaitingDiffer
  BY ByPlaces DEF IInv, Typed
<1>2. /\ jobs' \in [Places -> Entry \union {NoJob}]
      /\ jobs'[s] = e /\ \A q \in Places \ {s} : jobs'[q] = jobs[q]
  BY <1>1
<1>3. KeysFit'
  BY <1>1, <1>2 DEF KeysFit
<1>4. WaitingDiffer'
  BY <1>1, <1>2 DEF WaitingDiffer
<1> QED BY <1>2, <1>3, <1>4

\* The entry a place holds, and the columns it has.
LEMMA EntryAt ==
  ASSUME IInv, NEW s \in Places, jobs[s] # NoJob
  PROVE  /\ jobs[s] \in Entry /\ jobs[s].job \in Planned
         /\ jobs[s].key = SingletonKey(jobs[s].job)
BY DEF IInv, Typed, KeysFit, Entry

\* The entry x with other bookkeeping.
Moved(x, st, n, w, C) ==
  [job |-> x.job, key |-> x.key, state |-> st, failed |-> n, worker |-> w, covers |-> C]

LEMMA ChangedEntry ==
  ASSUME NEW x \in Entry
  PROVE  /\ \A st \in {"retry", "active"}, n \in 0..RetryLimit,
              w \in Workers \union {NoWorker}, C \in SUBSET RowIds :
              Moved(x, st, n, w, C) \in Entry /\ Moved(x, st, n, w, C) # NoJob
         /\ x.failed \in 0..RetryLimit /\ x.covers \in SUBSET RowIds
         /\ x = Moved(x, x.state, x.failed, x.worker, x.covers)
<1>1. x \in Entries /\ x.job \in Planned
  BY DEF Entry
<1>2. /\ x.job \in PlannedJob /\ x.key \in {SingletonKey(j) : j \in PlannedJob}
      /\ x.failed \in 0..RetryLimit /\ x.covers \in SUBSET RowIds
      /\ x = Moved(x, x.state, x.failed, x.worker, x.covers)
  BY <1>1 DEF Entries, Moved
<1>3. ASSUME NEW st \in {"retry", "active"}, NEW n \in 0..RetryLimit,
             NEW w \in Workers \union {NoWorker}, NEW C \in SUBSET RowIds
      PROVE  Moved(x, st, n, w, C) \in Entry /\ Moved(x, st, n, w, C) # NoJob
  <2>1. Moved(x, st, n, w, C) \in Entries
    BY <1>2 DEF Entries, Moved
  <2>2. Moved(x, st, n, w, C).job \in Planned
    BY <1>1 DEF Moved
  <2> QED BY <2>1, <2>2 DEF Entry
<1> QED BY <1>2, <1>3

AsStarted(x, w, C) == [x EXCEPT !.state = "active", !.worker = w, !.covers = C]
AsRetried(x, n) ==
  [x EXCEPT !.state = "retry", !.failed = n, !.worker = NoWorker, !.covers = {}]

LEMMA StartedRetried ==
  ASSUME NEW x \in Entry, NEW w, NEW C, NEW n
  PROVE  /\ AsStarted(x, w, C) = Moved(x, "active", x.failed, w, C)
         /\ AsRetried(x, n) = Moved(x, "retry", n, NoWorker, {})
<1> DEFINE Rec(j, k, a, b, c, d) ==
             [job |-> j, key |-> k, state |-> a, failed |-> b, worker |-> c, covers |-> d]
<1>1. \E j, k, a, b, c, d : x = Rec(j, k, a, b, c, d)
  BY ChangedEntry DEF Moved
<1>2. PICK j, k, a, b, c, d : x = Rec(j, k, a, b, c, d)
  BY <1>1
<1>3. /\ [x EXCEPT !.state = "active"] = Rec(j, k, "active", b, c, d)
      /\ [x EXCEPT !.state = "retry"] = Rec(j, k, "retry", b, c, d)
  BY <1>2
<1>4. /\ [Rec(j, k, "active", b, c, d) EXCEPT !.worker = w] = Rec(j, k, "active", b, w, d)
      /\ [Rec(j, k, "retry", b, c, d) EXCEPT !.failed = n] = Rec(j, k, "retry", n, c, d)
  OBVIOUS
<1>5. /\ [Rec(j, k, "active", b, w, d) EXCEPT !.covers = C] = Rec(j, k, "active", b, w, C)
      /\ [Rec(j, k, "retry", n, c, d) EXCEPT !.worker = NoWorker] = Rec(j, k, "retry", n, NoWorker, d)
  OBVIOUS
<1>6. [Rec(j, k, "retry", n, NoWorker, d) EXCEPT !.covers = {}] = Rec(j, k, "retry", n, NoWorker, {})
  OBVIOUS
<1>7. /\ AsStarted(x, w, C)
           = [[[x EXCEPT !.state = "active"] EXCEPT !.worker = w] EXCEPT !.covers = C]
      /\ AsRetried(x, n)
           = [[[[x EXCEPT !.state = "retry"] EXCEPT !.failed = n] EXCEPT !.worker = NoWorker]
                EXCEPT !.covers = {}]
  BY DEF AsStarted, AsRetried
<1>8. x.job = j /\ x.key = k /\ x.failed = b
  BY <1>2
<1>9. \A st, m, u, D : Moved(x, st, m, u, D) = Rec(j, k, st, m, u, D)
  BY <1>8 DEF Moved
<1> HIDE DEF Rec
<1>10. AsStarted(x, w, C) = Rec(j, k, "active", b, w, C)
  BY <1>3, <1>4, <1>5, <1>7
<1>11. AsRetried(x, n) = Rec(j, k, "retry", n, NoWorker, {})
  BY <1>3, <1>4, <1>5, <1>6, <1>7
<1> QED BY <1>8, <1>9, <1>10, <1>11

LEMMA StartStep ==
  ASSUME IInv, NEW s \in Places, NEW w \in Workers, Start(s, w)
  PROVE  IInv'
<1> DEFINE C == {r \in RowIds : <<r, jobs[s].job>> \in owed}
<1>1. /\ jobs[s] # NoJob
      /\ UNCHANGED <<row, payload, claim, unsent, sent, deadLetter, owed>>
  BY DEF Start, Held
<1>2. PICK e \in Entry \union {NoJob} :
        /\ jobs' = [jobs EXCEPT ![s] = e] /\ e # NoJob
        /\ e.job = jobs[s].job /\ e.key = jobs[s].key /\ e.state = "active" /\ e.covers = C
  <2>1. /\ jobs[s] \in Entry /\ jobs[s].failed \in 0..RetryLimit
        /\ jobs[s] = Moved(jobs[s], jobs[s].state, jobs[s].failed, jobs[s].worker, jobs[s].covers)
    BY <1>1, EntryAt, ChangedEntry
  <2> DEFINE e == Moved(jobs[s], "active", jobs[s].failed, w, C)
  <2>2. e \in Entry /\ e # NoJob
    <3>1. C \in SUBSET RowIds /\ w \in Workers \union {NoWorker} /\ "active" \in {"retry", "active"}
      OBVIOUS
    <3> HIDE DEF C
    <3> QED BY <2>1, <3>1, ChangedEntry
  <2>3. e.job = jobs[s].job /\ e.key = jobs[s].key /\ e.state = "active" /\ e.covers = C
    BY DEF Moved
  <2>4. jobs' = [jobs EXCEPT ![s] = e]
    <3>1. jobs' = [jobs EXCEPT ![s] = AsStarted(jobs[s], w, C)]
      BY <1>1 DEF Start, IInv, Typed, AsStarted
    <3> HIDE DEF C
    <3>2. AsStarted(jobs[s], w, C) = Moved(jobs[s], "active", jobs[s].failed, w, C)
      BY <2>1, StartedRetried
    <3> QED BY <3>1, <3>2
  <2> HIDE DEF e
  <2> QED BY <2>2, <2>3, <2>4
<1>3. /\ KeysFit' /\ WaitingDiffer' /\ jobs' \in [Places -> Entry \union {NoJob}]
      /\ jobs'[s] = e /\ \A q \in Places \ {s} : jobs'[q] = jobs[q]
  BY <1>1, <1>2, EntryMoves, EntryAt
<1>4. ASSUME NEW r \in RowIds, NEW j \in Planned, <<r, j>> \in owed, Taken(r, j)
      PROVE  Taken(r, j)'
  <2>1. CASE j = jobs[s].job
    BY <1>2, <1>3, <1>4, <2>1 DEF Taken
  <2>2. CASE j # jobs[s].job
    BY <1>1, <1>3, <1>4, <2>2 DEF Taken
  <2> QED BY <2>1, <2>2
<1>5. Typed'
  BY <1>1, <1>3 DEF IInv, Typed
<1> QED BY <1>1, <1>3, <1>4, <1>5, Frame DEF Seen

LEMMA SettleStep ==
  ASSUME IInv, NEW s \in Places, Settle(s)
  PROVE  IInv'
<1>1. /\ jobs[s] # NoJob /\ jobs[s].state = "active"
      /\ jobs' = [jobs EXCEPT ![s] = NoJob]
      /\ owed' = owed \ (jobs[s].covers \X {jobs[s].job})
      /\ UNCHANGED <<row, payload, claim, unsent, sent, deadLetter>>
  BY DEF Settle, Held
<1>2. /\ KeysFit' /\ WaitingDiffer' /\ jobs' \in [Places -> Entry \union {NoJob}]
      /\ jobs'[s] = NoJob /\ \A q \in Places \ {s} : jobs'[q] = jobs[q]
  BY <1>1, EntryMoves
<1>3. ASSUME NEW r \in RowIds, NEW j \in Planned, <<r, j>> \in owed', Taken(r, j)
      PROVE  Taken(r, j)'
  <2>1. ~(jobs[s].job = j /\ r \in jobs[s].covers)
    BY <1>1, <1>3
  <2> QED BY <1>1, <1>2, <1>3, <2>1 DEF Taken
<1>4. Typed'
  BY <1>1, <1>2 DEF IInv, Typed
<1> QED BY <1>1, <1>2, <1>3, <1>4, Frame DEF Seen

LEMMA RetentionStep ==
  ASSUME IInv, NEW s \in Places, Retention(s)
  PROVE  IInv'
<1>1. /\ jobs[s] # NoJob /\ ~Durable(jobs[s].job)
      /\ jobs' = [jobs EXCEPT ![s] = NoJob]
      /\ UNCHANGED <<row, payload, claim, unsent, sent, deadLetter, owed>>
  BY DEF Retention, Held
<1>2. /\ KeysFit' /\ WaitingDiffer' /\ jobs' \in [Places -> Entry \union {NoJob}]
      /\ jobs'[s] = NoJob /\ \A q \in Places \ {s} : jobs'[q] = jobs[q]
  BY <1>1, EntryMoves
<1>3. ASSUME NEW r \in RowIds, NEW j \in Planned, Durable(j), Taken(r, j)
      PROVE  Taken(r, j)'
  <2>1. jobs[s].job # j
    BY <1>1, <1>3
  <2> QED BY <1>1, <1>2, <1>3, <2>1 DEF Taken
<1>4. Typed'
  BY <1>1, <1>2 DEF IInv, Typed
<1> QED BY <1>1, <1>2, <1>3, <1>4, Frame DEF Seen

LEMMA FailedStep ==
  ASSUME IInv, NEW s \in Held("active"), AttemptFailed(s),
         UNCHANGED <<row, payload, claim, unsent, sent, owed>>
  PROVE  IInv'
<1>1. s \in Places /\ jobs[s] # NoJob /\ jobs[s].state = "active"
  BY DEF Held
<1>2. jobs[s] \in Entry /\ jobs[s].job \in Planned /\ jobs[s].failed \in 0..RetryLimit
  BY <1>1, EntryAt, ChangedEntry
<1>3. CASE jobs[s].failed < Retries(jobs[s].job)
  <2> DEFINE e == Moved(jobs[s], "retry", jobs[s].failed + 1, NoWorker, {})
  <2>1. jobs' = [jobs EXCEPT ![s] = e] /\ deadLetter' = deadLetter
    <3>1. /\ deadLetter' = deadLetter
          /\ jobs' = [jobs EXCEPT ![s] = AsRetried(jobs[s], jobs[s].failed + 1)]
      BY <1>1, <1>3 DEF AttemptFailed, IInv, Typed, AsRetried
    <3>2. AsRetried(jobs[s], jobs[s].failed + 1)
            = Moved(jobs[s], "retry", jobs[s].failed + 1, NoWorker, {})
      BY <1>2, StartedRetried
    <3> QED BY <3>1, <3>2
  <2>2. jobs[s].failed + 1 \in 0..RetryLimit
    <3>1. Retries(jobs[s].job) \in {0, RetryLimit}
      BY DEF Retries
    <3> QED BY <1>2, <1>3, <3>1
  <2>3. e \in Entry /\ e # NoJob /\ e.job = jobs[s].job /\ e.key = jobs[s].key /\ e.state = "retry"
    <3>1. e \in Entry /\ e # NoJob
      <4>1. NoWorker \in Workers \union {NoWorker} /\ {} \in SUBSET RowIds
            /\ "retry" \in {"retry", "active"}
        OBVIOUS
      <4>2. PICK x \in Entry : x = jobs[s]
        BY <1>2
      <4>3. PICK n \in 0..RetryLimit : n = jobs[s].failed + 1
        BY <2>2
      <4>4. Moved(x, "retry", n, NoWorker, {}) \in Entry /\ Moved(x, "retry", n, NoWorker, {}) # NoJob
        BY <4>1, ChangedEntry
      <4> QED BY <4>2, <4>3, <4>4
    <3> QED BY <3>1 DEF Moved
  <2> HIDE DEF e
  <2>4. /\ KeysFit' /\ WaitingDiffer' /\ jobs' \in [Places -> Entry \union {NoJob}]
        /\ jobs'[s] = e /\ \A q \in Places \ {s} : jobs'[q] = jobs[q]
    BY <1>1, <2>1, <2>3, EntryMoves, EntryAt
  <2>5. \A r \in RowIds, j \in Planned : Taken(r, j) => Taken(r, j)'
    BY <1>1, <2>1, <2>3, <2>4 DEF Taken
  <2>6. Typed'
    BY <2>1, <2>4 DEF IInv, Typed
  <2> QED BY <2>4, <2>5, <2>6, Frame DEF Seen
<1>4. CASE ~(jobs[s].failed < Retries(jobs[s].job))
  <2>1. /\ jobs' = [jobs EXCEPT ![s] = NoJob]
        /\ deadLetter' = IF Durable(jobs[s].job) THEN deadLetter \union {jobs[s].job} ELSE deadLetter
    BY <1>4 DEF AttemptFailed
  <2>2. /\ KeysFit' /\ WaitingDiffer' /\ jobs' \in [Places -> Entry \union {NoJob}]
        /\ jobs'[s] = NoJob /\ \A q \in Places \ {s} : jobs'[q] = jobs[q]
    BY <1>1, <2>1, EntryMoves
  <2>3. ASSUME NEW r \in RowIds, NEW j \in Planned, Durable(j), Taken(r, j)
        PROVE  Taken(r, j)'
    <3>1. CASE j = jobs[s].job
      BY <2>1, <2>3, <3>1 DEF Taken
    <3>2. CASE j # jobs[s].job
      BY <2>1, <2>2, <2>3, <3>2 DEF Taken
    <3> QED BY <3>1, <3>2
  <2>4. Typed'
    <3>1. deadLetter' \subseteq Planned
      BY <1>2, <2>1 DEF IInv, Typed
    <3> QED BY <2>2, <3>1 DEF IInv, Typed
  <2> QED BY <2>2, <2>3, <2>4, Frame DEF Seen
<1> QED BY <1>3, <1>4

LEMMA CrashStep ==
  ASSUME IInv, NEW w \in Workers, Crash(w)
  PROVE  IInv'
<1>1. /\ Released({w} \X Scopes) /\ UNCHANGED <<row, payload, deadLetter, owed>>
      /\ jobs' = [s \in Places |->
                    IF s \in Held("active") /\ jobs[s].worker = w
                    THEN [jobs[s] EXCEPT !.worker = NoWorker] ELSE jobs[s]]
  BY DEF Crash
<1>2. {w} \X Scopes \in SUBSET Dispatchers
  BY DEF Dispatchers
<1>3. ASSUME NEW s \in Places
      PROVE  /\ jobs'[s] \in Entry \union {NoJob} /\ (jobs'[s] = NoJob <=> jobs[s] = NoJob)
             /\ jobs[s] # NoJob =>
                  /\ jobs'[s].job = jobs[s].job /\ jobs'[s].key = jobs[s].key
                  /\ jobs'[s].state = jobs[s].state /\ jobs'[s].covers = jobs[s].covers
  <2>1. CASE s \in Held("active") /\ jobs[s].worker = w
    <3>1. jobs'[s] = [jobs[s] EXCEPT !.worker = NoWorker] /\ jobs[s] # NoJob
      BY <1>1, <2>1 DEF Held
    <3>2. jobs[s] \in Entry
      BY <3>1, EntryAt
    <3>3. jobs[s].state = "active"
      BY <2>1 DEF Held
    <3>4. /\ jobs[s].failed \in 0..RetryLimit /\ jobs[s].covers \in SUBSET RowIds
          /\ jobs[s] = Moved(jobs[s], "active", jobs[s].failed, jobs[s].worker, jobs[s].covers)
      BY <3>2, <3>3, ChangedEntry
    <3> DEFINE e == Moved(jobs[s], "active", jobs[s].failed, NoWorker, jobs[s].covers)
    <3>5. jobs'[s] = e
      BY <3>1, <3>4 DEF Moved
    <3>6. e \in Entry /\ e # NoJob
      BY <3>2, <3>4, ChangedEntry
    <3>7. e.job = jobs[s].job /\ e.key = jobs[s].key /\ e.state = "active" /\ e.covers = jobs[s].covers
      BY DEF Moved
    <3> HIDE DEF e
    <3> QED BY <3>1, <3>3, <3>5, <3>6, <3>7
  <2>2. CASE ~(s \in Held("active") /\ jobs[s].worker = w)
    BY <1>1, <2>2 DEF IInv, Typed
  <2> QED BY <2>1, <2>2
<1>4. KeysFit' /\ WaitingDiffer'
  BY <1>3, ByPlaces DEF IInv, KeysFit, WaitingDiffer
<1>5. \A r \in RowIds, j \in Planned : Taken(r, j) => Taken(r, j)'
  BY <1>1, <1>3 DEF Taken
<1>6. Typed'
  <2>1. jobs' \in [Places -> Entry \union {NoJob}]
    BY <1>1, <1>3
  <2> QED BY <1>1, <1>2, <2>1, ReleasedFresh DEF IInv, Typed
<1> QED BY <1>1, <1>2, <1>4, <1>5, <1>6, ReleasedFresh, Frame DEF Seen

-----------------------------------------------------------------------------
(* The theorems. *)

LEMMA NextKeepsIInv == IInv /\ [Next]_vars => IInv'
<1> SUFFICES ASSUME IInv, [Next]_vars PROVE IInv'
  OBVIOUS
<1>1. CASE UNCHANGED vars
  <2>1. KeysFit' /\ WaitingDiffer'
    BY <1>1, ByPlaces DEF IInv, KeysFit, WaitingDiffer, vars
  <2>2. \A r \in RowIds, j \in Planned : Taken(r, j) => Taken(r, j)'
    BY <1>1 DEF Taken, vars
  <2>3. Typed'
    BY <1>1 DEF IInv, Typed, vars
  <2> QED BY <1>1, <2>1, <2>2, <2>3, Frame DEF Seen, vars
<1>2. CASE \E p \in Payloads : EnqueueSync(p)
  <2>1. PICK p \in Payloads, r \in RowIds :
          /\ row[r] = "none" /\ row' = [row EXCEPT ![r] = "open"]
          /\ payload' = [payload EXCEPT ![r] = p]
          /\ UNCHANGED <<claim, unsent, sent, jobs, deadLetter, owed>>
    BY <1>2 DEF EnqueueSync
  <2>2. p \in AllPayloads /\ "open" \in RowState
    BY DEF RowState
  <2> QED BY <2>1, <2>2, RowStep
<1>3. CASE \E r \in RowIds : Commit(r) \/ Abort(r) \/ Purge(r)
  <2>1. PICK r \in RowIds : Commit(r) \/ Abort(r) \/ Purge(r)
    BY <1>3
  <2>2. "pending" \in RowState /\ "gone" \in RowState
    BY DEF RowState
  <2>3. CASE Commit(r)
    BY <2>2, <2>3, RowStep DEF Commit
  <2>4. CASE Abort(r)
    BY <2>2, <2>4, RowStep DEF Abort
  <2>5. CASE Purge(r)
    BY <2>2, <2>5, RowStep DEF Purge
  <2> QED BY <2>1, <2>3, <2>4, <2>5
<1>4. CASE \E d \in Dispatchers : Dispatch(d) \/ RollBack(d)
  BY <1>4, ClaimStep, SendStep, DropRowStep, MarkDispatchedStep, RollBackStep DEF Dispatch
<1>5. CASE \E q \in Worked \ FleetQueues : Tick(q)
  BY <1>5, TickStep
<1>6. CASE \E s \in Places, w \in Workers : Start(s, w)
  BY <1>6, StartStep
<1>7. CASE \E s \in Places : Run(s) \/ Expire(s) \/ Retention(s)
  <2>1. PICK s \in Places : Run(s) \/ Expire(s) \/ Retention(s)
    BY <1>7
  <2>2. CASE Settle(s)
    BY <2>2, SettleStep
  <2>3. CASE Throw(s) \/ Expire(s)
    BY <2>3, FailedStep DEF Throw, Expire
  <2>4. CASE Retention(s)
    BY <2>4, RetentionStep
  <2> QED BY <2>1, <2>2, <2>3, <2>4 DEF Run
<1>8. CASE \E w \in Workers : Crash(w)
  BY <1>8, CrashStep
<1> QED BY <1>1, <1>2, <1>3, <1>4, <1>5, <1>6, <1>7, <1>8 DEF Next

THEOREM Invariance == Spec => []IInv
<1>1. Init => IInv
  BY InitOK
<1>2. IInv /\ [Next]_vars => IInv'
  BY NextKeepsIInv
<1> QED BY <1>1, <1>2, PTL DEF Spec

\* Rows, claims and jobs keep their columns and states, and no job is retried
\* beyond its queue's limit, whatever order dispatchers, workers and crashes take.
THEOREM TypeCorrect == Spec => []TypeOK
<1>1. IInv => TypeOK
  BY DEF IInv, Typed, TypeOK, Entry, Planned
<1> QED BY <1>1, Invariance, PTL

\* A committed wake-up is dispatched, queued, retried, running for its row or
\* dead-lettered until a run that covers it has ended: for any number of workers,
\* dispatchers, rows and faults.
THEOREM WakesNotLost == Spec => []NoLostWake
<1>1. IInv => NoLostWake
  BY DEF IInv
<1> QED BY <1>1, Invariance, PTL

\* Two jobs that would do the same never wait side by side, whether they came
\* from rows, from the cron or from an operator.
THEOREM WaitingCoalesced == Spec => []Coalesced
<1>1. IInv => Coalesced
  BY DEF IInv
<1> QED BY <1>1, Invariance, PTL

-----------------------------------------------------------------------------
(* No kind of row holds up another. *)

LEMMA RowsFinite == IsFiniteSet(RowIds) /\ \A r \in RowIds : r \in Nat
<1>1. MaxRows \in Nat
  OBVIOUS
<1>2. IsFiniteSet(1..MaxRows)
  BY <1>1, FS_Interval
<1>3. \A r \in 1..MaxRows : r \in Nat
  BY <1>1
<1> QED BY <1>2, <1>3 DEF RowIds

\* The n oldest of a set of rows are n at most: each has another number of older ones.
LEMMA LowestAtMost ==
  ASSUME NEW S \in SUBSET RowIds, NEW n \in Nat
  PROVE  Lowest(S, n) \subseteq S /\ IsFiniteSet(Lowest(S, n)) /\ Cardinality(Lowest(S, n)) <= n
<1> DEFINE L == Lowest(S, n)
           older(r) == {q \in S : q < r}
           f == [r \in L |-> Cardinality(older(r))]
<1>1. IsFiniteSet(S)
  BY RowsFinite, FS_Subset
<1>2. \A r \in S : IsFiniteSet(older(r)) /\ Cardinality(older(r)) \in Nat
  BY <1>1, FS_Subset, FS_CardinalityType
<1>3. L \subseteq S /\ \A r \in L : Cardinality(older(r)) < n
  BY DEF Lowest
<1>4. ASSUME NEW r \in L, NEW s \in L, r < s
      PROVE  Cardinality(older(r)) # Cardinality(older(s))
  <2>1. r \in Nat /\ s \in Nat /\ r \in older(s) /\ r \notin older(r)
    BY <1>3, <1>4, RowsFinite
  <2>2. older(r) \in SUBSET older(s)
    BY <1>3, <1>4, RowsFinite
  <2>3. IsFiniteSet(older(s)) /\ older(r) # older(s)
    BY <1>2, <1>3, <2>1
  <2> QED BY <2>2, <2>3, FS_Subset
<1>5. f \in [L -> 0..(n - 1)]
  BY <1>2, <1>3
<1>6. \A r, s \in L : f[r] = f[s] => r = s
  <2> SUFFICES ASSUME NEW r \in L, NEW s \in L, f[r] = f[s] PROVE r = s
    OBVIOUS
  <2>1. r \in Nat /\ s \in Nat
    BY <1>3, RowsFinite
  <2> QED BY <1>4, <2>1
<1>7. f \in Injection(L, 0..(n - 1))
  BY <1>5, <1>6 DEF Injection, IsInjective
<1>8. IsFiniteSet(0..(n - 1)) /\ Cardinality(0..(n - 1)) = n
  BY FS_Interval
<1> HIDE DEF f, L
<1>9. IsFiniteSet(L) /\ Cardinality(L) <= n
  BY <1>7, <1>8, FS_Injection
<1> QED BY <1>3, <1>9 DEF L

LEMMA OldestIsLowest ==
  ASSUME NEW S \in SUBSET RowIds, NEW n \in Nat, n > 0, NEW r \in S, \A q \in S : r <= q
  PROVE  r \in Lowest(S, n)
<1>1. {q \in S : q < r} = {}
  BY RowsFinite
<1>2. Cardinality({q \in S : q < r}) = 0
  BY <1>1, FS_EmptySet
<1> QED BY <1>2 DEF Lowest

LEMMA OldestOfEachKind ==
  ASSUME NEW S \in SUBSET RowIds, NEW scope \in {"all", "scheduled", "fleet-source"},
         NEW r \in S, InScope(scope, r), ClaimLimit > 2,
         \A q \in S : ClassOf(q) = ClassOf(r) => r <= q
  PROVE  \E t \in TakeUndispatched(S, ClaimLimit, scope) : t[2] = r
<1> DEFINE of(c)     == {q \in S : ClassOf(q) = c}
           share     == ClaimLimit \div (IF scope = "all" THEN 3 ELSE 2)
           least     == IF share = 0 THEN 1 ELSE share
           source    == IF scope = "scheduled" THEN {} ELSE Lowest(of("source"), least)
           room1     == ClaimLimit - Cardinality(source)
           automatic == IF scope = "scheduled" THEN {}
                        ELSE Lowest(of("automatic"), Smaller(share, room1))
           room2     == room1 - Cardinality(automatic)
           scheduled == IF scope # "all" THEN {}
                        ELSE Lowest(of("scheduled"), Smaller(share, room2))
           reserved  == source \union automatic \union scheduled
           allowed   == {q \in S : InScope(scope, q)}
           fill      == Lowest(allowed \ reserved, ClaimLimit - Cardinality(reserved))
<1>1. TakeUndispatched(S, ClaimLimit, scope)
        = ({1} \X source) \union ({2} \X automatic) \union ({3} \X scheduled) \union ({4} \X fill)
  BY DEF TakeUndispatched
<1>2. /\ share \in Nat /\ share >= 1 /\ 2 * share <= ClaimLimit
      /\ scope = "all" => 3 * share <= ClaimLimit
  <2>1. ClaimLimit \in Nat
    OBVIOUS
  <2>2. /\ ClaimLimit \div 3 \in Nat /\ ClaimLimit \div 3 >= 1 /\ 3 * (ClaimLimit \div 3) <= ClaimLimit
        /\ ClaimLimit \div 2 \in Nat /\ ClaimLimit \div 2 >= 1 /\ 2 * (ClaimLimit \div 2) <= ClaimLimit
    BY <2>1
  <2> QED BY <2>1, <2>2
<1>3. least = share
  BY <1>2
<1>4. \A c : of(c) \in SUBSET RowIds
  OBVIOUS
<1>5. r \in of(ClassOf(r)) /\ (\A q \in of(ClassOf(r)) : r <= q)
  OBVIOUS
<1>6. ClassOf(r) \in {"source", "automatic", "scheduled"}
  BY DEF ClassOf
<1> HIDE DEF of, share, fill
<1>7. CASE scope = "scheduled"
  <2>1. ClassOf(r) = "scheduled"
    BY <1>7 DEF InScope
  <2>2. source = {} /\ automatic = {} /\ scheduled = {} /\ Cardinality(reserved) = 0
    BY <1>7, FS_EmptySet
  <2>3. allowed = of("scheduled")
    BY <1>7 DEF of, InScope
  <2>4. ClaimLimit - Cardinality(reserved) = ClaimLimit /\ allowed \ reserved = of("scheduled")
    BY <2>2, <2>3
  <2>5. r \in Lowest(of("scheduled"), ClaimLimit)
    BY <1>4, <1>5, <2>1, OldestIsLowest
  <2>6. r \in fill
    BY <2>4, <2>5 DEF fill
  <2> HIDE DEF source, automatic, scheduled
  <2>7. <<4, r>> \in TakeUndispatched(S, ClaimLimit, scope)
    BY <1>1, <2>6
  <2> QED BY <2>7
<1>8. CASE scope # "scheduled"
  <2>1. source = Lowest(of("source"), share)
    BY <1>3, <1>8
  <2>2. Cardinality(source) \in Nat /\ Cardinality(source) <= share
    BY <1>2, <1>4, <2>1, LowestAtMost, FS_CardinalityType
  <2>3. room1 \in Nat /\ room1 >= share
    BY <1>2, <2>2
  <2> DEFINE first == Smaller(share, room1)
  <2>4. first = share
    BY <1>2, <2>3 DEF Smaller
  <2>5. automatic = Lowest(of("automatic"), share)
    BY <1>8, <2>4
  <2>6. Cardinality(automatic) \in Nat /\ Cardinality(automatic) <= share
    BY <1>2, <1>4, <2>5, LowestAtMost, FS_CardinalityType
  <2>7. CASE ClassOf(r) = "source"
    <3>1. r \in source
      BY <1>2, <1>4, <1>5, <2>1, <2>7, OldestIsLowest
    <3> HIDE DEF source, automatic, scheduled
    <3>2. <<1, r>> \in TakeUndispatched(S, ClaimLimit, scope)
      BY <1>1, <3>1
    <3> QED BY <3>2
  <2>8. CASE ClassOf(r) = "automatic"
    <3>1. r \in automatic
      BY <1>2, <1>4, <1>5, <2>5, <2>8, OldestIsLowest
    <3> HIDE DEF source, automatic, scheduled
    <3>2. <<2, r>> \in TakeUndispatched(S, ClaimLimit, scope)
      BY <1>1, <3>1
    <3> QED BY <3>2
  <2>9. CASE ClassOf(r) = "scheduled"
    <3>1. scope = "all"
      BY <1>8, <2>9 DEF InScope
    <3>2. room2 \in Nat /\ room2 >= share
      BY <1>2, <2>2, <2>6, <3>1
    <3>3. Smaller(share, room2) = share
      BY <1>2, <3>2 DEF Smaller
    <3>4. scheduled = Lowest(of("scheduled"), share)
      BY <3>1, <3>3
    <3>5. r \in scheduled
      <4>1. r \in Lowest(of("scheduled"), share)
        BY <1>2, <1>4, <1>5, <2>9, OldestIsLowest
      <4> HIDE DEF scheduled
      <4> QED BY <3>4, <4>1
    <3> HIDE DEF source, automatic, scheduled
    <3>6. <<3, r>> \in TakeUndispatched(S, ClaimLimit, scope)
      BY <1>1, <3>5
    <3> QED BY <3>6
  <2> QED BY <1>6, <2>7, <2>8, <2>9
<1> QED BY <1>7, <1>8

\* A dispatch that finds rows of several kinds takes the oldest of each kind its
\* scope covers: no backlog of one kind holds up another.
THEOREM KindsProgress == Spec => EachKindProgresses
<1> DEFINE Fair(d) ==
      ClaimLimit > 2 /\ Idle(d) /\ claim'[d] # {} =>
        \A c \in {"source", "automatic", "scheduled"} : \A r \in OldestOf(c) :
           InScope(d[2], r) => r \in claim'[d]
<1>1. IInv /\ [Next]_vars => \A d \in Dispatchers : Fair(d)
  <2> SUFFICES ASSUME IInv, [Next]_vars, NEW d \in Dispatchers, ClaimLimit > 2, claim[d] = {},
                      claim'[d] # {}, NEW c, NEW r \in OldestOf(c), InScope(d[2], r)
               PROVE  r \in claim'[d]
    BY DEF Idle
  <2>1. claim \in [Dispatchers -> SUBSET RowIds]
    BY DEF IInv, Typed
  <2>2. Claim(d)
    <3>1. ~UNCHANGED claim
      OBVIOUS
    <3>2. ~\E w \in Workers : Crash(w)
      BY <2>1 DEF Crash, Released
    <3>3. ~\E s \in Places : Run(s) \/ Expire(s) \/ Retention(s)
      BY <3>1 DEF Run, Settle, Throw, Expire, Retention
    <3>4. ~(\E s \in Places, w \in Workers : Start(s, w)) /\ ~\E q \in Worked \ FleetQueues : Tick(q)
      BY <3>1 DEF Start, Tick
    <3>5. /\ ~\E p \in Payloads : EnqueueSync(p)
          /\ ~\E r0 \in RowIds : Commit(r0) \/ Abort(r0) \/ Purge(r0)
      BY <3>1 DEF EnqueueSync, Commit, Abort, Purge
    <3>6. PICK e \in Dispatchers : Dispatch(e) \/ RollBack(e)
      BY <3>1, <3>2, <3>3, <3>4, <3>5 DEF Next, vars
    <3>7. ~RollBack(e)
      BY <2>1 DEF RollBack, Released
    <3>8. ~Send(e) /\ ~DropRow(e)
      BY <3>1 DEF Send, DropRow
    <3>9. ~MarkDispatched(e)
      BY <2>1 DEF MarkDispatched
    <3>10. Claim(e)
      BY <3>6, <3>7, <3>8, <3>9 DEF Dispatch
    <3>11. e = d
      BY <2>1, <3>10 DEF Claim
    <3> QED BY <3>10, <3>11
  <2>3. /\ claim'[d] = {t[2] : t \in TakeUndispatched(Takeable, ClaimLimit, d[2])}
    BY <2>1, <2>2 DEF Claim
  <2>4. /\ Takeable \in SUBSET RowIds /\ d[2] \in {"all", "scheduled", "fleet-source"}
        /\ r \in Takeable /\ \A q \in Takeable : ClassOf(q) = ClassOf(r) => r <= q
    BY DEF Takeable, Dispatchers, OldestOf
  <2>5. \E t \in TakeUndispatched(Takeable, ClaimLimit, d[2]) : t[2] = r
    BY <2>4, OldestOfEachKind
  <2> QED BY <2>3, <2>5
<1> QED BY <1>1, Invariance, PTL DEF Spec, EachKindProgresses

HIDE NoJobAssumption
HIDE OutboxAssumption

-----------------------------------------------------------------------------
(* The payout forms. *)

\* What an operation is, and what has been told of each form.
OpType == [state : {"draft", "finalized", "gone"}, roster : SUBSET Names, excluded : SUBSET Names,
           paid : SUBSET Names, payments : Nat, pools : {0, 1}]
Commits == [form : Forms, on : OpType]

\* A form that has not been answered has changed nothing.
Pending(f) == Ops!CommitsOf(f) = {} /\ \A o \in made : o.form # f
Problem(f) == form[f].answer \in Ops!AllCodes
Answer(f) ==
  /\ form[f].answer \in Ops!Unsaved => Pending(f)
  /\ form[f].answer \in {"ok", "shown"} /\ form[f].kind # "openInfo" =>
       \E n \in DOMAIN done : Ops!CommitsOf(f) = {n}
  /\ form[f].kind \in Ops!Needed =>
       \A i \in Ops!CommitsOf(f) : done[i].on.state = "draft" /\ done[i].on.payments = 0
  /\ form[f].kind \in Ops!Fields \union Ops!Priced /\ form[f].answer \notin {"ok", "boundary"} => form[f].back
  /\ form[f].kind = "create" /\ form[f].answer = "ok" => Ops!Whole(f) \in made
  /\ (\E w \in opened : w.by = f) => form[f].answer \in {"shown", "open_info_timeout"}
FormOK(f) ==
  /\ form[f].at = "answered" => Answer(f)
  /\ form[f].at # "answered" => Pending(f) /\ \A w \in opened : w.by # f
  /\ form[f].at \in {"target", "token", "window"} => form[f].kind = "openInfo"
Answers == Ops!Unsaved \union Ops!WindowCodes \union Ops!TokenCodes \union {"ok", "shown", "open_info_target", None}
FormRecord ==
            [by : Operators \union {None}, kind : Ops!Kinds \union {None}, name : Names \union {None},
             loot : BOOLEAN, problem : Ops!AllCodes \union {None},
             at : {"typed", "pricing", "committing", "target", "token", "window", "answered"},
             answer : Answers, back : BOOLEAN]
FormType == {e \in FormRecord : e.at # "typed" /\ e.kind \in {"roster", "participant"} => e.name \in Names}
FormTypes == op \in OpType /\ done \in Seq(Commits) /\ form \in [Forms -> FormType]
FormsInv == FormTypes /\ \A f \in Forms : FormOK(f)

LEMMA CodesAreNot == ASSUME NEW c \in Ops!AllCodes
                     PROVE c \notin {"ok", "shown", "open_info_timeout", "boundary"}
<1>1. PICK k \in DOMAIN Ops!Codes : c \in Ops!Codes[k]
  BY DEF Ops!AllCodes
<1>2. k \in {"name", "occurredAt", "battleReport", "corpShare", "shares", "price", "participant", "flat", "create"}
  BY <1>1 DEF Ops!Codes
<1>3. c \in {"name_required", "date_invalid", "url_invalid", "url_scheme", "share_format", "share_range",
             "shares_required", "shares_invalid", "shares_positive", "shares_range", "price_invalid",
             "participant_name_required", "note_required", "total_invalid", "date_future"}
  <2>1. CASE k \in {"name", "occurredAt", "price", "participant"}
    BY <1>1, <2>1 DEF Ops!Codes
  <2>2. CASE k \in {"battleReport", "corpShare", "flat"}
    BY <1>1, <2>2 DEF Ops!Codes
  <2>3. CASE k = "shares"
    BY <1>1, <2>3 DEF Ops!Codes
  <2>4. CASE k = "create"
    BY <1>1, <2>4 DEF Ops!Codes
  <2> QED BY <1>2, <2>1, <2>2, <2>3, <2>4
<1> QED BY <1>3

LEMMA FormsShow == ASSUME FormsInv PROVE Ops!FormsTellTheTruth
<1>1. ASSUME NEW f \in Forms, Ops!At(f, "answered") PROVE Answer(f)
  BY <1>1 DEF FormsInv, FormOK, Ops!At
<1> QED BY <1>1 DEF Ops!FormsTellTheTruth, Answer, Pending, Ops!Is, Ops!Needed

LEMMA BlankType == Ops!Blank \in FormType
BY DEF Ops!Blank, FormType, FormRecord, Answers

LEMMA FormsInit == ASSUME Ops!Init PROVE FormsInv
<1>1. op \in OpType
  BY DEF Ops!Init, Ops!Found, OpType
<1>3. form \in [Forms -> FormType] /\ \A f \in Forms : form[f] = Ops!Blank
  BY BlankType DEF Ops!Init
<1>4. done \in Seq(Commits) /\ done = << >> /\ made = {} /\ opened = {}
  BY DEF Ops!Init
<1>5. ASSUME NEW f \in Forms PROVE FormOK(f)
  <2>1. form[f].at = "typed"
    BY <1>3 DEF Ops!Blank
  <2>2. Ops!CommitsOf(f) = {}
    BY <1>4 DEF Ops!CommitsOf
  <2> QED BY <1>4, <2>1, <2>2 DEF FormOK, Pending
<1> QED BY <1>1, <1>3, <1>4, <1>5 DEF FormsInv, FormTypes

\* A step of one form that writes nothing else keeps what was told of the others; of the one
\* that moves it remains to be shown.
LEMMA OneForm ==
  ASSUME FormsInv, NEW f \in Forms, NEW e \in FormType, Ops!Put(f, e),
         UNCHANGED <<op, made, done>>,
         opened' = opened \/ \E n : opened' = opened \union {[by |-> f, name |-> n]},
         FormOK(f)'
  PROVE  FormsInv'
<1>1. form' = [form EXCEPT ![f] = e] /\ form' \in [Forms -> FormType]
  BY DEF Ops!Put, FormsInv, FormTypes
<1>2. ASSUME NEW g \in Forms, g # f PROVE FormOK(g)'
  <2>1. form'[g] = form[g] /\ done' = done /\ made' = made
    BY <1>1, <1>2 DEF FormsInv, FormTypes
  <2>2. FormOK(g)
    BY DEF FormsInv
  <2>3. \A w \in opened' : w.by = g => w \in opened
    BY <1>2
  <2>4. Ops!CommitsOf(g)' = Ops!CommitsOf(g) /\ Ops!Whole(g)' = Ops!Whole(g)
    BY <2>1 DEF Ops!CommitsOf, Ops!Whole, Ops!Name
  <2>5. Pending(g)' = Pending(g)
    BY <2>1, <2>4 DEF Pending
  <2>6. Answer(g) /\ form[g].at = "answered" => Answer(g)'
    BY <2>1, <2>3, <2>4, <2>5 DEF Answer
  <2>7. opened \subseteq opened'
    OBVIOUS
  <2> QED BY <2>1, <2>2, <2>3, <2>5, <2>6 DEF FormOK
<1> QED BY <1>1, <1>2 DEF FormsInv, FormTypes
\* A form moves on, or is told that nothing was saved.
Unsaving(e) ==
  IF e.at # "answered" THEN e.at \in {"target", "token", "window"} => e.kind = "openInfo"
  ELSE /\ e.answer # "ok" /\ (e.answer = "shown" => e.kind = "openInfo")
       /\ e.kind \in Ops!Fields \union Ops!Priced /\ e.answer # "boundary" => e.back
LEMMA MovesOn ==
  ASSUME FormsInv, NEW f \in Forms, NEW e \in FormType, Ops!Put(f, e), Unsaving(e),
         form[f].at # "answered", UNCHANGED <<op, made, done, opened>>
  PROVE  FormsInv'
<1>1. form'[f] = e /\ made' = made /\ done' = done /\ opened' = opened
  BY DEF Ops!Put, FormsInv, FormTypes
<1>2. Pending(f) /\ \A w \in opened : w.by # f
  BY DEF FormsInv, FormOK
<1>3. Ops!CommitsOf(f)' = Ops!CommitsOf(f)
  BY <1>1 DEF Ops!CommitsOf
<1>4. Pending(f)'
  BY <1>1, <1>2, <1>3 DEF Pending
<1>5. e.at = "answered" => Answer(f)'
  BY <1>1, <1>2, <1>3, <1>4 DEF Answer, Unsaving, Pending
<1>6. FormOK(f)'
  BY <1>1, <1>2, <1>4, <1>5 DEF FormOK, Unsaving
<1> QED BY <1>1, <1>6, OneForm

LEMMA SubmitKeeps ==
  ASSUME FormsInv, NEW f \in Forms, NEW a \in Operators, NEW kind \in Ops!Kinds, NEW loot \in BOOLEAN,
         NEW name \in Names \union {None}, kind \in {"roster", "participant"} => name \in Names,
         NEW problem \in Ops!Problems(kind), Ops!Submit(f, a, kind, name, loot, problem)
  PROVE  FormsInv'
<1> DEFINE e == [Ops!Blank EXCEPT !.by = a, !.kind = kind, !.name = name, !.loot = loot, !.problem = problem]
           stage == IF loot \/ kind = "appraise" THEN "pricing"
                    ELSE IF kind = "openInfo" THEN "target" ELSE "committing"
           g == IF a \notin operator THEN [e EXCEPT !.at = "answered", !.answer = "boundary"]
                ELSE IF problem # None THEN [e EXCEPT !.at = "answered", !.answer = problem, !.back = TRUE]
                ELSE [e EXCEPT !.at = stage]
<1>0. stage \in {"pricing", "target", "committing"} /\ (stage = "target" => kind = "openInfo")
  OBVIOUS
<1>1. problem \in Ops!AllCodes \union {None}
  BY DEF Ops!Problems, Ops!AllCodes
<1>2. e \in FormRecord /\ e.kind = kind /\ e.name = name
  BY <1>1, BlankType DEF FormType, FormRecord
<1>5. Ops!Put(f, g) /\ form[f].at # "answered" /\ UNCHANGED <<op, made, done, opened>>
  BY DEF Ops!Submit, Ops!At
<1> HIDE DEF e, stage
<1>3. g \in FormType
  <2>1. CASE a \notin operator
    BY <1>1, <1>2, <2>1 DEF FormType, FormRecord, Answers, Ops!Unsaved
  <2>2. CASE a \in operator /\ problem # None
    BY <1>1, <1>2, <2>2 DEF FormType, FormRecord, Answers, Ops!Unsaved
  <2>3. CASE a \in operator /\ problem = None
    BY <1>0, <1>1, <1>2, <2>3 DEF FormType, FormRecord
  <2> QED BY <2>1, <2>2, <2>3
<1>4. Unsaving(g)
  <2>1. CASE a \notin operator
    BY <1>2, <2>1 DEF Unsaving, FormType, FormRecord
  <2>2. CASE a \in operator /\ problem # None
    BY <1>1, <1>2, <2>2, CodesAreNot DEF Unsaving, FormType, FormRecord
  <2>3. CASE a \in operator /\ problem = None
    BY <1>0, <1>2, <2>3 DEF Unsaving, FormType, FormRecord
  <2> QED BY <2>1, <2>2, <2>3
<1> QED BY <1>3, <1>4, <1>5, MovesOn

\* Where a form stands, and what it is told when it goes on or is answered.
LEMMA StandsAs ==
  ASSUME FormsInv, NEW f \in Forms, form[f].at # "typed"
  PROVE  /\ form[f] \in FormType
         /\ \A stage \in {"committing", "token", "window"} : [form[f] EXCEPT !.at = stage] \in FormType
         /\ \A x \in Answers, b \in BOOLEAN :
              /\ [form[f] EXCEPT !.at = "answered", !.answer = x] \in FormType
              /\ [form[f] EXCEPT !.at = "answered", !.answer = x, !.back = b] \in FormType
<1>1. form[f] \in FormType
  BY DEF FormsInv, FormTypes
<1>2. \A stage \in {"committing", "token", "window"} : [form[f] EXCEPT !.at = stage] \in FormRecord
  BY <1>1 DEF FormType, FormRecord
<1>3. \A x \in Answers, b \in BOOLEAN :
        /\ [form[f] EXCEPT !.at = "answered", !.answer = x] \in FormRecord
        /\ [form[f] EXCEPT !.at = "answered", !.answer = x, !.back = b] \in FormRecord
  BY <1>1 DEF FormType, FormRecord
<1>4. form[f].kind \in {"roster", "participant"} => form[f].name \in Names
  BY <1>1 DEF FormType
<1>5. /\ \A stage \in {"committing", "token", "window"} :
           LET e == [form[f] EXCEPT !.at = stage] IN e.kind = form[f].kind /\ e.name = form[f].name
      /\ \A x \in Answers, b \in BOOLEAN :
           LET e == [form[f] EXCEPT !.at = "answered", !.answer = x]
               g == [form[f] EXCEPT !.at = "answered", !.answer = x, !.back = b]
           IN e.kind = form[f].kind /\ e.name = form[f].name /\ g.kind = form[f].kind /\ g.name = form[f].name
  BY <1>1 DEF FormType, FormRecord
<1> QED BY <1>1, <1>2, <1>3, <1>4, <1>5 DEF FormType

\* A form is told that nothing was saved.
LEMMA ToldSo ==
  ASSUME FormsInv, NEW f \in Forms, NEW x \in Answers, form[f].at \notin {"typed", "answered"}, UNCHANGED <<op, made, done, opened>>,
         \/ /\ Ops!Answered(f, x) /\ x # "ok" /\ (x = "shown" => form[f].kind = "openInfo")
            /\ form[f].kind \in Ops!Fields \union Ops!Priced => x = "boundary"
         \/ Ops!Returned(f, x) /\ x \notin {"ok", "shown"}
  PROVE  FormsInv'
<1>1. form[f] \in FormType
  BY StandsAs
<1>2. CASE /\ Ops!Answered(f, x) /\ x # "ok" /\ (x = "shown" => form[f].kind = "openInfo")
           /\ form[f].kind \in Ops!Fields \union Ops!Priced => x = "boundary"
  <2> DEFINE e == [form[f] EXCEPT !.at = "answered", !.answer = x]
  <2>1. e \in FormType
    BY StandsAs
  <2>2. Unsaving(e)
    BY <1>1, <1>2 DEF Unsaving, FormType, FormRecord
  <2>3. Ops!Put(f, e)
    BY <1>2 DEF Ops!Answered
  <2> HIDE DEF e
  <2> QED BY <2>1, <2>2, <2>3, MovesOn
<1>3. CASE Ops!Returned(f, x) /\ x \notin {"ok", "shown"}
  <2> DEFINE e == [form[f] EXCEPT !.at = "answered", !.answer = x, !.back = TRUE]
  <2>1. e \in FormType
    BY StandsAs
  <2>2. Unsaving(e)
    BY <1>1, <1>3 DEF Unsaving, FormType, FormRecord
  <2>3. Ops!Put(f, e)
    BY <1>3 DEF Ops!Returned
  <2> HIDE DEF e
  <2> QED BY <2>1, <2>2, <2>3, MovesOn
<1> QED BY <1>2, <1>3

LEMMA GoesOn ==
  ASSUME FormsInv, NEW f \in Forms, NEW stage \in {"committing", "token", "window"}, Ops!Goes(f, stage),
         form[f].at \notin {"typed", "answered"}, stage # "committing" => form[f].kind = "openInfo",
         UNCHANGED <<op, made, done, opened>>
  PROVE  FormsInv'
<1> DEFINE e == [form[f] EXCEPT !.at = stage]
<1>1. e \in FormType /\ form[f] \in FormType
  BY StandsAs
<1>2. Unsaving(e)
  BY <1>1 DEF Unsaving, FormType, FormRecord
<1>3. Ops!Put(f, e)
  BY DEF Ops!Goes
<1> HIDE DEF e
<1> QED BY <1>1, <1>2, <1>3, MovesOn

LEMMA PriceKeeps ==
  ASSUME FormsInv, NEW f \in Forms, NEW outcome \in {"priced", "refused", "thrown"}, Ops!Price(f, outcome)
  PROVE  FormsInv'
<1>1. form[f].at \notin {"typed", "answered"} /\ UNCHANGED <<op, made, done, opened>>
  BY DEF Ops!Price, Ops!At
<1>2. {"boundary", "appraisal_failed"} \subseteq Answers
  BY DEF Answers, Ops!Unsaved
<1>3. CASE outcome = "priced"
  BY <1>1, <1>3, GoesOn DEF Ops!Price
<1>4. CASE outcome = "refused"
  BY <1>1, <1>2, <1>4, ToldSo DEF Ops!Price
<1>5. CASE outcome = "thrown"
  BY <1>1, <1>2, <1>5, ToldSo DEF Ops!Price
<1> QED BY <1>3, <1>4, <1>5

\* What a commit makes of the operation is one.
LEMMA EffectType ==
  ASSUME op \in OpType, NEW f \in Forms, form[f] \in FormType, form[f].at = "committing", Ops!Thrown(f) = None
  PROVE  Ops!Effect(f) \in OpType
<1> DEFINE n == form[f].name
<1>1. Ops!Is(f, Ops!OfRow) => n \in op.roster
  <2>1. Ops!Is(f, Ops!OfRow) /\ n \notin op.roster => Ops!Thrown(f) \in {"forbidden", "not_found"}
    BY DEF Ops!Thrown, Ops!Is, Ops!OfRow, Ops!Name
  <2> QED BY <2>1, ConsoleAssumption
<1>2. Ops!Is(f, Ops!OfRow \union {"roster", "participant"}) => n \in Names
  BY <1>1 DEF OpType, FormType, FormRecord, Ops!Is
<1> HIDE DEF n
<1>3. CASE Ops!Is(f, {"participant", "roster", "exclude", "remove"})
  BY <1>2, <1>3 DEF Ops!Effect, OpType, Ops!Is, Ops!OfRow, Ops!Name, n
<1>4. CASE Ops!Is(f, {"pay", "revert"})
  <2>1. op.payments + 1 \in Nat /\ op.paid \union {n} \in SUBSET Names /\ op.paid \ {n} \in SUBSET Names
    BY <1>2, <1>4 DEF OpType, Ops!Is, Ops!OfRow
  <2>2. Ops!Effect(f) \in {op, [op EXCEPT !.paid = op.paid \union {n}, !.payments = op.payments + 1],
                           [op EXCEPT !.paid = op.paid \ {n}, !.payments = op.payments + 1]}
    BY <1>4 DEF Ops!Effect, Ops!Is, Ops!Name, n
  <2> QED BY <2>1, <2>2 DEF OpType
<1>5. CASE ~Ops!Is(f, {"participant", "roster", "exclude", "remove", "pay", "revert"})
  BY <1>5 DEF Ops!Effect, OpType, Ops!Is
<1> QED BY <1>3, <1>4, <1>5 DEF Ops!Is

LEMMA CommitKeeps ==
  ASSUME FormsInv, NEW f \in Forms, Ops!Commit(f) PROVE FormsInv'
<1>1. form[f] \in FormType /\ form[f].at = "committing"
  BY DEF Ops!Commit, Ops!At, FormsInv, FormTypes
<1>2. CASE Ops!Thrown(f) # None
  <2>1. {"boundary", "participant_duplicate", "locked", "delete_has_paid"} \subseteq Answers
    BY DEF Answers, Ops!Unsaved
  <2>2. Ops!Told(f, Ops!Thrown(f)) /\ UNCHANGED <<op, made, done, opened>>
    BY <1>2 DEF Ops!Commit
  <2>3. CASE Ops!Thrown(f) = "duplicate"
    <3>1. Ops!Returned(f, "participant_duplicate")
      BY <2>2, <2>3 DEF Ops!Told
    <3> QED BY <1>1, <2>1, <2>2, <3>1, ToldSo
  <2>4. CASE Ops!Thrown(f) = "locked" /\ form[f].kind = "notes"
    <3>1. Ops!Answered(f, "locked")
      BY <2>2, <2>4 DEF Ops!Told, Ops!Is
    <3>2. form[f].kind \notin Ops!Fields \union Ops!Priced
      BY <2>4 DEF Ops!Fields, Ops!Priced
    <3> QED BY <1>1, <2>1, <2>2, <3>1, <3>2, ToldSo
  <2>5. CASE Ops!Thrown(f) = "has_paid"
    <3>1. Ops!Answered(f, "delete_has_paid")
      BY <2>2, <2>5 DEF Ops!Told
    <3>2. form[f].kind = "delete"
      BY <2>5, ConsoleAssumption DEF Ops!Thrown, Ops!Is
    <3>3. form[f].kind \notin Ops!Fields \union Ops!Priced
      BY <3>2 DEF Ops!Fields, Ops!Priced
    <3> QED BY <1>1, <2>1, <2>2, <3>1, <3>3, ToldSo
  <2>6. CASE /\ Ops!Thrown(f) \notin {"duplicate", "has_paid"}
             /\ ~(Ops!Thrown(f) = "locked" /\ form[f].kind = "notes")
    <3>1. Ops!Answered(f, "boundary")
      BY <2>2, <2>6 DEF Ops!Told, Ops!Is
    <3> QED BY <1>1, <2>1, <2>2, <3>1, ToldSo
  <2> QED BY <2>3, <2>4, <2>5, <2>6
<1>3. CASE Ops!Thrown(f) = None
  <2> DEFINE x == IF Ops!Is(f, Ops!Fields \cup Ops!Priced) THEN "ok" ELSE "shown"
             e == [form[f] EXCEPT !.at = "answered", !.answer = x]
             c == [form |-> f, on |-> op]
  <2>1. /\ form' = [form EXCEPT ![f] = e] /\ done' = Append(done, c)
        /\ op' = Ops!Effect(f) /\ opened' = opened
        /\ made' = IF form[f].kind = "create" THEN made \union {Ops!Whole(f)} ELSE made
    BY <1>3 DEF Ops!Commit, Ops!Answered, Ops!Put, Ops!Committed, Ops!Is
  <2>2. x \in Answers /\ x \in {"ok", "shown"}
    BY DEF Answers
  <2> HIDE DEF x
  <2>3. e \in FormType /\ e.at = "answered" /\ e.answer = x /\ e.kind = form[f].kind
        /\ e.name = form[f].name /\ e.loot = form[f].loot
    <3>1. e \in FormType
      BY <1>1, <2>2, StandsAs
    <3> QED BY <1>1, <3>1 DEF FormType, FormRecord
  <2>4. op \in OpType /\ done \in Seq(Commits) /\ form \in [Forms -> FormType]
    BY DEF FormsInv, FormTypes
  <2>5. c \in Commits
    BY <2>4 DEF Commits
  <2> HIDE DEF e
  <2>6. FormTypes'
    BY <1>1, <1>3, <2>1, <2>3, <2>4, <2>5, EffectType DEF FormTypes
  <2>7. /\ DOMAIN done = 1..Len(done) /\ Len(done) \in Nat /\ DOMAIN done' = 1..Len(done) + 1
        /\ done'[Len(done) + 1] = c /\ \A i \in DOMAIN done : done'[i] = done[i]
    BY <2>1, <2>4, <2>5
  <2>70. \A g \in Forms : Ops!CommitsOf(g)' = IF g = f THEN Ops!CommitsOf(f) \union {Len(done) + 1}
                                               ELSE Ops!CommitsOf(g)
    <3>1. DOMAIN done' = DOMAIN done \union {Len(done) + 1} /\ c.form = f
      BY <2>7
    <3> QED BY <2>7, <3>1 DEF Ops!CommitsOf
  <2>8. ASSUME NEW g \in Forms, g # f PROVE FormOK(g)'
    <3>1. Ops!CommitsOf(g)' = Ops!CommitsOf(g)
      BY <2>8, <2>70
    <3>2. form'[g] = form[g] /\ \A o \in made' : o.form = g => o \in made
      BY <2>1, <2>4, <2>8 DEF Ops!Whole
    <3>3. FormOK(g)
      BY DEF FormsInv
    <3>4. Pending(g) => Pending(g)'
      BY <3>1, <3>2 DEF Pending
    <3>5. Answer(g) => Answer(g)'
      <4>1. Ops!Whole(g)' = Ops!Whole(g) /\ (Ops!Whole(g) \in made => Ops!Whole(g) \in made')
        BY <2>1, <3>2 DEF Ops!Whole, Ops!Name
      <4>2. \A i \in Ops!CommitsOf(g) : i \in DOMAIN done /\ i \in DOMAIN done' /\ done'[i] = done[i]
        BY <2>7 DEF Ops!CommitsOf
      <4>3. DOMAIN done \subseteq DOMAIN done'
        BY <2>7
      <4> QED BY <2>1, <3>1, <3>2, <3>4, <4>1, <4>2, <4>3 DEF Answer
    <3> QED BY <2>1, <3>2, <3>3, <3>4, <3>5 DEF FormOK
  <2>9. Answer(f)'
    <3>1. Pending(f) /\ \A w \in opened : w.by # f
      BY <1>1 DEF FormsInv, FormOK
    <3>2. Ops!CommitsOf(f)' = {Len(done) + 1}
      BY <2>70, <3>1 DEF Pending
    <3>3. form'[f] = e
      BY <2>1, <2>4
    <3>4. form[f].kind \in Ops!Needed => op.state = "draft" /\ op.payments = 0
      <4>1. form[f].kind \in Ops!Needed => form[f].kind # "create"
        BY DEF Ops!Needed, Ops!Fields, Ops!Plain
      <4>2. form[f].kind \in Ops!Needed /\ ~Ops!Editable => Ops!Thrown(f) \in {"forbidden", "not_found", "locked"}
        BY <4>1 DEF Ops!Thrown, Ops!Is
      <4> QED BY <1>3, <4>2, ConsoleAssumption DEF Ops!Editable
    <3>5. e.kind = "create" => Ops!Whole(f)' \in made'
      <4>1. Ops!Whole(f)' = Ops!Whole(f)
        BY <2>3, <3>3 DEF Ops!Whole, Ops!Name
      <4> QED BY <2>1, <2>3, <4>1
    <3>6. x \notin Ops!Unsaved
      BY <2>2, CodesAreNot DEF Ops!Unsaved
    <3>7. (e.kind \in Ops!Fields \union Ops!Priced) = (x = "ok")
      BY <2>3 DEF x, Ops!Is
    <3>8. done'[Len(done) + 1].on = op /\ Len(done) + 1 \in DOMAIN done'
      BY <2>7
    <3>9. \A i \in Ops!CommitsOf(f)' : done'[i].on = op
      BY <3>2, <3>8
    <3> QED BY <3>7, <3>8, <3>9, <2>1, <2>2, <2>3, <2>7, <3>1, <3>2, <3>3, <3>4, <3>5, <3>6 DEF Answer, Ops!Is
  <2>10. FormOK(f)'
    BY <2>1, <2>3, <2>4, <2>9 DEF FormOK
  <2> QED BY <2>6, <2>8, <2>10 DEF FormsInv
<1> QED BY <1>2, <1>3

LEMMA RollbackKeeps == ASSUME FormsInv, NEW f \in Forms, Ops!Rollback(f) PROVE FormsInv'
<1>1. /\ form[f].at \notin {"typed", "answered"} /\ UNCHANGED <<op, made, done, opened>>
      /\ Ops!Answered(f, "boundary")
  BY DEF Ops!Rollback, Ops!At
<1>2. "boundary" \in Answers
  BY DEF Answers, Ops!Unsaved
<1> QED BY <1>1, <1>2, ToldSo

LEMMA OpensKeep ==
  ASSUME FormsInv, NEW f \in Forms,
         Ops!OpenTarget(f) \/ \E code \in Ops!TokenCodes : Ops!OpenToken(f, code)
  PROVE  FormsInv'
<1>1. /\ form[f].at \in {"target", "token"} /\ UNCHANGED <<op, made, done, opened>>
      /\ \/ \E stage \in {"token", "window"} : Ops!Goes(f, stage)
         \/ \E x \in Ops!TokenCodes \union {"open_info_target"} : Ops!Answered(f, x) /\ x # "ok"
  BY DEF Ops!OpenTarget, Ops!OpenToken, Ops!At, Ops!TokenCodes
<1>2. form[f].kind = "openInfo"
  BY <1>1 DEF FormsInv, FormOK
<1>3. "openInfo" \notin Ops!Fields \union Ops!Priced
  BY DEF Ops!Fields, Ops!Priced
<1>4. CASE \E stage \in {"token", "window"} : Ops!Goes(f, stage)
  BY <1>1, <1>2, <1>4, GoesOn
<1>5. CASE \E x \in Ops!TokenCodes \union {"open_info_target"} : Ops!Answered(f, x) /\ x # "ok"
  <2>1. PICK x \in Ops!TokenCodes \union {"open_info_target"} : Ops!Answered(f, x) /\ x # "ok"
    BY <1>5
  <2>2. x \in Answers
    BY DEF Answers
  <2> QED BY <1>1, <1>2, <1>3, <2>1, <2>2, ToldSo
<1> QED BY <1>1, <1>4, <1>5

LEMMA WindowKeeps ==
  ASSUME FormsInv, NEW f \in Forms, NEW opens \in BOOLEAN, NEW code \in Ops!WindowCodes,
         Ops!OpenWindow(f, opens, code)
  PROVE  FormsInv'
<1> DEFINE e == [form[f] EXCEPT !.at = "answered", !.answer = code]
<1>1. /\ form[f].at = "window" /\ Ops!Put(f, e) /\ UNCHANGED <<op, made, done>>
      /\ opened' = IF opens THEN opened \union {[by |-> f, name |-> form[f].name]} ELSE opened
      /\ opens => code \in {"shown", "open_info_timeout"}
  BY DEF Ops!OpenWindow, Ops!Answered, Ops!At, Ops!Name
<1>2. code \in Answers /\ code # "ok"
  BY DEF Answers, Ops!WindowCodes
<1>3. e \in FormType
  BY <1>1, <1>2, StandsAs
<1>4. form[f].kind = "openInfo" /\ Pending(f) /\ \A w \in opened : w.by # f
  BY <1>1 DEF FormsInv, FormOK
<1>5. e.at = "answered" /\ e.answer = code /\ e.kind = "openInfo"
  <2>1. form[f] \in FormType
    BY <1>1, StandsAs
  <2> QED BY <1>4, <2>1 DEF FormType, FormRecord
<1> HIDE DEF e
<1>6. form'[f] = e
  BY <1>1 DEF Ops!Put, FormsInv, FormTypes
<1>7. Ops!CommitsOf(f)' = {} /\ Pending(f)'
  BY <1>1, <1>4 DEF Ops!CommitsOf, Pending
<1>8. "openInfo" \notin Ops!Fields \union Ops!Priced
  BY DEF Ops!Fields, Ops!Priced
<1>9. Answer(f)'
  <2>1. (\E w \in opened' : w.by = f) => code \in {"shown", "open_info_timeout"}
    BY <1>1, <1>4
  <2> QED BY <1>2, <1>5, <1>6, <1>7, <1>8, <2>1 DEF Answer
<1>10. FormOK(f)'
  BY <1>5, <1>6, <1>9 DEF FormOK
<1>11. opened' = opened \/ \E n : opened' = opened \union {[by |-> f, name |-> n]}
  BY <1>1
<1> QED BY <1>1, <1>3, <1>10, <1>11, OneForm

LEMMA FormsStep == ASSUME FormsInv, [Ops!Next]_formVars PROVE FormsInv'
<1>1. ASSUME UNCHANGED <<op, made, opened, done, form>> PROVE FormsInv'
  <2>1. \A f \in Forms : Ops!CommitsOf(f)' = Ops!CommitsOf(f) /\ Ops!Whole(f)' = Ops!Whole(f)
    BY <1>1 DEF Ops!CommitsOf, Ops!Whole, Ops!Name
  <2>2. \A f \in Forms : Pending(f)' = Pending(f)
    BY <1>1, <2>1 DEF Pending
  <2>3. \A f \in Forms : Answer(f)' = Answer(f)
    BY <1>1, <2>1, <2>2 DEF Answer
  <2>4. \A f \in Forms : FormOK(f)' = FormOK(f)
    BY <1>1, <2>2, <2>3 DEF FormOK
  <2> QED BY <1>1, <2>4 DEF FormsInv, FormTypes
<1>2. CASE UNCHANGED formVars
  BY <1>1, <1>2 DEF formVars
<1>3. ASSUME NEW a \in Operators, Ops!OperatorsChange(a) PROVE FormsInv'
  BY <1>1, <1>3 DEF Ops!OperatorsChange
<1>4. ASSUME NEW f \in Forms, NEW a \in Operators, NEW kind \in Ops!Kinds, NEW loot \in BOOLEAN,
             NEW name \in (IF kind \in Ops!OfRow \cup {"roster", "participant"} THEN Names
                           ELSE IF kind = "create" THEN Names \union {None} ELSE {None}),
             NEW problem \in Ops!Problems(kind), Ops!Submit(f, a, kind, name, loot, problem)
      PROVE  FormsInv'
  <2>1. name \in Names \union {None} /\ (kind \in {"roster", "participant"} => name \in Names)
    OBVIOUS
  <2> QED BY <1>4, <2>1, SubmitKeeps
<1>5. CASE Ops!Next
  BY <1>3, <1>4, <1>5, PriceKeeps, CommitKeeps, RollbackKeeps, OpensKeep, WindowKeeps DEF Ops!Next
<1> QED BY <1>2, <1>5

\* What a form is told is what became of it: what was saved was saved once and whole, and
\* nothing was saved, or opened, by one that is told it was not (app/payouts/actions.ts).
THEOREM FormsTellTheTruth == Ops!Spec => []Ops!FormsTellTheTruth
<1> QED BY FormsInit, FormsStep, FormsShow, PTL DEF Ops!Spec, Ops!vars, formVars

-----------------------------------------------------------------------------
(* The admin console. *)

Logged  == {"tier", "status", "note", "discord", "watch"}
Values  == Console!Tiers \union BOOLEAN \union {"active", "cryo"} \union Mains \union Actors \union {Target, None}
AuditRow == [by : Presses \union {None}, field : Logged \union {"main", "admin", "revoked", "sync", "job"},
             from : Values, to : Values]
Told == {"session_expired", "not_admin", "not_found", "not_pending", "not_linked", "no_change",
         "last_admin", "done", None}
PressType == [actor : Actors \union {None}, does : Console!Pressed \union {[op |-> None, to |-> None]},
              at : {"idle", "in", "queueing", "deciding", "answered"},
              read : Console!RowType \union {None}, answer : Told]
ConsoleTypes ==
  /\ shown \in Console!RowType \union {Gone} /\ watched \in BOOLEAN
  /\ admin \in [Actors \union {Target} -> BOOLEAN]
  /\ locked \in Presses \union {None}
  /\ audit \in Seq(AuditRow) /\ press \in [Presses -> PressType]

\* A press that decides has the row it read, and has written nothing before it is answered.
Decides(p) ==
  /\ press[p].at # "idle" => press[p].does \in Console!Pressed
  /\ press[p].at = "queueing" => press[p].does.op \in Console!Rowwise
  /\ press[p].at = "deciding" =>
       /\ press[p].does.op \in Console!Rowwise \union {"discord"}
       /\ locked = p /\ press[p].read = shown /\ shown # Gone
AnsweredTruly(p) ==
  /\ Console!RowsOf(p) # {} => press[p].answer = "done" /\ \E i \in DOMAIN audit : Console!RowsOf(p) = {i}
  /\ press[p].answer = "done" /\ press[p].does.op # "promote" => Console!RowsOf(p) # {}
  /\ press[p].answer = "done" /\ press[p].does.op \in {"status", "note", "discord", "watch", "approve"} =>
       \A i \in Console!RowsOf(p) : audit[i].from # audit[i].to
  /\ press[p].answer = "not_pending" => \E i \in Console!About("tier") : audit[i].from = "pending"
PressOK(p) ==
  /\ Decides(p)
  /\ IF press[p].at = "answered" THEN AnsweredTruly(p) ELSE Console!RowsOf(p) = {}
\* Who is no longer pending was decided to be so.
Approved == shown # Gone /\ shown.tier # "pending" => \E i \in Console!About("tier") : audit[i].from = "pending"

ConsoleInv == ConsoleTypes /\ Console!LogHangsTogether /\ Approved /\ \A p \in Presses : PressOK(p)

LEMMA ConsoleShows == ASSUME ConsoleInv PROVE Console!AnswersAreTrue
<1>1. ASSUME NEW p \in Presses, press[p].at = "answered" PROVE AnsweredTruly(p)
  BY <1>1 DEF ConsoleInv, PressOK
<1> QED BY <1>1 DEF ConsoleInv, Console!AnswersAreTrue, AnsweredTruly, Console!At, Console!Told, Console!Does

LEMMA ConsoleInit == ASSUME Console!Init PROVE ConsoleInv
<1>1. /\ audit = << >> /\ shown.tier = "pending" /\ locked = None /\ watched = FALSE
      /\ press = [p \in Presses |-> Console!Idle]
      /\ admin = [a \in Actors \union {Target} |-> a \in Actors]
      /\ shown = [tier |-> "pending", pinned |-> FALSE, status |-> "active", note |-> FALSE, discord |-> FALSE]
  BY DEF Console!Init
<1>2. shown \in Console!RowType
  BY <1>1 DEF Console!RowType, Console!Tiers
<1>3. Console!Idle \in PressType /\ Console!Idle.at = "idle"
  BY DEF Console!Idle, PressType, Told
<1>4. ConsoleTypes
  <2>1. press \in [Presses -> PressType]
    BY <1>1, <1>3
  <2>2. admin \in [Actors \union {Target} -> BOOLEAN] /\ audit \in Seq(AuditRow)
    BY <1>1
  <2> QED BY <1>1, <1>2, <2>1, <2>2 DEF ConsoleTypes
<1>5. \A f : Console!About(f) = {}
  BY <1>1 DEF Console!About
<1>6. \A p \in Presses : PressOK(p)
  BY <1>1, <1>3 DEF PressOK, Decides, Console!RowsOf
<1>7. Console!LogHangsTogether
  BY <1>5 DEF Console!LogHangsTogether
<1> QED BY <1>1, <1>4, <1>6, <1>7 DEF ConsoleInv, Approved

\* What a row that is appended changes.
LEMMA Appended ==
  ASSUME audit \in Seq(AuditRow), NEW r \in AuditRow, audit' = Append(audit, r)
  PROVE  /\ audit' \in Seq(AuditRow) /\ Len(audit) + 1 \notin DOMAIN audit
         /\ Len(audit) \in Nat /\ DOMAIN audit = 1..Len(audit)
         /\ DOMAIN audit' = DOMAIN audit \union {Len(audit) + 1}
         /\ audit'[Len(audit) + 1] = r /\ \A i \in DOMAIN audit : audit'[i] = audit[i]
         /\ \A p : Console!RowsOf(p)' = Console!RowsOf(p) \union (IF r.by = p THEN {Len(audit) + 1} ELSE {})
         /\ \A f : Console!About(f)' = Console!About(f) \union (IF r.field = f THEN {Len(audit) + 1} ELSE {})
<1>1. /\ audit' \in Seq(AuditRow) /\ Len(audit) + 1 \notin DOMAIN audit
      /\ Len(audit) \in Nat /\ DOMAIN audit = 1..Len(audit)
      /\ DOMAIN audit' = 1..Len(audit) + 1
      /\ audit'[Len(audit) + 1] = r /\ \A i \in DOMAIN audit : audit'[i] = audit[i]
  OBVIOUS
<1>2. DOMAIN audit' = DOMAIN audit \union {Len(audit) + 1}
  BY <1>1
<1> HIDE <1>1
<1>3. ASSUME NEW p PROVE Console!RowsOf(p)' = Console!RowsOf(p) \union (IF r.by = p THEN {Len(audit) + 1} ELSE {})
  BY <1>1, <1>2 DEF Console!RowsOf
<1>4. ASSUME NEW f PROVE Console!About(f)' = Console!About(f) \union (IF r.field = f THEN {Len(audit) + 1} ELSE {})
  BY <1>1, <1>2 DEF Console!About
<1> QED BY <1>1, <1>2, <1>3, <1>4

\* A row that says how a field changed keeps the story together.
LEMMA LogContinues ==
  ASSUME audit \in Seq(AuditRow), Console!LogHangsTogether, NEW r \in AuditRow, audit' = Append(audit, r),
         r.field \in Logged => /\ r.field = "watch" \/ shown # Gone
                               /\ r.from = Console!Stands(r.field) /\ r.to = Console!Stands(r.field)',
         \A g \in Logged \ {r.field} : shown' # Gone \/ g = "watch" =>
            (shown # Gone \/ g = "watch") /\ Console!Stands(g)' = Console!Stands(g)
  PROVE  Console!LogHangsTogether'
<1> DEFINE n == Len(audit) + 1
<1>1. /\ n \notin DOMAIN audit /\ DOMAIN audit = 1..Len(audit) /\ Len(audit) \in Nat
      /\ audit'[n] = r /\ \A i \in DOMAIN audit : audit'[i] = audit[i]
      /\ \A f : Console!About(f)' = Console!About(f) \union (IF r.field = f THEN {n} ELSE {})
      /\ \A f : Console!About(f) \subseteq DOMAIN audit
  BY Appended DEF Console!About
<1>2. \A i \in DOMAIN audit : i < n /\ i \in Nat
  BY <1>1
<1> HIDE DEF n
<1>3. ASSUME NEW g \in Logged
      PROVE  /\ \A i, j \in Console!About(g)' :
                  i < j /\ (\A k \in Console!About(g)' : k <= i \/ j <= k) => audit'[i].to = audit'[j].from
             /\ shown' # Gone \/ g = "watch" =>
                  \A i \in Console!About(g)' : (\A k \in Console!About(g)' : k <= i) => audit'[i].to = Console!Stands(g)'
  <2>1. /\ \A i, j \in Console!About(g) :
             i < j /\ (\A k \in Console!About(g) : k <= i \/ j <= k) => audit[i].to = audit[j].from
        /\ shown # Gone \/ g = "watch" =>
             \A i \in Console!About(g) : (\A k \in Console!About(g) : k <= i) => audit[i].to = Console!Stands(g)
    BY DEF Console!LogHangsTogether, Logged
  <2>2. CASE g # r.field
    BY <1>1, <2>1, <2>2
  <2>3. CASE g = r.field
    <3>1. Console!About(g)' = Console!About(g) \union {n} /\ Console!About(g) \subseteq DOMAIN audit
      BY <1>1, <2>3
    <3>2. ASSUME NEW i \in Console!About(g)', NEW j \in Console!About(g)', i < j,
                 \A k \in Console!About(g)' : k <= i \/ j <= k
          PROVE  audit'[i].to = audit'[j].from
      <4>1. n \in Nat
        BY <1>1 DEF n
      <4>2. i \in Console!About(g)
        BY <1>2, <3>1, <3>2, <4>1
      <4>3. CASE j \in Console!About(g)
        BY <1>1, <2>1, <3>1, <3>2, <4>2, <4>3
      <4>4. CASE j = n
        <5>1. \A k \in Console!About(g) : k <= i
          BY <1>2, <3>1, <3>2, <4>1, <4>4
        <5> QED BY <1>1, <2>1, <2>3, <3>1, <4>2, <4>4, <5>1
      <4> QED BY <3>1, <4>3, <4>4
    <3>3. ASSUME NEW i \in Console!About(g)', \A k \in Console!About(g)' : k <= i
          PROVE  i = n
      <4>1. n \in Nat /\ n <= i
        BY <1>1, <3>1, <3>3 DEF n
      <4>2. i \notin DOMAIN audit
        BY <1>2, <4>1
      <4> QED BY <3>1, <4>2
    <3>4. audit'[n].to = Console!Stands(g)'
      BY <1>1, <2>3
    <3> QED BY <3>2, <3>3, <3>4
  <2> QED BY <2>2, <2>3
<1> QED BY <1>3 DEF Console!LogHangsTogether, Logged

LEMMA LogStays ==
  ASSUME Console!LogHangsTogether, audit' = audit, watched' = watched, shown' \in {shown, Gone}
  PROVE  Console!LogHangsTogether'
<1>1. \A f : Console!About(f)' = Console!About(f)
  BY DEF Console!About
<1>2. \A f \in Logged : shown' # Gone \/ f = "watch" =>
        (shown # Gone \/ f = "watch") /\ Console!Stands(f)' = Console!Stands(f)
  BY DEF Console!Stands, Logged
<1> QED BY <1>1, <1>2 DEF Console!LogHangsTogether, Logged

\* What was told stays true while the log grows by what is not its own.
LEMMA TruthStays ==
  ASSUME audit \in Seq(AuditRow), NEW p \in Presses, PressOK(p), press'[p] = press[p],
         audit' = audit \/ \E r \in AuditRow : r.by # p /\ audit' = Append(audit, r),
         UNCHANGED <<locked, shown>> \/ locked # p
  PROVE  PressOK(p)'
<1>1. /\ Console!RowsOf(p)' = Console!RowsOf(p)
      /\ Console!About("tier") \subseteq Console!About("tier")'
      /\ DOMAIN audit \subseteq DOMAIN audit' /\ \A i \in DOMAIN audit : audit'[i] = audit[i]
  <2>1. CASE audit' = audit
    BY <2>1 DEF Console!RowsOf, Console!About
  <2>2. ASSUME NEW r \in AuditRow, r.by # p, audit' = Append(audit, r)
        PROVE  /\ Console!RowsOf(p)' = Console!RowsOf(p)
               /\ Console!About("tier") \subseteq Console!About("tier")'
               /\ DOMAIN audit \subseteq DOMAIN audit' /\ \A i \in DOMAIN audit : audit'[i] = audit[i]
    <3>1. /\ DOMAIN audit' = DOMAIN audit \union {Len(audit) + 1} /\ \A i \in DOMAIN audit : audit'[i] = audit[i]
          /\ Console!RowsOf(p)' = Console!RowsOf(p) \union (IF r.by = p THEN {Len(audit) + 1} ELSE {})
          /\ Console!About("tier")' = Console!About("tier") \union (IF r.field = "tier" THEN {Len(audit) + 1} ELSE {})
      BY <2>2, Appended
    <3> QED BY <2>2, <3>1
  <2> QED BY <2>1, <2>2
<1>2. Console!RowsOf(p) \subseteq DOMAIN audit /\ Console!About("tier") \subseteq DOMAIN audit
  BY DEF Console!RowsOf, Console!About
<1>3. AnsweredTruly(p) => AnsweredTruly(p)'
  BY <1>1, <1>2 DEF AnsweredTruly
<1>4. Decides(p)'
  BY DEF Decides, PressOK
<1> QED BY <1>1, <1>3, <1>4 DEF PressOK

\* The others' moves, each under no lock of a press and logged under no press.
LEMMA WorldKeeps ==
  ASSUME ConsoleInv,
         \/ \E t \in Console!Tiers \ {"pending"} : Console!JobDecides(t)
         \/ Console!MemberLinks \/ Console!MergedAway
         \/ \E c \in Mains : Console!MemberUnlinks(c)
         \/ \E a \in Actors : Console!SignsOut(a)
  PROVE  ConsoleInv'
<1>1. press' = press /\ locked' = locked /\ watched' = watched /\ admin' = admin
  BY DEF Console!JobDecides, Console!MemberLinks, Console!MergedAway, Console!MemberUnlinks, Console!SignsOut
<1>2. audit \in Seq(AuditRow)
  BY DEF ConsoleInv, ConsoleTypes
<1>3. ASSUME shown' \in {shown, Gone}, shown' = shown \/ locked = None, audit' = audit PROVE ConsoleInv'
  <2>1. ASSUME NEW p \in Presses PROVE PressOK(p)'
    BY <1>1, <1>2, <1>3, <2>1, TruthStays, ConsoleAssumption DEF ConsoleInv
  <2>2. Console!About("tier")' = Console!About("tier")
    BY <1>3 DEF Console!About
  <2>3. Approved'
    BY <1>3, <2>2 DEF Approved, ConsoleInv
  <2>4. Console!LogHangsTogether'
    BY <1>1, <1>3, LogStays DEF ConsoleInv
  <2> QED BY <1>1, <1>3, <2>1, <2>3, <2>4 DEF ConsoleInv, ConsoleTypes
<1>4. ASSUME NEW r \in AuditRow, audit' = Append(audit, r), r.by = None, locked = None, shown # Gone,
             r.field \in {"tier", "discord"}, shown' \in Console!RowType,
             r.from = shown[r.field], r.to = shown'[r.field],
             \A g \in Logged \ {"watch", r.field} : shown'[g] = shown[g],
             r.field # "tier" => shown'.tier = shown.tier
      PROVE  ConsoleInv'
  <2>1. ASSUME NEW p \in Presses PROVE PressOK(p)'
    BY <1>1, <1>2, <1>4, <2>1, TruthStays, ConsoleAssumption DEF ConsoleInv
  <2>2. Approved'
    <3>1. /\ Console!About("tier") \subseteq Console!About("tier")'
          /\ r.field = "tier" => Len(audit) + 1 \in Console!About("tier")' /\ audit'[Len(audit) + 1] = r
          /\ \A i \in Console!About("tier") : audit'[i] = audit[i]
      BY <1>2, <1>4, Appended DEF Console!About
    <3>2. CASE shown.tier = "pending"
      BY <1>4, <3>1, <3>2 DEF Approved
    <3>3. CASE shown.tier # "pending"
      BY <1>4, <3>1, <3>3 DEF Approved, ConsoleInv
    <3> QED BY <3>2, <3>3
  <2>3. Console!LogHangsTogether'
    <3>1. /\ Console!Stands(r.field) = shown[r.field] /\ Console!Stands(r.field)' = shown'[r.field]
          /\ \A g \in Logged \ {r.field} : Console!Stands(g)' = Console!Stands(g)
      BY <1>1, <1>4 DEF Console!Stands, Logged
    <3> QED BY <1>2, <1>4, <3>1, LogContinues DEF ConsoleInv
  <2>4. audit' \in Seq(AuditRow)
    BY <1>2, <1>4
  <2> QED BY <1>1, <1>4, <2>1, <2>2, <2>3, <2>4 DEF ConsoleInv, ConsoleTypes
<1>5. ASSUME NEW t \in Console!Tiers \ {"pending"}, Console!JobDecides(t) PROVE ConsoleInv'
  <2> DEFINE r == [by |-> None, field |-> "tier", from |-> shown.tier, to |-> t]
  <2>1. /\ audit' = Append(audit, r) /\ locked = None /\ shown # Gone
        /\ shown' = [shown EXCEPT !.tier = t]
    BY <1>5 DEF Console!JobDecides, Console!Quiet, Console!Free, Console!Log
  <2>2. shown \in Console!RowType
    BY <2>1 DEF ConsoleInv, ConsoleTypes
  <2>3. r \in AuditRow
    BY <2>2 DEF AuditRow, Values, Logged, Console!RowType
  <2>4. /\ shown' \in Console!RowType /\ shown'["tier"] = t /\ shown["tier"] = shown.tier
        /\ \A g \in Logged \ {"watch", "tier"} : shown'[g] = shown[g]
    BY <2>1, <2>2 DEF Console!RowType, Logged
  <2>5. r.by = None /\ r.field = "tier" /\ r.from = shown.tier /\ r.to = t
    OBVIOUS
  <2> HIDE DEF r
  <2> QED BY <1>4, <2>1, <2>3, <2>4, <2>5
<1>6. CASE Console!MemberLinks
  <2> DEFINE r == [by |-> None, field |-> "discord", from |-> FALSE, to |-> TRUE]
  <2>1. /\ audit' = Append(audit, r) /\ locked = None /\ shown # Gone /\ ~shown.discord
        /\ shown' = [shown EXCEPT !.discord = TRUE]
    BY <1>6 DEF Console!MemberLinks, Console!Quiet, Console!Free, Console!Log
  <2>2. shown \in Console!RowType
    BY <2>1 DEF ConsoleInv, ConsoleTypes
  <2>3. r \in AuditRow
    BY DEF AuditRow, Values, Logged
  <2>4. /\ shown' \in Console!RowType /\ shown'["discord"] = TRUE /\ shown["discord"] = FALSE
        /\ shown'.tier = shown.tier
        /\ \A g \in Logged \ {"watch", "discord"} : shown'[g] = shown[g]
    BY <2>1, <2>2 DEF Console!RowType, Logged
  <2>5. r.by = None /\ r.field = "discord" /\ r.from = FALSE /\ r.to = TRUE
    OBVIOUS
  <2> HIDE DEF r
  <2> QED BY <1>4, <2>1, <2>3, <2>4, <2>5
<1>7. CASE Console!MergedAway
  BY <1>3, <1>7 DEF Console!MergedAway, Console!Free
<1>8. ASSUME NEW c \in Mains, Console!MemberUnlinks(c) PROVE ConsoleInv'
  BY <1>3, <1>8 DEF Console!MemberUnlinks
<1>9. ASSUME NEW a \in Actors, Console!SignsOut(a) PROVE ConsoleInv'
  BY <1>3, <1>9 DEF Console!SignsOut
<1> QED BY <1>5, <1>6, <1>7, <1>8, <1>9

LEMMA OnePress ==
  ASSUME ConsoleInv, NEW p \in Presses, NEW e \in PressType, Console!Put(p, e),
         audit' = audit \/ \E r \in AuditRow : r.by = p /\ audit' = Append(audit, r),
         UNCHANGED <<locked, shown>> \/ locked \in {None, p},
         shown' \in Console!RowType \union {Gone}, watched' \in BOOLEAN,
         admin' \in [Actors \union {Target} -> BOOLEAN], locked' \in Presses \union {None},
         Console!LogHangsTogether', Approved', PressOK(p)'
  PROVE  ConsoleInv'
<1>1. audit \in Seq(AuditRow) /\ press \in [Presses -> PressType]
  BY DEF ConsoleInv, ConsoleTypes
<1>2. ASSUME NEW q \in Presses, q # p PROVE PressOK(q)'
  <2>1. press'[q] = press[q]
    BY <1>1, <1>2 DEF Console!Put
  <2>2. UNCHANGED <<locked, shown>> \/ locked # q
    BY <1>2, ConsoleAssumption
  <2> QED BY <1>1, <1>2, <2>1, <2>2, TruthStays DEF ConsoleInv
<1>3. press' \in [Presses -> PressType] /\ audit' \in Seq(AuditRow)
  BY <1>1 DEF Console!Put
<1> QED BY <1>2, <1>3 DEF ConsoleInv, ConsoleTypes

\* A press that writes nothing: it goes on, or is told so.
LEMMA NothingWritten ==
  ASSUME ConsoleInv, NEW p \in Presses, NEW e \in PressType, Console!Put(p, e),
         press[p].at # "answered", UNCHANGED <<shown, watched, admin, audit>>,
         locked' \in Presses \union {None}, locked' = locked \/ locked \in {None, p}, Decides(p)',
         e.at = "answered" => /\ e.answer = "done" => e.does.op = "promote"
                              /\ e.answer = "not_pending" => \E i \in Console!About("tier") : audit[i].from = "pending"
  PROVE  ConsoleInv'
<1>1. press'[p] = e
  BY DEF Console!Put, ConsoleInv, ConsoleTypes
<1>2. Console!RowsOf(p)' = Console!RowsOf(p) /\ Console!About("tier")' = Console!About("tier")
  BY DEF Console!RowsOf, Console!About
<1>3. Console!RowsOf(p) = {}
  BY DEF ConsoleInv, PressOK
<1>4. PressOK(p)'
  BY <1>1, <1>2, <1>3 DEF PressOK, AnsweredTruly
<1>5. Approved'
  BY <1>2 DEF Approved, ConsoleInv
<1>6. Console!LogHangsTogether'
  BY LogStays DEF ConsoleInv
<1>7. /\ shown' \in Console!RowType \union {Gone} /\ watched' \in BOOLEAN
      /\ admin' \in [Actors \union {Target} -> BOOLEAN]
  BY DEF ConsoleInv, ConsoleTypes
<1>8. UNCHANGED <<locked, shown>> \/ locked \in {None, p}
  OBVIOUS
<1> QED BY <1>4, <1>5, <1>6, <1>7, <1>8, OnePress

\* A press that did what it is told, and logged it.
LEMMA Written ==
  ASSUME ConsoleInv, NEW p \in Presses, NEW e \in PressType, Console!Put(p, e),
         press[p].at # "answered", e.at = "answered", e.answer = "done", e.does \in Console!Pressed,
         NEW r \in AuditRow, r.by = p, audit' = Append(audit, r),
         e.does.op \in {"status", "note", "discord", "watch", "approve"} => r.from # r.to,
         UNCHANGED <<locked, shown>> \/ locked \in {None, p},
         shown' \in Console!RowType \union {Gone}, watched' \in BOOLEAN,
         admin' \in [Actors \union {Target} -> BOOLEAN], locked' \in Presses \union {None},
         r.field \in Logged => /\ r.field = "watch" \/ shown # Gone
                               /\ r.from = Console!Stands(r.field) /\ r.to = Console!Stands(r.field)',
         \A g \in Logged \ {r.field} : shown' # Gone \/ g = "watch" =>
            (shown # Gone \/ g = "watch") /\ Console!Stands(g)' = Console!Stands(g)
  PROVE  ConsoleInv'
<1> DEFINE n == Len(audit) + 1
<1>1. press'[p] = e /\ audit \in Seq(AuditRow)
  BY DEF Console!Put, ConsoleInv, ConsoleTypes
<1>2. Console!RowsOf(p) = {}
  BY DEF ConsoleInv, PressOK
<1>3. /\ Console!RowsOf(p)' = {n} /\ audit'[n] = r /\ n \in DOMAIN audit'
      /\ Console!About("tier") \subseteq Console!About("tier")'
      /\ r.field = "tier" => n \in Console!About("tier")'
      /\ \A i \in Console!About("tier") : audit'[i] = audit[i]
  <2>1. Console!About("tier") \subseteq DOMAIN audit
    BY DEF Console!About
  <2>2. Console!RowsOf(p)' = Console!RowsOf(p) \union {n}
    BY <1>1, Appended
  <2>3. Console!About("tier")' = Console!About("tier") \union (IF r.field = "tier" THEN {n} ELSE {})
    BY <1>1, Appended
  <2>4. n \in DOMAIN audit' /\ audit'[n] = r /\ \A i \in DOMAIN audit : audit'[i] = audit[i]
    BY <1>1, Appended
  <2> HIDE DEF n
  <2> QED BY <1>2, <2>1, <2>2, <2>3, <2>4
<1> HIDE DEF n
<1>4. PressOK(p)'
  <2>1. AnsweredTruly(p)'
    BY <1>1, <1>3 DEF AnsweredTruly
  <2> QED BY <1>1, <2>1 DEF PressOK, Decides
<1>5. Console!LogHangsTogether'
  BY <1>1, LogContinues DEF ConsoleInv
<1>6. Approved'
  <2>1. CASE shown' = Gone
    BY <2>1 DEF Approved
  <2>2. CASE shown' # Gone /\ r.field = "tier"
    <3>1. shown # Gone /\ r.from = shown.tier
      BY <2>2 DEF Logged, Console!Stands
    <3>2. CASE shown.tier = "pending"
      BY <1>3, <2>2, <3>1, <3>2 DEF Approved
    <3>3. CASE shown.tier # "pending"
      BY <1>3, <3>1, <3>3 DEF Approved, ConsoleInv
    <3> QED BY <3>2, <3>3
  <2>3. CASE shown' # Gone /\ r.field # "tier"
    <3>1. shown # Gone /\ shown'["tier"] = shown["tier"]
      BY <2>3 DEF Logged, Console!Stands
    <3> QED BY <1>3, <3>1 DEF Approved, ConsoleInv
  <2> QED BY <2>1, <2>2, <2>3
<1> QED BY <1>4, <1>5, <1>6, OnePress

\* What a press is when it is answered.
LEMMA AnswerType ==
  ASSUME ConsoleInv, NEW p \in Presses, NEW x \in Told
  PROVE  LET e == [press[p] EXCEPT !.at = "answered", !.answer = x, !.read = None] IN
         e \in PressType /\ e.at = "answered" /\ e.answer = x /\ e.does = press[p].does
<1>1. press[p] \in PressType
  BY DEF ConsoleInv, ConsoleTypes
<1> QED BY <1>1 DEF PressType

LEMMA Refused ==
  ASSUME ConsoleInv, NEW p \in Presses, NEW x \in Told \ {"done"}, Console!Answered(p, x),
         press[p].at \notin {"idle", "answered"}, UNCHANGED <<shown, watched, admin, audit>>,
         locked' \in Presses \union {None}, locked' = locked \/ locked \in {None, p},
         x = "not_pending" => \E i \in Console!About("tier") : audit[i].from = "pending"
  PROVE  ConsoleInv'
<1> DEFINE e == [press[p] EXCEPT !.at = "answered", !.answer = x, !.read = None]
<1>1. e \in PressType /\ e.at = "answered" /\ e.answer = x /\ e.does = press[p].does
  BY AnswerType
<1>2. Console!Put(p, e)
  BY DEF Console!Answered
<1> HIDE DEF e
<1>3. press'[p] = e /\ press[p].does \in Console!Pressed
  BY <1>2 DEF Console!Put, ConsoleInv, ConsoleTypes, PressOK, Decides
<1>4. Decides(p)'
  BY <1>1, <1>3 DEF Decides
<1> QED BY <1>1, <1>2, <1>4, NothingWritten

LEMMA PressKeeps ==
  ASSUME ConsoleInv, NEW p \in Presses, NEW a \in Actors, NEW does \in Console!Pressed, Console!Press(p, a, does)
  PROVE  ConsoleInv'
<1> DEFINE stage == IF a \in session /\ admin[a] THEN "in" ELSE "answered"
           told == IF a \notin session THEN "session_expired" ELSE IF ~admin[a] THEN "not_admin" ELSE None
           e == [Console!Idle EXCEPT !.actor = a, !.does = does, !.at = stage, !.answer = told]
<1>1. /\ Console!Put(p, e) /\ press[p].at = "idle"
      /\ UNCHANGED <<shown, watched, admin, audit, locked>>
  BY DEF Console!Press, Console!At
<1>2. stage \in {"in", "answered"} /\ told \in {"session_expired", "not_admin", None}
  OBVIOUS
<1>3. stage = "answered" => told \in {"session_expired", "not_admin"}
  OBVIOUS
<1> HIDE DEF stage, told
<1>4. Console!Idle \in PressType
  BY DEF Console!Idle, PressType, Told
<1>5. e \in PressType /\ e.at = stage /\ e.answer = told /\ e.does = does
  BY <1>2, <1>4 DEF PressType, Told
<1> HIDE DEF e
<1>6. press'[p] = e
  BY <1>1 DEF Console!Put, ConsoleInv, ConsoleTypes
<1>7. Decides(p)'
  BY <1>2, <1>5, <1>6 DEF Decides
<1>8. locked' \in Presses \union {None}
  BY <1>1 DEF ConsoleInv, ConsoleTypes
<1> QED BY <1>1, <1>3, <1>5, <1>7, <1>8, NothingWritten

LEMMA AuthorizeKeeps == ASSUME ConsoleInv, NEW p \in Presses, Console!Authorize(p) PROVE ConsoleInv'
<1> DEFINE e == [press[p] EXCEPT !.at = "queueing"]
<1>1. /\ press[p].at = "in" /\ press[p].does.op \in Console!Rowwise
      /\ UNCHANGED <<shown, watched, admin, audit, locked>>
      /\ Console!Put(p, e) \/ Console!Answered(p, "not_admin")
  BY DEF Console!Authorize, Console!At, Console!Does, Console!Goes
<1>2. locked' \in Presses \union {None}
  BY <1>1 DEF ConsoleInv, ConsoleTypes
<1>3. "not_admin" \in Told \ {"done"}
  BY DEF Told
<1>4. CASE Console!Answered(p, "not_admin")
  BY <1>1, <1>2, <1>3, <1>4, Refused
<1>5. CASE Console!Put(p, e)
  <2>1. press[p] \in PressType
    BY DEF ConsoleInv, ConsoleTypes
  <2>2. e \in PressType /\ e.at = "queueing" /\ e.does = press[p].does
    BY <2>1 DEF PressType
  <2> HIDE DEF e
  <2>3. press'[p] = e /\ press[p].does \in Console!Pressed
    BY <1>1, <1>5 DEF Console!Put, ConsoleInv, ConsoleTypes, PressOK, Decides
  <2>4. Decides(p)'
    BY <1>1, <2>2, <2>3 DEF Decides
  <2> QED BY <1>1, <1>2, <1>5, <2>2, <2>4, NothingWritten
<1> QED BY <1>1, <1>4, <1>5

LEMMA EnterKeeps == ASSUME ConsoleInv, NEW p \in Presses, Console!Enter(p) PROVE ConsoleInv'
<1> DEFINE e == [press[p] EXCEPT !.at = "deciding", !.read = shown]
<1>1. /\ press[p].at \in {"queueing", "in"} /\ (press[p].at = "in" => press[p].does.op = "discord")
      /\ UNCHANGED <<shown, watched, admin, audit>> /\ locked = None
      /\ \/ shown # Gone /\ locked' = p /\ Console!Put(p, e)
         \/ locked' = locked /\ Console!Answered(p, "not_found")
  BY DEF Console!Enter, Console!At, Console!Does, Console!Found, Console!LockTarget, Console!Free
<1>2. locked' \in Presses \union {None}
  BY <1>1
<1>3. "not_found" \in Told \ {"done"}
  BY DEF Told
<1>4. CASE locked' = locked /\ Console!Answered(p, "not_found")
  BY <1>1, <1>2, <1>3, <1>4, Refused
<1>5. CASE shown # Gone /\ locked' = p /\ Console!Put(p, e)
  <2>1. press[p] \in PressType /\ shown \in Console!RowType
    BY <1>5 DEF ConsoleInv, ConsoleTypes
  <2>2. e \in PressType /\ e.at = "deciding" /\ e.does = press[p].does /\ e.read = shown
    BY <2>1 DEF PressType
  <2> HIDE DEF e
  <2>3. press'[p] = e
    BY <1>5 DEF Console!Put, ConsoleInv, ConsoleTypes
  <2>4. press[p].does \in Console!Pressed /\ press[p].does.op \in Console!Rowwise \union {"discord"}
    BY <1>1 DEF ConsoleInv, PressOK, Decides
  <2>5. Decides(p)'
    BY <1>1, <1>5, <2>2, <2>3, <2>4 DEF Decides
  <2> QED BY <1>1, <1>2, <1>5, <2>2, <2>5, NothingWritten
<1> QED BY <1>1, <1>4, <1>5

\* What can be pressed, control by control.
LEMMA Controls ==
  ASSUME NEW d \in Console!Pressed
  PROVE  /\ d.op \in {"tier", "approve"} => d.to \in Console!Tiers \ {"pending"}
         /\ d.op = "status" => d.to \in {"active", "cryo"}
         /\ d.op \in {"note", "watch"} => d.to \in BOOLEAN
         /\ d.op = "main" => d.to \in Mains
         /\ d.op = "demote" => d.to \in Actors \union {Target}
BY DEF Console!Pressed, Console!Tiers

\* What the transaction of a press makes of the row it has locked, and logs.
LEMMA Decision ==
  ASSUME ConsoleInv, NEW p \in Presses, press[p].at = "deciding", Console!Refusal(p) = None,
         press[p].does.op # "main"
  PROVE  LET f == Console!Field(p) IN
         /\ Console!Decided(p) \in Console!RowType /\ f \in {"tier", "status", "note", "discord"}
         /\ shown[f] \in Values /\ Console!Decided(p)[f] \in Values
         /\ \A g \in Logged \ {"watch", f} : Console!Decided(p)[g] = shown[g]
         /\ press[p].does.op \in {"status", "note", "discord", "watch", "approve"} => shown[f] # Console!Decided(p)[f]
<1> DEFINE d == press[p].does
<1>1. /\ d \in Console!Pressed /\ d.op \in Console!Rowwise \union {"discord"}
      /\ press[p].read = shown /\ shown \in Console!RowType
  BY DEF ConsoleInv, ConsoleTypes, PressOK, Decides
<1>2. CASE d.op = "tier"
  <2>1. /\ Console!Decided(p) = [shown EXCEPT !.tier = d.to, !.pinned = TRUE] /\ Console!Field(p) = "tier"
        /\ d.to \in Console!Tiers
    BY <1>1, <1>2, Controls DEF Console!Decided, Console!Does, Console!Value, Console!Field
  <2> QED BY <1>1, <1>2, <2>1 DEF Console!RowType, Values, Logged
<1>3. CASE d.op = "approve"
  <2>1. /\ Console!Decided(p) = [shown EXCEPT !.tier = d.to, !.pinned = d.to = "associate"]
        /\ Console!Field(p) = "tier" /\ d.to \in Console!Tiers \ {"pending"}
    BY <1>1, <1>3, Controls DEF Console!Decided, Console!Does, Console!Value, Console!Field
  <2>2. shown.tier = "pending"
    BY <1>1, <1>3, ConsoleAssumption DEF Console!Refusal, Console!Does
  <2> QED BY <1>1, <1>3, <2>1, <2>2 DEF Console!RowType, Values, Logged
<1>4. CASE d.op = "auto"
  <2>1. Console!Decided(p) = [shown EXCEPT !.pinned = FALSE] /\ Console!Field(p) = "tier"
    BY <1>1, <1>4 DEF Console!Decided, Console!Does, Console!Field
  <2> QED BY <1>1, <1>4, <2>1 DEF Console!RowType, Values, Logged
<1>5. CASE d.op = "status"
  <2>1. /\ Console!Decided(p) = [shown EXCEPT !.status = d.to] /\ Console!Field(p) = "status"
        /\ d.to \in {"active", "cryo"}
    BY <1>1, <1>5, Controls DEF Console!Decided, Console!Does, Console!Value, Console!Field
  <2>2. Console!Decided(p) # shown
    BY <1>1, <1>5, ConsoleAssumption DEF Console!Refusal, Console!Does, Console!Rowwise
  <2>3. d.to # shown.status
    BY <1>1, <2>1, <2>2 DEF Console!RowType
  <2> QED BY <1>1, <1>5, <2>1, <2>3 DEF Console!RowType, Values, Logged
<1>6. CASE d.op = "note"
  <2>1. /\ Console!Decided(p) = [shown EXCEPT !.note = d.to] /\ Console!Field(p) = "note" /\ d.to \in BOOLEAN
    BY <1>1, <1>6, Controls DEF Console!Decided, Console!Does, Console!Value, Console!Field
  <2>2. Console!Decided(p) # shown
    BY <1>1, <1>6, ConsoleAssumption DEF Console!Refusal, Console!Does, Console!Rowwise
  <2>3. d.to # shown.note
    BY <1>1, <2>1, <2>2 DEF Console!RowType
  <2> QED BY <1>1, <1>6, <2>1, <2>3 DEF Console!RowType, Values, Logged
<1>7. CASE d.op = "discord"
  <2>1. Console!Decided(p) = [shown EXCEPT !.discord = FALSE] /\ Console!Field(p) = "discord"
    BY <1>1, <1>7 DEF Console!Decided, Console!Does, Console!Field
  <2>2. shown.discord
    BY <1>1, <1>7, ConsoleAssumption DEF Console!Refusal, Console!Does
  <2> QED BY <1>1, <1>7, <2>1, <2>2 DEF Console!RowType, Values, Logged
<1> QED BY <1>1, <1>2, <1>3, <1>4, <1>5, <1>6, <1>7 DEF Console!Rowwise

LEMMA CommitPressKeeps == ASSUME ConsoleInv, NEW p \in Presses, Console!Commit(p) PROVE ConsoleInv'
<1> DEFINE x == Console!Refusal(p)
           f == Console!Field(p)
           e == [press[p] EXCEPT !.at = "answered", !.answer = "done", !.read = None]
<1>1. /\ press[p].at = "deciding" /\ UNCHANGED <<watched, admin>>
      /\ locked' = IF locked = p THEN None ELSE locked
  BY DEF Console!Commit, Console!At
<1>2. /\ locked = p /\ press[p].read = shown /\ shown \in Console!RowType /\ shown # Gone
      /\ press[p].does \in Console!Pressed
  BY <1>1, ConsoleAssumption DEF ConsoleInv, ConsoleTypes, PressOK, Decides
<1>3. CASE x # None
  <2>1. Console!Answered(p, x) /\ UNCHANGED <<shown, audit>>
    BY <1>3 DEF Console!Commit
  <2>2. x \in {"not_pending", "not_linked", "no_change"} /\ (x = "not_pending" => shown.tier # "pending")
    BY <1>2, <1>3 DEF Console!Refusal
  <2>3. x \in Told \ {"done"}
    BY <2>2 DEF Told
  <2>4. x = "not_pending" => \E i \in Console!About("tier") : audit[i].from = "pending"
    BY <1>2, <2>2 DEF ConsoleInv, Approved
  <2> HIDE DEF x
  <2> QED BY <1>1, <1>2, <2>1, <2>3, <2>4, Refused
<1>4. CASE x = None
  <2>1. /\ Console!Put(p, e) /\ shown' = Console!Decided(p)
        /\ audit' = Append(audit, IF press[p].does.op = "main"
                                  THEN [by |-> p, field |-> "main", from |-> None, to |-> press[p].does.to]
                                  ELSE [by |-> p, field |-> f, from |-> shown[f], to |-> Console!Decided(p)[f]])
    BY <1>2, <1>4 DEF Console!Commit, Console!Answered, Console!Log, Console!Does, Console!Value
  <2>2. "done" \in Told
    BY DEF Told
  <2>3. e \in PressType /\ e.at = "answered" /\ e.answer = "done" /\ e.does = press[p].does
    BY <2>2, AnswerType
  <2> HIDE DEF e
  <2>4. watched' \in BOOLEAN /\ admin' \in [Actors \union {Target} -> BOOLEAN] /\ locked' \in Presses \union {None}
    BY <1>1 DEF ConsoleInv, ConsoleTypes
  <2>5. CASE press[p].does.op = "main"
    <3> DEFINE r == [by |-> p, field |-> "main", from |-> None, to |-> press[p].does.to]
    <3>1. press[p].does.to \in Mains
      BY <1>2, <2>5, Controls
    <3>2. r \in AuditRow /\ audit' = Append(audit, r) /\ r.by = p /\ r.field = "main"
      BY <2>1, <2>5, <3>1 DEF AuditRow, Values
    <3>3. shown' = shown
      BY <1>2, <2>1, <2>5 DEF Console!Decided, Console!Does
    <3>4. \A g \in Logged : Console!Stands(g)' = Console!Stands(g)
      BY <1>1, <3>3 DEF Console!Stands
    <3> HIDE DEF r
    <3> QED BY <1>1, <1>2, <2>1, <2>3, <2>4, <2>5, <3>2, <3>3, <3>4, Written DEF Logged
  <2>6. CASE press[p].does.op # "main"
    <3>1. /\ Console!Decided(p) \in Console!RowType /\ f \in {"tier", "status", "note", "discord"}
          /\ shown[f] \in Values /\ Console!Decided(p)[f] \in Values
          /\ \A g \in Logged \ {"watch", f} : Console!Decided(p)[g] = shown[g]
          /\ press[p].does.op \in {"status", "note", "discord", "watch", "approve"} => shown[f] # Console!Decided(p)[f]
      BY <1>1, <1>4, <2>6, Decision
    <3>2. [by |-> p, field |-> f, from |-> shown[f], to |-> shown'[f]] \in AuditRow
      BY <2>1, <3>1 DEF AuditRow, Logged
    <3>3. PICK r \in AuditRow : /\ audit' = Append(audit, r) /\ r.by = p /\ r.field = f
                                /\ r.from = shown[f] /\ r.to = shown'[f]
      BY <2>1, <2>6, <3>2
    <3> HIDE DEF f
    <3>4. \A g \in Logged \ {"watch", r.field} : shown'[g] = shown[g]
      BY <2>1, <3>1, <3>3
    <3>5. /\ Console!Stands(r.field) = shown[r.field] /\ Console!Stands(r.field)' = shown'[r.field]
          /\ \A g \in Logged \ {r.field} : Console!Stands(g)' = Console!Stands(g)
      BY <1>1, <3>1, <3>3, <3>4 DEF Console!Stands, Logged
    <3>6. /\ press[p].at # "answered" /\ e.does \in Console!Pressed /\ shown' \in Console!RowType
          /\ e.does.op \in {"status", "note", "discord", "watch", "approve"} => r.from # r.to
      BY <1>1, <1>2, <2>1, <2>3, <3>1, <3>3
    <3>7. (UNCHANGED <<locked, shown>> \/ locked \in {None, p}) /\ shown' \in Console!RowType \union {Gone}
      BY <1>2, <3>6
    <3>8. /\ r.field \in Logged => /\ r.field = "watch" \/ shown # Gone
                                   /\ r.from = Console!Stands(r.field) /\ r.to = Console!Stands(r.field)'
          /\ \A g \in Logged \ {r.field} : shown' # Gone \/ g = "watch" =>
               (shown # Gone \/ g = "watch") /\ Console!Stands(g)' = Console!Stands(g)
      BY <1>2, <3>3, <3>5
    <3>9. Console!Put(p, e) /\ watched' \in BOOLEAN /\ admin' \in [Actors \union {Target} -> BOOLEAN]
      BY <2>1, <2>4
    <3> QED BY <2>3, <2>4, <3>3, <3>6, <3>7, <3>8, <3>9, Written
  <2> QED BY <2>5, <2>6
<1> QED BY <1>3, <1>4

\* A press of one statement that is done, and logged.
LEMMA DoneAtOnce ==
  ASSUME ConsoleInv, NEW p \in Presses, press[p].at = "in", Console!Answered(p, "done"),
         NEW r \in AuditRow, r.by = p, audit' = Append(audit, r),
         shown' = shown, locked' = locked, admin' \in [Actors \union {Target} -> BOOLEAN], watched' \in BOOLEAN,
         press[p].does.op \in {"status", "note", "discord", "watch", "approve"} => r.from # r.to,
         IF r.field = "watch" THEN r.from = watched /\ r.to = watched'
         ELSE r.field \in {"admin", "revoked", "sync", "job"} /\ watched' = watched
  PROVE  ConsoleInv'
<1> DEFINE e == [press[p] EXCEPT !.at = "answered", !.answer = "done", !.read = None]
<1>1. "done" \in Told /\ Console!Put(p, e)
  BY DEF Told, Console!Answered
<1>2. e \in PressType /\ e.at = "answered" /\ e.answer = "done" /\ e.does = press[p].does
  <2>1. "done" \in Told
    BY <1>1
  <2> QED BY ONLY <2>1, AnswerType, ConsoleInv, p \in Presses
<1>3. e.does \in Console!Pressed
  BY <1>2 DEF ConsoleInv, PressOK, Decides
<1> HIDE DEF e
<1>4. shown' \in Console!RowType \union {Gone} /\ locked' \in Presses \union {None}
  BY DEF ConsoleInv, ConsoleTypes
<1>5. /\ r.field \in Logged => /\ r.field = "watch" \/ shown # Gone
                               /\ r.from = Console!Stands(r.field) /\ r.to = Console!Stands(r.field)'
      /\ \A g \in Logged \ {r.field} : Console!Stands(g)' = Console!Stands(g)
  BY DEF Console!Stands, Logged
<1> QED BY <1>1, <1>2, <1>3, <1>4, <1>5, Written

LEMMA PromoteKeeps == ASSUME ConsoleInv, NEW p \in Presses, Console!Promote(p) PROVE ConsoleInv'
<1> DEFINE e == [press[p] EXCEPT !.at = "answered", !.answer = "done", !.read = None]
           r == [by |-> p, field |-> "admin", from |-> FALSE, to |-> TRUE]
<1>1. /\ press[p].at = "in" /\ press[p].does.op = "promote" /\ UNCHANGED <<shown, watched, locked>>
      /\ \/ \E x \in {"not_admin", "not_found"} : Console!Answered(p, x) /\ UNCHANGED <<admin, audit>>
         \/ /\ Console!Answered(p, "done") /\ admin' = [admin EXCEPT ![Target] = TRUE]
            /\ IF admin[Target] THEN audit' = audit ELSE audit' = Append(audit, r)
  BY DEF Console!Promote, Console!In, Console!At, Console!Does, Console!Log
<1>2. /\ locked' \in Presses \union {None} /\ admin \in [Actors \union {Target} -> BOOLEAN] /\ watched' \in BOOLEAN
      /\ {"not_admin", "not_found"} \subseteq Told \ {"done"} /\ "done" \in Told
  BY <1>1 DEF ConsoleInv, ConsoleTypes, Told
<1>3. r \in AuditRow /\ r.by = p /\ r.field = "admin"
  BY DEF AuditRow, Values
<1>4. CASE \E x \in {"not_admin", "not_found"} : Console!Answered(p, x) /\ UNCHANGED <<admin, audit>>
  BY <1>1, <1>2, <1>4, Refused
<1>5. CASE Console!Answered(p, "done") /\ admin' = [admin EXCEPT ![Target] = TRUE] /\ audit' = Append(audit, r)
  <2>1. admin' \in [Actors \union {Target} -> BOOLEAN]
    BY <1>2, <1>5
  <2> HIDE DEF r
  <2> QED BY <1>1, <1>2, <1>3, <1>5, <2>1, DoneAtOnce
<1>6. CASE Console!Answered(p, "done") /\ admin' = [admin EXCEPT ![Target] = TRUE] /\ audit' = audit /\ admin[Target]
  <2>1. admin' = admin
    BY <1>2, <1>6
  <2>2. Console!Put(p, e)
    BY <1>6 DEF Console!Answered
  <2>3. e \in PressType /\ e.at = "answered" /\ e.answer = "done" /\ e.does = press[p].does
    BY <1>2, AnswerType
  <2> HIDE DEF e
  <2>4. press'[p] = e /\ press[p].does \in Console!Pressed
    BY <1>1, <2>2 DEF Console!Put, ConsoleInv, ConsoleTypes, PressOK, Decides
  <2>5. Decides(p)'
    BY <2>3, <2>4 DEF Decides
  <2> QED BY <1>1, <1>2, <1>6, <2>1, <2>2, <2>3, <2>5, NothingWritten
<1> QED BY <1>1, <1>4, <1>5, <1>6

LEMMA DemoteKeeps == ASSUME ConsoleInv, NEW p \in Presses, Console!Demote(p) PROVE ConsoleInv'
<1> DEFINE v == press[p].does.to
           r == [by |-> p, field |-> "revoked", from |-> None, to |-> v]
<1>1. /\ press[p].at = "in" /\ press[p].does.op = "demote" /\ UNCHANGED <<shown, watched, locked>>
      /\ \/ \E x \in {"not_admin", "last_admin"} : Console!Answered(p, x) /\ UNCHANGED <<admin, audit>>
         \/ Console!Answered(p, "done") /\ admin' = [admin EXCEPT ![v] = FALSE] /\ audit' = Append(audit, r)
  BY DEF Console!Demote, Console!In, Console!At, Console!Does, Console!Log, Console!Value
<1>2. /\ locked' \in Presses \union {None} /\ admin \in [Actors \union {Target} -> BOOLEAN] /\ watched' \in BOOLEAN
      /\ {"not_admin", "last_admin"} \subseteq Told \ {"done"} /\ "done" \in Told
  BY <1>1 DEF ConsoleInv, ConsoleTypes, Told
<1>3. v \in Actors \union {Target}
  BY <1>1, Controls DEF ConsoleInv, PressOK, Decides
<1>4. r \in AuditRow /\ r.by = p /\ r.field = "revoked"
  BY <1>3 DEF AuditRow, Values
<1>5. CASE \E x \in {"not_admin", "last_admin"} : Console!Answered(p, x) /\ UNCHANGED <<admin, audit>>
  BY <1>1, <1>2, <1>5, Refused
<1>6. CASE Console!Answered(p, "done") /\ admin' = [admin EXCEPT ![v] = FALSE] /\ audit' = Append(audit, r)
  <2>1. admin' \in [Actors \union {Target} -> BOOLEAN]
    BY <1>2, <1>6
  <2> HIDE DEF r, v
  <2> QED BY <1>1, <1>2, <1>4, <1>6, <2>1, DoneAtOnce
<1> QED BY <1>1, <1>5, <1>6

LEMMA AskedKeeps == ASSUME ConsoleInv, NEW p \in Presses, NEW o \in {"sync", "job"}, Console!Asked(p, o) PROVE ConsoleInv'
<1> DEFINE r == [by |-> p, field |-> o, from |-> None, to |-> None]
<1>1. /\ press[p].at = "in" /\ press[p].does.op = o /\ UNCHANGED <<shown, watched, locked, admin>>
      /\ Console!Answered(p, "done") /\ audit' = Append(audit, r)
  BY DEF Console!Asked, Console!In, Console!At, Console!Does, Console!Log
<1>2. admin' \in [Actors \union {Target} -> BOOLEAN] /\ watched' \in BOOLEAN
  BY <1>1 DEF ConsoleInv, ConsoleTypes
<1>3. r \in AuditRow /\ r.by = p /\ r.field = o
  BY DEF AuditRow, Values
<1> HIDE DEF r
<1> QED BY <1>1, <1>2, <1>3, DoneAtOnce

LEMMA WatchKeeps == ASSUME ConsoleInv, NEW p \in Presses, Console!Watch(p) PROVE ConsoleInv'
<1> DEFINE v == press[p].does.to
           r == [by |-> p, field |-> "watch", from |-> watched, to |-> v]
<1>1. /\ press[p].at = "in" /\ press[p].does.op = "watch" /\ UNCHANGED <<shown, admin, locked>>
      /\ \/ Console!Answered(p, "no_change") /\ UNCHANGED <<watched, audit>>
         \/ watched # v /\ Console!Answered(p, "done") /\ watched' = v /\ audit' = Append(audit, r)
  BY DEF Console!Watch, Console!In, Console!At, Console!Does, Console!Log, Console!Value
<1>2. /\ locked' \in Presses \union {None} /\ admin' \in [Actors \union {Target} -> BOOLEAN] /\ watched \in BOOLEAN
      /\ "no_change" \in Told \ {"done"}
  BY <1>1 DEF ConsoleInv, ConsoleTypes, Told
<1>3. v \in BOOLEAN
  BY <1>1, Controls DEF ConsoleInv, PressOK, Decides
<1>4. r \in AuditRow /\ r.by = p /\ r.field = "watch" /\ r.from = watched /\ r.to = v
  BY <1>2, <1>3 DEF AuditRow, Values, Logged
<1>5. CASE Console!Answered(p, "no_change") /\ UNCHANGED <<watched, audit>>
  BY <1>1, <1>2, <1>5, Refused
<1>6. CASE watched # v /\ Console!Answered(p, "done") /\ watched' = v /\ audit' = Append(audit, r)
  <2> HIDE DEF r, v
  <2> QED BY <1>1, <1>2, <1>3, <1>4, <1>6, DoneAtOnce
<1> QED BY <1>1, <1>5, <1>6

LEMMA ConsoleStep == ASSUME ConsoleInv, [Console!Next]_adminVars PROVE ConsoleInv'
<1>1. CASE UNCHANGED adminVars
  <2>1. /\ shown' = shown /\ watched' = watched /\ admin' = admin /\ locked' = locked
        /\ audit' = audit /\ press' = press
    BY <1>1 DEF adminVars
  <2>2. \A p \in Presses : PressOK(p)'
    BY <2>1, TruthStays DEF ConsoleInv, ConsoleTypes
  <2>3. Console!About("tier")' = Console!About("tier")
    BY <2>1 DEF Console!About
  <2>4. Console!LogHangsTogether' /\ Approved'
    BY <2>1, <2>3, LogStays DEF ConsoleInv, Approved
  <2> QED BY <2>1, <2>2, <2>4 DEF ConsoleInv, ConsoleTypes
<1>2. ASSUME NEW p \in Presses, Console!Sync(p) \/ Console!SyncJob(p) PROVE ConsoleInv'
  BY <1>2, AskedKeeps DEF Console!Sync, Console!SyncJob
<1>3. CASE Console!Next
  BY <1>2, <1>3, WorldKeeps, PressKeeps, AuthorizeKeeps, EnterKeeps, CommitPressKeeps, PromoteKeeps,
     DemoteKeeps, WatchKeeps DEF Console!Next
<1> QED BY <1>1, <1>3

\* For any presses of any admins, beside the jobs and the member: the log of a field hangs
\* together and ends with what it holds, who is told it is done did it once, who is told
\* otherwise wrote nothing (app/admin/*/actions.ts, services/admin-accounts.ts).
THEOREM ConsoleTellsTheTruth == Console!Spec => []Console!AnswersAreTrue
BY ConsoleInit, ConsoleStep, ConsoleShows, PTL DEF Console!Spec, Console!vars, adminVars

-----------------------------------------------------------------------------
(* The composition. *)

\* A step of the composition is a step of one part, and leaves the others alone.
LEMMA PartsMove == [MCNext]_allvars => [Next]_vars /\ [Console!Next]_adminVars /\ [Ops!Next]_formVars
BY DEF MCNext, QueuesMove, ConsoleMoves, FormsMove, allvars

\* Whichever part moves, no wake that was asked for is lost on its way, and every sentence
\* an admin or an operator reads is so (services/outbox.ts, app/admin/*/actions.ts,
\* app/payouts/actions.ts).
THEOREM AskedAndAnswered == MCSpec => [](NoLostWake /\ AnswersAreTrue)
<1>1. MCInit => Init /\ Console!Init /\ Ops!Init
  BY DEF MCInit
<1>2. MCSpec => Spec /\ Console!Spec /\ Ops!Spec
  BY <1>1, PartsMove, PTL DEF MCSpec, Spec, Console!Spec, Ops!Spec, Console!vars, Ops!vars, adminVars, formVars
<1>3. Console!AnswersAreTrue /\ Ops!FormsTellTheTruth => AnswersAreTrue
  BY DEF AnswersAreTrue
<1> QED BY <1>2, <1>3, WakesNotLost, FormsTellTheTruth, ConsoleTellsTheTruth, PTL
=============================================================================
