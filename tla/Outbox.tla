------------------------------- MODULE Outbox -------------------------------
(* The wake-ups of the system: a transaction that changes what an outside  *)
(* system should hold inserts an outbox row (services/outbox.ts), a         *)
(* dispatcher of the worker turns rows into pg-boss jobs                    *)
(* (worker/dispatcher.ts, core/dispatch-plan.ts), and the worker runs jobs  *)
(* with retries into a dead-letter queue (worker/queues.ts, worker/index.ts,*)
(* services/sync-run.ts).  pg-boss itself is external: what is used of it   *)
(* is a queue of policy "short", which holds at most one job in state       *)
(* "created" per singleton key, and no limit on retrying or active ones.    *)
EXTENDS Naturals, Sequences, FiniteSets

CONSTANTS
  Accounts,        \* account ids
  Sources,         \* fleet source ids
  Payloads,        \* the outbox payloads that may be enqueued
  Workers,         \* worker processes (two while a deploy overlaps)
  Scopes,          \* one dispatcher per worker and scope
  Worked,          \* the queues whose jobs the workers run
  ClaimLimit,      \* rows one dispatch may claim (100 in the code)
  RetryLimit,      \* retries of an ordinary job (5 in the code)
  MaxRows,         \* bound: outbox rows
  MaxJobs,         \* bound: jobs pg-boss holds at once
  MaxTicks,        \* bound: cron ticks
  MaxFaults,       \* bound: failed dispatches, failed runs and crashes
  NoJob            \* an empty place in pg-boss

JobTypes == {"membership", "membership-recheck", "contacts", "wanderer",
             "discord-roles", "token-health", "purge", "location",
             "access-lists", "structures", "structure-events"}
FleetQueues == {"fleet-source", "fleet-automatic"}

AllPayloads ==
  [kind : {"account"}, account : Accounts]
    \union [kind : {"discord-user"}, user : Accounts]
    \union [kind : {"membership-recheck", "all", "unknown"}]
    \union [kind : {"job"}, jobType : JobTypes \union {"ops-dead-letter"}]
    \union [kind : FleetQueues, source : Sources]

ASSUME OutboxAssumption ==
  /\ Payloads \subseteq AllPayloads
  /\ Scopes \subseteq {"all", "scheduled", "fleet-source"}
  /\ Worked \subseteq JobTypes \union FleetQueues
  /\ "all" \notin Accounts \union Sources
  /\ ClaimLimit \in Nat /\ ClaimLimit > 0
  /\ RetryLimit \in Nat
  /\ MaxRows \in Nat /\ MaxJobs \in Nat /\ MaxTicks \in Nat /\ MaxFaults \in Nat

RowIds == 1..MaxRows
Places == 1..MaxJobs
Dispatchers == Workers \X Scopes

-----------------------------------------------------------------------------
(* What a payload targets.  A planned job is its queue and what scopes it.  *)

PlannedJob == [queue : JobTypes \union FleetQueues,
               scope : {"global", "account", "discord-user", "source"},
               who   : Accounts \union Sources \union {"all"}]

Global(q)       == [queue |-> q, scope |-> "global", who |-> "all"]
ForAccount(q, a) == [queue |-> q, scope |-> "account", who |-> a]

JobsFor(p) ==
  CASE p.kind = "account" ->
         <<ForAccount("membership", p.account), Global("contacts"),
           Global("wanderer"), ForAccount("discord-roles", p.account)>>
    [] p.kind = "discord-user" ->
         <<[queue |-> "discord-roles", scope |-> "discord-user", who |-> p.user]>>
    [] p.kind = "all" ->
         <<Global("membership"), Global("contacts"), Global("wanderer"),
           Global("discord-roles")>>
    [] p.kind = "membership-recheck" -> <<Global("membership-recheck")>>
    [] p.kind = "job" /\ p.jobType \in JobTypes -> <<Global(p.jobType)>>
    [] p.kind \in FleetQueues ->
         <<[queue |-> p.kind, scope |-> "source", who |-> p.source]>>
    [] OTHER -> << >>      \* not dispatchable: the row is dropped, never thrown

Targets(p) == {JobsFor(p)[i] : i \in 1..Len(JobsFor(p))}

\* The singleton key of a queue-wide run; the cron registers the same one.
GlobalSingletonKey(q) ==
  IF q = "discord-roles" THEN <<"roles", "all">> ELSE <<q, "all">>

\* Variants, not the code: keys that forget the account, and a queue-wide key
\* that is not the one the cron registers.
KeyWithoutTarget(j) == GlobalSingletonKey(j.queue)
KeyByQueueName(j)   == <<j.queue, j.who>>

SingletonKey(j) ==
  CASE j.scope = "global"       -> GlobalSingletonKey(j.queue)
    [] j.scope = "discord-user" -> <<"roles", "user", j.who>>
    [] OTHER -> <<IF j.queue = "discord-roles" THEN "roles" ELSE j.queue, j.who>>

Durable(j)  == j.queue \notin FleetQueues
Retries(j)  == IF Durable(j) THEN RetryLimit ELSE 0

\* A row of pgboss.job, and a place that has none.
NoWorker == "nobody"
Entries ==
  [job : PlannedJob, key : {SingletonKey(j) : j \in PlannedJob},
   state : {"created", "retry", "active"}, failed : 0..RetryLimit,
   worker : Workers \union {NoWorker}, covers : SUBSET RowIds]
ASSUME NoJobAssumption == NoJob \notin Entries

-----------------------------------------------------------------------------
(* row and payload are the outbox; claim, unsent and sent are the open      *)
(* dispatch transaction of each dispatcher; jobs is pg-boss.  owed relates  *)
(* every committed row to the planned jobs nobody has run for it yet, and a *)
(* run covers the rows committed before it started: both are history.       *)
VARIABLES row, payload, claim, unsent, sent, jobs, deadLetter, owed, ticks, faults
vars == <<row, payload, claim, unsent, sent, jobs, deadLetter, owed, ticks, faults>>

RowState == {"none", "open", "pending", "dispatched", "gone"}
Held(st)    == {s \in Places : jobs[s] # NoJob /\ jobs[s].state = st}
Free        == {s \in Places : jobs[s] = NoJob}
Idle(d)     == claim[d] = {}
Claimed     == UNION {claim[d] : d \in Dispatchers}

Init ==
  /\ row = [r \in RowIds |-> "none"]
  /\ payload = [r \in RowIds |-> [kind |-> "unknown"]]
  /\ claim = [d \in Dispatchers |-> {}]
  /\ unsent = [d \in Dispatchers |-> {}]
  /\ sent = [d \in Dispatchers |-> 0]
  /\ jobs = [s \in Places |-> NoJob]
  /\ deadLetter = {}
  /\ owed = {}
  /\ ticks = 0
  /\ faults = 0

-----------------------------------------------------------------------------
(* A domain transaction: the row's id is drawn at the insert, the row is    *)
(* seen at the commit, so rows become visible in another order than ids.    *)

EnqueueSync(p) ==
  \E r \in RowIds :
    /\ row[r] = "none"
    /\ \A q \in RowIds : q < r => row[q] # "none"
    /\ row' = [row EXCEPT ![r] = "open"]
    /\ payload' = [payload EXCEPT ![r] = p]
    /\ UNCHANGED <<claim, unsent, sent, jobs, deadLetter, owed, ticks, faults>>

Commit(r) ==
  /\ row[r] = "open"
  /\ row' = [row EXCEPT ![r] = "pending"]
  /\ owed' = owed \union ({r} \X Targets(payload[r]))
  /\ UNCHANGED <<payload, claim, unsent, sent, jobs, deadLetter, ticks, faults>>

Abort(r) ==
  /\ row[r] = "open"
  /\ row' = [row EXCEPT ![r] = "gone"]
  /\ UNCHANGED <<payload, claim, unsent, sent, jobs, deadLetter, owed, ticks, faults>>

\* The purge job deletes dispatched rows past their retention.
Purge(r) ==
  /\ row[r] = "dispatched"
  /\ row' = [row EXCEPT ![r] = "gone"]
  /\ UNCHANGED <<payload, claim, unsent, sent, jobs, deadLetter, owed, ticks, faults>>

-----------------------------------------------------------------------------
(* The dispatcher.  takeUndispatched reserves a share of the claim for each *)
(* fleet kind before it fills the rest oldest first; the result pairs every *)
(* row with the turn it was taken in, the order the sends follow.           *)

Smaller(m, n) == IF m < n THEN m ELSE n
Lowest(S, n)  == {r \in S : Cardinality({q \in S : q < r}) < n}

ClassOf(r) ==
  CASE payload[r].kind = "fleet-source"    -> "source"
    [] payload[r].kind = "fleet-automatic" -> "automatic"
    [] OTHER                               -> "scheduled"

InScope(scope, r) ==
  \/ scope = "all"
  \/ (scope = "scheduled") = (ClassOf(r) = "scheduled")

\* Variant, not the code: oldest first, with no share kept for a kind.
TakeOldest(S, limit, scope) == {4} \X Lowest({r \in S : InScope(scope, r)}, limit)

TakeUndispatched(S, limit, scope) ==
  LET of(c)     == {r \in S : ClassOf(r) = c}
      share     == limit \div (IF scope = "all" THEN 3 ELSE 2)
      least     == IF share = 0 THEN 1 ELSE share
      source    == IF scope = "scheduled" THEN {} ELSE Lowest(of("source"), least)
      room1     == limit - Cardinality(source)
      automatic == IF scope = "scheduled" THEN {}
                   ELSE Lowest(of("automatic"), Smaller(share, room1))
      room2     == room1 - Cardinality(automatic)
      scheduled == IF scope # "all" THEN {}
                   ELSE Lowest(of("scheduled"), Smaller(share, room2))
      reserved  == source \union automatic \union scheduled
      allowed   == {r \in S : InScope(scope, r)}
      fill      == Lowest(allowed \ reserved, limit - Cardinality(reserved))
  IN ({1} \X source) \union ({2} \X automatic) \union ({3} \X scheduled)
       \union ({4} \X fill)

\* FOR UPDATE SKIP LOCKED: committed, undispatched, locked by no other claim.
Takeable == {r \in RowIds : row[r] = "pending"} \ Claimed

Claim(d) ==
  LET taken == TakeUndispatched(Takeable, ClaimLimit, d[2]) IN
  /\ Idle(d)
  /\ taken # {}
  /\ claim' = [claim EXCEPT ![d] = {t[2] : t \in taken}]
  /\ unsent' = [unsent EXCEPT ![d] = taken]
  /\ sent' = [sent EXCEPT ![d] = 0]
  /\ UNCHANGED <<row, payload, jobs, deadLetter, owed, ticks, faults>>

NextInTurn(d, t) ==
  /\ t \in unsent[d]
  /\ \A u \in unsent[d] : t[1] < u[1] \/ (t[1] = u[1] /\ t[2] <= u[2])

\* boss.send: a job already waiting under the key swallows the new one.
Waiting(j, key) ==
  \E s \in Held("created") : jobs[s].job.queue = j.queue /\ jobs[s].key = key

NewJob(j, key) == [job |-> j, key |-> key, state |-> "created", failed |-> 0,
                   worker |-> NoWorker, covers |-> {}]

BossSend(j, key) ==
  IF Waiting(j, key) THEN jobs' = jobs
  ELSE \E s \in Free : /\ \A q \in Free : s <= q
                       /\ jobs' = [jobs EXCEPT ![s] = NewJob(j, key)]

\* One iteration of dispatchOutbox's inner loop; the send is visible at once,
\* whatever becomes of the transaction that claimed the row.
Send(d) ==
  \E t \in unsent[d] :
    LET planned == JobsFor(payload[t[2]]) IN
    /\ NextInTurn(d, t)
    /\ sent[d] < Len(planned)
    /\ BossSend(planned[sent[d] + 1], SingletonKey(planned[sent[d] + 1]))
    /\ IF sent[d] + 1 = Len(planned)
         THEN /\ unsent' = [unsent EXCEPT ![d] = @ \ {t}]
              /\ sent' = [sent EXCEPT ![d] = 0]
         ELSE /\ sent' = [sent EXCEPT ![d] = @ + 1]
              /\ UNCHANGED unsent
    /\ UNCHANGED <<row, payload, claim, deadLetter, owed, ticks, faults>>

\* The claims of D's dispatchers end without a commit.
Released(D) ==
  /\ claim' = [d \in Dispatchers |-> IF d \in D THEN {} ELSE claim[d]]
  /\ unsent' = [d \in Dispatchers |-> IF d \in D THEN {} ELSE unsent[d]]
  /\ sent' = [d \in Dispatchers |-> IF d \in D THEN 0 ELSE sent[d]]

\* planDispatch returns no send for a payload it cannot read.
DropRow(d) ==
  \E t \in unsent[d] :
    /\ NextInTurn(d, t)
    /\ JobsFor(payload[t[2]]) = << >>
    /\ unsent' = [unsent EXCEPT ![d] = @ \ {t}]
    /\ UNCHANGED <<row, payload, claim, sent, jobs, deadLetter, owed, ticks, faults>>

\* Every row of the batch is stamped and the transaction commits.
MarkDispatched(d) ==
  /\ ~Idle(d)
  /\ unsent[d] = {}
  /\ row' = [r \in RowIds |-> IF r \in claim[d] THEN "dispatched" ELSE row[r]]
  /\ claim' = [claim EXCEPT ![d] = {}]
  /\ UNCHANGED <<payload, unsent, sent, jobs, deadLetter, owed, ticks, faults>>

\* A send threw, or the commit failed after all of them.
RollBack(d) ==
  /\ ~Idle(d)
  /\ faults < MaxFaults
  /\ Released({d})
  /\ faults' = faults + 1
  /\ UNCHANGED <<row, payload, jobs, deadLetter, owed, ticks>>

-----------------------------------------------------------------------------
(* pg-boss and the worker's handlers.                                       *)

\* A scheduled tick sends the global job under the key scheduleJobs registered.
Tick(q) ==
  /\ ticks < MaxTicks
  /\ BossSend(Global(q), GlobalSingletonKey(q))
  /\ ticks' = ticks + 1
  /\ UNCHANGED <<row, payload, claim, unsent, sent, deadLetter, owed, faults>>

\* boss.work: one job of a queue at a time in a worker process.
Start(s, w) ==
  /\ s \in Held("created") \union Held("retry")
  /\ jobs[s].job.queue \in Worked
  /\ \A q \in Held("active") :
       jobs[q].worker = w => jobs[q].job.queue # jobs[s].job.queue
  /\ jobs' = [jobs EXCEPT ![s].state = "active", ![s].worker = w,
                ![s].covers = {r \in RowIds : <<r, jobs[s].job>> \in owed}]
  /\ UNCHANGED <<row, payload, claim, unsent, sent, deadLetter, owed, ticks, faults>>

\* runJob returned: done, whatever the recorded status, when retry is unset.
Settle(s) ==
  /\ s \in Held("active")
  /\ jobs[s].worker # NoWorker
  /\ owed' = owed \ (jobs[s].covers \X {jobs[s].job})
  /\ jobs' = [jobs EXCEPT ![s] = NoJob]
  /\ UNCHANGED <<row, payload, claim, unsent, sent, deadLetter, ticks, faults>>

\* Variants, not the code: one retry too many, and no dead letter at the end.
OneRetryMore(s) ==
  /\ jobs' = [jobs EXCEPT ![s].state = "retry", ![s].failed = @ + 1,
                ![s].worker = NoWorker, ![s].covers = {}]
  /\ UNCHANGED deadLetter
DiesSilently(s) ==
  IF jobs[s].failed < Retries(jobs[s].job) THEN OneRetryMore(s)
  ELSE jobs' = [jobs EXCEPT ![s] = NoJob] /\ UNCHANGED deadLetter

\* The end of a failed attempt: another one, or the dead-letter queue.
AttemptFailed(s) ==
  IF jobs[s].failed < Retries(jobs[s].job)
  THEN /\ jobs' = [jobs EXCEPT ![s].state = "retry", ![s].failed = @ + 1,
                     ![s].worker = NoWorker, ![s].covers = {}]
       /\ UNCHANGED deadLetter
  ELSE /\ jobs' = [jobs EXCEPT ![s] = NoJob]
       /\ deadLetter' = IF Durable(jobs[s].job)
                        THEN deadLetter \union {jobs[s].job} ELSE deadLetter

\* The job threw: an exception, or JobRetryError for a result with retry set.
Throw(s) ==
  /\ s \in Held("active")
  /\ jobs[s].worker # NoWorker
  /\ faults < MaxFaults
  /\ AttemptFailed(s)
  /\ faults' = faults + 1
  /\ UNCHANGED <<row, payload, claim, unsent, sent, owed, ticks>>

\* The process dies: its transactions roll back, its jobs stay active.
Crash(w) ==
  /\ faults < MaxFaults
  /\ Released({w} \X Scopes)
  /\ jobs' = [s \in Places |->
                IF s \in Held("active") /\ jobs[s].worker = w
                THEN [jobs[s] EXCEPT !.worker = NoWorker] ELSE jobs[s]]
  /\ faults' = faults + 1
  /\ UNCHANGED <<row, payload, deadLetter, owed, ticks>>

\* pg-boss expires an active job whose worker never answered.
Expire(s) ==
  /\ s \in Held("active")
  /\ jobs[s].worker = NoWorker
  /\ AttemptFailed(s)
  /\ UNCHANGED <<row, payload, claim, unsent, sent, owed, ticks, faults>>

\* A fleet queue keeps an unfetched job for one minute only.
Retention(s) ==
  /\ s \in Held("created")
  /\ ~Durable(jobs[s].job)
  /\ jobs' = [jobs EXCEPT ![s] = NoJob]
  /\ UNCHANGED <<row, payload, claim, unsent, sent, deadLetter, owed, ticks, faults>>

Dispatch(d) == Claim(d) \/ Send(d) \/ DropRow(d) \/ MarkDispatched(d)
Run(s)      == Settle(s) \/ Throw(s)

Next ==
  \/ \E p \in Payloads : EnqueueSync(p)
  \/ \E r \in RowIds : Commit(r) \/ Abort(r) \/ Purge(r)
  \/ \E d \in Dispatchers : Dispatch(d) \/ RollBack(d)
  \/ \E q \in Worked \ FleetQueues : Tick(q)
  \/ \E s \in Places, w \in Workers : Start(s, w)
  \/ \E s \in Places : Run(s) \/ Expire(s) \/ Retention(s)
  \/ \E w \in Workers : Crash(w)

Spec == Init /\ [][Next]_vars

\* The dispatchers' intervals, pg-boss's polling and expiry, and handlers that
\* end.  Nothing is assumed of the transactions that enqueue.
Fairness ==
  /\ \A d \in Dispatchers : WF_vars(Dispatch(d))
  /\ \A s \in Places : /\ WF_vars(\E w \in Workers : Start(s, w))
                       /\ WF_vars(Run(s)) /\ WF_vars(Expire(s))
LiveSpec == Spec /\ Fairness

-----------------------------------------------------------------------------
\* Rows, claims and queued jobs have the columns and the states that
\* services/outbox.ts and pg-boss give them; no job is retried too often.
TypeOK ==
  /\ row \in [RowIds -> RowState]
  /\ payload \in [RowIds -> AllPayloads]
  /\ claim \in [Dispatchers -> SUBSET RowIds]
  /\ unsent \in [Dispatchers -> SUBSET ((1..4) \X RowIds)]
  /\ sent \in [Dispatchers -> 0..3]
  /\ jobs \in [Places -> Entries \union {NoJob}]
  /\ deadLetter \subseteq PlannedJob
  /\ owed \subseteq RowIds \X PlannedJob

\* A committed wake-up is never lost: until a run of its job that started
\* after the commit has ended, the row is still to be dispatched, or a job for
\* exactly that target waits or is to be retried, or a run that covers the row
\* is under way, or the last retry was dead-lettered for the operators
\* (dispatcher.ts "at-least-once", outbox.ts, purge.ts, queues.ts).
InHand(r, j) ==
  \/ row[r] = "pending"
  \/ \E s \in Held("created") \union Held("retry") : jobs[s].job = j
  \/ \E s \in Held("active") : jobs[s].job = j /\ r \in jobs[s].covers
  \/ j \in deadLetter
NoLostWake == \A o \in owed : Durable(o[2]) => InHand(o[1], o[2])

\* Cron ticks, "sync everything", single re-runs and account fan-outs for one
\* target coalesce: two jobs that would do the same never wait side by side
\* (queues.ts globalSingletonKey: "the job double-queues").
Coalesced ==
  \A s, q \in Held("created") : jobs[s].job = jobs[q].job => s = q

\* A dispatch that finds rows of several kinds takes the oldest of each kind
\* its scope covers: a backlog of one kind never holds up another
\* (outbox.ts "Reserve progress BEFORE oldest-first fill"), once there is room
\* for three rows, as there is for the 100 of the code.
OldestOf(c) == {r \in Takeable : /\ ClassOf(r) = c
                                 /\ \A q \in Takeable : ClassOf(q) = c => r <= q}
EachKindProgresses ==
  [][\A d \in Dispatchers : ClaimLimit > 2 /\ Idle(d) /\ claim'[d] # {} =>
       \A c \in {"source", "automatic", "scheduled"} : \A r \in OldestOf(c) :
          InScope(d[2], r) => r \in claim'[d]]_vars

\* Every wake-up is eventually answered by a run that started after it, or the
\* operators are told, and an unreadable row at the head of the table stops
\* nothing behind it (dispatcher.ts planDispatch "wedges all sync dispatch").
WakesAnswered ==
  \A r \in RowIds : \A j \in UNION {Targets(p) : p \in Payloads} :
    <<r, j>> \in owed /\ Durable(j) /\ j.queue \in Worked
      ~> <<r, j>> \notin owed \/ j \in deadLetter
=============================================================================
