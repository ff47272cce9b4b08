------------------------------ MODULE SyncHealth ------------------------------
(* What the sync page says of the jobs: the schedules (core/schedules.ts), the *)
(* run rows the jobs write (services/sync-run.ts), and the reading of both     *)
(* with a clock (core/run-health.ts, core/health.ts, app/admin/sync/view.ts,   *)
(* services/account-view.ts).  The worker may die between a row's start and    *)
(* its finish; the page must not call quiet what has stopped.  Time is minutes *)
(* of a calendar whose hour, day, week and month are short.                    *)
EXTENDS Naturals, FiniteSets, FiniteSetsExt, Sequences, SequencesExt

CONSTANTS
  Jobs, Accounts,      \* job types; accounts a run may be narrowed to
  Crons,               \* the schedules a job may have
  HourLen, DayLen, WeekLen, MonthLen,  \* 60, 24, 7 and about 30 in the world
  ScanWindow,          \* MAX_SCAN_MINUTES: 8 days
  Grace, StuckFloor,   \* OVERDUE_GRACE_MS, STUCK_FLOOR_MS
  BeatStale,           \* HEARTBEAT_STALE_AFTER_MS
  PageRuns,            \* runs of a job the page reads (5)
  MaxNow, MaxRuns, MaxCrashes,         \* bounds
  None

VARIABLES
  cron,       \* JOB_CRON
  now, up,    \* the clock, and whether the worker runs
  beat,       \* pgboss.version.maintained_on
  runs,       \* sync_run in id order
  inHand,     \* ids of the rows whose job is executing
  crashes
vars == <<cron, now, up, beat, runs, inHand, crashes>>

-----------------------------------------------------------------------------
(* core/schedules.ts.  A field is written as any value, a step, one value or  *)
(* a list of values; a field outside the grammar parses to no value at all,   *)
(* where the code throws.                                                     *)

ParseField(raw, first, last) ==
  CASE raw.kind = "any"   -> first..last
    [] raw.kind = "step"  -> IF raw.n = 0 THEN {} ELSE {v \in first..last : (v - first) % raw.n = 0}
    [] raw.kind = "value" -> {raw.n} \intersect (first..last)
    [] raw.kind = "list"  -> IF ToSet(raw.values) \subseteq first..last THEN ToSet(raw.values) ELSE {}

ParseCron(c) ==
  [minute |-> ParseField(c.minute, 0, HourLen - 1), hour |-> ParseField(c.hour, 0, DayLen - 1),
   dom |-> ParseField(c.dom, 1, MonthLen), dow |-> ParseField(c.dow, 0, WeekLen - 1)]
Readable(c) == \A f \in {"minute", "hour", "dom", "dow"} : ParseCron(c)[f] # {}

Day(t) == t \div (HourLen * DayLen)
OnDay(f, d) == (d % MonthLen) + 1 \in f.dom /\ d % WeekLen \in f.dow
Matches(f, t) ==
  /\ t % HourLen \in f.minute
  /\ (t \div HourLen) % DayLen \in f.hour
  /\ OnDay(f, Day(t))

\* nextFire: the first match strictly after from, or why there is none.
NextFire(c, from) ==
  LET f == ParseCron(c)
      hits == {t \in from + 1..from + ScanWindow : Matches(f, t)} IN
  IF ~Readable(c) THEN [kind |-> "throws"]
  ELSE IF hits # {} THEN [kind |-> "at", at |-> Min(hits)]
  ELSE IF \E d \in Day(from)..Day(from) + MonthLen * WeekLen : OnDay(f, d)
  THEN [kind |-> "beyond-window"]
  ELSE [kind |-> "unsatisfiable"]

\* Variant, not the code: the way from the last minute round to the first is
\* not looked at.
SpacedInTheHour(values) ==
  LET n == Len(values) gap == values[2] - values[1] IN
  /\ n > 1 /\ values[n] < HourLen /\ gap > 0
  /\ \A i \in 1..n - 1 : values[i + 1] - values[i] = gap
\* evenlySpacedMinutes and the step that survives the hour's turn.
EvenlySpaced(values) ==
  LET n == Len(values) gap == values[2] - values[1] IN
  /\ n > 1 /\ values[n] < HourLen /\ gap > 0
  /\ \A i \in 1..n - 1 : values[i + 1] - values[i] = gap
  /\ HourLen - values[n] + values[1] = gap

\* formatCadence: the period it states, 0 where it shows the raw expression.
FormatCadence(c) ==
  IF c.dom.kind # "any" THEN 0 ELSE
  CASE c.dow.kind = "any" /\ c.hour.kind = "any" /\ c.minute.kind = "step" ->
         IF c.minute.n > 0 /\ HourLen % c.minute.n = 0 THEN c.minute.n ELSE 0
    [] c.dow.kind = "any" /\ c.hour.kind = "any" /\ c.minute.kind = "value" -> HourLen
    [] c.dow.kind = "any" /\ c.hour.kind = "any" /\ c.minute.kind = "list" ->
         IF EvenlySpaced(c.minute.values) THEN c.minute.values[2] - c.minute.values[1] ELSE 0
    [] c.hour.kind = "value" /\ c.minute.kind = "value" /\ c.dow.kind \in {"any", "value"} ->
         HourLen * DayLen * (IF c.dow.kind = "value" THEN WeekLen ELSE 1)
    [] OTHER -> 0

-----------------------------------------------------------------------------
(* core/run-health.ts *)

\* readCadence: the gap of two fires, a lower bound of it, or None.
ReadCadence(c, from) ==
  LET one == NextFire(c, from) IN
  CASE one.kind \in {"throws", "unsatisfiable"} -> None
    [] one.kind = "beyond-window" -> ScanWindow
    [] OTHER -> LET two == NextFire(c, one.at) IN
                IF two.kind = "at" THEN two.at - one.at ELSE ScanWindow

\* Variant, not the code: lateness is measured from the moment of looking.
LateFromNow(c, since) == LET d == NextFire(c, now) IN d.kind = "at" /\ now - since > ScanWindow + Grace
\* dueAfter and isLate.
Late(c, since) == LET d == NextFire(c, since) IN d.kind = "at" /\ now > d.at + Grace
Unreadable(c) == NextFire(c, 0).kind \in {"throws", "unsatisfiable"}

\* The ids of a job's rows.
RunsOf(j) == {i \in DOMAIN runs : runs[i].job = j}
Newest(j) == runs[Max(RunsOf(j))]

\* workerHeartbeat, evaluateFreshness.
WorkerFresh == beat # None /\ now <= beat + BeatStale

\* evidenceSince: the earliest start in the page's window, on a fresh worker.
PageOf(j) ==
  {runs[i] : i \in {k \in RunsOf(j) : Cardinality({l \in RunsOf(j) : l > k}) < PageRuns}}
EvidenceSince ==
  LET starts == {r.started : r \in UNION {PageOf(j) : j \in Jobs}} IN
  IF WorkerFresh /\ starts # {} THEN Min(starts) ELSE None

StuckAfter(c, started) ==
  LET gap == ReadCadence(c, started) IN
  IF gap = None THEN StuckFloor ELSE Max({StuckFloor, 3 * gap})

RowHealth(j) ==
  IF RunsOf(j) = {} THEN
    IF EvidenceSince = None THEN "never"
    ELSE IF Unreadable(cron[j]) THEN "unknown"
    ELSE IF Late(cron[j], EvidenceSince) THEN "missing" ELSE "never"
  ELSE LET r == Newest(j) IN
    IF r.status = None
    THEN IF now - r.started > StuckAfter(cron[j], r.started) THEN "stuck" ELSE "inflight"
    ELSE IF r.status = "failed" THEN "failing"
    ELSE IF r.status = "partial" THEN "degraded"
    ELSE IF Unreadable(cron[j]) THEN "unknown"
    ELSE IF Late(cron[j], r.finished) THEN "overdue" ELSE "fresh"

\* HEALTH_TONE, and the tone of a folded group of jobs.
Tone(h) ==
  CASE h = "fresh" -> "ok" [] h = "failing" -> "bad" [] h = "inflight" -> "neutral"
    [] h = "never" -> "off" [] OTHER -> "warn"
GroupTone(J) ==
  LET tones == {Tone(RowHealth(j)) : j \in J} IN
  IF "bad" \in tones THEN "bad"
  ELSE IF "warn" \in tones THEN "warn"
  ELSE IF "ok" \in tones THEN "ok"
  ELSE IF "off" \in tones THEN "off"
  ELSE "neutral"

\* getPushStatus: when a push last went out, as every member is told.
Pushes(j) == {i \in RunsOf(j) : runs[i].status \in {"ok", "partial"}}
LastPushedAt(j) == IF Pushes(j) = {} THEN None ELSE runs[Max(Pushes(j))].finished

-----------------------------------------------------------------------------
(* The worker.  A job starts when pg-boss hands it out: for its schedule, for   *)
(* a request, as a retry; for everyone or for one account.                      *)

Init ==
  /\ cron \in [Jobs -> Crons]
  /\ now = 0 /\ up = TRUE /\ beat = 0 /\ runs = << >> /\ inHand = {} /\ crashes = 0

Everyone == "everyone"

\* A running worker's maintenance beats.
Minute ==
  /\ now < MaxNow
  /\ now' = now + 1
  /\ beat' = IF up THEN now + 1 ELSE beat
  /\ UNCHANGED <<cron, up, runs, inHand, crashes>>

StartSyncRun(j, scope) ==
  /\ up /\ Len(runs) < MaxRuns
  /\ runs' = Append(runs, [job |-> j, scope |-> scope, started |-> now,
                           finished |-> None, status |-> None])
  /\ inHand' = inHand \union {Len(runs) + 1}
  /\ UNCHANGED <<cron, now, up, beat, crashes>>

FinishSyncRun(i, status) ==
  /\ i \in inHand
  /\ runs' = [runs EXCEPT ![i].finished = now, ![i].status = status]
  /\ inHand' = inHand \ {i}
  /\ UNCHANGED <<cron, now, up, beat, crashes>>

\* The rows of a worker that dies keep no status.
Crash ==
  /\ up /\ crashes < MaxCrashes
  /\ up' = FALSE /\ inHand' = {} /\ crashes' = crashes + 1
  /\ UNCHANGED <<cron, now, beat, runs>>
Restart ==
  /\ ~up /\ up' = TRUE /\ beat' = now
  /\ UNCHANGED <<cron, now, runs, inHand, crashes>>

Next ==
  \/ Minute \/ Crash \/ Restart
  \/ \E j \in Jobs, scope \in Accounts \union {Everyone} : StartSyncRun(j, scope)
  \/ \E i \in inHand, status \in {"ok", "partial", "failed"} : FinishSyncRun(i, status)
Spec == Init /\ [][Next]_vars

-----------------------------------------------------------------------------
\* The longest way from one fire of a schedule to its next.
Cycle == HourLen * DayLen * WeekLen
LargestGap(c) ==
  LET f == ParseCron(c)
      fires == {t \in 0..2 * Cycle : Matches(f, t)} IN
  Max({Min({u \in fires : u > t}) - t : t \in {u \in fires : u <= Cycle}})

Recent(j) ==
  LET gap == LargestGap(cron[j]) IN
  IF RunsOf(j) = {} THEN EvidenceSince = None \/ now - EvidenceSince <= gap + Grace
  ELSE LET r == Newest(j) IN
       IF r.status = None THEN now - r.started <= Max({StuckFloor, 3 * gap})
       ELSE now - r.finished <= gap + Grace

\* A job that has stopped does not stay hidden in a group of a quiet colour,
\* whatever the shape of its schedule and wherever in it the worker died: the calm
\* of a group vouches for each of its jobs, for the longest gap of its schedule
\* (three of them for a run in flight) and the grace.
CalmIsRecent ==
  \A J \in (SUBSET Jobs) \ {{}} :
    GroupTone(J) \notin {"bad", "warn"} => \A j \in J : Recent(j)

\* A cadence the page puts into words is the true distance of every two fires,
\* over the turn of the hour, the day and the week.
CadenceIsTrue ==
  \A j \in Jobs :
    FormatCadence(cron[j]) # 0 /\ Matches(ParseCron(cron[j]), now) =>
      NextFire(cron[j], now) = [kind |-> "at", at |-> now + FormatCadence(cron[j])]
===============================================================================
