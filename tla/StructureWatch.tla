--------------------------- MODULE StructureWatch ---------------------------
(* The structure monitor: the character whose token reads it and the           *)
(* corporation it is pinned to (services/structures.ts), the job that records  *)
(* attacks and posts them to Discord (jobs/structure-events.ts), and the job   *)
(* that keeps the roster (jobs/structures.ts).  Runs may overlap, an admin may *)
(* designate another holder at any moment, and nothing is locked: a            *)
(* transaction first reads whether its holder is still the designated one and  *)
(* writes afterwards, under READ COMMITTED.                                    *)
EXTENDS Naturals, FiniteSets

CONSTANTS
  Characters, Corps,
  Notes, CorpOfNote,          \* notifications of attacks, in the order sent
  Structures, CorpOfStructure,
  Runs,
  MaxDesignations,            \* bound
  MaxFaults,                  \* bound: failed reads and posts, crashes, moves
  NoHolder, Idle

AlertStatus == {"none", "pending", "seeded", "sent", "abandoned"}

(* holder is the one row of structure_holder, stamp its designated_at; alert   *)
(* and pinned are structure_event, roster is structure.  corp is where a       *)
(* character is in the game, received the notifications EVE keeps for it,      *)
(* standing the structures that exist.  posted counts what Discord was sent;   *)
(* backlog, history, is what had happened before it was pointed at the corp.      *)
VARIABLES holder, alert, pinned, roster, corp, received, standing, webhook, run,
          posted, backlog, designations, faults
world == <<corp, received, standing, webhook>>
vars  == <<holder, alert, pinned, roster, world, run, posted, backlog, designations, faults>>

Init ==
  /\ holder = NoHolder
  /\ alert = [n \in Notes |-> "none"] /\ pinned = [n \in Notes |-> NoHolder]
  /\ roster = [s \in Structures |-> "unknown"]
  /\ corp \in [Characters -> Corps]
  /\ received = [c \in Characters |-> {}]
  /\ standing = Structures
  /\ webhook \in BOOLEAN
  /\ run = [r \in Runs |-> Idle]
  /\ posted = [n \in Notes |-> 0] /\ backlog = {}
  /\ designations = 0 /\ faults = 0

Happened == UNION {received[c] : c \in Characters}
Fault == faults < MaxFaults /\ faults' = faults + 1

-----------------------------------------------------------------------------
\* An admin points the monitor at a character and pins a corporation.  Only a
\* change of corporation retires what is still to be posted.
Retired(k) == {n \in Notes : /\ holder # NoHolder /\ holder.corp # k
                             /\ alert[n] = "pending"}

DesignateStructureHolder(c) ==
  /\ designations < MaxDesignations /\ designations' = designations + 1
  /\ holder' = [character |-> c, corp |-> corp[c], stamp |-> designations + 1, seeded |-> FALSE]
  /\ alert' = [n \in Notes |-> IF n \in Retired(corp[c]) THEN "abandoned" ELSE alert[n]]
  /\ backlog' = IF holder # NoHolder /\ holder.corp = corp[c] THEN backlog ELSE Happened
  /\ UNCHANGED <<pinned, roster, world, run, posted, faults>>

\* The character changes its owner: the row goes with it (Identity).
HolderGone ==
  /\ holder # NoHolder /\ Fault
  /\ holder' = NoHolder
  /\ UNCHANGED <<alert, pinned, roster, world, run, posted, backlog, designations>>

StillStructureHolder(h) ==
  holder # NoHolder /\ holder.character = h.character /\ holder.stamp = h.stamp

-----------------------------------------------------------------------------
\* The game: a structure is attacked, which every director of the corporation
\* is told, a structure is destroyed, a character changes corporation.
Attacked(n) ==
  /\ n \notin Happened /\ \A m \in Notes : m < n => m \in Happened
  /\ received' = [c \in Characters |-> IF corp[c] = CorpOfNote[n] THEN received[c] \union {n}
                                       ELSE received[c]]
  /\ UNCHANGED <<holder, alert, pinned, roster, corp, standing, webhook, run, posted, backlog,
                 designations, faults>>
Destroyed(s) ==
  /\ s \in standing /\ standing' = standing \ {s}
  /\ UNCHANGED <<holder, alert, pinned, roster, corp, received, webhook, run, posted, backlog,
                 designations, faults>>
Moves(c, k) ==
  /\ Fault /\ corp[c] # k /\ corp' = [corp EXCEPT ![c] = k]
  /\ UNCHANGED <<holder, alert, pinned, roster, received, standing, webhook, run, posted, backlog,
                 designations>>

-----------------------------------------------------------------------------
(* The runs.  A run without a holder, without the scope or without a token     *)
(* ends before it reads anything; so does a roster run whose holder left the   *)
(* pinned corporation.                                                         *)

At(r, at) == run[r] # Idle /\ run[r].at = at
End(r) == run' = [run EXCEPT ![r] = Idle]
OnlyRun == UNCHANGED <<holder, alert, pinned, roster, world, posted, backlog, designations>>

Begin(r, job) ==
  /\ run[r] = Idle /\ holder # NoHolder
  /\ run' = [run EXCEPT ![r] = [job |-> job, at |-> "asking", holder |-> holder,
                                seen |-> {}, todo |-> {}]]
  /\ OnlyRun /\ UNCHANGED faults

\* What the endpoint answers: the notifications of the character, or the
\* structures of the pinned corporation, to a member of it.
Read(r) ==
  LET h == run[r].holder IN
  /\ At(r, "asking")
  /\ run[r].job = "roster" => corp[h.character] = h.corp
  /\ run' = [run EXCEPT ![r].at = "checking",
       ![r].seen = IF run[r].job = "events" THEN received[h.character]
                   ELSE {s \in standing : CorpOfStructure[s] = h.corp}]
  /\ OnlyRun /\ UNCHANGED faults

\* Forbidden, failed, or the process died: what was posted and not yet marked
\* stays pending, and the ten-minute tick is the retry.
Stopped(r) ==
  /\ run[r] # Idle
  /\ IF At(r, "asking") /\ run[r].job = "roster" /\ corp[run[r].holder.character] # run[r].holder.corp
     THEN UNCHANGED faults ELSE Fault
  /\ End(r) /\ OnlyRun

\* The first statement of the transaction.
CheckHolder(r) ==
  /\ At(r, "checking")
  /\ IF StillStructureHolder(run[r].holder) THEN run' = [run EXCEPT ![r].at = "writing"] ELSE End(r)
  /\ OnlyRun /\ UNCHANGED faults

Silent(r) == ~run[r].holder.seeded \/ ~webhook

\* Its writes: new notifications are to be posted, unless this is the first poll
\* of the designation or there is nowhere to post; the first poll says it is done.
RecordEvents(r) ==
  LET h   == run[r].holder
      new == {n \in run[r].seen : alert[n] = "none"}
  IN /\ At(r, "writing") /\ run[r].job = "events"
     /\ alert' = [n \in Notes |-> IF n \in new THEN (IF Silent(r) THEN "seeded" ELSE "pending")
                                  ELSE alert[n]]
     /\ pinned' = [n \in Notes |-> IF n \in new THEN h.corp ELSE pinned[n]]
     /\ holder' = IF h.seeded \/ holder = NoHolder THEN holder ELSE [holder EXCEPT !.seeded = TRUE]
     /\ IF Silent(r) THEN End(r) ELSE run' = [run EXCEPT ![r].at = "rechecking"]
     /\ UNCHANGED <<roster, world, posted, backlog, designations, faults>>

\* Variant, not the code: the rows of every corporation are compared.
ListedAnywhere(h) == {s \in Structures : roster[s] # "unknown"}

Listed(h) == {s \in Structures : roster[s] # "unknown" /\ CorpOfStructure[s] = h.corp}

\* Absent from the answer is stamped, never deleted.
RecordRoster(r) ==
  /\ At(r, "writing") /\ run[r].job = "roster"
  /\ roster' = [s \in Structures |-> IF s \in run[r].seen THEN "present"
                                     ELSE IF s \in Listed(run[r].holder) THEN "missing" ELSE roster[s]]
  /\ End(r)
  /\ UNCHANGED <<holder, alert, pinned, world, posted, backlog, designations, faults>>

\* Before posting, the holder is looked at again, then the rows are chosen.
Recheck(r) ==
  /\ At(r, "rechecking")
  /\ IF StillStructureHolder(run[r].holder) THEN run' = [run EXCEPT ![r].at = "choosing"] ELSE End(r)
  /\ OnlyRun /\ UNCHANGED faults

Choose(r) ==
  /\ At(r, "choosing")
  /\ run' = [run EXCEPT ![r].at = "posting",
       ![r].todo = {n \in Notes : alert[n] = "pending" /\ pinned[n] = run[r].holder.corp}]
  /\ OnlyRun /\ UNCHANGED faults

Next1(r) == CHOOSE n \in run[r].todo : \A m \in run[r].todo : n <= m

Post(r) ==
  /\ At(r, "posting") /\ run[r].todo # {}
  /\ posted' = [posted EXCEPT ![Next1(r)] = @ + 1]
  /\ run' = [run EXCEPT ![r].at = "marking"]
  /\ UNCHANGED <<holder, alert, pinned, roster, world, backlog, designations, faults>>

PostFails(r) ==
  /\ Fault /\ At(r, "posting") /\ run[r].todo # {}
  /\ run' = [run EXCEPT ![r].todo = @ \ {Next1(r)}]
  /\ OnlyRun

StillPending(n) == alert[n] = "pending"

Mark(r) ==
  LET n == Next1(r) IN
  /\ At(r, "marking")
  /\ alert' = IF StillPending(n) THEN [alert EXCEPT ![n] = "sent"] ELSE alert
  /\ run' = [run EXCEPT ![r].at = "posting", ![r].todo = @ \ {n}]
  /\ UNCHANGED <<holder, pinned, roster, world, posted, backlog, designations, faults>>

Finish(r) ==
  /\ At(r, "posting") /\ run[r].todo = {}
  /\ End(r) /\ OnlyRun /\ UNCHANGED faults

Step(r) ==
  \/ \E job \in {"events", "roster"} : Begin(r, job)
  \/ Read(r) \/ Stopped(r) \/ CheckHolder(r) \/ RecordEvents(r) \/ RecordRoster(r)
  \/ Recheck(r) \/ Choose(r) \/ Post(r) \/ PostFails(r) \/ Mark(r) \/ Finish(r)

Next ==
  \/ \E c \in Characters : DesignateStructureHolder(c)
  \/ HolderGone
  \/ \E n \in Notes : Attacked(n)
  \/ \E s \in Structures : Destroyed(s)
  \/ \E c \in Characters, k \in Corps : Moves(c, k)
  \/ \E r \in Runs : Step(r)

Spec == Init /\ [][Next]_vars

-----------------------------------------------------------------------------
\* Rows and runs have the columns and the states of the code.
TypeOK ==
  /\ holder # NoHolder => /\ holder.character \in Characters /\ holder.corp \in Corps
                          /\ holder.stamp \in 1..MaxDesignations /\ holder.seeded \in BOOLEAN
  /\ alert \in [Notes -> AlertStatus]
  /\ \A n \in Notes : (alert[n] = "none") = (pinned[n] = NoHolder)
  /\ roster \in [Structures -> {"unknown", "present", "missing"}]
  /\ posted \in [Notes -> Nat]

\* Whatever overlaps, what became of an alert stands: only what is pending is
\* sent or retired, and it is sent after Discord took it, so that a run which
\* chose it before an admin retired it does not bring it back as sent
\* (structure-events.ts "Conditional, not unconditional"); and a structure is
\* stamped missing only when it is gone, whoever the monitor is pointed at.
AlertsStand ==
  \A n \in Notes : alert'[n] # alert[n] =>
    \/ alert[n] = "none"
    \/ alert[n] = "pending" /\ (alert'[n] = "sent" => posted[n] > 0)
RosterHonest ==
  \A s \in Structures : roster'[s] = "missing" => s \notin standing'
MonitorStands == [][AlertsStand /\ RosterHonest]_vars

\* "seededAt reset to null so the new holder re-seeds rather than replaying a
\* 90-day backlog" (services/structures.ts:47-48): nothing is recorded for
\* posting that had happened before the monitor was pointed at the corporation
\* it is now pinned to.
NoBacklogReplayed ==
  [][\A n \in Notes :
       alert[n] = "none" /\ alert'[n] = "pending" /\ holder # NoHolder =>
         ~(n \in backlog /\ pinned'[n] = holder.corp)]_vars
=============================================================================
