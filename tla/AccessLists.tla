----------------------------- MODULE AccessLists -----------------------------
(* The access-list monitor: the character whose token reads the lists and the  *)
(* lists the admins watch (services/access-lists.ts, app/admin/access-lists),  *)
(* the hourly job that reads them (jobs/access-lists.ts), and what the page    *)
(* says of a list (core/access-list-compare.ts, app/admin/access-lists/        *)
(* view.ts).  Runs may overlap and an admin may designate another holder at    *)
(* any moment.  A transaction of the job reads whether its holder is still the *)
(* designated one and then writes, under READ COMMITTED and without a lock.    *)
EXTENDS Naturals, FiniteSets

CONSTANTS
  Characters, Lists, Runs,
  Contents,          \* what a list may hold: sets of characters and corporations
  MaxDesignations, MaxChanges, MaxFaults,  \* bounds
  None, NoRun

(* holder is the one row of access_list_holder, watch is access_list_watch,    *)
(* catalog says who saw a list of access_list_catalog; snapshot and entries    *)
(* are a list's rows.  sees and content are the game.  late counts, for each   *)
(* run, the transactions it last wrote in a row while another was the holder:  *)
(* history.                                                                    *)
VARIABLES holder, granted, watch, catalog, snapshot, entries, sees, content, run, late,
          designations, changes, faults
tables == <<holder, granted, watch, catalog, snapshot, entries>>
world  == <<sees, content>>
vars   == <<tables, world, run, late, designations, changes, faults>>

NoSnapshot == [status |-> None, observed |-> FALSE, observer |-> None]

Init ==
  /\ holder = None /\ granted = Characters /\ watch = {}
  /\ catalog = [l \in Lists |-> None]
  /\ snapshot = [l \in Lists |-> NoSnapshot] /\ entries = [l \in Lists |-> {}]
  /\ sees \in [Characters -> SUBSET Lists] /\ content \in [Lists -> Contents]
  /\ run = [r \in Runs |-> NoRun] /\ late = [r \in Runs |-> 0]
  /\ designations = 0 /\ changes = 0 /\ faults = 0

Fault  == faults < MaxFaults /\ faults' = faults + 1
Change == changes < MaxChanges /\ changes' = changes + 1

-----------------------------------------------------------------------------
(* The admins.  Any character that granted the scope may be designated; adding *)
(* a watched list and removing an unwatched one change nothing.                *)

DesignateHolder(c) ==
  /\ designations < MaxDesignations /\ designations' = designations + 1
  /\ holder' = c
  /\ UNCHANGED <<granted, watch, catalog, snapshot, entries, world, run, late, changes, faults>>

AddWatch(l) ==
  /\ l \notin watch /\ watch' = watch \union {l}
  /\ UNCHANGED <<holder, granted, catalog, snapshot, entries, world, run, late,
                 designations, changes, faults>>
RemoveWatch(l) ==
  /\ l \in watch /\ Change /\ watch' = watch \ {l}
  /\ UNCHANGED <<holder, granted, catalog, snapshot, entries, world, run, late, designations, faults>>

\* The holder signs in again without the scope; it is deleted, and its row goes.
ScopeDropped(c) ==
  /\ c \in granted /\ Change /\ granted' = granted \ {c}
  /\ UNCHANGED <<holder, watch, catalog, snapshot, entries, world, run, late, designations, faults>>
HolderGone ==
  /\ holder # None /\ Change /\ holder' = None
  /\ UNCHANGED <<granted, watch, catalog, snapshot, entries, world, run, late, designations, faults>>

\* The game: a list is opened to a character or closed to it, or edited.
Regranted(c, S) ==
  /\ Change /\ sees[c] # S /\ sees' = [sees EXCEPT ![c] = S]
  /\ UNCHANGED <<tables, content, run, late, designations, faults>>
Edited(l, E) ==
  /\ Change /\ content[l] # E /\ content' = [content EXCEPT ![l] = E]
  /\ UNCHANGED <<tables, sees, run, late, designations, faults>>

-----------------------------------------------------------------------------
(* The job. *)

At(r, at)  == run[r] # NoRun /\ run[r].at = at
End(r)     == run' = [run EXCEPT ![r] = NoRun] /\ late' = [late EXCEPT ![r] = 0]
OnlyRun    == UNCHANGED <<tables, world, designations, changes>>
\* Variant, not the code: a failed read is written without asking.
OnlyReadsAsk(r) == run[r].status # "ok" \/ holder = run[r].character
StillHolder(r) == holder = run[r].character

\* No holder or no scope: the run is over before it has read anything.
Begin(r) ==
  /\ run[r] = NoRun /\ holder # None /\ holder \in granted
  /\ run' = [run EXCEPT ![r] = [at |-> "discovering", character |-> holder, found |-> {},
                                named |-> {}, todo |-> {}, status |-> None, seen |-> {}, reading |-> {}]]
  /\ UNCHANGED late /\ OnlyRun /\ UNCHANGED faults

\* The token refresh, the discovery or the process fails; pg-boss retries.
Stopped(r) == run[r] # NoRun /\ Fault /\ End(r) /\ OnlyRun

\* Ids from discovery; a name for each id the catalog does not have, of which
\* some fail and stay out.
Discover(r) ==
  LET found == sees[run[r].character] IN
  /\ At(r, "discovering")
  /\ \E missed \in SUBSET {l \in found : catalog[l] = None} :
       /\ IF missed = {} THEN UNCHANGED faults ELSE Fault
       /\ run' = [run EXCEPT ![r].at = "reconciling", ![r].found = found,
                             ![r].named = found \ missed]
  /\ UNCHANGED late /\ OnlyRun

\* The first statement of each transaction: another holder ends the run.
Ask(r, from, to) ==
  /\ At(r, from)
  /\ IF StillHolder(r)
     THEN /\ run' = [run EXCEPT ![r].at = to]
          /\ late' = [late EXCEPT ![r] = IF holder = run[r].character THEN 0 ELSE @]
     ELSE End(r)
  /\ OnlyRun /\ UNCHANGED faults
AskReconcile(r) == Ask(r, "reconciling", "cataloguing")
AskWrite(r)     == Ask(r, "asking", "writing")

Wrote(r) == late' = [late EXCEPT ![r] = IF holder = run[r].character THEN @ ELSE @ + 1]

\* The catalog keeps what this holder was shown and can name; the watch list is
\* read after it.
Reconcile(r) ==
  /\ At(r, "cataloguing")
  /\ catalog' = [l \in Lists |-> IF l \in run[r].named THEN run[r].character ELSE None]
  /\ run' = [run EXCEPT ![r].at = "reading", ![r].todo = watch]
  /\ Wrote(r)
  /\ UNCHANGED <<holder, granted, watch, snapshot, entries, world, designations, changes, faults>>

\* One watched list: not looked at when discovery did not show it; 403 and 404
\* for a list closed since; or a failure.
ReadList(r, l) ==
  /\ At(r, "reading") /\ l \in run[r].todo
  /\ \E status \in {"ok", "not_visible", "failed"} :
       /\ status = "ok" => l \in run[r].found /\ l \in sees[run[r].character]
       /\ status = "not_visible" => ~(l \in run[r].found /\ l \in sees[run[r].character])
       /\ status = "failed" => l \in run[r].found
       /\ IF status = "failed" THEN Fault ELSE UNCHANGED faults
       /\ run' = [run EXCEPT ![r].at = "asking", ![r].status = status, ![r].seen = {l},
                             ![r].reading = content[l]]
  /\ UNCHANGED late /\ OnlyRun

\* An attempt moves the observer and the status; a reading replaces the entries
\* and, where the catalog still has the list, its name.
Write(r) ==
  LET l == CHOOSE l \in run[r].seen : TRUE IN
  /\ At(r, "writing")
  /\ snapshot' = [snapshot EXCEPT ![l] =
       [status |-> run[r].status, observer |-> run[r].character,
        observed |-> @.observed \/ run[r].status = "ok"]]
  /\ entries' = IF run[r].status = "ok" THEN [entries EXCEPT ![l] = run[r].reading] ELSE entries
  /\ run' = [run EXCEPT ![r].at = "reading", ![r].todo = @ \ {l}, ![r].seen = {},
                         ![r].reading = {}]
  /\ Wrote(r)
  /\ UNCHANGED <<holder, granted, watch, catalog, world, designations, changes, faults>>

Finish(r) ==
  /\ At(r, "reading") /\ run[r].todo = {}
  /\ End(r) /\ OnlyRun /\ UNCHANGED faults

Next ==
  \/ \E c \in Characters : DesignateHolder(c) \/ ScopeDropped(c)
  \/ HolderGone
  \/ \E l \in Lists : AddWatch(l) \/ RemoveWatch(l)
  \/ \E c \in Characters, S \in SUBSET Lists : Regranted(c, S)
  \/ \E l \in Lists, E \in Contents : Edited(l, E)
  \/ \E r \in Runs : \/ Begin(r) \/ Stopped(r) \/ Discover(r) \/ AskReconcile(r) \/ Reconcile(r)
                     \/ AskWrite(r) \/ Write(r) \/ Finish(r)
                     \/ \E l \in Lists : ReadList(r, l)
Spec == Init /\ [][Next]_vars

-----------------------------------------------------------------------------
\* Different holders see different lists, so a run whose holder was replaced is
\* to discard what it read (stillHolder).  What it has asked it may still write,
\* since nothing is locked, but never a second time: whether it read a list,
\* failed to, or reconciled the catalog, between two questions answered yes a run
\* writes at most once for a replaced holder.
SupersededWritesOnce == \A r \in Runs : late[r] <= 1
==============================================================================
