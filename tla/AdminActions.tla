---------------------------- MODULE AdminActions ----------------------------
(* The controls of the admin pages (app/admin/*/actions.ts) over the services  *)
(* they call: admins press them on pages rendered earlier, about one account   *)
(* and one watched list, while the membership job, the member and a merge go   *)
(* their own way.  A press passes the guard (lib/admin-guard.ts), and then one *)
(* transaction decides; most decide anew, under the lock of the account's row, *)
(* whether there is anything to do.  The press is answered with a sentence     *)
(* that says what it did, or sent to a notice.  What the outbox carries to the *)
(* jobs is Outbox, and who may be an admin at all Identity.                    *)
EXTENDS Naturals, Sequences, FiniteSets

CONSTANTS
  Actors, Presses, Target,   \* accounts of admins; presses; the account of the page's row
  Mains,                     \* characters it may have
  MaxAudit,                  \* bound: audit rows of others than the presses
  None, Gone

Tiers  == {"pending", "member", "associate", "alumni"}
\* What can be pressed: the control and what is bound to it.
Pressed ==
  {[op |-> "tier", to |-> t] : t \in Tiers \ {"pending"}}
    \union {[op |-> "approve", to |-> t] : t \in {"alumni", "associate"}}
    \union {[op |-> "status", to |-> s] : s \in {"active", "cryo"}}
    \union {[op |-> "note", to |-> b] : b \in BOOLEAN}
    \union {[op |-> "main", to |-> c] : c \in Mains}
    \union {[op |-> "watch", to |-> b] : b \in BOOLEAN}
    \union {[op |-> o, to |-> None] : o \in {"auto", "discord", "sync", "job"}}
    \union {[op |-> "promote", to |-> Target]}
    \union {[op |-> "demote", to |-> a] : a \in Actors \union {Target}}

VARIABLES
  row,      \* the account (Gone: merged into another)
  chars, watched,
  admin,    \* is_admin
  session,  \* actors whose session stands
  locked,   \* the press that has the account's row locked (None: nobody)
  audit,    \* audit rows, the oldest first: [by, field, from, to]
  press
vars == <<row, chars, watched, admin, session, locked, audit, press>>

RowType == [tier : Tiers, pinned : BOOLEAN, status : {"active", "cryo"}, note : BOOLEAN, discord : BOOLEAN]
Idle == [actor |-> None, does |-> [op |-> None, to |-> None], at |-> "idle", read |-> None, answer |-> None]

Init ==
  /\ row = [tier |-> "pending", pinned |-> FALSE, status |-> "active", note |-> FALSE, discord |-> FALSE]
  /\ chars = Mains /\ watched = FALSE
  /\ admin = [a \in Actors \union {Target} |-> a \in Actors]
  /\ session = Actors
  /\ locked = None /\ audit = << >>
  /\ press = [p \in Presses |-> Idle]

Log(by, field, from, to) == audit' = Append(audit, [by |-> by, field |-> field, from |-> from, to |-> to])
At(p, stage)   == press[p].at = stage
Does(p, ops)   == press[p].does.op \in ops
Value(p)       == press[p].does.to
Put(p, e)      == press' = [press EXCEPT ![p] = e]
Answered(p, a) == Put(p, [press[p] EXCEPT !.at = "answered", !.answer = a, !.read = None])
Goes(p, stage) == Put(p, [press[p] EXCEPT !.at = stage])
Free == locked = None

-----------------------------------------------------------------------------
(* The others.                                                                *)

Quiet == Cardinality({i \in DOMAIN audit : audit[i].by = None}) < MaxAudit /\ Free
\* The membership job decides an unpinned tier.
JobDecides(t) ==
  /\ Quiet /\ row # Gone /\ ~row.pinned /\ row.tier # t
  /\ t = "member" \/ (t = "alumni" /\ row.tier # "pending")
  /\ row' = [row EXCEPT !.tier = t] /\ Log(None, "tier", row.tier, t)
  /\ UNCHANGED <<chars, watched, admin, session, locked, press>>
MemberLinks ==
  /\ Quiet /\ row # Gone /\ ~row.discord
  /\ row' = [row EXCEPT !.discord = TRUE] /\ Log(None, "discord", FALSE, TRUE)
  /\ UNCHANGED <<chars, watched, admin, session, locked, press>>
MemberUnlinks(c) ==
  /\ Free /\ row # Gone /\ chars \ {c} # {} /\ c \in chars
  /\ chars' = chars \ {c}
  /\ UNCHANGED <<row, watched, admin, session, locked, audit, press>>
\* Another account absorbs it, while it has its one character and nothing else that
\* somebody gave it.
MergedAway ==
  /\ Free /\ row # Gone /\ ~admin[Target] /\ Cardinality(chars) = 1
  /\ ~row.pinned /\ row.status = "active" /\ ~row.note /\ ~row.discord
  /\ row' = Gone /\ chars' = {}
  /\ UNCHANGED <<watched, admin, session, locked, audit, press>>
SignsOut(a) ==
  /\ a \in session /\ session' = session \ {a}
  /\ UNCHANGED <<row, chars, watched, admin, locked, audit, press>>

-----------------------------------------------------------------------------
\* resolveAdmin, outside the transaction of the press.
Press(p, a, does) ==
  /\ At(p, "idle")
  /\ Put(p, [Idle EXCEPT !.actor = a, !.does = does,
                         !.at = IF a \in session /\ admin[a] THEN "in" ELSE "answered",
                         !.answer = IF a \notin session THEN "session_expired"
                                    ELSE IF ~admin[a] THEN "not_admin" ELSE None])
  /\ UNCHANGED <<row, chars, watched, admin, session, locked, audit>>

Rowwise == {"tier", "auto", "approve", "status", "note", "main"}
\* isAuthorized: these services ask again, under no lock.
Authorize(p) ==
  /\ At(p, "in") /\ Does(p, Rowwise)
  /\ IF admin[press[p].actor] THEN Goes(p, "queueing") ELSE Answered(p, "not_admin")
  /\ UNCHANGED <<row, chars, watched, admin, session, locked, audit>>

\* Variant, not the code: the row is read under no lock.
ReadTarget(p) ==
  /\ locked' = locked
  /\ Put(p, [press[p] EXCEPT !.at = "deciding", !.read = row])
\* lockTarget: whoever holds the row is waited for.
LockTarget(p) ==
  /\ Free /\ locked' = p
  /\ Put(p, [press[p] EXCEPT !.at = "deciding", !.read = row])

\* setMainCharacter finds the character on the account first.
Found(p) == row # Gone /\ (Does(p, {"main"}) => Value(p) \in chars)
Enter(p) ==
  /\ At(p, "queueing") \/ (At(p, "in") /\ Does(p, {"discord"}))
  /\ IF Found(p) THEN LockTarget(p) ELSE Free /\ Answered(p, "not_found") /\ UNCHANGED locked
  /\ UNCHANGED <<row, chars, watched, admin, session, audit>>

\* What the transaction makes of the row it read: the row, the field that is logged.
Decided(p) ==
  LET r == press[p].read v == Value(p) IN
  CASE Does(p, {"tier"})    -> [r EXCEPT !.tier = v, !.pinned = TRUE]
    [] Does(p, {"approve"}) -> [r EXCEPT !.tier = v, !.pinned = v = "associate"]
    [] Does(p, {"auto"})    -> [r EXCEPT !.pinned = FALSE]
    [] Does(p, {"status"})  -> [r EXCEPT !.status = v]
    [] Does(p, {"note"})    -> [r EXCEPT !.note = v]
    [] Does(p, {"discord"}) -> [r EXCEPT !.discord = FALSE]
    [] OTHER                -> r
Field(p) == CASE Does(p, {"approve", "auto"}) -> "tier" [] OTHER -> press[p].does.op
Refusal(p) ==
  IF Does(p, {"approve"}) /\ press[p].read.tier # "pending" THEN "not_pending"
  ELSE IF Does(p, {"discord"}) /\ ~press[p].read.discord THEN "not_linked"
  ELSE IF Does(p, Rowwise \ {"approve", "main"}) /\ Decided(p) = press[p].read THEN "no_change"
  ELSE None

\* It commits, and lets go of the row.
Commit(p) ==
  /\ At(p, "deciding")
  /\ locked' = IF locked = p THEN None ELSE locked
  /\ IF Refusal(p) # None
     THEN Answered(p, Refusal(p)) /\ UNCHANGED <<row, audit>>
     ELSE /\ Answered(p, "done") /\ row' = Decided(p)
          /\ IF Does(p, {"main"}) THEN Log(p, "main", None, Value(p))
             ELSE Log(p, Field(p), press[p].read[Field(p)], Decided(p)[Field(p)])
  /\ UNCHANGED <<chars, watched, admin, session>>

-----------------------------------------------------------------------------
(* Presses that are one statement, or hold every lock they need.              *)

In(p, op) == At(p, "in") /\ Does(p, {op})
Now == {a \in DOMAIN admin : admin[a]}

Promote(p) ==
  /\ In(p, "promote") /\ Free
  /\ IF press[p].actor \notin Now THEN Answered(p, "not_admin") /\ UNCHANGED <<admin, audit>>
     ELSE IF row = Gone THEN Answered(p, "not_found") /\ UNCHANGED <<admin, audit>>
     ELSE /\ Answered(p, "done") /\ admin' = [admin EXCEPT ![Target] = TRUE]
          /\ IF admin[Target] THEN UNCHANGED audit ELSE Log(p, "admin", FALSE, TRUE)
  /\ UNCHANGED <<row, chars, watched, session, locked>>
\* An account that is no admin, or no longer there, is "revoked" as well.
Demote(p) ==
  /\ In(p, "demote") /\ Free
  /\ IF press[p].actor \notin Now THEN Answered(p, "not_admin") /\ UNCHANGED <<admin, audit>>
     ELSE IF Now \ {Value(p)} = {} THEN Answered(p, "last_admin") /\ UNCHANGED <<admin, audit>>
     ELSE /\ Answered(p, "done") /\ admin' = [admin EXCEPT ![Value(p)] = FALSE]
          /\ Log(p, "revoked", None, Value(p))
  /\ UNCHANGED <<row, chars, watched, session, locked>>
\* A sync is asked for, of a job or of the account, whatever became of it.
Asked(p, op) ==
  /\ In(p, op) /\ Answered(p, "done") /\ Log(p, op, None, None)
  /\ UNCHANGED <<row, chars, watched, admin, session, locked>>
Sync(p)    == Asked(p, "sync")
SyncJob(p) == Asked(p, "job")
\* addWatch and removeWatch: the statement tells whether there was anything to do.
Watch(p) ==
  /\ In(p, "watch")
  /\ IF watched = Value(p)
     THEN Answered(p, "no_change") /\ UNCHANGED <<watched, audit>>
     ELSE Answered(p, "done") /\ watched' = Value(p) /\ Log(p, "watch", watched, Value(p))
  /\ UNCHANGED <<row, chars, admin, session, locked>>

Next ==
  \/ \E t \in Tiers \ {"pending"} : JobDecides(t)
  \/ MemberLinks \/ MergedAway
  \/ \E c \in Mains : MemberUnlinks(c)
  \/ \E a \in Actors : SignsOut(a)
  \/ \E p \in Presses :
       \/ \E a \in Actors, does \in Pressed : Press(p, a, does)
       \/ Authorize(p) \/ Enter(p) \/ Commit(p)
       \/ Promote(p) \/ Demote(p) \/ Sync(p) \/ SyncJob(p) \/ Watch(p)
Spec == Init /\ [][Next]_vars

-----------------------------------------------------------------------------
RowsOf(p)  == {i \in DOMAIN audit : audit[i].by = p}
About(f)   == {i \in DOMAIN audit : audit[i].field = f}
Told(p, a) == press[p].at = "answered" /\ press[p].answer = a
Stands(f) == CASE f = "watch" -> watched [] f = "admin" -> admin[Target] [] OTHER -> row[f]

\* The log tells the story: what it says of a field hangs together row by row and
\* ends with what the field holds, with presses of two admins, the job and the
\* member about the same row.
LogHangsTogether ==
  \A f \in {"tier", "status", "note", "discord", "watch"} :
    /\ \A i, j \in About(f) :
         i < j /\ (\A k \in About(f) : k <= i \/ j <= k) => audit[i].to = audit[j].from
    /\ row # Gone \/ f = "watch" =>
         \A i \in About(f) : (\A k \in About(f) : k <= i) => audit[i].to = Stands(f)

\* And so do the sentences: who is told it is done did it, and it is in the log,
\* once; who is told that there was nothing to do, or no longer, wrote nothing;
\* an approval that came too late had another decision before it.
AnswersAreTrue ==
  /\ LogHangsTogether
  /\ \A p \in Presses : At(p, "answered") =>
       /\ RowsOf(p) # {} => press[p].answer = "done" /\ \E i \in DOMAIN audit : RowsOf(p) = {i}
       /\ Told(p, "done") /\ ~Does(p, {"promote"}) => RowsOf(p) # {}
       /\ Told(p, "done") /\ Does(p, {"status", "note", "discord", "watch", "approve"}) =>
            \A i \in RowsOf(p) : audit[i].from # audit[i].to
       /\ Told(p, "not_pending") => \E i \in About("tier") : audit[i].from = "pending"
=============================================================================
