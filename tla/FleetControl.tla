---------------------------- MODULE FleetControl -----------------------------
(* What the control of automatic sharing and of sources answers               *)
(* (services/fleet-automatic.ts, services/fleet-source.ts, the schemas of     *)
(* core/fleet-automatic.ts).  A device or, for Off, a browser sends a command *)
(* with what it saw and repeats it until it hears; the receipt recognises the *)
(* repetition, for a day.  Every answer carries the status as it is now, and  *)
(* is held against the schema and the command before the transaction commits: *)
(* an answer that fails takes the command back, whatever the member wanted.   *)
(*                                                                            *)
(* A handler locks the account, its devices and its sources before it reads   *)
(* the clock, so it is one step.  What a discovery does between its steps is  *)
(* FleetAutomatic's; here a source of the consent just arrives.               *)
EXTENDS Naturals, FiniteSets

CONSTANTS
  Requests, Sources, Devices,
  IntentTTL, ReceiptTTL, Retention,   \* a minute, a day and a day
  MaxNow, MaxGen,                     \* bounds: the clock, consents ever given
  Browser, Discovery, None

\* consent, the fleet_automatic_consent row; src, the fleet_source_intent rows
\* with the receipt of their Stop; kept, fleet_automatic_receipt; started, when
\* the client decided on each Start.  halted is history: what was stopped; and
\* unanswered says that an answer failed its own check.
VARIABLES consent, src, kept, revoked, started, now, halted, unanswered
vars == <<consent, src, kept, revoked, started, now, halted, unanswered>>

Absent == [gen |-> 0, rev |-> 0, on |-> FALSE, by |-> None, at |-> None, off |-> None]
NoRow  == [state |-> "none", cgen |-> 0, gen |-> 0, stopped |-> FALSE, until |-> 0, stop |-> None]

Init ==
  /\ consent = Absent
  /\ src = [s \in Sources |-> NoRow]
  /\ kept = {} /\ revoked = {} /\ halted = {}
  /\ started = [s \in Sources |-> None]
  /\ now = 0 /\ unanswered = FALSE

Later(a, b) == IF a > b THEN a ELSE b

\* Variant, not the code: the clock is read before the locks are waited for.
ReadEarly == 0..now
\* fleetDatabaseNow, in every handler after its locks.
Clock == {now}

-----------------------------------------------------------------------------
(* What the code says of its own answers.                                     *)

\* ConsentSchema
ValidConsent(c) ==
  IF c.gen = 0 THEN c = Absent
  ELSE /\ c.rev >= c.gen /\ c.by # None /\ c.at # None
       /\ IF c.on THEN c.off = None ELSE c.off # None /\ c.off >= c.at

\* Which of statusFor's conditions, taken in its order, holds first.
Conditions == {"global_disabled", "member_required", "ready", "verifying", "reconnecting",
               "capacity_limited", "refused", "waiting_for_grant", "waiting_for_fleet"}

\* statusFor, for the device or the browser that asks.
Status(c, rows, gone, actor, first, due) ==
  LET approver == IF c.gen = 0 THEN "none" ELSE IF c.by \in gone THEN "revoked"
                  ELSE IF c.by = actor THEN "this_device" ELSE "other_device"
      lost == approver = "revoked" /\ first \notin {"global_disabled", "member_required"}
      S(readiness, action, retry) ==
        [consent |-> c, approver |-> approver, readiness |-> readiness, action |-> action, retry |-> retry,
         sources |-> {s \in Sources : rows[s].state = "live" /\ rows[s].cgen = c.gen}]
  IN CASE ~c.on -> [S("off", "none", None) EXCEPT !.sources = {}]
       [] c.on /\ lost -> S("authorization_required", "reauthorize_automatic", None)
       [] c.on /\ ~lost /\ first = "member_required" -> S(first, "restore_membership", None)
       [] c.on /\ ~lost /\ first = "refused" -> S("authorization_required", "authorize_fleet_read", None)
       [] c.on /\ ~lost /\ first = "waiting_for_grant" -> S(first, "authorize_fleet_read", None)
       [] c.on /\ ~lost /\ first = "reconnecting" -> S(first, "wait", due)
       [] c.on /\ ~lost /\ first \in {"global_disabled", "capacity_limited"} -> S(first, "wait", None)
       [] c.on /\ ~lost /\ first \in {"ready", "verifying", "waiting_for_fleet"} -> S(first, "none", None)

\* validStatus
ValidStatus(st, rows) ==
  /\ ValidConsent(st.consent)
  /\ (st.consent.gen = 0) = (st.approver = "none")
  /\ IF ~st.consent.on
     THEN st.readiness = "off" /\ st.action = "none" /\ st.retry = None /\ st.sources = {}
     ELSE /\ st.readiness # "off"
          /\ \A s \in st.sources : rows[s].cgen = st.consent.gen
          /\ st.approver = "revoked" =>
               st.readiness \in {"global_disabled", "member_required", "authorization_required"}
          /\ st.retry # None => st.readiness \in {"global_disabled", "capacity_limited", "reconnecting"}
          /\ st.action = CASE st.readiness \in {"global_disabled", "capacity_limited", "reconnecting"} -> "wait"
                           [] st.readiness = "member_required" -> "restore_membership"
                           [] st.readiness = "waiting_for_grant" -> "authorize_fleet_read"
                           [] st.readiness = "authorization_required" ->
                                IF st.approver = "revoked" THEN "reauthorize_automatic" ELSE "authorize_fleet_read"
                           [] OTHER -> "none"

\* currentAfterReceipt: a consent goes from on to off once, then a new one follows.
After(c, h) ==
  /\ c.rev >= h.rev /\ c.gen >= h.gen
  /\ c.rev = h.rev => c = h
  /\ c.rev > h.rev /\ c.gen = h.gen =>
       h.on /\ ~c.on /\ c.rev = h.rev + 1 /\ c.by = h.by /\ c.at = h.at

\* receiptTimes
ValidTimes(r, timely) ==
  /\ r.until = r.at + ReceiptTTL
  /\ r.cmd.intent <= r.at /\ (timely => r.at - r.cmd.intent < IntentTTL)
  /\ r.consent.at # None => r.consent.at <= r.at
  /\ r.consent.off # None => r.consent.off <= r.at

\* AutomaticReceiptSchema
ValidReceipt(r) ==
  /\ ValidConsent(r.consent) /\ ValidTimes(r, r.cmd.on)
  /\ r.consent.on = r.cmd.on
  /\ r.consent.gen = r.cmd.gen + (IF r.cmd.on THEN 1 ELSE 0)
  /\ r.consent.rev = r.cmd.rev + 1

\* validStopEffect
ValidEffect(effect, row, c) ==
  /\ row.state = "ended"
  /\ CASE effect \in {"manual_only", "unknown_cancelled"} -> row.cgen = 0
       [] effect \in {"disabled_current", "current_already_off"} -> row.cgen = c.gen /\ row.cgen # 0 /\ ~c.on
       [] effect = "older_generation_only" -> row.cgen # 0 /\ row.cgen < c.gen

\* SourceStopReceiptSchema, stopSourceMatches
ValidStop(r) ==
  /\ ValidConsent(r.consent) /\ ValidTimes(r, TRUE)
  /\ r.cmd.auto = r.view.cgen /\ ValidEffect(r.effect, r.view, r.consent)
  /\ IF r.effect = "unknown_cancelled" THEN r.cmd.gen = 0 /\ r.cmd.auto = 0 /\ r.view.gen = 1
     ELSE r.cmd.gen > 0 /\ r.view.gen \in {r.cmd.gen, r.cmd.gen + 1}

\* One answer: the status as it is, with the condition that happens to hold.
Statuses(c, rows, actor) ==
  {Status(c, rows, revoked, actor, f, d) : f \in Conditions, d \in {None, now}}
Passes(c, rows, actor) == \A st \in Statuses(c, rows, actor) : ValidStatus(st, rows)

\* A handler commits what it did if its answer passes, and takes it back if not.
Answer(valid, c, rows, receipts) ==
  IF valid THEN consent' = c /\ src' = rows /\ kept' = receipts /\ UNCHANGED unanswered
  ELSE unanswered' = TRUE /\ UNCHANGED <<consent, src, kept>>

-----------------------------------------------------------------------------
(* Commands.                                                                  *)

Stops == {src[s].stop : s \in Sources} \ {None}
\* receiptFor
Found(q, t) == {r \in kept \union Stops : r.cmd.id = q /\ r.until > t}

EndedRow(row, t) == [row EXCEPT !.state = "ended", !.gen = @ + 1, !.until = Later(@, t + Retention)]
EndedOf(g, t) == [s \in Sources |-> IF src[s].state = "live" /\ src[s].cgen = g THEN EndedRow(src[s], t) ELSE src[s]]

\* closeGeneration
ClosedAt(t) == [consent EXCEPT !.on = FALSE, !.rev = @ + 1, !.off = t]
\* applyFleetAutomaticCommand, for On
OpenedAt(t, d) == [gen |-> consent.gen + 1, rev |-> consent.rev + 1, on |-> TRUE, by |-> d, at |-> t, off |-> None]

\* Variant, not the code: the status is read before the command takes effect.
StatusFirst(c) == consent
StatusAfter(c) == c

\* What a client that sees the state of now may send.
Fresh(q, onOff, intent) ==
  [id |-> q, on |-> onOff, intent |-> intent, gen |-> consent.gen, rev |-> consent.rev]

\* validateNewCommand and applyFleetAutomaticCommand.
Apply(m, actor, t) ==
  /\ Found(m.id, t) = {}
  /\ m.gen = consent.gen /\ m.rev = consent.rev
  /\ m.intent <= t /\ (m.on => t - m.intent < IntentTTL)
  /\ LET c == IF m.on THEN OpenedAt(t, actor) ELSE ClosedAt(t)
         rows == IF consent.on THEN EndedOf(consent.gen, t) ELSE src
         r == [kind |-> "automatic", cmd |-> m, at |-> t, until |-> t + ReceiptTTL, consent |-> c]
         told == StatusAfter(c)
     IN IF ~m.on /\ ~consent.on
        THEN Answer(Passes(consent, src, actor), consent, src, kept)
        ELSE Answer(ValidReceipt(r) /\ Passes(told, rows, actor) /\ After(told, c), c, rows,
                    {k \in kept : k.until > t} \union {r})
  /\ UNCHANGED <<revoked, started, now, halted>>

\* The same command again; another under its id is a conflict and says nothing.
Replay(m, actor, t) ==
  /\ \E r \in Found(m.id, t) : r.kind = "automatic" /\ r.cmd = m
       /\ Answer(Passes(consent, src, actor) /\ After(consent, r.consent), consent, src, kept)
  /\ UNCHANGED <<revoked, started, now, halted>>

\* controlFleetAutomatic and turnOffFleetAutomaticForBrowser send what the client
\* saw; a browser asks only for Off.
ControlAutomatic(q, onOff, intent, d, t) == Apply(Fresh(q, onOff, intent), d, t)
TurnOff(q, intent, t) == Apply(Fresh(q, FALSE, intent), Browser, t)

ReadStatus(d) ==
  /\ Answer(Passes(consent, src, d), consent, src, kept)
  /\ UNCHANGED <<revoked, started, now, halted>>

\* A browser is told of a device of the account, not of which.
BrowserView(st) == [st EXCEPT !.approver = IF @ \in {"none", "revoked"} THEN @ ELSE "account_device"]
ReadView ==
  /\ Answer(\A st \in Statuses(consent, src, Browser) : ValidStatus(BrowserView(st), src), consent, src, kept)
  /\ UNCHANGED <<revoked, started, now, halted>>

\* A receipt in both stores would have no answer.
ReadReceipt(q, d, t) ==
  /\ Found(q, t) # {}
  /\ Answer(/\ Passes(consent, src, d) /\ Cardinality(Found(q, t)) = 1
            /\ \A r \in Found(q, t) : After(consent, r.consent), consent, src, kept)
  /\ UNCHANGED <<revoked, started, now, halted>>

-----------------------------------------------------------------------------
(* Sources.                                                                   *)

\* Variant, not the code: a Start is taken whenever it comes.
AtAnyAge(intent, t) == intent <= t
\* fresh
FreshAt(intent, t) == intent <= t /\ t - intent < IntentTTL

\* The client decides to start a source; start, until it is too late.
Decide(s) ==
  /\ started[s] = None /\ src[s].state = "none"
  /\ started' = [started EXCEPT ![s] = now]
  /\ UNCHANGED <<consent, src, kept, revoked, now, halted, unanswered>>
Start(s, t) ==
  /\ started[s] \notin {None, Discovery} /\ src[s].state = "none"
  /\ FreshAt(started[s], t)
  /\ src' = [src EXCEPT ![s] = [NoRow EXCEPT !.state = "live", !.gen = 1,
                                 !.until = started[s] + IntentTTL + Retention]]
  /\ UNCHANGED <<consent, kept, revoked, started, now, halted, unanswered>>

\* A discovery commits a source of the consent (FleetAutomatic's Commit).
Arrive(s) ==
  /\ consent.on /\ src[s].state = "none" /\ started[s] = None
  /\ src' = [src EXCEPT ![s] = [NoRow EXCEPT !.state = "live", !.gen = 1, !.cgen = consent.gen,
                                 !.until = now + IntentTTL + Retention]]
  /\ started' = [started EXCEPT ![s] = Discovery]
  /\ UNCHANGED <<consent, kept, revoked, now, halted, unanswered>>
\* A source ends on its own: no opt-out, and no receipt.
Ends(s) ==
  /\ src[s].state = "live"
  /\ src' = [src EXCEPT ![s] = EndedRow(@, now)]
  /\ UNCHANGED <<consent, kept, revoked, started, now, halted, unanswered>>

\* A stopped source is kept at least as long as the receipt in it.
KeptForReceipt(row, t) == [row EXCEPT !.until = Later(@, t + ReceiptTTL)]

\* closeFleetAutomaticForSourceStop
Effect(row) == IF row.cgen = 0 THEN "manual_only"
               ELSE IF row.cgen < consent.gen THEN "older_generation_only"
               ELSE IF consent.on THEN "disabled_current" ELSE "current_already_off"

\* stop: of a source, ended or not, or of one nobody has heard of yet.
Stop(q, s, intent, d, t) ==
  LET old == src[s]
      unknown == old.state = "none"
      row == IF unknown THEN [NoRow EXCEPT !.state = "ended", !.gen = 1, !.until = t + IntentTTL + Retention]
             ELSE old
      m == [id |-> q, intent |-> intent, source |-> s, gen |-> old.gen, auto |-> old.cgen]
      effect == IF unknown THEN "unknown_cancelled" ELSE Effect(old)
      closes == effect = "disabled_current"
      c == IF closes THEN ClosedAt(t) ELSE consent
      rows == IF closes THEN EndedOf(consent.gen, t) ELSE src
      ended == IF row.state = "live" THEN EndedRow(row, t) ELSE row
      r == [kind |-> "source_stop", cmd |-> m, at |-> t, until |-> t + ReceiptTTL, consent |-> c,
            effect |-> effect, view |-> [state |-> "ended", gen |-> ended.gen, cgen |-> ended.cgen]]
  IN
  /\ Found(q, t) = {} /\ FreshAt(intent, t)
  /\ started[s] # None \/ old.state # "none"
  /\ IF old.stopped
     THEN Answer(/\ ~closes /\ ValidEffect(effect, old, consent) /\ Passes(consent, src, d), consent, src, kept)
     ELSE Answer(ValidStop(r) /\ Passes(StatusAfter(c), rows, d) /\ After(StatusAfter(c), c), c,
                 [rows EXCEPT ![s] = KeptForReceipt([ended EXCEPT !.stopped = TRUE, !.stop = r], t)], kept)
  /\ halted' = IF unanswered' THEN halted ELSE halted \union {s}
  /\ UNCHANGED <<revoked, started, now>>

\* stop, again: the receipt answers, with the status of now.
StopAgain(s, d, t) ==
  LET r == src[s].stop IN
  /\ r # None /\ r.until > t
  /\ Answer(After(consent, r.consent) /\ Passes(consent, src, d), consent, src, kept)
  /\ UNCHANGED <<revoked, started, now, halted>>

\* A signed command for a source: its effect and its answer are one transaction.
ControlFleetSource(s, d, t) ==
  Start(s, t) \/ StopAgain(s, d, t) \/ \E q \in Requests, i \in 0..now : Stop(q, s, i, d, t)

-----------------------------------------------------------------------------
\* revokeFleetAutomaticApproval
Revoke(d, t) ==
  /\ d \notin revoked
  /\ revoked' = revoked \union {d}
  /\ IF consent.on /\ consent.by = d THEN consent' = ClosedAt(t) /\ src' = EndedOf(consent.gen, t)
     ELSE UNCHANGED <<consent, src>>
  /\ UNCHANGED <<kept, started, now, halted, unanswered>>

\* purgeExpiredFleetSourceIntents, with the receipt in the row.
Purge(s) ==
  /\ src[s].state = "ended" /\ src[s].until <= now
  /\ src' = [src EXCEPT ![s] = NoRow]
  /\ UNCHANGED <<consent, kept, revoked, started, now, halted, unanswered>>

Tick == now < MaxNow /\ now' = now + 1
        /\ UNCHANGED <<consent, src, kept, revoked, started, halted, unanswered>>

Live == Devices \ revoked

Next ==
  \/ \E q \in Requests, i \in 0..now, t \in Clock :
       \/ \E d \in Live, o \in BOOLEAN : (o => consent.gen < MaxGen) /\ ControlAutomatic(q, o, i, d, t)
       \/ TurnOff(q, i, t)
  \/ \E r \in kept, d \in Live \union {Browser}, t \in Clock :
       (d = Browser => ~r.cmd.on) /\ Replay(r.cmd, d, t)
  \/ \E q \in Requests, d \in Live, t \in Clock : ReadReceipt(q, d, t)
  \/ ReadView \/ \E d \in Live : ReadStatus(d)
  \/ \E s \in Sources : Decide(s) \/ Arrive(s) \/ Ends(s) \/ Purge(s)
  \/ \E s \in Sources, d \in Live, t \in Clock : ControlFleetSource(s, d, t)
  \/ \E d \in Live, t \in Clock : Revoke(d, t)
  \/ Tick
Spec == Init /\ [][Next]_vars

-----------------------------------------------------------------------------
\* No command, no Stop and no question fails because the answer contradicts
\* itself, the receipt or the consent as it has become: what the member turns
\* off is off, though commands, losses and expiries came in between.
AnswersPass == ~unanswered

\* A source that was stopped, or called off before its Start arrived, is never
\* started by the Start that comes late, not even when its row is purged.
StopIsFinal == \A s \in halted : src[s].state # "live"
=============================================================================
