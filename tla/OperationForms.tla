--------------------------- MODULE OperationForms ---------------------------
(* The forms of the payout pages (app/payouts/actions.ts): what an operator    *)
(* typed is validated (validation.ts), priced at triff and EVE if it is loot,  *)
(* and given to one transaction of services/payouts.ts; the answer is a code   *)
(* with what was typed, a redirect, or the error boundary.  Two operators work *)
(* on one operation from pages rendered earlier.  What the services make of    *)
(* the money is Payouts; here an operation is whether it can still be changed, *)
(* its roster of names and its loot.                                           *)
EXTENDS Naturals, Sequences, FiniteSets

CONSTANTS
  Operators, Forms,    \* accounts; submissions
  Names, Alts,         \* names on a roster; of them those that resolve to one human
  MaxPayments, None

Fields == {"name", "occurredAt", "battleReport", "corpShare", "shares", "price", "participant", "flat"}
Plain  == {"roster", "notes", "exclude", "remove", "deletePool"}
Settling == {"finalize", "unlock", "pay", "revert", "delete"}
Kinds  == Fields \cup Plain \cup Settling \cup {"create", "appraise", "openInfo"}
\* The forms that are about one roster row, and about a pool.
OfRow  == {"shares", "exclude", "remove", "pay", "revert", "openInfo"}
OfPool == {"price", "deletePool"}
Priced == {"create", "appraise"}
\* What the schema of a form can refuse it for, the first problem of the first field.
Codes ==
  [name |-> {"name_required"}, occurredAt |-> {"date_invalid"},
   battleReport |-> {"url_invalid", "url_scheme"}, corpShare |-> {"share_format", "share_range"},
   shares |-> {"shares_required", "shares_invalid", "shares_positive", "shares_range"},
   price |-> {"price_invalid"}, participant |-> {"participant_name_required"},
   flat |-> {"note_required", "total_invalid"},
   create |-> {"name_required", "date_invalid", "date_future", "url_invalid", "url_scheme"}]
AllCodes == UNION {Codes[k] : k \in DOMAIN Codes}
\* What may be wrong with a submission, None if it is as it should be.
Problems(kind) == {None} \cup (IF kind \in DOMAIN Codes THEN Codes[kind] ELSE {})

VARIABLES
  op,        \* [state, roster, excluded, paid, payments, pools]
  made,      \* operations created: what each holds
  operator,  \* accounts that may operate (members, active)
  scoped,    \* operators whose main granted the scope to open windows
  opened,    \* windows EVE opened: [by, name]
  done,      \* what was committed: [form, on], on what it found
  form
vars == <<op, made, operator, scoped, opened, done, form>>

Blank == [by |-> None, kind |-> None, name |-> None, loot |-> FALSE, problem |-> None,
          at |-> "typed", answer |-> None, back |-> FALSE]

\* The operation the pages show: in the making, ready, paid in part, or paid back.
Found ==
  {o \in [state : {"draft", "finalized"}, roster : {{}, Names \ Alts}, excluded : {{}}, paid : SUBSET Names,
          payments : 0..2, pools : {0, 1}] :
     /\ o.paid \subseteq o.roster /\ (o.state = "draft" \/ o.roster = {} => o.payments = 0)
     /\ Cardinality(o.paid) <= 1
     /\ (Cardinality(o.paid) = 1) = (o.payments = 1)}
Init ==
  /\ op \in Found
  /\ made = {} /\ operator = Operators /\ opened = {} /\ done = << >>
  /\ scoped \in SUBSET Operators
  /\ form = [f \in Forms |-> Blank]

At(f, stage) == form[f].at = stage
Is(f, kinds) == form[f].kind \in kinds
Name(f)      == form[f].name
Put(f, e)    == form' = [form EXCEPT ![f] = e]
Goes(f, stage)   == Put(f, [form[f] EXCEPT !.at = stage])
Answered(f, a)   == Put(f, [form[f] EXCEPT !.at = "answered", !.answer = a])
\* A code is returned to the form, which still holds what was typed.
Returned(f, code) == Put(f, [form[f] EXCEPT !.at = "answered", !.answer = code, !.back = TRUE])

-----------------------------------------------------------------------------
\* An operator is demoted or frozen, or made one again.
OperatorsChange(a) ==
  /\ operator' = IF a \in operator THEN operator \ {a} ELSE operator \union {a}
  /\ UNCHANGED <<op, made, scoped, opened, done, form>>

\* requireOperatorAccount, and then the schema of the form: only its first problem
\* is told.
Submit(f, a, kind, name, loot, problem) ==
  /\ At(f, "typed") /\ form[f].kind = None
  /\ loot => kind \in Priced
  /\ LET e == [Blank EXCEPT !.by = a, !.kind = kind, !.name = name, !.loot = loot, !.problem = problem]
     IN Put(f, IF a \notin operator THEN [e EXCEPT !.at = "answered", !.answer = "boundary"]
               ELSE IF problem # None THEN [e EXCEPT !.at = "answered", !.answer = problem, !.back = TRUE]
               ELSE [e EXCEPT !.at = IF loot \/ kind = "appraise" THEN "pricing"
                                     ELSE IF kind = "openInfo" THEN "target" ELSE "committing"])
  /\ UNCHANGED <<op, made, operator, scoped, opened, done>>

\* appraiseLoot runs before the transaction: an answer, one that is no use, or
\* something nobody expects.
Price(f, outcome) ==
  /\ At(f, "pricing")
  /\ CASE outcome = "priced"   -> Goes(f, "committing")
       [] outcome = "refused"  -> Returned(f, "appraisal_failed")
       [] outcome = "thrown"   -> Answered(f, "boundary")
  /\ UNCHANGED <<op, made, operator, scoped, opened, done>>

-----------------------------------------------------------------------------
(* The transaction, under the lock of the operation.                          *)

Editable == op.state = "draft" /\ op.payments = 0
\* Variant, not the code: loot that was priced meanwhile is added unasked.
NeededFirst == Fields \cup Plain
Needed   == Fields \cup Plain \cup {"appraise"}

\* Who is the same human: names that resolve share a row.
Same(n, m) == n = m \/ {n, m} \subseteq Alts
Twin(n)    == \E m \in op.roster : Same(n, m)
Duplicate(n) == n \notin Alts /\ n \in op.roster

\* What the services throw.
Thrown(f) ==
  IF form[f].by \notin operator THEN "forbidden"
  ELSE IF Is(f, {"create"}) THEN None
  ELSE IF op.state = "gone" \/ (Is(f, OfRow) /\ Name(f) \notin op.roster) \/ (Is(f, OfPool) /\ op.pools = 0)
  THEN "not_found"
  ELSE IF Is(f, Needed) /\ ~Editable THEN "locked"
  ELSE IF Is(f, {"participant"}) /\ Duplicate(Name(f)) THEN "duplicate"
  ELSE IF Is(f, {"unlock"}) /\ op.state = "finalized" /\ op.payments # 0 THEN "locked"
  ELSE IF Is(f, {"pay"}) /\ (op.state # "finalized" \/ Name(f) \in op.excluded) THEN "locked"
  ELSE IF Is(f, {"revert"}) /\ (op.state # "finalized" \/ Name(f) \notin op.paid) THEN "locked"
  ELSE IF Is(f, {"delete"}) /\ op.paid # {} THEN "has_paid"
  ELSE None

\* Only these are explained; the others are the error boundary's.
Told(f, err) ==
  CASE err = "duplicate" -> Returned(f, "participant_duplicate")
    [] err = "locked" /\ Is(f, {"notes"}) -> Answered(f, "locked")
    [] err = "has_paid"  -> Answered(f, "delete_has_paid")
    [] OTHER -> Answered(f, "boundary")

Effect(f) ==
  LET n == Name(f) IN
  CASE Is(f, {"participant"}) -> [op EXCEPT !.roster = IF Twin(n) THEN @ ELSE @ \union {n}]
    [] Is(f, {"roster"})   -> [op EXCEPT !.roster = {n}, !.excluded = {}]
    [] Is(f, {"exclude"})  -> [op EXCEPT !.excluded = @ \union {n}]
    [] Is(f, {"remove"})   -> [op EXCEPT !.roster = @ \ {n}, !.excluded = @ \ {n}]
    [] Is(f, {"flat", "appraise"}) -> [op EXCEPT !.pools = 1]
    [] Is(f, {"deletePool"}) -> [op EXCEPT !.pools = 0]
    [] Is(f, {"finalize"}) -> [op EXCEPT !.state = "finalized"]
    [] Is(f, {"unlock"})   -> [op EXCEPT !.state = "draft"]
    [] Is(f, {"pay"})      -> IF n \in op.paid THEN op
                              ELSE [op EXCEPT !.paid = @ \union {n}, !.payments = @ + 1]
    [] Is(f, {"revert"})   -> [op EXCEPT !.paid = @ \ {n}, !.payments = @ + 1]
    [] Is(f, {"delete"})   -> [op EXCEPT !.state = "gone", !.roster = {}, !.excluded = {}, !.pools = 0]
    [] OTHER -> op

Committed(f) == done' = Append(done, [form |-> f, on |-> op])
\* createOperationWithContents: the operation, its loot and its roster at once.
Whole(f)   == [form |-> f, loot |-> form[f].loot, roster |-> {Name(f)} \ {None}]

Commit(f) ==
  /\ At(f, "committing")
  /\ Is(f, {"pay", "revert"}) => op.payments < MaxPayments
  /\ IF Thrown(f) # None
     THEN Told(f, Thrown(f)) /\ UNCHANGED <<op, made, done>>
     ELSE /\ Answered(f, IF Is(f, Fields \cup Priced) THEN "ok" ELSE "shown")
          /\ Committed(f)
          /\ op' = Effect(f)
          /\ made' = IF Is(f, {"create"}) THEN made \union {Whole(f)} ELSE made
  /\ UNCHANGED <<operator, scoped, opened>>
\* The transaction fails, and everything in it.
Rollback(f) ==
  /\ At(f, "committing") /\ Answered(f, "boundary")
  /\ UNCHANGED <<op, made, operator, scoped, opened, done>>

-----------------------------------------------------------------------------
(* openInfoAction: reads under no lock, the login's token, and EVE.           *)

\* getOpenInfoTarget: a row that can be paid now.
Payable(n) == op.state = "finalized" /\ n \in op.roster \ op.excluded

OpenTarget(f) ==
  /\ At(f, "target")
  /\ IF form[f].by \notin scoped THEN Answered(f, "open_info_reauth")
     ELSE IF ~Payable(Name(f)) THEN Answered(f, "open_info_target")
     ELSE Goes(f, "token")
  /\ UNCHANGED <<op, made, operator, scoped, opened, done>>
OpenToken(f, code) ==
  /\ At(f, "token")
  /\ IF code = None THEN Goes(f, "window") ELSE Answered(f, code)
  /\ UNCHANGED <<op, made, operator, scoped, opened, done>>
\* EVE opens the window, refuses to, or opens it and is not heard.
OpenWindow(f, opens, code) ==
  /\ At(f, "window")
  /\ opens => code \in {"shown", "open_info_timeout"}
  /\ code = "shown" => opens
  /\ opened' = IF opens THEN opened \union {[by |-> f, name |-> Name(f)]} ELSE opened
  /\ Answered(f, code)
  /\ UNCHANGED <<op, made, operator, scoped, done>>

TokenCodes  == {None, "open_info_reauth", "open_info_failed", "open_info_dry_run"}
WindowCodes == {"shown", "open_info_reauth", "open_info_offline", "open_info_busy",
                "open_info_timeout", "open_info_failed", "boundary"}

Next ==
  \/ \E a \in Operators : OperatorsChange(a)
  \/ \E f \in Forms :
       \/ \E a \in Operators, kind \in Kinds, loot \in BOOLEAN :
            \E name \in (IF kind \in OfRow \cup {"roster", "participant"} THEN Names
                         ELSE IF kind = "create" THEN Names \union {None} ELSE {None}),
               problem \in Problems(kind) :
              Submit(f, a, kind, name, loot, problem)
       \/ \E outcome \in {"priced", "refused", "thrown"} : Price(f, outcome)
       \/ Commit(f) \/ Rollback(f) \/ OpenTarget(f)
       \/ \E code \in TokenCodes : OpenToken(f, code)
       \/ \E opens \in BOOLEAN, code \in WindowCodes : OpenWindow(f, opens, code)
Spec == Init /\ [][Next]_vars

-----------------------------------------------------------------------------
CommitsOf(f) == {i \in DOMAIN done : done[i].form = f}
Unsaved == {"appraisal_failed", "participant_duplicate", "locked", "delete_has_paid", "boundary"}
           \cup AllCodes

\* What a form is told is what became of it, with two operators at work and prices
\* asked for in between: one that was saved was saved once, on an operation that
\* could still be changed; one that is told "nothing was saved" or "created" saved
\* nothing, and where a code is returned what was typed is still there; an
\* operation is created with all of its contents or not at all; and no window is
\* said not to have opened that did.
FormsTellTheTruth ==
  \A f \in Forms : At(f, "answered") =>
    /\ form[f].answer \in Unsaved => CommitsOf(f) = {} /\ \A o \in made : o.form # f
    /\ form[f].answer \in {"ok", "shown"} /\ ~Is(f, {"openInfo"}) => \E i \in DOMAIN done : CommitsOf(f) = {i}
    /\ Is(f, Fields \cup Plain \cup {"appraise"}) =>
         \A i \in CommitsOf(f) : done[i].on.state = "draft" /\ done[i].on.payments = 0
    /\ Is(f, Fields \cup Priced) /\ form[f].answer \notin {"ok", "boundary"} => form[f].back
    /\ Is(f, {"create"}) /\ form[f].answer = "ok" => Whole(f) \in made
    /\ (\E w \in opened : w.by = f) => form[f].answer \in {"shown", "open_info_timeout"}
=============================================================================
