------------------------------ MODULE MCConsole ------------------------------
(* What admins and operators set going: the controls of the admin pages, the  *)
(* forms of the payout pages, and the queues through which what was asked for *)
(* reaches the jobs.  These parts share no state with one another here, so    *)
(* the initial state says which of them moves.                                *)
EXTENDS Outbox, TLC

CONSTANTS
  a1, c1, c2, r1, r2,                                  \* what the cfg's sets are made of
  Actors, Presses, Target, Mains, MaxAudit, Gone,      \* of the admin pages
  Operators, Forms, Names, Alts, MaxPayments,          \* of the payout pages
  None

VARIABLES
  moving,
  shown, chars, watched, admin, session, locked, audit, press,               \* AdminActions
  op, made, operator, scoped, opened, done, form                             \* OperationForms

adminVars  == <<shown, chars, watched, admin, session, locked, audit, press>>
formVars   == <<op, made, operator, scoped, opened, done, form>>
allvars    == <<vars, moving, adminVars, formVars>>

Wakes == {[kind |-> "account", account |-> a1],
          [kind |-> "discord-user", user |-> a1],
          [kind |-> "job", jobType |-> "discord-roles"],
          [kind |-> "unknown"]}

Console == INSTANCE AdminActions WITH row <- shown
Ops == INSTANCE OperationForms

\* No press and no refusal is the marker of absence, and an account that is there is not gone.
ASSUME ConsoleAssumption ==
  /\ None \notin Presses \union {"forbidden", "not_found", "locked", "duplicate", "has_paid",
                               "not_pending", "not_linked", "no_change"}
  /\ Gone \notin Console!RowType

\* What does not move starts in one state.
MCInit ==
  /\ moving \in {"queues", "console", "forms"}
  /\ Init /\ Console!Init /\ Ops!Init
  /\ op.pools = IF op.roster = {} THEN 0 ELSE 1
  /\ moving # "forms" => scoped = {} /\ op.state = "draft" /\ op.roster = {}

QueuesMove   == moving = "queues" /\ Next /\ UNCHANGED <<moving, adminVars, formVars>>
ConsoleMoves == moving = "console" /\ Console!Next /\ UNCHANGED <<moving, vars, formVars>>
FormsMove    == moving = "forms" /\ Ops!Next /\ UNCHANGED <<moving, vars, adminVars>>
MCNext == QueuesMove \/ ConsoleMoves \/ FormsMove
MCSpec == MCInit /\ [][MCNext]_allvars

\* What a form or a control says of its press is so, whoever else acts meanwhile.
AnswersAreTrue == CASE moving = "console" -> Console!AnswersAreTrue
                    [] moving = "forms" -> Ops!FormsTellTheTruth
                    [] OTHER -> TRUE

\* The presses, the forms and the workers are the same values.
Symmetry == Permutations({r1, r2}) \union Permutations({c1, c2})
=============================================================================
