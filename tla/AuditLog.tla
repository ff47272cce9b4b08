------------------------------- MODULE AuditLog -------------------------------
(* The audit log as the admins read it (services/audit.ts): rows hold bare ids, *)
(* the page shows names, and the filter box turns a name back into ids.  What a *)
(* row shows depends on accounts, links and operations as they are now, or on   *)
(* what the deletion of an operation wrote down, not as they were.  Names are   *)
(* apart from ids and from the literals the columns hold, which the code tells  *)
(* by their shape; letter case is not looked at.                                *)
EXTENDS Naturals, Sequences, FiniteSets, FiniteSetsExt, SequencesExt

CONSTANTS
  Accounts, Characters, Users, Operations,  \* ids
  Names,
  PageSize,         \* AUDIT_PAGE_SIZE
  MaxRows, MaxChanges,                      \* bounds
  None

System == "system"
\* The account of a character (None: no row), the main of an account, the account
\* of a Discord user, and an operation's name (None: no row).
VARIABLES owner, named, main, link, operation, log, changes
people == <<owner, named, main, link>>
vars   == <<people, operation, log, changes>>

Init ==
  /\ owner \in [Characters -> Accounts \union {None}] /\ named \in [Characters -> Names]
  /\ main = [a \in Accounts |-> None]
  /\ link = [u \in Users |-> None] /\ operation = [o \in Operations |-> None]
  /\ log = << >> /\ changes = 0

Change == changes < MaxChanges /\ changes' = changes + 1

-----------------------------------------------------------------------------
(* What the other services do, as far as a row's names depend on it. *)

SetMain(a, c) ==
  /\ Change /\ owner[c] = a /\ main[a] # c /\ main' = [main EXCEPT ![a] = c]
  /\ UNCHANGED <<owner, named, link, operation, log>>
\* An unlinked character's row is deleted, a reclaimed one has another owner; the
\* account that had it as its main has none.
Leave(c, a) ==
  /\ Change /\ owner[c] \notin {None, a}
  /\ owner' = [owner EXCEPT ![c] = a]
  /\ main' = [x \in Accounts |-> IF main[x] = c THEN None ELSE main[x]]
  /\ UNCHANGED <<named, link, operation, log>>
\* An account has one Discord user at most.
Link(u, a) ==
  /\ Change /\ link[u] # a
  /\ link' = [x \in Users |-> IF x = u THEN a ELSE IF link[x] = a THEN None ELSE link[x]]
  /\ UNCHANGED <<owner, named, main, operation, log>>

Row(actor, kind, target, name) == [actor |-> actor, kind |-> kind, target |-> target, name |-> name]
Write(row) == Len(log) < MaxRows /\ log' = Append(log, row)
Deletions  == {log[i] : i \in {i \in DOMAIN log : log[i].kind = "payout.deleted"}}

\* A name may be given and changed; the deletion of an operation keeps its name.
NameOperation(o, n) ==
  /\ Change /\ operation[o] # n /\ ~\E d \in Deletions : d.target = o
  /\ operation' = [operation EXCEPT ![o] = n]
  /\ UNCHANGED <<people, log>>
DeleteOperation(a, o) ==
  /\ operation[o] # None
  /\ Write(Row(a, "payout.deleted", o, operation[o]))
  /\ operation' = [operation EXCEPT ![o] = None]
  /\ UNCHANGED <<people, changes>>

\* logAudit.  The action's namespace says what the target is.
Targets(kind) == CASE kind = "account" -> Accounts [] kind = "character" -> Characters
                   [] kind = "discord" -> Users [] kind = "payout" -> Operations
LogAudit(actor, kind, target) ==
  Write(Row(actor, kind, target, None)) /\ UNCHANGED <<people, operation, changes>>
\* logAuditIfChanged: silent when the last row of the action and target is the same.
LogAuditIfChanged(kind, target, n) ==
  LET same == SelectSeq(log, LAMBDA r : r.kind = kind /\ r.target = target) IN
  /\ IF same = << >> THEN TRUE ELSE Last(same).name # n
  /\ Write(Row(System, kind, target, n)) /\ UNCHANGED <<people, operation, changes>>

Next ==
  \/ \E a \in Accounts, c \in Characters : SetMain(a, c)
  \/ \E a \in Accounts \union {None} : (\E c \in Characters : Leave(c, a)) \/ (\E u \in Users : Link(u, a))
  \/ \E o \in Operations, n \in Names : NameOperation(o, n)
  \/ \E a \in Accounts, o \in Operations : DeleteOperation(a, o)
  \/ \E kind \in {"account", "character", "discord", "payout"} : \E t \in Targets(kind) :
       \/ \E actor \in Accounts \union {System} : LogAudit(actor, kind, t)
       \/ kind = "discord" /\ \E n \in Names : LogAuditIfChanged(kind, t, n)
Spec == Init /\ [][Next]_vars

-----------------------------------------------------------------------------
(* resolveAuditIdentities *)

MainNameOf(a) == IF a = None \/ main[a] = None THEN None ELSE named[main[a]]
ActorName(r)  == IF r.actor = System THEN None ELSE MainNameOf(r.actor)
\* A deleted operation's name is on the row of its deletion.
OperationName(o) ==
  IF operation[o] # None THEN operation[o]
  ELSE LET D == {d \in Deletions : d.target = o} IN IF D = {} THEN None ELSE (CHOOSE d \in D : TRUE).name
TargetName(r) ==
  CASE r.kind = "account"   -> MainNameOf(r.target)
    [] r.kind = "character" -> IF owner[r.target] = None THEN None ELSE named[r.target]
    [] r.kind = "discord"   -> MainNameOf(link[r.target])
    [] r.kind \in {"payout", "payout.deleted"} -> OperationName(r.target)

(* resolveFilterIdentity *)

Called(n)     == {c \in Characters : owner[c] # None /\ named[c] = n}
Displaying(n) == {a \in Accounts : main[a] \in Called(n)}
Linked(n)     == {u \in Users : link[u] \in Displaying(n)}
OperationsCalled(n) == {o \in Operations : operation[o] = n}
                         \union {d.target : d \in {d \in Deletions : d.name = n}}
\* Variant, not the code: a name no character has is nobody's.
PeopleFirst(n) ==
  IF Called(n) = {} THEN {}
  ELSE Displaying(n) \union Called(n) \union Linked(n) \union OperationsCalled(n)
TargetIds(n) == Displaying(n) \union Called(n) \union Linked(n) \union OperationsCalled(n)
ActorIds(n)  == Displaying(n)

(* queryAuditLog: a page of the rows that match, newest first. *)

Matching(field, ids) == {i \in DOMAIN log : log[i][field] \in ids}
Page(field, ids, before) ==
  LET older == {i \in Matching(field, ids) : i < before} IN
  {i \in older : Cardinality({j \in older : j > i}) < PageSize}
\* All pages, each asked for with the last id of the one before.
Pages(field, ids) ==
  LET Walk[b \in 1..Len(log) + 1] ==
        LET p == Page(field, ids, b) IN IF p = {} THEN {} ELSE p \union Walk[Min(p)]
  IN Walk[Len(log) + 1]

-----------------------------------------------------------------------------
\* The filter box is the inverse of what the page shows: paging through a name
\* yields the rows that show it, no more and no less, although mains change,
\* characters leave, links move, and operations are renamed or deleted after the
\* row was written.
FilterInvertsDisplay ==
  \A n \in Names :
    /\ Pages("actor", ActorIds(n)) = {i \in DOMAIN log : ActorName(log[i]) = n}
    /\ Pages("target", TargetIds(n)) = {i \in DOMAIN log : TargetName(log[i]) = n}
===============================================================================
