---------------------------- MODULE Provisioning ----------------------------
(* The three jobs that carry membership to the outside: the Discord roles of   *)
(* linked users (services/discord-link.ts, jobs/discord-roles.ts), the access  *)
(* list of the map (jobs/wanderer.ts) and the contacts of every member         *)
(* character (jobs/contacts.ts).  Each works from rows it read when it began,  *)
(* one remote call after the other, with no lock, while members link, unlink   *)
(* and change tier and while others edit what the calls write to.              *)
(*                                                                             *)
(* A queue holds one job per target (module Outbox), and a worker runs the     *)
(* jobs of one queue in turn; docs/ops.md keeps the workers at one.            *)
EXTENDS Naturals

CONSTANTS
  Accounts, Users, Characters,
  OwnerOf,         \* the account of each character
  Tiers,           \* the tiers used; every one but "pending" has a role
  Jobs,            \* the jobs looked at: "roles", "acl", "contacts"
  MaxChanges,      \* bound: changes by members, and by others at the remotes
  MaxFaults,       \* bound: failed calls, failed runs and crashes
  NoUser, Idle

Managed == Tiers \ {"pending"}
AclRoles == {"none", "viewer", "admin", "blocked"}
Contacts == {"absent", "foreign", "ours", "restanding"}

(* tier, link and invalid are what the jobs read; roles, acl and book are the  *)
(* remotes; observed is wanderer_acl_observation and result contact_sync_state *)
(* as far as it is "ok".  drift is history: what somebody else changed, or a   *)
(* failure left, that no job has looked at since.                              *)
VARIABLES tier, link, invalid, guild, queue, run, roles, acl, book, observed, result,
          drift, changes, faults
facts   == <<tier, link, invalid, guild>>
remotes == <<roles, acl, book>>
records == <<observed, result>>
vars == <<facts, queue, run, remotes, records, drift, changes, faults>>

\* services/desired.ts: every character of every member account that ESI knows.
Wanted == {c \in Characters : tier[OwnerOf[c]] = "member" /\ c \notin invalid}

Wake(j, scope, who) == [job |-> j, scope |-> scope, who |-> who]
AccountWakes(a) == {Wake("roles", "account", a), Wake("acl", "all", "all"),
                    Wake("contacts", "all", "all")}

\* Variant, not the code: nobody tells the roles job that a user was unlinked.
NoUserWake(u) == {}

UserWake(u) == {Wake("roles", "user", u)}
Enqueued(W) == queue \union {w \in W : w.job \in Jobs}

LinkedTo(u) == {a \in Accounts : link[a] = u}

Init ==
  /\ tier = [a \in Accounts |-> "pending"] /\ link = [a \in Accounts |-> NoUser]
  /\ invalid = {} /\ guild = Users
  /\ queue = {} /\ run = [j \in Jobs |-> Idle]
  /\ roles = [u \in Users |-> {}]
  /\ acl = [c \in Characters |-> "none"] /\ observed = acl
  /\ book = [c \in Characters |-> [d \in Characters |-> "absent"]]
  /\ result = [c \in Characters |-> FALSE]
  /\ drift = {} /\ changes = 0 /\ faults = 0

-----------------------------------------------------------------------------
(* What members and the membership job change, each in one transaction with    *)
(* its wake-ups.                                                               *)

Change == changes < MaxChanges /\ changes' = changes + 1

SetTier(a, t) ==
  /\ Change /\ tier[a] # t
  /\ tier' = [tier EXCEPT ![a] = t]
  /\ queue' = Enqueued(AccountWakes(a))
  /\ UNCHANGED <<link, invalid, guild, run, remotes, records, drift, faults>>

\* The membership job finds a character deleted at EVE.
Biomass(c) ==
  /\ Change /\ c \notin invalid
  /\ invalid' = invalid \union {c}
  /\ queue' = Enqueued(AccountWakes(OwnerOf[c]))
  /\ UNCHANGED <<tier, link, guild, run, remotes, records, drift, faults>>

LinkDiscord(a, u) ==
  /\ Change /\ "roles" \in Jobs
  /\ LinkedTo(u) \subseteq {a}                  \* already_linked, and the unique index
  /\ LET replaced == {link[a]} \ {NoUser, u} IN
       queue' = Enqueued(AccountWakes(a) \union UNION {UserWake(p) : p \in replaced})
  /\ link' = [link EXCEPT ![a] = u]
  /\ UNCHANGED <<tier, invalid, guild, run, remotes, records, drift, faults>>

UnlinkDiscord(a) ==
  /\ Change /\ link[a] # NoUser
  /\ queue' = Enqueued(UserWake(link[a]))
  /\ link' = [link EXCEPT ![a] = NoUser]
  /\ UNCHANGED <<tier, invalid, guild, run, remotes, records, drift, faults>>

\* "Sync everything" and the hourly ticks.
SyncAll(j) ==
  /\ Change
  /\ queue' = Enqueued({Wake(j, "all", "all")})
  /\ UNCHANGED <<facts, run, remotes, records, drift, faults>>

\* A guild moderator, an owner of the map, a player in the game client.
EditedRoles(u, R) ==
  /\ Change /\ "roles" \in Jobs /\ u \in guild /\ roles[u] # R
  /\ roles' = [roles EXCEPT ![u] = R] /\ drift' = drift \union {u}
  /\ UNCHANGED <<facts, queue, run, acl, book, records, faults>>
JoinsOrLeaves(u) ==
  /\ Change /\ "roles" \in Jobs
  /\ guild' = (guild \ {u}) \union ({u} \ guild)
  /\ roles' = [roles EXCEPT ![u] = {}] /\ drift' = drift \union {u}
  /\ UNCHANGED <<tier, link, invalid, queue, run, acl, book, records, faults>>
EditedAcl(c, r) ==
  /\ Change /\ "acl" \in Jobs /\ acl[c] # r
  /\ acl' = [acl EXCEPT ![c] = r] /\ drift' = drift \union {c}
  /\ UNCHANGED <<facts, queue, run, roles, book, records, faults>>
EditedContact(c, d, k) ==
  /\ Change /\ "contacts" \in Jobs /\ book[c][d] # k /\ c # d
  /\ book' = [book EXCEPT ![c][d] = k] /\ drift' = drift \union {<<c, d>>}
  /\ UNCHANGED <<facts, queue, run, roles, acl, records, faults>>

-----------------------------------------------------------------------------
(* A run: todo is what it still has to visit, as it read it at the beginning;  *)
(* at is what it is visiting; add, remove and third are the calls still to be  *)
(* made there, in this order (third: contacts to edit, entries to unblock).    *)

Linked(S) == {[account |-> a, tier |-> tier[a], user |-> link[a]] :
                a \in {b \in S : link[b] # NoUser}}

\* The user of a wake-up is stripped, unless linked again: the account path owns
\* a linked one.
Stripped(u) ==
  IF LinkedTo(u) # {} THEN {} ELSE {[account |-> NoUser, tier |-> "pending", user |-> u]}

ToVisit(w) ==
  CASE w.job = "roles" /\ w.scope = "all"     -> Linked(Accounts)
    [] w.job = "roles" /\ w.scope = "account" -> Linked({w.who})
    [] w.job = "roles" /\ w.scope = "user"    -> Stripped(w.who)
    [] w.job = "acl"                          -> {"list"}
    [] w.job = "contacts"                     -> Wanted

\* What a visit that reads the remote makes good, unless a call fails.
Touched(j, x) == CASE j = "roles" -> {x.user} [] j = "acl" -> Characters
                   [] j = "contacts" -> {<<x, d>> : d \in Characters}
AllTouched(j, S) == UNION {Touched(j, x) : x \in S}

Begin(j, w) ==
  /\ run[j] = Idle /\ w \in queue /\ w.job = j
  /\ queue' = queue \ {w}
  /\ run' = [run EXCEPT ![j] =
               [wake |-> w, todo |-> ToVisit(w), wanted |-> Wanted, at |-> Idle, seen |-> Idle,
                add |-> {}, remove |-> {}, third |-> {}, clean |-> TRUE, missed |-> {}]]
  /\ UNCHANGED <<facts, remotes, records, drift, changes, faults>>

Fault == faults < MaxFaults /\ faults' = faults + 1

\* The guild's roles are not what the configuration says: nothing is tried, and
\* nothing tried again.
Misconfigured(w) ==
  /\ Fault /\ w \in queue /\ w.job = "roles" /\ run["roles"] = Idle
  /\ queue' = queue \ {w}
  /\ drift' = drift \union AllTouched("roles", ToVisit(w))
  /\ UNCHANGED <<facts, run, remotes, records, changes>>

Busy(j) == run[j] # Idle
Visiting(j) == Busy(j) /\ run[j].at # Idle
Calls(j) == run[j].add \union run[j].remove \union run[j].third

\* Exactly the tier's role among the managed ones; an unlinked user is stripped
\* as a pending one is.
RolesDue(t) == {t} \ {"pending"}
DiffRoles(x) ==
  [add    |-> RolesDue(x.tier) \ roles[x.user],
   remove |-> (Managed \ RolesDue(x.tier)) \intersect roles[x.user], third |-> {}]

\* An admin is never removed, a ban is lifted for a wanted character only.
DiffAcl(desired) ==
  [add    |-> {c \in desired : acl[c] = "none"},
   remove |-> {c \in Characters \ desired : acl[c] \notin {"none", "admin", "blocked"}},
   third  |-> {c \in desired : acl[c] = "blocked"}]

\* A contact is the job's if it carries the label, whatever its standing.
DiffContacts(x, desired) ==
  [add    |-> {d \in desired : book[x][d] = "absent"},
   remove |-> {d \in Characters \ desired : book[x][d] \in {"ours", "restanding"}},
   third  |-> {d \in desired : book[x][d] \in {"foreign", "restanding"}}]

Plan(j, x) ==
  CASE j = "roles"    -> DiffRoles(x)
    [] j = "acl"      -> DiffAcl(run[j].wanted)
    [] j = "contacts" -> DiffContacts(x, run[j].wanted \ {x})

Readable(j, x) == j = "roles" => x.user \in guild

\* The member, the list or all pages of the contacts are read, and compared.
Visit(j, x) ==
  /\ Busy(j) /\ ~Visiting(j) /\ x \in run[j].todo /\ Readable(j, x)
  /\ LET p == Plan(j, x) IN
       run' = [run EXCEPT ![j] =
                 [run[j] EXCEPT !.at = x, !.todo = run[j].todo \ {x}, !.clean = TRUE,
                                !.seen = IF j = "acl" THEN acl ELSE Idle,
                                !.add = p.add, !.remove = p.remove, !.third = p.third]]
  /\ drift' = drift \ Touched(j, x)
  /\ UNCHANGED <<facts, queue, remotes, records, changes, faults>>

\* What failed and may pass is tried again by another run, the rest is left.
Failed(j, x, r, again) ==
  /\ run' = [run EXCEPT ![j] =
               [r EXCEPT !.missed = r.missed \union (IF again THEN Touched(j, x) ELSE {})]]
  /\ drift' = IF again THEN drift ELSE drift \union Touched(j, x)
  /\ result' = IF j = "contacts" THEN [result EXCEPT ![x] = FALSE] ELSE result

\* The user is not in the guild, the list cannot be read, a token cannot be had
\* or the label is not there: the target is left alone.
Unread(j, x, again) ==
  /\ Busy(j) /\ ~Visiting(j) /\ x \in run[j].todo
  /\ IF Readable(j, x) THEN Fault ELSE ~again /\ UNCHANGED faults
  /\ Failed(j, x, [run[j] EXCEPT !.todo = @ \ {x}], again)
  /\ UNCHANGED <<facts, queue, remotes, observed, changes>>

\* The calls of a visit: additions before removals; the roles job and the map's
\* make them one by one, contacts go in one request per kind, edits second.
Stage(j) ==
  IF run[j].add # {} THEN "add"
  ELSE IF run[j].remove = {} \/ (j = "contacts" /\ run[j].third # {}) THEN "third" ELSE "remove"
InStage(j, st) ==
  CASE st = "add" -> run[j].add [] st = "remove" -> run[j].remove [] OTHER -> run[j].third
Batches(j) == LET S == InStage(j, Stage(j)) IN
  IF j = "contacts" THEN {S} \ {{}} ELSE {{y} : y \in S}

\* A call that fails ends the visit to a member of the guild, and for contacts
\* the additions and edits but not the removals; the map's go on.
Spent(j, B) ==
  [run[j] EXCEPT !.add = @ \ B, !.remove = @ \ B, !.third = @ \ B, !.seen = Idle]
GivenUp(j, B) ==
  CASE j = "roles" -> [run[j] EXCEPT !.add = {}, !.remove = {}]
    [] j = "contacts" /\ Stage(j) # "remove" -> [run[j] EXCEPT !.add = {}, !.third = {}]
    [] OTHER -> Spent(j, B)

RolesAfter(u, B, removing) == [roles EXCEPT ![u] = IF removing THEN @ \ B ELSE @ \union B]
AclAfter(B, removing) ==
  [c \in Characters |-> IF c \notin B THEN acl[c] ELSE IF removing THEN "none" ELSE "viewer"]
BookAfter(x, B, removing) ==
  [book EXCEPT ![x] =
    [d \in Characters |-> IF d \notin B THEN @[d] ELSE IF removing THEN "absent" ELSE "ours"]]

Call(j, B) ==
  /\ Visiting(j) /\ B \in Batches(j) /\ Readable(j, run[j].at)
  /\ LET removing == Stage(j) = "remove" x == run[j].at IN
       /\ roles' = IF j = "roles" THEN RolesAfter(x.user, B, removing) ELSE roles
       /\ acl'   = IF j = "acl" THEN AclAfter(B, removing) ELSE acl
       /\ book'  = IF j = "contacts" THEN BookAfter(x, B, removing) ELSE book
  /\ run' = [run EXCEPT ![j] = Spent(j, B)]
  /\ UNCHANGED <<facts, queue, records, drift, changes, faults>>

CallFails(j, B, again) ==
  /\ Visiting(j) /\ B \in Batches(j)
  /\ IF Readable(j, run[j].at) THEN Fault ELSE ~again /\ UNCHANGED faults
  /\ Failed(j, run[j].at, [GivenUp(j, B) EXCEPT !.clean = FALSE, !.seen = Idle], again)
  /\ UNCHANGED <<facts, queue, remotes, observed, changes>>

-----------------------------------------------------------------------------
\* A visit ends.  A strip looks once more whether the user was linked meanwhile;
\* contacts are recorded as synced; the map's list, if anything was tried, is
\* read again and stored.
Relinked(j) == IF run[j].wake.scope = "user" /\ run[j].clean
               THEN LinkedTo(run[j].wake.who) ELSE {}
Left(j) == [run EXCEPT ![j] = [@ EXCEPT !.at = Idle, !.seen = Idle, !.clean = TRUE]]

Observation == IF run["acl"].seen # Idle THEN run["acl"].seen ELSE acl

Leave(j) ==
  /\ Visiting(j) /\ Calls(j) = {}
  /\ run' = Left(j)
  /\ queue' = Enqueued(UNION {AccountWakes(a) : a \in Relinked(j)})
  /\ observed' = IF j = "acl" THEN Observation ELSE observed
  /\ result' = IF j = "contacts" THEN [result EXCEPT ![run[j].at] = run[j].clean] ELSE result
  /\ UNCHANGED <<facts, remotes, drift, changes, faults>>

\* The map's list cannot be read again: the old observation stays.
Unobserved(again) ==
  /\ Fault /\ Visiting("acl") /\ Calls("acl") = {} /\ run["acl"].seen = Idle
  /\ Failed("acl", "list", Left("acl")["acl"], again)
  /\ UNCHANGED <<facts, queue, remotes, observed, changes>>

\* runJob: what may pass is thrown, and pg-boss tries the job again.
Finish(j) ==
  /\ Busy(j) /\ ~Visiting(j) /\ run[j].todo = {}
  /\ run' = [run EXCEPT ![j] = Idle]
  /\ queue' = IF run[j].missed = {} THEN queue ELSE queue \union {run[j].wake}
  /\ UNCHANGED <<facts, remotes, records, drift, changes, faults>>

\* The worker dies, or a strip throws: the job expires, or failed, and is tried
\* again unless that was the last retry, of which the operators are told.
Ended(j) == AllTouched(j, run[j].todo \union ({run[j].at} \ {Idle})) \union run[j].missed
Crash(j) ==
  /\ Fault /\ Busy(j)
  /\ run' = [run EXCEPT ![j] = Idle]
  /\ queue' = queue \union {run[j].wake}
  /\ UNCHANGED <<facts, remotes, records, drift, changes>>
DeadLetter(j) ==
  /\ Fault /\ Busy(j)
  /\ run' = [run EXCEPT ![j] = Idle]
  /\ drift' = drift \union Ended(j)
  /\ UNCHANGED <<facts, queue, remotes, records, changes>>

Run(j) ==
  \/ \E x \in IF Busy(j) THEN run[j].todo ELSE {} :
        Visit(j, x) \/ \E again \in BOOLEAN : Unread(j, x, again)
  \/ \E B \in IF Visiting(j) THEN Batches(j) ELSE {} :
        Call(j, B) \/ \E again \in BOOLEAN : CallFails(j, B, again)
  \/ Leave(j) \/ Finish(j) \/ Crash(j) \/ DeadLetter(j)

Members ==
  \/ \E a \in Accounts, t \in Tiers : SetTier(a, t)
  \/ \E a \in Accounts, u \in Users : LinkDiscord(a, u)
  \/ \E a \in Accounts : UnlinkDiscord(a)
  \/ \E c \in Characters : Biomass(c)

Others ==
  \/ \E u \in Users : JoinsOrLeaves(u)
  \/ \E u \in Users, R \in SUBSET Managed : EditedRoles(u, R)
  \/ \E c \in Characters, r \in AclRoles : EditedAcl(c, r)
  \/ \E c, d \in Characters, k \in Contacts : EditedContact(c, d, k)

Next ==
  \/ Members \/ Others
  \/ \E j \in Jobs : SyncAll(j) \/ Run(j) \/ \E w \in queue : Begin(j, w)
  \/ \E w \in queue : Misconfigured(w)
  \/ "acl" \in Jobs /\ \E again \in BOOLEAN : Unobserved(again)

Spec == Init /\ [][Next]_vars

-----------------------------------------------------------------------------
AllWakes  == {Wake("acl", "all", "all"), Wake("contacts", "all", "all")}
RoleWakes == {Wake("roles", "all", "all")} \union {Wake("roles", "account", a) : a \in Accounts}
               \union {Wake("roles", "user", u) : u \in Users}
WakesOf(j) == {w \in AllWakes \union RoleWakes : w.job = j}

\* What a run of a job visits, what it calls for there, what it has missed.
Targets(j) == IF j = "roles" THEN [account : Accounts \union {NoUser}, tier : Tiers, user : Users]
              ELSE IF j = "acl" THEN {"list"} ELSE Characters
Items(j)   == IF j = "roles" THEN Managed ELSE Characters
Things(j)  == IF j = "roles" THEN Users
              ELSE IF j = "acl" THEN Characters ELSE Characters \X Characters
RunType(j) ==
  [wake : WakesOf(j), todo : SUBSET Targets(j), wanted : SUBSET Characters,
   at : Targets(j) \union {Idle}, seen : {Idle} \union [Characters -> AclRoles],
   add : SUBSET Items(j), remove : SUBSET Items(j), third : SUBSET Characters,
   clean : BOOLEAN, missed : SUBSET Things(j)]

\* Rows, remotes and runs have the values the columns and the clients give.
TypeOK ==
  /\ tier \in [Accounts -> Tiers] /\ link \in [Accounts -> Users \union {NoUser}]
  /\ invalid \subseteq Characters /\ guild \subseteq Users
  /\ roles \in [Users -> SUBSET Managed]
  /\ acl \in [Characters -> AclRoles] /\ observed \in [Characters -> AclRoles]
  /\ book \in [Characters -> [Characters -> Contacts]]
  /\ result \in [Characters -> BOOLEAN]
  /\ queue \subseteq {w \in AllWakes \union RoleWakes : w.job \in Jobs}
  /\ DOMAIN run = Jobs /\ \A j \in Jobs : run[j] \in RunType(j) \union {Idle}

Settled(j) == run[j] = Idle /\ \A w \in queue : w.job # j

Concerns(w, u) ==
  w.job = "roles" /\ CASE w.scope = "all"     -> TRUE
                       [] w.scope = "user"    -> w.who = u
                       [] w.scope = "account" -> w.who \in LinkedTo(u)
RolesFollow ==
  \A u \in Users \ drift :
    run["roles"] = Idle /\ (\A w \in queue : ~Concerns(w, u)) =>
      roles[u] = UNION {RolesDue(tier[a]) : a \in LinkedTo(u)}

AclFollows ==
  Settled("acl") => \A c \in Characters \ drift :
    /\ acl[c] \in IF c \in Wanted THEN {"viewer", "admin"} ELSE {"none", "admin", "blocked"}
    /\ observed[c] = acl[c]

ContactsFollow ==
  Settled("contacts") => \A c \in Wanted, d \in Characters : result[c] /\ <<c, d>> \notin drift =>
    (book[c][d] = "ours") = (d \in Wanted \ {c}) /\ (d \notin Wanted => book[c][d] # "restanding")

\* Whatever members do while the jobs run, and whatever fails, once no job for
\* it waits or runs, each remote is as the accounts say: a linked user has the
\* role of the tier and an unlinked one none (discord-link.ts "the row deletion
\* alone leaves the member holding every managed Discord role"), the map's list
\* admits the members' characters and nobody else the job put there, and an
\* "ok" character has its fellow members in its contacts and no one who left.
\* What others edited since, and what was given up and reported, is excepted.
TargetsFollow ==
  /\ "roles" \in Jobs => RolesFollow
  /\ "acl" \in Jobs => AclFollows
  /\ "contacts" \in Jobs => ContactsFollow
=============================================================================
