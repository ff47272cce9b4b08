# Verification of authGD

authGD manages the members of an EVE Online alliance: people sign in with EVE
SSO, link their characters, get a tier, and the tier is pushed to Discord, a
Wanderer access list and in-game contacts. It also pays out fleet operations,
relays fleet telemetry between members' devices, watches structures and access
lists, and collects evidence about recruits. This directory holds the TLA+
modules that describe what its code does, the TLC configurations that
model-check them and the TLAPS proofs about them. The source is the reference:
paths below are relative to the repository.

To run: `tlc -workers 2 -config MCIdentity.cfg MCIdentity.tla`,
`tlapm IdentityProofs.tla`. `PROJECT.json` lists runs, mutants, hazards,
theorems and, for every definition, the lines it stands for.

## 1. Inventory

Two processes share one PostgreSQL database: the web application
(`src/app`, `src/services`) and the worker (`src/worker`, `src/jobs`). They do not
call each other: a web transaction that changes what an outside system should
hold inserts an **outbox** row, a dispatcher in the worker turns it into pg-boss
jobs, and the jobs read the database, ask EVE/Discord/Wanderer and write back.
Two workers run side by side while a deploy overlaps. Concurrency is therefore
between transactions (READ COMMITTED with `FOR UPDATE` and advisory locks),
between jobs that hold no lock while they wait for an outside answer, and between
the database and the outside systems, which can fail, be slow or answer from a
cache.

| Component | State | Operations | What is hard | What makes it correct |
|---|---|---|---|---|
| Identity (`services/accounts.ts`, `admin-accounts.ts`, `session.ts`, SSO callback) | accounts, characters with owner hashes, main, tier and pin, admin bit, bootstrap grants, sessions | sign-in, link, merge, unlink, main, tier pin/unpin, approve, promote, demote, reclaim | an SSO answer or a token-health finding is used after the state it was about changed; characters are sold in the game; merges delete accounts | the present owner keeps the character; the main is owned; a merge destroys nothing of value; an admin is left; pending needs an approval; every change is in the outbox |
| Membership (`jobs/membership.ts`, `core/tier.ts`, `core/affiliation.ts`) | affiliation, ordering token and invalid flag per character; in each run its scope, token, confirmed reads and decisions | take a token, read ESI, compare-and-set the rows, decide, apply under locks | runs overlap; main, pin and account change between the read and the write | the newest read decides; an admin's pin is respected; every unpinned associate converges |
| Outbox, dispatcher, queues (`services/outbox.ts`, `worker/dispatcher.ts`, `worker/queues.ts`, `core/dispatch-plan.ts`, `services/sync-run.ts`, `jobs/purge.ts`) | outbox rows, claims, pg-boss jobs, dead letters | enqueue, claim, send, mark, roll back, cron, start, settle, throw, crash, expire, purge | crash between send and commit, two dispatchers, singleton keys that swallow a send, retries that run out | no committed wake-up is lost, waiting work is not doubled, no kind starves another |
| Fleet sources (`services/fleet-source*.ts`, `fleet-lifecycle.ts`, `jobs/fleet-source.ts`, `fleet-upstream.ts`, scheduler) | consents (sources) with generations and fetch claims, one authority slot per fleet, published rows, character epochs, sharing mode | start, stop, claim, bind, read, commit, maintain, publish, every loss | a claim expires under a slow run; evidence expires; handover to another boss; a cached roster; counters at their limit; locks taken one by one | one proved consent per fleet; slot and rows never outlive it; overtaken runs do nothing; evidence only replaced by fresher; no circular wait |
| Payouts (`services/payouts.ts`, `payout-loot.ts`, `core/payout-split.ts`) | operation status, roster with shares and amounts, loot pools, payment log | create, edit, price, finalize, unlock, pay, revert, delete | rows are looked up before the lock and may be gone after it; two operators pay at once; wall clock steps back | paid is never paid again; amounts match the split; nothing changes once money moved |
| Admin console and payout forms (`app/admin/*/actions.ts`, `app/payouts/actions.ts`, `validation.ts`) | the pages they were pressed on | guard, validate, price, transact, answer | the page is old when the button is pressed | the answer says what happened |
| Credentials (`services/tokens.ts`, `jobs/token-health.ts`, `services/oauth-tx.ts`) | encrypted refresh token, status, scopes per character; login attempts | refresh, rotate, invalidate, health pass; begin, consume, store a grant | EVE rotates on use and the worker may die before it stores the answer; two readers race; two callbacks with one state | the row holds a token of the last grant; an attempt is consumed once |
| Discord roles, map, contacts (`services/discord-link.ts`, `jobs/discord-roles.ts`, `jobs/wanderer.ts`, `jobs/contacts.ts`) | link rows, remote roles and lists | link, unlink, strip, sweep, diff, push | remote calls under no lock; unlink between read and write; partial failure; an unreadable list must not be emptied | a user without a link ends with no managed role; nothing removed from an unread list |
| Structures and alerts (`services/structures.ts`, `jobs/structures.ts`, `jobs/structure-events.ts`) | holder, events, sent flags, roster | designate, poll, post, sweep | the holder changes in mid-read; crash between post and flag | an alert per event, none twice without a crash |
| Access lists (`services/access-lists.ts`, `jobs/access-lists.ts`) | holder, catalog, watched lists, readings | designate, watch, discover, read | the same, statement by statement | what a superseded run writes is bounded |
| Fleet devices (`services/fleet-pairing.ts`, `fleet-device.ts`, `fleet-key-identity.ts`, `fleet-recovery.ts`, `fleet-sharing-mode.ts`) | pairing requests, devices, key index, sessions, challenges, mode | begin, approve, complete, revoke, recover, transition | expiry, approval, deletion and revocation race; two answers to one challenge | a session has a standing device; a key stays with its account; a challenge gives one session |
| Fleet automatic consent and control (`services/fleet-automatic.ts`, `jobs/fleet-automatic.ts`, `core/fleet-automatic.ts`) | consents, candidates, reservations, receipts | grant, detect, reserve, commit, withdraw, repeat | withdrawal against a job in flight; a command repeated or late | no source from a withdrawn consent; a command has its effect once |
| Fleet access check (`services/fleet-access.ts`) | a gate row per account | one check | the token or the character changes under it; a budget of time | what it says of its character and its token is so |
| Fleet relay (`services/fleet-relay.ts`, `fleet-participation.ts`, `fleet-cadence.ts`) | sessions, revisions, participation generations | publish, read, acknowledge, pace | requests late, twice, never; one revision counter | the latest publication wins, an ended row stays hidden |
| Sync status (`core/schedules.ts`, `core/run-health.ts`, `core/health.ts`, `app/admin/sync/view.ts`) | run rows, heartbeat | start, finish, read with a clock | the worker dies between start and finish | calm is recent |
| Audit log (`services/audit.ts`) | append-only rows | write, filter, page | ids are shown under names that change | the filter finds what is displayed |
| Recruitment (`services/recruitment.ts`, `lib/esi/recruitment.ts`) | an export in the making | capture, read page by page, release | links move, histories grow, quotas | released is what was captured; complete is whole |
| Location and account pages (`jobs/location.ts`, `services/account-view.ts`, `core/account-health.ts`, `core/location.ts`) | a place and a time per character | exchange, read, update; derive a page | overlapping runs; parts of any age | no place older than said; the headline agrees with its rows |
| HTTP clients (`lib/discord/rest.ts`, `lib/esi/client.ts`) | windows and budgets in memory | queue, send, wait, retry | callers that slept wake into a closed window | nothing is sent into a window known to be closed |
| Appraisal, web pages, boot and shutdown | none | convert, render, register | | |

`PROJECT.json` names the hard-to-test behaviours under `hazards`, each at the line
where it bites, with the properties that would notice it going wrong.

## 2. Plan

| | Modules | State |
|---|---|---|
| 1 | `Identity`, abstract `AccountTiers` | checked; safety and refinement proved |
| 2 | `Membership` (drives the tiers through `AccountTiers`) | checked; safety proved |
| 3 | `Outbox` | checked, liveness too; safety proved |
| 4 | `FleetSource`, abstract `FencedSlot` | checked, liveness too; safety and refinement proved |
| 5 | `FleetLocks` | checked; absence of circular waits and of leftovers proved |
| 6 | `Payouts`, abstract `Ledger` | checked; safety, sums and refinement proved |
| 7 | `Credentials` | checked; safety proved |
| 8 | `FleetDevices` | checked; safety proved |
| 9 | `FleetAutomatic`, `FleetControl`, `FleetAccess` | checked; safety proved |
| | `FleetRelay` | checked; safety proved |
| 10 | `Provisioning`, `StructureWatch` | checked; safety proved |
| | `AccessLists` | checked; safety proved |
| 11 | `AdminActions`, `OperationForms`, `DiscordClient`, `EsiClient` | checked; safety proved |
| | `SyncHealth`, `AuditLog`, `LocationJob`, `AccountPage` | checked; safety proved |
| | `Recruitment`, `EvidenceReader` | checked; safety proved |

The order follows what is lost when it goes wrong: ownership and admission first,
then the wake-ups everything else depends on, then money and telemetry, then what
is pushed outwards, then what is shown. The modules are composed where the code
composes: `Membership` instantiates the same `AccountTiers` that `Identity`
implements, so that what membership assumes of the rest of the system is exactly
what `Identity` is shown to keep (`TierMachine`). `FleetSource` takes a transaction
for one step, and `FleetLocks` looks into that step. `Outbox` abstracts what a
payload says to whom it wakes; `Identity` checks that each change names those to
wake (`EveryChangeWakes`). `LocationJob` extends `AccountPage`, which shows what it
stored.

## 3. Modules and code

`PROJECT.json` maps every definition to lines. In outline:

**Identity** (`services/accounts.ts`, `services/admin-accounts.ts`, `services/session.ts`,
`app/auth/eve/callback/route.ts`, `jobs/token-health.ts`). One action per
transaction. Two things are looked at before a transaction and used in it, and are
state of their own: `callbacks`, the SSO answers that hold an owner hash EVE vouched
for, and `findings`, the characters token-health believes sold. `holder` is the EVE
player a character really belongs to; `Transfer` is a sale in the game. `entering` is
the login whose transaction committed and whose session row is still to come.
`enqueued` is the outbox output of the last step. **AccountTiers** is the account as
the rest of the system may rely on it: which accounts live, their main, tier and pin,
and which moves an admin, a member or the system may make.

**Membership** (`jobs/membership.ts`, `core/tier.ts`, `core/affiliation.ts`,
`services/sync-run.ts`). A run is a process of five steps: token, read, the
compare-and-set of the rows, the plain read that decides, the locked apply. The
accounts around it change by any move of `AccountTiers`. ESI may confirm, refuse or
leave each character unresolved. `clock` hands out the ordering tokens.

**Outbox** (`services/outbox.ts`, `worker/dispatcher.ts`, `core/dispatch-plan.ts`,
`worker/queues.ts`, `worker/index.ts`, `services/sync-run.ts`, `jobs/purge.ts`). A row is
open, pending, dispatched or gone; a dispatcher claims (`SKIP LOCKED`), sends one job
at a time, and commits. pg-boss is external: `jobs` holds what the code relies on, a
queue that keeps one created job per singleton key, retries, expiry of a job whose
worker died, dead letters. `owed` is history: which wake-ups nobody has yet run for.

**FleetSource** (`services/fleet-source.ts`, `fleet-source-observation.ts`,
`fleet-lifecycle.ts`, `fleet-relay.ts`, `fleet-eligibility.ts`,
`fleet-shared-admission.ts`, `fleet-sharing-mode.ts`, `tokens.ts`, `jobs/fleet-source.ts`,
`jobs/fleet-upstream.ts`, `worker/fleet-source-scheduler.ts`). A run (`ticket`) claims, gets a
token, binds to the fleet EVE names, reads the roster and commits; each transaction is
one step, because it takes all its locks in the global order of `fleet-lifecycle.ts` and
checks its selectors again under them. Times are ages and times left, moved by `Tick`.
`overtaken` and `newest` are history. **FencedSlot** is what a slot's generation
promises to those who copied it. **FleetLocks** is the inside of those steps: the
transactions probe, take the locks of one level after the other, probe again, start
over or commit.

**Payouts** (`services/payouts.ts`, `services/payout-loot.ts`, `core/payout-split.ts`).
A request is two steps: `Open` is what it reads before the row lock (who acts, which
operation a row belongs to), the second step is everything from the lock to the
commit. `Edit` is the common end of every edit: `recalculate`, the columns' ranges, the
commit. **Ledger** is the promise to the roster. **OperationForms** is the forms in
front of it (`app/payouts/actions.ts`, `validation.ts`): the first problem told, pricing
before the transaction, refusals, redirects and the error boundary.
**AdminActions** is the same for the admin pages (`app/admin/*/actions.ts`,
`lib/admin-guard.ts`): the guard, the transaction that decides anew under the row's lock,
the audit row and the sentence the press is answered with.

**Credentials** (`services/tokens.ts`, `services/oauth-tx.ts`, `jobs/token-health.ts`, the
callback). One character's token: who read it, what EVE issued for it, what is stored,
refused, verified. Tokens are numbered in the order EVE issues them.

**FleetDevices** (`services/fleet-pairing.ts`, `fleet-device.ts`, `fleet-key-identity.ts`,
`fleet-recovery.ts`, `fleet-sharing-mode.ts`). An approval and a completion are two
steps, because the deletion of an account holds none of their locks; a recovery is
two, because the proof is first checked under no lock. **FleetAutomatic** is consent and
discovery (`services/fleet-automatic.ts`, `jobs/fleet-automatic.ts`), **FleetControl** the
answers given to commands and their receipts, **FleetAccess** one check of fleet access
from press to answer, **FleetRelay** the signed requests of a device
(`services/fleet-relay.ts`, `fleet-participation.ts`, `fleet-eligibility.ts`).

**Provisioning** (`services/discord-link.ts`, `jobs/discord-roles.ts`, `jobs/wanderer.ts`,
`jobs/contacts.ts`, `core/role-diff.ts`): the three pushes, one remote call per step.
**StructureWatch** (`services/structures.ts`, `jobs/structures.ts`,
`jobs/structure-events.ts`) and **AccessLists** (`services/access-lists.ts`,
`jobs/access-lists.ts`) go statement by statement, for their transactions run under READ
COMMITTED and lock nothing.

**SyncHealth** (`core/schedules.ts`, `core/run-health.ts`, `core/health.ts`, the sync page),
**AuditLog** (`services/audit.ts`), **Recruitment** (`services/recruitment.ts`),
**EvidenceReader** (`lib/esi/recruitment.ts`), **LocationJob** (`jobs/location.ts`,
`services/universe-names.ts`) and **AccountPage** (`services/account-view.ts`,
`core/account-health.ts`, `app/account/*`, `app/admin/accounts/page.tsx`), a pure function
from the rows read to what is shown. **DiscordClient** (`lib/discord/rest.ts`) and
**EsiClient** (`lib/esi/client.ts`) are the memory of one process.

`MC*` modules and `*.cfg` instantiate these for TLC. `*Proofs` hold the theorems.

## 4. What the runs check

Most runs hold several parts that share no state. The variable `moving` says which of
them a behaviour is about, and the others keep one initial state: the parts add up
and do not multiply. A property that is a conjunction of the parts' own properties
is then judged on each part alone.

| Run | Bounds | Shows |
|---|---|---|
| `identity` (`MCIdentity`) | 2 accounts, 2 characters (one bootstrap), in two settings: one sale, one callback and one finding; or two callbacks between curated accounts | who keeps a sold character, whose main it may be, that a bootstrap grant is earned once, who is enqueued; a merge destroys nothing of value and leaves an admin; nobody leaves pending unapproved |
| `membership` (`MCMembers`) | 1 account, 2 characters, 2 overlapping runs, 2 tokens; 3 Discord requests over 2 routes with 1 retry; 3 ESI callers | the newest read wins whatever run finishes last; nothing is sent into a window that was closed |
| `membership_auto` (`MCMembership`) | 1 account, 1 character, 1 run | a violation: section 7 |
| `console` (`MCConsole`) | queues: 2 workers, account fan-out, user, job and unreadable payloads, 2 rows, a claim of 2, one retry, one fault, one tick; console: 2 admins, 2 presses; forms: 2 forms, 2 names, 2 payments | no lost wake-up; every answer says what happened |
| `platform` (`MCPlatform`) | 2 jobs over a short calendar; 2 characters, 2 lists, 3 designations; a log of a few rows; 2 characters and one location run while time passes, or two that overlap at one moment; every page of 2 characters; 3 transactions of `FleetLocks` over 2 accounts, characters, sources and devices, 3 retries | what the pages say is so; no circular wait, and nothing left behind by a withdrawal |
| `live` (`MCLive`) | 2 queue rows, 2 faults, 1 retry; 2 accounts, 1 run; 2 overlapping runs of 1 source, 2 fleets, 2 ticks of evidence | each wake-up is answered or dead-lettered; every unpinned associate that keeps its main converges; only the newest claim counts, evidence only gets fresher, everything lapses |
| `fleet_source` (`MCFleetSource`) | 2 sources, 1 fleet, 1 character linked anew once, 1 run, 3 generations, every time one tick; an account of 2 characters with an export under way; 2 endpoints, pages of 2, 5 requests | one proved consent, slots and rows backed, late runs harmless; what is released was captured, what is complete is whole |
| `payouts` (`MCPayouts`) | 2 requests in flight, 2 people, 1 pool of 1 line, 3 payment rows | one row each, pools that are their lines, amounts that are the split and within the loot; the freeze, the log, the ledger |
| `clients` (`MCClients`) | 2 devices, 2 keys of one canonical form, 2 requests, 2 sessions, 1 challenge, 2 accounts, 2 workers; 1 consenting device, 2 characters; 2 access checks; 2 devices commanding 1 source | grants are backed; what is sent twice has its effect once; what was decided against stays so |
| `services` (`MCServices`) | 2 workers and 2 flows around 3 tokens; 2 devices with 3 sessions, 2 requests under way; roles and map of 2 with 1 fault, contact books of 2 with 2 faults, 4 changes; 2 runs of the structure monitor, 2 designations, 1 mishap | the row is of the last grant; the relay keeps order; remote lists follow; an alert is sent only when it was posted, and a structure is missing only when it is gone |
| `verdict`, `backlog` (`MCServices`) | the credentials, the structure monitor | violations: section 7 |

Why these bounds are enough to be interesting. A race in Identity, Payouts or the
console needs two transactions, one holding what it read before the other's commit; a
third account adds none that the second does not. An older run that overtakes a newer
one needs two runs. A lost wake-up needs a row that commits between a job's start and its
end, a second dispatcher and one crash. `ClaimTime`, `EvidenceTime` and `IntentTime` of one
or two ticks let every deadline fall before, at and after every step. `MaxGeneration` 3
lets the fleet counters reach their limit; the money values of `MCPayouts.cfg` make shares
that do not divide, a pool and a line that overflow, and a loot that is repriced
downwards. Three payment rows are pay, revert, pay. `MaxClock` 0 repeats one reading of
the clock, which is the case `nextPaymentAt` exists for; a clock that steps back is a
reading before the last stamp, which the same branch handles, and is proved for any
clock. Three tokens are the one that is stored, its rotation and the grant that races
with it. Two endpoints of pages of two have a page that is full, one that is not and one
that is empty. Two encodings of one key are what the index of canonical keys exists
for. The three transactions of `FleetLocks` are two of any kind and one that reaches
everything (a drain or the pruning), with rows that the one must find after the other
made them.

Symmetry sets are used only in runs without liveness properties, over names the
specification treats alike. The Identity run uses a VIEW without `enqueued`: no
action reads it, and the action property over it is checked on every transition.
`CHECK_DEADLOCK FALSE` is there where the bounds (rows, generations, tokens, designations,
requests on a deleted operation) let a behaviour end.

Every property has a mutant in `PROJECT.json`, a plausible slip in the code it is
about (a dropped guard, a missing reset), that its run refutes. The mutated forms
stand beside the definitions they vary and are marked "Variant, not the code".

## 5. Fairness

Fairness is assumed in the run `live` only (`MCFairness` in `MCLive.tla`), and only of the
part that moves.

*Membership.* `AssociateConverges` rests on the weekly
recheck, which the cron enqueues for ever (strong fairness of the token step, since
other runs keep the queue busy), on ESI answering some of the full reads (strong
fairness of `FullRead`: an outage that lasts for ever is not claimed to converge), on
a started run going on, and on workers that stop crashing at some point: pg-boss
runs a job again after a crash. Tokens are compared only with those of runs in
flight, so the clock starts over when none is (`Rebase`), which keeps behaviours finite.

*Outbox.* Dispatchers run on an interval and a claimed batch goes on to its end, workers
poll their queues, a handler returns or throws, and pg-boss expires an active job of
a dead worker, all weakly fair. Nothing is assumed of the transactions that enqueue.
Faults are bounded, as an endless series of crashes makes no promise possible.

*FleetSource.* Time passes and the scheduler's half-second maintenance looks at every
source. Nothing obliges a run, EVE or a device to do anything: the liveness
properties are about getting rid of what they leave.

## 6. What is proved

The proofs hold for every value of the constants under the modules' named
assumptions, with no bound on accounts, runs, requests or transactions. What is
assumed is that numbers are numbers, that the markers of absence (`NoFleet`, `NoFlow`,
`Idle`, ...) are not what they stand in for, and what is named below; TLC evaluates
every one of these assumptions in the runs. Each inductive invariant was model-checked
on the run's instance before it was proved.

*Identity* (`IdentityProofs`). The inductive invariant is
`TypeOK /\ NothingOutlivesAccount /\ MainOwned /\ OwnersKnown`. Each of the middle two
needs the other: a merge may delete an account only because the one character it
gives away is its main, if it has one, and because an account that is not live has
no character. `OwnersKnown` is the history of the sales: whatever the database or a
transaction in flight believes about an owner was true once, and a token-health
finding is about an owner who is gone. From it follow the ownership, admin, bootstrap,
pending and wake-up action properties, and that every transaction is a move of
`AccountTiers` (`IdentityImplementsTiers`). `OnlyTransferEmpties`, which no run checks, is
proved too: an account that lost its last character and still stands lost it to a sale.

*Membership* (`MembershipProofs`). `MInv` is
`TypeOK /\ TokensOrdered /\ RunShape /\ ConfirmedIsCurrent`. No two runs in flight hold the
same token (`TokensOrdered`); a run writes a row at most once and decides only after
it has written (`RunShape`); so a row that carries a run's token still says what that
run read (`ConfirmedIsCurrent`), and the re-check of `affiliation_checked_at` under the
lock is enough for `SystemTierMatchesLatestRead`. That an older run overwrites nothing
(`OlderRunNeverWins`) is proved from the same invariant: every write of a row is a
compare-and-set on its token or makes the row unread.

*The clients of Discord and EVE* (`MembershipProofs`), which are checked in the same run and share
no variable with the job. `DiscordInv`: what is sent is the first in the chain of its route,
so no two requests of a route are out at once, and the latest global window a client
was told of is the one it keeps; that a request which slept out one window looks again
before it is sent does the rest. `EsiInv`: the waits asked of the fleet sources are what the
gate holds, no fleet call sleeps, and while the budget is unknown the next probe is a whole
interval after the last one left, whoever read what in between. That waits, the probe's
interval and what the headers name are natural numbers is assumed.

*Outbox* (`ConsoleProofs`). `NoLostWake` is not inductive: a dispatcher stamps its rows
long after it sent their jobs, and pg-boss silently swallows a send whose singleton
key is taken. `IInv` therefore says where every part of an owed wake-up is while a
batch is worked off: `AtItsRow` (the order of a batch), `ClaimsSeen` (who holds a row),
`SentAreTaken` (each job of a claimed row that was sent is in a queue, in a handler or
dead-lettered), `OwedByPayload` (what is owed is what the payload plans), `KeysFit` (a job's
key is its own), `Coalesced` (one waiting job per key). The lemma that carries it is
`SameKey`: two jobs of one queue with one singleton key are for the same target, so the
job that swallowed a send does its work. `KindsProgress` is a pigeonhole over a claim's
share: once it may take three rows, the oldest row of every kind is among them.

*The console and the forms* (`ConsoleProofs`). They share a run, and no variable, with the
queues. `FormsInv`: a form that is not yet answered has changed nothing (`Pending`), so what it is told
in the end is about one commit or none. `ConsoleInv`: a press that decides holds the row's
lock and the row is as it read it (`Decides`), so the values it logs are those it replaces;
a row of the log that starts where the field stands and ends where it is left keeps the
story together (`LogContinues`); and an account that is no longer pending was approved
by somebody in the log (`Approved`), which is what a late approval is told. No press or
code is assumed to be the value that marks absence, no row the one that marks a merged account.

*Fleet sources* (`FleetSourceProofs`). `FInv` is `TypeOK /\ Book /\ Tickets`. `Book` is about
sources, slots and rows: `SlotBacked`, `OneProvedSource` and `RowsBacked` need each
other, since a withdrawal finds the slot of a source only if the slot is backed, and
its rows only if the rows name the slot's holder. They rest on `Bounded` (a source that
is not over is in its first generation and short of the limit, so is a slot that is
held: what ends them still fits the column) and `ActivatedBound` (a proved source has a
fleet). `Tickets` is about what a run remembers. `BoundRuns`: the generation it saw at
bind is one the slot has had, and an old one if the run was overtaken, so `SlotAsSeen`
turns it away. `LatestClaim`: a run whose fetch generation is still its source's is
the one that claimed it last. All eight steps that take slots away are one lemma
(`Withdrawal`), the handover is the other (`InstallKeepsBook`); `SlotSteps` says that
nothing else touches a slot, and the action properties and the refinement of
`FencedSlot` (`GenerationsFence`) are read off it.

*The evidence* (`FleetSourceProofs`, after the run that checks it). A release is decided by
comparing the links of now with those of the capture, so `ExportInv` says what a row can tell:
those that were captured carry an epoch given out before, and once a character of the
capture has left, its row is gone or has a later epoch, even if it is back with the same owner. The
reader is the harder half, for EVE's histories grow at the head while they are read
from it. `ReaderInv` says what has been read of an endpoint (`SoFar`): nothing; or so many
pages of the history as it stood at the first answer, whose number of pages has not
changed; or everything down to the cursor. A page that is taken carries this on
(`PageTaken`): had the history grown since, another number of pages or a record seen twice would have
given it away; what is older than a cursor does not change (`CursorTaken`). When the last
page is in, all that stood there at first has been read, which `SettleKeeps` takes to the dataset
through its sequences of parts. A record's id is its place in the history counted from the oldest
(`HistoryIs`). Assumed are a plan whose single reads are of no history
(`PlanAssumption`), pages that hold something and markers of absence that are no numbers
(`PagesAssumption`, `TargetAssumption`).

*Fleet locks* (`PlatformProofs`). The transactions of the previous module, lock by lock
and in any number. Each takes its locks upwards (`Upwards`), so of those that wait the
one that wants the highest lock waits for none of the others: whoever holds it wants a
higher one (`NoDeadlock`, for any set of transactions; a finite set has a highest
element by the library's theorem on subset orderings). That a withdrawal is whole
(`WithdrawnWhole`) is the harder half, for every transaction probed before it waited. Beyond
the sources a transaction has in hand the locks of all it will end (`SourcesInHand`), at
the end those of all rows it will withdraw (`RowsInHand`), and the selectors by which
others could add to them (`SelectorsInHand`). Whoever commits a binding or a publication
holds the character, source, slot and device locks of what it writes, so it would share a
lock with a transaction it disturbs, which `Exclusive` forbids. The second probe
(`StillSo`) is what carries the first probe's findings into the hand (`SawInHand`). The
sets of rows and of transactions are assumed finite, which the database and its
connection pool justify.

*The clients* (`ClientsProofs`). `FleetDevices`, `FleetAutomatic`, `FleetAccess` and `FleetControl` run
side by side and share no variable, so each has an inductive invariant of its own and
`ClientsInv` is their conjunction. `DevInv`: a session is backed because a challenge that is open
has not been spent (`OpenIsUnspent`) and a pairing in flight holds the mode lock (`PairingHeld`);
a key stays bound because the index has every device a pass has gone by (`Unindexed`,
`HalfIndexed`, `BoundAsIndexed`). `AutoInv`: a command that took effect is of a consent
that has been replaced since, so its repetition finds another revision (`AppliedOnce`), and a
candidate that is claimed has not been refused (`ClaimedIsFree`). `AccessInv`: no token comes
twice (`TokensHold`), so a check that finds the token it started with saw no rotation (`CheckHolds`),
and the gate is never before what callers were told (`GateHolds`). `ControlInv`: a receipt precedes the consent it confirms
(`Control!After`), one command has one valid receipt (`OneOfEach`), and a source's row outlives
any start that may still come (`StartFits`), so a late start meets the refusal; any status
put together from a consent then passes the schema's check. Devices are assumed finite in
number, some key to exist, and the lifetimes to be numbers.

*The services* (`ServicesProofs`). The module proves the parts of `MCServices` one after the
other and then that every step of the composition is a step of one of them and a
stutter of the others (`PartsMove`), so that what is proved of each holds side by side
(`ServicesHold`). What the parts assume of their constants is `ServicesAssumption`.

*Credentials*. A replacement is stored by a worker that read the row long
before, and the compare of the blob says only that the row still holds the token it
started from. `HeldOfOneGrant` (the token a worker got is of the grant of the one it spent),
`CalledOwnsToken` (a callback's token is its own) and `GrantIsOver` make that enough: the row
holds a token of the last grant (`RowKeepsTheLastGrant`).

*The relay* (`RelayOrder`). Nothing deletes a row when its session expires or when a
participation is switched off and on again, so what keeps it hidden is why it is
over: `RowsExplained` says that a row is of the device its session is of, under a
generation the device has reached, and that a row that is over lost its session or its
generation, one of which every reader asks for. `CountersCover` says that no request was
applied at or above a revision its session has not reached, which is why a
request that comes twice or late is refused. `RelayInv` adds `LatestPublicationWins`, for
a publication replaces all rows of its device and so must know that there are no others.

*The pushes* (`PushFollows`). That a remote follows once nothing waits for it says nothing
while something does, so `PushInv` follows every target on its way. A user whom no waiting
wake-up would reach has the roles that are due, or has drifted, or is on the way of
the run: still to be visited, or missed (then the retry is a wake-up), or in its visit with the
planned calls mending it (`RolesOnWay`, `Mends`). `RolesVisit` is the heart of it: a run goes by the
tiers it read at its start, and `UserWake` and the closing look at a relinked user are why a
change since then always left a wake-up that reaches the user. For the map and the contact
books the same is said of entries; there any change of who is wanted wakes the job, so the
set it works from is current unless it is woken (`AclRun`, `ContactsRun`). One link per user
(`LinkUnique`) is the unique index. Failures that give a target up and runs that are dead-lettered put it into
`drift`, and so do other editors: the theorem is about all others.

*The monitor* (`WatchStands`). `WatchInv` says what a run knows: one that read a roster saw
every structure of its corporation that still stands (in the model structures stand from
the start and are destroyed, never built), and one that is about to mark an alert has posted it.
The rest of the property is read off each step: only a pending row is updated, whoever
else has been posting it.

*The pages* (`PlatformProofs`). `PagesAlwaysTrue` is one invariant per part of `MCPlatform` and a
step of one part is a stutter of the others (`PagesInv`). What is hard differs.

The status page rests on the calendar. The fires of a schedule come round every week
(`Cycle`), so within the window that is scanned there is a next one, no further off than the
largest gap of the week that starts anywhere; a job that is later than that, and the
grace, is late by what the page computes, and a group is calm only if none is. `CadenceHeld`
takes each form of schedule that is put into words and shows that it fires at one
remainder of its period (`StepRhythm` to `WeekRhythm`, with the arithmetic of quotients and
remainders the prover does not bring, as lemmas). It is assumed that the schedules can be
read, name no day of the month and come round within the scanned window, which those of
`JOB_CRON` do.

The filter of the log is the inverse of its display because a main is a character of its
account (`MainsAreOwn`) and a deleted operation has one name for ever (`DeletedOnce`). That
the pages hold all that matches (`PagesHoldAll`) is induction over a recursive function, for
which the library's theorem cannot be used: that the walk exists is its well-founded
definition, that it holds everything is shown by a least counterexample. For the access
lists, a run that is about to write has made no write since it lost its designation
(`ListsInv`); for the location job, a place has the time of its last whole reading
(`ReadWhole`) and only a refused grant is condemned (`RefusedFirst`). The headline of an account
is a fact about one page (`HeadlineOfAnyPage`) and needs no invariant. Ids of different
things are assumed different, and no time, id or result to be the marker of absence.

*Payouts* (`PayoutsProofs`). `IInv` is `TypeOK /\ LogTellsPaid /\ Settled /\ OffRoster`.
`Settled` (a payment row implies finalized) is what makes the editability guard of
each path enough; `OffRoster` (no money and no log off the roster) is what lets a
deletion map to the ledger's `Discard`. Every edit is first shown to be a `DraftEdit`, so that
each property has one case for all ten of them. From it follow the freeze, the log,
the stamps and that the operation implements `Ledger`. `BookInv` adds `BookAddsUp`: one row
per person, each pool the sum of its lines, each amount its shares of the loot; it is
inductive with `IInv` because every edit ends in `recalculate`. That the amounts stay
within the loot (`WithinTheLoot`) then is a fact about sums: the lemmas `LeastSubset` to
`SumsAgree` say of the library's `SumFunctionOnSet` that it is a number, takes its elements in
any order and is monotone. The library's induction theorems take an operator, which no
installed prover can instantiate, so these lemmas are proved by a least counterexample
among the subsets of a finite set. People, pools and lines are assumed finite, a share
count a positive number and the price's percentage at most 100 per cent.

Only model-checked: all liveness (`AssociateConverges`, `WakesAnswered`,
`MaintenanceSuffices`), which is out of the prover's reach.

## 7. Disagreements found

`membership_auto`: `core/tier.ts:4-6` says "this is how an unlocked associate converges
after 'return to auto'", and `services/admin-accounts.ts:102-103` that "the tier itself
is stamped by the next membership run". The tier pass looks at accounts with a main only
(`jobs/membership.ts:195`), so an associate that lost its main while it was pinned
stays associate after it is returned to automatic, for as long as it has none.
`AssociateConverges` is the statement that does hold.

`verdict`: `services/tokens.ts:175-177` says that the conditional update "discards the stale
decision atomically". It does only when the other job has stored its rotation. Between
EVE's answer to the winner and the winner's update the stored blob is still the old one,
the loser marks the character invalid, and the winner then replaces the blob alone
(`tokens.ts:151`): a token that works under a verdict about another.

`backlog`: `services/structures.ts:47-48` says a new holder "re-seeds rather than replaying a
90-day backlog", and `:122-123` that every write compares first. The check is a plain read,
and `markSeeded` updates the one row whoever it names: a first poll that passed the check
while an admin designated another corporation's character stamps the new designation as
seeded, and the next poll posts that corporation's old attacks.

Smaller things met while modelling, none of them a run:

- `app/account/fleet-devices/actions.ts` says `fleetDevice` rows are never hard-deleted; a merge
  deletes an account and the schema cascades (`db/schema.ts:777-779`). `FleetDevices` has
  that deletion.
- `services/sync-run.ts:48-52` says a partial run must not ask for a retry, while membership,
  contacts, roles and wanderer return partial results with `retry: true`. `Outbox` leaves the
  choice free.
- `promoteAdmin` (`services/accounts.ts:764-791`) locks the admins in order and then the target,
  which is none of them: two promotions may lock in opposite orders. PostgreSQL aborts one of
  them; the locks of accounts are not modelled one by one.
- `logAuditIfChanged` reads and then inserts, so two runs may write the same row; the
  location job's row on a transition can appear twice when two runs overlap and be missing
  after a crash.
- Demoting an account that is no admin is audited and answered "revoked"; promoting an admin
  answers "granted"; `syncAccountAction` never answers `not_found`, though
  `redirectOnMutationError` says that any action may.
- A fleet access check that runs out of time after EVE denied its refresh answers `timed_out`
  though the grant was condemned.
- `stillHolder` in `services/access-lists.ts` is a plain read: one superseded write is possible.
- What `dueAfter` calls far is measured from a fixed past instant, so that a monthly job is always
  fresh; `missing` can be false after a worker was down, or for a new job.
- After sleeping, the generic ESI caller takes its remaining budget for infinite
  (`lib/esi/client.ts:435`); a history read page by page can be torn by what happens upstream meanwhile.
- A character linked after an export was captured and unlinked before its release goes unnoticed.
- `resolveRosterNames` makes three reads and can give two rows one recipient; `parseLootPaste`
  reports only the first line of a name it drops.
- `label_mismatch` with one candidate of equal fold shows "Nothing to do" while the verdict
  counts it as attention.
- `RolesFollow` would not hold if a handler that outlived its expiry overlapped a strip.

## 8. What is not modelled

*Identity*: display names, audit rows, the text of notes. *Membership*: two tokens
cut to the same millisecond; the tokens of the module are distinct.
*Outbox*: an expired job whose live handler finishes after its expiry; payloads of
an older version of the code; gaps in ids between the four selects of one claim (they
are one step here). *FleetSource*: the lease and the telemetry row are one row, which the
code writes and deletes together; its hard expiry and its omission from a later
publication are one action that may happen any time; pacing is `FetchDue`, at any time;
branches that the other guards make unreachable are left out. *FleetLocks*: the keys' and the
sessions' locks, which no two of its transactions wait for in turn; generations, which
`FleetSource` has. *Payouts*: one operation (no transaction touches two); what an operator asked
for is chosen at the lock, as nothing reads it earlier; editors of free text and audit rows;
the creator is never nulled, as a merge is refused while an account has payout rows.
*FleetDevices*, *FleetRelay*: a deadline is a bit that time may clear at any moment, so the renewal
of a session has no action; signatures are whom they prove. *FleetControl*: `closed_reason`, the
refusals for capability, membership and mode, and the limits of capacity and of integers.
*FleetAccess*: the network is one answer. *DiscordClient*, *EsiClient*: time is a count of
windows. *AccountPage*: wording, order and layout; the place's ages are old or fresh.
*Location job*: the exchange of a token is one step, resolved names are a set.
The cache of eligibility (`fleet_eligibility`) is read by the code but nothing writes it.

Components without a module are listed with the reason in `PROJECT.json`. Appraisal converts
values it is given; web pages other than the account pages render what they are given;
boot and shutdown register handlers and hold no state of their own.
