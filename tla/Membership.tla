----------------------------- MODULE Membership -----------------------------
(***************************************************************************)
(* jobs/membership.ts: overlapping membership runs, each of which reads    *)
(* the linked characters, asks ESI for their alliance, writes the answers  *)
(* one row at a time and then moves accounts between tiers one at a time,  *)
(* while members and admins change the same rows (AccountTiers).  The      *)
(* `short` queue policy allows two runs of one queue at once, and an       *)
(* account's own run is another queue entry than the hourly one.           *)
(***************************************************************************)
EXTENDS Naturals, FiniteSets

CONSTANTS Accounts, Chars, NoAccount, NoChar, AdminTiers,
          Runs,      \* worker slots that can run the job at the same time
          MaxClock   \* bound: ordering tokens handed out

ASSUME NoAccountAssumption == NoAccount \notin Accounts
ASSUME NoCharAssumption == NoChar \notin Chars
ASSUME MaxClockAssumption == MaxClock \in Nat
ASSUME AdminTiersAssumption == AdminTiers \subseteq {"member", "associate", "alumni"}

VARIABLES acct, charAccount, main, tier, tierLocked,
          affiliation, \* character.alliance_id: "unread", "in" our alliance, "out"
          flagged,     \* character.affiliation_invalid
          checkedAt,   \* character.affiliation_checked_at, 0 for null
          clock,       \* the last token the database clock gave out
          pc,          \* where a run is
          scope,       \* opts.accountId, NoAccount for every account
          recheck,     \* opts.recheckInvalid
          token,       \* the run's own checkedAt
          outcome,     \* ESI's answers this run has not yet written
          confirmed,   \* the answers whose write this run won
          decisions    \* tier transitions decided and not yet applied

T == INSTANCE AccountTiers

accountVars == <<acct, charAccount, main, tier, tierLocked>>
rowVars == <<affiliation, flagged, checkedAt>>
runVars == <<pc, scope, recheck, token, outcome, confirmed, decisions>>
vars == <<accountVars, rowVars, clock, runVars>>

(* "none": the run did not ask, or ESI gave no usable answer (unresolved). *)
Outcomes == {"none", "in", "out", "invalid"}
Nothing == [c \in Chars |-> "none"]
Decision == [account: Accounts, main: Chars, next: {"member", "alumni"}]

Init ==
  /\ T!Init
  /\ affiliation = [c \in Chars |-> "unread"]
  /\ flagged = [c \in Chars |-> FALSE]
  /\ checkedAt = [c \in Chars |-> 0]
  /\ clock = 0
  /\ pc = [r \in Runs |-> "idle"]
  /\ scope = [r \in Runs |-> NoAccount]
  /\ recheck = [r \in Runs |-> FALSE]
  /\ token = [r \in Runs |-> 0]
  /\ outcome = [r \in Runs |-> Nothing]
  /\ confirmed = [r \in Runs |-> Nothing]
  /\ decisions = [r \in Runs |-> {}]

-----------------------------------------------------------------------------
(* What members and admins do meanwhile.  A new row starts unread, a row   *)
(* that a merge moves keeps what was read.                                 *)

FreshRow(c) ==
  /\ affiliation' = [affiliation EXCEPT ![c] = "unread"]
  /\ flagged' = [flagged EXCEPT ![c] = FALSE]
  /\ checkedAt' = [checkedAt EXCEPT ![c] = 0]

AccountsChange ==
  /\ \/ \E a \in Accounts, c \in Chars : (T!Open(a, c) \/ T!Link(a, c)) /\ FreshRow(c)
     \/ \E c \in Chars : T!Lose(c) /\ FreshRow(c)
     \/ /\ UNCHANGED rowVars
        /\ \/ \E a \in Accounts, c \in Chars : T!Absorb(a, c) \/ T!SetMain(a, c)
           \/ \E a \in Accounts, t \in T!Tiers : T!Pin(a, t) \/ T!Approve(a, t)
           \/ \E a \in Accounts : T!Unpin(a)
  /\ UNCHANGED <<clock, runVars>>

-----------------------------------------------------------------------------
(* One membership run *)

(* Variant, not the code: two runs started together get the same token. *)
CoarseToken == IF clock = 0 THEN 1 ELSE clock
(* clock_timestamp() of the database: every run's token is a later one.     *)
NextToken == clock + 1

(* The token is taken before anything is read. *)
TakeToken(r, a, again) ==
  /\ pc[r] = "idle" /\ clock < MaxClock
  /\ clock' = NextToken
  /\ token' = [token EXCEPT ![r] = NextToken]
  /\ scope' = [scope EXCEPT ![r] = a]
  /\ recheck' = [recheck EXCEPT ![r] = again]
  /\ pc' = [pc EXCEPT ![r] = "read"]
  /\ UNCHANGED <<accountVars, rowVars, outcome, confirmed, decisions>>

InScope(r, a) == scope[r] \in {NoAccount, a}
Eligible(r) == {c \in Chars : /\ charAccount[c] # NoAccount
                              /\ InScope(r, charAccount[c])
                              /\ recheck[r] \/ ~flagged[c]}

(* The SELECT, and resolveAffiliations: every id is resolved, refused by    *)
(* itself with 400, or left unresolved by anything else that goes wrong.   *)
(* The answers depend on nothing in the database, so it makes no           *)
(* difference when between the SELECT and the first write they arrive.     *)
Ask(r) ==
  /\ pc[r] = "read"
  /\ \E answer \in [Eligible(r) -> Outcomes] :
       outcome' = [outcome EXCEPT ![r] =
         [c \in Chars |-> IF c \in Eligible(r) THEN answer[c] ELSE "none"]]
  /\ pc' = [pc EXCEPT ![r] = "write"]
  /\ UNCHANGED <<accountVars, rowVars, clock, scope, recheck, token, confirmed,
                 decisions>>

(* Variant, not the code: the last run to write wins. *)
RowExists(r, c) == charAccount[c] # NoAccount
(* The row exists and no newer run has written it. *)
Newer(r, c) == charAccount[c] # NoAccount /\ checkedAt[c] < token[r]

(* The UPDATE guarded by affiliation_checked_at; only a winner confirms. *)
WriteResolved(r, c) ==
  /\ pc[r] = "write" /\ outcome[r][c] \in {"in", "out"}
  /\ outcome' = [outcome EXCEPT ![r][c] = "none"]
  /\ IF Newer(r, c)
     THEN /\ affiliation' = [affiliation EXCEPT ![c] = outcome[r][c]]
          /\ flagged' = [flagged EXCEPT ![c] = FALSE]
          /\ checkedAt' = [checkedAt EXCEPT ![c] = token[r]]
          /\ confirmed' = [confirmed EXCEPT ![r][c] = outcome[r][c]]
     ELSE UNCHANGED <<rowVars, confirmed>>
  /\ UNCHANGED <<accountVars, clock, pc, scope, recheck, token, decisions>>

(* The invalid ids follow the resolved ones; the last read is kept. *)
WriteInvalid(r, c) ==
  /\ pc[r] = "write" /\ outcome[r][c] = "invalid"
  /\ \A d \in Chars : outcome[r][d] \notin {"in", "out"}
  /\ outcome' = [outcome EXCEPT ![r][c] = "none"]
  /\ IF Newer(r, c)
     THEN /\ flagged' = [flagged EXCEPT ![c] = TRUE]
          /\ checkedAt' = [checkedAt EXCEPT ![c] = token[r]]
     ELSE UNCHANGED <<flagged, checkedAt>>
  /\ UNCHANGED <<accountVars, affiliation, clock, pc, scope, recheck, token,
                 confirmed, decisions>>

(* Variants, not the code: leaving the alliance puts an account back to     *)
(* pending; an associate is left alone like a pinned account.              *)
DecidePending(was, locked, mainConfirmed, mainInAlliance) ==
  IF locked \/ ~mainConfirmed THEN "keep"
  ELSE IF mainInAlliance THEN "member" ELSE "pending"
DecideNoAssociate(was, locked, mainConfirmed, mainInAlliance) ==
  LET desired == IF mainInAlliance THEN "member" ELSE "alumni" IN
  IF locked \/ ~mainConfirmed \/ was \in {"pending", "associate", desired}
  THEN "keep" ELSE desired

(* core/tier.ts: the tier to set, "keep" for null. *)
DecideTier(was, locked, mainConfirmed, mainInAlliance) ==
  LET desired == IF mainInAlliance THEN "member" ELSE "alumni" IN
  IF locked \/ ~mainConfirmed \/ (was = "pending" /\ ~mainInAlliance) \/ was = desired
  THEN "keep" ELSE desired

Decided(r, a) == DecideTier(tier[a], tierLocked[a], confirmed[r][main[a]] # "none",
                            confirmed[r][main[a]] = "in")

(* The unlocked SELECT of accounts, and the decision for each. *)
ReadAccounts(r) ==
  /\ pc[r] = "write" /\ outcome[r] = Nothing
  /\ decisions' = [decisions EXCEPT ![r] =
       {[account |-> a, main |-> main[a], next |-> Decided(r, a)] :
          a \in {b \in T!Live : /\ InScope(r, b) /\ ~tierLocked[b]
                                /\ main[b] # NoChar /\ Decided(r, b) # "keep"}}]
  /\ confirmed' = [confirmed EXCEPT ![r] = Nothing]
  /\ pc' = [pc EXCEPT ![r] = "apply"]
  /\ UNCHANGED <<accountVars, rowVars, clock, scope, recheck, token, outcome>>

(* A variant, not the code: the row's token is not read again.            *)
DecidedOnce(r, d) ==
  /\ acct[d.account] = "live" /\ ~tierLocked[d.account]
  /\ tier[d.account] # d.next /\ main[d.account] = d.main

(* applyTierTransition re-verifies under the locks that this run's write   *)
(* is still the latest and that the account is as it was read.             *)
StillDecided(r, d) ==
  /\ charAccount[d.main] # NoAccount /\ checkedAt[d.main] = token[r]
  /\ acct[d.account] = "live" /\ ~tierLocked[d.account]
  /\ tier[d.account] # d.next /\ main[d.account] = d.main

ApplyTierTransition(r, d) ==
  /\ pc[r] = "apply" /\ d \in decisions[r]
  /\ decisions' = [decisions EXCEPT ![r] = @ \ {d}]
  /\ tier' = IF StillDecided(r, d) THEN [tier EXCEPT ![d.account] = d.next] ELSE tier
  /\ UNCHANGED <<acct, charAccount, main, tierLocked, rowVars, clock, pc, scope,
                 recheck, token, outcome, confirmed>>

(* The run is over, or the worker died in the middle of it. *)
Leave(r) ==
  /\ pc' = [pc EXCEPT ![r] = "idle"]
  /\ scope' = [scope EXCEPT ![r] = NoAccount]
  /\ recheck' = [recheck EXCEPT ![r] = FALSE]
  /\ token' = [token EXCEPT ![r] = 0]
  /\ outcome' = [outcome EXCEPT ![r] = Nothing]
  /\ confirmed' = [confirmed EXCEPT ![r] = Nothing]
  /\ decisions' = [decisions EXCEPT ![r] = {}]
  /\ UNCHANGED <<accountVars, rowVars, clock>>

Done(r) == pc[r] = "apply" /\ decisions[r] = {}
Finish(r) == Done(r) /\ Leave(r)
Crash(r) == pc[r] # "idle" /\ ~Done(r) /\ Leave(r)

RunStep(r) ==
  \/ Ask(r)
  \/ \E c \in Chars : WriteResolved(r, c) \/ WriteInvalid(r, c)
  \/ ReadAccounts(r)
  \/ \E d \in decisions[r] : ApplyTierTransition(r, d)
  \/ Finish(r)

Next ==
  \/ AccountsChange
  \/ \E r \in Runs : \/ \E a \in Accounts \union {NoAccount}, again \in BOOLEAN :
                          TakeToken(r, a, again)
                     \/ RunStep(r)
                     \/ Crash(r)

Spec == Init /\ [][Next]_vars

-----------------------------------------------------------------------------
(* Every variable of the accounts, the rows and the runs has its type. *)
TypeOK ==
  /\ acct \in [Accounts -> {"free", "live", "deleted"}]
  /\ charAccount \in [Chars -> Accounts \union {NoAccount}]
  /\ main \in [Accounts -> Chars \union {NoChar}]
  /\ tier \in [Accounts -> T!Tiers]
  /\ tierLocked \in [Accounts -> BOOLEAN]
  /\ affiliation \in [Chars -> {"unread", "in", "out"}]
  /\ flagged \in [Chars -> BOOLEAN]
  /\ checkedAt \in [Chars -> 0 .. MaxClock]
  /\ clock \in 0 .. MaxClock
  /\ pc \in [Runs -> {"idle", "read", "write", "apply"}]
  /\ scope \in [Runs -> Accounts \union {NoAccount}]
  /\ recheck \in [Runs -> BOOLEAN]
  /\ token \in [Runs -> 0 .. MaxClock]
  /\ outcome \in [Runs -> [Chars -> Outcomes]]
  /\ confirmed \in [Runs -> [Chars -> {"none", "in", "out"}]]
  /\ decisions \in [Runs -> SUBSET Decision]

(* What a run has confirmed, or decided from, is what the row says for as   *)
(* long as the row carries the run's token: no other run, merge or relink  *)
(* can put another value under the same token.                             *)
Agrees(r, c, read) == checkedAt[c] = token[r] => affiliation[c] = read /\ ~flagged[c]
ConfirmedIsCurrent ==
  \A r \in Runs :
    /\ \A c \in Chars : confirmed[r][c] # "none" => Agrees(r, c, confirmed[r][c])
    /\ \A d \in decisions[r] :
         Agrees(r, d.main, IF d.next = "member" THEN "in" ELSE "out")

(* Whatever the order in which overlapping runs finish, the system moves   *)
(* only an account that no admin has pinned: it takes an earned tier when  *)
(* the main is lost, makes the account a member only while the latest read *)
(* of its main says it is in the alliance, and an alumni only while that   *)
(* read says it is not and the account is not pending.                     *)
SystemMove(a) ==
  /\ ~tierLocked[a]
  /\ \/ tier[a] # "pending" /\ tier'[a] = "alumni" /\ main'[a] = NoChar
     \/ /\ main[a] # NoChar /\ ~flagged[main[a]]
        /\ \/ tier'[a] = "member" /\ affiliation[main[a]] = "in"
           \/ tier'[a] = "alumni" /\ affiliation[main[a]] = "out" /\ tier[a] # "pending"
SystemTierMatchesLatestRead ==
  [][\A a \in T!Live : tier'[a] # tier[a] =>
       SystemMove(a) \/ \E t \in T!Tiers : T!Pin(a, t) \/ T!Approve(a, t)]_vars

(* A slower, older run never overwrites what a newer one has written: while *)
(* a row exists its reads only move forward.                               *)
OlderRunNeverWins ==
  [][\A c \in Chars : charAccount'[c] # NoAccount =>
       \/ checkedAt'[c] > checkedAt[c]
       \/ affiliation'[c] = affiliation[c] /\ flagged'[c] = flagged[c]
       \/ affiliation'[c] = "unread"]_vars

-----------------------------------------------------------------------------
(* Liveness.  Tokens are compared only with those of runs in flight, so    *)
(* when none is the clock can be started over, which keeps TLC's behaviours *)
(* finite without stopping the cron.                                       *)
Rebase ==
  /\ clock > 0 /\ \A r \in Runs : pc[r] = "idle"
  /\ clock' = 0
  /\ checkedAt' = [c \in Chars |-> 0]
  /\ UNCHANGED <<accountVars, affiliation, flagged, runVars>>

(* A run over every account that includes the invalid ones, for which ESI   *)
(* has an answer for every character.                                      *)
FullRead(r) ==
  /\ scope[r] = NoAccount /\ recheck[r] /\ Ask(r)
  /\ \A c \in Eligible(r) : outcome'[r][c] \in {"in", "out"}

(* The weekly recheck keeps being enqueued, ESI does not fail it every     *)
(* time, a run once started goes on, and workers stop crashing at some     *)
(* point (pg-boss runs the job again when one did).                        *)
Fairness ==
  /\ WF_vars(Rebase)
  /\ \A r \in Runs : /\ WF_vars(RunStep(r))
                     /\ SF_vars(TakeToken(r, NoAccount, TRUE))
                     /\ SF_vars(FullRead(r))
  /\ <>[][\A r \in Runs : ~Crash(r)]_vars

LiveSpec == Init /\ [][Next \/ Rebase]_vars /\ Fairness

(* An unpinned associate whose main stays the same does not stay associate: *)
(* the membership runs converge it to member or alumni.                    *)
AssociateConverges ==
  \A a \in Accounts, c \in Chars :
    ~<>[](a \in T!Live /\ ~tierLocked[a] /\ main[a] = c /\ tier[a] = "associate")

(* The same without the condition on the main, as core/tier.ts and the     *)
(* comment of returnTierToAuto put it: an account returned to automatic    *)
(* does not keep the associate tier.                                       *)
ReturnedToAutoConverges ==
  \A a \in Accounts :
    ~<>[](a \in T!Live /\ ~tierLocked[a] /\ tier[a] = "associate")
=============================================================================
