-------------------------- MODULE MembershipProofs --------------------------
(***************************************************************************)
(* What is proved about overlapping membership runs, for every number of   *)
(* runs, accounts and characters, and about the clients of Discord and EVE *)
(* the run checks beside them.                                             *)
(*                                                                         *)
(* The argument is the token's: no two runs in flight hold the same one    *)
(* (TokensOrdered), a run writes a row at most once and decides only after *)
(* it has written (RunShape), so a row that carries a run's token still    *)
(* says what that run read (ConfirmedIsCurrent), and the transition's      *)
(* re-check of affiliation_checked_at is enough.                           *)
(*                                                                         *)
(* The argument of the clients: what a client was told is what it keeps.   *)
(* To Discord only the first in the chain of a route is sent (DiscordInv); *)
(* the fleet gate of EVE is never ahead of an unknown budget by less than  *)
(* a probe's interval (EsiInv).                                            *)
(***************************************************************************)
EXTENDS MCMembers, Sequences, TLAPS

TokensOrdered ==
  /\ \A c \in Chars : checkedAt[c] <= clock
  /\ \A r \in Runs : token[r] <= clock /\ (pc[r] # "idle" => token[r] > 0)
  /\ \A q, r \in Runs : q # r /\ pc[q] # "idle" /\ pc[r] # "idle" => token[q] # token[r]

RunShape ==
  \A r \in Runs :
    /\ decisions[r] # {} => pc[r] = "apply"
    /\ \A c \in Chars : confirmed[r][c] # "none" => pc[r] = "write" /\ outcome[r][c] = "none"
    /\ \A d \in decisions[r] :
         /\ acct[d.account] # "free"
         /\ tier[d.account] = "pending" => d.next = "member"

MInv == TypeOK /\ TokensOrdered /\ RunShape /\ ConfirmedIsCurrent

USE NoAccountAssumption, NoCharAssumption, MaxClockAssumption, AdminTiersAssumption

LEMMA InitMInv == Init => MInv
BY DEF Init, T!Init, T!Tiers, MInv, TypeOK, TokensOrdered, RunShape, ConfirmedIsCurrent,
       Agrees, Nothing, Outcomes

LEMMA AccountsChangeTypes ==
  ASSUME MInv, AccountsChange
  PROVE  TypeOK'
<1> USE DEF MInv, TypeOK, T!Live, T!Tiers, T!MainWithout, T!TierWithout, FreshRow, rowVars
<1>0. UNCHANGED <<clock, pc, scope, recheck, token, outcome, confirmed, decisions>>
  BY DEF AccountsChange, runVars
<1>1. ASSUME NEW a \in Accounts, NEW c \in Chars, T!Open(a, c), FreshRow(c) PROVE TypeOK'
  BY <1>0, <1>1 DEF T!Open
<1>2. ASSUME NEW a \in Accounts, NEW c \in Chars, T!Link(a, c), FreshRow(c) PROVE TypeOK'
  BY <1>0, <1>2 DEF T!Link
<1>3. ASSUME NEW c \in Chars, T!Lose(c), FreshRow(c) PROVE TypeOK'
  BY <1>0, <1>3 DEF T!Lose
<1>4. ASSUME NEW a \in Accounts, NEW c \in Chars, T!Absorb(a, c), UNCHANGED rowVars
      PROVE  TypeOK'
  BY <1>0, <1>4 DEF T!Absorb
<1>5. ASSUME NEW a \in Accounts, NEW c \in Chars, T!SetMain(a, c), UNCHANGED rowVars
      PROVE  TypeOK'
  BY <1>0, <1>5 DEF T!SetMain
<1>6. ASSUME NEW a \in Accounts, NEW t \in T!Tiers, T!Pin(a, t), UNCHANGED rowVars
      PROVE  TypeOK'
  BY <1>0, <1>6 DEF T!Pin
<1>7. ASSUME NEW a \in Accounts, NEW t \in T!Tiers, T!Approve(a, t), UNCHANGED rowVars
      PROVE  TypeOK'
  BY <1>0, <1>7 DEF T!Approve
<1>8. ASSUME NEW a \in Accounts, T!Unpin(a), UNCHANGED rowVars PROVE TypeOK'
  BY <1>0, <1>8 DEF T!Unpin
<1> HIDE DEF MInv, TypeOK, T!Live, T!Tiers, T!MainWithout, T!TierWithout, FreshRow, rowVars
<1> QED
  BY <1>1, <1>2, <1>3, <1>4, <1>5, <1>6, <1>7, <1>8, Zenon DEF AccountsChange

(* Members and admins never bring an account back to free or pending, and  *)
(* only ever reset a row to unread.                                        *)
AccountOnward(a) == acct[a] # "free" =>
  acct'[a] # "free" /\ (tier'[a] = "pending" => tier[a] = "pending")
RowKeptOrReset(c) ==
  \/ checkedAt'[c] = 0
  \/ checkedAt'[c] = checkedAt[c] /\ affiliation'[c] = affiliation[c] /\ flagged'[c] = flagged[c]

LEMMA AccountsChangeBounds ==
  ASSUME MInv, AccountsChange
  PROVE  (\A a \in Accounts : AccountOnward(a)) /\ (\A c \in Chars : RowKeptOrReset(c))
<1> DEFINE Goal == /\ \A a \in Accounts : AccountOnward(a)
                   /\ \A c \in Chars : RowKeptOrReset(c)
<1> USE DEF MInv, TypeOK, T!Live, T!Tiers, T!MainWithout, T!TierWithout, FreshRow, rowVars,
            AccountOnward, RowKeptOrReset
<1>1. ASSUME NEW a \in Accounts, NEW c \in Chars, T!Open(a, c), FreshRow(c) PROVE Goal
  BY <1>1 DEF T!Open
<1>2. ASSUME NEW a \in Accounts, NEW c \in Chars, T!Link(a, c), FreshRow(c) PROVE Goal
  BY <1>2 DEF T!Link
<1>3. ASSUME NEW c \in Chars, T!Lose(c), FreshRow(c) PROVE Goal
  BY <1>3 DEF T!Lose
<1>4. ASSUME NEW a \in Accounts, NEW c \in Chars, T!Absorb(a, c), UNCHANGED rowVars
      PROVE  Goal
  BY <1>4 DEF T!Absorb
<1>5. ASSUME NEW a \in Accounts, NEW c \in Chars, T!SetMain(a, c), UNCHANGED rowVars
      PROVE  Goal
  BY <1>5 DEF T!SetMain
<1>6. ASSUME NEW a \in Accounts, NEW t \in T!Tiers, T!Pin(a, t), UNCHANGED rowVars
      PROVE  Goal
  BY <1>6 DEF T!Pin
<1>7. ASSUME NEW a \in Accounts, NEW t \in T!Tiers, T!Approve(a, t), UNCHANGED rowVars
      PROVE  Goal
  BY <1>7 DEF T!Approve
<1>8. ASSUME NEW a \in Accounts, T!Unpin(a), UNCHANGED rowVars PROVE Goal
  BY <1>8 DEF T!Unpin
<1> HIDE DEF Goal, MInv, TypeOK, T!Live, T!Tiers, T!MainWithout, T!TierWithout, FreshRow,
            rowVars, AccountOnward, RowKeptOrReset
<1>9. Goal
  BY <1>1, <1>2, <1>3, <1>4, <1>5, <1>6, <1>7, <1>8, Zenon DEF AccountsChange
<1> QED BY <1>9 DEF Goal

LEMMA AccountsChangeKeepsMInv ==
  ASSUME MInv, AccountsChange
  PROVE  MInv'
<1>1. TypeOK'
  BY AccountsChangeTypes
<1>2. UNCHANGED <<clock, runVars>>
  BY DEF AccountsChange
<1>3. TokensOrdered'
  <2>1. ASSUME NEW c \in Chars PROVE checkedAt'[c] <= clock
    <3>1. RowKeptOrReset(c)
      BY AccountsChangeBounds
    <3>2. checkedAt[c] <= clock /\ clock >= 0
      BY DEF MInv, TypeOK, TokensOrdered
    <3> QED
      BY <3>1, <3>2 DEF RowKeptOrReset
  <2> QED
    BY <1>2, <2>1 DEF MInv, TokensOrdered, runVars
<1>4. RunShape'
  <2>1. ASSUME NEW r \in Runs, NEW d \in decisions[r]
        PROVE  acct'[d.account] # "free" /\ (tier'[d.account] = "pending" => d.next = "member")
    <3>1. d.account \in Accounts /\ acct[d.account] # "free"
      BY DEF MInv, TypeOK, RunShape, Decision
    <3>2. AccountOnward(d.account)
      BY <3>1, AccountsChangeBounds
    <3> QED
      BY <3>1, <3>2 DEF MInv, RunShape, AccountOnward
  <2> QED
    BY <1>2, <2>1 DEF MInv, RunShape, runVars
<1>5. ConfirmedIsCurrent'
  <2>1. \A r \in Runs : pc[r] # "idle" => token[r] > 0
    BY DEF MInv, TokensOrdered
  <2>2. \A r \in Runs, c \in Chars, read \in {"in", "out"} :
          pc[r] # "idle" /\ Agrees(r, c, read) => Agrees(r, c, read)'
    BY <1>2, <2>1, AccountsChangeBounds DEF MInv, TypeOK, Agrees, runVars, RowKeptOrReset
  <2>3. ASSUME NEW r \in Runs, NEW c \in Chars, confirmed[r][c] # "none"
        PROVE  Agrees(r, c, confirmed[r][c])'
    <3>1. pc[r] # "idle" /\ confirmed[r][c] \in {"in", "out"} /\ Agrees(r, c, confirmed[r][c])
      BY <2>3 DEF MInv, TypeOK, RunShape, ConfirmedIsCurrent
    <3>2. confirmed'[r][c] = confirmed[r][c]
      BY <1>2 DEF runVars
    <3> QED BY <2>2, <3>1, <3>2 DEF Agrees
  <2>4. ASSUME NEW r \in Runs, NEW d \in decisions[r]
        PROVE  Agrees(r, d.main, IF d.next = "member" THEN "in" ELSE "out")'
    <3>1. pc[r] # "idle" /\ d.main \in Chars
      BY DEF MInv, TypeOK, RunShape, Decision
    <3>2. Agrees(r, d.main, IF d.next = "member" THEN "in" ELSE "out")
      BY DEF MInv, ConfirmedIsCurrent
    <3> QED BY <2>2, <3>1, <3>2
  <2> QED BY <1>2, <2>3, <2>4 DEF ConfirmedIsCurrent, runVars
<1> QED BY <1>1, <1>3, <1>4, <1>5 DEF MInv

LEMMA TakeTokenKeepsMInv ==
  ASSUME MInv, NEW r \in Runs, NEW a \in Accounts \union {NoAccount}, NEW again \in BOOLEAN,
         TakeToken(r, a, again)
  PROVE  MInv'
<1> USE DEF MInv, TakeToken, NextToken, accountVars, rowVars
<1>1. TypeOK'
  BY DEF TypeOK
<1>2. TokensOrdered'
  BY DEF TypeOK, TokensOrdered
<1>3. RunShape'
  BY DEF TypeOK, RunShape
<1>4. ConfirmedIsCurrent'
  BY DEF TypeOK, TokensOrdered, RunShape, ConfirmedIsCurrent, Agrees, Decision
<1> QED BY <1>1, <1>2, <1>3, <1>4

LEMMA AskKeepsMInv ==
  ASSUME MInv, NEW r \in Runs, Ask(r)
  PROVE  MInv'
<1> USE DEF MInv, Ask, accountVars, rowVars
<1>1. TypeOK'
  BY DEF TypeOK, Outcomes, Eligible
<1>2. TokensOrdered'
  BY DEF TypeOK, TokensOrdered
<1>3. RunShape'
  BY DEF TypeOK, RunShape
<1>4. ConfirmedIsCurrent'
  BY DEF TypeOK, ConfirmedIsCurrent, Agrees
<1> QED BY <1>1, <1>2, <1>3, <1>4

LEMMA WriteResolvedKeepsMInv ==
  ASSUME MInv, NEW r \in Runs, NEW c \in Chars, WriteResolved(r, c)
  PROVE  MInv'
<1> USE DEF MInv, WriteResolved, Newer, accountVars, rowVars
<1>1. TypeOK'
  <2>1. outcome' \in [Runs -> [Chars -> Outcomes]]
    BY DEF TypeOK, Outcomes
  <2>2. confirmed' \in [Runs -> [Chars -> {"none", "in", "out"}]]
    <3>1. CASE Newer(r, c)
      <4>1. confirmed' = [confirmed EXCEPT ![r][c] = outcome[r][c]]
        BY <3>1
      <4>2. outcome[r][c] \in {"none", "in", "out"}
        OBVIOUS
      <4> QED BY <4>1, <4>2 DEF TypeOK
    <3>2. CASE ~Newer(r, c)
      BY <3>2 DEF TypeOK
    <3> QED BY <3>1, <3>2
  <2>3. affiliation' \in [Chars -> {"unread", "in", "out"}]
    BY DEF TypeOK
  <2>4. flagged' \in [Chars -> BOOLEAN]
    BY DEF TypeOK
  <2>5. checkedAt' \in [Chars -> 0 .. MaxClock]
    BY DEF TypeOK
  <2> QED BY <2>1, <2>2, <2>3, <2>4, <2>5 DEF TypeOK
<1>2. TokensOrdered'
  BY DEF TypeOK, TokensOrdered
<1>3. RunShape'
  BY DEF TypeOK, RunShape
<1>4. ConfirmedIsCurrent'
  <2>1. ASSUME NEW q \in Runs, NEW b \in Chars, confirmed'[q][b] # "none"
        PROVE  Agrees(q, b, confirmed[q][b])'
    <3>1. CASE q = r /\ b = c
      BY <2>1, <3>1 DEF TypeOK, RunShape, Agrees
    <3>2. CASE b # c
      <4>1. confirmed'[q][b] = confirmed[q][b]
        <5>1. CASE Newer(r, c)
          <6>1. confirmed' = [confirmed EXCEPT ![r][c] = outcome[r][c]]
            BY <5>1
          <6> QED BY <3>2, <6>1 DEF TypeOK
        <5>2. CASE ~Newer(r, c)
          BY <5>2
        <5> QED BY <5>1, <5>2
      <4>2. /\ checkedAt'[b] = checkedAt[b]
            /\ affiliation'[b] = affiliation[b] /\ flagged'[b] = flagged[b]
        BY <3>2 DEF TypeOK
      <4>3. Agrees(q, b, confirmed[q][b])
        BY <2>1, <4>1 DEF ConfirmedIsCurrent
      <4> QED BY <4>1, <4>2, <4>3 DEF Agrees
    <3>3. CASE q # r /\ b = c
      <4>1. confirmed'[q][b] = confirmed[q][b]
        BY <3>3 DEF TypeOK
      <4>2. pc[q] # "idle" /\ token[q] # token[r]
        BY <2>1, <3>3, <4>1 DEF RunShape, TokensOrdered
      <4>3. Agrees(q, b, confirmed[q][b])
        BY <2>1, <4>1 DEF ConfirmedIsCurrent
      <4>4. CASE Newer(r, c)
        <5>1. checkedAt'[b] = token[r]
          BY <3>3, <4>4 DEF TypeOK
        <5> QED BY <4>2, <5>1 DEF Agrees
      <4>5. CASE ~Newer(r, c)
        BY <4>1, <4>3, <4>5 DEF Agrees
      <4> QED BY <4>4, <4>5
    <3> QED BY <3>1, <3>2, <3>3
  <2>2. ASSUME NEW q \in Runs, NEW d \in decisions[q]
        PROVE  Agrees(q, d.main, IF d.next = "member" THEN "in" ELSE "out")'
    <3>0. pc[q] = "apply" /\ d \in Decision
      BY DEF TypeOK, RunShape
    <3>1. q # r /\ token[q] # token[r] /\ d.main \in Chars
      BY <3>0 DEF TokensOrdered, Decision
    <3>2. Agrees(q, d.main, IF d.next = "member" THEN "in" ELSE "out")
      BY DEF ConfirmedIsCurrent
    <3> QED BY <3>1, <3>2 DEF TypeOK, Agrees
  <2> QED BY <2>1, <2>2 DEF ConfirmedIsCurrent
<1> QED BY <1>1, <1>2, <1>3, <1>4

LEMMA WriteInvalidKeepsMInv ==
  ASSUME MInv, NEW r \in Runs, NEW c \in Chars, WriteInvalid(r, c)
  PROVE  MInv'
<1> USE DEF MInv, WriteInvalid, Newer, accountVars, rowVars
<1>1. TypeOK'
  <2>1. outcome' \in [Runs -> [Chars -> Outcomes]]
    BY DEF TypeOK, Outcomes
  <2>2. flagged' \in [Chars -> BOOLEAN]
    BY DEF TypeOK
  <2>3. checkedAt' \in [Chars -> 0 .. MaxClock]
    BY DEF TypeOK
  <2> QED BY <2>1, <2>2, <2>3 DEF TypeOK
<1>2. TokensOrdered'
  BY DEF TypeOK, TokensOrdered
<1>3. RunShape'
  BY DEF TypeOK, RunShape
<1>4. ConfirmedIsCurrent'
  <2>1. ASSUME NEW q \in Runs, NEW b \in Chars, confirmed[q][b] # "none"
        PROVE  Agrees(q, b, confirmed[q][b])'
    <3>1. q # r \/ b # c
      BY <2>1 DEF RunShape
    <3>2. CASE b # c
      BY <2>1, <3>2 DEF TypeOK, ConfirmedIsCurrent, Agrees
    <3>3. CASE q # r /\ b = c
      <4>1. confirmed'[q][b] = confirmed[q][b]
        BY <3>3 DEF TypeOK
      <4>2. pc[q] # "idle" /\ token[q] # token[r]
        BY <2>1, <3>3, <4>1 DEF RunShape, TokensOrdered
      <4>3. Agrees(q, b, confirmed[q][b])
        BY <2>1, <4>1 DEF ConfirmedIsCurrent
      <4>4. CASE Newer(r, c)
        <5>1. checkedAt'[b] = token[r]
          BY <3>3, <4>4 DEF TypeOK
        <5> QED BY <4>2, <5>1 DEF Agrees
      <4>5. CASE ~Newer(r, c)
        BY <4>1, <4>3, <4>5 DEF Agrees
      <4> QED BY <4>4, <4>5
    <3> QED BY <3>1, <3>2, <3>3
  <2>2. ASSUME NEW q \in Runs, NEW d \in decisions[q]
        PROVE  Agrees(q, d.main, IF d.next = "member" THEN "in" ELSE "out")'
    <3>0. pc[q] = "apply" /\ d \in Decision
      BY DEF TypeOK, RunShape
    <3>1. q # r /\ token[q] # token[r] /\ d.main \in Chars
      BY <3>0 DEF TokensOrdered, Decision
    <3>2. Agrees(q, d.main, IF d.next = "member" THEN "in" ELSE "out")
      BY DEF ConfirmedIsCurrent
    <3> QED BY <3>1, <3>2 DEF TypeOK, Agrees
  <2> QED BY <2>1, <2>2 DEF ConfirmedIsCurrent
<1> QED BY <1>1, <1>2, <1>3, <1>4

LEMMA ReadAccountsKeepsMInv ==
  ASSUME MInv, NEW r \in Runs, ReadAccounts(r)
  PROVE  MInv'
<1> USE DEF MInv, ReadAccounts, accountVars, rowVars
<1>1. \A d \in decisions'[r] :
        /\ d \in Decision
        /\ d.main \in Chars /\ d.account \in T!Live
        /\ tier[d.account] = "pending" => d.next = "member"
        /\ confirmed[r][d.main] = IF d.next = "member" THEN "in" ELSE "out"
  BY DEF TypeOK, T!Live, Decided, DecideTier, Decision
<1>2. TypeOK'
  BY <1>1 DEF TypeOK, Nothing
<1>3. TokensOrdered'
  BY DEF TypeOK, TokensOrdered
<1>4. RunShape'
  BY <1>1 DEF TypeOK, RunShape, Nothing, T!Live
<1>5. ConfirmedIsCurrent'
  BY <1>1 DEF TypeOK, ConfirmedIsCurrent, Agrees, Nothing
<1> QED BY <1>2, <1>3, <1>4, <1>5

LEMMA ApplyKeepsMInv ==
  ASSUME MInv, NEW r \in Runs, NEW d \in decisions[r], ApplyTierTransition(r, d)
  PROVE  MInv'
<1> USE DEF MInv, ApplyTierTransition, rowVars
<1>0. d \in Decision
  BY DEF TypeOK
<1>1. TypeOK'
  BY <1>0 DEF TypeOK, Decision, T!Tiers
<1>2. TokensOrdered'
  BY DEF TypeOK, TokensOrdered
<1>3. RunShape'
  BY <1>0 DEF TypeOK, RunShape, Decision
<1>4. ConfirmedIsCurrent'
  BY DEF TypeOK, ConfirmedIsCurrent, Agrees
<1> QED BY <1>1, <1>2, <1>3, <1>4

LEMMA LeaveKeepsMInv ==
  ASSUME MInv, NEW r \in Runs, Leave(r)
  PROVE  MInv'
<1> USE DEF MInv, Leave, accountVars, rowVars
<1>1. TypeOK'
  BY DEF TypeOK, Nothing, Outcomes
<1>2. TokensOrdered'
  BY DEF TypeOK, TokensOrdered
<1>3. RunShape'
  BY DEF TypeOK, RunShape, Nothing
<1>4. ConfirmedIsCurrent'
  BY DEF TypeOK, ConfirmedIsCurrent, Agrees, Nothing
<1> QED BY <1>1, <1>2, <1>3, <1>4

LEMMA NextKeepsMInv == MInv /\ [Next]_vars => MInv'
<1> SUFFICES ASSUME MInv, [Next]_vars PROVE MInv'
  OBVIOUS
<1>1. CASE AccountsChange
  BY <1>1, AccountsChangeKeepsMInv
<1>2. CASE \E r \in Runs, a \in Accounts \union {NoAccount}, again \in BOOLEAN :
             TakeToken(r, a, again)
  BY <1>2, TakeTokenKeepsMInv
<1>3. CASE \E r \in Runs : RunStep(r)
  BY <1>3, AskKeepsMInv, WriteResolvedKeepsMInv, WriteInvalidKeepsMInv,
     ReadAccountsKeepsMInv, ApplyKeepsMInv, LeaveKeepsMInv DEF RunStep, Finish
<1>4. CASE \E r \in Runs : Crash(r)
  BY <1>4, LeaveKeepsMInv DEF Crash
<1>5. CASE UNCHANGED vars
  BY <1>5 DEF vars, accountVars, rowVars, runVars, MInv, TypeOK, TokensOrdered, RunShape,
              ConfirmedIsCurrent, Agrees
<1> QED BY <1>1, <1>2, <1>3, <1>4, <1>5 DEF Next

(* The inductive invariant of any number of overlapping membership runs.   *)
THEOREM Invariance == Spec => []MInv
BY InitMInv, NextKeepsMInv, PTL DEF Spec

(* What a run has confirmed or decided from is what the row says while the *)
(* row carries the run's token.                                            *)
THEOREM ConfirmedStaysCurrent == Spec => []ConfirmedIsCurrent
<1>1. MInv => ConfirmedIsCurrent
  BY DEF MInv
<1> QED BY <1>1, Invariance, PTL

-----------------------------------------------------------------------------
TierMove(a) ==
  SystemMove(a) \/ \E t \in T!Tiers : T!Pin(a, t) \/ T!Approve(a, t)

LEMMA AccountsChangeMoves ==
  ASSUME MInv, AccountsChange, NEW a \in T!Live,
         tier'[a] # tier[a]
  PROVE  TierMove(a)
<1> USE DEF MInv, TypeOK, T!Live, T!MainWithout, T!TierWithout, T!LosesMain, TierMove, SystemMove
<1>1. ASSUME NEW b \in Accounts, NEW c \in Chars, T!Open(b, c) PROVE TierMove(a)
  BY <1>1 DEF T!Open
<1>2. ASSUME NEW b \in Accounts, NEW c \in Chars, T!Link(b, c) PROVE TierMove(a)
  BY <1>2 DEF T!Link
<1>3. ASSUME NEW c \in Chars, T!Lose(c) PROVE TierMove(a)
  BY <1>3 DEF T!Lose
<1>4. ASSUME NEW b \in Accounts, NEW t \in T!Tiers, T!Pin(b, t) PROVE TierMove(a)
  <2>1. a = b
    BY <1>4 DEF T!Pin
  <2> QED BY <1>4, <2>1
<1>5. ASSUME NEW b \in Accounts, NEW t \in T!Tiers, T!Approve(b, t) PROVE TierMove(a)
  <2>1. a = b
    BY <1>5 DEF T!Approve
  <2> QED BY <1>5, <2>1
<1>6. ~ \E b \in Accounts, c \in Chars : T!Absorb(b, c) \/ T!SetMain(b, c)
  BY DEF T!Absorb, T!SetMain
<1>7. ~ \E b \in Accounts : T!Unpin(b)
  BY DEF T!Unpin
<1> HIDE DEF MInv, TypeOK, T!Live, T!MainWithout, T!TierWithout, T!LosesMain, TierMove, SystemMove
<1> QED BY <1>1, <1>2, <1>3, <1>4, <1>5, <1>6, <1>7, Zenon DEF AccountsChange

LEMMA StepMoves ==
  ASSUME MInv, [Next]_vars, NEW a \in T!Live,
         tier'[a] # tier[a]
  PROVE  TierMove(a)
<1>1. CASE AccountsChange
  BY <1>1, AccountsChangeMoves
<1>2. CASE \E r \in Runs : \E d \in decisions[r] : ApplyTierTransition(r, d)
  <2> PICK r \in Runs : \E d \in decisions[r] : ApplyTierTransition(r, d)
    BY <1>2
  <2> PICK d \in decisions[r] : ApplyTierTransition(r, d)
    OBVIOUS
  <2>1. d \in Decision /\ NoChar # d.main
    BY DEF MInv, TypeOK, Decision
  <2>2. StillDecided(r, d) /\ a = d.account /\ tier'[a] = d.next
    BY <2>1 DEF ApplyTierTransition, MInv, TypeOK, Decision, T!Live
  <2>3. main[a] = d.main /\ checkedAt[d.main] = token[r]
    BY <2>2 DEF StillDecided
  <2>4. Agrees(r, d.main, IF d.next = "member" THEN "in" ELSE "out")
    BY DEF MInv, ConfirmedIsCurrent
  <2>5. tier[a] = "pending" => d.next = "member"
    BY <2>2 DEF MInv, RunShape
  <2>6. ~tierLocked[a]
    BY <2>2 DEF StillDecided
  <2> QED BY <2>1, <2>2, <2>3, <2>4, <2>5, <2>6 DEF Agrees, TierMove, SystemMove, Decision
<1>3. CASE \E r \in Runs : \/ \E b \in Accounts \union {NoAccount}, again \in BOOLEAN :
                                TakeToken(r, b, again)
                           \/ Ask(r) \/ ReadAccounts(r) \/ Leave(r)
                           \/ \E c \in Chars : WriteResolved(r, c) \/ WriteInvalid(r, c)
  BY <1>3 DEF TakeToken, NextToken, Ask, ReadAccounts, Leave, WriteResolved, WriteInvalid, accountVars
<1>4. CASE UNCHANGED vars
  BY <1>4 DEF vars, accountVars
<1> QED BY <1>1, <1>2, <1>3, <1>4 DEF Next, RunStep, Finish, Crash

(* However the membership runs overlap, the system moves only unpinned      *)
(* accounts, and only as the latest read of their main, or its loss, says. *)
THEOREM SystemFollowsLatestRead == Spec => SystemTierMatchesLatestRead
<1>1. MInv /\ [Next]_vars =>
        \A a \in T!Live : tier'[a] # tier[a] =>
          SystemMove(a) \/ \E t \in T!Tiers : T!Pin(a, t) \/ T!Approve(a, t)
  BY StepMoves DEF TierMove
<1> QED BY <1>1, Invariance, PTL DEF Spec, SystemTierMatchesLatestRead

(* A row's last read stays, is replaced by that of a later run, or the row  *)
(* is a new one.                                                            *)
ReadsOnward(c) == charAccount'[c] # NoAccount =>
  \/ checkedAt'[c] > checkedAt[c]
  \/ affiliation'[c] = affiliation[c] /\ flagged'[c] = flagged[c]
  \/ affiliation'[c] = "unread"

LEMMA StepReadsOnward ==
  ASSUME MInv, [Next]_vars, NEW c \in Chars
  PROVE  ReadsOnward(c)
<1>1. ASSUME NEW d \in Chars, FreshRow(d) PROVE ReadsOnward(c)
  BY <1>1 DEF FreshRow, ReadsOnward, MInv, TypeOK
<1>2. ASSUME UNCHANGED rowVars PROVE ReadsOnward(c)
  BY <1>2 DEF rowVars, ReadsOnward
<1>3. CASE AccountsChange
  BY <1>1, <1>2, <1>3 DEF AccountsChange
<1>4. ASSUME NEW r \in Runs, NEW d \in Chars, WriteResolved(r, d)
      PROVE  ReadsOnward(c)
  <2>1. CASE Newer(r, d) /\ c = d
    <3>1. checkedAt'[c] = token[r]
      BY <1>4, <2>1 DEF WriteResolved, MInv, TypeOK
    <3> QED
      BY <2>1, <3>1 DEF Newer, ReadsOnward
  <2>2. CASE Newer(r, d) /\ c # d
    BY <1>4, <2>2 DEF WriteResolved, ReadsOnward, MInv, TypeOK
  <2>3. CASE ~Newer(r, d)
    BY <1>2, <1>4, <2>3 DEF WriteResolved
  <2> QED
    BY <2>1, <2>2, <2>3
<1>5. ASSUME NEW r \in Runs, NEW d \in Chars, WriteInvalid(r, d)
      PROVE  ReadsOnward(c)
  <2>1. CASE Newer(r, d) /\ c = d
    <3>1. checkedAt'[c] = token[r]
      BY <1>5, <2>1 DEF WriteInvalid, MInv, TypeOK
    <3> QED
      BY <2>1, <3>1 DEF Newer, ReadsOnward
  <2>2. CASE Newer(r, d) /\ c # d
    BY <1>5, <2>2 DEF WriteInvalid, ReadsOnward, MInv, TypeOK
  <2>3. CASE ~Newer(r, d)
    BY <1>2, <1>5, <2>3 DEF WriteInvalid, rowVars
  <2> QED
    BY <2>1, <2>2, <2>3
<1>6. CASE \E r \in Runs : \/ \E b \in Accounts \union {NoAccount}, again \in BOOLEAN :
                                TakeToken(r, b, again)
                           \/ Ask(r) \/ ReadAccounts(r) \/ Leave(r)
                           \/ \E d \in decisions[r] : ApplyTierTransition(r, d)
  <2>1. UNCHANGED rowVars
    BY <1>6 DEF TakeToken, Ask, ReadAccounts, Leave, ApplyTierTransition
  <2> QED
    BY <1>2, <2>1
<1>7. CASE UNCHANGED vars
  BY <1>2, <1>7 DEF vars
<1> QED
  BY <1>3, <1>4, <1>5, <1>6, <1>7 DEF Next, RunStep, Finish, Crash

(* Of any number of overlapping runs, the slower and older never overwrites *)
(* what a newer one has written.                                            *)
THEOREM NewerReadsStay == Spec => OlderRunNeverWins
<1>1. MInv /\ [Next]_vars =>
        \A c \in Chars : charAccount'[c] # NoAccount =>
          \/ checkedAt'[c] > checkedAt[c]
          \/ affiliation'[c] = affiliation[c] /\ flagged'[c] = flagged[c]
          \/ affiliation'[c] = "unread"
  BY StepReadsOnward DEF ReadsOnward
<1> QED BY <1>1, Invariance, PTL DEF Spec, OlderRunNeverWins

HIDE AdminTiersAssumption
HIDE MaxClockAssumption
HIDE NoCharAssumption
HIDE NoAccountAssumption

-----------------------------------------------------------------------------
(* The clients of Discord and EVE. *)

LEMMA MaxOfTwo ==
  ASSUME NEW a \in Nat, NEW b \in Nat
  PROVE  /\ Discord!Later(a, b) \in {a, b} /\ Discord!Later(a, b) >= a /\ Discord!Later(a, b) >= b
         /\ Esi!Later(a, b) \in {a, b} /\ Esi!Later(a, b) >= a /\ Esi!Later(a, b) >= b
<1>1. \E x \in {a, b} : \A y \in {a, b} : x >= y
  <2>1. CASE a >= b
    BY <2>1
  <2>2. CASE ~(a >= b)
    BY <2>2
  <2> QED BY <2>1, <2>2
<1>2. ASSUME NEW m, m = CHOOSE x \in {a, b} : \A y \in {a, b} : x >= y
      PROVE  m \in {a, b} /\ m >= a /\ m >= b
  BY <1>1, <1>2
<1>3. /\ Discord!Later(a, b) = CHOOSE x \in {a, b} : \A y \in {a, b} : x >= y
      /\ Esi!Later(a, b) = CHOOSE x \in {a, b} : \A y \in {a, b} : x >= y
  BY DEF Discord!Later, Esi!Later, Discord!Max, Esi!Max
<1> QED BY <1>2, <1>3

\* What a call is, and whose turn it is: what was sent is the first in the chain of its
\* route, so nothing else of that route is.
Sending == [at : {"none", "queued", "asleep", "backing off", "sent", "ended"}, route : Routes,
            attempt : Nat, until : Nat]
DiscordTypes ==
  /\ second \in Nat /\ globalResetAt \in Nat /\ told = globalResetAt
  /\ buckets \in [Routes -> [open : BOOLEAN, resetAt : Nat]]
  /\ chains \in [Routes -> Seq(Calls)]
  /\ sending \in [Calls -> Sending]
DiscordInv == DiscordTypes /\ \A r \in Calls : sending[r].at = "sent" => Discord!First(r)

LEMMA NotYetSent ==
  ASSUME NEW x \in [at : {"none"}, route : Routes, attempt : {0}, until : {0}]
  PROVE  x \in Sending /\ x.at = "none"
<1>1. x = [at |-> "none", route |-> x.route, attempt |-> 0, until |-> 0] /\ x.route \in Routes
  OBVIOUS
<1>2. "none" \in {"none", "queued", "asleep", "backing off", "sent", "ended"} /\ 0 \in Nat
  OBVIOUS
<1> QED BY <1>1, <1>2 DEF Sending

LEMMA DiscordInit == ASSUME Discord!Init PROVE DiscordInv
<1>1. sending \in [Calls -> Sending] /\ \A r \in Calls : sending[r].at = "none"
  <2>1. sending \in [Calls -> [at : {"none"}, route : Routes, attempt : {0}, until : {0}]]
    BY DEF Discord!Init
  <2>2. ASSUME NEW r \in Calls PROVE sending[r] \in Sending /\ sending[r].at = "none"
    <3>1. sending[r] \in [at : {"none"}, route : Routes, attempt : {0}, until : {0}]
      BY <2>1
    <3> QED BY <3>1, NotYetSent
  <2> QED BY <2>1, <2>2
<1>2. chains \in [Routes -> Seq(Calls)]
  BY DEF Discord!Init
<1> QED BY <1>1, <1>2 DEF Discord!Init, DiscordInv, DiscordTypes

\* A move of one call that leaves its chain, or appends to it.
LEMMA Moved ==
  ASSUME DiscordInv, NEW r \in Calls, NEW at \in {"queued", "asleep", "backing off", "sent", "ended"},
         NEW until \in Nat, Discord!Move(r, at, until)
  PROVE  /\ sending' \in [Calls -> Sending] /\ sending'[r].at = at /\ sending'[r].route = sending[r].route
         /\ \A s \in Calls \ {r} : sending'[s] = sending[s]
<1>1. sending \in [Calls -> Sending] /\ sending' = [sending EXCEPT ![r].at = at, ![r].until = until]
  BY DEF DiscordInv, DiscordTypes, Discord!Move
<1>2. sending'[r] = [sending[r] EXCEPT !.at = at, !.until = until]
  BY <1>1
<1>3. sending'[r] \in Sending /\ sending'[r].at = at /\ sending'[r].route = sending[r].route
  <2>1. sending[r] \in Sending
    BY <1>1
  <2> QED BY <1>2, <2>1 DEF Sending
<1> QED BY <1>1, <1>3

\* Whoever is sent and is not the one that moves keeps its turn.
LEMMA OthersFirst ==
  ASSUME DiscordInv, NEW r \in Calls, NEW s \in Calls \ {r}, sending'[s] = sending[s], sending'[s].at = "sent",
         \/ chains' = chains
         \/ chains' = [chains EXCEPT ![sending[r].route] = Append(@, r)]
         \/ Discord!First(r) /\ chains' = [chains EXCEPT ![sending[r].route] = Tail(@)]
  PROVE  Discord!First(s)'
<1>1. /\ Discord!First(s) /\ sending[s].route \in Routes /\ sending[r].route \in Routes
      /\ chains \in [Routes -> Seq(Calls)]
  BY DEF DiscordInv, DiscordTypes, Sending
<1>2. chains[sending[s].route] # << >> /\ Head(chains[sending[s].route]) = s
  BY <1>1 DEF Discord!First, Discord!Route
<1>3. CASE chains' = chains
  BY <1>2, <1>3 DEF Discord!First, Discord!Route
<1>4. CASE chains' = [chains EXCEPT ![sending[r].route] = Append(@, r)]
  <2>1. CASE sending[s].route = sending[r].route
    <3>1. chains'[sending[s].route] = Append(chains[sending[s].route], r)
      BY <1>1, <1>4, <2>1
    <3>2. chains[sending[s].route] \in Seq(Calls)
      BY <1>1
    <3>3. chains'[sending[s].route] # << >> /\ Head(chains'[sending[s].route]) = s
      BY <1>2, <3>1, <3>2
    <3> QED BY <3>3 DEF Discord!First, Discord!Route
  <2>2. CASE sending[s].route # sending[r].route
    BY <1>1, <1>2, <1>4, <2>2 DEF Discord!First, Discord!Route
  <2> QED BY <2>1, <2>2
<1>5. CASE Discord!First(r) /\ chains' = [chains EXCEPT ![sending[r].route] = Tail(@)]
  <2>1. sending[s].route # sending[r].route
    BY <1>2, <1>5 DEF Discord!First, Discord!Route
  <2> QED BY <1>1, <1>2, <1>5, <2>1 DEF Discord!First, Discord!Route
<1> QED BY <1>3, <1>4, <1>5

LEMMA DiscordStep == ASSUME DiscordInv, [Discord!Next]_discordVars PROVE DiscordInv'
<1>1. /\ second \in Nat /\ globalResetAt \in Nat /\ told = globalResetAt
      /\ buckets \in [Routes -> [open : BOOLEAN, resetAt : Nat]]
      /\ chains \in [Routes -> Seq(Calls)] /\ sending \in [Calls -> Sending]
      /\ Delays \subseteq Nat
  BY ClientsAssumption DEF DiscordInv, DiscordTypes
<1>2. \A r \in Calls : Discord!Route(r) = sending[r].route /\ sending[r].route \in Routes
  BY <1>1 DEF Discord!Route, Sending
<1>3. ASSUME UNCHANGED <<chains, sending>>, second' \in Nat, UNCHANGED <<globalResetAt, told, buckets>> PROVE DiscordInv'
  BY <1>1, <1>3 DEF DiscordInv, DiscordTypes, Discord!First, Discord!Route
<1>4. CASE UNCHANGED discordVars \/ Discord!Tick
  BY <1>1, <1>3, <1>4 DEF discordVars, Discord!Tick
\* A chain one of whose calls has ended.
<1>5. ASSUME NEW r \in Calls, sending[r].at = "sent", Discord!End(r) PROVE
        /\ chains' \in [Routes -> Seq(Calls)] /\ sending' \in [Calls -> Sending]
        /\ \A s \in Calls : sending'[s].at = "sent" => Discord!First(s)'
  <2>1. /\ Discord!Move(r, "ended", 0) /\ Discord!First(r)
        /\ chains' = [chains EXCEPT ![sending[r].route] = Tail(@)]
    BY <1>2, <1>5 DEF Discord!End, DiscordInv
  <2>2. chains[sending[r].route] \in Seq(Calls) /\ chains[sending[r].route] # << >>
    BY <1>1, <1>2, <2>1 DEF Discord!First
  <2>3. Tail(chains[sending[r].route]) \in Seq(Calls)
    BY <2>2
  <2>4. chains' \in [Routes -> Seq(Calls)]
    BY <1>1, <2>1, <2>3
  <2>5. /\ sending' \in [Calls -> Sending] /\ sending'[r].at = "ended"
        /\ \A s \in Calls \ {r} : sending'[s] = sending[s]
    BY <2>1, Moved
  <2>6. ASSUME NEW s \in Calls, sending'[s].at = "sent" PROVE Discord!First(s)'
    BY <2>1, <2>5, <2>6, OthersFirst
  <2> QED BY <2>4, <2>5, <2>6
<1>6. ASSUME NEW r \in Calls, NEW open \in BOOLEAN, NEW d \in Nat, Discord!RecordBucketHeaders(r, open, d)
      PROVE  buckets' \in [Routes -> [open : BOOLEAN, resetAt : Nat]]
  <2>1. buckets' = [buckets EXCEPT ![sending[r].route] = [open |-> open, resetAt |-> second + d]]
    BY <1>2, <1>6 DEF Discord!RecordBucketHeaders
  <2>2. second + d \in Nat
    BY <1>1
  <2> QED BY <1>1, <2>1, <2>2
<1>7. ASSUME NEW r \in Calls, Discord!Enqueue(r) PROVE DiscordInv'
  <2>1. /\ Discord!Move(r, "queued", 0) /\ chains' = [chains EXCEPT ![sending[r].route] = Append(@, r)]
        /\ UNCHANGED <<second, buckets, globalResetAt, told>>
    BY <1>2, <1>7 DEF Discord!Enqueue
  <2>2. Append(chains[sending[r].route], r) \in Seq(Calls)
    <3>1. chains[sending[r].route] \in Seq(Calls)
      BY <1>1, <1>2
    <3> QED BY <3>1
  <2>3. chains' \in [Routes -> Seq(Calls)]
    BY <1>1, <2>1, <2>2
  <2>4. /\ sending' \in [Calls -> Sending] /\ sending'[r].at = "queued"
        /\ \A s \in Calls \ {r} : sending'[s] = sending[s]
    BY <2>1, Moved
  <2>5. ASSUME NEW s \in Calls, sending'[s].at = "sent" PROVE Discord!First(s)'
    BY <2>1, <2>4, <2>5, OthersFirst
  <2> QED BY <1>1, <2>1, <2>3, <2>4, <2>5 DEF DiscordInv, DiscordTypes
<1>8. ASSUME NEW r \in Calls, Discord!WaitForCapacity(r) PROVE DiscordInv'
  <2>1. /\ Discord!First(r) /\ UNCHANGED <<second, buckets, globalResetAt, chains, told>>
        /\ Discord!Move(r, "asleep", Discord!WaitUntil(r)) \/ Discord!Move(r, "sent", 0)
    BY <1>8 DEF Discord!WaitForCapacity
  <2>2. Discord!WaitUntil(r) \in Nat
    BY <1>1, <1>2 DEF Discord!WaitUntil, Discord!Deadline
  <2>3. /\ sending' \in [Calls -> Sending] /\ sending'[r].route = sending[r].route
        /\ \A s \in Calls \ {r} : sending'[s] = sending[s]
    <3>1. CASE Discord!Move(r, "sent", 0)
      BY <3>1, Moved
    <3>2. CASE Discord!Move(r, "asleep", Discord!WaitUntil(r))
      BY <2>2, <3>2, Moved
    <3> QED BY <2>1, <3>1, <3>2
  <2>4. ASSUME NEW s \in Calls, s # r, sending'[s].at = "sent" PROVE Discord!First(s)'
    BY <2>1, <2>3, <2>4, OthersFirst
  <2>5. Discord!First(r)'
    BY <2>1, <2>3 DEF Discord!First, Discord!Route
  <2> QED BY <1>1, <2>1, <2>3, <2>4, <2>5 DEF DiscordInv, DiscordTypes
<1>9. ASSUME NEW r \in Calls, Discord!Answer(r) \/ Discord!NoAnswer(r) PROVE DiscordInv'
  <2>1. /\ sending[r].at = "sent" /\ Discord!End(r) /\ UNCHANGED <<second, globalResetAt, told>>
        /\ \/ \E open \in BOOLEAN, d \in Delays : Discord!RecordBucketHeaders(r, open, d)
           \/ UNCHANGED buckets
    BY <1>9 DEF Discord!Answer, Discord!NoAnswer
  <2>2. buckets' \in [Routes -> [open : BOOLEAN, resetAt : Nat]]
    BY <1>1, <1>6, <2>1
  <2> QED BY <1>1, <1>5, <2>1, <2>2 DEF DiscordInv, DiscordTypes
<1>10. ASSUME NEW r \in Calls, NEW global \in BOOLEAN, NEW d \in Delays, Discord!RateLimited(r, global, d) PROVE DiscordInv'
  <2> DEFINE w == Discord!RetryAfterSeconds(d)
  <2>1. /\ sending[r].at = "sent" /\ Discord!RecordBucketHeaders(r, FALSE, w) /\ UNCHANGED second
        /\ globalResetAt' = IF global THEN Discord!Later(globalResetAt, second + w) ELSE globalResetAt
        /\ told' = IF global THEN Discord!Later(told, second + w) ELSE told
        /\ \/ /\ sending' = [sending EXCEPT ![r].at = "backing off", ![r].until = second + w, ![r].attempt = @ + 1]
              /\ UNCHANGED chains
           \/ Discord!End(r)
    BY <1>10 DEF Discord!RateLimited
  <2>2. w \in Nat
    BY <1>1 DEF Discord!RetryAfterSeconds
  <2> HIDE DEF w
  <2>3. second + w \in Nat
    BY <1>1, <2>2
  <2>4. told' = globalResetAt' /\ globalResetAt' \in Nat
    BY <1>1, <2>1, <2>3, MaxOfTwo
  <2>5. buckets' \in [Routes -> [open : BOOLEAN, resetAt : Nat]]
    BY <1>6, <2>1, <2>2
  <2>6. CASE Discord!End(r)
    BY <1>1, <1>5, <2>1, <2>4, <2>5, <2>6 DEF DiscordInv, DiscordTypes
  <2>7. CASE /\ sending' = [sending EXCEPT ![r].at = "backing off", ![r].until = second + w, ![r].attempt = @ + 1]
             /\ UNCHANGED chains
    <3>1. sending'[r] = [sending[r] EXCEPT !.at = "backing off", !.until = second + w, !.attempt = sending[r].attempt + 1]
      BY <1>1, <2>7
    <3>2. sending'[r] \in Sending /\ sending'[r].at = "backing off"
      <4>1. sending[r] \in Sending
        BY <1>1
      <4>2. sending[r].attempt + 1 \in Nat
        <5>1. sending[r].attempt \in Nat
          BY <4>1 DEF Sending
        <5> QED BY <5>1
      <4> QED BY <2>3, <3>1, <4>1, <4>2 DEF Sending
    <3>3. sending' \in [Calls -> Sending] /\ \A s \in Calls \ {r} : sending'[s] = sending[s]
      BY <1>1, <2>7, <3>2
    <3>4. ASSUME NEW s \in Calls, sending'[s].at = "sent" PROVE Discord!First(s)'
      BY <2>7, <3>2, <3>3, <3>4, OthersFirst
    <3> QED BY <1>1, <2>1, <2>4, <2>5, <2>7, <3>3, <3>4 DEF DiscordInv, DiscordTypes
  <2> QED BY <2>1, <2>6, <2>7
<1> QED BY <1>4, <1>7, <1>8, <1>9, <1>10 DEF Discord!Next

\* What is sent is sent after every window its process knows to be closed.
Unpaced(r) ==
  sending[r].at # "sent" /\ sending'[r].at = "sent" =>
    /\ second >= told
    /\ buckets[sending[r].route].open \/ second >= buckets[sending[r].route].resetAt
    /\ \A s \in Calls \ {r} : sending[s].at = "sent" => sending[s].route # sending[r].route
LEMMA DiscordPaces == ASSUME DiscordInv, [Discord!Next]_discordVars, NEW r \in Calls PROVE Unpaced(r)
<1> SUFFICES ASSUME sending[r].at # "sent", sending'[r].at = "sent"
             PROVE  /\ second >= told
                    /\ buckets[sending[r].route].open \/ second >= buckets[sending[r].route].resetAt
                    /\ \A s \in Calls \ {r} : sending[s].at = "sent" => sending[s].route # sending[r].route
  BY DEF Unpaced
<1>1. /\ second \in Nat /\ globalResetAt \in Nat /\ told = globalResetAt
      /\ buckets \in [Routes -> [open : BOOLEAN, resetAt : Nat]] /\ sending[r].route \in Routes
      /\ sending \in [Calls -> Sending]
  BY DEF DiscordInv, DiscordTypes, Sending
<1>2. ASSUME NEW q \in Calls, NEW at \in {"queued", "asleep", "ended"}, NEW until, Discord!Move(q, at, until) PROVE FALSE
  BY <1>1, <1>2 DEF Discord!Move, Sending
<1>3. ~UNCHANGED sending
  OBVIOUS
<1>5. ASSUME NEW q \in Calls, Discord!Enqueue(q) \/ Discord!Answer(q) \/ Discord!NoAnswer(q) PROVE FALSE
  BY <1>2, <1>5 DEF Discord!Enqueue, Discord!Answer, Discord!NoAnswer, Discord!End
<1>6. ASSUME NEW q \in Calls, NEW global \in BOOLEAN, NEW d \in Delays, Discord!RateLimited(q, global, d) PROVE FALSE
  <2>1. ~Discord!End(q)
    BY <1>2 DEF Discord!End
  <2>2. PICK w : sending' = [sending EXCEPT ![q].at = "backing off", ![q].until = second + w, ![q].attempt = @ + 1]
    BY <1>6, <2>1 DEF Discord!RateLimited
  <2> QED BY <1>1, <2>2 DEF Sending
<1>7. PICK q \in Calls : Discord!WaitForCapacity(q)
  BY <1>3, <1>5, <1>6 DEF Discord!Next, Discord!Tick, discordVars
<1>8. q = r
  BY <1>1, <1>7 DEF Discord!WaitForCapacity, Discord!Move
<1>9. Discord!First(r) /\ ~(Discord!WaitUntil(r) > second)
  BY <1>2, <1>7, <1>8 DEF Discord!WaitForCapacity
<1>10. /\ ~(second < globalResetAt)
       /\ buckets[sending[r].route].open \/ ~(buckets[sending[r].route].resetAt > second)
  BY <1>1, <1>9 DEF Discord!WaitUntil, Discord!Deadline, Discord!Route
<1>11. ASSUME NEW s \in Calls \ {r}, sending[s].at = "sent" PROVE sending[s].route # sending[r].route
  BY <1>9, <1>11 DEF DiscordInv, Discord!First, Discord!Route
<1>12. buckets[sending[r].route].resetAt \in Nat
  BY <1>1
<1> QED BY <1>1, <1>10, <1>11, <1>12

\* However the answers of the routes cross, for any calls, routes, delays and retries: no
\* request is sent into a window the process knows to be closed (lib/discord/rest.ts).
THEOREM DiscordNeverIntoAWindow == Discord!Spec => Discord!NeverIntoAWindow
<1>1. DiscordInv /\ [Discord!Next]_discordVars => \A r \in Calls : sending[r].at # "sent" /\ sending'[r].at = "sent" =>
       /\ second >= told
       /\ buckets[Discord!Route(r)].open \/ second >= buckets[Discord!Route(r)].resetAt
       /\ \A s \in Calls \ {r} : sending[s].at = "sent" => Discord!Route(s) # Discord!Route(r)
  BY DiscordPaces DEF Unpaced, Discord!Route
<1> QED BY <1>1, DiscordInit, DiscordStep, PTL DEF Discord!Spec, Discord!vars, discordVars, Discord!NeverIntoAWindow

-----------------------------------------------------------------------------
LEMMA AddOne ==
  ASSUME NEW S \in SUBSET Nat, NEW x \in Nat, \E m \in S : \A y \in S : m >= y
  PROVE  \E m \in S \union {x} : \A y \in S \union {x} : m >= y
<1>1. PICK m \in S : \A y \in S : m >= y
  OBVIOUS
<1>2. m \in Nat
  OBVIOUS
<1>3. CASE m >= x
  BY <1>1, <1>3
<1>4. CASE ~(m >= x)
  <2>1. \A y \in S : x >= y
    BY <1>1, <1>2, <1>4
  <2>2. x >= x
    OBVIOUS
  <2> QED BY <2>1, <2>2
<1> QED BY <1>3, <1>4

\* A number and what may be added to it has a maximum, which is no less than the number.
LEMMA MaxHolds ==
  ASSUME NEW n \in Nat, NEW a \in Nat, NEW b \in Nat, NEW c \in Nat, NEW S \in SUBSET {a, b, c}
  PROVE  Esi!Max({n} \union S) \in Nat /\ Esi!Max({n} \union S) >= n
<1>0. \E m \in {n} : \A y \in {n} : m >= y
  OBVIOUS
<1>1. \E m \in {n} \union (S \cap {a}) : \A y \in {n} \union (S \cap {a}) : m >= y
  <2>1. CASE a \in S
    <3>1. {n} \union (S \cap {a}) = {n} \union {a}
      BY <2>1
    <3> QED BY <1>0, <3>1, AddOne
  <2>2. CASE a \notin S
    <3>1. {n} \union (S \cap {a}) = {n}
      BY <2>2
    <3> QED BY <1>0, <3>1
  <2> QED BY <2>1, <2>2
<1>2. \E m \in {n} \union (S \cap {a, b}) : \A y \in {n} \union (S \cap {a, b}) : m >= y
  <2>1. CASE b \in S
    <3>1. {n} \union (S \cap {a, b}) = ({n} \union (S \cap {a})) \union {b} /\ {n} \union (S \cap {a}) \in SUBSET Nat
      BY <2>1
    <3> QED BY <1>1, <3>1, AddOne
  <2>2. CASE b \notin S
    <3>1. {n} \union (S \cap {a, b}) = {n} \union (S \cap {a})
      BY <2>2
    <3> QED BY <1>1, <3>1
  <2> QED BY <2>1, <2>2
<1>3. \E m \in {n} \union S : \A y \in {n} \union S : m >= y
  <2>1. CASE c \in S
    <3>1. {n} \union S = ({n} \union (S \cap {a, b})) \union {c} /\ {n} \union (S \cap {a, b}) \in SUBSET Nat
      BY <2>1
    <3> QED BY <1>2, <3>1, AddOne
  <2>2. CASE c \notin S
    <3>1. {n} \union S = {n} \union (S \cap {a, b})
      BY <2>2
    <3> QED BY <1>2, <3>1
  <2> QED BY <2>1, <2>2
<1> DEFINE U == {n} \union S
<1>4. Esi!Max(U) = CHOOSE x \in U : \A y \in U : x >= y
  BY DEF Esi!Max
<1>5. U \subseteq Nat /\ n \in U /\ \E m \in U : \A y \in U : m >= y
  BY <1>3
<1> HIDE DEF U
<1>6. Esi!Max(U) \in U /\ \A y \in U : Esi!Max(U) >= y
  BY <1>4, <1>5
<1>7. Esi!Max(U) \in Nat /\ Esi!Max(U) >= n
  BY <1>5, <1>6
<1> QED BY <1>7 DEF U

\* What the fleet sources were asked to wait is what the gate holds; an unknown budget
\* was probed a whole interval before it may be again.
Calling == [at : {"idle", "asleep", "sent", "ended"}, kind : {"fleet", "pages", "chunks"},
            left : Nat, until : Nat]
EsiTypes ==
  /\ time \in Nat /\ resetAt \in Nat
  /\ fleetResetAt \in Nat /\ fleetBudgetKnown \in BOOLEAN /\ fleetProbeAt \in Nat
  /\ blindAt \in Nat \union {None} /\ call \in [Calls -> Calling]
EsiInv ==
  /\ EsiTypes /\ asked = fleetResetAt
  /\ blindAt # None => blindAt <= time /\ (~fleetBudgetKnown => fleetProbeAt >= blindAt + Probe)
  /\ \A r \in Calls : call[r].at = "asleep" => call[r].kind # "fleet"

LEMMA NotYetCalled ==
  ASSUME NEW x \in [at : {"idle"}, kind : {"fleet", "pages", "chunks"}, left : 0..MaxParts, until : {0}]
  PROVE  x \in Calling /\ x.at = "idle"
<1>1. /\ x = [at |-> "idle", kind |-> x.kind, left |-> x.left, until |-> 0]
      /\ x.kind \in {"fleet", "pages", "chunks"} /\ x.left \in 0..MaxParts
  OBVIOUS
<1>2. x.left \in Nat /\ 0 \in Nat
  BY <1>1
<1> QED BY <1>1, <1>2 DEF Calling

LEMMA EsiInit == ASSUME Esi!Init PROVE EsiInv
<1>1. ASSUME NEW r \in Calls PROVE call[r] \in Calling /\ call[r].at = "idle"
  BY NotYetCalled DEF Esi!Init
<1>2. call \in [Calls -> Calling]
  BY <1>1 DEF Esi!Init
<1>3. /\ time = 0 /\ resetAt = 0 /\ fleetResetAt = 0 /\ fleetBudgetKnown = TRUE /\ fleetProbeAt = 0
      /\ asked = 0 /\ blindAt = None
  BY DEF Esi!Init
<1> QED BY <1>1, <1>2, <1>3 DEF EsiInv, EsiTypes

LEMMA Fields ==
  ASSUME NEW x \in Calling, NEW at
  PROVE  /\ x.kind \in {"fleet", "pages", "chunks"} /\ x.left \in Nat /\ x.until \in Nat
         /\ [x EXCEPT !.at = at] = [at |-> at, kind |-> x.kind, left |-> x.left, until |-> x.until]
<1>1. x.kind \in {"fleet", "pages", "chunks"} /\ x.left \in Nat /\ x.until \in Nat
  BY DEF Calling
<1>2. x = [at |-> x.at, kind |-> x.kind, left |-> x.left, until |-> x.until]
  BY DEF Calling
<1>3. [x EXCEPT !.at = at] = [at |-> at, kind |-> x.kind, left |-> x.left, until |-> x.until]
  BY <1>2
<1> QED BY <1>1, <1>3

LEMMA Sleeps ==
  ASSUME NEW x \in Calling, NEW until \in Nat
  PROVE  /\ [x EXCEPT !.at = "asleep", !.until = until] \in Calling
         /\ [x EXCEPT !.at = "asleep", !.until = until].kind = x.kind
BY DEF Calling

LEMMA NextPart ==
  ASSUME NEW x \in Calling, NEW left \in Nat
  PROVE  /\ [x EXCEPT !.at = "idle", !.left = left, !.kind = "chunks"] \in Calling
         /\ [x EXCEPT !.at = "idle", !.left = left, !.kind = "chunks"].at = "idle"
BY DEF Calling

\* A move of one call.
LEMMA MovedTo ==
  ASSUME EsiTypes, NEW r \in Calls, NEW at \in {"idle", "asleep", "sent", "ended"}, Esi!Move(r, at)
  PROVE  /\ call' \in [Calls -> Calling]
         /\ call'[r].at = at /\ call'[r].kind = call[r].kind /\ \A s \in Calls \ {r} : call'[s] = call[s]
<1>1. call[r] \in Calling
  BY DEF EsiTypes
<1>2. call' = [call EXCEPT ![r] = [at |-> at, kind |-> call[r].kind, left |-> call[r].left, until |-> call[r].until]]
  <2>1. call' = [call EXCEPT ![r] = [call[r] EXCEPT !.at = at]]
    BY DEF Esi!Move
  <2>2. [call[r] EXCEPT !.at = at]
          = [at |-> at, kind |-> call[r].kind, left |-> call[r].left, until |-> call[r].until]
    BY <1>1, Fields
  <2> QED BY <2>1, <2>2
<1>3. call[r].kind \in {"fleet", "pages", "chunks"} /\ call[r].left \in Nat /\ call[r].until \in Nat
  BY <1>1, Fields
<1> DEFINE x == [at |-> at, kind |-> call[r].kind, left |-> call[r].left, until |-> call[r].until]
<1>4. x \in Calling /\ x.at = at /\ x.kind = call[r].kind
  BY <1>3 DEF Calling
<1>5. call' = [call EXCEPT ![r] = x] /\ call \in [Calls -> Calling]
  BY <1>2 DEF EsiTypes
<1> HIDE DEF x
<1> QED BY <1>4, <1>5

\* What is heard of the budget.
LEMMA HeardHolds ==
  ASSUME EsiTypes, asked = fleetResetAt, NEW r \in Calls, NEW h \in Headers,
         fleetResetAt' = Esi!HeldUntil(r, h),
         asked' = IF Esi!Heard(r, h) THEN Esi!Max({asked} \union Esi!Waits(r, h)) ELSE asked
  PROVE  fleetResetAt' \in Nat /\ asked' = fleetResetAt'
<1>1. h.wait \in Nat /\ h.reset \in Nat /\ h.retry \in Nat /\ time \in Nat /\ fleetResetAt \in Nat
  BY ClientsAssumption DEF EsiTypes
<1>2. time + h.wait \in Nat /\ time + h.reset \in Nat /\ time + h.retry \in Nat
  BY <1>1
<1>3. Esi!Waits(r, h) \in SUBSET {time + h.wait, time + h.reset, time + h.retry}
  BY DEF Esi!Waits
<1>4. Esi!Max({fleetResetAt} \union Esi!Waits(r, h)) \in Nat
  BY <1>1, <1>2, <1>3, MaxHolds
<1> QED BY <1>1, <1>4 DEF Esi!HeldUntil

LEMMA EsiStep == ASSUME EsiInv, [Esi!Next]_esiVars PROVE EsiInv'
<1>1. /\ EsiTypes /\ asked = fleetResetAt /\ Probe \in Nat /\ time \in Nat /\ fleetProbeAt \in Nat
      /\ blindAt \in Nat \union {None} /\ None \notin Nat /\ fleetBudgetKnown \in BOOLEAN /\ fleetResetAt \in Nat
      /\ resetAt \in Nat /\ call \in [Calls -> Calling]
      /\ blindAt # None => blindAt <= time /\ (~fleetBudgetKnown => fleetProbeAt >= blindAt + Probe)
      /\ \A r \in Calls : call[r].at = "asleep" => call[r].kind # "fleet"
  BY ClientsAssumption DEF EsiInv, EsiTypes
<1>2. CASE UNCHANGED esiVars
  BY <1>1, <1>2 DEF esiVars, EsiInv, EsiTypes
<1>3. CASE Esi!Tick
  <2>1. time' = time + 1 /\ UNCHANGED <<remain, resetAt, fleetResetAt, fleetBudgetKnown, fleetProbeAt, call, asked, blindAt>>
    BY <1>3 DEF Esi!Tick, Esi!budget, Esi!gate
  <2>2. time' \in Nat /\ (blindAt # None => blindAt <= time')
    BY <1>1, <2>1
  <2> QED BY <1>1, <2>1, <2>2 DEF EsiInv, EsiTypes
<1>4. ASSUME NEW r \in Calls, Esi!Generic(r) PROVE EsiInv'
  <2>1. /\ call[r].kind # "fleet" /\ UNCHANGED <<time, resetAt, fleetResetAt, fleetBudgetKnown, fleetProbeAt, asked, blindAt>>
        /\ \/ call' = [call EXCEPT ![r].at = "asleep", ![r].until = resetAt]
           \/ Esi!Move(r, "sent")
    BY <1>4 DEF Esi!Generic, Esi!Fleet, Esi!budget, Esi!gate
  <2>2. CASE call' = [call EXCEPT ![r].at = "asleep", ![r].until = resetAt]
    <3>1. call[r] \in Calling
      BY <1>1
    <3>2. call' = [call EXCEPT ![r] = [call[r] EXCEPT !.at = "asleep", !.until = resetAt]]
      BY <2>2
    <3>4. /\ call' \in [Calls -> Calling] /\ call'[r].kind = call[r].kind
          /\ \A s \in Calls \ {r} : call'[s] = call[s]
      <4> DEFINE y == [call[r] EXCEPT !.at = "asleep", !.until = resetAt]
      <4>1. y \in Calling /\ y.kind = call[r].kind
        BY <1>1, <3>1, Sleeps
      <4>2. call' = [call EXCEPT ![r] = y]
        BY <3>2
      <4> HIDE DEF y
      <4> QED BY <1>1, <4>1, <4>2
    <3> QED BY <1>1, <2>1, <3>4 DEF EsiInv, EsiTypes
  <2>3. CASE Esi!Move(r, "sent")
    <3>1. call' \in [Calls -> Calling] /\ call'[r].at = "sent" /\ \A s \in Calls \ {r} : call'[s] = call[s]
      BY <1>1, <2>3, MovedTo
    <3> QED BY <1>1, <2>1, <3>1 DEF EsiInv, EsiTypes
  <2> QED BY <2>1, <2>2, <2>3
<1>5. ASSUME NEW r \in Calls, Esi!Wake(r) PROVE EsiInv'
  <2>1. Esi!Move(r, "sent") /\ UNCHANGED <<time, resetAt, fleetResetAt, fleetBudgetKnown, fleetProbeAt, asked, blindAt>>
    BY <1>5 DEF Esi!Wake, Esi!gate
  <2>2. call' \in [Calls -> Calling] /\ call'[r].at = "sent" /\ \A s \in Calls \ {r} : call'[s] = call[s]
    BY <1>1, <2>1, MovedTo
  <2> QED BY <1>1, <2>1, <2>2 DEF EsiInv, EsiTypes
<1>6. ASSUME NEW r \in Calls, Esi!FleetCall(r) PROVE EsiInv'
  <2>1. /\ UNCHANGED <<time, resetAt, fleetResetAt, fleetBudgetKnown, asked>>
        /\ \/ Esi!Move(r, "ended") /\ UNCHANGED <<fleetProbeAt, blindAt>>
           \/ /\ Esi!Move(r, "sent")
              /\ fleetProbeAt' = IF fleetBudgetKnown THEN fleetProbeAt ELSE time + Probe
              /\ blindAt' = IF fleetBudgetKnown THEN blindAt ELSE time
    BY <1>6 DEF Esi!FleetCall, Esi!Reserved, Esi!budget
  <2>2. call' \in [Calls -> Calling] /\ call'[r].at # "asleep" /\ \A s \in Calls \ {r} : call'[s] = call[s]
    <3>1. CASE Esi!Move(r, "ended")
      BY <1>1, <3>1, MovedTo
    <3>2. CASE Esi!Move(r, "sent")
      BY <1>1, <3>2, MovedTo
    <3> QED BY <2>1, <3>1, <3>2
  <2>3. /\ fleetProbeAt' \in Nat /\ blindAt' \in Nat \union {None}
        /\ blindAt' # None => blindAt' <= time' /\ (~fleetBudgetKnown' => fleetProbeAt' >= blindAt' + Probe)
    BY <1>1, <2>1
  <2> QED BY <1>1, <2>1, <2>2, <2>3 DEF EsiInv, EsiTypes
\* An unknown budget is probed an interval after now, or later.
<1>7. ASSUME fleetProbeAt' = Esi!Later(fleetProbeAt, time + Probe)
      PROVE  fleetProbeAt' \in Nat /\ (blindAt # None => fleetProbeAt' >= blindAt + Probe)
  <2>1. time + Probe \in Nat
    BY <1>1
  <2>2. fleetProbeAt' \in Nat /\ fleetProbeAt' >= time + Probe
    BY <1>1, <1>7, <2>1, MaxOfTwo
  <2> QED BY <1>1, <2>2
<1>8. ASSUME NEW r \in Calls, Esi!NoResponse(r) PROVE EsiInv'
  <2>1. /\ Esi!Move(r, "ended") /\ UNCHANGED <<time, resetAt, fleetResetAt, asked, blindAt>>
        /\ \/ fleetBudgetKnown' = FALSE /\ fleetProbeAt' = Esi!Later(fleetProbeAt, time + Probe)
           \/ UNCHANGED <<fleetBudgetKnown, fleetProbeAt>>
    BY <1>8 DEF Esi!NoResponse, Esi!budget
  <2>2. call' \in [Calls -> Calling] /\ call'[r].at # "asleep" /\ \A s \in Calls \ {r} : call'[s] = call[s]
    BY <1>1, <2>1, MovedTo
  <2>3. /\ fleetBudgetKnown' \in BOOLEAN /\ fleetProbeAt' \in Nat
        /\ blindAt # None /\ ~fleetBudgetKnown' => fleetProbeAt' >= blindAt + Probe
    <3>1. CASE fleetBudgetKnown' = FALSE /\ fleetProbeAt' = Esi!Later(fleetProbeAt, time + Probe)
      BY <1>7, <3>1
    <3>2. CASE UNCHANGED <<fleetBudgetKnown, fleetProbeAt>>
      BY <1>1, <3>2
    <3> QED BY <2>1, <3>1, <3>2
  <2> QED BY <1>1, <2>1, <2>2, <2>3 DEF EsiInv, EsiTypes
<1>9. ASSUME NEW r \in Calls, NEW h \in Headers, NEW ok \in BOOLEAN, Esi!Response(r, h, ok) PROVE EsiInv'
  <2>1. /\ UNCHANGED <<time, blindAt>> /\ fleetResetAt' = Esi!HeldUntil(r, h)
        /\ asked' = IF Esi!Heard(r, h) THEN Esi!Max({asked} \union Esi!Waits(r, h)) ELSE asked
        /\ \/ ~Esi!Heard(r, h) /\ UNCHANGED <<fleetBudgetKnown, fleetProbeAt>>
           \/ Esi!BudgetKnown(r, h) /\ fleetBudgetKnown' = TRUE /\ UNCHANGED fleetProbeAt
           \/ fleetBudgetKnown' = FALSE /\ fleetProbeAt' = Esi!Later(fleetProbeAt, time + Probe)
        /\ resetAt' = IF h.legacy # "none" THEN time + Esi!Min({MaxRetry, h.reset}) ELSE resetAt
        /\ Esi!GoOn(r, ok)
    <3>1. Esi!BudgetKnown(r, h) \in BOOLEAN
      BY DEF Esi!BudgetKnown
    <3> QED BY <1>9, <3>1 DEF Esi!Response
  <2>2. fleetResetAt' \in Nat /\ asked' = fleetResetAt'
    BY <1>1, <2>1, HeardHolds
  <2>3. resetAt' \in Nat
    <3>1. h.reset \in Nat /\ MaxRetry \in Nat
      BY ClientsAssumption
    <3>2. Esi!Min({MaxRetry, h.reset}) \in Nat
      BY <3>1 DEF Esi!Min
    <3> QED BY <1>1, <2>1, <3>2
  <2>4. call' \in [Calls -> Calling] /\ call'[r].at # "asleep" /\ \A s \in Calls \ {r} : call'[s] = call[s]
    <3>1. PICK left \in Esi!PartsLeft(r) :
            \/ /\ left > 0
               /\ call' = [call EXCEPT ![r] = [call[r] EXCEPT !.at = "idle", !.left = left - 1, !.kind = "chunks"]]
            \/ call' = [call EXCEPT ![r] = [call[r] EXCEPT !.at = "ended"]]
      BY <1>1, <2>1 DEF Esi!GoOn
    <3>2. call[r] \in Calling
      BY <1>1
    <3>3. left \in Nat
      BY <3>1, <3>2 DEF Esi!PartsLeft, Calling
    <3>4. CASE call' = [call EXCEPT ![r] = [call[r] EXCEPT !.at = "ended"]]
      <4>1. Esi!Move(r, "ended")
        BY <1>1, <3>4 DEF Esi!Move
      <4> QED BY <1>1, <4>1, MovedTo
    <3>5. CASE /\ left > 0
               /\ call' = [call EXCEPT ![r] = [call[r] EXCEPT !.at = "idle", !.left = left - 1, !.kind = "chunks"]]
      <4>1. left - 1 \in Nat
        BY <3>3, <3>5
      <4> DEFINE y == [call[r] EXCEPT !.at = "idle", !.left = left - 1, !.kind = "chunks"]
      <4>2. y \in Calling /\ y.at = "idle"
        BY <3>2, <4>1, NextPart
      <4>3. call' = [call EXCEPT ![r] = y]
        BY <3>5
      <4> HIDE DEF y
      <4> QED BY <1>1, <4>2, <4>3
    <3> QED BY <3>1, <3>4, <3>5
  <2>5. /\ fleetBudgetKnown' \in BOOLEAN /\ fleetProbeAt' \in Nat
        /\ blindAt # None /\ ~fleetBudgetKnown' => fleetProbeAt' >= blindAt + Probe
    <3>1. CASE fleetBudgetKnown' = FALSE /\ fleetProbeAt' = Esi!Later(fleetProbeAt, time + Probe)
      BY <1>7, <3>1
    <3>2. CASE Esi!BudgetKnown(r, h) /\ fleetBudgetKnown' = TRUE /\ UNCHANGED fleetProbeAt
      BY <1>1, <3>2
    <3>3. CASE UNCHANGED <<fleetBudgetKnown, fleetProbeAt>>
      BY <1>1, <3>3
    <3> QED BY <2>1, <3>1, <3>2, <3>3
  <2> QED BY <1>1, <2>1, <2>2, <2>3, <2>4, <2>5 DEF EsiInv, EsiTypes
<1> QED BY <1>2, <1>3, <1>4, <1>5, <1>6, <1>8, <1>9 DEF Esi!Next

\* A fleet source that asks EVE does so at the gate.
LEMMA GateHolds ==
  ASSUME EsiInv, [Esi!Next]_esiVars, NEW r \in Calls, call[r].kind = "fleet", call[r].at # "sent", call'[r].at = "sent"
  PROVE  time >= asked /\ (~fleetBudgetKnown /\ blindAt # None => time >= blindAt + Probe)
<1>1. /\ EsiTypes /\ asked = fleetResetAt /\ Probe \in Nat /\ time \in Nat /\ fleetProbeAt \in Nat
      /\ blindAt \in Nat \union {None} /\ fleetResetAt \in Nat /\ call \in [Calls -> Calling]
      /\ blindAt # None => blindAt <= time /\ (~fleetBudgetKnown => fleetProbeAt >= blindAt + Probe)
      /\ call[r].at # "asleep"
  BY ClientsAssumption DEF EsiInv, EsiTypes
<1>2. ~UNCHANGED esiVars /\ ~Esi!Tick
  BY DEF esiVars, Esi!Tick
<1>3. ASSUME NEW q \in Calls, Esi!Generic(q) \/ Esi!Wake(q) PROVE FALSE
  <2>1. q # r
    BY <1>1, <1>3 DEF Esi!Generic, Esi!Wake, Esi!Fleet
  <2> QED BY <1>1, <1>3, <2>1 DEF Esi!Generic, Esi!Wake, Esi!Move
<1>4. ASSUME NEW q \in Calls, Esi!NoResponse(q) PROVE FALSE
  BY <1>1, <1>4, MovedTo DEF Esi!NoResponse
<1>5. ASSUME NEW q \in Calls, NEW h \in Headers, NEW ok \in BOOLEAN, Esi!Response(q, h, ok) PROVE FALSE
  <2>1. call[q].at = "sent" /\ Esi!GoOn(q, ok)
    BY <1>5 DEF Esi!Response
  <2> QED BY <1>1, <2>1 DEF Esi!GoOn
<1>6. PICK q \in Calls : Esi!FleetCall(q)
  BY <1>2, <1>3, <1>4, <1>5 DEF Esi!Next
<1>7. q = r
  BY <1>1, <1>6 DEF Esi!FleetCall, Esi!Move
<1>8. ~(Esi!FleetRetryAt > time)
  BY <1>1, <1>6, <1>7, MovedTo DEF Esi!FleetCall
<1>9. Esi!FleetRetryAt \in Nat /\ Esi!FleetRetryAt >= fleetResetAt /\ (~fleetBudgetKnown => Esi!FleetRetryAt >= fleetProbeAt)
  BY <1>1, MaxOfTwo DEF Esi!FleetRetryAt
<1> QED BY <1>1, <1>8, <1>9

\* Whatever other callers hear, for any calls and headers: no fleet source asks EVE before
\* the waits they were told are over, nor twice in an interval under an unknown budget
\* (lib/esi/client.ts).
THEOREM FleetGateAlwaysHolds == Esi!Spec => Esi!FleetGateHolds
<1>1. [Esi!Next]_(Esi!vars) => [Esi!Next]_esiVars
  BY DEF Esi!vars, Esi!budget, Esi!gate, esiVars
<1>2. EsiInv /\ [Esi!Next]_(Esi!vars) => EsiInv'
  BY <1>1, EsiStep
<1>3. EsiInv /\ [Esi!Next]_(Esi!vars) =>
        \A r \in Calls : Esi!Fleet(r) /\ call[r].at # "sent" /\ call'[r].at = "sent" =>
          /\ time >= asked
          /\ ~fleetBudgetKnown /\ blindAt # None => time >= blindAt + Probe
  BY <1>1, GateHolds DEF Esi!Fleet
<1> QED BY <1>2, <1>3, EsiInit, PTL DEF Esi!Spec, Esi!FleetGateHolds

\* Run beside each other as the run checks them, both clients send nothing into a window
\* they were told of (lib/discord/rest.ts, lib/esi/client.ts).
THEOREM PacingAlwaysHolds == MCSpec => PacingHolds
<1>1. MCInit => Discord!Init /\ Esi!Init
  BY DEF MCInit
<1>2. [MCNext]_allvars => [Discord!Next]_(Discord!vars) /\ [Esi!Next]_(Esi!vars)
  <2>1. ASSUME UNCHANGED discordVars PROVE UNCHANGED (Discord!vars)
    BY <2>1 DEF discordVars, Discord!vars
  <2>2. ASSUME UNCHANGED esiVars PROVE UNCHANGED (Esi!vars)
    BY <2>2 DEF esiVars, Esi!vars, Esi!budget, Esi!gate
  <2> QED BY <2>1, <2>2 DEF MCNext, JobMoves, DiscordMoves, EsiMoves, allvars
<1>3. Discord!Spec => Discord!NeverIntoAWindow
  BY DiscordNeverIntoAWindow
<1>4. Esi!Spec => Esi!FleetGateHolds
  BY FleetGateAlwaysHolds
<1> QED BY <1>1, <1>2, <1>3, <1>4, PTL DEF MCSpec, PacingHolds, Discord!Spec, Esi!Spec
=============================================================================
