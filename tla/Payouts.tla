------------------------------ MODULE Payouts -------------------------------
(* One payout operation: its loot pools, its roster, the split of the loot   *)
(* and the log of payments (services/payouts.ts, payout-loot.ts,             *)
(* core/payout-split.ts).  A request of an operator is two steps.  It opens  *)
(* with what the code reads before the operation's row lock: whether the     *)
(* actor may act, and which operation a participant, a pool or an item       *)
(* belongs to.  Everything from SELECT ... FOR UPDATE to the commit is the   *)
(* second step, and what the operator asked for is chosen there, for nothing *)
(* reads it earlier.  Money is in cents, shares in hundredths, the corp's    *)
(* share in hundredths of a percent.                                         *)
EXTENDS Naturals, Sequences, FiniteSets, Functions

CONSTANTS
  Accounts,       \* accounts that act
  Fickle,         \* bound: those whose standing changes while they act
  Requests,       \* requests in flight
  People,         \* payout_participant ids; an id is used once
  Humans,         \* who a pasted name stands for: an account, or a bare name
  Pools, Items,   \* loot_pool and loot_item ids
  PoolOf, Qty,    \* the pool an item is in, and how many there are
  Totals, Prices, ShareCounts, Percents,   \* what operators may enter
  MaxMoney,       \* the largest value of a numeric(20, 2) column, in cents
  MaxClock,       \* bound: readings of the database clock
  MaxLog,         \* bound: payment rows of one participant
  NoRequest, NoValue, Unpaid

Money == 0..MaxMoney

ASSUME PayoutsAssumption ==
  /\ MaxMoney \in Nat /\ MaxClock \in Nat /\ MaxLog \in Nat
  /\ Totals \subseteq Nat /\ Prices \subseteq Nat
  /\ 100 \in ShareCounts /\ ShareCounts \subseteq Nat \ {0}
  /\ \A x \in Percents : x \in Nat /\ x <= 10000
  /\ PoolOf \in [Items -> Pools] /\ Qty \in [Items -> Nat \ {0}]
  /\ Unpaid \notin Nat /\ NoValue \notin Nat
  /\ Fickle \subseteq Accounts
  \* the rows of a table
  /\ IsFiniteSet(People) /\ IsFiniteSet(Pools) /\ IsFiniteSet(Items)
ASSUME RangeAssumption == ShareCounts \subseteq 1..999999   \* assertSharesInRange

(* pool and item hold total_value, NoValue when there is no row; part the    *)
(* participants; log their payment rows; operators the active members;       *)
(* request what is in flight: its actor and the row it looked up.            *)
VARIABLES status, creator, pct, pool, item, part, log, operators, admins, request
book == <<pct, pool, item, part>>
vars == <<status, creator, pct, pool, item, part, log, operators, admins, request>>

Row    == [state : {"free", "on", "gone"}, who : Humans \union {NoValue},
           shares : ShareCounts, excluded : BOOLEAN,
           amount : Money, paid : Money \union {Unpaid}]
\* A row nobody has edited or been paid on: its columns' defaults.
Fresh(st, who) == [state |-> st, who |-> who, shares |-> 100, excluded |-> FALSE,
                   amount |-> 0, paid |-> Unpaid]
Gone   == Fresh("gone", NoValue)
Event  == [kind : {"paid", "reverted"}, amount : Money, at : Nat]
Target == People \union Pools \union Items \union {"operation", "deletion"}

Init ==
  /\ status = "none"
  /\ creator = NoValue
  /\ pct = 0
  /\ pool = [l \in Pools |-> NoValue]
  /\ item = [i \in Items |-> NoValue]
  /\ part = [p \in People |-> Fresh("free", NoValue)]
  /\ log = [p \in People |-> << >>]
  /\ operators = Accounts
  /\ admins \in SUBSET Accounts
  /\ request = [r \in Requests |-> NoRequest]

OnRoster(p) == part[p].state = "on"
Exists      == status \in {"draft", "finalized"}

-----------------------------------------------------------------------------
(* computeSplit and recalculate.                                            *)

Value(v)     == IF v = NoValue THEN 0 ELSE v
LootOf(pl)   == SumFunction([l \in Pools |-> Value(pl[l])])
Included(pt) == {p \in People : pt[p].state = "on" /\ ~pt[p].excluded}
SharesOf(pt) == SumFunctionOnSet([p \in People |-> pt[p].shares], Included(pt))
CorpBase(x, loot) == (loot * x) \div 10000
Shared(x, loot)   == loot - CorpBase(x, loot)

\* Variant, not the code: the value of a share is rounded up.
PerShareUp(x, loot, pt) ==
  IF SharesOf(pt) = 0 THEN 0
  ELSE (Shared(x, loot) * 100 + SharesOf(pt) - 1) \div SharesOf(pt)
PerShare(x, loot, pt) ==
  IF SharesOf(pt) = 0 THEN 0 ELSE (Shared(x, loot) * 100) \div SharesOf(pt)

ComputeSplit(x, loot, pt) ==
  [p \in People |-> IF p \in Included(pt)
                    THEN (PerShare(x, loot, pt) * pt[p].shares) \div 100 ELSE 0]

WithAmount(q, n)   == [q EXCEPT !.amount = n]
WithShares(q, n)   == [q EXCEPT !.shares = n]
WithExcluded(q, b) == [q EXCEPT !.excluded = b]
WithPaid(q, v)     == [q EXCEPT !.paid = v]
\* Variant, not the code: the amount of somebody excluded is left as it is.
RecalculatedIncluded(x, pl, pt) ==
  [p \in People |-> IF p \in Included(pt)
                    THEN WithAmount(pt[p], ComputeSplit(x, LootOf(pl), pt)[p])
                    ELSE pt[p]]
\* recalculate writes every participant's amount and nothing else.
Recalculated(x, pl, pt) ==
  LET amount == ComputeSplit(x, LootOf(pl), pt) IN
  [p \in People |-> IF pt[p].state = "on" THEN WithAmount(pt[p], amount[p]) ELSE pt[p]]

\* Variant, not the code: nobody looks at the range of a value.
ColumnsUnchecked(pl, it, pt) == TRUE
\* A transaction whose values overflow a column, or fall below its check, fails.
ColumnsFit(pl, it, pt) ==
  /\ \A l \in Pools : pl[l] \in Money \union {NoValue}
  /\ \A i \in Items : it[i] \in Money \union {NoValue}
  /\ \A p \in People : pt[p].amount \in Money

\* The end of an edit: recalculate runs, and the transaction commits.
Edit(x, pl, it, pt) ==
  /\ pct' = x /\ pool' = pl /\ item' = it
  /\ part' = Recalculated(x, pl, pt)
  /\ ColumnsFit(pool', item', part')
  /\ UNCHANGED <<status, creator, log, operators, admins>>

-----------------------------------------------------------------------------
(* Who may act, and what a request has looked up before the lock.           *)

AccountsChange ==
  /\ operators' \in {S \in SUBSET Accounts : S \ Fickle = operators \ Fickle}
  /\ admins' \in {S \in SUBSET Accounts : S \ Fickle = admins \ Fickle}
  /\ UNCHANGED <<status, creator, book, log, request>>

Found(t) == /\ t \in People => OnRoster(t)
            /\ t \in Pools => pool[t] # NoValue
            /\ t \in Items => item[t] # NoValue

Open(r, a, t) ==
  /\ request[r] = NoRequest
  /\ a \in operators                       \* requirePayoutOperator
  /\ t = "deletion" => a \in admins
  /\ Found(t)
  /\ request' = [request EXCEPT ![r] = [actor |-> a, target |-> t]]
  /\ UNCHANGED <<status, creator, book, log, operators, admins>>

\* The second step of request r, once it holds the operation's lock.
Locked(r, t) ==
  /\ request[r] # NoRequest
  /\ request[r].target = t
  /\ Exists
  /\ request' = [request EXCEPT ![r] = NoRequest]

\* Refused under the lock, or rolled back for any other reason.
Fail(r) ==
  /\ request[r] # NoRequest
  /\ request' = [request EXCEPT ![r] = NoRequest]
  /\ UNCHANGED <<status, creator, book, log, operators, admins>>

\* Rows of either kind count, so a revert lifts nothing.
HasPayments == \E p \in People : log[p] # << >>
Editable == status = "draft" /\ ~HasPayments

-----------------------------------------------------------------------------
(* Roster.                                                                  *)

\* A new row for each of the people of H, under an id nobody had before.
Free          == {p \in People : part[p].state = "free"}
Seatings(H)   == UNION {Bijection(S, H) : S \in SUBSET Free}
Seat(pt, f)   == [p \in People |->
                    IF p \in DOMAIN f THEN Fresh("on", f[p]) ELSE pt[p]]
Cleared(pt)   == [p \in People |-> IF pt[p].state = "on" THEN Gone ELSE pt[p]]
WithItems(f)  == [i \in Items |-> IF i \in DOMAIN f THEN Qty[i] * f[i] ELSE item[i]]
PoolValue(it, l) == SumFunctionOnSet([i \in Items |-> Value(it[i])],
                                     {i \in Items : PoolOf[i] = l})

\* createOperationWithContents, with an appraised pool or none and a roster.
Create(a, x, L, f, H) ==
  /\ status = "none"
  /\ a \in operators
  /\ status' = "draft" /\ creator' = a /\ pct' = x
  /\ item' = WithItems([i \in {i \in DOMAIN f : PoolOf[i] \in L} |-> f[i]])
  /\ pool' = [l \in Pools |-> IF l \in L THEN PoolValue(item', l) ELSE NoValue]
  /\ \E seats \in Seatings(H) : part' = Recalculated(x, pool', Seat(part, seats))
  /\ ColumnsFit(pool', item', part')
  /\ UNCHANGED <<log, operators, admins, request>>

SetCorpSharePct(r, x) ==
  /\ Locked(r, "operation") /\ Editable
  /\ Edit(x, pool, item, part)

\* The whole roster goes; the new one has one row for each name.
SetRoster(r, H) ==
  /\ Locked(r, "operation") /\ Editable
  /\ \E seats \in Seatings(H) : Edit(pct, pool, item, Seat(Cleared(part), seats))

\* Variant, not the code: nobody looks for the same human on the roster.
NoTwin(h) == FALSE
Twin(h) == \E p \in People : OnRoster(p) /\ part[p].who = h
\* Another character of somebody listed collapses into the row there is; a bare
\* name listed already is refused.
AddParticipant(r, h) ==
  /\ Locked(r, "operation") /\ Editable
  /\ \/ Twin(h) /\ Edit(pct, pool, item, part)
     \/ /\ ~Twin(h)
        /\ \E seats \in Seatings({h}) : Edit(pct, pool, item, Seat(part, seats))

\* The row was looked up before the lock and may be gone by now: the update
\* then touches no row, and the amounts are computed all the same.
Touched(p, new) == IF OnRoster(p) THEN [part EXCEPT ![p] = new] ELSE part

SetParticipantShares(r, p, n) ==
  /\ Locked(r, p) /\ Editable
  /\ Edit(pct, pool, item, Touched(p, WithShares(part[p], n)))
SetParticipantExcluded(r, p, b) ==
  /\ Locked(r, p) /\ Editable
  /\ Edit(pct, pool, item, Touched(p, WithExcluded(part[p], b)))
RemoveParticipant(r, p) ==
  /\ Locked(r, p) /\ Editable
  /\ Edit(pct, pool, item, Touched(p, Gone))

-----------------------------------------------------------------------------
(* Loot.                                                                    *)

AddFlatPool(r, l, v) ==
  /\ Locked(r, "operation") /\ Editable
  /\ pool[l] = NoValue
  /\ Edit(pct, [pool EXCEPT ![l] = v], item, part)

\* The pool's total is the sum of its lines, never the appraisal's own.
AddAppraisedPool(r, l, f) ==
  /\ Locked(r, "operation") /\ Editable
  /\ pool[l] = NoValue
  /\ \A i \in DOMAIN f : PoolOf[i] = l
  /\ Edit(pct, [pool EXCEPT ![l] = PoolValue(WithItems(f), l)], WithItems(f), part)

\* Variant, not the code: the pool's total is left as it was appraised.
RepricedLineOnly(i, it) == pool
Repriced(i, it) == [pool EXCEPT ![PoolOf[i]] = PoolValue(it, PoolOf[i])]
\* The item is read again under the lock.
SetItemPrice(r, i, v) ==
  LET lines == [item EXCEPT ![i] = Qty[i] * v] IN
  /\ Locked(r, i) /\ Editable
  /\ item[i] # NoValue
  /\ Edit(pct, Repriced(i, lines), lines, part)

\* A second delete of one pool finds it gone and returns.
DeletePool(r, l) ==
  /\ Locked(r, l)
  /\ \/ pool[l] = NoValue /\ UNCHANGED <<status, creator, book, log, operators, admins>>
     \/ /\ pool[l] # NoValue /\ Editable
        /\ Edit(pct, [pool EXCEPT ![l] = NoValue],
                [i \in Items |-> IF PoolOf[i] = l THEN NoValue ELSE item[i]], part)

-----------------------------------------------------------------------------
(* The commitment, and the money.                                           *)

FinalizeOperation(r) ==
  /\ Locked(r, "operation")
  /\ status' = "finalized"
  /\ UNCHANGED <<creator, book, log, operators, admins>>

\* Variant, not the code: a payment that was reverted does not count.
UnlockUnpaid(r) ==
  /\ Locked(r, "operation")
  /\ \/ status = "draft"
     \/ \A p \in People : part[p].paid = Unpaid
  /\ status' = "draft"
  /\ UNCHANGED <<creator, book, log, operators, admins>>
\* Its creator or an admin reopens it, until money has moved.
UnlockOperation(r) ==
  /\ Locked(r, "operation")
  /\ \/ status = "draft"
     \/ /\ request[r].actor = creator \/ request[r].actor \in admins
        /\ ~HasPayments
  /\ status' = "draft"
  /\ UNCHANGED <<creator, book, log, operators, admins>>

LastEvent(p) == log[p][Len(log[p])]
\* Variant, not the code: the clock alone stamps a payment.
ClockOnly(p, now) == now
\* nextPaymentAt: the reading, or just after the participant's last event.
NextPaymentAt(p, now) ==
  IF log[p] # << >> /\ LastEvent(p).at >= now THEN LastEvent(p).at + 1 ELSE now

Logged(p, kind, amount, now) ==
  log' = [log EXCEPT ![p] = Append(@,
            [kind |-> kind, amount |-> amount, at |-> NextPaymentAt(p, now)])]

\* Variant, not the code: nobody looks whether the participant is paid.
NeverPaid(p)   == FALSE
AlreadyPaid(p) == part[p].paid # Unpaid
RecordPayment(r, p, now) ==
  /\ Locked(r, p)
  /\ status = "finalized"
  /\ OnRoster(p) /\ ~part[p].excluded
  /\ Len(log[p]) < MaxLog
  /\ \/ AlreadyPaid(p) /\ UNCHANGED <<part, log>>
     \/ /\ ~AlreadyPaid(p)
        /\ part' = [part EXCEPT ![p] = WithPaid(@, @.amount)]
        /\ Logged(p, "paid", part[p].amount, now)
  /\ UNCHANGED <<status, creator, pct, pool, item, operators, admins>>

RevertPayment(r, p, now) ==
  /\ Locked(r, p)
  /\ status = "finalized"
  /\ OnRoster(p) /\ AlreadyPaid(p)
  /\ Len(log[p]) < MaxLog
  /\ part' = [part EXCEPT ![p] = WithPaid(@, Unpaid)]
  /\ Logged(p, "reverted", part[p].paid, now)
  /\ UNCHANGED <<status, creator, pct, pool, item, operators, admins>>

\* Variant, not the code: an admin may delete whatever was paid.
AnyRoster  == TRUE
NobodyPaid == \A p \in People : part[p].paid = Unpaid
\* Every child row goes with the operation.
DeleteOperation(r) ==
  /\ Locked(r, "deletion")
  /\ NobodyPaid
  /\ status' = "deleted"
  /\ pool' = [l \in Pools |-> NoValue]
  /\ item' = [i \in Items |-> NoValue]
  /\ part' = Cleared(part)
  /\ log' = [p \in People |-> << >>]
  /\ UNCHANGED <<creator, pct, operators, admins>>

-----------------------------------------------------------------------------
Lines == UNION {[S -> Prices] : S \in SUBSET Items}

Begin == \/ \E a \in Accounts, x \in Percents, H \in SUBSET Humans :
              \E L \in {{}} \union {{l} : l \in Pools}, f \in Lines : Create(a, x, L, f, H)
         \/ \E r \in Requests, a \in Accounts, t \in Target : Open(r, a, t)

EditRoster(r) ==
  \/ \E H \in SUBSET Humans : SetRoster(r, H)
  \/ \E h \in Humans : AddParticipant(r, h)
  \/ \E p \in People, n \in ShareCounts : SetParticipantShares(r, p, n)
  \/ \E p \in People, b \in BOOLEAN : SetParticipantExcluded(r, p, b)
  \/ \E p \in People : RemoveParticipant(r, p)

EditLoot(r) ==
  \/ \E x \in Percents : SetCorpSharePct(r, x)
  \/ \E l \in Pools, v \in Totals : AddFlatPool(r, l, v)
  \/ \E l \in Pools, f \in Lines : AddAppraisedPool(r, l, f)
  \/ \E i \in Items, v \in Prices : SetItemPrice(r, i, v)
  \/ \E l \in Pools : DeletePool(r, l)

Settle(r) ==
  \/ FinalizeOperation(r) \/ UnlockOperation(r) \/ DeleteOperation(r)
  \/ \E p \in People, now \in 0..MaxClock :
       RecordPayment(r, p, now) \/ RevertPayment(r, p, now)

Next == \/ Begin \/ AccountsChange
        \/ \E r \in Requests : EditRoster(r) \/ EditLoot(r) \/ Settle(r) \/ Fail(r)

Spec == Init /\ [][Next]_vars

-----------------------------------------------------------------------------
TypeOK ==
  /\ status \in {"none", "draft", "finalized", "deleted"}
  /\ creator \in Accounts \union {NoValue}
  /\ pct \in Percents \union {0}
  /\ pool \in [Pools -> Money \union {NoValue}]
  /\ item \in [Items -> Money \union {NoValue}]
  /\ part \in [People -> Row]
  /\ log \in [People -> Seq(Event)]
  /\ operators \subseteq Accounts
  /\ admins \subseteq Accounts
  /\ request \in [Requests -> [actor : Accounts, target : Target] \union {NoRequest}]

(* Whatever was edited last, and through which path, every amount on the    *)
(* roster is the split of the loot as it is now: nobody finalizes numbers   *)
(* that an earlier pool, price, share or percentage left behind.            *)
AmountsAreTheSplit ==
  Exists => \A p \in People : OnRoster(p) =>
    part[p].amount = ComputeSplit(pct, LootOf(pool), part)[p]

(* A pool with items is worth its lines, repriced ones included.            *)
PoolsMatchLines ==
  \A i \in Items : item[i] # NoValue =>
    pool[PoolOf[i]] = PoolValue(item, PoolOf[i])

(* An account, and a bare name, draws one share of an operation.            *)
OneRowEach ==
  \A p, q \in People : OnRoster(p) /\ OnRoster(q) /\ part[p].who = part[q].who => p = q

(* Through whatever path and in whatever order it was edited, the operation *)
(* adds up: each human one row, each pool its lines, each row its share.    *)
BookAddsUp == OneRowEach /\ PoolsMatchLines /\ AmountsAreTheSplit

(* Rounding, exclusion and repricing never pay out more than the roster's   *)
(* part of the loot; what is left over is the corp's.                       *)
PaidOut == SumFunctionOnSet([p \in People |-> Value(part[p].paid)],
                            {p \in People : part[p].paid # Unpaid})
NeverOverspent == PaidOut <= Shared(pct, LootOf(pool))

(* The log tells the same story as the roster: pays and reverts alternate,  *)
(* each revert takes back what was paid, and the last event is a payment of *)
(* exactly the sum the participant is shown as paid.                        *)
LogTellsPaid ==
  \A p \in People :
    /\ \A k \in 1..Len(log[p]) :
         /\ log[p][k].kind =
              IF k = 1 \/ log[p][k - 1].kind = "reverted" THEN "paid" ELSE "reverted"
         /\ log[p][k].amount = part[p].amount
    /\ part[p].paid = IF log[p] # << >> /\ LastEvent(p).kind = "paid"
                      THEN part[p].amount ELSE Unpaid

(* Two payment events of one participant never tie or invert, though the    *)
(* clock may repeat a reading or step back (nextPaymentAt).                 *)
StampsIncrease ==
  \A p \in People : \A k \in 1..(Len(log[p]) - 1) : log[p][k].at < log[p][k + 1].at

(* The log can be believed: read in the order of its stamps it is a history *)
(* of payments and reverts that ends with what the roster shows, however    *)
(* requests interleave around the row lock and whatever the clock reads.    *)
LogBelievable == LogTellsPaid /\ StampsIncrease

(* Once any money has moved, reverted or not, nothing the split is computed *)
(* from changes again, and the operation stays finalized unless it is gone. *)
FrozenOncePaid ==
  [][HasPayments =>
       \/ status' = "deleted" /\ NobodyPaid
       \/ /\ status' = "finalized"
          /\ UNCHANGED <<pct, pool, item>>
          /\ \A p \in People : WithPaid(part'[p], part[p].paid) = part[p]]_vars

(* The operation keeps the ledger's promises.                               *)
Book == INSTANCE Ledger WITH
  phase <- CASE status = "none" -> "none"
             [] status = "draft" -> "open"
             [] status = "deleted" -> "gone"
             [] OTHER -> IF HasPayments THEN "settling" ELSE "committed",
  owed  <- [p \in People |-> part[p].amount],
  given <- [p \in People |-> part[p].paid]
LedgerKept == Book!Spec
=============================================================================
