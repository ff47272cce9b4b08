SPECIFICATION Spec
CONSTANTS
  o1 = o1
  o2 = o2
  l1 = l1
  i1 = i1
  Accounts = {o1, o2}
  Fickle = {o2}
  Requests = {r1, r2}
  People = {p1, p2}
  Humans = {h1, h2}
  Pools = {l1}
  Items = {i1}
  PoolOf <- MCPoolOf
  Qty <- MCQty
  Totals = {101, 121}
  Prices = {1, 40}
  ShareCounts = {100, 250}
  Percents = {0, 1000}
  MaxMoney = 120
  MaxClock = 0
  MaxLog = 3
  NoRequest = NoRequest
  NoValue = NoValue
  Unpaid = Unpaid
SYMMETRY Symmetric
INVARIANTS BookAddsUp NeverOverspent LogBelievable
PROPERTIES FrozenOncePaid LedgerKept
CHECK_DEADLOCK FALSE
