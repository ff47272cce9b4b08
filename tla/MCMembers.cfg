SPECIFICATION MCSpec
CONSTANTS
  a1 = a1
  c1 = c1
  c2 = c2
  r1 = r1
  r2 = r2
  call1 = call1
  route1 = route1
  route2 = route2
  None = None
  Calls = {r1, r2, call1}
  Routes = {route1, route2}
  Max429Retries = 1
  Delays = {0, 2}
  MaxSecond = 3
  Headers <- Answers
  Probe = 2
  MaxRetry = 2
  MaxParts = 1
  MaxTime = 2
  NoAccount = NoAccount
  NoChar = NoChar
  Accounts = {a1}
  Chars = {c1, c2}
  AdminTiers = {"associate"}
  Runs = {r1, r2}
  MaxClock = 2
SYMMETRY Symmetry
INVARIANTS ConfirmedIsCurrent
PROPERTIES SystemTierMatchesLatestRead OlderRunNeverWins PacingHolds
CHECK_DEADLOCK FALSE
