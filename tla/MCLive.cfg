SPECIFICATION MCSpec
CONSTANTS
  a1 = a1
  a2 = a2
  c1 = c1
  w1 = w1
  x1 = x1
  NoJob = NoJob
  NoAccount = NoAccount
  Chars = {c1}
  Fleets = {f1, f2}
  Sources = {s1}
  Runs = {r1, r2}
  MaxGeneration = 2
  ClaimTime = 1
  EvidenceTime = 2
  IntentTime = 2
  MaxEpoch = 0
  NoFleet = NoFleet
  NoChar = NoChar
  NoRow = NoRow
  NoTicket = NoTicket
  NoClaim = NoClaim
  Nobody = Nobody
PROPERTIES WakesAnswered AssociateConverges OnlyLatestClaimCounts NoEvidenceReplayed MaintenanceSuffices
CHECK_DEADLOCK FALSE
