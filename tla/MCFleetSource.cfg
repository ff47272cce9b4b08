CONSTANTS
  Chars = {c1}
  Fleets = {f1}
  Sources = {s1, s2}
  Runs = {r1}
  MaxGeneration = 3
  ClaimTime = 1
  EvidenceTime = 1
  IntentTime = 1
  MaxEpoch = 1
  NoFleet = NoFleet
  NoChar = NoChar
  NoRow = NoRow
  NoTicket = NoTicket
  NoClaim = NoClaim
  Nobody = Nobody
  None = None
  Recruits = {1, 2}
  Target = target
  Actor = actor
  Accounts = {target, actor}
  Owners = {o1, o2}
  MaxLinks = 2
  Plan <- TwoHistories
  Groups = {"char"}
  DocumentedGroup <- GroupOfContracts
  Auctions = {1}
  Scopes = {"wallet"}
  PageSize = 2
  NewestAtFirst = 3
  MaxId = 4
  MaxRequests = 5
  MaxResponse = 2
  MaxTotal = 6
  Deadline = 2
  MaxWait = 1
  MaxTime = 2
SPECIFICATION MCSpec
SYMMETRY FullSymmetry
INVARIANTS SlotBacked OneProvedSource RowsBacked
PROPERTIES  OvertakenRunsInstallNothing SlotsAreFenced
CHECK_DEADLOCK FALSE
