SPECIFICATION MCSpec
CONSTANTS
  a1 = a1
  a2 = a2
  c1 = c1
  c2 = c2
  d1 = d1
  d2 = d2
  s3 = s3
  k1 = k1
  k2 = k2
  w1 = w1
  w2 = w2
  f1 = f1
  f2 = f2
  Accounts = {a1, a2}
  Characters = {c1, c2}
  Users = {u1, u2}
  OwnerOf <- Owns
  Tiers = {"pending", "member", "alumni"}
  MaxChanges = 4
  MaxFaults = 2
  Chars = {c1}
  Devices = {d1, d2}
  Sessions = {w1, w2, s3}
  Fleets = {k1, k2}
  AccountOf <- Owners
  DeviceOf <- Holders
  MaxMessages = 2
  MaxGen = 2
  Corps = {k1, k2}
  CorpOf <- InCorp
  Notes = {1}
  CorpOfNote <- Against
  Structures = {d1}
  CorpOfStructure <- Anchored
  Runs = {w1, w2}
  MaxDesignations = 2
  MaxMishaps = 1
  NoUser = NoUser
  NoHolder = NoHolder
  NoLease = NoLease
  Workers = {w1, w2}
  Flows = {f1, f2}
  Scopes = {"base", "fleet"}
  Required = {"base"}
  FleetRead = "fleet"
  MaxTokens = 3
  Consents <- Granted
  Parts = {"watch"}
  NoFlow = NoFlow
  Idle = Idle
PROPERTIES NoBacklogReplayed
CHECK_DEADLOCK FALSE
