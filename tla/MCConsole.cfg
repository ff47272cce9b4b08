SPECIFICATION MCSpec
CONSTANTS
  a1 = a1
  c1 = c1
  c2 = c2
  r1 = r1
  r2 = r2
  Actors = {x1, x2}
  Presses = {r1, r2}
  Mains = {c1, c2}
  MaxAudit = 2
  Operators = {a1}
  Forms = {r1, r2}
  Names = {x1, x2}
  Alts = {x2}
  MaxPayments = 2
  None = None
  Gone = Gone
  Target = Target
  NoJob = NoJob
  Accounts = {a1}
  Sources = {}
  Payloads <- Wakes
  Workers = {r1, r2}
  Scopes = {"all"}
  Worked = {"discord-roles"}
  ClaimLimit = 2
  RetryLimit = 1
  MaxRows = 2
  MaxJobs = 4
  MaxTicks = 1
  MaxFaults = 1
SYMMETRY Symmetry
INVARIANTS NoLostWake AnswersAreTrue
CHECK_DEADLOCK FALSE
