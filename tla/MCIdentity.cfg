SPECIFICATION MCSpec
CONSTANTS
  a1 = a1
  a2 = a2
  c1 = c1
  c2 = c2
  NoAccount = NoAccount
  NoChar = NoChar
  Accounts <- MCAccounts
  Chars <- MCChars
  BootstrapChars <- MCBootstrap
  MaxTransfers = 1
  MaxCallbacks = 1
  MaxFindings = 1
  Curable = {}
  AdminTiers = {"member", "associate"}
VIEW WithoutOutput
SYMMETRY AccountSymmetry
INVARIANTS NothingOutlivesAccount
PROPERTIES CurrentOwnerKeepsCharacter BootstrapNotReearned EveryChangeWakes  PendingHeldForApproval TierMachine
