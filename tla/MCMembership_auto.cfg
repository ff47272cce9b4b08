SPECIFICATION LiveSpec
CONSTANTS
  a1 = a1
  a2 = a2
  c1 = c1
  c2 = c2
  r1 = r1
  r2 = r2
  NoAccount = NoAccount
  NoChar = NoChar
  Accounts = {a1}
  Chars = {c1}
  AdminTiers = {"associate"}
  Runs = {r1}
  MaxClock = 1
PROPERTIES ReturnedToAutoConverges
