CONSTANTS
  Accounts = {a1, a2}
  Devices = {p1, p2}
  Requests = {q1, q2}
  Sessions = {s1, s2}
  Challenges = {c1}
  Workers = {w1, w2}
  k1 = k1
  k2 = k2
  Keys = {k1, k2}
  Canonical <- OneKey
  Caps = {shared}
  Batch = 1
  PerKey = 1
  NoAccount = NoAccount
  NoDevice = NoDevice
  Idle = Idle
  Consenting = {e1}
  Chars = {s1, s2}
  Fleets = {f1}
  NoChar = NoChar
  NoFleet = NoFleet
  MaxIds = 2
  MaxChanges = 1
  MaxTokens = 3
  MaxMinute = 2
  Cooldown = 1
  Budget = 1
  Waits = {0, 2}
  MaxHour = 3
  MaxGiven = 2
  IntentTTL = 1
  ReceiptTTL = 2
  Retention = 2
SPECIFICATION MCSpec
SYMMETRY Symmetry
INVARIANTS AllBacked OnceEach CheckedStayed
PROPERTIES DecisionsStay
CHECK_DEADLOCK FALSE
