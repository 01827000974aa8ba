CONSTANTS
  u1 = u1  u2 = u2  ch1 = ch1  ch2 = ch2  co1 = co1  co2 = co2  al = al
  User = {u1}  Char = {ch1}  Corp = {co1, co2}  Alliance = {al}  None = none
  CorpOf <- OneCorp  AllianceOf <- Alliances  Known = {co1}
  Web = {w1}  Bot = {b1}
  Faults = {"crash"}
  MaxCodes = 2  MaxFailures = 1  MaxLeaves = 0
SPECIFICATION HFairSpec
PROPERTIES DuplicateIsFine
CHECK_DEADLOCK FALSE
