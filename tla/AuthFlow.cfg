CONSTANTS
  u1 = u1  u2 = u2  ch1 = ch1  ch2 = ch2  co1 = co1  co2 = co2  al = al
  User = {u1, u2}  Char = {ch1, ch2}  Corp = {co1, co2}  Alliance = {al}  None = none
  CorpOf <- TwoCorps  AllianceOf <- Alliances  Known = {}
  Web = {w1}  Bot = {b1, b2}
  Faults = {"db", "crash"}
  MaxCodes = 1  MaxFailures = 1  MaxLeaves = 1
SPECIFICATION HFairSpec
INVARIANTS TypeOK SpentOnceLinked
PROPERTIES DuplicateIsFineUntilFailure EventuallyCoded EventuallyForgotten
CHECK_DEADLOCK FALSE
