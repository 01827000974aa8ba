CONSTANTS
  n1 = n1  ign = ign
  Name = {n1}  Ignored = {}  Fresh = fresh  Blank = blank  Free = free
  Id <- Ids3  IdAtStart <- First
  Cmd = {c1}  Thread = {t1}
  Ops = {"add", "destroy", "update"}  Faults = {"crash", "rest", "db", "manual", "overlap"}
  MaxCmds = 1  MaxFaults = 1  MaxCopies = 1  MaxQueue = 6
SPECIFICATION FairSpec
PROPERTIES EventuallyInSync
CHECK_DEADLOCK FALSE
