CONSTANTS
  n1 = n1  ign = ign
  Name = {n1}  Ignored = {}  Fresh = fresh  Blank = blank  Free = free
  Id <- Ids3  IdAtStart <- First
  Cmd = {c1}  Thread = {t1, t2}
  Ops = {"add"}  Faults = {"rest"}
  MaxCmds = 1  MaxFaults = 1  MaxCopies = 1  MaxQueue = 6
SPECIFICATION Spec
INVARIANTS OneRolePerName
CHECK_DEADLOCK FALSE
