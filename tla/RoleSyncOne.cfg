CONSTANTS
  n1 = n1  ign = ign
  Name = {n1, ign}  Ignored = {ign}  Fresh = fresh  Blank = blank  Free = free
  Id <- Ids3  IdAtStart <- First
  Cmd = {c1, c2}  Thread = {t1, t2}
  Ops = {"add", "destroy"}  Faults = {"broker"}
  MaxCmds = 2  MaxFaults = 1  MaxCopies = 1  MaxQueue = 3
SPECIFICATION Spec
SYMMETRY Symmetry
INVARIANTS TypeOK OneRolePerName
PROPERTIES IgnoredStay 
CHECK_DEADLOCK FALSE
