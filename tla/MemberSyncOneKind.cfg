SPECIFICATION KindSpec
CONSTANTS
  u1 = u1
  u2 = u2
  f1 = f1
  f2 = f2
  r1 = r1
  r2 = r2
  ign = ign
  User = {u1}
  Filter = {f1, f2}
  Role = {r1, r2}
  Ignored = {}
  NoChat = none
  RoleFilters <- TwoRoleFilters
  Created = {r1, r2}
  Cmd = {c1, c2}
  Thread = {t1, t2}
  Free = free
  Ops = {"add", "remove", "destroy"}
  Faults = {}
  MaxCmds = 2
  MaxFaults = 0
  MaxCopies = 1
SYMMETRY Symmetry
INVARIANTS
  AddsCovered
  RemovesCovered
  OneWriter
  CheckedRoleExists
CHECK_DEADLOCK FALSE
