SPECIFICATION Spec
CONSTANTS
  u1 = u1
  u2 = u2
  f1 = f1
  f2 = f2
  r1 = r1
  r2 = r2
  ign = ign
  User = {u1}
  Filter = {f1}
  Role = {r1, ign}
  Ignored = {ign}
  NoChat = none
  RoleFilters <- OneFilterRole
  Created = {r1}
  Cmd = {c1, c2}
  Thread = {t1, t2}
  Free = free
  Ops = {"remove", "destroy"}
  Faults = {}
  MaxCmds = 2
  MaxFaults = 0
  MaxCopies = 1
PROPERTIES
  DropsOnlyTheGone
CHECK_DEADLOCK FALSE
