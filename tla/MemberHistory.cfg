SPECIFICATION HSpec
CONSTANTS
  f1 = f1
  r1 = r1
  User = {u1}
  Filter = {f1}
  Role = {r1, ign}
  Ignored = {ign}
  NoChat = none
  RoleFilters <- OneFilterRole
  Created = {r1}
  Cmd = {c1, c2}
  Thread = {t1}
  Free = free
  Ops = {"add", "remove", "delete", "destroy", "sync"}
  Faults = {"crash", "broker", "rest", "db", "leave", "manual"}
  MaxCmds = 2
  MaxFaults = 1
  MaxCopies = 1
SYMMETRY Symmetry
INVARIANTS
  TypeOK
  Justified
PROPERTIES
  ImplementsGrants
CHECK_DEADLOCK FALSE
