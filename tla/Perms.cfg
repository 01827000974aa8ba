CONSTANTS
  sa = sa  p1 = p1  p2 = p2  p3 = p3
  Line = {sa, p1, p2, p3}  Bytes <- Lengths  Limit = 8
  User = {u1, u2}  IdAtStart <- Seeds  Founder = {u1}  ServerAdmins = sa  Cmd = {c1}  MaxId = 5
SPECIFICATION Spec
INVARIANTS TypeOK NothingLost
CHECK_DEADLOCK FALSE
