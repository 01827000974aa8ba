CONSTANTS
  u1 = u1  u2 = u2  ch1 = ch1  ch2 = ch2  co1 = co1  co2 = co2  co3 = co3
  al1 = al1  al2 = al2  t1 = t1  t2 = t2  t3 = t3  t4 = t4
  User = {u1}  Char = {ch1}  Corp = {co1, co2, co3}  Alliance = {al1, al2}
  Name = {t1, t2, t3, t4}  None = none  NoRow = norow  Blank = blank
  CorpAtStart <- AllInCo1  RowAtStart <- Rows  Known = {co1}
  Bot = {b1}
  Faults = {}  Changes = {"switch"}
  MaxFailures = 0  MaxChanges = 1
SPECIFICATION FairSpec
PROPERTIES MembersFollow
CHECK_DEADLOCK FALSE
