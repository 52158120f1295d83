SPECIFICATION LiveSpec
CONSTANTS
  r1 = r1  r2 = r2  h1 = h1  h2 = h2  ip1 = ip1  ip2 = ip2
  o1 = o1  o2 = o2  o3 = o3  o4 = o4  t1 = t1  t2 = t2  t3 = t3  t4 = t4
  Rid = {r1}
  Handler = {h1, h2}
  Boot = Boot
  IP = {ip1, ip2}
  Obj = {o1, o2, o3}
  Tf = {t1, t2, t3}
  None = None
  Absent = Absent
  Torn = Torn
  RuleInput <- ServerRule
  SyncInput <- ServerSync
  FileInput <- ServerFile
  Serial = FALSE
  FreshAdds = FALSE
  AfterBoot = FALSE
  MaxPort = 2
  MaxReq = 2
  MaxBoot = 0
CHECK_DEADLOCK FALSE
PROPERTIES
  Answered
  DdnsNotStarved
