SPECIFICATION FairSpec
CONSTANTS
  u1 = u1  u2 = u2
  r1 = r1  r2 = r2  r3 = r3
  t1 = t1  t2 = t2
  None = None
  Users = {u1}
  Requests = {r1, r2}
  Calls = {n1, n2}
  Servers = {s1}
  Interests = {i1}
  Tastes = {t1, t2}
  UserOf <- OneUser
  TasteOf <- Tastes2
  AsyncServers = {s1}
  MaxNight = 2
  MaxFaults = 0
  InOrderReplies = TRUE
PROPERTIES LatestDelivered EveryoneAnswered
CHECK_DEADLOCK FALSE
