SPECIFICATION Spec
CONSTANTS
  u1 = u1  u2 = u2
  r1 = r1  r2 = r2  r3 = r3
  t1 = t1  t2 = t2
  None = None
  Users = {u1}
  Requests = {r1, r2, r3}
  Calls = {n1}
  Servers = {s1, s2}
  Interests = {i1, i2}
  Tastes = {t1, t2}
  UserOf <- OneUser
  TasteOf <- Tastes2
  AsyncServers = {s1}
  MaxNight = 1
  MaxFaults = 1
  InOrderReplies = TRUE
INVARIANTS TypeOK CursorContinues LatestRequestKept
PROPERTIES ImplementsPromise
CHECK_DEADLOCK FALSE
SYMMETRY Alike
