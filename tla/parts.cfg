\* Each part by itself: the initial state picks one.
SPECIFICATION PartsSpec
CONSTANTS
  None = None
  Users = {u1, u2}
  States = {s1, s2}
  Callbacks = {b1, b2}
  Ttl = 1
  MaxTime = 2
  Contexts = {k1}
  Conversations = {v1, v2}
  Confirmations = {f1}
  Replies = {r1, r2}
  Lifetime = 1
  LastTime = 2
  UserIds = {n1, n2}
  Subjects = {g1, g2}
  Addresses = {a1, a2, a3}
  Passwords = {w1}
  Logins = {l1, l2, l3}
  Projects = {p1, p2}
  Items = {i1}
  x1 = x1
  x2 = x2
  Statuses = {x1, x2}
  References = {"started", "x2", "done"}
  Named <- MCNamed
  Operations = {o1}
  DefaultProject = p1
  Runs = {t1, t2}
  MaxIterations = 1
  MaxCalls = 1
  Clients = {"plane", "hrm"}
  Companies = {c1, c2}
  Employees = {d1, d2}
  ChatUsers = {h1, h2}
  Emails = {m1, m2}
  Writers = {q1, q2}
  Staff = {e1, e2}
  Teams = {y1}
  Readers = {z1}
SYMMETRY PartsSymmetry
INVARIANTS PartsTypeOK
  GoogleSessionsReachTheirAccount SuccessWasShown LoneRunsKeepTheirSelection AnswersAreDue
PROPERTIES StatesAreOneShot ConfirmedOnce AccountsKeepTheirLinks
  WritesFollowTheirTask WritesHaveAuthors
CHECK_DEADLOCK FALSE
