CONSTANTS
  u1 = u1
  u2 = u2
  admin = admin
  hr = hr
  d1 = d1
  d2 = d2
  k1 = k1
  r1 = r1
  r2 = r2
  Users = {u1, u2}
  Roles = {admin, hr}
  Departments = {d1, d2}
  Bases = {k1}
  Admin = admin
  Changes <- Bodies
  Requests = {r1, r2}
  None = None
  FirstUsers <- StartUsers
  MaxCommits = 3
SPECIFICATION Spec
SYMMETRY Symmetry
INVARIANTS ContextOfItsMoment
PROPERTIES LastAdminGoesByItself UpdatesWriteDifferences
CHECK_DEADLOCK FALSE
