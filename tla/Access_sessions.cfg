CONSTANTS
  Browsers = {b1}
  Requests = {r1, r2}
  Users = {u1, u2}
  Admins = {}
  Orgs = {o1, o2}
  MaxAge = 2
  MaxRenewals = 1
  MaxChanges = 2
  None = None
SYMMETRY Symm
SPECIFICATION Spec
INVARIANTS BoundedStaleness ReminderStays OrgScope LastLoginHolds
CHECK_DEADLOCK FALSE
