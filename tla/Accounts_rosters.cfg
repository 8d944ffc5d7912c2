CONSTANTS
  Jobs = {j1, j2}
  Uids = {u1, u2}
  Emails = {e1, e2}
  ExtIds = {n1}
  Orgs = {o1}
  Batches = {b1, b2}
  None = None
  o1 = o1
  b1 = b1
  b2 = b2
  e1 = e1
  e2 = e2
  n1 = n1
  OrgOf <- MCOrgOf
  Sheets <- MCSheets
SYMMETRY Symm
SPECIFICATION Spec
INVARIANTS TypeOK WholeImport KnownPassword OrphanOnlyByRace
PROPERTIES HistoryIsKept
CHECK_DEADLOCK FALSE
