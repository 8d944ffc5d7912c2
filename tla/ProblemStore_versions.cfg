SPECIFICATION Spec
CONSTANTS
  Admins = {a1, a2}
  Names = {zip, tgz}
  Pods = {p1, p2}
  MaxFiles = 4
  Rules = {"alone", "frozen"}
SYMMETRY Symmetry
INVARIANTS UploadsNeverCollide UsedVersionsExist RefIsStored SessionSeedsAlike
PROPERTIES OnlyOverwriteChanges
CHECK_DEADLOCK FALSE
