CONSTANTS
  Pages = {p1}
  Calls = {k1}
  Skews <- MCSkews
  Duration = 1
  Horizon = 2
  MaxExtensions = 1
  None = None
SPECIFICATION FairSpec
PROPERTIES OverdueIsCollected SeatReachesPage LateSubmissionsWereAskedInTime HerRowIsKept
