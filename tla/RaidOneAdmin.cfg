CONSTANTS
  Nothing = Nothing  NoPage = NoPage  ErrorPage = ErrorPage
  Drives = {d1, d2, d3, d4, d5}
  Ids = {0, 1}
  Uuids = {u1, u2}
  MinDrives = 2
  Modes = {"WRITE_THROUGH", "WRITE_BACK"}
  Browsers = {b1}
  Failing = {"mdadm", "dd", "flashcache", "vgchange"}
CONSTRAINT MC_Few
SYMMETRY MC_Symmetry
SPECIFICATION Spec
INVARIANT RaidTypeOK
PROPERTY ArraysKeepVolumes
PROPERTY GrowKeepsSpares
PROPERTY DrivesInUseKept
PROPERTY CachesReturn
