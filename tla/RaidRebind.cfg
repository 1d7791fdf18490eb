CONSTANTS
  Nothing = Nothing  NoPage = NoPage  ErrorPage = ErrorPage
  Drives = {d1, d2, d3, d4}
  Ids = {0, 1}
  Uuids = {u1, u2}
  MinDrives = 2
  Modes = {"WRITE_THROUGH"}
  Browsers = {b1}
  Failing = {}
CONSTRAINT MC_Few
SYMMETRY MC_Symmetry
SPECIFICATION Spec
PROPERTY UnboundStaysUnbound
