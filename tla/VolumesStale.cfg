CONSTANTS
  NoPage = NoPage  NoOrigin = NoOrigin  Blank = Blank  Orphan = Orphan
  Arrays = {a1}
  VGs = {g1, g2, g3, g4}
  Names = {v1, v2}
  Sizes = {2}
  Extent = 2
  MinSize = 5
  DriveSize = 1
  MaxSize = 5
  Browsers = {b1, b2}
  Failing = {}
SYMMETRY MC_Symmetry
SPECIFICATION Spec
PROPERTY OnlyRemovedAreLost
