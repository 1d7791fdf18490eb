CONSTANTS
  NoPage = NoPage  NoOrigin = NoOrigin  Blank = Blank  Orphan = Orphan
  Arrays = {a1, a2}
  VGs = {g1, g2, g3}
  Names = {v1, v2}
  Sizes = {2, 4}
  Extent = 2
  MinSize = 6
  DriveSize = 3
  MaxSize = 9
  Browsers = {b1}
  Failing = {"dd", "pvcreate", "vgcreate", "lvm"}
SYMMETRY MC_Symmetry
SPECIFICATION Spec
INVARIANT TypeOK
INVARIANT NoOrphanedMappings
PROPERTY OnlyRemovedAreLost
PROPERTY ShrinksOnlyAsWarned
PROPERTY RemoveKeepsOthers
