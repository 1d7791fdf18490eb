CONSTANTS
  Drives = {1, 2, 3, 4}
  MaxRaidDisks = 3
  MaxVolumes = 2
  Volumes <- MC_Volumes
  Unbound = {2}
  Arrays = 2
  MaxDegraded = 1
CHECK_DEADLOCK FALSE
SPECIFICATION Spec
INVARIANT Divisible
INVARIANT DrivesBesideArrays
INVARIANT LeastLines
