CONSTANTS
  f1 = f1  f2 = f2  f3 = f3  t1 = t1  t2 = t2  t3 = t3  a1 = a1  a2 = a2
  NoFile = NoFile  NoPage = NoPage
  Names = {n1, n2}
  Luns = {0, 1}
  Arrays = {a1, a2}
  Files = {f1, f2}
  Iqns = {t1, t2}
  Iqn <- MC_Iqn2
  ArrayOf <- MC_ArrayOf2
  Origin <- MC_Origin2
  Users = {}
  Browsers = {b1, b2}
  Flags <- MC_On
  Faults = {}
SYMMETRY MC_Symmetry2
SPECIFICATION Spec
INVARIANT TypeOK
INVARIANT UniqueNames
INVARIANT UniqueLuns
PROPERTY EditsKeepExports
PROPERTY FailedArraysCleanedUp
