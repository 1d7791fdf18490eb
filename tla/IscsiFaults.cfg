CONSTANTS
  f1 = f1  f2 = f2  f3 = f3  t1 = t1  t2 = t2  t3 = t3  a1 = a1  a2 = a2
  NoFile = NoFile  NoPage = NoPage
  Names = {n1, n2}
  Luns = {0, 1}
  Arrays = {a1}
  Files = {f1}
  Iqns = {t1}
  Iqn <- MC_Iqn1
  ArrayOf <- MC_ArrayOf1
  Origin <- MC_Origin1
  Users = {u1}
  Browsers = {b1}
  Flags <- MC_OnOff
  Faults = {"scstadmin", "writecache"}
SYMMETRY MC_Symmetry
SPECIFICATION Spec
INVARIANT Lun0First
INVARIANT Servable
