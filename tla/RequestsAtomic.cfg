CONSTANTS
  f1 = f1  t1 = t1  a1 = a1
  NoFile = NoFile  NoPage = NoPage  NoRequest = NoRequest
  NoClient = NoClient
  Clients = {c1, c2}
  Plugins = {"cgi", "lua"}
  Names = {n1, n2}
  Luns = {0, 1}
  Arrays = {a1}
  Files = {f1}
  Iqns = {t1}
  Iqn <- MC_Iqn
  ArrayOf <- MC_ArrayOf
  Origin <- MC_Origin
  Users = {u1}
  Flags <- MC_Flags
  Faults = {"check"}
SYMMETRY MC_Symmetry
SPECIFICATION Spec
INVARIANT WellFormedStore
PROPERTY AtomicHandlers
CONSTRAINT MC_SmallStore
