\* Three contracts of two tenants, in pages of two, and a client that reads and pages.
SPECIFICATION Spec
CONSTANTS
  Clients = {c1}
  Tenants = {t1, t2}
  Contracts = {1, 2, 3}
  Times = {1}
  Kinds = {}
  Names = {n1}
  Parts = {p1, p2}
  PageSize = 2
  None = none
SYMMETRY Symmetry
INVARIANTS
  ReadsInv
  CompletedReadIsWhole
  PagingSkipsNothing
PROPERTIES
  RepeatsOnlyAfterArrivals
