SPECIFICATION Spec
CONSTANTS
  Flows = {f1, f2, f3, f4}
  Keys = {alice, bob}
  Contracts = {c1, c2}
  LastPage = 1
  NoKey = NoKey
  Nobody = Nobody
  Nothing = Nothing
SYMMETRY Symmetry
CHECK_DEADLOCK FALSE
INVARIANTS
  OwnContractsOnly
  ListFollowsOffset
  SelectionIsShown
  WorkspaceInv
